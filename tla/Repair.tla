------------------------------ MODULE Repair -------------------------------
(***************************************************************************)
(* `status --check --fix` and `empty --dangling`: broken records, as an    *)
(* unlocked scan found them and a second scan under the lock still finds   *)
(* them, are removed.  --fix also takes blank records and the temporaries  *)
(* of killed puts.                                                         *)
(***************************************************************************)
EXTENDS TrashRoot

fixFrame == <<live, staged, files, name, putLocals, rec, resLocals, empLocals,
              stamp, created, asked, lost>>

Dangling(n) == HasRecord(n) /\ ~HasPayload(n)
Blank(n) == HasRecord(n) /\ ~info[n].whole

(* trash_check::scan's fix targets, and empty's dangling_records.          *)
Broken(p) ==
  {n \in Names : Dangling(n) \/ (p \in Fixers /\ Blank(n))}
Leftovers(p) == IF p \in Fixers THEN temps ELSE {}

FixScan(p) ==
  /\ Step(p, "idle", "fix_lock")
  /\ Broken(p) # {} \/ Leftovers(p) # {}
  /\ found' = [found EXCEPT ![p] =
                 [n \in Names |-> IF n \in Broken(p) THEN info[n] ELSE NoRecord]]
  /\ seenTemps' = [seenTemps EXCEPT ![p] = Leftovers(p)]
  /\ UNCHANGED <<info, temps, lock, todo, fixFrame>>

(* A bug to catch: the repair does not take the lock (it holds it for the  *)
(* others only when it is free).                                           *)
FixUnlocked(p) ==
  /\ Step(p, "fix_lock", "fix_verify")
  /\ UNCHANGED <<info, temps, lock, found, scanLocals, fixFrame>>

FixLock(p) ==
  /\ Acquire(p, "fix_lock", "fix_verify")
  /\ UNCHANGED <<info, temps, found, scanLocals, fixFrame>>

(* --fix wants the same problem of the same record: its origin, or still   *)
(* no path.  --dangling compares names.                                    *)
StillBroken(p, n) ==
  /\ n \in Broken(p) /\ found[p][n] # NoRecord
  /\ p \in Fixers => /\ info[n].whole = found[p][n].whole
                     /\ info[n].whole => info[n].path = found[p][n].path

(* A bug to catch: what the scan found is removed without a second look.   *)
FixTrusted(p) ==
  /\ Step(p, "fix_verify", "fix_remove")
  /\ todo' = [todo EXCEPT ![p] = {n \in Names : found[p][n] # NoRecord}]
  /\ UNCHANGED <<info, temps, lock, found, seenTemps, fixFrame>>

FixVerify(p) ==
  /\ Step(p, "fix_verify", "fix_remove")
  /\ todo' = [todo EXCEPT ![p] = {n \in Names : StillBroken(p, n)}]
  /\ seenTemps' = [seenTemps EXCEPT ![p] = @ \cap temps]
  /\ UNCHANGED <<info, temps, lock, found, fixFrame>>

FixRecord(p, n) ==
  /\ pc[p] = "fix_remove" /\ n \in todo[p] /\ pc' = pc
  /\ todo' = [todo EXCEPT ![p] = @ \ {n}]
  /\ \/ info' = [info EXCEPT ![n] = NoRecord]
     \/ "record" \in Faults /\ info' = info
  /\ UNCHANGED <<temps, lock, found, seenTemps, fixFrame>>

FixTemp(p, b) ==
  /\ pc[p] = "fix_remove" /\ b \in seenTemps[p] /\ pc' = pc
  /\ seenTemps' = [seenTemps EXCEPT ![p] = @ \ {b}]
  /\ temps' = temps \ {b}
  /\ UNCHANGED <<info, lock, found, todo, fixFrame>>

(* All done, or Ctrl-C stops after the record in hand.                     *)
FixDone(p) ==
  /\ Release(p, "fix_remove")
  /\ (todo[p] = {} /\ seenTemps[p] = {}) \/ "stop" \in Faults
  /\ UNCHANGED <<info, temps, found, scanLocals, fixFrame>>

FixStep(p) ==
  \/ FixLock(p) \/ FixVerify(p) \/ FixDone(p)
  \/ \E n \in Names : FixRecord(p, n)
  \/ \E b \in seenTemps[p] : FixTemp(p, b)
=============================================================================
