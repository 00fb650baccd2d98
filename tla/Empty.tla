------------------------------- MODULE Empty -------------------------------
(***************************************************************************)
(* `rtrash empty` of one root.  Seen::take counts the trash without the    *)
(* lock (the user may be asked meanwhile); under the lock only what was    *)
(* counted goes.  A full empty takes every counted payload, then the rest  *)
(* of the counted names in info/; `empty DAYS` takes the old records that  *)
(* are still the counted items.  Rayon removes many victims at once, each  *)
(* payload before its record.                                              *)
(***************************************************************************)
EXTENDS Remove

empFrame == <<live, staged, name, putLocals, rec, resLocals, found, stamp,
              created, clobbered>>

(* Seen::take reads files/ and then info/.                                 *)
EmptyCount(p) ==
  /\ Step(p, "idle", "emp_count")
  /\ \E c \in 0..stamp : cut' = [cut EXCEPT ![p] = c]
  /\ seen' = [seen EXCEPT ![p] = [n \in Names |-> files[n].id]]
  /\ counted' = [counted EXCEPT ![p] =
                   {files[n].item : n \in {m \in Names : HasPayload(m)}}]
  /\ removed' = [removed EXCEPT ![p] = {}]
  /\ UNCHANGED <<files, info, temps, lock, seenInfo, midway, scanLocals,
                 discarded, empFrame>>

EmptyCountInfo(p) ==
  /\ Step(p, "emp_count", "emp_lock")
  /\ seenInfo' = [seenInfo EXCEPT ![p] = {n \in Names : HasRecord(n)}]
  /\ seenTemps' = [seenTemps EXCEPT ![p] = temps]
  /\ UNCHANGED <<files, info, temps, lock, seen, cut, midway, todo, asked,
                 discarded, empFrame>>

EmptyLock(p) ==
  /\ Acquire(p, "emp_lock", "emp_start")
  /\ UNCHANGED <<files, info, temps, scanLocals, empLocals, asked, discarded,
                 empFrame>>

(* A bug to catch: the counted name stands for the counted payload.        *)
SawName(p, n) == seen[p][n] # 0

(* saw_payload: the payload is the counted one.  With NoPayload.id = 0 the *)
(* comparison is also saw_item's "there was none then and is none now".    *)
SawPayload(p, n) == files[n].id = seen[p][n]

(* A blank record has no readable date and is never old.                   *)
Old(p, n) == HasRecord(n) /\ info[n].whole /\ info[n].batch <= cut[p]

Victims(p) ==
  IF cut[p] = 0
  THEN {n \in Names : HasPayload(n) /\ SawPayload(p, n)}
  ELSE {n \in Names : Old(p, n) /\ SawPayload(p, n) /\ n \in seenInfo[p]}

EmptyStart(p) ==
  /\ Step(p, "emp_start", "emp_wipe")
  /\ todo' = [todo EXCEPT ![p] = Victims(p)]
  /\ midway' = [midway EXCEPT ![p] = {}]
  /\ UNCHANGED <<files, info, temps, lock, seen, cut, seenInfo, seenTemps,
                 asked, discarded, empFrame>>

(* A bug to catch: the record goes before its payload.                     *)
EmptyRecordFirst(p, n) ==
  /\ pc[p] = "emp_wipe" /\ n \in todo[p] /\ pc' = pc
  /\ todo' = [todo EXCEPT ![p] = @ \ {n}]
  /\ info' = [info EXCEPT ![n] = NoRecord]
  /\ UNCHANGED <<files, temps, lock, empLocals, seenTemps, asked, discarded,
                 empFrame>>

EmptyPayload(p, n) ==
  /\ pc[p] = "emp_wipe" /\ n \in todo[p] /\ pc' = pc
  /\ todo' = [todo EXCEPT ![p] = @ \ {n}]
  /\ midway' = [midway EXCEPT ![p] = @ \cup {n}]
  /\ files' = [files EXCEPT ![n] = NoPayload]
  /\ Deletes(p, files[n])
  /\ UNCHANGED <<info, temps, lock, seen, cut, seenInfo, seenTemps, counted,
                 empFrame>>

(* A payload that cannot go stays, with its record.                        *)
EmptyKeep(p, n) ==
  /\ "payload" \in Faults
  /\ pc[p] = "emp_wipe" /\ n \in todo[p] /\ pc' = pc
  /\ todo' = [todo EXCEPT ![p] = @ \ {n}]
  /\ UNCHANGED <<files, info, temps, lock, empLocals, seenTemps, asked,
                 discarded, empFrame>>

EmptyRecord(p, n) ==
  /\ pc[p] \in {"emp_wipe", "emp_stop"} /\ n \in midway[p] /\ pc' = pc
  /\ midway' = [midway EXCEPT ![p] = @ \ {n}]
  /\ \/ info' = [info EXCEPT ![n] = NoRecord]
     \/ "record" \in Faults /\ info' = info
  /\ UNCHANGED <<files, temps, lock, seen, seenInfo, cut, scanLocals, asked,
                 discarded, empFrame>>

(* Ctrl-C: the victims not started stay, with their records.               *)
EmptyStop(p) ==
  /\ "stop" \in Faults
  /\ Step(p, "emp_wipe", "emp_stop")
  /\ todo[p] # {}
  /\ todo' = [todo EXCEPT ![p] = {}]
  /\ UNCHANGED <<files, info, temps, lock, empLocals, seenTemps, asked,
                 discarded, empFrame>>

EmptyStopped(p) ==
  /\ midway[p] = {}
  /\ Release(p, "emp_stop")
  /\ UNCHANGED <<files, info, temps, scanLocals, empLocals, asked, discarded,
                 empFrame>>

(* The info/ pass of a full empty: what was counted in info/ goes, except  *)
(* the record of a payload that stayed or came later.                      *)
EmptyInfo(p) ==
  /\ todo[p] = {} /\ midway[p] = {}
  /\ Release(p, "emp_wipe")
  /\ IF cut[p] = 0
       THEN /\ \E stuck \in SUBSET IF "record" \in Faults THEN Names ELSE {} :
                 info' = [n \in Names |->
                   IF n \in seenInfo[p] \ stuck /\ ~HasPayload(n)
                   THEN NoRecord ELSE info[n]]
            /\ temps' = temps \ seenTemps[p]
       ELSE UNCHANGED <<info, temps>>
  /\ UNCHANGED <<files, scanLocals, empLocals, asked, discarded, empFrame>>

EmptyStep(p) ==
  \/ EmptyCountInfo(p) \/ EmptyLock(p) \/ EmptyStart(p)
  \/ \E n \in Names : EmptyPayload(p, n) \/ EmptyKeep(p, n) \/ EmptyRecord(p, n)
  \/ EmptyStop(p) \/ EmptyStopped(p) \/ EmptyInfo(p)
=============================================================================
