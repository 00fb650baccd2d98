------------------------------ MODULE Remove -------------------------------
(***************************************************************************)
(* `rtrash rm` of one matching entry: chosen from an unlocked list (the    *)
(* user may be asked meanwhile), read again under the lock, then payload   *)
(* and record go, in that order.                                           *)
(***************************************************************************)
EXTENDS TrashRoot

rmFrame == <<live, staged, temps, putLocals, resLocals, empLocals, found,
             scanLocals, stamp, created, clobbered>>

(* An entry with a record, or an orphan: a payload without one, which the  *)
(* list gives neither date nor batch.                                      *)
RemoveScan(p, n) ==
  /\ Step(p, "idle", "rm_lock")
  /\ HasRecord(n) \/ HasPayload(n)
  /\ name' = [name EXCEPT ![p] = n]
  /\ rec' = [rec EXCEPT ![p] = info[n]]
  /\ counted' = [counted EXCEPT ![p] =
                   {IF HasRecord(n) THEN info[n].batch ELSE files[n].item}]
  /\ removed' = [removed EXCEPT ![p] = {}]
  /\ UNCHANGED <<files, info, lock, discarded, rmFrame>>

RemoveLock(p) ==
  /\ Acquire(p, "rm_lock", "rm_verify")
  /\ UNCHANGED <<files, info, name, rec, asked, discarded, rmFrame>>

(* Entry::relock: the same record, or still an orphan with its payload.    *)
Same(p) ==
  /\ info[name[p]] = rec[p]
  /\ HasRecord(name[p]) \/ HasPayload(name[p])

RemoveVerify(p) ==
  /\ Same(p)
  /\ Step(p, "rm_verify", "rm_payload")
  /\ UNCHANGED <<files, info, lock, name, rec, asked, discarded, rmFrame>>

RemoveChanged(p) ==
  /\ ~Same(p)
  /\ Release(p, "rm_verify")
  /\ UNCHANGED <<files, info, name, rec, asked, discarded, rmFrame>>

(* What p deletes for good when it removes the payload f.                  *)
Deletes(p, f) ==
  /\ discarded' = discarded \cup ({f.file} \ {Nothing})
  /\ removed' = [removed EXCEPT ![p] =
                   IF f.file \in File THEN @ \cup {f.item} ELSE @]

(* permanent_guard::remove: a payload already gone is fine.                *)
RemovePayload(p) ==
  /\ Step(p, "rm_payload", "rm_record")
  /\ files' = [files EXCEPT ![name[p]] = NoPayload]
  /\ Deletes(p, files[name[p]])
  /\ UNCHANGED <<info, lock, name, rec, counted, rmFrame>>

RemoveKept(p) ==
  /\ "payload" \in Faults
  /\ Release(p, "rm_payload")
  /\ UNCHANGED <<files, info, name, rec, asked, discarded, rmFrame>>

RemoveRecord(p) ==
  /\ Release(p, "rm_record")
  /\ \/ info' = [info EXCEPT ![name[p]] = NoRecord]
     \/ "record" \in Faults /\ info' = info
  /\ UNCHANGED <<files, name, rec, asked, discarded, rmFrame>>

RemoveStep(p) ==
  \/ RemoveLock(p) \/ RemoveVerify(p) \/ RemoveChanged(p)
  \/ RemovePayload(p) \/ RemoveKept(p) \/ RemoveRecord(p)
=============================================================================
