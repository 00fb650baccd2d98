------------------------------ MODULE Restore ------------------------------
(***************************************************************************)
(* `rtrash restore` of one entry to its original path: the destination and *)
(* the payload are looked at before the lock, the record is read again     *)
(* under it, and the payload goes through a staging name beside the        *)
(* destination.                                                            *)
(***************************************************************************)
EXTENDS TrashRoot

resFrame == <<temps, putLocals, empLocals, found, scanLocals, created, asked>>

(* The entry chosen from an unlocked list; a record with no path yet names *)
(* no absolute location and is refused.                                    *)
RestoreScan(p, n) ==
  /\ Step(p, "idle", "res_check")
  /\ HasRecord(n) /\ info[n].whole /\ stamp < MaxStamp
  /\ rec' = [rec EXCEPT ![p] = info[n]]
  /\ name' = [name EXCEPT ![p] = n]
  /\ \E f \in BOOLEAN : force' = [force EXCEPT ![p] = f]
  /\ UNCHANGED <<live, staged, files, info, lock, blocked, carry, stamp, lost,
                 resFrame>>

(* look(src), then dest_exists: both are read before the lock.             *)
RestoreCheck(p) ==
  /\ HasPayload(name[p])
  /\ live[rec[p].path] = Nothing \/ force[p]
  /\ Step(p, "res_check", "res_lock")
  /\ blocked' = [blocked EXCEPT ![p] = live[rec[p].path] # Nothing]
  /\ UNCHANGED <<live, staged, files, info, lock, name, rec, force, carry,
                 stamp, lost, resFrame>>

RestoreRefuse(p) ==
  /\ \/ ~HasPayload(name[p])
     \/ live[rec[p].path] # Nothing /\ ~force[p]
  /\ Step(p, "res_check", "idle")
  /\ UNCHANGED <<live, staged, files, info, lock, name, rec, resLocals, stamp,
                 lost, resFrame>>

RestoreLock(p) ==
  /\ Acquire(p, "res_lock", "res_verify")
  /\ UNCHANGED <<live, staged, files, info, name, rec, resLocals, stamp, lost,
                 resFrame>>

(* Bugs to catch: the payload is not looked at again, or the record is     *)
(* only looked for.                                                        *)
RestoreSameRecord(p) ==
  /\ info[name[p]] = rec[p]
  /\ Step(p, "res_verify", "res_stage")
  /\ UNCHANGED <<live, staged, files, info, lock, name, rec, resLocals, stamp,
                 lost, resFrame>>

RestoreSameName(p) ==
  /\ HasRecord(name[p]) /\ HasPayload(name[p])
  /\ Step(p, "res_verify", "res_stage")
  /\ UNCHANGED <<live, staged, files, info, lock, name, rec, resLocals, stamp,
                 lost, resFrame>>

(* Entry::relock and Locked::gone: the record must read as it did before,  *)
(* and its payload must be there.                                          *)
RestoreVerify(p) ==
  /\ info[name[p]] = rec[p] /\ HasPayload(name[p])
  /\ Step(p, "res_verify", "res_stage")
  /\ UNCHANGED <<live, staged, files, info, lock, name, rec, resLocals, stamp,
                 lost, resFrame>>

RestoreChanged(p) ==
  /\ info[name[p]] # rec[p] \/ ~HasPayload(name[p])
  /\ Release(p, "res_verify")
  /\ UNCHANGED <<live, staged, files, info, name, rec, resLocals, stamp, lost,
                 resFrame>>

(* relocate(src, staged): a rename, or a copy across file systems.         *)
RestoreMove(p) ==
  /\ ~CrossDevice /\ Step(p, "res_stage", "res_swap")
  /\ carry' = [carry EXCEPT ![p] = files[name[p]].file]
  /\ staged' = staged \cup {files[name[p]].file}
  /\ files' = [files EXCEPT ![name[p]] = NoPayload]
  /\ UNCHANGED <<live, info, lock, name, rec, force, blocked, stamp, lost,
                 resFrame>>

RestoreCopy(p) ==
  /\ CrossDevice /\ Step(p, "res_stage", "res_unlink")
  /\ carry' = [carry EXCEPT ![p] = files[name[p]].file]
  /\ staged' = staged \cup {files[name[p]].file}
  /\ UNCHANGED <<live, files, info, lock, name, rec, force, blocked, stamp,
                 lost, resFrame>>

(* The rename or the copy fails, or Ctrl-C stops the copy: its part goes.  *)
RestoreStageFails(p) ==
  /\ "place" \in Faults \/ ("stop" \in Faults /\ CrossDevice)
  /\ Release(p, "res_stage")
  /\ UNCHANGED <<live, staged, files, info, name, rec, resLocals, stamp, lost,
                 resFrame>>

(* The copy is whole: the payload goes, or part of it stays (SourceLeft),  *)
(* which does not stop the restore.                                        *)
RestoreUnlink(p) ==
  /\ Step(p, "res_unlink", "res_swap")
  /\ \/ files' = [files EXCEPT ![name[p]] = NoPayload]
     \/ /\ "source" \in Faults
        /\ files' = [files EXCEPT ![name[p]].file = Debris]
  /\ UNCHANGED <<live, staged, info, lock, name, rec, resLocals, stamp, lost,
                 resFrame>>

(* Only a destination that was there at the look is removed first (with    *)
(* -f); a removal that finds nothing is fine.                              *)
RestoreSwap(p) ==
  LET x == rec[p].path IN
  /\ Step(p, "res_swap", "res_place")
  /\ IF blocked[p]
       THEN /\ live' = [live EXCEPT ![x] = Nothing]
            /\ discarded' = discarded \cup ({live[x]} \ {Nothing})
       ELSE UNCHANGED <<live, discarded>>
  /\ UNCHANGED <<staged, files, info, lock, name, rec, resLocals, stamp,
                 clobbered, resFrame>>

(* fs::rename(staged, dest) replaces whatever is at the destination now.   *)
RestorePlace(p) ==
  LET x == rec[p].path
      over == {live[x]} \ {Nothing, Debris} IN
  /\ Step(p, "res_place", "res_record")
  /\ live' = [live EXCEPT ![x] = carry[p]]
  /\ staged' = staged \ {carry[p]}
  /\ IF force[p] THEN discarded' = discarded \cup over /\ clobbered' = clobbered
                 ELSE clobbered' = clobbered \cup over /\ discarded' = discarded
  /\ UNCHANGED <<files, info, lock, name, rec, resLocals, stamp, resFrame>>

(* unstage: the blocker cannot be removed or the file cannot be placed, so *)
(* the payload goes back under its name, a new arrival there, or cannot,   *)
(* and then the user is told the staging path.                             *)
RestoreUnstage(p) ==
  LET n == name[p] IN
  /\ "place" \in Faults
  /\ Release(p, "res_swap") \/ Release(p, "res_place")
  /\ \/ /\ files' = [files EXCEPT ![n] =
                [file |-> carry[p], item |-> rec[p].batch, id |-> stamp + 1]]
        /\ stamp' = stamp + 1
        /\ staged' = staged \ {carry[p]}
     \/ UNCHANGED <<files, stamp, staged>>
  /\ UNCHANGED <<live, info, name, rec, resLocals, lost, resFrame>>

(* The record goes last; one that cannot be removed is only warned about.  *)
RestoreRecord(p) ==
  /\ Release(p, "res_record")
  /\ \/ info' = [info EXCEPT ![name[p]] = NoRecord]
     \/ "record" \in Faults /\ info' = info
  /\ UNCHANGED <<live, staged, files, name, rec, resLocals, stamp, lost,
                 resFrame>>

RestoreStep(p) ==
  \/ RestoreCheck(p) \/ RestoreRefuse(p) \/ RestoreLock(p)
  \/ RestoreVerify(p) \/ RestoreChanged(p)
  \/ RestoreMove(p) \/ RestoreCopy(p) \/ RestoreStageFails(p)
  \/ RestoreUnlink(p)
  \/ RestoreSwap(p) \/ RestorePlace(p) \/ RestoreUnstage(p) \/ RestoreRecord(p)
=============================================================================
