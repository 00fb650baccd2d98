-------------------------------- MODULE Put --------------------------------
(***************************************************************************)
(* `rtrash put` of one operand: take the lock, write the record under a    *)
(* temporary name, link it to a free trash name, move the payload there;   *)
(* undo the record when the payload cannot be moved.                       *)
(***************************************************************************)
EXTENDS TrashRoot

putFrame == <<staged, name, rec, resLocals, empLocals, found, scanLocals,
              asked>>

(* A run with a batch id of its own takes up the operand x.                *)
PutBegin(p, x) ==
  /\ Step(p, "idle", "put_lock")
  /\ live[x] # Nothing /\ stamp < MaxStamp
  /\ stamp' = stamp + 1
  /\ batch' = [batch EXCEPT ![p] = stamp']
  /\ at' = [at EXCEPT ![p] = x]
  /\ UNCHANGED <<live, files, info, temps, lock, created, lost, putFrame>>

PutLock(p) ==
  /\ Acquire(p, "put_lock", "put_temp")
  /\ UNCHANGED <<live, files, info, temps, putLocals, stamp, created, lost,
                 putFrame>>

(* create_put_temp: the record will be written here, out of others' sight. *)
PutTemp(p) ==
  /\ Step(p, "put_temp", "put_claim")
  /\ temps' = temps \cup {batch[p]}
  /\ UNCHANGED <<live, files, info, lock, putLocals, stamp, created, lost,
                 putFrame>>

(* A bug to catch: only the record is looked at.                           *)
Recordless == {n \in Names : ~HasRecord(n)}

(* claim_name: a name whose payload exists is skipped even without a       *)
(* record; link(2) or O_EXCL refuses one whose record exists.              *)
Claimable == {n \in Names : ~HasPayload(n) /\ ~HasRecord(n)}
FirstFree(n) == n \in Claimable /\ \A m \in Claimable : n <= m

PutRecord(p, whole) ==
  [path |-> at[p], batch |-> batch[p], whole |-> whole]

(* The written, synced temporary is hard-linked to the first free name.    *)
PutClaim(p) ==
  /\ HardLinks
  /\ Step(p, "put_claim", "put_untemp")
  /\ \E n \in Names :
       /\ FirstFree(n)
       /\ name' = [name EXCEPT ![p] = n]
       /\ info' = [info EXCEPT ![n] = PutRecord(p, TRUE)]
  /\ UNCHANGED <<live, staged, files, temps, lock, putLocals, rec, resLocals,
                 empLocals, found, scanLocals, stamp, created, asked, lost>>

PutUntemp(p) ==
  /\ Step(p, "put_untemp", "put_move")
  /\ temps' = temps \ {batch[p]}
  /\ UNCHANGED <<live, files, info, lock, putLocals, stamp, created, lost,
                 putFrame>>

(* No hard links here: the temporary goes, and the record is made in place *)
(* (O_EXCL), empty at first.                                               *)
PutNoLinks(p) ==
  /\ ~HardLinks /\ Claimable # {}
  /\ Step(p, "put_claim", "put_inplace")
  /\ temps' = temps \ {batch[p]}
  /\ UNCHANGED <<live, files, info, lock, putLocals, stamp, created, lost,
                 putFrame>>

PutInPlace(p) ==
  /\ Step(p, "put_inplace", "put_write")
  /\ \E n \in Names :
       /\ FirstFree(n)
       /\ name' = [name EXCEPT ![p] = n]
       /\ info' = [info EXCEPT ![n] = PutRecord(p, FALSE)]
  /\ UNCHANGED <<live, staged, files, temps, lock, putLocals, rec, resLocals,
                 empLocals, found, scanLocals, stamp, created, asked, lost>>

PutWrite(p) ==
  /\ Step(p, "put_write", "put_move")
  /\ info' = [info EXCEPT ![name[p]] = PutRecord(p, TRUE)]
  /\ UNCHANGED <<live, files, temps, lock, putLocals, stamp, created, lost,
                 putFrame>>

(* The record cannot be written, or no name is left: it is taken back.     *)
PutNoRecord(p) ==
  /\ \/ "write" \in Faults
     \/ Claimable = {} /\ pc[p] # "put_write"
  /\ \/ Release(p, "put_claim") /\ temps' = temps \ {batch[p]} /\ info' = info
     \/ Release(p, "put_inplace") /\ UNCHANGED <<temps, info>>
     \/ /\ Release(p, "put_write")
        /\ info' = [info EXCEPT ![name[p]] = NoRecord]
        /\ temps' = temps
  /\ UNCHANGED <<live, files, putLocals, stamp, created, lost, putFrame>>

(* The payload a put brings: its own batch is its identity.                *)
PutPayload(p, f) == [file |-> f, item |-> batch[p], id |-> batch[p]]

(* rename_noreplace(operand, files/NAME) on one file system.               *)
PutMove(p) ==
  /\ ~CrossDevice /\ live[at[p]] # Nothing /\ ~HasPayload(name[p])
  /\ Release(p, "put_move")
  /\ files' = [files EXCEPT ![name[p]] = PutPayload(p, live[at[p]])]
  /\ live' = [live EXCEPT ![at[p]] = Nothing]
  /\ UNCHANGED <<info, temps, putLocals, stamp, created, lost, putFrame>>

(* A bug to catch: a put that could not move its operand keeps the record. *)
PutMoveForgets(p) ==
  /\ live[at[p]] = Nothing \/ HasPayload(name[p]) \/ "write" \in Faults
  /\ Release(p, "put_move")
  /\ UNCHANGED <<live, files, info, temps, putLocals, stamp, created, lost,
                 putFrame>>

(* The operand is gone, or the rename or the checks before a copy fail.    *)
PutMoveFails(p) ==
  /\ live[at[p]] = Nothing \/ HasPayload(name[p]) \/ "write" \in Faults
  /\ Release(p, "put_move")
  /\ info' = [info EXCEPT ![name[p]] = NoRecord]
  /\ UNCHANGED <<live, files, temps, putLocals, stamp, created, lost, putFrame>>

(* A bug to catch: the operand is removed as it is copied.                 *)
PutDrain(p) ==
  /\ CrossDevice /\ live[at[p]] # Nothing /\ ~HasPayload(name[p])
  /\ Step(p, "put_move", "put_copy")
  /\ files' = [files EXCEPT ![name[p]] = PutPayload(p, Debris)]
  /\ live' = [live EXCEPT ![at[p]] = Debris]
  /\ UNCHANGED <<info, temps, lock, putLocals, stamp, created, lost, putFrame>>

(* EXDEV: move_by_copy makes a copy, which has part of the file until it   *)
(* is done, and then removes the operand.                                  *)
PutCopy(p) ==
  /\ CrossDevice /\ live[at[p]] # Nothing /\ ~HasPayload(name[p])
  /\ Step(p, "put_move", "put_copy")
  /\ files' = [files EXCEPT ![name[p]] = PutPayload(p, Debris)]
  /\ UNCHANGED <<live, info, temps, lock, putLocals, stamp, created, lost,
                 putFrame>>

PutCopied(p) ==
  /\ live[at[p]] # Nothing
  /\ Step(p, "put_copy", "put_unlink")
  /\ files' = [files EXCEPT ![name[p]] = PutPayload(p, live[at[p]])]
  /\ UNCHANGED <<live, info, temps, lock, putLocals, stamp, created, lost,
                 putFrame>>

(* A copy that fails, or that Ctrl-C stops, is taken back with its record. *)
PutCopyFails(p) ==
  /\ live[at[p]] = Nothing \/ "write" \in Faults \/ "stop" \in Faults
  /\ Release(p, "put_copy")
  /\ files' = [files EXCEPT ![name[p]] = NoPayload]
  /\ info' = [info EXCEPT ![name[p]] = NoRecord]
  /\ UNCHANGED <<live, temps, putLocals, stamp, created, lost, putFrame>>

(* remove_any(operand) takes whatever the path holds by now; a file the    *)
(* user put there since the copy was made goes with it.                    *)
PutUnlink(p) ==
  /\ Release(p, "put_unlink")
  /\ live' = [live EXCEPT ![at[p]] = Nothing]
  /\ clobbered' = clobbered
       \cup ({live[at[p]]} \ {Nothing, Debris, files[name[p]].file})
  /\ UNCHANGED <<files, info, temps, putLocals, stamp, created, discarded,
                 putFrame>>

(* SourceLeft: the operand did not all go, so the whole copy stays, with   *)
(* its record, and the put reports an error.                               *)
PutSourceLeft(p) ==
  /\ "source" \in Faults /\ live[at[p]] = files[name[p]].file
  /\ Release(p, "put_unlink")
  /\ live' = [live EXCEPT ![at[p]] = Debris]
  /\ UNCHANGED <<files, info, temps, putLocals, stamp, created, lost, putFrame>>

PutStep(p) ==
  \/ PutLock(p) \/ PutTemp(p) \/ PutClaim(p) \/ PutUntemp(p)
  \/ PutNoLinks(p) \/ PutInPlace(p) \/ PutWrite(p) \/ PutNoRecord(p)
  \/ PutMove(p) \/ PutMoveFails(p)
  \/ PutCopy(p) \/ PutCopied(p) \/ PutCopyFails(p)
  \/ PutUnlink(p) \/ PutSourceLeft(p)
=============================================================================
