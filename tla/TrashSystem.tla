---------------------------- MODULE TrashSystem ----------------------------
(***************************************************************************)
(* Every command at work on one trash root at once, with the user's own    *)
(* file operations and kills, and what that must never lead to.            *)
(***************************************************************************)
EXTENDS Put, Restore, Empty, Repair

Start(p) ==
  \/ p \in Putters /\ \E x \in Path : PutBegin(p, x)
  \/ p \in Restorers /\ \E n \in Names : RestoreScan(p, n)
  \/ p \in Removers /\ \E n \in Names : RemoveScan(p, n)
  \/ p \in Emptiers /\ EmptyCount(p)
  \/ p \in Repairers /\ FixScan(p)

Continue(p) ==
  \/ TimeOut(p)
  \/ p \in Putters /\ PutStep(p)
  \/ p \in Restorers /\ RestoreStep(p)
  \/ p \in Removers /\ RemoveStep(p)
  \/ p \in Emptiers /\ EmptyStep(p)
  \/ p \in Repairers /\ FixStep(p)

Next ==
  \/ \E p \in Procs : Start(p) \/ Continue(p) \/ Kill(p)
  \/ \E x \in Path : UserCreate(x) \/ UserUnlink(x)

Spec == Init /\ [][Next]_vars

(* The kernel runs every started process; nobody has to start one.         *)
FairSpec == Spec /\ \A p \in Procs : WF_vars(Continue(p))

-----------------------------------------------------------------------------
(* At most one process is inside a locked section, whoever was killed: the *)
(* flock excludes, and every early return drops it.                        *)
OneHolder ==
  \A p \in Procs : pc[p] \in Holding <=> lock = p

(* A record and the payload under its name came with the same put, at      *)
(* every instant and after every kill: claim_name never pairs a new record *)
(* with a payload left by something else, and no step swaps one alone.     *)
SamePut ==
  \A n \in Names : HasPayload(n) /\ HasRecord(n) =>
                     files[n].item = info[n].batch

(* A whole payload in files/ always has its record, so list shows it and   *)
(* restore can find it; only what SourceLeft leaves behind has none.       *)
PayloadHasRecord ==
  \A n \in Names : HasPayload(n) /\ files[n].file # Debris => HasRecord(n)

(* No file disappears: each one is where the user keeps it, in the trash   *)
(* or at a staging path, unless someone asked to delete it for good (or it *)
(* is one of the two races clobbered records).                             *)
NothingLost ==
  \A f \in 1..created :
    \/ \E x \in Path : live[x] = f
    \/ \E n \in Names : files[n].file = f
    \/ f \in staged \cup discarded \cup clobbered

(* rm and empty delete for good only the items their unlocked look showed  *)
(* the user: one that took the name of a counted item meanwhile stays.     *)
OnlyCounted == \A p \in Deleters : removed[p] \subseteq counted[p]

(* What a restore is about to move out of files/ is the item it listed.    *)
RestoresListed ==
  \A p \in Restorers :
    pc[p] = "res_stage" => files[name[p]].item = rec[p].batch

(* No repair or empty takes the temporary record of a put that is writing. *)
LiveTempKept ==
  \A p \in Putters :
    pc[p] \in {"put_claim", "put_untemp"} => batch[p] \in temps

(* With the lock free and nothing killed or failed halfway, the trash is   *)
(* whole: records and payloads pair up, and no temporary or staged file is *)
(* left behind, whatever was refused, undone or stopped by Ctrl-C.         *)
CleanWhenFree ==
  /\ Faults \cap {"kill", "source", "record", "place"} = {}
  /\ lock = "free"
  => /\ temps = {} /\ staged = {}
     /\ \A n \in Names : HasPayload(n) <=> HasRecord(n)

(* A restore without -f never destroys a file at its destination.          *)
NeverClobbers == clobbered = {}

(* Every command ends, however long the others keep the lock.              *)
Ends == \A p \in Procs : pc[p] # "idle" ~> pc[p] = "idle"
=============================================================================
