------------------------------ MODULE TrashInv ------------------------------
(***************************************************************************)
(* The inductive invariant behind the safety properties of TrashSystem.    *)
(* The properties are not inductive by themselves: what a step does under  *)
(* the lock is right because of what the same process read earlier under   *)
(* the lock, so each part says what a program counter promises about the   *)
(* shared state while its process keeps the lock.                          *)
(***************************************************************************)
EXTENDS TrashSystem

(* A name is empty or has a payload of a past put or unstage.              *)
PayloadShape ==
  \A n \in Names :
    /\ files[n].id = 0 => files[n] = NoPayload
    /\ files[n].id # 0 => files[n].file # Nothing
    /\ files[n].id <= stamp

(* No payload arrives under a record whose body is not written.            *)
PayloadWhole ==
  \A n \in Names : HasPayload(n) /\ HasRecord(n) => info[n].whole

BeforeMove == {"put_lock", "put_temp", "put_claim", "put_untemp",
               "put_inplace", "put_write", "put_move"}

(* The batch of a put that has not moved its operand is the identity of    *)
(* no payload, is in no count, and is no other such put's.                 *)
FreshBatch ==
  \A p \in Putters :
    /\ batch[p] <= stamp
    /\ pc[p] \in BeforeMove =>
         /\ batch[p] # 0
         /\ \A n \in Names : files[n].id # batch[p]
         /\ \A e \in Emptiers, n \in Names : seen[e][n] # batch[p]
         /\ \A q \in Putters \ {p} :
              pc[q] \in BeforeMove => batch[q] # batch[p]

(* A put past its claim has its own record, and no payload before it moves *)
(* its own there.                                                          *)
PutHolds(p) ==
  /\ pc[p] \in {"put_untemp", "put_move", "put_copy", "put_unlink"} =>
       info[name[p]] = PutRecord(p, TRUE)
  /\ pc[p] = "put_write" => info[name[p]] = PutRecord(p, FALSE)
  /\ pc[p] \in {"put_untemp", "put_write", "put_move"} => ~HasPayload(name[p])
  /\ pc[p] \in {"put_copy", "put_unlink"} =>
       /\ batch[p] # 0
       /\ files[name[p]].id = batch[p] /\ files[name[p]].item = batch[p]
  /\ pc[p] = "put_copy" => files[name[p]].file = Debris

(* A restore past its check under the lock works on the record it listed,  *)
(* and what it carries is at the staging path.                             *)
RestoreHolds(p) ==
  /\ pc[p] \in {"res_check", "res_lock", "res_verify"} =>
       rec[p].batch # 0 /\ rec[p].whole
  /\ pc[p] \in {"res_stage", "res_unlink", "res_swap", "res_place",
                "res_record"} =>
       info[name[p]] = rec[p] /\ rec[p].batch # 0 /\ rec[p].whole
  /\ pc[p] \in {"res_stage", "res_unlink"} => HasPayload(name[p])
  /\ pc[p] \in {"res_unlink", "res_swap", "res_place"} =>
       carry[p] # Nothing /\ carry[p] \in staged
  /\ pc[p] = "res_unlink" => files[name[p]].file = carry[p]
  /\ pc[p] \in {"res_swap", "res_place", "res_record"} /\ HasPayload(name[p])
       => files[name[p]].file = Debris

(* An rm past its check under the lock works on the record it listed, and  *)
(* on the item it showed.                                                  *)
RemoveHolds(p) ==
  /\ pc[p] # "idle" /\ rec[p].batch # 0 => rec[p].batch \in counted[p]
  /\ pc[p] \in {"rm_payload", "rm_record"} => info[name[p]] = rec[p]
  /\ pc[p] = "rm_record" => ~HasPayload(name[p])

(* What has the identity an empty counted is the item it counted; a victim *)
(* has that identity; a victim whose payload went has none.                *)
EmptyHolds(p) ==
  /\ \A n \in Names :
       /\ seen[p][n] <= stamp
       /\ HasPayload(n) /\ seen[p][n] = files[n].id =>
            files[n].item \in counted[p]
  /\ pc[p] = "emp_wipe" => \A n \in todo[p] : SawPayload(p, n)
  /\ pc[p] \in {"emp_wipe", "emp_stop"} => \A n \in midway[p] : ~HasPayload(n)

(* A repair under the lock removes records without payload only.           *)
FixHolds(p) ==
  pc[p] = "fix_remove" => \A n \in todo[p] : ~HasPayload(n)

(* What p relies on while it keeps the lock, by p's command.               *)
Holds(p) ==
  /\ p \in Putters => PutHolds(p)
  /\ p \in Restorers => RestoreHolds(p)
  /\ p \in Removers => RemoveHolds(p)
  /\ p \in Emptiers => EmptyHolds(p)
  /\ p \in Repairers => FixHolds(p)

(* What is in the trash is in order, whoever holds the lock.               *)
TrashOrder ==
  PayloadShape /\ SamePut /\ PayloadWhole /\ PayloadHasRecord

IInv ==
  /\ TypeOK /\ OneHolder /\ TrashOrder
  /\ FreshBatch /\ LiveTempKept /\ NothingLost /\ OnlyCounted
  /\ \A p \in Procs : Holds(p)

-----------------------------------------------------------------------------
(* With no fault that leaves something behind, only the process that has   *)
(* the lock is halfway with anything: a pair that is not whole, a          *)
(* temporary, a staged file.  CleanWhenFree needs to know what it is.      *)
Calm == Faults \cap {"kill", "source", "record", "place"} = {}

Paired(n) == HasPayload(n) <=> HasRecord(n)
Pure == temps = {} /\ staged = {} /\ \A n \in Names : Paired(n)

LoneRecord == {"put_untemp", "put_write", "put_move", "res_swap", "res_place",
               "res_record", "rm_record"}
Halfway(p) ==
  {n \in Names : \/ pc[p] \in LoneRecord /\ n = name[p]
                 \/ p \in Emptiers /\ pc[p] \in {"emp_wipe", "emp_stop"} /\ n \in midway[p]}

CleanHeld(p) ==
  /\ \A b \in temps : p \in Putters /\ pc[p] \in {"put_claim", "put_untemp"} /\ b = batch[p]
  /\ \A f \in staged : /\ p \in Restorers /\ f = carry[p]
                       /\ pc[p] \in {"res_unlink", "res_swap", "res_place"}
  /\ \A n \in Names \ Halfway(p) : Paired(n)
  /\ pc[p] \in {"res_swap", "res_place", "res_record"} => ~HasPayload(name[p])

CleanInv ==
  Calm => /\ lock = "free" => Pure
          /\ \A p \in Procs : lock = p => CleanHeld(p)
=============================================================================
