------------------------- MODULE TrashSystemProofs -------------------------
(***************************************************************************)
(* IInv holds of every run of TrashSystem, the safety properties follow    *)
(* from it, and TrashSystem implements TrashStore, for every value of the  *)
(* constants.                                                              *)
(*                                                                         *)
(* A process in a locked section relies on the trash as it read it;        *)
(* another process may change the trash only while it holds the lock       *)
(* itself, and then nobody else is in a locked section.  So first what a   *)
(* step of one process leaves true for the others, then one command at a   *)
(* time.                                                                   *)
(***************************************************************************)
EXTENDS TrashRefines, TrashInv, TLAPS

-----------------------------------------------------------------------------
(* Steps of a put, a restore, an rm and an empty.                          *)

(* p's step moves p's program counter only, and changes the trash only     *)
(* with the lock in p's hand.                                              *)
Local(p) ==
  /\ \A q \in Procs \ {p} : pc'[q] = pc[q]
  /\ lock = p \/ UNCHANGED <<files, info, staged, temps>>

(* p's step goes where its control may go.                                 *)
Control(p, to) ==
  /\ pc' \in [Procs -> Labels] /\ pc'[p] = to
  /\ \A q \in Procs \ {p} : pc'[q] = pc[q]
  /\ lock' \in Procs \cup {"free"}
  /\ OneHolder'

(* While p is in a locked section nobody else is.                          *)
LEMMA HolderHasLock ==
  ASSUME IInv, NEW p \in Procs
  PROVE  /\ pc[p] \in Holding => lock = p
         /\ lock = p => \A q \in Procs \ {p} : pc[q] \notin Holding
BY DEF IInv, OneHolder

(* A step that stays inside or outside the locked sections.                *)
LEMMA StepControl ==
  ASSUME IInv, NEW p \in Procs, NEW from, NEW to \in Labels, Step(p, from, to),
         UNCHANGED lock, from \in Holding <=> to \in Holding
  PROVE  Control(p, to)
BY DEF IInv, TypeOK, OneHolder, Step, Control

(* A step into a locked section takes a lock nobody had.                   *)
LEMMA AcquireControl ==
  ASSUME IInv, NEW p \in Procs, NEW from, NEW to \in Holding, Acquire(p, from, to)
  PROVE  Control(p, to)
BY ProcAssumption DEF IInv, TypeOK, OneHolder, Acquire, Step, Control, Labels

(* A step out of a locked section gives the lock up.                       *)
LEMMA ReleaseControl ==
  ASSUME IInv, NEW p \in Procs, NEW from \in Holding, Release(p, from)
  PROVE  Control(p, "idle")
BY ProcAssumption
   DEF IInv, TypeOK, OneHolder, Release, Step, Control, Labels, Holding

(* A step that leaves files/ and info/ alone.                              *)
LEMMA SameTrash ==
  ASSUME IInv, UNCHANGED <<files, info>>, stamp' \in Nat, stamp <= stamp'
  PROVE  TrashOrder'
BY DEF IInv, TypeOK, TrashOrder, PayloadShape, SamePut, PayloadWhole,
       PayloadHasRecord, HasPayload, HasRecord, Payload

(* The empty record and payload are in range, and are empty.               *)
LEMMA Nulls ==
  /\ NoRecord \in Record /\ NoRecord.batch = 0
  /\ NoPayload \in Payload /\ NoPayload.id = 0 /\ NoPayload.file = Nothing
BY ModeAssumption, BoundAssumption
   DEF NoRecord, Record, NoPayload, Payload, Nothing, Debris

(* A record comes, changes or goes at a name without a payload.            *)
LEMMA RecordAlone ==
  ASSUME IInv, NEW n \in Names, ~HasPayload(n), NEW r \in Record,
         info' = [info EXCEPT ![n] = r], UNCHANGED <<files, stamp>>
  PROVE  TrashOrder'
BY DEF IInv, TypeOK, TrashOrder, PayloadShape, SamePut, PayloadWhole,
       PayloadHasRecord, HasPayload, HasRecord

(* A record goes from a name with nothing, or with a leftover part.        *)
LEMMA RecordGoes ==
  ASSUME IInv, NEW n \in Names, HasPayload(n) => files[n].file = Debris,
         info' = [info EXCEPT ![n] = NoRecord], UNCHANGED <<files, stamp>>
  PROVE  TrashOrder'
BY Nulls DEF IInv, TypeOK, TrashOrder, PayloadShape, SamePut, PayloadWhole,
             PayloadHasRecord, HasPayload, HasRecord

(* A payload goes: no pair is broken by that.                              *)
LEMMA PayloadGoes ==
  ASSUME IInv, NEW n \in Names, files' = [files EXCEPT ![n] = NoPayload],
         UNCHANGED <<info, stamp>>
  PROVE  TrashOrder'
BY Nulls DEF IInv, TypeOK, TrashOrder, PayloadShape, SamePut, PayloadWhole,
             PayloadHasRecord, HasPayload, HasRecord

(* A payload comes, or changes, under the whole record of its put.         *)
LEMMA PayloadComes ==
  ASSUME IInv, NEW n \in Names, NEW f \in Payload,
         f.id # 0, f.file # Nothing, f.id <= stamp',
         f.item = info[n].batch, info[n].whole, HasRecord(n),
         files' = [files EXCEPT ![n] = f], info' = info,
         stamp' \in Nat, stamp <= stamp'
  PROVE  TrashOrder'
<1>1. /\ files \in [Names -> Payload] /\ stamp \in Nat
      /\ \A m \in Names : files[m].id \in Nat
  BY DEF IInv, TypeOK, Payload
<1>2. PayloadShape'
  BY <1>1 DEF IInv, TrashOrder, PayloadShape
<1>3. SamePut' /\ PayloadWhole' /\ PayloadHasRecord'
  BY <1>1 DEF IInv, TrashOrder, SamePut, PayloadWhole, PayloadHasRecord,
              HasPayload, HasRecord
<1> QED BY <1>2, <1>3 DEF TrashOrder

(* A step that moves no file loses none.                                   *)
LEMMA SameFiles ==
  ASSUME IInv, UNCHANGED <<live, staged, files, created, lost>>
  PROVE  NothingLost'
BY DEF IInv, NothingLost, lost

OnPath(f) == \E x \in Path : live[x] = f
InFiles(f) == \E n \in Names : files[n].file = f

(* One path changes: what any other path holds is still on a path.         *)
LEMMA PathChanges ==
  ASSUME NEW x \in Path, \A y \in Path \ {x} : live'[y] = live[y]
  PROVE  /\ \A f : f = live'[x] => OnPath(f)'
         /\ \A f : OnPath(f) => f = live[x] \/ OnPath(f)'
BY DEF OnPath

(* One name changes: what any other name holds is still in files/.         *)
LEMMA FilesChange ==
  ASSUME NEW n \in Names, \A m \in Names \ {n} : files'[m] = files[m]
  PROVE  /\ \A f : f = files'[n].file => InFiles(f)'
         /\ \A f : InFiles(f) => f = files[n].file \/ InFiles(f)'
BY DEF InFiles

(* A file that is somewhere before a step is somewhere after it.           *)
LEMMA Accounted ==
  ASSUME IInv, created' = created,
         \A f \in File : OnPath(f) => \/ OnPath(f)' \/ InFiles(f)'
                                     \/ f \in (staged \cup discarded \cup clobbered)',
         \A f \in File : InFiles(f) => \/ OnPath(f)' \/ InFiles(f)'
                                      \/ f \in (staged \cup discarded \cup clobbered)',
         \A f \in File : f \in staged =>
           \/ OnPath(f)' \/ InFiles(f)'
           \/ f \in (staged \cup discarded \cup clobbered)',
         discarded \subseteq discarded', clobbered \subseteq clobbered'
  PROVE  NothingLost'
<1>1. \A f \in 1..created : f \in File
  BY BoundAssumption DEF IInv, TypeOK, File
<1> QED BY <1>1 DEF IInv, NothingLost, OnPath, InFiles

(* The user's files are numbered; 0 is no file and Debris is only a part.  *)
LEMMA RealFiles ==
  /\ Nothing \notin File /\ Debris \notin File
  /\ NoPayload.file = Nothing
BY BoundAssumption DEF File, Nothing, Debris, NoPayload

(* A step of nobody who deletes.                                           *)
LEMMA SameAsked ==
  ASSUME IInv, UNCHANGED asked
  PROVE  OnlyCounted'
BY DEF IInv, OnlyCounted, asked

(* An identity in files/ was there before, or is in no count and is no     *)
(* waiting put's batch.                                                    *)
NewIds ==
  \A n \in Names :
    \/ files'[n].id = 0
    \/ files'[n].id = files[n].id /\ files'[n].item = files[n].item
    \/ /\ \A e \in Emptiers : seen[e][n] # files'[n].id
       /\ \A q \in Putters : pc'[q] \in BeforeMove => batch[q] # files'[n].id

(* No payload arrives.                                                     *)
LEMMA IdsGo ==
  ASSUME IInv, NEW n \in Names,
         files' = files \/ files' = [files EXCEPT ![n] = NoPayload]
  PROVE  NewIds
BY Nulls DEF IInv, TypeOK, NewIds

(* Batches stay fresh when no payload arrives under a waiting one.         *)
LEMMA SameBatches ==
  ASSUME IInv, NEW p \in Procs, \A q \in Procs \ {p} : pc'[q] = pc[q],
         NewIds, UNCHANGED <<batch, seen>>, stamp' \in Nat, stamp <= stamp',
         p \in Putters /\ pc'[p] \in BeforeMove => pc[p] \in BeforeMove
  PROVE  FreshBatch'
<1>1. \A q \in Putters : batch'[q] <= stamp'
  BY DEF IInv, TypeOK, FreshBatch
<1>2. SUFFICES ASSUME NEW q \in Putters, pc'[q] \in BeforeMove
               PROVE  /\ batch[q] # 0
                      /\ \A n \in Names : files'[n].id # batch[q]
                      /\ \A e \in Emptiers, n \in Names : seen[e][n] # batch[q]
                      /\ \A r \in Putters \ {q} :
                           pc'[r] \in BeforeMove => batch[r] # batch[q]
  BY <1>1 DEF FreshBatch
<1>3. \A r \in Putters : pc'[r] \in BeforeMove => pc[r] \in BeforeMove
  BY DEF Procs
<1>4. batch[q] # 0 /\ \A n \in Names : files[n].id # batch[q]
  BY <1>2, <1>3 DEF IInv, FreshBatch
<1>5. \A n \in Names : files'[n].id # batch[q]
  BY <1>2, <1>4 DEF NewIds
<1> QED BY <1>2, <1>3, <1>4, <1>5 DEF IInv, FreshBatch

(* The temporaries others rely on stay: only the lock holder removes any.  *)
LEMMA SameTemps ==
  ASSUME IInv, NEW p \in Procs, Local(p), UNCHANGED batch,
         p \in Putters => pc'[p] \notin {"put_claim", "put_untemp"}
  PROVE  LiveTempKept'
BY HolderHasLock DEF IInv, LiveTempKept, Local, Holding, Procs

-----------------------------------------------------------------------------
(* A process at rest keeps its locals.                                     *)
SameLocals(q) ==
  /\ name'[q] = name[q]
  /\ q \in Putters => at'[q] = at[q] /\ batch'[q] = batch[q]
  /\ q \in Restorers => rec'[q] = rec[q] /\ carry'[q] = carry[q]
  /\ q \in Removers => rec'[q] = rec[q] /\ counted'[q] = counted[q]
  /\ q \in Emptiers => /\ seen'[q] = seen[q] /\ counted'[q] = counted[q]
                       /\ todo'[q] = todo[q] /\ midway'[q] = midway[q]
  /\ q \in Repairers => todo'[q] = todo[q]

(* A section under the lock finds the trash as it was.                     *)
LEMMA Bystander ==
  ASSUME IInv, NEW p \in Procs, Local(p), NEW q \in Procs \ {p}
  PROVE  pc'[q] = pc[q] /\ (pc[q] \in Holding => UNCHANGED <<files, info, staged>>)
BY HolderHasLock DEF Local

(* Another put: its record and its part of a copy are as it left them.     *)
LEMMA PutBystander ==
  ASSUME IInv, NEW p \in Procs, Local(p), NEW q \in Putters \ {p}, SameLocals(q)
  PROVE  PutHolds(q)'
BY Bystander DEF IInv, Holds, PutHolds, SameLocals, Holding, Procs, PutRecord,
                 HasPayload

(* Another restore: its record, payload and staged file are as it left them. *)
LEMMA RestoreBystander ==
  ASSUME IInv, NEW p \in Procs, Local(p), NEW q \in Restorers \ {p}, SameLocals(q)
  PROVE  RestoreHolds(q)'
BY Bystander DEF IInv, Holds, RestoreHolds, SameLocals, Holding, Procs,
                 HasPayload

(* Another rm: its record is as it left it.                                *)
LEMMA RemoveBystander ==
  ASSUME IInv, NEW p \in Procs, Local(p), NEW q \in Removers \ {p}, SameLocals(q)
  PROVE  RemoveHolds(q)'
BY Bystander DEF IInv, Holds, RemoveHolds, SameLocals, Holding, Procs, Deleters,
                 HasPayload

(* An identity that was counted still stands for the counted item.         *)
LEMMA CountStands ==
  ASSUME IInv, NewIds, stamp' \in Nat, stamp <= stamp',
         NEW e \in Emptiers, seen'[e] = seen[e], counted'[e] = counted[e],
         NEW n \in Names
  PROVE  /\ seen'[e][n] <= stamp'
         /\ HasPayload(n)' /\ seen'[e][n] = files'[n].id =>
              files'[n].item \in counted'[e]
<1>1. /\ seen[e][n] \in Nat /\ stamp \in Nat
      /\ seen[e][n] <= stamp
      /\ files[n].id # 0 /\ seen[e][n] = files[n].id =>
           files[n].item \in counted[e]
  BY DEF IInv, TypeOK, Holds, EmptyHolds, Procs, Deleters, HasPayload
<1> QED BY <1>1 DEF NewIds, HasPayload

(* Another empty: its victims are still the counted payloads.              *)
LEMMA EmptyBystander ==
  ASSUME IInv, NEW p \in Procs, Local(p), NEW q \in Emptiers \ {p}, SameLocals(q),
         NewIds, stamp' \in Nat, stamp <= stamp'
  PROVE  EmptyHolds(q)'
<1>1. \A n \in Names :
        /\ seen'[q][n] <= stamp'
        /\ HasPayload(n)' /\ seen'[q][n] = files'[n].id =>
             files'[n].item \in counted'[q]
  BY CountStands DEF SameLocals
<1>2. /\ pc'[q] = "emp_wipe" => \A n \in todo'[q] : SawPayload(q, n)'
      /\ pc'[q] \in {"emp_wipe", "emp_stop"} =>
           \A n \in midway'[q] : ~HasPayload(n)'
  BY Bystander DEF IInv, Holds, EmptyHolds, SameLocals, Holding, Procs,
                   Deleters, HasPayload, SawPayload
<1> QED BY <1>1, <1>2 DEF EmptyHolds

(* Another repair: its victims still have no payload.                      *)
LEMMA FixBystander ==
  ASSUME IInv, NEW p \in Procs, Local(p), NEW q \in Repairers \ {p}, SameLocals(q)
  PROVE  FixHolds(q)'
BY Bystander DEF IInv, Holds, FixHolds, SameLocals, Holding, Procs, HasPayload

(* All the bystanders together: p's own part is left to p's step.          *)
LEMMA Bystanders ==
  ASSUME IInv, NEW p \in Procs, Local(p), NewIds, stamp' \in Nat, stamp <= stamp',
         \A q \in Procs \ {p} : SameLocals(q), Holds(p)'
  PROVE  \A q \in Procs : Holds(q)'
<1> SUFFICES ASSUME NEW q \in Procs \ {p} PROVE Holds(q)'
  OBVIOUS
<1> QED
  BY PutBystander, RestoreBystander, RemoveBystander, EmptyBystander,
     FixBystander DEF Holds

(* The parts of a step's proof put together.                               *)
LEMMA Assembled ==
  ASSUME IInv, NEW p \in Procs, NEW to, Control(p, to), Local(p),
         TypeOK', TrashOrder', NewIds, FreshBatch', LiveTempKept', NothingLost',
         OnlyCounted', Holds(p)', \A q \in Procs \ {p} : SameLocals(q),
         stamp <= stamp'
  PROVE  IInv'
<1>1. stamp' \in Nat
  BY DEF TypeOK
<1> QED BY <1>1, Bystanders DEF IInv, Control

-----------------------------------------------------------------------------
(* Every step of a put keeps IInv.                                         *)

(* The new batch is one above every stamp given out, so it is fresh.       *)
LEMMA PutBeginKeeps ==
  ASSUME IInv, NEW p \in Putters, NEW x \in Path, PutBegin(p, x)
  PROVE  IInv'
<1>1. p \in Procs /\ TypeOK /\ PutHolds(p)
  BY DEF IInv, Procs, Deleters, Repairers, Holds
<1>2. Control(p, "put_lock")
  BY <1>1, StepControl DEF PutBegin, Labels, Waiting, Holding
<1>3. stamp \in Nat /\ stamp' \in Nat /\ stamp <= stamp'
  BY <1>1 DEF PutBegin, putFrame, putLocals, resLocals, empLocals,
     scanLocals, asked, lost, TypeOK
<1>4. Local(p)
  BY <1>1, <1>2 DEF PutBegin, Step, Control, Local, putFrame, putLocals,
     resLocals, empLocals, scanLocals, asked, lost
<1>5. TypeOK'
  BY <1>1, <1>2 DEF PutBegin, putFrame, putLocals, resLocals, empLocals,
     scanLocals, asked, lost, TypeOK, Control
<1>6. TrashOrder'
  BY <1>1, SameTrash DEF PutBegin, putFrame, putLocals, resLocals, empLocals,
     scanLocals, asked, lost, TypeOK
<1>7. NewIds
  BY DEF PutBegin, putFrame, putLocals, resLocals, empLocals, scanLocals,
     asked, lost, NewIds
<1>8. FreshBatch'
  BY <1>1, <1>2, ProcAssumption DEF PutBegin, Step, putFrame, putLocals,
     resLocals, empLocals, scanLocals, asked, lost, IInv, TypeOK, FreshBatch,
     TrashOrder, PayloadShape, Holds, EmptyHolds, Control, BeforeMove, Procs,
     Deleters, Repairers
<1>9. LiveTempKept'
  BY <1>1, <1>2 DEF PutBegin, Step, putFrame, putLocals, resLocals,
     empLocals, scanLocals, asked, lost, IInv, TypeOK, LiveTempKept, Control,
     Procs
<1>10. NothingLost'
  BY SameFiles DEF PutBegin, putFrame, putLocals, resLocals, empLocals,
     scanLocals, asked, lost
<1>11. OnlyCounted'
  BY SameAsked DEF PutBegin, putFrame, putLocals, resLocals, empLocals,
     scanLocals, asked, lost
<1>12. Holds(p)'
  BY <1>1, <1>2, ProcAssumption DEF PutBegin, Step, putFrame, putLocals,
     resLocals, empLocals, scanLocals, asked, lost, Holds, PutHolds, TypeOK,
     Control, Procs, Deleters, Repairers, PutRecord, HasPayload
<1>13. \A q \in Procs \ {p} : SameLocals(q)
  BY <1>1, ProcAssumption DEF PutBegin, putFrame, putLocals, resLocals,
     empLocals, scanLocals, asked, lost, TypeOK, SameLocals, Procs, Deleters,
     Repairers
<1> QED
  BY <1>1, <1>2, <1>4, <1>5, <1>6, <1>7, <1>8, <1>9, <1>10, <1>11,
       <1>12, <1>13, <1>3, Assembled

(* Taking the free lock changes no file.                                   *)
LEMMA PutLockKeeps ==
  ASSUME IInv, NEW p \in Putters, PutLock(p)
  PROVE  IInv'
<1>1. p \in Procs /\ TypeOK /\ PutHolds(p)
  BY DEF IInv, Procs, Deleters, Repairers, Holds
<1>2. Control(p, "put_temp")
  BY <1>1, AcquireControl DEF PutLock, Labels, Waiting, Holding
<1>3. stamp \in Nat /\ stamp' \in Nat /\ stamp <= stamp'
  BY <1>1 DEF PutLock, putFrame, putLocals, resLocals, empLocals, scanLocals,
     asked, lost, TypeOK
<1>4. Local(p)
  BY <1>1, <1>2 DEF PutLock, Acquire, Step, Control, Local, putFrame,
     putLocals, resLocals, empLocals, scanLocals, asked, lost
<1>5. TypeOK'
  BY <1>1, <1>2 DEF PutLock, putFrame, putLocals, resLocals, empLocals,
     scanLocals, asked, lost, TypeOK, Control
<1>6. TrashOrder'
  BY <1>1, SameTrash DEF PutLock, putFrame, putLocals, resLocals, empLocals,
     scanLocals, asked, lost, TypeOK
<1>7. NewIds
  BY <1>1, IdsGo DEF PutLock, putFrame, putLocals, resLocals, empLocals,
     scanLocals, asked, lost, TypeOK
<1>8. FreshBatch'
  BY <1>1, <1>2, <1>3, <1>7, SameBatches DEF PutLock, Acquire, Step,
     putFrame, putLocals, resLocals, empLocals, scanLocals, asked, lost,
     Control, BeforeMove
<1>9. LiveTempKept'
  BY <1>1, <1>2, <1>4, SameTemps DEF PutLock, putFrame, putLocals, resLocals,
     empLocals, scanLocals, asked, lost, Control
<1>10. NothingLost'
  BY SameFiles DEF PutLock, putFrame, putLocals, resLocals, empLocals,
     scanLocals, asked, lost
<1>11. OnlyCounted'
  BY SameAsked DEF PutLock, putFrame, putLocals, resLocals, empLocals,
     scanLocals, asked, lost
<1>12. Holds(p)'
  BY <1>1, <1>2, ProcAssumption DEF PutLock, Acquire, Step, putFrame,
     putLocals, resLocals, empLocals, scanLocals, asked, lost, Holds,
     PutHolds, TypeOK, Control, Procs, Deleters, Repairers, PutRecord,
     HasPayload
<1>13. \A q \in Procs \ {p} : SameLocals(q)
  BY <1>1, ProcAssumption DEF PutLock, putFrame, putLocals, resLocals,
     empLocals, scanLocals, asked, lost, TypeOK, SameLocals, Procs, Deleters,
     Repairers
<1> QED
  BY <1>1, <1>2, <1>4, <1>5, <1>6, <1>7, <1>8, <1>9, <1>10, <1>11,
       <1>12, <1>13, <1>3, Assembled

(* The new temporary is the one the put relies on.                         *)
LEMMA PutTempKeeps ==
  ASSUME IInv, NEW p \in Putters, PutTemp(p)
  PROVE  IInv'
<1>1. p \in Procs /\ TypeOK /\ PutHolds(p)
  BY DEF IInv, Procs, Deleters, Repairers, Holds
<1>2. Control(p, "put_claim")
  BY <1>1, StepControl DEF PutTemp, Labels, Waiting, Holding
<1>3. stamp \in Nat /\ stamp' \in Nat /\ stamp <= stamp'
  BY <1>1 DEF PutTemp, putFrame, putLocals, resLocals, empLocals, scanLocals,
     asked, lost, TypeOK
<1>4. Local(p)
  BY <1>1, <1>2, HolderHasLock DEF PutTemp, Step, Control, Local, Holding
<1>5. TypeOK'
  BY <1>1, <1>2 DEF PutTemp, putFrame, putLocals, resLocals, empLocals,
     scanLocals, asked, lost, TypeOK, Control
<1>6. TrashOrder'
  BY <1>1, SameTrash DEF PutTemp, putFrame, putLocals, resLocals, empLocals,
     scanLocals, asked, lost, TypeOK
<1>7. NewIds
  BY <1>1, IdsGo DEF PutTemp, putFrame, putLocals, resLocals, empLocals,
     scanLocals, asked, lost, TypeOK
<1>8. FreshBatch'
  BY <1>1, <1>2, <1>3, <1>7, SameBatches DEF PutTemp, Step, putFrame,
     putLocals, resLocals, empLocals, scanLocals, asked, lost, Control,
     BeforeMove
<1>9. LiveTempKept'
  BY <1>1, <1>2, HolderHasLock DEF PutTemp, Step, putFrame, putLocals,
     resLocals, empLocals, scanLocals, asked, lost, IInv, TypeOK,
     LiveTempKept, Control, Holding, Procs
<1>10. NothingLost'
  BY SameFiles DEF PutTemp, putFrame, putLocals, resLocals, empLocals,
     scanLocals, asked, lost
<1>11. OnlyCounted'
  BY SameAsked DEF PutTemp, putFrame, putLocals, resLocals, empLocals,
     scanLocals, asked, lost
<1>12. Holds(p)'
  BY <1>1, <1>2, ProcAssumption DEF PutTemp, Step, putFrame, putLocals,
     resLocals, empLocals, scanLocals, asked, lost, Holds, PutHolds, TypeOK,
     Control, Procs, Deleters, Repairers, PutRecord, HasPayload
<1>13. \A q \in Procs \ {p} : SameLocals(q)
  BY <1>1, ProcAssumption DEF PutTemp, putFrame, putLocals, resLocals,
     empLocals, scanLocals, asked, lost, TypeOK, SameLocals, Procs, Deleters,
     Repairers
<1> QED
  BY <1>1, <1>2, <1>4, <1>5, <1>6, <1>7, <1>8, <1>9, <1>10, <1>11,
       <1>12, <1>13, <1>3, Assembled

(* The first free name has neither record nor payload: the record pairs    *)
(* with nothing.                                                           *)
LEMMA PutClaimKeeps ==
  ASSUME IInv, NEW p \in Putters, PutClaim(p)
  PROVE  IInv'
<1>1. p \in Procs /\ TypeOK /\ PutHolds(p)
  BY DEF IInv, Procs, Deleters, Repairers, Holds
<1>2. Control(p, "put_untemp")
  BY <1>1, StepControl DEF PutClaim, Labels, Waiting, Holding
<1>3. stamp \in Nat /\ stamp' \in Nat /\ stamp <= stamp'
  BY <1>1 DEF PutClaim, putFrame, putLocals, resLocals, empLocals,
     scanLocals, asked, lost, TypeOK
<1>4. Local(p)
  BY <1>1, <1>2, HolderHasLock DEF PutClaim, Step, Control, Local, Holding
<1>5. TypeOK'
  BY <1>1, <1>2 DEF PutClaim, putFrame, putLocals, resLocals, empLocals,
     scanLocals, asked, lost, TypeOK, Control, FirstFree, Claimable,
     PutRecord, Record
<1>6. TrashOrder'
  BY <1>1, RecordAlone DEF PutClaim, putFrame, putLocals, resLocals,
     empLocals, scanLocals, asked, lost, TypeOK, FirstFree, Claimable,
     PutRecord, Record
<1>7. NewIds
  BY <1>1, IdsGo DEF PutClaim, putFrame, putLocals, resLocals, empLocals,
     scanLocals, asked, lost, TypeOK
<1>8. FreshBatch'
  BY <1>1, <1>2, <1>3, <1>7, SameBatches DEF PutClaim, Step, putFrame,
     putLocals, resLocals, empLocals, scanLocals, asked, lost, Control,
     BeforeMove
<1>9. LiveTempKept'
  BY <1>1, <1>2, HolderHasLock DEF PutClaim, Step, putFrame, putLocals,
     resLocals, empLocals, scanLocals, asked, lost, IInv, TypeOK,
     LiveTempKept, Control, Holding, Procs
<1>10. NothingLost'
  BY SameFiles DEF PutClaim, putFrame, putLocals, resLocals, empLocals,
     scanLocals, asked, lost
<1>11. OnlyCounted'
  BY SameAsked DEF PutClaim, putFrame, putLocals, resLocals, empLocals,
     scanLocals, asked, lost
<1>12. Holds(p)'
  BY <1>1, <1>2, ProcAssumption DEF PutClaim, Step, putFrame, putLocals,
     resLocals, empLocals, scanLocals, asked, lost, Holds, PutHolds, TypeOK,
     Control, Procs, Deleters, Repairers, FirstFree, Claimable, PutRecord,
     Record, HasPayload
<1>13. \A q \in Procs \ {p} : SameLocals(q)
  BY <1>1, ProcAssumption DEF PutClaim, putFrame, putLocals, resLocals,
     empLocals, scanLocals, asked, lost, TypeOK, SameLocals, Procs, Deleters,
     Repairers
<1> QED
  BY <1>1, <1>2, <1>4, <1>5, <1>6, <1>7, <1>8, <1>9, <1>10, <1>11,
       <1>12, <1>13, <1>3, Assembled

(* The put is past needing its temporary; other puts have other batches.   *)
LEMMA PutUntempKeeps ==
  ASSUME IInv, NEW p \in Putters, PutUntemp(p)
  PROVE  IInv'
<1>1. p \in Procs /\ TypeOK /\ PutHolds(p)
  BY DEF IInv, Procs, Deleters, Repairers, Holds
<1>2. Control(p, "put_move")
  BY <1>1, StepControl DEF PutUntemp, Labels, Waiting, Holding
<1>3. stamp \in Nat /\ stamp' \in Nat /\ stamp <= stamp'
  BY <1>1 DEF PutUntemp, putFrame, putLocals, resLocals, empLocals,
     scanLocals, asked, lost, TypeOK
<1>4. Local(p)
  BY <1>1, <1>2, HolderHasLock DEF PutUntemp, Step, Control, Local, Holding
<1>5. TypeOK'
  BY <1>1, <1>2 DEF PutUntemp, putFrame, putLocals, resLocals, empLocals,
     scanLocals, asked, lost, TypeOK, Control
<1>6. TrashOrder'
  BY <1>1, SameTrash DEF PutUntemp, putFrame, putLocals, resLocals,
     empLocals, scanLocals, asked, lost, TypeOK
<1>7. NewIds
  BY <1>1, IdsGo DEF PutUntemp, putFrame, putLocals, resLocals, empLocals,
     scanLocals, asked, lost, TypeOK
<1>8. FreshBatch'
  BY <1>1, <1>2, <1>3, <1>7, SameBatches DEF PutUntemp, Step, putFrame,
     putLocals, resLocals, empLocals, scanLocals, asked, lost, Control,
     BeforeMove
<1>9. LiveTempKept'
  BY <1>1, <1>2, <1>4, SameTemps DEF PutUntemp, putFrame, putLocals,
     resLocals, empLocals, scanLocals, asked, lost, Control
<1>10. NothingLost'
  BY SameFiles DEF PutUntemp, putFrame, putLocals, resLocals, empLocals,
     scanLocals, asked, lost
<1>11. OnlyCounted'
  BY SameAsked DEF PutUntemp, putFrame, putLocals, resLocals, empLocals,
     scanLocals, asked, lost
<1>12. Holds(p)'
  BY <1>1, <1>2, ProcAssumption DEF PutUntemp, Step, putFrame, putLocals,
     resLocals, empLocals, scanLocals, asked, lost, Holds, PutHolds, TypeOK,
     Control, Procs, Deleters, Repairers, PutRecord, HasPayload
<1>13. \A q \in Procs \ {p} : SameLocals(q)
  BY <1>1, ProcAssumption DEF PutUntemp, putFrame, putLocals, resLocals,
     empLocals, scanLocals, asked, lost, TypeOK, SameLocals, Procs, Deleters,
     Repairers
<1> QED
  BY <1>1, <1>2, <1>4, <1>5, <1>6, <1>7, <1>8, <1>9, <1>10, <1>11,
       <1>12, <1>13, <1>3, Assembled

(* The temporary goes with the label that relies on it.                    *)
LEMMA PutNoLinksKeeps ==
  ASSUME IInv, NEW p \in Putters, PutNoLinks(p)
  PROVE  IInv'
<1>1. p \in Procs /\ TypeOK /\ PutHolds(p)
  BY DEF IInv, Procs, Deleters, Repairers, Holds
<1>2. Control(p, "put_inplace")
  BY <1>1, StepControl DEF PutNoLinks, Labels, Waiting, Holding
<1>3. stamp \in Nat /\ stamp' \in Nat /\ stamp <= stamp'
  BY <1>1 DEF PutNoLinks, putFrame, putLocals, resLocals, empLocals,
     scanLocals, asked, lost, TypeOK
<1>4. Local(p)
  BY <1>1, <1>2, HolderHasLock DEF PutNoLinks, Step, Control, Local, Holding
<1>5. TypeOK'
  BY <1>1, <1>2 DEF PutNoLinks, putFrame, putLocals, resLocals, empLocals,
     scanLocals, asked, lost, TypeOK, Control
<1>6. TrashOrder'
  BY <1>1, SameTrash DEF PutNoLinks, putFrame, putLocals, resLocals,
     empLocals, scanLocals, asked, lost, TypeOK
<1>7. NewIds
  BY <1>1, IdsGo DEF PutNoLinks, putFrame, putLocals, resLocals, empLocals,
     scanLocals, asked, lost, TypeOK
<1>8. FreshBatch'
  BY <1>1, <1>2, <1>3, <1>7, SameBatches DEF PutNoLinks, Step, putFrame,
     putLocals, resLocals, empLocals, scanLocals, asked, lost, Control,
     BeforeMove
<1>9. LiveTempKept'
  BY <1>1, <1>2, <1>4, SameTemps DEF PutNoLinks, putFrame, putLocals,
     resLocals, empLocals, scanLocals, asked, lost, Control
<1>10. NothingLost'
  BY SameFiles DEF PutNoLinks, putFrame, putLocals, resLocals, empLocals,
     scanLocals, asked, lost
<1>11. OnlyCounted'
  BY SameAsked DEF PutNoLinks, putFrame, putLocals, resLocals, empLocals,
     scanLocals, asked, lost
<1>12. Holds(p)'
  BY <1>1, <1>2, ProcAssumption DEF PutNoLinks, Step, putFrame, putLocals,
     resLocals, empLocals, scanLocals, asked, lost, Holds, PutHolds, TypeOK,
     Control, Procs, Deleters, Repairers, PutRecord, HasPayload
<1>13. \A q \in Procs \ {p} : SameLocals(q)
  BY <1>1, ProcAssumption DEF PutNoLinks, putFrame, putLocals, resLocals,
     empLocals, scanLocals, asked, lost, TypeOK, SameLocals, Procs, Deleters,
     Repairers
<1> QED
  BY <1>1, <1>2, <1>4, <1>5, <1>6, <1>7, <1>8, <1>9, <1>10, <1>11,
       <1>12, <1>13, <1>3, Assembled

(* A blank record is made at a name without a payload.                     *)
LEMMA PutInPlaceKeeps ==
  ASSUME IInv, NEW p \in Putters, PutInPlace(p)
  PROVE  IInv'
<1>1. p \in Procs /\ TypeOK /\ PutHolds(p)
  BY DEF IInv, Procs, Deleters, Repairers, Holds
<1>2. Control(p, "put_write")
  BY <1>1, StepControl DEF PutInPlace, Labels, Waiting, Holding
<1>3. stamp \in Nat /\ stamp' \in Nat /\ stamp <= stamp'
  BY <1>1 DEF PutInPlace, putFrame, putLocals, resLocals, empLocals,
     scanLocals, asked, lost, TypeOK
<1>4. Local(p)
  BY <1>1, <1>2, HolderHasLock DEF PutInPlace, Step, Control, Local, Holding
<1>5. TypeOK'
  BY <1>1, <1>2 DEF PutInPlace, putFrame, putLocals, resLocals, empLocals,
     scanLocals, asked, lost, TypeOK, Control, FirstFree, Claimable,
     PutRecord, Record
<1>6. TrashOrder'
  BY <1>1, RecordAlone DEF PutInPlace, putFrame, putLocals, resLocals,
     empLocals, scanLocals, asked, lost, TypeOK, FirstFree, Claimable,
     PutRecord, Record
<1>7. NewIds
  BY <1>1, IdsGo DEF PutInPlace, putFrame, putLocals, resLocals, empLocals,
     scanLocals, asked, lost, TypeOK
<1>8. FreshBatch'
  BY <1>1, <1>2, <1>3, <1>7, SameBatches DEF PutInPlace, Step, putFrame,
     putLocals, resLocals, empLocals, scanLocals, asked, lost, Control,
     BeforeMove
<1>9. LiveTempKept'
  BY <1>1, <1>2, <1>4, SameTemps DEF PutInPlace, putFrame, putLocals,
     resLocals, empLocals, scanLocals, asked, lost, Control
<1>10. NothingLost'
  BY SameFiles DEF PutInPlace, putFrame, putLocals, resLocals, empLocals,
     scanLocals, asked, lost
<1>11. OnlyCounted'
  BY SameAsked DEF PutInPlace, putFrame, putLocals, resLocals, empLocals,
     scanLocals, asked, lost
<1>12. Holds(p)'
  BY <1>1, <1>2, ProcAssumption DEF PutInPlace, Step, putFrame, putLocals,
     resLocals, empLocals, scanLocals, asked, lost, Holds, PutHolds, TypeOK,
     Control, Procs, Deleters, Repairers, FirstFree, Claimable, PutRecord,
     Record, HasPayload
<1>13. \A q \in Procs \ {p} : SameLocals(q)
  BY <1>1, ProcAssumption DEF PutInPlace, putFrame, putLocals, resLocals,
     empLocals, scanLocals, asked, lost, TypeOK, SameLocals, Procs, Deleters,
     Repairers
<1> QED
  BY <1>1, <1>2, <1>4, <1>5, <1>6, <1>7, <1>8, <1>9, <1>10, <1>11,
       <1>12, <1>13, <1>3, Assembled

(* The record made blank is written while its name has no payload.         *)
LEMMA PutWriteKeeps ==
  ASSUME IInv, NEW p \in Putters, PutWrite(p)
  PROVE  IInv'
<1>1. p \in Procs /\ TypeOK /\ PutHolds(p)
  BY DEF IInv, Procs, Deleters, Repairers, Holds
<1>2. Control(p, "put_move")
  BY <1>1, StepControl DEF PutWrite, Labels, Waiting, Holding
<1>3. stamp \in Nat /\ stamp' \in Nat /\ stamp <= stamp'
  BY <1>1 DEF PutWrite, putFrame, putLocals, resLocals, empLocals,
     scanLocals, asked, lost, TypeOK
<1>4. Local(p)
  BY <1>1, <1>2, HolderHasLock DEF PutWrite, Step, Control, Local, Holding
<1>5. TypeOK'
  BY <1>1, <1>2 DEF PutWrite, putFrame, putLocals, resLocals, empLocals,
     scanLocals, asked, lost, TypeOK, Control, PutRecord, Record
<1>6. TrashOrder'
  BY <1>1, RecordAlone DEF PutWrite, putFrame, putLocals, resLocals,
     empLocals, scanLocals, asked, lost, TypeOK, PutRecord, Record, PutHolds,
     Step, Release
<1>7. NewIds
  BY <1>1, IdsGo DEF PutWrite, putFrame, putLocals, resLocals, empLocals,
     scanLocals, asked, lost, TypeOK
<1>8. FreshBatch'
  BY <1>1, <1>2, <1>3, <1>7, SameBatches DEF PutWrite, Step, putFrame,
     putLocals, resLocals, empLocals, scanLocals, asked, lost, Control,
     BeforeMove
<1>9. LiveTempKept'
  BY <1>1, <1>2, <1>4, SameTemps DEF PutWrite, putFrame, putLocals,
     resLocals, empLocals, scanLocals, asked, lost, Control
<1>10. NothingLost'
  BY SameFiles DEF PutWrite, putFrame, putLocals, resLocals, empLocals,
     scanLocals, asked, lost
<1>11. OnlyCounted'
  BY SameAsked DEF PutWrite, putFrame, putLocals, resLocals, empLocals,
     scanLocals, asked, lost
<1>12. Holds(p)'
  BY <1>1, <1>2, ProcAssumption DEF PutWrite, Step, putFrame, putLocals,
     resLocals, empLocals, scanLocals, asked, lost, Holds, PutHolds, TypeOK,
     Control, Procs, Deleters, Repairers, PutRecord, HasPayload
<1>13. \A q \in Procs \ {p} : SameLocals(q)
  BY <1>1, ProcAssumption DEF PutWrite, putFrame, putLocals, resLocals,
     empLocals, scanLocals, asked, lost, TypeOK, SameLocals, Procs, Deleters,
     Repairers
<1> QED
  BY <1>1, <1>2, <1>4, <1>5, <1>6, <1>7, <1>8, <1>9, <1>10, <1>11,
       <1>12, <1>13, <1>3, Assembled

(* The record taken back has no payload under its name.                    *)
LEMMA PutNoRecordKeeps ==
  ASSUME IInv, NEW p \in Putters, PutNoRecord(p)
  PROVE  IInv'
<1>1. p \in Procs /\ TypeOK /\ PutHolds(p)
  BY DEF IInv, Procs, Deleters, Repairers, Holds
<1>2. Control(p, "idle")
  BY <1>1, ReleaseControl DEF PutNoRecord, Labels, Waiting, Holding
<1>3. stamp \in Nat /\ stamp' \in Nat /\ stamp <= stamp'
  BY <1>1 DEF PutNoRecord, putFrame, putLocals, resLocals, empLocals,
     scanLocals, asked, lost, TypeOK
<1>4. Local(p)
  BY <1>1, <1>2, HolderHasLock DEF PutNoRecord, Release, Step, Control,
     Local, Holding
<1>5. TypeOK'
  <2>1. info' \in [Names -> Record]
    BY <1>1, Nulls DEF PutNoRecord, TypeOK
  <2>2. temps' \subseteq Nat
    BY <1>1 DEF PutNoRecord, TypeOK
  <2> QED
    BY <1>1, <1>2, <2>1, <2>2
    DEF PutNoRecord, putFrame, putLocals, resLocals, empLocals, scanLocals,
        asked, lost, TypeOK, Control
<1>6. TrashOrder'
  BY <1>1, Nulls, SameTrash, RecordAlone DEF PutNoRecord, putFrame,
     putLocals, resLocals, empLocals, scanLocals, asked, lost, TypeOK,
     PutRecord, Record, PutHolds, Step, Release
<1>7. NewIds
  BY <1>1, IdsGo DEF PutNoRecord, putFrame, putLocals, resLocals, empLocals,
     scanLocals, asked, lost, TypeOK
<1>8. FreshBatch'
  BY <1>1, <1>2, <1>3, <1>7, SameBatches DEF PutNoRecord, putFrame,
     putLocals, resLocals, empLocals, scanLocals, asked, lost, Control,
     BeforeMove
<1>9. LiveTempKept'
  BY <1>1, <1>2, <1>4, SameTemps DEF PutNoRecord, putFrame, putLocals,
     resLocals, empLocals, scanLocals, asked, lost, Control
<1>10. NothingLost'
  BY SameFiles DEF PutNoRecord, putFrame, putLocals, resLocals, empLocals,
     scanLocals, asked, lost
<1>11. OnlyCounted'
  BY SameAsked DEF PutNoRecord, putFrame, putLocals, resLocals, empLocals,
     scanLocals, asked, lost
<1>12. Holds(p)'
  BY <1>1, <1>2, ProcAssumption DEF PutNoRecord, Release, Step, putFrame,
     putLocals, resLocals, empLocals, scanLocals, asked, lost, Holds,
     PutHolds, TypeOK, Control, Procs, Deleters, Repairers, PutRecord,
     HasPayload
<1>13. \A q \in Procs \ {p} : SameLocals(q)
  BY <1>1, ProcAssumption DEF PutNoRecord, putFrame, putLocals, resLocals,
     empLocals, scanLocals, asked, lost, TypeOK, SameLocals, Procs, Deleters,
     Repairers
<1> QED
  BY <1>1, <1>2, <1>4, <1>5, <1>6, <1>7, <1>8, <1>9, <1>10, <1>11,
       <1>12, <1>13, <1>3, Assembled

(* The payload arrives under its own put's record, and the file moves with *)
(* it.                                                                     *)
LEMMA PutMoveKeeps ==
  ASSUME IInv, NEW p \in Putters, PutMove(p)
  PROVE  IInv'
<1>1. p \in Procs /\ TypeOK /\ PutHolds(p)
  BY DEF IInv, Procs, Deleters, Repairers, Holds
<1>2. Control(p, "idle")
  BY <1>1, ReleaseControl DEF PutMove, Labels, Waiting, Holding
<1>3. stamp \in Nat /\ stamp' \in Nat /\ stamp <= stamp'
  BY <1>1 DEF PutMove, putFrame, putLocals, resLocals, empLocals, scanLocals,
     asked, lost, TypeOK
<1>4. Local(p)
  BY <1>1, <1>2, HolderHasLock DEF PutMove, Release, Step, Control, Local,
     Holding
<1>5. TypeOK'
  BY <1>1, <1>2, BoundAssumption DEF PutMove, putFrame, putLocals, resLocals,
     empLocals, scanLocals, asked, lost, TypeOK, Control, PutPayload,
     Payload, Debris, Nothing
<1>6. TrashOrder'
  <2>1. /\ name[p] \in Names /\ info[name[p]] = PutRecord(p, TRUE)
        /\ batch[p] # 0 /\ batch[p] \in Nat /\ batch[p] <= stamp
    BY <1>1 DEF PutMove, Step, Release, TypeOK, PutHolds, IInv, FreshBatch,
                BeforeMove
  <2>2. live[at[p]] \in 0..Debris /\ live[at[p]] # Nothing
    BY <1>1, BoundAssumption DEF PutMove, TypeOK, Debris, Nothing
  <2>3. PutPayload(p, live[at[p]]) \in Payload
    BY <2>1, <2>2 DEF PutPayload, Payload
  <2>4. /\ files' = [files EXCEPT ![name[p]] = PutPayload(p, live[at[p]])]
        /\ info' = info
    BY DEF PutMove, putFrame
  <2>5. /\ PutPayload(p, live[at[p]]).id # 0 /\ PutPayload(p, live[at[p]]).id <= stamp'
        /\ PutPayload(p, live[at[p]]).item = info[name[p]].batch
        /\ PutPayload(p, live[at[p]]).file # Nothing
        /\ info[name[p]].whole /\ HasRecord(name[p])
    BY <1>3, <2>1, <2>2 DEF PutPayload, PutRecord, HasRecord, PutMove
  <2> QED
    BY <1>1, <1>3, <2>1, <2>3, <2>4, <2>5, PayloadComes
<1>7. NewIds
  BY <1>1, <1>2 DEF PutMove, putFrame, putLocals, resLocals, empLocals,
     scanLocals, asked, lost, TypeOK, NewIds, PutPayload, PutHolds, IInv,
     FreshBatch, Control, BeforeMove, Step, Release, Procs
<1>8. FreshBatch'
  BY <1>1, <1>2, <1>3, <1>7, SameBatches DEF PutMove, putFrame, putLocals,
     resLocals, empLocals, scanLocals, asked, lost, Control, BeforeMove
<1>9. LiveTempKept'
  BY <1>1, <1>2, <1>4, SameTemps DEF PutMove, putFrame, putLocals, resLocals,
     empLocals, scanLocals, asked, lost, Control
<1>10. NothingLost'
  <2>1. /\ at[p] \in Path /\ live'[at[p]] = Nothing
        /\ \A y \in Path \ {at[p]} : live'[y] = live[y]
        /\ name[p] \in Names /\ files'[name[p]].file = live[at[p]]
        /\ \A m \in Names \ {name[p]} : files'[m] = files[m]
    BY <1>1 DEF TypeOK, PutMove, PutPayload
  <2>2. /\ \A f : f = Nothing => OnPath(f)'
        /\ \A f : OnPath(f) => f = live[at[p]] \/ OnPath(f)'
    BY <2>1, PathChanges
  <2>3. /\ \A f : f = live[at[p]] => InFiles(f)'
        /\ \A f : InFiles(f) => f = files[name[p]].file \/ InFiles(f)'
    BY <2>1, FilesChange
  <2>4. files[name[p]].file = Nothing
    BY <1>1, <2>1, RealFiles DEF PutMove, HasPayload, IInv, TrashOrder, PayloadShape
  <2> QED
    BY <2>1, <2>2, <2>3, <2>4, RealFiles, Accounted
    DEF PutMove, putFrame, lost
<1>11. OnlyCounted'
  BY SameAsked DEF PutMove, putFrame, putLocals, resLocals, empLocals,
     scanLocals, asked, lost
<1>12. Holds(p)'
  BY <1>1, <1>2, ProcAssumption DEF PutMove, Release, Step, putFrame,
     putLocals, resLocals, empLocals, scanLocals, asked, lost, Holds,
     PutHolds, TypeOK, Control, Procs, Deleters, Repairers, PutRecord,
     HasPayload
<1>13. \A q \in Procs \ {p} : SameLocals(q)
  BY <1>1, ProcAssumption DEF PutMove, putFrame, putLocals, resLocals,
     empLocals, scanLocals, asked, lost, TypeOK, SameLocals, Procs, Deleters,
     Repairers
<1> QED
  BY <1>1, <1>2, <1>4, <1>5, <1>6, <1>7, <1>8, <1>9, <1>10, <1>11,
       <1>12, <1>13, <1>3, Assembled

(* The record taken back has no payload under its name.                    *)
LEMMA PutMoveFailsKeeps ==
  ASSUME IInv, NEW p \in Putters, PutMoveFails(p)
  PROVE  IInv'
<1>1. p \in Procs /\ TypeOK /\ PutHolds(p)
  BY DEF IInv, Procs, Deleters, Repairers, Holds
<1>2. Control(p, "idle")
  BY <1>1, ReleaseControl DEF PutMoveFails, Labels, Waiting, Holding
<1>3. stamp \in Nat /\ stamp' \in Nat /\ stamp <= stamp'
  BY <1>1 DEF PutMoveFails, putFrame, putLocals, resLocals, empLocals,
     scanLocals, asked, lost, TypeOK
<1>4. Local(p)
  BY <1>1, <1>2, HolderHasLock DEF PutMoveFails, Release, Step, Control,
     Local, Holding
<1>5. TypeOK'
  BY <1>1, <1>2, Nulls DEF PutMoveFails, putFrame, putLocals, resLocals,
     empLocals, scanLocals, asked, lost, TypeOK, Control
<1>6. TrashOrder'
  BY <1>1, Nulls, RecordAlone DEF PutMoveFails, putFrame, putLocals,
     resLocals, empLocals, scanLocals, asked, lost, TypeOK, PutRecord,
     Record, PutHolds, Step, Release
<1>7. NewIds
  BY <1>1, IdsGo DEF PutMoveFails, putFrame, putLocals, resLocals, empLocals,
     scanLocals, asked, lost, TypeOK
<1>8. FreshBatch'
  BY <1>1, <1>2, <1>3, <1>7, SameBatches DEF PutMoveFails, putFrame,
     putLocals, resLocals, empLocals, scanLocals, asked, lost, Control,
     BeforeMove
<1>9. LiveTempKept'
  BY <1>1, <1>2, <1>4, SameTemps DEF PutMoveFails, putFrame, putLocals,
     resLocals, empLocals, scanLocals, asked, lost, Control
<1>10. NothingLost'
  BY SameFiles DEF PutMoveFails, putFrame, putLocals, resLocals, empLocals,
     scanLocals, asked, lost
<1>11. OnlyCounted'
  BY SameAsked DEF PutMoveFails, putFrame, putLocals, resLocals, empLocals,
     scanLocals, asked, lost
<1>12. Holds(p)'
  BY <1>1, <1>2, ProcAssumption DEF PutMoveFails, Release, Step, putFrame,
     putLocals, resLocals, empLocals, scanLocals, asked, lost, Holds,
     PutHolds, TypeOK, Control, Procs, Deleters, Repairers, PutRecord,
     HasPayload
<1>13. \A q \in Procs \ {p} : SameLocals(q)
  BY <1>1, ProcAssumption DEF PutMoveFails, putFrame, putLocals, resLocals,
     empLocals, scanLocals, asked, lost, TypeOK, SameLocals, Procs, Deleters,
     Repairers
<1> QED
  BY <1>1, <1>2, <1>4, <1>5, <1>6, <1>7, <1>8, <1>9, <1>10, <1>11,
       <1>12, <1>13, <1>3, Assembled

(* A part of the copy arrives under its own put's record; the operand      *)
(* stays.                                                                  *)
LEMMA PutCopyKeeps ==
  ASSUME IInv, NEW p \in Putters, PutCopy(p)
  PROVE  IInv'
<1>1. p \in Procs /\ TypeOK /\ PutHolds(p)
  BY DEF IInv, Procs, Deleters, Repairers, Holds
<1>2. Control(p, "put_copy")
  BY <1>1, StepControl DEF PutCopy, Labels, Waiting, Holding
<1>3. stamp \in Nat /\ stamp' \in Nat /\ stamp <= stamp'
  BY <1>1 DEF PutCopy, putFrame, putLocals, resLocals, empLocals, scanLocals,
     asked, lost, TypeOK
<1>4. Local(p)
  BY <1>1, <1>2, HolderHasLock DEF PutCopy, Step, Control, Local, Holding
<1>5. TypeOK'
  BY <1>1, <1>2, BoundAssumption DEF PutCopy, putFrame, putLocals, resLocals,
     empLocals, scanLocals, asked, lost, TypeOK, Control, PutPayload,
     Payload, Debris, Nothing
<1>6. TrashOrder'
  <2>1. /\ name[p] \in Names /\ info[name[p]] = PutRecord(p, TRUE)
        /\ batch[p] # 0 /\ batch[p] \in Nat /\ batch[p] <= stamp
    BY <1>1 DEF PutCopy, Step, Release, TypeOK, PutHolds, IInv, FreshBatch,
                BeforeMove
  <2>2. Debris \in 0..Debris /\ Debris # Nothing
    BY <1>1, BoundAssumption DEF PutCopy, TypeOK, Debris, Nothing
  <2>3. PutPayload(p, Debris) \in Payload
    BY <2>1, <2>2 DEF PutPayload, Payload
  <2>4. /\ files' = [files EXCEPT ![name[p]] = PutPayload(p, Debris)]
        /\ info' = info
    BY DEF PutCopy, putFrame
  <2>5. /\ PutPayload(p, Debris).id # 0 /\ PutPayload(p, Debris).id <= stamp'
        /\ PutPayload(p, Debris).item = info[name[p]].batch
        /\ PutPayload(p, Debris).file # Nothing
        /\ info[name[p]].whole /\ HasRecord(name[p])
    BY <1>3, <2>1, <2>2 DEF PutPayload, PutRecord, HasRecord, PutCopy
  <2> QED
    BY <1>1, <1>3, <2>1, <2>3, <2>4, <2>5, PayloadComes
<1>7. NewIds
  BY <1>1, <1>2 DEF PutCopy, putFrame, putLocals, resLocals, empLocals,
     scanLocals, asked, lost, TypeOK, NewIds, PutPayload, PutHolds, IInv,
     FreshBatch, Control, BeforeMove, Step, Release, Procs
<1>8. FreshBatch'
  BY <1>1, <1>2, <1>3, <1>7, SameBatches DEF PutCopy, putFrame, putLocals,
     resLocals, empLocals, scanLocals, asked, lost, Control, BeforeMove
<1>9. LiveTempKept'
  BY <1>1, <1>2, <1>4, SameTemps DEF PutCopy, putFrame, putLocals, resLocals,
     empLocals, scanLocals, asked, lost, Control
<1>10. NothingLost'
  <2>1. /\ name[p] \in Names /\ files'[name[p]].file = Debris
        /\ \A m \in Names \ {name[p]} : files'[m] = files[m]
    BY <1>1 DEF TypeOK, PutCopy, PutPayload
  <2>2. \A f : OnPath(f) => OnPath(f)'
    BY DEF PutCopy, putFrame, OnPath
  <2>3. /\ \A f : f = Debris => InFiles(f)'
        /\ \A f : InFiles(f) => f = files[name[p]].file \/ InFiles(f)'
    BY <2>1, FilesChange
  <2>4. files[name[p]].file = Nothing
    BY <1>1, <2>1, RealFiles DEF PutCopy, HasPayload, IInv, TrashOrder, PayloadShape
  <2> QED
    BY <2>1, <2>2, <2>3, <2>4, RealFiles, Accounted
    DEF PutCopy, putFrame, lost
<1>11. OnlyCounted'
  BY SameAsked DEF PutCopy, putFrame, putLocals, resLocals, empLocals,
     scanLocals, asked, lost
<1>12. Holds(p)'
  BY <1>1, <1>2, ProcAssumption DEF PutCopy, Step, putFrame, putLocals,
     resLocals, empLocals, scanLocals, asked, lost, Holds, PutHolds, TypeOK,
     Control, Procs, Deleters, Repairers, PutPayload, PutRecord, HasPayload,
     IInv, FreshBatch, BeforeMove
<1>13. \A q \in Procs \ {p} : SameLocals(q)
  BY <1>1, ProcAssumption DEF PutCopy, putFrame, putLocals, resLocals,
     empLocals, scanLocals, asked, lost, TypeOK, SameLocals, Procs, Deleters,
     Repairers
<1> QED
  BY <1>1, <1>2, <1>4, <1>5, <1>6, <1>7, <1>8, <1>9, <1>10, <1>11,
       <1>12, <1>13, <1>3, Assembled

(* The copy becomes whole; the operand stays.                              *)
LEMMA PutCopiedKeeps ==
  ASSUME IInv, NEW p \in Putters, PutCopied(p)
  PROVE  IInv'
<1>1. p \in Procs /\ TypeOK /\ PutHolds(p)
  BY DEF IInv, Procs, Deleters, Repairers, Holds
<1>2. Control(p, "put_unlink")
  BY <1>1, StepControl DEF PutCopied, Labels, Waiting, Holding
<1>3. stamp \in Nat /\ stamp' \in Nat /\ stamp <= stamp'
  BY <1>1 DEF PutCopied, putFrame, putLocals, resLocals, empLocals,
     scanLocals, asked, lost, TypeOK
<1>4. Local(p)
  BY <1>1, <1>2, HolderHasLock DEF PutCopied, Step, Control, Local, Holding
<1>5. TypeOK'
  BY <1>1, <1>2, BoundAssumption DEF PutCopied, putFrame, putLocals,
     resLocals, empLocals, scanLocals, asked, lost, TypeOK, Control,
     PutPayload, Payload, Debris, Nothing
<1>6. TrashOrder'
  <2>1. /\ name[p] \in Names /\ info[name[p]] = PutRecord(p, TRUE)
        /\ batch[p] # 0 /\ batch[p] \in Nat /\ batch[p] <= stamp
    BY <1>1 DEF PutCopied, Step, Release, TypeOK, PutHolds, IInv, FreshBatch,
                BeforeMove
  <2>2. live[at[p]] \in 0..Debris /\ live[at[p]] # Nothing
    BY <1>1, BoundAssumption DEF PutCopied, TypeOK, Debris, Nothing
  <2>3. PutPayload(p, live[at[p]]) \in Payload
    BY <2>1, <2>2 DEF PutPayload, Payload
  <2>4. /\ files' = [files EXCEPT ![name[p]] = PutPayload(p, live[at[p]])]
        /\ info' = info
    BY DEF PutCopied, putFrame
  <2>5. /\ PutPayload(p, live[at[p]]).id # 0 /\ PutPayload(p, live[at[p]]).id <= stamp'
        /\ PutPayload(p, live[at[p]]).item = info[name[p]].batch
        /\ PutPayload(p, live[at[p]]).file # Nothing
        /\ info[name[p]].whole /\ HasRecord(name[p])
    BY <1>3, <2>1, <2>2 DEF PutPayload, PutRecord, HasRecord, PutCopied
  <2> QED
    BY <1>1, <1>3, <2>1, <2>3, <2>4, <2>5, PayloadComes
<1>7. NewIds
  BY <1>1, <1>2 DEF PutCopied, putFrame, putLocals, resLocals, empLocals,
     scanLocals, asked, lost, TypeOK, NewIds, PutPayload, PutHolds, IInv,
     FreshBatch, Control, BeforeMove, Step, Release, Procs
<1>8. FreshBatch'
  BY <1>1, <1>2, <1>3, <1>7, SameBatches DEF PutCopied, putFrame, putLocals,
     resLocals, empLocals, scanLocals, asked, lost, Control, BeforeMove
<1>9. LiveTempKept'
  BY <1>1, <1>2, <1>4, SameTemps DEF PutCopied, putFrame, putLocals,
     resLocals, empLocals, scanLocals, asked, lost, Control
<1>10. NothingLost'
  <2>1. /\ name[p] \in Names /\ files'[name[p]].file = live[at[p]]
        /\ \A m \in Names \ {name[p]} : files'[m] = files[m]
    BY <1>1 DEF TypeOK, PutCopied, PutPayload
  <2>2. \A f : OnPath(f) => OnPath(f)'
    BY DEF PutCopied, putFrame, OnPath
  <2>3. /\ \A f : f = live[at[p]] => InFiles(f)'
        /\ \A f : InFiles(f) => f = files[name[p]].file \/ InFiles(f)'
    BY <2>1, FilesChange
  <2>4. files[name[p]].file = Debris
    BY <1>1 DEF PutCopied, Step, PutHolds
  <2> QED
    BY <2>1, <2>2, <2>3, <2>4, RealFiles, Accounted
    DEF PutCopied, putFrame, lost
<1>11. OnlyCounted'
  BY SameAsked DEF PutCopied, putFrame, putLocals, resLocals, empLocals,
     scanLocals, asked, lost
<1>12. Holds(p)'
  BY <1>1, <1>2, ProcAssumption DEF PutCopied, Step, putFrame, putLocals,
     resLocals, empLocals, scanLocals, asked, lost, Holds, PutHolds, TypeOK,
     Control, Procs, Deleters, Repairers, PutPayload, PutRecord, HasPayload
<1>13. \A q \in Procs \ {p} : SameLocals(q)
  BY <1>1, ProcAssumption DEF PutCopied, putFrame, putLocals, resLocals,
     empLocals, scanLocals, asked, lost, TypeOK, SameLocals, Procs, Deleters,
     Repairers
<1> QED
  BY <1>1, <1>2, <1>4, <1>5, <1>6, <1>7, <1>8, <1>9, <1>10, <1>11,
       <1>12, <1>13, <1>3, Assembled

(* The part and its record go; the operand was never touched.              *)
LEMMA PutCopyFailsKeeps ==
  ASSUME IInv, NEW p \in Putters, PutCopyFails(p)
  PROVE  IInv'
<1>1. p \in Procs /\ TypeOK /\ PutHolds(p)
  BY DEF IInv, Procs, Deleters, Repairers, Holds
<1>2. Control(p, "idle")
  BY <1>1, ReleaseControl DEF PutCopyFails, Labels, Waiting, Holding
<1>3. stamp \in Nat /\ stamp' \in Nat /\ stamp <= stamp'
  BY <1>1 DEF PutCopyFails, putFrame, putLocals, resLocals, empLocals,
     scanLocals, asked, lost, TypeOK
<1>4. Local(p)
  BY <1>1, <1>2, HolderHasLock DEF PutCopyFails, Release, Step, Control,
     Local, Holding
<1>5. TypeOK'
  BY <1>1, <1>2, Nulls DEF PutCopyFails, putFrame, putLocals, resLocals,
     empLocals, scanLocals, asked, lost, TypeOK, Control
<1>6. TrashOrder'
  BY <1>1, Nulls DEF PutCopyFails, putFrame, putLocals, resLocals, empLocals,
     scanLocals, asked, lost, TypeOK, IInv, TrashOrder, PayloadShape,
     SamePut, PayloadWhole, PayloadHasRecord, HasPayload, HasRecord
<1>7. NewIds
  BY <1>1, IdsGo DEF PutCopyFails, putFrame, putLocals, resLocals, empLocals,
     scanLocals, asked, lost, TypeOK
<1>8. FreshBatch'
  BY <1>1, <1>2, <1>3, <1>7, SameBatches DEF PutCopyFails, putFrame,
     putLocals, resLocals, empLocals, scanLocals, asked, lost, Control,
     BeforeMove
<1>9. LiveTempKept'
  BY <1>1, <1>2, <1>4, SameTemps DEF PutCopyFails, putFrame, putLocals,
     resLocals, empLocals, scanLocals, asked, lost, Control
<1>10. NothingLost'
  <2>1. /\ name[p] \in Names /\ files'[name[p]].file = Nothing
        /\ \A m \in Names \ {name[p]} : files'[m] = files[m]
    BY <1>1 DEF TypeOK, PutCopyFails, NoPayload
  <2>2. \A f : OnPath(f) => OnPath(f)'
    BY DEF PutCopyFails, putFrame, OnPath
  <2>3. /\ \A f : f = Nothing => InFiles(f)'
        /\ \A f : InFiles(f) => f = files[name[p]].file \/ InFiles(f)'
    BY <2>1, FilesChange
  <2>4. files[name[p]].file = Debris
    BY <1>1 DEF PutCopyFails, Release, Step, PutHolds
  <2> QED
    BY <2>1, <2>2, <2>3, <2>4, RealFiles, Accounted
    DEF PutCopyFails, putFrame, lost
<1>11. OnlyCounted'
  BY SameAsked DEF PutCopyFails, putFrame, putLocals, resLocals, empLocals,
     scanLocals, asked, lost
<1>12. Holds(p)'
  BY <1>1, <1>2, ProcAssumption DEF PutCopyFails, Release, Step, putFrame,
     putLocals, resLocals, empLocals, scanLocals, asked, lost, Holds,
     PutHolds, TypeOK, Control, Procs, Deleters, Repairers, PutRecord,
     HasPayload
<1>13. \A q \in Procs \ {p} : SameLocals(q)
  BY <1>1, ProcAssumption DEF PutCopyFails, putFrame, putLocals, resLocals,
     empLocals, scanLocals, asked, lost, TypeOK, SameLocals, Procs, Deleters,
     Repairers
<1> QED
  BY <1>1, <1>2, <1>4, <1>5, <1>6, <1>7, <1>8, <1>9, <1>10, <1>11,
       <1>12, <1>13, <1>3, Assembled

(* The operand goes only when the copy is whole in files/.                 *)
LEMMA PutUnlinkKeeps ==
  ASSUME IInv, NEW p \in Putters, PutUnlink(p)
  PROVE  IInv'
<1>1. p \in Procs /\ TypeOK /\ PutHolds(p)
  BY DEF IInv, Procs, Deleters, Repairers, Holds
<1>2. Control(p, "idle")
  BY <1>1, ReleaseControl DEF PutUnlink, Labels, Waiting, Holding
<1>3. stamp \in Nat /\ stamp' \in Nat /\ stamp <= stamp'
  BY <1>1 DEF PutUnlink, putFrame, putLocals, resLocals, empLocals,
     scanLocals, asked, lost, TypeOK
<1>4. Local(p)
  BY <1>1, <1>2 DEF PutUnlink, Release, Step, Control, Local, putFrame,
     putLocals, resLocals, empLocals, scanLocals, asked, lost
<1>5. TypeOK'
  <2>1. live' \in [Path -> 0..Debris]
    BY <1>1, BoundAssumption DEF PutUnlink, TypeOK, Nothing, Debris
  <2>2. clobbered' \subseteq 1..Debris
    <3>1. live[at[p]] \in 0..Debris /\ clobbered \subseteq 1..Debris
      BY <1>1 DEF TypeOK
    <3>2. {live[at[p]]} \ {Nothing} \subseteq 1..Debris
      BY <3>1, BoundAssumption DEF Nothing, Debris
    <3> QED BY <3>1, <3>2 DEF PutUnlink
  <2> QED
    BY <1>1, <1>2, <2>1, <2>2
    DEF PutUnlink, putFrame, putLocals, resLocals, empLocals, scanLocals,
        asked, TypeOK, Control
<1>6. TrashOrder'
  BY <1>1, SameTrash DEF PutUnlink, putFrame, putLocals, resLocals,
     empLocals, scanLocals, asked, lost, TypeOK
<1>7. NewIds
  BY <1>1, IdsGo DEF PutUnlink, putFrame, putLocals, resLocals, empLocals,
     scanLocals, asked, lost, TypeOK
<1>8. FreshBatch'
  BY <1>1, <1>2, <1>3, <1>7, SameBatches DEF PutUnlink, putFrame, putLocals,
     resLocals, empLocals, scanLocals, asked, lost, Control, BeforeMove
<1>9. LiveTempKept'
  BY <1>1, <1>2, <1>4, SameTemps DEF PutUnlink, putFrame, putLocals,
     resLocals, empLocals, scanLocals, asked, lost, Control
<1>10. NothingLost'
  <2>1. /\ at[p] \in Path /\ live'[at[p]] = Nothing
        /\ \A y \in Path \ {at[p]} : live'[y] = live[y]
    BY <1>1 DEF TypeOK, PutUnlink
  <2>2. /\ \A f : f = Nothing => OnPath(f)'
        /\ \A f : OnPath(f) => f = live[at[p]] \/ OnPath(f)'
    BY <2>1, PathChanges
  <2>3. \A f : InFiles(f) => InFiles(f)'
    BY DEF PutUnlink, putFrame, InFiles
  <2>4. ASSUME NEW f \in File, f = live[at[p]]
        PROVE  InFiles(f)' \/ f \in clobbered'
    <3>1. CASE f = files[name[p]].file
      BY <1>1, <3>1 DEF InFiles, PutUnlink, TypeOK
    <3>2. CASE f # files[name[p]].file
      BY <2>4, <3>2, RealFiles DEF PutUnlink
    <3> QED BY <3>1, <3>2
  <2> QED
    BY <2>1, <2>2, <2>3, <2>4, RealFiles, Accounted
    DEF PutUnlink, putFrame, lost
<1>11. OnlyCounted'
  BY SameAsked DEF PutUnlink, putFrame, putLocals, resLocals, empLocals,
     scanLocals, asked, lost
<1>12. Holds(p)'
  BY <1>1, <1>2, ProcAssumption DEF PutUnlink, Release, Step, putFrame,
     putLocals, resLocals, empLocals, scanLocals, asked, lost, Holds,
     PutHolds, TypeOK, Control, Procs, Deleters, Repairers, PutRecord,
     HasPayload
<1>13. \A q \in Procs \ {p} : SameLocals(q)
  BY <1>1, ProcAssumption DEF PutUnlink, putFrame, putLocals, resLocals,
     empLocals, scanLocals, asked, lost, TypeOK, SameLocals, Procs, Deleters,
     Repairers
<1> QED
  BY <1>1, <1>2, <1>4, <1>5, <1>6, <1>7, <1>8, <1>9, <1>10, <1>11,
       <1>12, <1>13, <1>3, Assembled

(* What is left of the operand is a part; the whole copy is in files/.     *)
LEMMA PutSourceLeftKeeps ==
  ASSUME IInv, NEW p \in Putters, PutSourceLeft(p)
  PROVE  IInv'
<1>1. p \in Procs /\ TypeOK /\ PutHolds(p)
  BY DEF IInv, Procs, Deleters, Repairers, Holds
<1>2. Control(p, "idle")
  BY <1>1, ReleaseControl DEF PutSourceLeft, Labels, Waiting, Holding
<1>3. stamp \in Nat /\ stamp' \in Nat /\ stamp <= stamp'
  BY <1>1 DEF PutSourceLeft, putFrame, putLocals, resLocals, empLocals,
     scanLocals, asked, lost, TypeOK
<1>4. Local(p)
  BY <1>1, <1>2 DEF PutSourceLeft, Release, Step, Control, Local, putFrame,
     putLocals, resLocals, empLocals, scanLocals, asked, lost
<1>5. TypeOK'
  BY <1>1, <1>2, BoundAssumption DEF PutSourceLeft, putFrame, putLocals,
     resLocals, empLocals, scanLocals, asked, lost, TypeOK, Control, Nothing,
     Debris
<1>6. TrashOrder'
  BY <1>1, SameTrash DEF PutSourceLeft, putFrame, putLocals, resLocals,
     empLocals, scanLocals, asked, lost, TypeOK
<1>7. NewIds
  BY <1>1, IdsGo DEF PutSourceLeft, putFrame, putLocals, resLocals,
     empLocals, scanLocals, asked, lost, TypeOK
<1>8. FreshBatch'
  BY <1>1, <1>2, <1>3, <1>7, SameBatches DEF PutSourceLeft, putFrame,
     putLocals, resLocals, empLocals, scanLocals, asked, lost, Control,
     BeforeMove
<1>9. LiveTempKept'
  BY <1>1, <1>2, <1>4, SameTemps DEF PutSourceLeft, putFrame, putLocals,
     resLocals, empLocals, scanLocals, asked, lost, Control
<1>10. NothingLost'
  <2>1. /\ at[p] \in Path /\ live'[at[p]] = Debris
        /\ \A y \in Path \ {at[p]} : live'[y] = live[y]
    BY <1>1 DEF TypeOK, PutSourceLeft
  <2>2. /\ \A f : f = Debris => OnPath(f)'
        /\ \A f : OnPath(f) => f = live[at[p]] \/ OnPath(f)'
    BY <2>1, PathChanges
  <2>3. \A f : InFiles(f) => InFiles(f)'
    BY DEF PutSourceLeft, putFrame, InFiles
  <2>4. \A f : f = live[at[p]] => InFiles(f)'
    BY <1>1 DEF InFiles, PutSourceLeft, TypeOK
  <2> QED
    BY <2>1, <2>2, <2>3, <2>4, RealFiles, Accounted
    DEF PutSourceLeft, putFrame, lost
<1>11. OnlyCounted'
  BY SameAsked DEF PutSourceLeft, putFrame, putLocals, resLocals, empLocals,
     scanLocals, asked, lost
<1>12. Holds(p)'
  BY <1>1, <1>2, ProcAssumption DEF PutSourceLeft, Release, Step, putFrame,
     putLocals, resLocals, empLocals, scanLocals, asked, lost, Holds,
     PutHolds, TypeOK, Control, Procs, Deleters, Repairers, PutRecord,
     HasPayload
<1>13. \A q \in Procs \ {p} : SameLocals(q)
  BY <1>1, ProcAssumption DEF PutSourceLeft, putFrame, putLocals, resLocals,
     empLocals, scanLocals, asked, lost, TypeOK, SameLocals, Procs, Deleters,
     Repairers
<1> QED
  BY <1>1, <1>2, <1>4, <1>5, <1>6, <1>7, <1>8, <1>9, <1>10, <1>11,
       <1>12, <1>13, <1>3, Assembled

-----------------------------------------------------------------------------
(* Every step of a restore keeps IInv.                                     *)

(* Only a whole record is taken up.                                        *)
LEMMA RestoreScanKeeps ==
  ASSUME IInv, NEW p \in Restorers, NEW n \in Names, RestoreScan(p, n)
  PROVE  IInv'
<1>1. p \in Procs /\ TypeOK /\ RestoreHolds(p)
  BY DEF IInv, Procs, Deleters, Repairers, Holds
<1>2. Control(p, "res_check")
  BY <1>1, StepControl DEF RestoreScan, Labels, Waiting, Holding
<1>3. stamp \in Nat /\ stamp' \in Nat /\ stamp <= stamp'
  BY <1>1 DEF RestoreScan, resFrame, resLocals, putLocals, empLocals,
     scanLocals, asked, lost, TypeOK
<1>4. Local(p)
  BY <1>1, <1>2 DEF RestoreScan, Step, Control, Local, resFrame, resLocals,
     putLocals, empLocals, scanLocals, asked, lost
<1>5. TypeOK'
  BY <1>1, <1>2 DEF RestoreScan, resFrame, resLocals, putLocals, empLocals,
     scanLocals, asked, lost, TypeOK, Control
<1>6. TrashOrder'
  BY <1>1, SameTrash DEF RestoreScan, resFrame, resLocals, putLocals,
     empLocals, scanLocals, asked, lost, TypeOK
<1>7. NewIds
  BY <1>1, IdsGo DEF RestoreScan, resFrame, resLocals, putLocals, empLocals,
     scanLocals, asked, lost, TypeOK
<1>8. FreshBatch'
  BY <1>1, <1>2, <1>3, <1>7, SameBatches DEF RestoreScan, resFrame,
     resLocals, putLocals, empLocals, scanLocals, asked, lost, Control,
     BeforeMove
<1>9. LiveTempKept'
  BY <1>1, <1>4, ProcAssumption, SameTemps DEF RestoreScan, resFrame,
     resLocals, putLocals, empLocals, scanLocals, asked, lost, Procs,
     Deleters, Repairers
<1>10. NothingLost'
  BY SameFiles DEF RestoreScan, resFrame, resLocals, putLocals, empLocals,
     scanLocals, asked, lost
<1>11. OnlyCounted'
  BY SameAsked DEF RestoreScan, resFrame, resLocals, putLocals, empLocals,
     scanLocals, asked, lost
<1>12. Holds(p)'
  BY <1>1, <1>2, ProcAssumption DEF RestoreScan, Step, resFrame, resLocals,
     putLocals, empLocals, scanLocals, asked, lost, Holds, RestoreHolds,
     TypeOK, Control, Procs, Deleters, Repairers, HasRecord
<1>13. \A q \in Procs \ {p} : SameLocals(q)
  BY <1>1, ProcAssumption DEF RestoreScan, resFrame, resLocals, putLocals,
     empLocals, scanLocals, asked, lost, TypeOK, SameLocals, Procs, Deleters,
     Repairers
<1> QED
  BY <1>1, <1>2, <1>4, <1>5, <1>6, <1>7, <1>8, <1>9, <1>10, <1>11,
       <1>12, <1>13, <1>3, Assembled

(* A look changes no file.                                                 *)
LEMMA RestoreCheckKeeps ==
  ASSUME IInv, NEW p \in Restorers, RestoreCheck(p)
  PROVE  IInv'
<1>1. p \in Procs /\ TypeOK /\ RestoreHolds(p)
  BY DEF IInv, Procs, Deleters, Repairers, Holds
<1>2. Control(p, "res_lock")
  BY <1>1, StepControl DEF RestoreCheck, Labels, Waiting, Holding
<1>3. stamp \in Nat /\ stamp' \in Nat /\ stamp <= stamp'
  BY <1>1 DEF RestoreCheck, resFrame, resLocals, putLocals, empLocals,
     scanLocals, asked, lost, TypeOK
<1>4. Local(p)
  BY <1>1, <1>2 DEF RestoreCheck, Step, Control, Local, resFrame, resLocals,
     putLocals, empLocals, scanLocals, asked, lost
<1>5. TypeOK'
  BY <1>1, <1>2 DEF RestoreCheck, resFrame, resLocals, putLocals, empLocals,
     scanLocals, asked, lost, TypeOK, Control
<1>6. TrashOrder'
  BY <1>1, SameTrash DEF RestoreCheck, resFrame, resLocals, putLocals,
     empLocals, scanLocals, asked, lost, TypeOK
<1>7. NewIds
  BY <1>1, IdsGo DEF RestoreCheck, resFrame, resLocals, putLocals, empLocals,
     scanLocals, asked, lost, TypeOK
<1>8. FreshBatch'
  BY <1>1, <1>2, <1>3, <1>7, SameBatches DEF RestoreCheck, resFrame,
     resLocals, putLocals, empLocals, scanLocals, asked, lost, Control,
     BeforeMove
<1>9. LiveTempKept'
  BY <1>1, <1>4, ProcAssumption, SameTemps DEF RestoreCheck, resFrame,
     resLocals, putLocals, empLocals, scanLocals, asked, lost, Procs,
     Deleters, Repairers
<1>10. NothingLost'
  BY SameFiles DEF RestoreCheck, resFrame, resLocals, putLocals, empLocals,
     scanLocals, asked, lost
<1>11. OnlyCounted'
  BY SameAsked DEF RestoreCheck, resFrame, resLocals, putLocals, empLocals,
     scanLocals, asked, lost
<1>12. Holds(p)'
  BY <1>1, <1>2, ProcAssumption DEF RestoreCheck, Step, resFrame, resLocals,
     putLocals, empLocals, scanLocals, asked, lost, Holds, RestoreHolds,
     TypeOK, Control, Procs, Deleters, Repairers, HasPayload
<1>13. \A q \in Procs \ {p} : SameLocals(q)
  BY <1>1, ProcAssumption DEF RestoreCheck, resFrame, resLocals, putLocals,
     empLocals, scanLocals, asked, lost, TypeOK, SameLocals, Procs, Deleters,
     Repairers
<1> QED
  BY <1>1, <1>2, <1>4, <1>5, <1>6, <1>7, <1>8, <1>9, <1>10, <1>11,
       <1>12, <1>13, <1>3, Assembled

(* A refusal changes no file.                                              *)
LEMMA RestoreRefuseKeeps ==
  ASSUME IInv, NEW p \in Restorers, RestoreRefuse(p)
  PROVE  IInv'
<1>1. p \in Procs /\ TypeOK /\ RestoreHolds(p)
  BY DEF IInv, Procs, Deleters, Repairers, Holds
<1>2. Control(p, "idle")
  BY <1>1, StepControl DEF RestoreRefuse, Labels, Waiting, Holding
<1>3. stamp \in Nat /\ stamp' \in Nat /\ stamp <= stamp'
  BY <1>1 DEF RestoreRefuse, resFrame, resLocals, putLocals, empLocals,
     scanLocals, asked, lost, TypeOK
<1>4. Local(p)
  BY <1>1, <1>2 DEF RestoreRefuse, Step, Control, Local, resFrame, resLocals,
     putLocals, empLocals, scanLocals, asked, lost
<1>5. TypeOK'
  BY <1>1, <1>2 DEF RestoreRefuse, resFrame, resLocals, putLocals, empLocals,
     scanLocals, asked, lost, TypeOK, Control
<1>6. TrashOrder'
  BY <1>1, SameTrash DEF RestoreRefuse, resFrame, resLocals, putLocals,
     empLocals, scanLocals, asked, lost, TypeOK
<1>7. NewIds
  BY <1>1, IdsGo DEF RestoreRefuse, resFrame, resLocals, putLocals,
     empLocals, scanLocals, asked, lost, TypeOK
<1>8. FreshBatch'
  BY <1>1, <1>2, <1>3, <1>7, SameBatches DEF RestoreRefuse, resFrame,
     resLocals, putLocals, empLocals, scanLocals, asked, lost, Control,
     BeforeMove
<1>9. LiveTempKept'
  BY <1>1, <1>4, ProcAssumption, SameTemps DEF RestoreRefuse, resFrame,
     resLocals, putLocals, empLocals, scanLocals, asked, lost, Procs,
     Deleters, Repairers
<1>10. NothingLost'
  BY SameFiles DEF RestoreRefuse, resFrame, resLocals, putLocals, empLocals,
     scanLocals, asked, lost
<1>11. OnlyCounted'
  BY SameAsked DEF RestoreRefuse, resFrame, resLocals, putLocals, empLocals,
     scanLocals, asked, lost
<1>12. Holds(p)'
  BY <1>1, <1>2, ProcAssumption DEF RestoreRefuse, Step, resFrame, resLocals,
     putLocals, empLocals, scanLocals, asked, lost, Holds, RestoreHolds,
     TypeOK, Control, Procs, Deleters, Repairers, HasPayload
<1>13. \A q \in Procs \ {p} : SameLocals(q)
  BY <1>1, ProcAssumption DEF RestoreRefuse, resFrame, resLocals, putLocals,
     empLocals, scanLocals, asked, lost, TypeOK, SameLocals, Procs, Deleters,
     Repairers
<1> QED
  BY <1>1, <1>2, <1>4, <1>5, <1>6, <1>7, <1>8, <1>9, <1>10, <1>11,
       <1>12, <1>13, <1>3, Assembled

(* Taking the free lock changes no file.                                   *)
LEMMA RestoreLockKeeps ==
  ASSUME IInv, NEW p \in Restorers, RestoreLock(p)
  PROVE  IInv'
<1>1. p \in Procs /\ TypeOK /\ RestoreHolds(p)
  BY DEF IInv, Procs, Deleters, Repairers, Holds
<1>2. Control(p, "res_verify")
  BY <1>1, AcquireControl DEF RestoreLock, Labels, Waiting, Holding
<1>3. stamp \in Nat /\ stamp' \in Nat /\ stamp <= stamp'
  BY <1>1 DEF RestoreLock, resFrame, resLocals, putLocals, empLocals,
     scanLocals, asked, lost, TypeOK
<1>4. Local(p)
  BY <1>1, <1>2 DEF RestoreLock, Acquire, Step, Control, Local, resFrame,
     resLocals, putLocals, empLocals, scanLocals, asked, lost
<1>5. TypeOK'
  BY <1>1, <1>2 DEF RestoreLock, resFrame, resLocals, putLocals, empLocals,
     scanLocals, asked, lost, TypeOK, Control
<1>6. TrashOrder'
  BY <1>1, SameTrash DEF RestoreLock, resFrame, resLocals, putLocals,
     empLocals, scanLocals, asked, lost, TypeOK
<1>7. NewIds
  BY <1>1, IdsGo DEF RestoreLock, resFrame, resLocals, putLocals, empLocals,
     scanLocals, asked, lost, TypeOK
<1>8. FreshBatch'
  BY <1>1, <1>2, <1>3, <1>7, SameBatches DEF RestoreLock, resFrame,
     resLocals, putLocals, empLocals, scanLocals, asked, lost, Control,
     BeforeMove
<1>9. LiveTempKept'
  BY <1>1, <1>4, ProcAssumption, SameTemps DEF RestoreLock, resFrame,
     resLocals, putLocals, empLocals, scanLocals, asked, lost, Procs,
     Deleters, Repairers
<1>10. NothingLost'
  BY SameFiles DEF RestoreLock, resFrame, resLocals, putLocals, empLocals,
     scanLocals, asked, lost
<1>11. OnlyCounted'
  BY SameAsked DEF RestoreLock, resFrame, resLocals, putLocals, empLocals,
     scanLocals, asked, lost
<1>12. Holds(p)'
  BY <1>1, <1>2, ProcAssumption DEF RestoreLock, Acquire, Step, resFrame,
     resLocals, putLocals, empLocals, scanLocals, asked, lost, Holds,
     RestoreHolds, TypeOK, Control, Procs, Deleters, Repairers, HasPayload
<1>13. \A q \in Procs \ {p} : SameLocals(q)
  BY <1>1, ProcAssumption DEF RestoreLock, resFrame, resLocals, putLocals,
     empLocals, scanLocals, asked, lost, TypeOK, SameLocals, Procs, Deleters,
     Repairers
<1> QED
  BY <1>1, <1>2, <1>4, <1>5, <1>6, <1>7, <1>8, <1>9, <1>10, <1>11,
       <1>12, <1>13, <1>3, Assembled

(* From here to the end of the section the record is the one listed.       *)
LEMMA RestoreVerifyKeeps ==
  ASSUME IInv, NEW p \in Restorers, RestoreVerify(p)
  PROVE  IInv'
<1>1. p \in Procs /\ TypeOK /\ RestoreHolds(p)
  BY DEF IInv, Procs, Deleters, Repairers, Holds
<1>2. Control(p, "res_stage")
  BY <1>1, StepControl DEF RestoreVerify, Labels, Waiting, Holding
<1>3. stamp \in Nat /\ stamp' \in Nat /\ stamp <= stamp'
  BY <1>1 DEF RestoreVerify, resFrame, resLocals, putLocals, empLocals,
     scanLocals, asked, lost, TypeOK
<1>4. Local(p)
  BY <1>1, <1>2 DEF RestoreVerify, Step, Control, Local, resFrame, resLocals,
     putLocals, empLocals, scanLocals, asked, lost
<1>5. TypeOK'
  BY <1>1, <1>2 DEF RestoreVerify, resFrame, resLocals, putLocals, empLocals,
     scanLocals, asked, lost, TypeOK, Control
<1>6. TrashOrder'
  BY <1>1, SameTrash DEF RestoreVerify, resFrame, resLocals, putLocals,
     empLocals, scanLocals, asked, lost, TypeOK
<1>7. NewIds
  BY <1>1, IdsGo DEF RestoreVerify, resFrame, resLocals, putLocals,
     empLocals, scanLocals, asked, lost, TypeOK
<1>8. FreshBatch'
  BY <1>1, <1>2, <1>3, <1>7, SameBatches DEF RestoreVerify, resFrame,
     resLocals, putLocals, empLocals, scanLocals, asked, lost, Control,
     BeforeMove
<1>9. LiveTempKept'
  BY <1>1, <1>4, ProcAssumption, SameTemps DEF RestoreVerify, resFrame,
     resLocals, putLocals, empLocals, scanLocals, asked, lost, Procs,
     Deleters, Repairers
<1>10. NothingLost'
  BY SameFiles DEF RestoreVerify, resFrame, resLocals, putLocals, empLocals,
     scanLocals, asked, lost
<1>11. OnlyCounted'
  BY SameAsked DEF RestoreVerify, resFrame, resLocals, putLocals, empLocals,
     scanLocals, asked, lost
<1>12. Holds(p)'
  BY <1>1, <1>2, ProcAssumption DEF RestoreVerify, Step, resFrame, resLocals,
     putLocals, empLocals, scanLocals, asked, lost, Holds, RestoreHolds,
     TypeOK, Control, Procs, Deleters, Repairers, HasPayload
<1>13. \A q \in Procs \ {p} : SameLocals(q)
  BY <1>1, ProcAssumption DEF RestoreVerify, resFrame, resLocals, putLocals,
     empLocals, scanLocals, asked, lost, TypeOK, SameLocals, Procs, Deleters,
     Repairers
<1> QED
  BY <1>1, <1>2, <1>4, <1>5, <1>6, <1>7, <1>8, <1>9, <1>10, <1>11,
       <1>12, <1>13, <1>3, Assembled

(* A refusal under the lock only drops it.                                 *)
LEMMA RestoreChangedKeeps ==
  ASSUME IInv, NEW p \in Restorers, RestoreChanged(p)
  PROVE  IInv'
<1>1. p \in Procs /\ TypeOK /\ RestoreHolds(p)
  BY DEF IInv, Procs, Deleters, Repairers, Holds
<1>2. Control(p, "idle")
  BY <1>1, ReleaseControl DEF RestoreChanged, Labels, Waiting, Holding
<1>3. stamp \in Nat /\ stamp' \in Nat /\ stamp <= stamp'
  BY <1>1 DEF RestoreChanged, resFrame, resLocals, putLocals, empLocals,
     scanLocals, asked, lost, TypeOK
<1>4. Local(p)
  BY <1>1, <1>2 DEF RestoreChanged, Release, Step, Control, Local, resFrame,
     resLocals, putLocals, empLocals, scanLocals, asked, lost
<1>5. TypeOK'
  BY <1>1, <1>2 DEF RestoreChanged, resFrame, resLocals, putLocals,
     empLocals, scanLocals, asked, lost, TypeOK, Control
<1>6. TrashOrder'
  BY <1>1, SameTrash DEF RestoreChanged, resFrame, resLocals, putLocals,
     empLocals, scanLocals, asked, lost, TypeOK
<1>7. NewIds
  BY <1>1, IdsGo DEF RestoreChanged, resFrame, resLocals, putLocals,
     empLocals, scanLocals, asked, lost, TypeOK
<1>8. FreshBatch'
  BY <1>1, <1>2, <1>3, <1>7, SameBatches DEF RestoreChanged, resFrame,
     resLocals, putLocals, empLocals, scanLocals, asked, lost, Control,
     BeforeMove
<1>9. LiveTempKept'
  BY <1>1, <1>4, ProcAssumption, SameTemps DEF RestoreChanged, resFrame,
     resLocals, putLocals, empLocals, scanLocals, asked, lost, Procs,
     Deleters, Repairers
<1>10. NothingLost'
  BY SameFiles DEF RestoreChanged, resFrame, resLocals, putLocals, empLocals,
     scanLocals, asked, lost
<1>11. OnlyCounted'
  BY SameAsked DEF RestoreChanged, resFrame, resLocals, putLocals, empLocals,
     scanLocals, asked, lost
<1>12. Holds(p)'
  BY <1>1, <1>2, ProcAssumption DEF RestoreChanged, Release, Step, resFrame,
     resLocals, putLocals, empLocals, scanLocals, asked, lost, Holds,
     RestoreHolds, TypeOK, Control, Procs, Deleters, Repairers, HasPayload
<1>13. \A q \in Procs \ {p} : SameLocals(q)
  BY <1>1, ProcAssumption DEF RestoreChanged, resFrame, resLocals, putLocals,
     empLocals, scanLocals, asked, lost, TypeOK, SameLocals, Procs, Deleters,
     Repairers
<1> QED
  BY <1>1, <1>2, <1>4, <1>5, <1>6, <1>7, <1>8, <1>9, <1>10, <1>11,
       <1>12, <1>13, <1>3, Assembled

(* The payload goes to the staging path whole; its record stays.           *)
LEMMA RestoreMoveKeeps ==
  ASSUME IInv, NEW p \in Restorers, RestoreMove(p)
  PROVE  IInv'
<1>1. p \in Procs /\ TypeOK /\ RestoreHolds(p)
  BY DEF IInv, Procs, Deleters, Repairers, Holds
<1>2. Control(p, "res_swap")
  BY <1>1, StepControl DEF RestoreMove, Labels, Waiting, Holding
<1>3. stamp \in Nat /\ stamp' \in Nat /\ stamp <= stamp'
  BY <1>1 DEF RestoreMove, resFrame, resLocals, putLocals, empLocals,
     scanLocals, asked, lost, TypeOK
<1>4. Local(p)
  BY <1>1, <1>2, HolderHasLock DEF RestoreMove, Step, Control, Local, Holding
<1>5. TypeOK'
  <2>1. name[p] \in Names /\ files[name[p]].file \in 1..Debris
    BY <1>1, BoundAssumption
    DEF RestoreMove, Step, RestoreHolds, IInv, TypeOK, TrashOrder, PayloadShape,
        Payload, HasPayload, Nothing, Debris
  <2>2. staged' \subseteq 1..Debris /\ carry' \in [Restorers -> 0..Debris]
    <3>1. files[name[p]].file \in 0..Debris
      BY <2>1, BoundAssumption DEF Debris
    <3> QED BY <1>1, <2>1, <3>1 DEF RestoreMove, TypeOK
  <2>3. files' \in [Names -> Payload]
    BY <1>1, Nulls DEF RestoreMove, TypeOK
  <2> QED
    BY <1>1, <1>2, <2>2, <2>3
    DEF RestoreMove, resFrame, resLocals, putLocals, empLocals, scanLocals,
        asked, lost, TypeOK, Control
<1>6. TrashOrder'
  BY <1>1, PayloadGoes DEF RestoreMove, resFrame, resLocals, putLocals,
     empLocals, scanLocals, asked, lost, TypeOK
<1>7. NewIds
  BY <1>1, IdsGo DEF RestoreMove, resFrame, resLocals, putLocals, empLocals,
     scanLocals, asked, lost, TypeOK
<1>8. FreshBatch'
  BY <1>1, <1>2, <1>3, <1>7, SameBatches DEF RestoreMove, resFrame,
     resLocals, putLocals, empLocals, scanLocals, asked, lost, Control,
     BeforeMove
<1>9. LiveTempKept'
  BY <1>1, <1>4, ProcAssumption, SameTemps DEF RestoreMove, resFrame,
     resLocals, putLocals, empLocals, scanLocals, asked, lost, Procs,
     Deleters, Repairers
<1>10. NothingLost'
  <2>1. /\ name[p] \in Names /\ files'[name[p]].file = Nothing
        /\ \A m \in Names \ {name[p]} : files'[m] = files[m]
    BY <1>1 DEF TypeOK, RestoreMove, NoPayload
  <2>2. \A f : OnPath(f) => OnPath(f)'
    BY DEF RestoreMove, resFrame, OnPath
  <2>3. /\ \A f : f = Nothing => InFiles(f)'
        /\ \A f : InFiles(f) => f = files[name[p]].file \/ InFiles(f)'
    BY <2>1, FilesChange
  <2>4. files[name[p]].file \in staged'
    BY <1>1 DEF RestoreMove
  <2> QED
    BY <2>1, <2>2, <2>3, <2>4, RealFiles, Accounted
    DEF RestoreMove, resFrame, lost
<1>11. OnlyCounted'
  BY SameAsked DEF RestoreMove, resFrame, resLocals, putLocals, empLocals,
     scanLocals, asked, lost
<1>12. Holds(p)'
  BY <1>1, <1>2, ProcAssumption, Nulls DEF RestoreMove, Step, resFrame,
     resLocals, putLocals, empLocals, scanLocals, asked, lost, Holds,
     RestoreHolds, TypeOK, Control, Procs, Deleters, Repairers, HasPayload,
     IInv, TrashOrder, PayloadShape
<1>13. \A q \in Procs \ {p} : SameLocals(q)
  BY <1>1, ProcAssumption DEF RestoreMove, resFrame, resLocals, putLocals,
     empLocals, scanLocals, asked, lost, TypeOK, SameLocals, Procs, Deleters,
     Repairers
<1> QED
  BY <1>1, <1>2, <1>4, <1>5, <1>6, <1>7, <1>8, <1>9, <1>10, <1>11,
       <1>12, <1>13, <1>3, Assembled

(* The copy is at the staging path while the payload stays.                *)
LEMMA RestoreCopyKeeps ==
  ASSUME IInv, NEW p \in Restorers, RestoreCopy(p)
  PROVE  IInv'
<1>1. p \in Procs /\ TypeOK /\ RestoreHolds(p)
  BY DEF IInv, Procs, Deleters, Repairers, Holds
<1>2. Control(p, "res_unlink")
  BY <1>1, StepControl DEF RestoreCopy, Labels, Waiting, Holding
<1>3. stamp \in Nat /\ stamp' \in Nat /\ stamp <= stamp'
  BY <1>1 DEF RestoreCopy, resFrame, resLocals, putLocals, empLocals,
     scanLocals, asked, lost, TypeOK
<1>4. Local(p)
  BY <1>1, <1>2, HolderHasLock DEF RestoreCopy, Step, Control, Local, Holding
<1>5. TypeOK'
  <2>1. name[p] \in Names /\ files[name[p]].file \in 1..Debris
    BY <1>1, BoundAssumption
    DEF RestoreCopy, Step, RestoreHolds, IInv, TypeOK, TrashOrder, PayloadShape,
        Payload, HasPayload, Nothing, Debris
  <2>2. staged' \subseteq 1..Debris /\ carry' \in [Restorers -> 0..Debris]
    <3>1. files[name[p]].file \in 0..Debris
      BY <2>1, BoundAssumption DEF Debris
    <3> QED BY <1>1, <2>1, <3>1 DEF RestoreCopy, TypeOK
  <2> QED
    BY <1>1, <1>2, <2>2
    DEF RestoreCopy, resFrame, resLocals, putLocals, empLocals, scanLocals,
        asked, lost, TypeOK, Control
<1>6. TrashOrder'
  BY <1>1, SameTrash DEF RestoreCopy, resFrame, resLocals, putLocals,
     empLocals, scanLocals, asked, lost, TypeOK
<1>7. NewIds
  BY <1>1, IdsGo DEF RestoreCopy, resFrame, resLocals, putLocals, empLocals,
     scanLocals, asked, lost, TypeOK
<1>8. FreshBatch'
  BY <1>1, <1>2, <1>3, <1>7, SameBatches DEF RestoreCopy, resFrame,
     resLocals, putLocals, empLocals, scanLocals, asked, lost, Control,
     BeforeMove
<1>9. LiveTempKept'
  BY <1>1, <1>4, ProcAssumption, SameTemps DEF RestoreCopy, resFrame,
     resLocals, putLocals, empLocals, scanLocals, asked, lost, Procs,
     Deleters, Repairers
<1>10. NothingLost'
  <2>1. \A f : (OnPath(f) => OnPath(f)') /\ (InFiles(f) => InFiles(f)')
    BY DEF RestoreCopy, OnPath, InFiles
  <2> QED BY <2>1, Accounted DEF RestoreCopy, resFrame, lost
<1>11. OnlyCounted'
  BY SameAsked DEF RestoreCopy, resFrame, resLocals, putLocals, empLocals,
     scanLocals, asked, lost
<1>12. Holds(p)'
  BY <1>1, <1>2, ProcAssumption DEF RestoreCopy, Step, resFrame, resLocals,
     putLocals, empLocals, scanLocals, asked, lost, Holds, RestoreHolds,
     TypeOK, Control, Procs, Deleters, Repairers, HasPayload, IInv,
     TrashOrder, PayloadShape
<1>13. \A q \in Procs \ {p} : SameLocals(q)
  BY <1>1, ProcAssumption DEF RestoreCopy, resFrame, resLocals, putLocals,
     empLocals, scanLocals, asked, lost, TypeOK, SameLocals, Procs, Deleters,
     Repairers
<1> QED
  BY <1>1, <1>2, <1>4, <1>5, <1>6, <1>7, <1>8, <1>9, <1>10, <1>11,
       <1>12, <1>13, <1>3, Assembled

(* A failed staging only drops the lock.                                   *)
LEMMA RestoreStageFailsKeeps ==
  ASSUME IInv, NEW p \in Restorers, RestoreStageFails(p)
  PROVE  IInv'
<1>1. p \in Procs /\ TypeOK /\ RestoreHolds(p)
  BY DEF IInv, Procs, Deleters, Repairers, Holds
<1>2. Control(p, "idle")
  BY <1>1, ReleaseControl DEF RestoreStageFails, Labels, Waiting, Holding
<1>3. stamp \in Nat /\ stamp' \in Nat /\ stamp <= stamp'
  BY <1>1 DEF RestoreStageFails, resFrame, resLocals, putLocals, empLocals,
     scanLocals, asked, lost, TypeOK
<1>4. Local(p)
  BY <1>1, <1>2 DEF RestoreStageFails, Release, Step, Control, Local,
     resFrame, resLocals, putLocals, empLocals, scanLocals, asked, lost
<1>5. TypeOK'
  BY <1>1, <1>2 DEF RestoreStageFails, resFrame, resLocals, putLocals,
     empLocals, scanLocals, asked, lost, TypeOK, Control
<1>6. TrashOrder'
  BY <1>1, SameTrash DEF RestoreStageFails, resFrame, resLocals, putLocals,
     empLocals, scanLocals, asked, lost, TypeOK
<1>7. NewIds
  BY <1>1, IdsGo DEF RestoreStageFails, resFrame, resLocals, putLocals,
     empLocals, scanLocals, asked, lost, TypeOK
<1>8. FreshBatch'
  BY <1>1, <1>2, <1>3, <1>7, SameBatches DEF RestoreStageFails, resFrame,
     resLocals, putLocals, empLocals, scanLocals, asked, lost, Control,
     BeforeMove
<1>9. LiveTempKept'
  BY <1>1, <1>4, ProcAssumption, SameTemps DEF RestoreStageFails, resFrame,
     resLocals, putLocals, empLocals, scanLocals, asked, lost, Procs,
     Deleters, Repairers
<1>10. NothingLost'
  BY SameFiles DEF RestoreStageFails, resFrame, resLocals, putLocals,
     empLocals, scanLocals, asked, lost
<1>11. OnlyCounted'
  BY SameAsked DEF RestoreStageFails, resFrame, resLocals, putLocals,
     empLocals, scanLocals, asked, lost
<1>12. Holds(p)'
  BY <1>1, <1>2, ProcAssumption DEF RestoreStageFails, Release, Step,
     resFrame, resLocals, putLocals, empLocals, scanLocals, asked, lost,
     Holds, RestoreHolds, TypeOK, Control, Procs, Deleters, Repairers,
     HasPayload
<1>13. \A q \in Procs \ {p} : SameLocals(q)
  BY <1>1, ProcAssumption DEF RestoreStageFails, resFrame, resLocals,
     putLocals, empLocals, scanLocals, asked, lost, TypeOK, SameLocals,
     Procs, Deleters, Repairers
<1> QED
  BY <1>1, <1>2, <1>4, <1>5, <1>6, <1>7, <1>8, <1>9, <1>10, <1>11,
       <1>12, <1>13, <1>3, Assembled

(* The payload goes, or stays as a part, with the copy staged.             *)
LEMMA RestoreUnlinkKeeps ==
  ASSUME IInv, NEW p \in Restorers, RestoreUnlink(p)
  PROVE  IInv'
<1>1. p \in Procs /\ TypeOK /\ RestoreHolds(p)
  BY DEF IInv, Procs, Deleters, Repairers, Holds
<1>2. Control(p, "res_swap")
  BY <1>1, StepControl DEF RestoreUnlink, Labels, Waiting, Holding
<1>3. stamp \in Nat /\ stamp' \in Nat /\ stamp <= stamp'
  BY <1>1 DEF RestoreUnlink, resFrame, resLocals, putLocals, empLocals,
     scanLocals, asked, lost, TypeOK
<1>4. Local(p)
  BY <1>1, <1>2, HolderHasLock DEF RestoreUnlink, Step, Control, Local,
     Holding
<1>5. TypeOK'
  <2>1. files' \in [Names -> Payload]
    <3>1. files \in [Names -> Payload] /\ Debris \in 0..Debris
      BY <1>1, BoundAssumption DEF TypeOK, Debris
    <3>2. CASE files' = [files EXCEPT ![name[p]] = NoPayload]
      BY <3>1, <3>2, Nulls
    <3>3. CASE files' = [files EXCEPT ![name[p]].file = Debris]
      BY <3>1, <3>3 DEF Payload
    <3> QED BY <3>2, <3>3 DEF RestoreUnlink
  <2> QED
    BY <1>1, <1>2, <2>1
    DEF RestoreUnlink, resFrame, resLocals, putLocals, empLocals, scanLocals,
        asked, lost, TypeOK, Control
<1>6. TrashOrder'
  <2>1. /\ name[p] \in Names /\ files \in [Names -> Payload]
        /\ HasPayload(name[p]) /\ info[name[p]] = rec[p]
        /\ rec[p].batch # 0 /\ rec[p].whole
    BY <1>1 DEF RestoreUnlink, Step, TypeOK, RestoreHolds
  <2>2. CASE files' = [files EXCEPT ![name[p]] = NoPayload]
    BY <2>1, <2>2, PayloadGoes DEF RestoreUnlink
  <2>3. CASE files' = [files EXCEPT ![name[p]].file = Debris]
    <3>1. files' = [files EXCEPT ![name[p]] =
                      [files[name[p]] EXCEPT !.file = Debris]]
      BY <2>3
    <3>2. /\ files[name[p]].id <= stamp' /\ files[name[p]].id # 0
          /\ files[name[p]].item = info[name[p]].batch
          /\ HasRecord(name[p])
      BY <1>3, <2>1
      DEF IInv, TrashOrder, PayloadShape, SamePut, HasPayload, HasRecord,
          RestoreUnlink
    <3>3. [files[name[p]] EXCEPT !.file = Debris] \in Payload
      BY <2>1, BoundAssumption DEF Payload, Debris
    <3>4. Debris # Nothing
      BY BoundAssumption DEF Debris, Nothing
    <3> DEFINE f == [files[name[p]] EXCEPT !.file = Debris]
    <3>5. /\ f.id = files[name[p]].id /\ f.item = files[name[p]].item
          /\ f.file = Debris
      BY <2>1 DEF Payload
    <3> HIDE DEF f
    <3> QED
      BY <1>3, <2>1, <3>1, <3>2, <3>3, <3>4, <3>5, PayloadComes
      DEF RestoreUnlink, f
  <2> QED BY <2>2, <2>3 DEF RestoreUnlink
<1>7. NewIds
  <2>1. files \in [Names -> Payload]
    BY <1>1 DEF TypeOK
  <2>2. CASE files' = [files EXCEPT ![name[p]] = NoPayload]
    BY <2>1, <2>2, Nulls DEF NewIds
  <2>3. CASE files' = [files EXCEPT ![name[p]].file = Debris]
    BY <2>1, <2>3 DEF NewIds, Payload
  <2> QED BY <2>2, <2>3 DEF RestoreUnlink
<1>8. FreshBatch'
  BY <1>1, <1>2, <1>3, <1>7, SameBatches DEF RestoreUnlink, resFrame,
     resLocals, putLocals, empLocals, scanLocals, asked, lost, Control,
     BeforeMove
<1>9. LiveTempKept'
  BY <1>1, <1>4, ProcAssumption, SameTemps DEF RestoreUnlink, resFrame,
     resLocals, putLocals, empLocals, scanLocals, asked, lost, Procs,
     Deleters, Repairers
<1>10. NothingLost'
  <2>1. /\ name[p] \in Names /\ files[name[p]].file = carry[p]
        /\ carry[p] \in staged
        /\ \A m \in Names \ {name[p]} : files'[m] = files[m]
    BY <1>1 DEF RestoreUnlink, Step, TypeOK, RestoreHolds
  <2>2. \A f : OnPath(f) => OnPath(f)'
    BY DEF RestoreUnlink, OnPath
  <2>3. \A f : InFiles(f) => f = files[name[p]].file \/ InFiles(f)'
    BY <2>1, FilesChange
  <2> QED
    BY <2>1, <2>2, <2>3, Accounted DEF RestoreUnlink, resFrame, lost
<1>11. OnlyCounted'
  BY SameAsked DEF RestoreUnlink, resFrame, resLocals, putLocals, empLocals,
     scanLocals, asked, lost
<1>12. Holds(p)'
  <2>1. /\ name[p] \in Names /\ files \in [Names -> Payload]
        /\ info[name[p]] = rec[p] /\ rec[p].batch # 0 /\ rec[p].whole
        /\ carry[p] # Nothing /\ carry[p] \in staged
    BY <1>1 DEF RestoreUnlink, Step, TypeOK, RestoreHolds
  <2>2. files'[name[p]].id # 0 => files'[name[p]].file = Debris
    BY <2>1, Nulls DEF RestoreUnlink, Payload
  <2> QED
    BY <1>1, <1>2, <2>1, <2>2, ProcAssumption
    DEF Holds, RestoreHolds, RestoreUnlink, resFrame, resLocals, Control, HasPayload,
        Procs, Deleters, Repairers
<1>13. \A q \in Procs \ {p} : SameLocals(q)
  BY <1>1, ProcAssumption DEF RestoreUnlink, resFrame, resLocals, putLocals,
     empLocals, scanLocals, asked, lost, TypeOK, SameLocals, Procs, Deleters,
     Repairers
<1> QED
  BY <1>1, <1>2, <1>4, <1>5, <1>6, <1>7, <1>8, <1>9, <1>10, <1>11,
       <1>12, <1>13, <1>3, Assembled

(* What is removed at the destination was asked for with -f.               *)
LEMMA RestoreSwapKeeps ==
  ASSUME IInv, NEW p \in Restorers, RestoreSwap(p)
  PROVE  IInv'
<1>1. p \in Procs /\ TypeOK /\ RestoreHolds(p)
  BY DEF IInv, Procs, Deleters, Repairers, Holds
<1>2. Control(p, "res_place")
  BY <1>1, StepControl DEF RestoreSwap, Labels, Waiting, Holding
<1>3. stamp \in Nat /\ stamp' \in Nat /\ stamp <= stamp'
  BY <1>1 DEF RestoreSwap, resFrame, resLocals, putLocals, empLocals,
     scanLocals, asked, lost, TypeOK
<1>4. Local(p)
  BY <1>1, <1>2 DEF RestoreSwap, Step, Control, Local, resFrame, resLocals,
     putLocals, empLocals, scanLocals, asked, lost
<1>5. TypeOK'
  <2>1. rec[p].path \in Path /\ live[rec[p].path] \in 0..Debris
    BY <1>1 DEF TypeOK, Record
  <2>2. live' \in [Path -> 0..Debris]
    BY <1>1, <2>1, BoundAssumption DEF RestoreSwap, TypeOK, Nothing, Debris
  <2>3. discarded' \subseteq 1..Debris
    <3>1. {live[rec[p].path]} \ {Nothing} \subseteq 1..Debris
      BY <2>1, BoundAssumption DEF Nothing, Debris
    <3> QED BY <1>1, <3>1 DEF RestoreSwap, TypeOK
  <2> QED
    BY <1>1, <1>2, <2>2, <2>3
    DEF RestoreSwap, resFrame, resLocals, putLocals, empLocals, scanLocals,
        asked, lost, TypeOK, Control
<1>6. TrashOrder'
  BY <1>1, SameTrash DEF RestoreSwap, resFrame, resLocals, putLocals,
     empLocals, scanLocals, asked, lost, TypeOK
<1>7. NewIds
  BY <1>1, IdsGo DEF RestoreSwap, resFrame, resLocals, putLocals, empLocals,
     scanLocals, asked, lost, TypeOK
<1>8. FreshBatch'
  BY <1>1, <1>2, <1>3, <1>7, SameBatches DEF RestoreSwap, resFrame,
     resLocals, putLocals, empLocals, scanLocals, asked, lost, Control,
     BeforeMove
<1>9. LiveTempKept'
  BY <1>1, <1>4, ProcAssumption, SameTemps DEF RestoreSwap, resFrame,
     resLocals, putLocals, empLocals, scanLocals, asked, lost, Procs,
     Deleters, Repairers
<1>10. NothingLost'
  <2>1. /\ rec[p].path \in Path
        /\ \A y \in Path \ {rec[p].path} : live'[y] = live[y]
        /\ \/ live'[rec[p].path] = live[rec[p].path]
           \/ live[rec[p].path] \in discarded' \cup {Nothing}
    BY <1>1 DEF RestoreSwap, TypeOK, Record
  <2>2. /\ \A f : f = live'[rec[p].path] => OnPath(f)'
        /\ \A f : OnPath(f) => f = live[rec[p].path] \/ OnPath(f)'
    BY <2>1, PathChanges
  <2>3. \A f : InFiles(f) => InFiles(f)'
    BY DEF RestoreSwap, InFiles
  <2>4. /\ discarded \subseteq discarded'
        /\ UNCHANGED <<staged, clobbered, created>>
    BY DEF RestoreSwap, resFrame
  <2> QED BY <2>1, <2>2, <2>3, <2>4, RealFiles, Accounted
<1>11. OnlyCounted'
  BY SameAsked DEF RestoreSwap, resFrame, resLocals, putLocals, empLocals,
     scanLocals, asked, lost
<1>12. Holds(p)'
  BY <1>1, <1>2, ProcAssumption DEF RestoreSwap, Step, resFrame, resLocals,
     putLocals, empLocals, scanLocals, asked, lost, Holds, RestoreHolds,
     TypeOK, Control, Procs, Deleters, Repairers, HasPayload
<1>13. \A q \in Procs \ {p} : SameLocals(q)
  BY <1>1, ProcAssumption DEF RestoreSwap, resFrame, resLocals, putLocals,
     empLocals, scanLocals, asked, lost, TypeOK, SameLocals, Procs, Deleters,
     Repairers
<1> QED
  BY <1>1, <1>2, <1>4, <1>5, <1>6, <1>7, <1>8, <1>9, <1>10, <1>11,
       <1>12, <1>13, <1>3, Assembled

(* The staged file comes to the destination; what it replaces is recorded. *)
LEMMA RestorePlaceKeeps ==
  ASSUME IInv, NEW p \in Restorers, RestorePlace(p)
  PROVE  IInv'
<1>1. p \in Procs /\ TypeOK /\ RestoreHolds(p)
  BY DEF IInv, Procs, Deleters, Repairers, Holds
<1>2. Control(p, "res_record")
  BY <1>1, StepControl DEF RestorePlace, Labels, Waiting, Holding
<1>3. stamp \in Nat /\ stamp' \in Nat /\ stamp <= stamp'
  BY <1>1 DEF RestorePlace, resFrame, resLocals, putLocals, empLocals,
     scanLocals, asked, lost, TypeOK
<1>4. Local(p)
  BY <1>1, <1>2, HolderHasLock DEF RestorePlace, Step, Control, Local,
     Holding
<1>5. TypeOK'
  <2>1. /\ rec[p].path \in Path /\ live[rec[p].path] \in 0..Debris
        /\ carry[p] \in 0..Debris
    BY <1>1 DEF TypeOK, Record
  <2>2. {live[rec[p].path]} \ {Nothing, Debris} \subseteq 1..Debris
    BY <2>1, BoundAssumption DEF Nothing, Debris
  <2>3. live' \in [Path -> 0..Debris] /\ staged' \subseteq 1..Debris
    BY <1>1, <2>1 DEF RestorePlace, TypeOK
  <2>4. discarded' \subseteq 1..Debris /\ clobbered' \subseteq 1..Debris
    BY <1>1, <2>2 DEF RestorePlace, TypeOK
  <2> QED
    BY <1>1, <1>2, <2>3, <2>4
    DEF RestorePlace, resFrame, resLocals, putLocals, empLocals, scanLocals,
        asked, TypeOK, Control
<1>6. TrashOrder'
  BY <1>1, SameTrash DEF RestorePlace, resFrame, resLocals, putLocals,
     empLocals, scanLocals, asked, lost, TypeOK
<1>7. NewIds
  BY <1>1, IdsGo DEF RestorePlace, resFrame, resLocals, putLocals, empLocals,
     scanLocals, asked, lost, TypeOK
<1>8. FreshBatch'
  BY <1>1, <1>2, <1>3, <1>7, SameBatches DEF RestorePlace, resFrame,
     resLocals, putLocals, empLocals, scanLocals, asked, lost, Control,
     BeforeMove
<1>9. LiveTempKept'
  BY <1>1, <1>4, ProcAssumption, SameTemps DEF RestorePlace, resFrame,
     resLocals, putLocals, empLocals, scanLocals, asked, lost, Procs,
     Deleters, Repairers
<1>10. NothingLost'
  <2>1. /\ rec[p].path \in Path /\ live'[rec[p].path] = carry[p]
        /\ \A y \in Path \ {rec[p].path} : live'[y] = live[y]
    BY <1>1 DEF RestorePlace, TypeOK, Record
  <2>2. /\ \A f : f = carry[p] => OnPath(f)'
        /\ \A f : OnPath(f) => f = live[rec[p].path] \/ OnPath(f)'
    BY <2>1, PathChanges
  <2>3. \A f : InFiles(f) => InFiles(f)'
    BY DEF RestorePlace, InFiles
  <2>4. /\ {live[rec[p].path]} \ {Nothing, Debris}
             \subseteq discarded' \cup clobbered'
        /\ discarded \subseteq discarded' /\ clobbered \subseteq clobbered'
        /\ staged' = staged \ {carry[p]} /\ created' = created
    BY DEF RestorePlace, resFrame
  <2>5. ASSUME NEW f \in File, f = live[rec[p].path]
        PROVE  f \in discarded' \cup clobbered'
    BY <2>4, <2>5, RealFiles
  <2> QED BY <2>2, <2>3, <2>4, <2>5, Accounted
<1>11. OnlyCounted'
  BY SameAsked DEF RestorePlace, resFrame, resLocals, putLocals, empLocals,
     scanLocals, asked, lost
<1>12. Holds(p)'
  BY <1>1, <1>2, ProcAssumption DEF RestorePlace, Step, resFrame, resLocals,
     putLocals, empLocals, scanLocals, asked, lost, Holds, RestoreHolds,
     TypeOK, Control, Procs, Deleters, Repairers, HasPayload
<1>13. \A q \in Procs \ {p} : SameLocals(q)
  BY <1>1, ProcAssumption DEF RestorePlace, resFrame, resLocals, putLocals,
     empLocals, scanLocals, asked, lost, TypeOK, SameLocals, Procs, Deleters,
     Repairers
<1> QED
  BY <1>1, <1>2, <1>4, <1>5, <1>6, <1>7, <1>8, <1>9, <1>10, <1>11,
       <1>12, <1>13, <1>3, Assembled

(* The staged file goes back under its own record as a new arrival, or     *)
(* stays staged.                                                           *)
LEMMA RestoreUnstageKeeps ==
  ASSUME IInv, NEW p \in Restorers, RestoreUnstage(p)
  PROVE  IInv'
<1>1. p \in Procs /\ TypeOK /\ RestoreHolds(p)
  BY DEF IInv, Procs, Deleters, Repairers, Holds
<1>2. Control(p, "idle")
  BY <1>1, ReleaseControl DEF RestoreUnstage, Labels, Waiting, Holding
<1>3. stamp \in Nat /\ stamp' \in Nat /\ stamp <= stamp'
  BY <1>1 DEF RestoreUnstage, resFrame, resLocals, putLocals, empLocals,
     scanLocals, asked, lost, TypeOK
<1>4. Local(p)
  BY <1>1, <1>2, HolderHasLock DEF RestoreUnstage, Release, Step, Control,
     Local, Holding
<1>5. TypeOK'
  <2>1. [file |-> carry[p], item |-> rec[p].batch, id |-> stamp + 1] \in Payload
    BY <1>1, <1>3, BoundAssumption DEF TypeOK, Payload, Record, Debris
  <2>2. files' \in [Names -> Payload] /\ staged' \subseteq 1..Debris
    <3>1. files \in [Names -> Payload] /\ staged \subseteq 1..Debris
      BY <1>1 DEF TypeOK
    <3> QED BY <2>1, <3>1 DEF RestoreUnstage
  <2> QED
    BY <1>1, <1>2, <1>3, <2>2
    DEF RestoreUnstage, resFrame, resLocals, putLocals, empLocals, scanLocals,
        asked, lost, TypeOK, Control
<1>6. TrashOrder'
  <2>1. CASE files' = files
    BY <1>3, <2>1, SameTrash DEF RestoreUnstage
  <2>2. CASE /\ files' = [files EXCEPT ![name[p]] =
                   [file |-> carry[p], item |-> rec[p].batch, id |-> stamp + 1]]
             /\ stamp' = stamp + 1
    <3>1. /\ name[p] \in Names /\ info[name[p]] = rec[p] /\ rec[p].batch # 0
          /\ rec[p].whole /\ carry[p] # Nothing
      BY <1>1 DEF RestoreUnstage, Release, Step, TypeOK, RestoreHolds
    <3>2. [file |-> carry[p], item |-> rec[p].batch, id |-> stamp + 1] \in Payload
      BY <1>1, <1>3, BoundAssumption DEF TypeOK, Payload, Record, Debris
    <3>3. HasRecord(name[p]) /\ info' = info /\ stamp + 1 # 0
      BY <1>3, <3>1 DEF HasRecord, RestoreUnstage
    <3> DEFINE f == [file |-> carry[p], item |-> rec[p].batch, id |-> stamp + 1]
    <3>4. /\ f \in Payload /\ f.id # 0 /\ f.file # Nothing /\ f.id <= stamp'
          /\ f.item = info[name[p]].batch /\ info[name[p]].whole
          /\ files' = [files EXCEPT ![name[p]] = f]
      BY <1>3, <2>2, <3>1, <3>2, <3>3
    <3> HIDE DEF f
    <3> QED BY <1>3, <3>1, <3>3, <3>4, PayloadComes
  <2> QED BY <2>1, <2>2 DEF RestoreUnstage
<1>7. NewIds
  <2>1. /\ files \in [Names -> Payload]
        /\ \A e \in Emptiers, n \in Names : seen[e][n] \in Nat
        /\ \A q \in Putters : batch[q] \in Nat
    BY <1>1 DEF TypeOK
  <2>2. /\ \A e \in Emptiers, n \in Names : seen[e][n] <= stamp
        /\ \A q \in Putters : batch[q] <= stamp
    BY DEF IInv, FreshBatch, Holds, EmptyHolds, Procs, Deleters
  <2>3. /\ \A e \in Emptiers, n \in Names : seen[e][n] # stamp + 1
        /\ \A q \in Putters : batch[q] # stamp + 1
    BY <1>3, <2>1, <2>2
  <2>4. \A n \in Names : files'[n] = files[n] \/ files'[n].id = stamp + 1
    BY <2>1 DEF RestoreUnstage
  <2> QED BY <2>3, <2>4 DEF NewIds
<1>8. FreshBatch'
  BY <1>1, <1>2, <1>3, <1>7, SameBatches DEF RestoreUnstage, resFrame,
     resLocals, putLocals, empLocals, scanLocals, asked, lost, Control,
     BeforeMove
<1>9. LiveTempKept'
  BY <1>1, <1>4, ProcAssumption, SameTemps DEF RestoreUnstage, resFrame,
     resLocals, putLocals, empLocals, scanLocals, asked, lost, Procs,
     Deleters, Repairers
<1>10. NothingLost'
  <2>1. /\ name[p] \in Names /\ files[name[p]].file \in {Nothing, Debris}
    BY <1>1, RealFiles
    DEF RestoreUnstage, Release, Step, TypeOK, RestoreHolds, IInv, TrashOrder,
        PayloadShape, HasPayload
  <2>2. /\ \A m \in Names \ {name[p]} : files'[m] = files[m]
        /\ \/ files' = files /\ staged' = staged
           \/ files'[name[p]].file = carry[p] /\ staged' = staged \ {carry[p]}
    BY <1>1, <2>1 DEF RestoreUnstage, TypeOK
  <2>3. /\ \A f : f = files'[name[p]].file => InFiles(f)'
        /\ \A f : InFiles(f) => f = files[name[p]].file \/ InFiles(f)'
    BY <2>1, <2>2, FilesChange
  <2>4. \A f : OnPath(f) => OnPath(f)'
    BY DEF RestoreUnstage, OnPath
  <2> QED
    BY <2>1, <2>2, <2>3, <2>4, RealFiles, Accounted
    DEF RestoreUnstage, resFrame, lost
<1>11. OnlyCounted'
  BY SameAsked DEF RestoreUnstage, resFrame, resLocals, putLocals, empLocals,
     scanLocals, asked, lost
<1>12. Holds(p)'
  BY <1>1, <1>2, ProcAssumption DEF RestoreUnstage, Release, Step, resFrame,
     resLocals, putLocals, empLocals, scanLocals, asked, lost, Holds,
     RestoreHolds, TypeOK, Control, Procs, Deleters, Repairers, HasPayload
<1>13. \A q \in Procs \ {p} : SameLocals(q)
  BY <1>1, ProcAssumption DEF RestoreUnstage, resFrame, resLocals, putLocals,
     empLocals, scanLocals, asked, lost, TypeOK, SameLocals, Procs, Deleters,
     Repairers
<1> QED
  BY <1>1, <1>2, <1>4, <1>5, <1>6, <1>7, <1>8, <1>9, <1>10, <1>11,
       <1>12, <1>13, <1>3, Assembled

(* The record goes from a name with no whole payload.                      *)
LEMMA RestoreRecordKeeps ==
  ASSUME IInv, NEW p \in Restorers, RestoreRecord(p)
  PROVE  IInv'
<1>1. p \in Procs /\ TypeOK /\ RestoreHolds(p)
  BY DEF IInv, Procs, Deleters, Repairers, Holds
<1>2. Control(p, "idle")
  BY <1>1, ReleaseControl DEF RestoreRecord, Labels, Waiting, Holding
<1>3. stamp \in Nat /\ stamp' \in Nat /\ stamp <= stamp'
  BY <1>1 DEF RestoreRecord, resFrame, resLocals, putLocals, empLocals,
     scanLocals, asked, lost, TypeOK
<1>4. Local(p)
  BY <1>1, <1>2, HolderHasLock DEF RestoreRecord, Release, Step, Control,
     Local, Holding
<1>5. TypeOK'
  BY <1>1, <1>2, Nulls DEF RestoreRecord, resFrame, resLocals, putLocals,
     empLocals, scanLocals, asked, lost, TypeOK, Control
<1>6. TrashOrder'
  BY <1>1, SameTrash, <1>3, RecordGoes DEF RestoreRecord, resFrame,
     resLocals, putLocals, empLocals, scanLocals, asked, lost, TypeOK,
     RestoreHolds, Release, Step
<1>7. NewIds
  BY <1>1, IdsGo DEF RestoreRecord, resFrame, resLocals, putLocals,
     empLocals, scanLocals, asked, lost, TypeOK
<1>8. FreshBatch'
  BY <1>1, <1>2, <1>3, <1>7, SameBatches DEF RestoreRecord, resFrame,
     resLocals, putLocals, empLocals, scanLocals, asked, lost, Control,
     BeforeMove
<1>9. LiveTempKept'
  BY <1>1, <1>4, ProcAssumption, SameTemps DEF RestoreRecord, resFrame,
     resLocals, putLocals, empLocals, scanLocals, asked, lost, Procs,
     Deleters, Repairers
<1>10. NothingLost'
  BY SameFiles DEF RestoreRecord, resFrame, resLocals, putLocals, empLocals,
     scanLocals, asked, lost
<1>11. OnlyCounted'
  BY SameAsked DEF RestoreRecord, resFrame, resLocals, putLocals, empLocals,
     scanLocals, asked, lost
<1>12. Holds(p)'
  BY <1>1, <1>2, ProcAssumption DEF RestoreRecord, Release, Step, resFrame,
     resLocals, putLocals, empLocals, scanLocals, asked, lost, Holds,
     RestoreHolds, TypeOK, Control, Procs, Deleters, Repairers, HasPayload
<1>13. \A q \in Procs \ {p} : SameLocals(q)
  BY <1>1, ProcAssumption DEF RestoreRecord, resFrame, resLocals, putLocals,
     empLocals, scanLocals, asked, lost, TypeOK, SameLocals, Procs, Deleters,
     Repairers
<1> QED
  BY <1>1, <1>2, <1>4, <1>5, <1>6, <1>7, <1>8, <1>9, <1>10, <1>11,
       <1>12, <1>13, <1>3, Assembled

-----------------------------------------------------------------------------
(* Every step of rm and empty keeps IInv.                                  *)

(* The item shown is the one counted.                                      *)
LEMMA RemoveScanKeeps ==
  ASSUME IInv, NEW p \in Removers, NEW n \in Names, RemoveScan(p, n)
  PROVE  IInv'
<1>1. p \in Procs /\ TypeOK /\ RemoveHolds(p)
  BY DEF IInv, Procs, Deleters, Repairers, Holds
<1>2. Control(p, "rm_lock")
  BY <1>1, StepControl DEF RemoveScan, Labels, Waiting, Holding
<1>3. stamp \in Nat /\ stamp' \in Nat /\ stamp <= stamp'
  BY <1>1 DEF RemoveScan, rmFrame, resLocals, putLocals, empLocals,
     scanLocals, asked, lost, TypeOK
<1>4. Local(p)
  BY <1>1, <1>2 DEF RemoveScan, Step, Control, Local, rmFrame, resLocals,
     putLocals, empLocals, scanLocals, asked, lost
<1>5. TypeOK'
  BY <1>1, <1>2 DEF RemoveScan, rmFrame, resLocals, putLocals, empLocals,
     scanLocals, asked, lost, TypeOK, Control, Deleters, Record, Payload
<1>6. TrashOrder'
  BY <1>1, SameTrash DEF RemoveScan, rmFrame, resLocals, putLocals,
     empLocals, scanLocals, asked, lost, TypeOK
<1>7. NewIds
  BY <1>1, IdsGo DEF RemoveScan, rmFrame, resLocals, putLocals, empLocals,
     scanLocals, asked, lost, TypeOK
<1>8. FreshBatch'
  BY <1>1, <1>2, <1>3, <1>7, SameBatches DEF RemoveScan, rmFrame, resLocals,
     putLocals, empLocals, scanLocals, asked, lost, Control, BeforeMove
<1>9. LiveTempKept'
  BY <1>1, <1>4, ProcAssumption, SameTemps DEF RemoveScan, rmFrame,
     resLocals, putLocals, empLocals, scanLocals, asked, lost, Procs,
     Deleters, Repairers
<1>10. NothingLost'
  BY SameFiles DEF RemoveScan, rmFrame, resLocals, putLocals, empLocals,
     scanLocals, asked, lost
<1>11. OnlyCounted'
  <2>1. \A q \in Deleters \ {p} :
          removed'[q] = removed[q] /\ counted'[q] = counted[q]
    BY <1>1 DEF RemoveScan, TypeOK
  <2>2. removed'[p] = {}
    BY <1>1 DEF RemoveScan, TypeOK, Deleters
  <2> QED BY <2>1, <2>2 DEF IInv, OnlyCounted
<1>12. Holds(p)'
  BY <1>1, <1>2, ProcAssumption DEF RemoveScan, Step, rmFrame, resLocals,
     putLocals, empLocals, scanLocals, asked, lost, Holds, RemoveHolds,
     TypeOK, Control, Procs, Deleters, Repairers, HasRecord
<1>13. \A q \in Procs \ {p} : SameLocals(q)
  BY <1>1, ProcAssumption DEF RemoveScan, rmFrame, resLocals, putLocals,
     empLocals, scanLocals, asked, lost, TypeOK, SameLocals, Procs, Deleters,
     Repairers
<1> QED
  BY <1>1, <1>2, <1>4, <1>5, <1>6, <1>7, <1>8, <1>9, <1>10, <1>11,
       <1>12, <1>13, <1>3, Assembled

(* Taking the free lock changes no file.                                   *)
LEMMA RemoveLockKeeps ==
  ASSUME IInv, NEW p \in Removers, RemoveLock(p)
  PROVE  IInv'
<1>1. p \in Procs /\ TypeOK /\ RemoveHolds(p)
  BY DEF IInv, Procs, Deleters, Repairers, Holds
<1>2. Control(p, "rm_verify")
  BY <1>1, AcquireControl DEF RemoveLock, Labels, Waiting, Holding
<1>3. stamp \in Nat /\ stamp' \in Nat /\ stamp <= stamp'
  BY <1>1 DEF RemoveLock, rmFrame, resLocals, putLocals, empLocals,
     scanLocals, asked, lost, TypeOK
<1>4. Local(p)
  BY <1>1, <1>2 DEF RemoveLock, Acquire, Step, Control, Local, rmFrame,
     resLocals, putLocals, empLocals, scanLocals, asked, lost
<1>5. TypeOK'
  BY <1>1, <1>2 DEF RemoveLock, rmFrame, resLocals, putLocals, empLocals,
     scanLocals, asked, lost, TypeOK, Control
<1>6. TrashOrder'
  BY <1>1, SameTrash DEF RemoveLock, rmFrame, resLocals, putLocals,
     empLocals, scanLocals, asked, lost, TypeOK
<1>7. NewIds
  BY <1>1, IdsGo DEF RemoveLock, rmFrame, resLocals, putLocals, empLocals,
     scanLocals, asked, lost, TypeOK
<1>8. FreshBatch'
  BY <1>1, <1>2, <1>3, <1>7, SameBatches DEF RemoveLock, rmFrame, resLocals,
     putLocals, empLocals, scanLocals, asked, lost, Control, BeforeMove
<1>9. LiveTempKept'
  BY <1>1, <1>4, ProcAssumption, SameTemps DEF RemoveLock, rmFrame,
     resLocals, putLocals, empLocals, scanLocals, asked, lost, Procs,
     Deleters, Repairers
<1>10. NothingLost'
  BY SameFiles DEF RemoveLock, rmFrame, resLocals, putLocals, empLocals,
     scanLocals, asked, lost
<1>11. OnlyCounted'
  BY SameAsked DEF RemoveLock, rmFrame, resLocals, putLocals, empLocals,
     scanLocals, asked, lost
<1>12. Holds(p)'
  BY <1>1, <1>2, ProcAssumption DEF RemoveLock, Acquire, Step, rmFrame,
     resLocals, putLocals, empLocals, scanLocals, asked, lost, Holds,
     RemoveHolds, TypeOK, Control, Procs, Deleters, Repairers, HasPayload
<1>13. \A q \in Procs \ {p} : SameLocals(q)
  BY <1>1, ProcAssumption DEF RemoveLock, rmFrame, resLocals, putLocals,
     empLocals, scanLocals, asked, lost, TypeOK, SameLocals, Procs, Deleters,
     Repairers
<1> QED
  BY <1>1, <1>2, <1>4, <1>5, <1>6, <1>7, <1>8, <1>9, <1>10, <1>11,
       <1>12, <1>13, <1>3, Assembled

(* From here to the end of the section the record is the one listed.       *)
LEMMA RemoveVerifyKeeps ==
  ASSUME IInv, NEW p \in Removers, RemoveVerify(p)
  PROVE  IInv'
<1>1. p \in Procs /\ TypeOK /\ RemoveHolds(p)
  BY DEF IInv, Procs, Deleters, Repairers, Holds
<1>2. Control(p, "rm_payload")
  BY <1>1, StepControl DEF RemoveVerify, Labels, Waiting, Holding
<1>3. stamp \in Nat /\ stamp' \in Nat /\ stamp <= stamp'
  BY <1>1 DEF RemoveVerify, rmFrame, resLocals, putLocals, empLocals,
     scanLocals, asked, lost, TypeOK
<1>4. Local(p)
  BY <1>1, <1>2 DEF RemoveVerify, Step, Control, Local, rmFrame, resLocals,
     putLocals, empLocals, scanLocals, asked, lost
<1>5. TypeOK'
  BY <1>1, <1>2 DEF RemoveVerify, rmFrame, resLocals, putLocals, empLocals,
     scanLocals, asked, lost, TypeOK, Control
<1>6. TrashOrder'
  BY <1>1, SameTrash DEF RemoveVerify, rmFrame, resLocals, putLocals,
     empLocals, scanLocals, asked, lost, TypeOK
<1>7. NewIds
  BY <1>1, IdsGo DEF RemoveVerify, rmFrame, resLocals, putLocals, empLocals,
     scanLocals, asked, lost, TypeOK
<1>8. FreshBatch'
  BY <1>1, <1>2, <1>3, <1>7, SameBatches DEF RemoveVerify, rmFrame,
     resLocals, putLocals, empLocals, scanLocals, asked, lost, Control,
     BeforeMove
<1>9. LiveTempKept'
  BY <1>1, <1>4, ProcAssumption, SameTemps DEF RemoveVerify, rmFrame,
     resLocals, putLocals, empLocals, scanLocals, asked, lost, Procs,
     Deleters, Repairers
<1>10. NothingLost'
  BY SameFiles DEF RemoveVerify, rmFrame, resLocals, putLocals, empLocals,
     scanLocals, asked, lost
<1>11. OnlyCounted'
  BY SameAsked DEF RemoveVerify, rmFrame, resLocals, putLocals, empLocals,
     scanLocals, asked, lost
<1>12. Holds(p)'
  BY <1>1, <1>2, ProcAssumption DEF RemoveVerify, Step, rmFrame, resLocals,
     putLocals, empLocals, scanLocals, asked, lost, Holds, RemoveHolds,
     TypeOK, Control, Procs, Deleters, Repairers, Same, HasPayload
<1>13. \A q \in Procs \ {p} : SameLocals(q)
  BY <1>1, ProcAssumption DEF RemoveVerify, rmFrame, resLocals, putLocals,
     empLocals, scanLocals, asked, lost, TypeOK, SameLocals, Procs, Deleters,
     Repairers
<1> QED
  BY <1>1, <1>2, <1>4, <1>5, <1>6, <1>7, <1>8, <1>9, <1>10, <1>11,
       <1>12, <1>13, <1>3, Assembled

(* A refusal under the lock only drops it.                                 *)
LEMMA RemoveChangedKeeps ==
  ASSUME IInv, NEW p \in Removers, RemoveChanged(p)
  PROVE  IInv'
<1>1. p \in Procs /\ TypeOK /\ RemoveHolds(p)
  BY DEF IInv, Procs, Deleters, Repairers, Holds
<1>2. Control(p, "idle")
  BY <1>1, ReleaseControl DEF RemoveChanged, Labels, Waiting, Holding
<1>3. stamp \in Nat /\ stamp' \in Nat /\ stamp <= stamp'
  BY <1>1 DEF RemoveChanged, rmFrame, resLocals, putLocals, empLocals,
     scanLocals, asked, lost, TypeOK
<1>4. Local(p)
  BY <1>1, <1>2 DEF RemoveChanged, Release, Step, Control, Local, rmFrame,
     resLocals, putLocals, empLocals, scanLocals, asked, lost
<1>5. TypeOK'
  BY <1>1, <1>2 DEF RemoveChanged, rmFrame, resLocals, putLocals, empLocals,
     scanLocals, asked, lost, TypeOK, Control
<1>6. TrashOrder'
  BY <1>1, SameTrash DEF RemoveChanged, rmFrame, resLocals, putLocals,
     empLocals, scanLocals, asked, lost, TypeOK
<1>7. NewIds
  BY <1>1, IdsGo DEF RemoveChanged, rmFrame, resLocals, putLocals, empLocals,
     scanLocals, asked, lost, TypeOK
<1>8. FreshBatch'
  BY <1>1, <1>2, <1>3, <1>7, SameBatches DEF RemoveChanged, rmFrame,
     resLocals, putLocals, empLocals, scanLocals, asked, lost, Control,
     BeforeMove
<1>9. LiveTempKept'
  BY <1>1, <1>4, ProcAssumption, SameTemps DEF RemoveChanged, rmFrame,
     resLocals, putLocals, empLocals, scanLocals, asked, lost, Procs,
     Deleters, Repairers
<1>10. NothingLost'
  BY SameFiles DEF RemoveChanged, rmFrame, resLocals, putLocals, empLocals,
     scanLocals, asked, lost
<1>11. OnlyCounted'
  BY SameAsked DEF RemoveChanged, rmFrame, resLocals, putLocals, empLocals,
     scanLocals, asked, lost
<1>12. Holds(p)'
  BY <1>1, <1>2, ProcAssumption DEF RemoveChanged, Release, Step, rmFrame,
     resLocals, putLocals, empLocals, scanLocals, asked, lost, Holds,
     RemoveHolds, TypeOK, Control, Procs, Deleters, Repairers, HasPayload
<1>13. \A q \in Procs \ {p} : SameLocals(q)
  BY <1>1, ProcAssumption DEF RemoveChanged, rmFrame, resLocals, putLocals,
     empLocals, scanLocals, asked, lost, TypeOK, SameLocals, Procs, Deleters,
     Repairers
<1> QED
  BY <1>1, <1>2, <1>4, <1>5, <1>6, <1>7, <1>8, <1>9, <1>10, <1>11,
       <1>12, <1>13, <1>3, Assembled

(* The payload under the listed record is the item counted (SamePut).      *)
LEMMA RemovePayloadKeeps ==
  ASSUME IInv, NEW p \in Removers, RemovePayload(p)
  PROVE  IInv'
<1>1. p \in Procs /\ TypeOK /\ RemoveHolds(p)
  BY DEF IInv, Procs, Deleters, Repairers, Holds
<1>2. Control(p, "rm_record")
  BY <1>1, StepControl DEF RemovePayload, Labels, Waiting, Holding
<1>3. stamp \in Nat /\ stamp' \in Nat /\ stamp <= stamp'
  BY <1>1 DEF RemovePayload, rmFrame, resLocals, putLocals, empLocals,
     scanLocals, asked, lost, TypeOK
<1>4. Local(p)
  BY <1>1, <1>2, HolderHasLock DEF RemovePayload, Step, Control, Local,
     Holding
<1>5. TypeOK'
  <2>1. /\ name[p] \in Names /\ files[name[p]] \in Payload
        /\ {files[name[p]].file} \ {Nothing} \subseteq 1..Debris
        /\ files[name[p]].item \in Nat
    BY <1>1, BoundAssumption DEF TypeOK, Payload, Nothing, Debris
  <2>2. files' \in [Names -> Payload]
    BY <1>1, <2>1, Nulls DEF RemovePayload, TypeOK
  <2>3. discarded' \subseteq 1..Debris /\ removed' \in [Deleters -> SUBSET Nat]
    BY <1>1, <2>1 DEF RemovePayload, Deletes, TypeOK, Deleters
  <2> QED
    BY <1>1, <1>2, <2>2, <2>3
    DEF RemovePayload, Deletes, rmFrame, resLocals, putLocals, empLocals, scanLocals,
        asked, TypeOK, Control
<1>6. TrashOrder'
  BY <1>1, PayloadGoes DEF RemovePayload, rmFrame, resLocals, putLocals,
     empLocals, scanLocals, asked, lost, TypeOK
<1>7. NewIds
  BY <1>1, IdsGo DEF RemovePayload, rmFrame, resLocals, putLocals, empLocals,
     scanLocals, asked, lost, TypeOK
<1>8. FreshBatch'
  BY <1>1, <1>2, <1>3, <1>7, SameBatches DEF RemovePayload, rmFrame,
     resLocals, putLocals, empLocals, scanLocals, asked, lost, Control,
     BeforeMove
<1>9. LiveTempKept'
  BY <1>1, <1>4, ProcAssumption, SameTemps DEF RemovePayload, rmFrame,
     resLocals, putLocals, empLocals, scanLocals, asked, lost, Procs,
     Deleters, Repairers
<1>10. NothingLost'
  <2>1. /\ name[p] \in Names
        /\ \A m \in Names \ {name[p]} : files'[m] = files[m]
        /\ {files[name[p]].file} \ {Nothing} \subseteq discarded'
    BY <1>1 DEF RemovePayload, Deletes, TypeOK
  <2>2. \A f : OnPath(f) => OnPath(f)'
    BY DEF RemovePayload, rmFrame, OnPath
  <2>3. \A f : InFiles(f) => f = files[name[p]].file \/ InFiles(f)'
    BY <2>1, FilesChange
  <2> QED
    BY <2>1, <2>2, <2>3, RealFiles, Accounted
    DEF RemovePayload, Deletes, rmFrame
<1>11. OnlyCounted'
  <2>1. /\ name[p] \in Names /\ info[name[p]] = rec[p]
        /\ pc[p] # "idle" /\ counted' = counted
    BY <1>1 DEF RemovePayload, Step, TypeOK, RemoveHolds
  <2>2. ASSUME files[name[p]].file \in File
        PROVE  files[name[p]].item \in counted[p]
    <3>1. HasPayload(name[p]) /\ files[name[p]].file # Debris
      BY <2>1, <2>2, RealFiles DEF IInv, TrashOrder, PayloadShape, HasPayload
    <3>2. HasRecord(name[p])
      BY <2>1, <3>1 DEF IInv, TrashOrder, PayloadHasRecord
    <3>3. files[name[p]].item = rec[p].batch /\ rec[p].batch # 0
      BY <2>1, <3>1, <3>2 DEF IInv, TrashOrder, SamePut, HasRecord
    <3> QED BY <1>1, <2>1, <3>3 DEF RemoveHolds
  <2>3. /\ \A q \in Deleters \ {p} : removed'[q] = removed[q]
        /\ removed'[p] \subseteq removed[p] \cup counted[p]
    BY <1>1, <2>2 DEF RemovePayload, Deletes, TypeOK, Deleters
  <2> QED BY <1>1, <2>1, <2>3 DEF IInv, OnlyCounted, Deleters
<1>12. Holds(p)'
  BY <1>1, <1>2, ProcAssumption, Nulls DEF RemovePayload, Step, rmFrame,
     resLocals, putLocals, empLocals, scanLocals, asked, lost, Holds,
     RemoveHolds, TypeOK, Control, Procs, Deleters, Repairers, HasPayload
<1>13. \A q \in Procs \ {p} : SameLocals(q)
  BY <1>1, ProcAssumption DEF RemovePayload, rmFrame, resLocals, putLocals,
     empLocals, scanLocals, asked, lost, TypeOK, SameLocals, Procs, Deleters,
     Repairers
<1> QED
  BY <1>1, <1>2, <1>4, <1>5, <1>6, <1>7, <1>8, <1>9, <1>10, <1>11,
       <1>12, <1>13, <1>3, Assembled

(* A payload that stays keeps its record.                                  *)
LEMMA RemoveKeptKeeps ==
  ASSUME IInv, NEW p \in Removers, RemoveKept(p)
  PROVE  IInv'
<1>1. p \in Procs /\ TypeOK /\ RemoveHolds(p)
  BY DEF IInv, Procs, Deleters, Repairers, Holds
<1>2. Control(p, "idle")
  BY <1>1, ReleaseControl DEF RemoveKept, Labels, Waiting, Holding
<1>3. stamp \in Nat /\ stamp' \in Nat /\ stamp <= stamp'
  BY <1>1 DEF RemoveKept, rmFrame, resLocals, putLocals, empLocals,
     scanLocals, asked, lost, TypeOK
<1>4. Local(p)
  BY <1>1, <1>2 DEF RemoveKept, Release, Step, Control, Local, rmFrame,
     resLocals, putLocals, empLocals, scanLocals, asked, lost
<1>5. TypeOK'
  BY <1>1, <1>2 DEF RemoveKept, rmFrame, resLocals, putLocals, empLocals,
     scanLocals, asked, lost, TypeOK, Control
<1>6. TrashOrder'
  BY <1>1, SameTrash DEF RemoveKept, rmFrame, resLocals, putLocals,
     empLocals, scanLocals, asked, lost, TypeOK
<1>7. NewIds
  BY <1>1, IdsGo DEF RemoveKept, rmFrame, resLocals, putLocals, empLocals,
     scanLocals, asked, lost, TypeOK
<1>8. FreshBatch'
  BY <1>1, <1>2, <1>3, <1>7, SameBatches DEF RemoveKept, rmFrame, resLocals,
     putLocals, empLocals, scanLocals, asked, lost, Control, BeforeMove
<1>9. LiveTempKept'
  BY <1>1, <1>4, ProcAssumption, SameTemps DEF RemoveKept, rmFrame,
     resLocals, putLocals, empLocals, scanLocals, asked, lost, Procs,
     Deleters, Repairers
<1>10. NothingLost'
  BY SameFiles DEF RemoveKept, rmFrame, resLocals, putLocals, empLocals,
     scanLocals, asked, lost
<1>11. OnlyCounted'
  BY SameAsked DEF RemoveKept, rmFrame, resLocals, putLocals, empLocals,
     scanLocals, asked, lost
<1>12. Holds(p)'
  BY <1>1, <1>2, ProcAssumption DEF RemoveKept, Release, Step, rmFrame,
     resLocals, putLocals, empLocals, scanLocals, asked, lost, Holds,
     RemoveHolds, TypeOK, Control, Procs, Deleters, Repairers, HasPayload
<1>13. \A q \in Procs \ {p} : SameLocals(q)
  BY <1>1, ProcAssumption DEF RemoveKept, rmFrame, resLocals, putLocals,
     empLocals, scanLocals, asked, lost, TypeOK, SameLocals, Procs, Deleters,
     Repairers
<1> QED
  BY <1>1, <1>2, <1>4, <1>5, <1>6, <1>7, <1>8, <1>9, <1>10, <1>11,
       <1>12, <1>13, <1>3, Assembled

(* The record goes from a name without a payload.                          *)
LEMMA RemoveRecordKeeps ==
  ASSUME IInv, NEW p \in Removers, RemoveRecord(p)
  PROVE  IInv'
<1>1. p \in Procs /\ TypeOK /\ RemoveHolds(p)
  BY DEF IInv, Procs, Deleters, Repairers, Holds
<1>2. Control(p, "idle")
  BY <1>1, ReleaseControl DEF RemoveRecord, Labels, Waiting, Holding
<1>3. stamp \in Nat /\ stamp' \in Nat /\ stamp <= stamp'
  BY <1>1 DEF RemoveRecord, rmFrame, resLocals, putLocals, empLocals,
     scanLocals, asked, lost, TypeOK
<1>4. Local(p)
  BY <1>1, <1>2, HolderHasLock DEF RemoveRecord, Release, Step, Control,
     Local, Holding
<1>5. TypeOK'
  <2>1. info' \in [Names -> Record]
    BY <1>1, Nulls DEF RemoveRecord, TypeOK
  <2> QED
    BY <1>1, <1>2, <2>1
    DEF RemoveRecord, rmFrame, resLocals, putLocals, empLocals, scanLocals,
        asked, lost, TypeOK, Control
<1>6. TrashOrder'
  BY <1>1, SameTrash, <1>3, RecordGoes DEF RemoveRecord, rmFrame, resLocals,
     putLocals, empLocals, scanLocals, asked, lost, TypeOK, RemoveHolds,
     Release, Step
<1>7. NewIds
  BY <1>1, IdsGo DEF RemoveRecord, rmFrame, resLocals, putLocals, empLocals,
     scanLocals, asked, lost, TypeOK
<1>8. FreshBatch'
  BY <1>1, <1>2, <1>3, <1>7, SameBatches DEF RemoveRecord, rmFrame,
     resLocals, putLocals, empLocals, scanLocals, asked, lost, Control,
     BeforeMove
<1>9. LiveTempKept'
  BY <1>1, <1>4, ProcAssumption, SameTemps DEF RemoveRecord, rmFrame,
     resLocals, putLocals, empLocals, scanLocals, asked, lost, Procs,
     Deleters, Repairers
<1>10. NothingLost'
  BY SameFiles DEF RemoveRecord, rmFrame, resLocals, putLocals, empLocals,
     scanLocals, asked, lost
<1>11. OnlyCounted'
  BY SameAsked DEF RemoveRecord, rmFrame, resLocals, putLocals, empLocals,
     scanLocals, asked, lost
<1>12. Holds(p)'
  BY <1>1, <1>2, ProcAssumption DEF RemoveRecord, Release, Step, rmFrame,
     resLocals, putLocals, empLocals, scanLocals, asked, lost, Holds,
     RemoveHolds, TypeOK, Control, Procs, Deleters, Repairers, HasPayload
<1>13. \A q \in Procs \ {p} : SameLocals(q)
  BY <1>1, ProcAssumption DEF RemoveRecord, rmFrame, resLocals, putLocals,
     empLocals, scanLocals, asked, lost, TypeOK, SameLocals, Procs, Deleters,
     Repairers
<1> QED
  BY <1>1, <1>2, <1>4, <1>5, <1>6, <1>7, <1>8, <1>9, <1>10, <1>11,
       <1>12, <1>13, <1>3, Assembled

(* What is counted are the items of the identities seen.                   *)
LEMMA EmptyCountKeeps ==
  ASSUME IInv, NEW p \in Emptiers, EmptyCount(p)
  PROVE  IInv'
<1>1. p \in Procs /\ TypeOK /\ EmptyHolds(p)
  BY DEF IInv, Procs, Deleters, Repairers, Holds
<1>2. Control(p, "emp_count")
  BY <1>1, StepControl DEF EmptyCount, Labels, Waiting, Holding
<1>3. stamp \in Nat /\ stamp' \in Nat /\ stamp <= stamp'
  BY <1>1 DEF EmptyCount, empFrame, resLocals, putLocals, empLocals,
     scanLocals, asked, lost, TypeOK
<1>4. Local(p)
  BY <1>1, <1>2 DEF EmptyCount, Step, Control, Local, empFrame, resLocals,
     putLocals, empLocals, scanLocals, asked, lost
<1>5. TypeOK'
  <2>1. /\ files \in [Names -> Payload] /\ stamp \in Nat
        /\ \A n \in Names : files[n].id \in Nat /\ files[n].item \in Nat
    BY <1>1 DEF TypeOK, Payload
  <2>2. seen' \in [Emptiers -> [Names -> Nat]]
    BY <1>1, <2>1 DEF EmptyCount, TypeOK
  <2>3. cut' \in [Emptiers -> Nat]
    BY <1>1, <2>1 DEF EmptyCount, TypeOK
  <2>4. /\ counted' \in [Deleters -> SUBSET Nat]
        /\ removed' \in [Deleters -> SUBSET Nat]
    BY <1>1, <2>1 DEF EmptyCount, TypeOK, Deleters
  <2> QED
    BY <1>1, <1>2, <2>2, <2>3, <2>4
    DEF EmptyCount, empFrame, resLocals, putLocals, scanLocals, TypeOK, Control
<1>6. TrashOrder'
  BY <1>1, SameTrash DEF EmptyCount, empFrame, resLocals, putLocals,
     empLocals, scanLocals, asked, lost, TypeOK
<1>7. NewIds
  BY <1>1, IdsGo DEF EmptyCount, empFrame, resLocals, putLocals, empLocals,
     scanLocals, asked, lost, TypeOK
<1>8. FreshBatch'
  <2>1. /\ \A q \in Putters : pc'[q] = pc[q]
        /\ UNCHANGED <<batch, files, stamp>>
    BY <1>1, <1>2, ProcAssumption
    DEF EmptyCount, empFrame, putLocals, Control, Procs, Deleters
  <2>2. \A e \in Emptiers, n \in Names : seen'[e][n] \in {seen[e][n], files[n].id}
    BY <1>1 DEF EmptyCount, TypeOK
  <2> QED BY <2>1, <2>2 DEF IInv, FreshBatch
<1>9. LiveTempKept'
  BY <1>1, <1>4, ProcAssumption, SameTemps DEF EmptyCount, empFrame,
     resLocals, putLocals, empLocals, scanLocals, asked, lost, Procs,
     Deleters, Repairers
<1>10. NothingLost'
  BY SameFiles DEF EmptyCount, empFrame, resLocals, putLocals, empLocals,
     scanLocals, asked, lost
<1>11. OnlyCounted'
  <2>1. \A q \in Deleters \ {p} :
          removed'[q] = removed[q] /\ counted'[q] = counted[q]
    BY <1>1 DEF EmptyCount, TypeOK
  <2>2. removed'[p] = {}
    BY <1>1 DEF EmptyCount, TypeOK, Deleters
  <2> QED BY <2>1, <2>2 DEF IInv, OnlyCounted
<1>12. Holds(p)'
  <2>1. /\ \A n \in Names : seen'[p][n] = files[n].id
        /\ counted'[p] = {files[n].item : n \in {m \in Names : HasPayload(m)}}
        /\ UNCHANGED <<files, stamp>>
    BY <1>1 DEF EmptyCount, empFrame, TypeOK, Deleters
  <2>2. \A n \in Names : files[n].id <= stamp
    BY DEF IInv, TrashOrder, PayloadShape
  <2> QED
    BY <1>2, <2>1, <2>2, ProcAssumption
    DEF Holds, EmptyHolds, Control, HasPayload, Procs, Deleters, Repairers
<1>13. \A q \in Procs \ {p} : SameLocals(q)
  BY <1>1, ProcAssumption DEF EmptyCount, empFrame, resLocals, putLocals,
     empLocals, scanLocals, asked, lost, TypeOK, SameLocals, Procs, Deleters,
     Repairers
<1> QED
  BY <1>1, <1>2, <1>4, <1>5, <1>6, <1>7, <1>8, <1>9, <1>10, <1>11,
       <1>12, <1>13, <1>3, Assembled

(* A look changes no file.                                                 *)
LEMMA EmptyCountInfoKeeps ==
  ASSUME IInv, NEW p \in Emptiers, EmptyCountInfo(p)
  PROVE  IInv'
<1>1. p \in Procs /\ TypeOK /\ EmptyHolds(p)
  BY DEF IInv, Procs, Deleters, Repairers, Holds
<1>2. Control(p, "emp_lock")
  BY <1>1, StepControl DEF EmptyCountInfo, Labels, Waiting, Holding
<1>3. stamp \in Nat /\ stamp' \in Nat /\ stamp <= stamp'
  BY <1>1 DEF EmptyCountInfo, empFrame, resLocals, putLocals, empLocals,
     scanLocals, asked, lost, TypeOK
<1>4. Local(p)
  BY <1>1, <1>2 DEF EmptyCountInfo, Step, Control, Local, empFrame,
     resLocals, putLocals, empLocals, scanLocals, asked, lost
<1>5. TypeOK'
  BY <1>1, <1>2 DEF EmptyCountInfo, empFrame, resLocals, putLocals,
     empLocals, scanLocals, asked, lost, TypeOK, Control
<1>6. TrashOrder'
  BY <1>1, SameTrash DEF EmptyCountInfo, empFrame, resLocals, putLocals,
     empLocals, scanLocals, asked, lost, TypeOK
<1>7. NewIds
  BY <1>1, IdsGo DEF EmptyCountInfo, empFrame, resLocals, putLocals,
     empLocals, scanLocals, asked, lost, TypeOK
<1>8. FreshBatch'
  BY <1>1, <1>2, <1>3, <1>7, SameBatches DEF EmptyCountInfo, empFrame,
     resLocals, putLocals, empLocals, scanLocals, asked, lost, Control,
     BeforeMove
<1>9. LiveTempKept'
  BY <1>1, <1>4, ProcAssumption, SameTemps DEF EmptyCountInfo, empFrame,
     resLocals, putLocals, empLocals, scanLocals, asked, lost, Procs,
     Deleters, Repairers
<1>10. NothingLost'
  BY SameFiles DEF EmptyCountInfo, empFrame, resLocals, putLocals, empLocals,
     scanLocals, asked, lost
<1>11. OnlyCounted'
  BY SameAsked DEF EmptyCountInfo, empFrame, resLocals, putLocals, empLocals,
     scanLocals, asked, lost
<1>12. Holds(p)'
  BY <1>1, <1>2, ProcAssumption DEF EmptyCountInfo, Step, empFrame,
     resLocals, putLocals, empLocals, scanLocals, asked, lost, Holds,
     EmptyHolds, TypeOK, Control, Procs, Deleters, Repairers, HasPayload
<1>13. \A q \in Procs \ {p} : SameLocals(q)
  BY <1>1, ProcAssumption DEF EmptyCountInfo, empFrame, resLocals, putLocals,
     empLocals, scanLocals, asked, lost, TypeOK, SameLocals, Procs, Deleters,
     Repairers
<1> QED
  BY <1>1, <1>2, <1>4, <1>5, <1>6, <1>7, <1>8, <1>9, <1>10, <1>11,
       <1>12, <1>13, <1>3, Assembled

(* Taking the free lock changes no file.                                   *)
LEMMA EmptyLockKeeps ==
  ASSUME IInv, NEW p \in Emptiers, EmptyLock(p)
  PROVE  IInv'
<1>1. p \in Procs /\ TypeOK /\ EmptyHolds(p)
  BY DEF IInv, Procs, Deleters, Repairers, Holds
<1>2. Control(p, "emp_start")
  BY <1>1, AcquireControl DEF EmptyLock, Labels, Waiting, Holding
<1>3. stamp \in Nat /\ stamp' \in Nat /\ stamp <= stamp'
  BY <1>1 DEF EmptyLock, empFrame, resLocals, putLocals, empLocals,
     scanLocals, asked, lost, TypeOK
<1>4. Local(p)
  BY <1>1, <1>2 DEF EmptyLock, Acquire, Step, Control, Local, empFrame,
     resLocals, putLocals, empLocals, scanLocals, asked, lost
<1>5. TypeOK'
  BY <1>1, <1>2 DEF EmptyLock, empFrame, resLocals, putLocals, empLocals,
     scanLocals, asked, lost, TypeOK, Control
<1>6. TrashOrder'
  BY <1>1, SameTrash DEF EmptyLock, empFrame, resLocals, putLocals,
     empLocals, scanLocals, asked, lost, TypeOK
<1>7. NewIds
  BY <1>1, IdsGo DEF EmptyLock, empFrame, resLocals, putLocals, empLocals,
     scanLocals, asked, lost, TypeOK
<1>8. FreshBatch'
  BY <1>1, <1>2, <1>3, <1>7, SameBatches DEF EmptyLock, empFrame, resLocals,
     putLocals, empLocals, scanLocals, asked, lost, Control, BeforeMove
<1>9. LiveTempKept'
  BY <1>1, <1>4, ProcAssumption, SameTemps DEF EmptyLock, empFrame,
     resLocals, putLocals, empLocals, scanLocals, asked, lost, Procs,
     Deleters, Repairers
<1>10. NothingLost'
  BY SameFiles DEF EmptyLock, empFrame, resLocals, putLocals, empLocals,
     scanLocals, asked, lost
<1>11. OnlyCounted'
  BY SameAsked DEF EmptyLock, empFrame, resLocals, putLocals, empLocals,
     scanLocals, asked, lost
<1>12. Holds(p)'
  BY <1>1, <1>2, ProcAssumption DEF EmptyLock, Acquire, Step, empFrame,
     resLocals, putLocals, empLocals, scanLocals, asked, lost, Holds,
     EmptyHolds, TypeOK, Control, Procs, Deleters, Repairers, HasPayload
<1>13. \A q \in Procs \ {p} : SameLocals(q)
  BY <1>1, ProcAssumption DEF EmptyLock, empFrame, resLocals, putLocals,
     empLocals, scanLocals, asked, lost, TypeOK, SameLocals, Procs, Deleters,
     Repairers
<1> QED
  BY <1>1, <1>2, <1>4, <1>5, <1>6, <1>7, <1>8, <1>9, <1>10, <1>11,
       <1>12, <1>13, <1>3, Assembled

(* Every victim has the identity that was counted.                         *)
LEMMA EmptyStartKeeps ==
  ASSUME IInv, NEW p \in Emptiers, EmptyStart(p)
  PROVE  IInv'
<1>1. p \in Procs /\ TypeOK /\ EmptyHolds(p)
  BY DEF IInv, Procs, Deleters, Repairers, Holds
<1>2. Control(p, "emp_wipe")
  BY <1>1, StepControl DEF EmptyStart, Labels, Waiting, Holding
<1>3. stamp \in Nat /\ stamp' \in Nat /\ stamp <= stamp'
  BY <1>1 DEF EmptyStart, empFrame, resLocals, putLocals, empLocals,
     scanLocals, asked, lost, TypeOK
<1>4. Local(p)
  BY <1>1, <1>2 DEF EmptyStart, Step, Control, Local, empFrame, resLocals,
     putLocals, empLocals, scanLocals, asked, lost
<1>5. TypeOK'
  BY <1>1, <1>2 DEF EmptyStart, empFrame, resLocals, putLocals, empLocals,
     scanLocals, asked, lost, TypeOK, Control, Victims
<1>6. TrashOrder'
  BY <1>1, SameTrash DEF EmptyStart, empFrame, resLocals, putLocals,
     empLocals, scanLocals, asked, lost, TypeOK
<1>7. NewIds
  BY <1>1, IdsGo DEF EmptyStart, empFrame, resLocals, putLocals, empLocals,
     scanLocals, asked, lost, TypeOK
<1>8. FreshBatch'
  BY <1>1, <1>2, <1>3, <1>7, SameBatches DEF EmptyStart, empFrame, resLocals,
     putLocals, empLocals, scanLocals, asked, lost, Control, BeforeMove
<1>9. LiveTempKept'
  BY <1>1, <1>4, ProcAssumption, SameTemps DEF EmptyStart, empFrame,
     resLocals, putLocals, empLocals, scanLocals, asked, lost, Procs,
     Deleters, Repairers
<1>10. NothingLost'
  BY SameFiles DEF EmptyStart, empFrame, resLocals, putLocals, empLocals,
     scanLocals, asked, lost
<1>11. OnlyCounted'
  BY SameAsked DEF EmptyStart, empFrame, resLocals, putLocals, empLocals,
     scanLocals, asked, lost
<1>12. Holds(p)'
  <2>1. /\ todo'[p] = Victims(p) /\ midway'[p] = {}
        /\ UNCHANGED <<files, seen, counted, stamp>>
    BY <1>1 DEF EmptyStart, empFrame, asked, TypeOK
  <2>2. \A n \in todo'[p] : SawPayload(p, n)'
    BY <2>1 DEF Victims, SawPayload
  <2> QED
    BY <1>1, <1>2, <2>1, <2>2, ProcAssumption
    DEF Holds, EmptyHolds, Control, HasPayload, Procs, Deleters, Repairers
<1>13. \A q \in Procs \ {p} : SameLocals(q)
  BY <1>1, ProcAssumption DEF EmptyStart, empFrame, resLocals, putLocals,
     empLocals, scanLocals, asked, lost, TypeOK, SameLocals, Procs, Deleters,
     Repairers
<1> QED
  BY <1>1, <1>2, <1>4, <1>5, <1>6, <1>7, <1>8, <1>9, <1>10, <1>11,
       <1>12, <1>13, <1>3, Assembled

(* The victim's identity is the counted one, so its item was counted.      *)
LEMMA EmptyPayloadKeeps ==
  ASSUME IInv, NEW p \in Emptiers, NEW n \in Names, EmptyPayload(p, n)
  PROVE  IInv'
<1>1. p \in Procs /\ TypeOK /\ EmptyHolds(p)
  BY DEF IInv, Procs, Deleters, Repairers, Holds
<1>2. Control(p, pc[p])
  BY <1>1 DEF EmptyPayload, empFrame, resLocals, putLocals, empLocals,
     scanLocals, asked, lost, IInv, TypeOK, OneHolder, Control
<1>3. stamp \in Nat /\ stamp' \in Nat /\ stamp <= stamp'
  BY <1>1 DEF EmptyPayload, empFrame, resLocals, putLocals, empLocals,
     scanLocals, asked, lost, TypeOK
<1>4. Local(p)
  BY <1>1, <1>2, HolderHasLock DEF EmptyPayload, Control, Local, Holding
<1>5. TypeOK'
  <2>1. /\ files[n] \in Payload
        /\ {files[n].file} \ {Nothing} \subseteq 1..Debris
        /\ files[n].item \in Nat
    BY <1>1, BoundAssumption DEF TypeOK, Payload, Nothing, Debris
  <2>2. files' \in [Names -> Payload]
    BY <1>1, <2>1, Nulls DEF EmptyPayload, TypeOK
  <2>3. discarded' \subseteq 1..Debris /\ removed' \in [Deleters -> SUBSET Nat]
    BY <1>1, <2>1 DEF EmptyPayload, Deletes, TypeOK, Deleters
  <2>4. /\ todo' \in [Emptiers \cup Repairers -> SUBSET Names]
        /\ midway' \in [Emptiers -> SUBSET Names]
    BY <1>1 DEF EmptyPayload, TypeOK
  <2> QED
    BY <1>1, <1>2, <2>2, <2>3, <2>4
    DEF EmptyPayload, Deletes, empFrame, resLocals, putLocals, empLocals, scanLocals,
        asked, TypeOK, Control
<1>6. TrashOrder'
  BY <1>1, PayloadGoes DEF EmptyPayload, empFrame, resLocals, putLocals,
     empLocals, scanLocals, asked, lost, TypeOK
<1>7. NewIds
  BY <1>1, IdsGo DEF EmptyPayload, empFrame, resLocals, putLocals, empLocals,
     scanLocals, asked, lost, TypeOK
<1>8. FreshBatch'
  BY <1>1, <1>2, <1>3, <1>7, SameBatches DEF EmptyPayload, empFrame,
     resLocals, putLocals, empLocals, scanLocals, asked, lost, Control,
     BeforeMove
<1>9. LiveTempKept'
  BY <1>1, <1>4, ProcAssumption, SameTemps DEF EmptyPayload, empFrame,
     resLocals, putLocals, empLocals, scanLocals, asked, lost, Procs,
     Deleters, Repairers
<1>10. NothingLost'
  <2>1. /\ n \in Names
        /\ \A m \in Names \ {n} : files'[m] = files[m]
        /\ {files[n].file} \ {Nothing} \subseteq discarded'
    BY <1>1 DEF EmptyPayload, Deletes, TypeOK
  <2>2. \A f : OnPath(f) => OnPath(f)'
    BY DEF EmptyPayload, empFrame, OnPath
  <2>3. \A f : InFiles(f) => f = files[n].file \/ InFiles(f)'
    BY <2>1, FilesChange
  <2> QED
    BY <2>1, <2>2, <2>3, RealFiles, Accounted
    DEF EmptyPayload, Deletes, empFrame
<1>11. OnlyCounted'
  <2>1. n \in todo[p] /\ pc[p] = "emp_wipe" /\ counted' = counted
    BY DEF EmptyPayload
  <2>2. ASSUME files[n].file \in File PROVE files[n].item \in counted[p]
    BY <1>1, <2>1, <2>2, RealFiles
    DEF EmptyHolds, SawPayload, HasPayload, IInv, TrashOrder, PayloadShape
  <2>3. /\ \A q \in Deleters \ {p} : removed'[q] = removed[q]
        /\ removed'[p] \subseteq removed[p] \cup counted[p]
    BY <1>1, <2>2 DEF EmptyPayload, Deletes, TypeOK, Deleters
  <2> QED BY <1>1, <2>1, <2>3 DEF IInv, OnlyCounted, Deleters
<1>12. Holds(p)'
  <2>1. /\ todo'[p] = todo[p] \ {n} /\ midway'[p] = midway[p] \cup {n}
        /\ files' = [files EXCEPT ![n] = NoPayload]
        /\ UNCHANGED <<seen, counted, stamp, pc>> /\ pc[p] = "emp_wipe"
    BY <1>1 DEF EmptyPayload, empFrame, TypeOK
  <2>2. files \in [Names -> Payload] /\ todo[p] \subseteq Names
        /\ midway[p] \subseteq Names
    BY <1>1 DEF TypeOK
  <2>3. \A m \in Names : files'[m] = IF m = n THEN NoPayload ELSE files[m]
    BY <2>1, <2>2
  <2> QED
    BY <1>1, <2>1, <2>2, <2>3, Nulls, ProcAssumption
    DEF Holds, EmptyHolds, SawPayload, HasPayload, Procs, Deleters, Repairers
<1>13. \A q \in Procs \ {p} : SameLocals(q)
  BY <1>1, ProcAssumption DEF EmptyPayload, empFrame, resLocals, putLocals,
     empLocals, scanLocals, asked, lost, TypeOK, SameLocals, Procs, Deleters,
     Repairers
<1> QED
  BY <1>1, <1>2, <1>4, <1>5, <1>6, <1>7, <1>8, <1>9, <1>10, <1>11,
       <1>12, <1>13, <1>3, Assembled

(* A payload that stays keeps its record.                                  *)
LEMMA EmptyKeepKeeps ==
  ASSUME IInv, NEW p \in Emptiers, NEW n \in Names, EmptyKeep(p, n)
  PROVE  IInv'
<1>1. p \in Procs /\ TypeOK /\ EmptyHolds(p)
  BY DEF IInv, Procs, Deleters, Repairers, Holds
<1>2. Control(p, pc[p])
  BY <1>1 DEF EmptyKeep, empFrame, resLocals, putLocals, empLocals,
     scanLocals, asked, lost, IInv, TypeOK, OneHolder, Control
<1>3. stamp \in Nat /\ stamp' \in Nat /\ stamp <= stamp'
  BY <1>1 DEF EmptyKeep, empFrame, resLocals, putLocals, empLocals,
     scanLocals, asked, lost, TypeOK
<1>4. Local(p)
  BY <1>1, <1>2 DEF EmptyKeep, Control, Local, empFrame, resLocals,
     putLocals, empLocals, scanLocals, asked, lost
<1>5. TypeOK'
  BY <1>1, <1>2 DEF EmptyKeep, empFrame, resLocals, putLocals, empLocals,
     scanLocals, asked, lost, TypeOK, Control
<1>6. TrashOrder'
  BY <1>1, SameTrash DEF EmptyKeep, empFrame, resLocals, putLocals,
     empLocals, scanLocals, asked, lost, TypeOK
<1>7. NewIds
  BY <1>1, IdsGo DEF EmptyKeep, empFrame, resLocals, putLocals, empLocals,
     scanLocals, asked, lost, TypeOK
<1>8. FreshBatch'
  BY <1>1, <1>2, <1>3, <1>7, SameBatches DEF EmptyKeep, empFrame, resLocals,
     putLocals, empLocals, scanLocals, asked, lost, Control, BeforeMove
<1>9. LiveTempKept'
  BY <1>1, <1>4, ProcAssumption, SameTemps DEF EmptyKeep, empFrame,
     resLocals, putLocals, empLocals, scanLocals, asked, lost, Procs,
     Deleters, Repairers
<1>10. NothingLost'
  BY SameFiles DEF EmptyKeep, empFrame, resLocals, putLocals, empLocals,
     scanLocals, asked, lost
<1>11. OnlyCounted'
  BY SameAsked DEF EmptyKeep, empFrame, resLocals, putLocals, empLocals,
     scanLocals, asked, lost
<1>12. Holds(p)'
  BY <1>1, <1>2, ProcAssumption DEF EmptyKeep, empFrame, resLocals,
     putLocals, empLocals, scanLocals, asked, lost, Holds, EmptyHolds,
     TypeOK, Control, Procs, Deleters, Repairers, SawPayload, HasPayload
<1>13. \A q \in Procs \ {p} : SameLocals(q)
  BY <1>1, ProcAssumption DEF EmptyKeep, empFrame, resLocals, putLocals,
     empLocals, scanLocals, asked, lost, TypeOK, SameLocals, Procs, Deleters,
     Repairers
<1> QED
  BY <1>1, <1>2, <1>4, <1>5, <1>6, <1>7, <1>8, <1>9, <1>10, <1>11,
       <1>12, <1>13, <1>3, Assembled

(* The record goes from a name without a payload.                          *)
LEMMA EmptyRecordKeeps ==
  ASSUME IInv, NEW p \in Emptiers, NEW n \in Names, EmptyRecord(p, n)
  PROVE  IInv'
<1>1. p \in Procs /\ TypeOK /\ EmptyHolds(p)
  BY DEF IInv, Procs, Deleters, Repairers, Holds
<1>2. Control(p, pc[p])
  BY <1>1 DEF EmptyRecord, empFrame, resLocals, putLocals, empLocals,
     scanLocals, asked, lost, IInv, TypeOK, OneHolder, Control
<1>3. stamp \in Nat /\ stamp' \in Nat /\ stamp <= stamp'
  BY <1>1 DEF EmptyRecord, empFrame, resLocals, putLocals, empLocals,
     scanLocals, asked, lost, TypeOK
<1>4. Local(p)
  BY <1>1, <1>2, HolderHasLock DEF EmptyRecord, Control, Local, Holding
<1>5. TypeOK'
  <2>1. info' \in [Names -> Record]
    BY <1>1, Nulls DEF EmptyRecord, TypeOK
  <2> QED
    BY <1>1, <1>2, <2>1
    DEF EmptyRecord, empFrame, resLocals, putLocals, empLocals, scanLocals,
        asked, lost, TypeOK, Control
<1>6. TrashOrder'
  BY <1>1, SameTrash, Nulls, <1>3, RecordAlone DEF EmptyRecord, empFrame,
     resLocals, putLocals, empLocals, scanLocals, asked, lost, TypeOK,
     EmptyHolds
<1>7. NewIds
  BY <1>1, IdsGo DEF EmptyRecord, empFrame, resLocals, putLocals, empLocals,
     scanLocals, asked, lost, TypeOK
<1>8. FreshBatch'
  BY <1>1, <1>2, <1>3, <1>7, SameBatches DEF EmptyRecord, empFrame,
     resLocals, putLocals, empLocals, scanLocals, asked, lost, Control,
     BeforeMove
<1>9. LiveTempKept'
  BY <1>1, <1>4, ProcAssumption, SameTemps DEF EmptyRecord, empFrame,
     resLocals, putLocals, empLocals, scanLocals, asked, lost, Procs,
     Deleters, Repairers
<1>10. NothingLost'
  BY SameFiles DEF EmptyRecord, empFrame, resLocals, putLocals, empLocals,
     scanLocals, asked, lost
<1>11. OnlyCounted'
  BY SameAsked DEF EmptyRecord, empFrame, resLocals, putLocals, empLocals,
     scanLocals, asked, lost
<1>12. Holds(p)'
  BY <1>1, <1>2, ProcAssumption DEF EmptyRecord, empFrame, resLocals,
     putLocals, empLocals, scanLocals, asked, lost, Holds, EmptyHolds,
     TypeOK, Control, Procs, Deleters, Repairers, SawPayload, HasPayload
<1>13. \A q \in Procs \ {p} : SameLocals(q)
  BY <1>1, ProcAssumption DEF EmptyRecord, empFrame, resLocals, putLocals,
     empLocals, scanLocals, asked, lost, TypeOK, SameLocals, Procs, Deleters,
     Repairers
<1> QED
  BY <1>1, <1>2, <1>4, <1>5, <1>6, <1>7, <1>8, <1>9, <1>10, <1>11,
       <1>12, <1>13, <1>3, Assembled

(* The victims not started are left alone.                                 *)
LEMMA EmptyStopKeeps ==
  ASSUME IInv, NEW p \in Emptiers, EmptyStop(p)
  PROVE  IInv'
<1>1. p \in Procs /\ TypeOK /\ EmptyHolds(p)
  BY DEF IInv, Procs, Deleters, Repairers, Holds
<1>2. Control(p, "emp_stop")
  BY <1>1, StepControl DEF EmptyStop, Labels, Waiting, Holding
<1>3. stamp \in Nat /\ stamp' \in Nat /\ stamp <= stamp'
  BY <1>1 DEF EmptyStop, empFrame, resLocals, putLocals, empLocals,
     scanLocals, asked, lost, TypeOK
<1>4. Local(p)
  BY <1>1, <1>2 DEF EmptyStop, Step, Control, Local, empFrame, resLocals,
     putLocals, empLocals, scanLocals, asked, lost
<1>5. TypeOK'
  BY <1>1, <1>2 DEF EmptyStop, empFrame, resLocals, putLocals, empLocals,
     scanLocals, asked, lost, TypeOK, Control
<1>6. TrashOrder'
  BY <1>1, SameTrash DEF EmptyStop, empFrame, resLocals, putLocals,
     empLocals, scanLocals, asked, lost, TypeOK
<1>7. NewIds
  BY <1>1, IdsGo DEF EmptyStop, empFrame, resLocals, putLocals, empLocals,
     scanLocals, asked, lost, TypeOK
<1>8. FreshBatch'
  BY <1>1, <1>2, <1>3, <1>7, SameBatches DEF EmptyStop, empFrame, resLocals,
     putLocals, empLocals, scanLocals, asked, lost, Control, BeforeMove
<1>9. LiveTempKept'
  BY <1>1, <1>4, ProcAssumption, SameTemps DEF EmptyStop, empFrame,
     resLocals, putLocals, empLocals, scanLocals, asked, lost, Procs,
     Deleters, Repairers
<1>10. NothingLost'
  BY SameFiles DEF EmptyStop, empFrame, resLocals, putLocals, empLocals,
     scanLocals, asked, lost
<1>11. OnlyCounted'
  BY SameAsked DEF EmptyStop, empFrame, resLocals, putLocals, empLocals,
     scanLocals, asked, lost
<1>12. Holds(p)'
  BY <1>1, <1>2, ProcAssumption DEF EmptyStop, Step, empFrame, resLocals,
     putLocals, empLocals, scanLocals, asked, lost, Holds, EmptyHolds,
     TypeOK, Control, Procs, Deleters, Repairers, SawPayload, HasPayload
<1>13. \A q \in Procs \ {p} : SameLocals(q)
  BY <1>1, ProcAssumption DEF EmptyStop, empFrame, resLocals, putLocals,
     empLocals, scanLocals, asked, lost, TypeOK, SameLocals, Procs, Deleters,
     Repairers
<1> QED
  BY <1>1, <1>2, <1>4, <1>5, <1>6, <1>7, <1>8, <1>9, <1>10, <1>11,
       <1>12, <1>13, <1>3, Assembled

(* The lock is dropped with no victim midway.                              *)
LEMMA EmptyStoppedKeeps ==
  ASSUME IInv, NEW p \in Emptiers, EmptyStopped(p)
  PROVE  IInv'
<1>1. p \in Procs /\ TypeOK /\ EmptyHolds(p)
  BY DEF IInv, Procs, Deleters, Repairers, Holds
<1>2. Control(p, "idle")
  BY <1>1, ReleaseControl DEF EmptyStopped, Labels, Waiting, Holding
<1>3. stamp \in Nat /\ stamp' \in Nat /\ stamp <= stamp'
  BY <1>1 DEF EmptyStopped, empFrame, resLocals, putLocals, empLocals,
     scanLocals, asked, lost, TypeOK
<1>4. Local(p)
  BY <1>1, <1>2 DEF EmptyStopped, Release, Step, Control, Local, empFrame,
     resLocals, putLocals, empLocals, scanLocals, asked, lost
<1>5. TypeOK'
  BY <1>1, <1>2 DEF EmptyStopped, empFrame, resLocals, putLocals, empLocals,
     scanLocals, asked, lost, TypeOK, Control
<1>6. TrashOrder'
  BY <1>1, SameTrash DEF EmptyStopped, empFrame, resLocals, putLocals,
     empLocals, scanLocals, asked, lost, TypeOK
<1>7. NewIds
  BY <1>1, IdsGo DEF EmptyStopped, empFrame, resLocals, putLocals, empLocals,
     scanLocals, asked, lost, TypeOK
<1>8. FreshBatch'
  BY <1>1, <1>2, <1>3, <1>7, SameBatches DEF EmptyStopped, empFrame,
     resLocals, putLocals, empLocals, scanLocals, asked, lost, Control,
     BeforeMove
<1>9. LiveTempKept'
  BY <1>1, <1>4, ProcAssumption, SameTemps DEF EmptyStopped, empFrame,
     resLocals, putLocals, empLocals, scanLocals, asked, lost, Procs,
     Deleters, Repairers
<1>10. NothingLost'
  BY SameFiles DEF EmptyStopped, empFrame, resLocals, putLocals, empLocals,
     scanLocals, asked, lost
<1>11. OnlyCounted'
  BY SameAsked DEF EmptyStopped, empFrame, resLocals, putLocals, empLocals,
     scanLocals, asked, lost
<1>12. Holds(p)'
  BY <1>1, <1>2, ProcAssumption DEF EmptyStopped, Release, Step, empFrame,
     resLocals, putLocals, empLocals, scanLocals, asked, lost, Holds,
     EmptyHolds, TypeOK, Control, Procs, Deleters, Repairers, HasPayload
<1>13. \A q \in Procs \ {p} : SameLocals(q)
  BY <1>1, ProcAssumption DEF EmptyStopped, empFrame, resLocals, putLocals,
     empLocals, scanLocals, asked, lost, TypeOK, SameLocals, Procs, Deleters,
     Repairers
<1> QED
  BY <1>1, <1>2, <1>4, <1>5, <1>6, <1>7, <1>8, <1>9, <1>10, <1>11,
       <1>12, <1>13, <1>3, Assembled

(* Only records without a payload go, and no live put has a temporary now. *)
LEMMA EmptyInfoKeeps ==
  ASSUME IInv, NEW p \in Emptiers, EmptyInfo(p)
  PROVE  IInv'
<1>1. p \in Procs /\ TypeOK /\ EmptyHolds(p)
  BY DEF IInv, Procs, Deleters, Repairers, Holds
<1>2. Control(p, "idle")
  BY <1>1, ReleaseControl DEF EmptyInfo, Labels, Waiting, Holding
<1>3. stamp \in Nat /\ stamp' \in Nat /\ stamp <= stamp'
  BY <1>1 DEF EmptyInfo, empFrame, resLocals, putLocals, empLocals,
     scanLocals, asked, lost, TypeOK
<1>4. Local(p)
  BY <1>1, <1>2, HolderHasLock DEF EmptyInfo, Release, Step, Control, Local,
     Holding
<1>5. TypeOK'
  <2>1. info' \in [Names -> Record] /\ temps' \subseteq Nat
    BY <1>1, Nulls DEF EmptyInfo, TypeOK
  <2> QED
    BY <1>1, <1>2, <2>1
    DEF EmptyInfo, empFrame, resLocals, putLocals, empLocals, scanLocals,
        asked, lost, TypeOK, Control
<1>6. TrashOrder'
  <2>1. /\ files' = files /\ stamp' = stamp
        /\ \A n \in Names : \/ info'[n] = info[n]
                            \/ info'[n] = NoRecord /\ ~HasPayload(n)
    BY <1>1 DEF EmptyInfo, empFrame
  <2> QED
    BY <2>1, Nulls
    DEF IInv, TrashOrder, PayloadShape, SamePut, PayloadWhole, PayloadHasRecord,
        HasPayload, HasRecord
<1>7. NewIds
  BY <1>1, IdsGo DEF EmptyInfo, empFrame, resLocals, putLocals, empLocals,
     scanLocals, asked, lost, TypeOK
<1>8. FreshBatch'
  BY <1>1, <1>2, <1>3, <1>7, SameBatches DEF EmptyInfo, empFrame, resLocals,
     putLocals, empLocals, scanLocals, asked, lost, Control, BeforeMove
<1>9. LiveTempKept'
  BY <1>1, <1>4, ProcAssumption, SameTemps DEF EmptyInfo, empFrame,
     resLocals, putLocals, empLocals, scanLocals, asked, lost, Procs,
     Deleters, Repairers
<1>10. NothingLost'
  BY SameFiles DEF EmptyInfo, empFrame, resLocals, putLocals, empLocals,
     scanLocals, asked, lost
<1>11. OnlyCounted'
  BY SameAsked DEF EmptyInfo, empFrame, resLocals, putLocals, empLocals,
     scanLocals, asked, lost
<1>12. Holds(p)'
  BY <1>1, <1>2, ProcAssumption DEF EmptyInfo, Release, Step, empFrame,
     resLocals, putLocals, empLocals, scanLocals, asked, lost, Holds,
     EmptyHolds, TypeOK, Control, Procs, Deleters, Repairers, HasPayload
<1>13. \A q \in Procs \ {p} : SameLocals(q)
  BY <1>1, ProcAssumption DEF EmptyInfo, empFrame, resLocals, putLocals,
     empLocals, scanLocals, asked, lost, TypeOK, SameLocals, Procs, Deleters,
     Repairers
<1> QED
  BY <1>1, <1>2, <1>4, <1>5, <1>6, <1>7, <1>8, <1>9, <1>10, <1>11,
       <1>12, <1>13, <1>3, Assembled

-----------------------------------------------------------------------------
(* Steps of a repair, kills and the user; the properties; the refinement.  *)

(* A look changes no file.                                                 *)
LEMMA FixScanKeeps ==
  ASSUME IInv, NEW p \in Repairers, FixScan(p)
  PROVE  IInv'
<1>1. p \in Procs /\ TypeOK /\ FixHolds(p)
  BY DEF IInv, Procs, Deleters, Repairers, Holds
<1>2. Control(p, "fix_lock")
  BY <1>1, StepControl DEF FixScan, Labels, Waiting, Holding
<1>3. stamp \in Nat /\ stamp' \in Nat /\ stamp <= stamp'
  BY <1>1 DEF FixScan, fixFrame, putLocals, resLocals, empLocals, scanLocals,
     asked, lost, TypeOK
<1>4. Local(p)
  BY <1>1, <1>2 DEF FixScan, Step, Control, Local, fixFrame, putLocals,
     resLocals, empLocals, scanLocals, asked, lost
<1>5. TypeOK'
  BY <1>1, <1>2, Nulls DEF FixScan, fixFrame, putLocals, resLocals,
     empLocals, scanLocals, asked, lost, TypeOK, Control, Leftovers
<1>6. TrashOrder'
  BY <1>1, SameTrash DEF FixScan, fixFrame, putLocals, resLocals, empLocals,
     scanLocals, asked, lost, TypeOK
<1>7. NewIds
  BY <1>1, IdsGo DEF FixScan, fixFrame, putLocals, resLocals, empLocals,
     scanLocals, asked, lost, TypeOK
<1>8. FreshBatch'
  BY <1>1, <1>2, <1>3, <1>7, SameBatches DEF FixScan, fixFrame, putLocals,
     resLocals, empLocals, scanLocals, asked, lost, Control, BeforeMove
<1>9. LiveTempKept'
  BY <1>1, <1>4, ProcAssumption, SameTemps DEF FixScan, fixFrame, putLocals,
     resLocals, empLocals, scanLocals, asked, lost, Procs, Deleters,
     Repairers
<1>10. NothingLost'
  BY SameFiles DEF FixScan, fixFrame, putLocals, resLocals, empLocals,
     scanLocals, asked, lost
<1>11. OnlyCounted'
  BY SameAsked DEF FixScan, fixFrame, putLocals, resLocals, empLocals,
     scanLocals, asked, lost
<1>12. Holds(p)'
  BY <1>1, <1>2, ProcAssumption DEF FixScan, Step, fixFrame, putLocals,
     resLocals, empLocals, scanLocals, asked, lost, Holds, FixHolds, TypeOK,
     Control, Procs, Deleters, Repairers, HasPayload
<1>13. \A q \in Procs \ {p} : SameLocals(q)
  BY <1>1, ProcAssumption DEF FixScan, fixFrame, putLocals, resLocals,
     empLocals, scanLocals, asked, lost, TypeOK, SameLocals, Procs, Deleters,
     Repairers
<1> QED
  BY <1>1, <1>2, <1>4, <1>5, <1>6, <1>7, <1>8, <1>9, <1>10, <1>11,
       <1>12, <1>13, <1>3, Assembled

(* Taking the free lock changes no file.                                   *)
LEMMA FixLockKeeps ==
  ASSUME IInv, NEW p \in Repairers, FixLock(p)
  PROVE  IInv'
<1>1. p \in Procs /\ TypeOK /\ FixHolds(p)
  BY DEF IInv, Procs, Deleters, Repairers, Holds
<1>2. Control(p, "fix_verify")
  BY <1>1, AcquireControl DEF FixLock, Labels, Waiting, Holding
<1>3. stamp \in Nat /\ stamp' \in Nat /\ stamp <= stamp'
  BY <1>1 DEF FixLock, fixFrame, putLocals, resLocals, empLocals, scanLocals,
     asked, lost, TypeOK
<1>4. Local(p)
  BY <1>1, <1>2 DEF FixLock, Acquire, Step, Control, Local, fixFrame,
     putLocals, resLocals, empLocals, scanLocals, asked, lost
<1>5. TypeOK'
  BY <1>1, <1>2 DEF FixLock, fixFrame, putLocals, resLocals, empLocals,
     scanLocals, asked, lost, TypeOK, Control
<1>6. TrashOrder'
  BY <1>1, SameTrash DEF FixLock, fixFrame, putLocals, resLocals, empLocals,
     scanLocals, asked, lost, TypeOK
<1>7. NewIds
  BY <1>1, IdsGo DEF FixLock, fixFrame, putLocals, resLocals, empLocals,
     scanLocals, asked, lost, TypeOK
<1>8. FreshBatch'
  BY <1>1, <1>2, <1>3, <1>7, SameBatches DEF FixLock, fixFrame, putLocals,
     resLocals, empLocals, scanLocals, asked, lost, Control, BeforeMove
<1>9. LiveTempKept'
  BY <1>1, <1>4, ProcAssumption, SameTemps DEF FixLock, fixFrame, putLocals,
     resLocals, empLocals, scanLocals, asked, lost, Procs, Deleters,
     Repairers
<1>10. NothingLost'
  BY SameFiles DEF FixLock, fixFrame, putLocals, resLocals, empLocals,
     scanLocals, asked, lost
<1>11. OnlyCounted'
  BY SameAsked DEF FixLock, fixFrame, putLocals, resLocals, empLocals,
     scanLocals, asked, lost
<1>12. Holds(p)'
  BY <1>1, <1>2, ProcAssumption DEF FixLock, Acquire, Step, fixFrame,
     putLocals, resLocals, empLocals, scanLocals, asked, lost, Holds,
     FixHolds, TypeOK, Control, Procs, Deleters, Repairers, HasPayload
<1>13. \A q \in Procs \ {p} : SameLocals(q)
  BY <1>1, ProcAssumption DEF FixLock, fixFrame, putLocals, resLocals,
     empLocals, scanLocals, asked, lost, TypeOK, SameLocals, Procs, Deleters,
     Repairers
<1> QED
  BY <1>1, <1>2, <1>4, <1>5, <1>6, <1>7, <1>8, <1>9, <1>10, <1>11,
       <1>12, <1>13, <1>3, Assembled

(* Only records without a payload are left to remove.                      *)
LEMMA FixVerifyKeeps ==
  ASSUME IInv, NEW p \in Repairers, FixVerify(p)
  PROVE  IInv'
<1>1. p \in Procs /\ TypeOK /\ FixHolds(p)
  BY DEF IInv, Procs, Deleters, Repairers, Holds
<1>2. Control(p, "fix_remove")
  BY <1>1, StepControl DEF FixVerify, Labels, Waiting, Holding
<1>3. stamp \in Nat /\ stamp' \in Nat /\ stamp <= stamp'
  BY <1>1 DEF FixVerify, fixFrame, putLocals, resLocals, empLocals,
     scanLocals, asked, lost, TypeOK
<1>4. Local(p)
  BY <1>1, <1>2 DEF FixVerify, Step, Control, Local, fixFrame, putLocals,
     resLocals, empLocals, scanLocals, asked, lost
<1>5. TypeOK'
  <2>1. /\ todo' \in [Emptiers \cup Repairers -> SUBSET Names]
        /\ seenTemps' \in [Emptiers \cup Repairers -> SUBSET Nat]
    BY <1>1 DEF FixVerify, TypeOK
  <2> QED
    BY <1>1, <1>2, <2>1
    DEF FixVerify, fixFrame, putLocals, resLocals, empLocals, asked, lost,
        TypeOK, Control
<1>6. TrashOrder'
  BY <1>1, SameTrash DEF FixVerify, fixFrame, putLocals, resLocals,
     empLocals, scanLocals, asked, lost, TypeOK
<1>7. NewIds
  BY <1>1, IdsGo DEF FixVerify, fixFrame, putLocals, resLocals, empLocals,
     scanLocals, asked, lost, TypeOK
<1>8. FreshBatch'
  BY <1>1, <1>2, <1>3, <1>7, SameBatches DEF FixVerify, fixFrame, putLocals,
     resLocals, empLocals, scanLocals, asked, lost, Control, BeforeMove
<1>9. LiveTempKept'
  BY <1>1, <1>4, ProcAssumption, SameTemps DEF FixVerify, fixFrame,
     putLocals, resLocals, empLocals, scanLocals, asked, lost, Procs,
     Deleters, Repairers
<1>10. NothingLost'
  BY SameFiles DEF FixVerify, fixFrame, putLocals, resLocals, empLocals,
     scanLocals, asked, lost
<1>11. OnlyCounted'
  BY SameAsked DEF FixVerify, fixFrame, putLocals, resLocals, empLocals,
     scanLocals, asked, lost
<1>12. Holds(p)'
  <2>1. todo'[p] = {n \in Names : StillBroken(p, n)} /\ files' = files
    BY <1>1 DEF FixVerify, fixFrame, TypeOK
  <2>2. \A n \in todo'[p] : ~HasPayload(n)
    BY <2>1
    DEF StillBroken, Broken, Dangling, Blank, IInv, TrashOrder, PayloadWhole
  <2> QED
    BY <1>2, <2>1, <2>2, ProcAssumption
    DEF Holds, FixHolds, HasPayload, Procs, Deleters, Repairers
<1>13. \A q \in Procs \ {p} : SameLocals(q)
  BY <1>1, ProcAssumption DEF FixVerify, fixFrame, putLocals, resLocals,
     empLocals, scanLocals, asked, lost, TypeOK, SameLocals, Procs, Deleters,
     Repairers
<1> QED
  BY <1>1, <1>2, <1>4, <1>5, <1>6, <1>7, <1>8, <1>9, <1>10, <1>11,
       <1>12, <1>13, <1>3, Assembled

(* The record goes from a name without a payload.                          *)
LEMMA FixRecordKeeps ==
  ASSUME IInv, NEW p \in Repairers, NEW n \in Names, FixRecord(p, n)
  PROVE  IInv'
<1>1. p \in Procs /\ TypeOK /\ FixHolds(p)
  BY DEF IInv, Procs, Deleters, Repairers, Holds
<1>2. Control(p, pc[p])
  BY <1>1 DEF FixRecord, fixFrame, putLocals, resLocals, empLocals,
     scanLocals, asked, lost, IInv, TypeOK, OneHolder, Control
<1>3. stamp \in Nat /\ stamp' \in Nat /\ stamp <= stamp'
  BY <1>1 DEF FixRecord, fixFrame, putLocals, resLocals, empLocals,
     scanLocals, asked, lost, TypeOK
<1>4. Local(p)
  BY <1>1, <1>2, HolderHasLock DEF FixRecord, Control, Local, Holding
<1>5. TypeOK'
  <2>1. info' \in [Names -> Record]
    <3>1. info \in [Names -> Record]
      BY <1>1 DEF TypeOK
    <3> QED
      BY <3>1, Nulls DEF FixRecord
  <2>2. todo' \in [Emptiers \cup Repairers -> SUBSET Names]
    BY <1>1 DEF FixRecord, TypeOK
  <2> QED
    BY <1>1, <1>2, <2>1, <2>2
    DEF FixRecord, fixFrame, putLocals, resLocals, empLocals, asked, lost,
        TypeOK, Control
<1>6. TrashOrder'
  BY <1>1, SameTrash, Nulls, <1>3, RecordAlone DEF FixRecord, fixFrame,
     putLocals, resLocals, empLocals, scanLocals, asked, lost, TypeOK,
     FixHolds
<1>7. NewIds
  BY <1>1, IdsGo DEF FixRecord, fixFrame, putLocals, resLocals, empLocals,
     scanLocals, asked, lost, TypeOK
<1>8. FreshBatch'
  BY <1>1, <1>2, <1>3, <1>7, SameBatches DEF FixRecord, fixFrame, putLocals,
     resLocals, empLocals, scanLocals, asked, lost, Control, BeforeMove
<1>9. LiveTempKept'
  BY <1>1, <1>4, ProcAssumption, SameTemps DEF FixRecord, fixFrame,
     putLocals, resLocals, empLocals, scanLocals, asked, lost, Procs,
     Deleters, Repairers
<1>10. NothingLost'
  BY SameFiles DEF FixRecord, fixFrame, putLocals, resLocals, empLocals,
     scanLocals, asked, lost
<1>11. OnlyCounted'
  BY SameAsked DEF FixRecord, fixFrame, putLocals, resLocals, empLocals,
     scanLocals, asked, lost
<1>12. Holds(p)'
  BY <1>1, <1>2, ProcAssumption DEF FixRecord, fixFrame, putLocals,
     resLocals, empLocals, scanLocals, asked, lost, Holds, FixHolds, TypeOK,
     Control, Procs, Deleters, Repairers, HasPayload
<1>13. \A q \in Procs \ {p} : SameLocals(q)
  BY <1>1, ProcAssumption DEF FixRecord, fixFrame, putLocals, resLocals,
     empLocals, scanLocals, asked, lost, TypeOK, SameLocals, Procs, Deleters,
     Repairers
<1> QED
  BY <1>1, <1>2, <1>4, <1>5, <1>6, <1>7, <1>8, <1>9, <1>10, <1>11,
       <1>12, <1>13, <1>3, Assembled

(* No put is in its locked section, so no live temporary goes.             *)
LEMMA FixTempKeeps ==
  ASSUME IInv, NEW p \in Repairers, NEW b, FixTemp(p, b)
  PROVE  IInv'
<1>1. p \in Procs /\ TypeOK /\ FixHolds(p)
  BY DEF IInv, Procs, Deleters, Repairers, Holds
<1>2. Control(p, pc[p])
  BY <1>1 DEF FixTemp, fixFrame, putLocals, resLocals, empLocals, scanLocals,
     asked, lost, IInv, TypeOK, OneHolder, Control
<1>3. stamp \in Nat /\ stamp' \in Nat /\ stamp <= stamp'
  BY <1>1 DEF FixTemp, fixFrame, putLocals, resLocals, empLocals, scanLocals,
     asked, lost, TypeOK
<1>4. Local(p)
  BY <1>1, <1>2, HolderHasLock DEF FixTemp, Control, Local, Holding
<1>5. TypeOK'
  <2>1. /\ temps' \subseteq Nat
        /\ seenTemps' \in [Emptiers \cup Repairers -> SUBSET Nat]
    BY <1>1 DEF FixTemp, TypeOK
  <2> QED
    BY <1>1, <1>2, <2>1
    DEF FixTemp, fixFrame, putLocals, resLocals, empLocals, asked, lost,
        TypeOK, Control
<1>6. TrashOrder'
  BY <1>1, SameTrash DEF FixTemp, fixFrame, putLocals, resLocals, empLocals,
     scanLocals, asked, lost, TypeOK
<1>7. NewIds
  BY <1>1, IdsGo DEF FixTemp, fixFrame, putLocals, resLocals, empLocals,
     scanLocals, asked, lost, TypeOK
<1>8. FreshBatch'
  BY <1>1, <1>2, <1>3, <1>7, SameBatches DEF FixTemp, fixFrame, putLocals,
     resLocals, empLocals, scanLocals, asked, lost, Control, BeforeMove
<1>9. LiveTempKept'
  BY <1>1, <1>4, ProcAssumption, SameTemps DEF FixTemp, fixFrame, putLocals,
     resLocals, empLocals, scanLocals, asked, lost, Procs, Deleters,
     Repairers
<1>10. NothingLost'
  BY SameFiles DEF FixTemp, fixFrame, putLocals, resLocals, empLocals,
     scanLocals, asked, lost
<1>11. OnlyCounted'
  BY SameAsked DEF FixTemp, fixFrame, putLocals, resLocals, empLocals,
     scanLocals, asked, lost
<1>12. Holds(p)'
  BY <1>1, <1>2, ProcAssumption DEF FixTemp, fixFrame, putLocals, resLocals,
     empLocals, scanLocals, asked, lost, Holds, FixHolds, TypeOK, Control,
     Procs, Deleters, Repairers, HasPayload
<1>13. \A q \in Procs \ {p} : SameLocals(q)
  BY <1>1, ProcAssumption DEF FixTemp, fixFrame, putLocals, resLocals,
     empLocals, scanLocals, asked, lost, TypeOK, SameLocals, Procs, Deleters,
     Repairers
<1> QED
  BY <1>1, <1>2, <1>4, <1>5, <1>6, <1>7, <1>8, <1>9, <1>10, <1>11,
       <1>12, <1>13, <1>3, Assembled

(* The end of a repair only drops the lock.                                *)
LEMMA FixDoneKeeps ==
  ASSUME IInv, NEW p \in Repairers, FixDone(p)
  PROVE  IInv'
<1>1. p \in Procs /\ TypeOK /\ FixHolds(p)
  BY DEF IInv, Procs, Deleters, Repairers, Holds
<1>2. Control(p, "idle")
  BY <1>1, ReleaseControl DEF FixDone, Labels, Waiting, Holding
<1>3. stamp \in Nat /\ stamp' \in Nat /\ stamp <= stamp'
  BY <1>1 DEF FixDone, fixFrame, putLocals, resLocals, empLocals, scanLocals,
     asked, lost, TypeOK
<1>4. Local(p)
  BY <1>1, <1>2 DEF FixDone, Release, Step, Control, Local, fixFrame,
     putLocals, resLocals, empLocals, scanLocals, asked, lost
<1>5. TypeOK'
  BY <1>1, <1>2 DEF FixDone, fixFrame, putLocals, resLocals, empLocals,
     scanLocals, asked, lost, TypeOK, Control
<1>6. TrashOrder'
  BY <1>1, SameTrash DEF FixDone, fixFrame, putLocals, resLocals, empLocals,
     scanLocals, asked, lost, TypeOK
<1>7. NewIds
  BY <1>1, IdsGo DEF FixDone, fixFrame, putLocals, resLocals, empLocals,
     scanLocals, asked, lost, TypeOK
<1>8. FreshBatch'
  BY <1>1, <1>2, <1>3, <1>7, SameBatches DEF FixDone, fixFrame, putLocals,
     resLocals, empLocals, scanLocals, asked, lost, Control, BeforeMove
<1>9. LiveTempKept'
  BY <1>1, <1>4, ProcAssumption, SameTemps DEF FixDone, fixFrame, putLocals,
     resLocals, empLocals, scanLocals, asked, lost, Procs, Deleters,
     Repairers
<1>10. NothingLost'
  BY SameFiles DEF FixDone, fixFrame, putLocals, resLocals, empLocals,
     scanLocals, asked, lost
<1>11. OnlyCounted'
  BY SameAsked DEF FixDone, fixFrame, putLocals, resLocals, empLocals,
     scanLocals, asked, lost
<1>12. Holds(p)'
  BY <1>1, <1>2, ProcAssumption DEF FixDone, Release, Step, fixFrame,
     putLocals, resLocals, empLocals, scanLocals, asked, lost, Holds,
     FixHolds, TypeOK, Control, Procs, Deleters, Repairers, HasPayload
<1>13. \A q \in Procs \ {p} : SameLocals(q)
  BY <1>1, ProcAssumption DEF FixDone, fixFrame, putLocals, resLocals,
     empLocals, scanLocals, asked, lost, TypeOK, SameLocals, Procs, Deleters,
     Repairers
<1> QED
  BY <1>1, <1>2, <1>4, <1>5, <1>6, <1>7, <1>8, <1>9, <1>10, <1>11,
       <1>12, <1>13, <1>3, Assembled

(* A wait that ends changes no file.                                       *)
LEMMA TimeOutKeeps ==
  ASSUME IInv, NEW p \in Procs, TimeOut(p)
  PROVE  IInv'
<1>1. TypeOK /\ Holds(p)
  BY DEF IInv
<1>2. Control(p, "idle")
  BY <1>1, ProcAssumption
  DEF TimeOut, IInv, TypeOK, OneHolder, Control, Labels, Waiting, Holding
<1>3. stamp \in Nat /\ stamp' \in Nat /\ stamp <= stamp'
  BY <1>1 DEF TimeOut, TypeOK
<1>4. Local(p)
  BY <1>2 DEF TimeOut, Control, Local
<1>5. TypeOK'
  BY <1>1, <1>2
  DEF TimeOut, TypeOK, Control, putLocals, resLocals, empLocals, scanLocals,
      asked, lost
<1>6. TrashOrder' /\ NothingLost' /\ OnlyCounted'
  BY <1>3, SameTrash, SameFiles, SameAsked DEF TimeOut
<1>7. NewIds
  BY DEF TimeOut, NewIds
<1>8. FreshBatch'
  BY <1>2, <1>3, <1>7, SameBatches
  DEF TimeOut, Control, BeforeMove, putLocals, empLocals
<1>9. LiveTempKept'
  BY <1>2, <1>4, SameTemps DEF TimeOut, Control, putLocals
<1>10. Holds(p)'
  BY <1>1, <1>2
  DEF TimeOut, Control, Holds, PutHolds, RestoreHolds, RemoveHolds, EmptyHolds,
      FixHolds, HasPayload, putLocals, resLocals, empLocals, asked
<1>11. \A q \in Procs \ {p} : SameLocals(q)
  BY DEF TimeOut, SameLocals, putLocals, resLocals, empLocals, scanLocals, asked
<1> QED
  BY <1>2, <1>3, <1>4, <1>5, <1>6, <1>7, <1>8, <1>9, <1>10, <1>11, Assembled

(* A kill leaves every file as it is, and the lock with nobody.            *)
LEMMA KillKeeps ==
  ASSUME IInv, NEW p \in Procs, Kill(p)
  PROVE  IInv'
<1>1. TypeOK /\ Holds(p)
  BY DEF IInv
<1>2. Control(p, "idle")
  BY <1>1, ProcAssumption
  DEF Kill, IInv, TypeOK, OneHolder, Control, Labels, Waiting, Holding
<1>3. stamp \in Nat /\ stamp' \in Nat /\ stamp <= stamp'
  BY <1>1 DEF Kill, TypeOK
<1>4. Local(p)
  BY <1>2 DEF Kill, Control, Local
<1>5. TypeOK'
  BY <1>1, <1>2
  DEF Kill, TypeOK, Control, putLocals, resLocals, empLocals, scanLocals,
      asked, lost
<1>6. TrashOrder' /\ NothingLost' /\ OnlyCounted'
  BY <1>3, SameTrash, SameFiles, SameAsked DEF Kill
<1>7. NewIds
  BY DEF Kill, NewIds
<1>8. FreshBatch'
  BY <1>2, <1>3, <1>7, SameBatches
  DEF Kill, Control, BeforeMove, putLocals, empLocals
<1>9. LiveTempKept'
  BY <1>2, <1>4, SameTemps DEF Kill, Control, putLocals
<1>10. Holds(p)'
  BY <1>1, <1>2
  DEF Kill, Control, Holds, PutHolds, RestoreHolds, RemoveHolds, EmptyHolds,
      FixHolds, HasPayload, putLocals, resLocals, empLocals, asked
<1>11. \A q \in Procs \ {p} : SameLocals(q)
  BY DEF Kill, SameLocals, putLocals, resLocals, empLocals, scanLocals, asked
<1> QED
  BY <1>2, <1>3, <1>4, <1>5, <1>6, <1>7, <1>8, <1>9, <1>10, <1>11, Assembled

(* The user's own steps touch no part of the trash.                        *)
LEMMA UserSpares ==
  ASSUME IInv,
         UNCHANGED <<staged, files, info, temps, lock, pc, name, putLocals, rec,
                     resLocals, empLocals, found, scanLocals, stamp, asked>>
  PROVE  /\ OneHolder' /\ TrashOrder' /\ FreshBatch' /\ LiveTempKept'
         /\ OnlyCounted' /\ \A p \in Procs : Holds(p)'
<1>1. stamp \in Nat /\ stamp' \in Nat /\ stamp <= stamp'
  BY DEF IInv, TypeOK
<1>2. OneHolder' /\ TrashOrder' /\ OnlyCounted'
  BY <1>1, SameTrash, SameAsked DEF IInv, OneHolder
<1>3. FreshBatch' /\ LiveTempKept'
  BY DEF IInv, FreshBatch, LiveTempKept, putLocals, empLocals
<1>4. ASSUME NEW p \in Procs PROVE Holds(p)'
  <2>1. Holds(p)
    BY DEF IInv
  <2>2. p \in Putters => PutHolds(p)'
    BY <2>1 DEF Holds, PutHolds, PutRecord, HasPayload, putLocals
  <2>3. p \in Restorers => RestoreHolds(p)'
    BY <2>1 DEF Holds, RestoreHolds, HasPayload, resLocals
  <2>4. p \in Removers => RemoveHolds(p)'
    BY <2>1 DEF Holds, RemoveHolds, HasPayload, asked
  <2>5. p \in Emptiers => EmptyHolds(p)'
    BY <2>1 DEF Holds, EmptyHolds, SawPayload, HasPayload, empLocals,
                scanLocals, asked
  <2>6. p \in Repairers => FixHolds(p)'
    BY <2>1 DEF Holds, FixHolds, HasPayload, scanLocals
  <2> QED BY <2>2, <2>3, <2>4, <2>5, <2>6 DEF Holds
<1> QED BY <1>2, <1>3, <1>4

(* The new file is on a path.                                              *)
LEMMA UserCreateKeeps ==
  ASSUME IInv, NEW x \in Path, UserCreate(x)
  PROVE  IInv'
<1>1. live \in [Path -> 0..Debris] /\ live[x] = Nothing /\ created \in 0..MaxFiles
  BY DEF IInv, TypeOK, UserCreate
<1>2. created' = created + 1 /\ created' \in 1..MaxFiles
  BY <1>1, BoundAssumption DEF UserCreate
<1>3. live' \in [Path -> 0..Debris]
  BY <1>1, <1>2, BoundAssumption DEF UserCreate, Debris
<1>4. TypeOK'
  BY <1>2, <1>3, BoundAssumption
  DEF UserCreate, IInv, TypeOK, putLocals, resLocals, empLocals, scanLocals,
      asked, lost
<1>5. NothingLost'
  <2> SUFFICES ASSUME NEW f \in 1..created'
               PROVE  \/ \E y \in Path : live'[y] = f
                      \/ \E n \in Names : files'[n].file = f
                      \/ f \in (staged \cup discarded \cup clobbered)'
    BY DEF NothingLost
  <2>1. CASE f = created'
    BY <1>1, <2>1 DEF UserCreate
  <2>2. CASE f # created'
    <3>1. f \in 1..created /\ f # Nothing
      BY <1>1, <1>2, <2>2 DEF Nothing
    <3>2. CASE \E y \in Path : live[y] = f
      BY <1>1, <3>1, <3>2 DEF UserCreate
    <3> QED BY <3>1, <3>2 DEF IInv, NothingLost, UserCreate, lost
  <2> QED BY <2>1, <2>2
<1> QED BY <1>4, <1>5, UserSpares DEF UserCreate, IInv

(* The file deleted was asked for.                                         *)
LEMMA UserUnlinkKeeps ==
  ASSUME IInv, NEW x \in Path, UserUnlink(x)
  PROVE  IInv'
<1>1. TypeOK /\ live[x] \in 1..Debris
  BY BoundAssumption DEF IInv, TypeOK, UserUnlink, Nothing, Debris
<1>2. live' \in [Path -> 0..Debris]
  BY <1>1, BoundAssumption DEF UserUnlink, TypeOK, Nothing, Debris
<1>3. TypeOK'
  BY <1>1, <1>2
  DEF UserUnlink, TypeOK, putLocals, resLocals, empLocals, scanLocals, asked
<1>4. NothingLost'
  <2>1. \A y \in Path \ {x} : live'[y] = live[y]
    BY <1>1 DEF UserUnlink, TypeOK
  <2>2. \A f : OnPath(f) => f = live[x] \/ OnPath(f)'
    BY <2>1, PathChanges
  <2>3. \A f : InFiles(f) => InFiles(f)'
    BY DEF UserUnlink, InFiles
  <2> QED BY <2>2, <2>3, Accounted DEF UserUnlink
<1> QED BY <1>3, <1>4, UserSpares DEF UserUnlink, IInv

(* An empty trash with nobody at work satisfies the invariant.             *)
LEMMA InitHolds == Init => IInv
<1> SUFFICES ASSUME Init PROVE IInv
  OBVIOUS
<1>1. TypeOK
  <2>1. /\ NoRecord \in Record /\ NoRecord.path \in Path
        /\ NoPayload \in Payload /\ 1 \in Names /\ Nothing \in 0..Debris
        /\ "idle" \in Labels /\ created \in 0..MaxFiles /\ 0 \in Nat
    BY Nulls, BoundAssumption
    DEF Init, Record, Names, Nothing, Debris, Labels
  <2>2. /\ live \in [Path -> 0..Debris] /\ files \in [Names -> Payload]
        /\ info \in [Names -> Record] /\ pc \in [Procs -> Labels]
        /\ name \in [Procs -> Names] /\ at \in [Putters -> Path]
        /\ batch \in [Putters -> Nat]
    BY <2>1 DEF Init
  <2>3. /\ rec \in [Restorers \cup Removers -> Record]
        /\ force \in [Restorers -> BOOLEAN]
        /\ blocked \in [Restorers -> BOOLEAN]
        /\ carry \in [Restorers -> 0..Debris]
        /\ found \in [Repairers -> [Names -> Record]]
    BY <2>1 DEF Init
  <2>4. /\ seen \in [Emptiers -> [Names -> Nat]]
        /\ seenInfo \in [Emptiers -> SUBSET Names]
        /\ seenTemps \in [Emptiers \cup Repairers -> SUBSET Nat]
        /\ cut \in [Emptiers -> Nat]
        /\ todo \in [Emptiers \cup Repairers -> SUBSET Names]
        /\ midway \in [Emptiers -> SUBSET Names]
        /\ counted \in [Deleters -> SUBSET Nat]
        /\ removed \in [Deleters -> SUBSET Nat]
    BY <2>1 DEF Init
  <2> QED BY <2>1, <2>2, <2>3, <2>4 DEF Init, TypeOK
<1>2. OneHolder
  BY ProcAssumption DEF Init, OneHolder, Holding
<1>3. TrashOrder
  BY Nulls DEF Init, TrashOrder, PayloadShape, SamePut, PayloadWhole,
               PayloadHasRecord, HasPayload, HasRecord
<1>4. FreshBatch /\ LiveTempKept /\ NothingLost /\ OnlyCounted
  BY DEF Init, FreshBatch, BeforeMove, LiveTempKept, NothingLost, OnlyCounted,
         Procs, Deleters
<1>5. \A p \in Procs : Holds(p)
  BY Nulls DEF Init, Holds, PutHolds, RestoreHolds, RemoveHolds, EmptyHolds,
               FixHolds, HasPayload, Procs, Deleters, Repairers
<1> QED BY <1>1, <1>2, <1>3, <1>4, <1>5 DEF IInv

(* Every step of every command, of the user and of a kill keeps it.        *)
LEMMA StepKeeps == IInv /\ [Next]_vars => IInv'
<1> SUFFICES ASSUME IInv, [Next]_vars PROVE IInv'
  OBVIOUS
<1>1. CASE UNCHANGED vars
  <2>1. TypeOK' /\ NothingLost'
    BY <1>1 DEF IInv, TypeOK, NothingLost, vars, putLocals, resLocals, empLocals,
                scanLocals, asked, lost
  <2> QED
    BY <1>1, <2>1, UserSpares
    DEF vars, IInv, putLocals, resLocals, empLocals, scanLocals, asked
<1>2. ASSUME NEW p \in Procs, Start(p) PROVE IInv'
  BY <1>2, PutBeginKeeps, RestoreScanKeeps, RemoveScanKeeps, EmptyCountKeeps,
     FixScanKeeps DEF Start
<1>3. ASSUME NEW p \in Putters, PutStep(p) PROVE IInv'
  BY <1>3, PutLockKeeps, PutTempKeeps, PutClaimKeeps, PutUntempKeeps,
     PutNoLinksKeeps, PutInPlaceKeeps, PutWriteKeeps, PutNoRecordKeeps,
     PutMoveKeeps, PutMoveFailsKeeps, PutCopyKeeps, PutCopiedKeeps,
     PutCopyFailsKeeps, PutUnlinkKeeps, PutSourceLeftKeeps DEF PutStep
<1>4. ASSUME NEW p \in Restorers, RestoreStep(p) PROVE IInv'
  BY <1>4, RestoreCheckKeeps, RestoreRefuseKeeps, RestoreLockKeeps,
     RestoreVerifyKeeps, RestoreChangedKeeps, RestoreMoveKeeps,
     RestoreCopyKeeps, RestoreStageFailsKeeps, RestoreUnlinkKeeps,
     RestoreSwapKeeps, RestorePlaceKeeps, RestoreUnstageKeeps,
     RestoreRecordKeeps DEF RestoreStep
<1>5. ASSUME NEW p \in Removers, RemoveStep(p) PROVE IInv'
  BY <1>5, RemoveLockKeeps, RemoveVerifyKeeps, RemoveChangedKeeps,
     RemovePayloadKeeps, RemoveKeptKeeps, RemoveRecordKeeps DEF RemoveStep
<1>6. ASSUME NEW p \in Emptiers, EmptyStep(p) PROVE IInv'
  BY <1>6, EmptyCountInfoKeeps, EmptyLockKeeps, EmptyStartKeeps,
     EmptyPayloadKeeps, EmptyKeepKeeps, EmptyRecordKeeps, EmptyStopKeeps,
     EmptyStoppedKeeps, EmptyInfoKeeps DEF EmptyStep
<1>7. ASSUME NEW p \in Repairers, FixStep(p) PROVE IInv'
  BY <1>7, FixLockKeeps, FixVerifyKeeps, FixRecordKeeps, FixTempKeeps,
     FixDoneKeeps DEF FixStep
<1>8. ASSUME NEW p \in Procs, Continue(p) \/ Kill(p) PROVE IInv'
  BY <1>3, <1>4, <1>5, <1>6, <1>7, <1>8, TimeOutKeeps, KillKeeps DEF Continue
<1>9. ASSUME NEW x \in Path, UserCreate(x) \/ UserUnlink(x) PROVE IInv'
  BY <1>9, UserCreateKeeps, UserUnlinkKeeps
<1> QED BY <1>1, <1>2, <1>8, <1>9 DEF Next

(* The inductive invariant holds of every run, for any number of           *)
(* processes, names, paths and files, with or without hard links, across   *)
(* devices or not, and with any faults.                                    *)
THEOREM Invariant == Spec => []IInv
BY InitHolds, StepKeeps, PTL DEF Spec

(* Types: in particular, only a file that is there is ever staged.         *)
THEOREM TypesHold == Spec => []TypeOK
<1>1. IInv => TypeOK
  BY DEF IInv
<1> QED BY <1>1, Invariant, PTL

(* TrashLock excludes: at most one process is in a locked section.         *)
THEOREM LockExcludes == Spec => []OneHolder
<1>1. IInv => OneHolder
  BY DEF IInv
<1> QED BY <1>1, Invariant, PTL

(* put pairs a payload with its own record only, and nothing splits them.  *)
THEOREM PairsMatch == Spec => []SamePut
<1>1. IInv => SamePut
  BY DEF IInv, TrashOrder
<1> QED BY <1>1, Invariant, PTL

(* No whole payload is left without its record, even by a kill.            *)
THEOREM PayloadsListed == Spec => []PayloadHasRecord
<1>1. IInv => PayloadHasRecord
  BY DEF IInv, TrashOrder
<1> QED BY <1>1, Invariant, PTL

(* No file disappears unless someone asked, or in a race that clobbered    *)
(* records.                                                                *)
THEOREM FilesKept == Spec => []NothingLost
<1>1. IInv => NothingLost
  BY DEF IInv
<1> QED BY <1>1, Invariant, PTL

(* rm and empty delete only what their unlocked look showed the user.      *)
THEOREM DeletesCounted == Spec => []OnlyCounted
<1>1. IInv => OnlyCounted
  BY DEF IInv
<1> QED BY <1>1, Invariant, PTL

(* A temporary record stays while its put writes it.                       *)
THEOREM TempsKept == Spec => []LiveTempKept
<1>1. IInv => LiveTempKept
  BY DEF IInv
<1> QED BY <1>1, Invariant, PTL

(* A restore moves out of files/ the item it listed and no other.          *)
THEOREM RestoresRight == Spec => []RestoresListed
<1>1. IInv => RestoresListed
  <2> SUFFICES ASSUME IInv, NEW p \in Restorers, pc[p] = "res_stage"
               PROVE  files[name[p]].item = rec[p].batch
    BY DEF RestoresListed
  <2>1. /\ info[name[p]] = rec[p] /\ rec[p].batch # 0 /\ HasPayload(name[p])
        /\ name[p] \in Names
    BY DEF IInv, TypeOK, Holds, RestoreHolds, Procs
  <2> QED BY <2>1 DEF IInv, TrashOrder, SamePut, HasRecord
<1> QED BY <1>1, Invariant, PTL

-----------------------------------------------------------------------------
(* A trash at rest is whole.                                               *)

(* Someone without the lock takes a step that leaves the trash alone.      *)
LEMMA CleanBystander ==
  ASSUME IInv, CleanInv, NEW p \in Procs, pc[p] \notin Holding, pc'[p] \notin Holding,
         UNCHANGED <<files, info, temps, staged, lock>>,
         \A q \in Procs \ {p} : pc'[q] = pc[q] /\ name'[q] = name[q],
         \A q \in Putters \ {p} : batch'[q] = batch[q],
         \A q \in Restorers \ {p} : carry'[q] = carry[q],
         \A q \in Emptiers \ {p} : midway'[q] = midway[q]
  PROVE  CleanInv'
<1> SUFFICES ASSUME Calm PROVE CleanInv'
  BY DEF CleanInv, Calm
<1>1. lock' = "free" => Pure'
  BY DEF CleanInv, Pure, Paired, HasPayload, HasRecord
<1>2. ASSUME NEW q \in Procs, lock' = q PROVE CleanHeld(q)'
  <2>1. q # p /\ CleanHeld(q)
    BY <1>2 DEF IInv, OneHolder, CleanInv
  <2>2. Halfway(q)' = Halfway(q)
    BY <2>1 DEF Halfway
  <2>3. \A n \in Names : Paired(n)' <=> Paired(n)
    BY DEF Paired, HasPayload, HasRecord
  <2> QED
    BY <2>1, <2>2, <2>3 DEF CleanHeld, HasPayload
<1> QED
  BY <1>1, <1>2 DEF CleanInv

(* The one that has the lock after its step, or gives it up, answers for   *)
(* the trash alone.                                                        *)
LEMMA CleanHolder ==
  ASSUME NEW p \in Procs,
         \/ lock' = p /\ (Calm => CleanHeld(p)')
         \/ lock' = "free" /\ (Calm => Pure')
  PROVE  CleanInv'
BY ProcAssumption DEF CleanInv, Calm

LEMMA CleanAcquire ==
  ASSUME IInv, CleanInv, NEW p \in Procs, NEW from,
         NEW to \in {"put_temp", "res_verify", "rm_verify", "emp_start", "fix_verify"},
         Acquire(p, from, to), UNCHANGED <<files, info, temps, staged>>
  PROVE  CleanInv'
<1>1. lock = "free" /\ lock' = p /\ pc'[p] = to
  BY DEF Acquire, Step, IInv, TypeOK
<1>2. ASSUME Calm PROVE CleanHeld(p)'
  <2>1. Pure
    BY <1>1, <1>2 DEF CleanInv
  <2> QED
    BY <1>1, <2>1 DEF Pure, CleanHeld, Paired, HasPayload, HasRecord
<1> QED
  BY <1>1, <1>2, CleanHolder

(* What the holder of the lock knows before its step.                      *)
LEMMA CleanNow ==
  ASSUME IInv, CleanInv, NEW p \in Procs, pc[p] \in Holding
  PROVE  lock = p /\ (Calm => CleanHeld(p))
BY DEF IInv, OneHolder, CleanInv

(* A put in its section: its record alone at its name, its temporary.      *)
LEMMA PutClean ==
  ASSUME IInv, CleanInv, NEW p \in Putters, PutStep(p) PROVE CleanInv'
<1>0. p \in Procs /\ TypeOK /\ PutHolds(p) /\ batch[p] \in Nat
  BY DEF IInv, Procs, Holds, TypeOK
<1>1. p \notin Restorers /\ p \notin Emptiers
  BY ProcAssumption DEF Deleters
<1>2. files \in [Names -> Payload] /\ info \in [Names -> Record] /\ name[p] \in Names
  BY <1>0 DEF TypeOK
<1>3. CASE PutLock(p)
  BY <1>0, <1>3, CleanAcquire DEF PutLock, putFrame
<1>4. ASSUME pc[p] \in Holding, Calm PROVE lock = p /\ CleanHeld(p) /\ staged = {}
  BY <1>0, <1>1, <1>4, CleanNow DEF CleanHeld
<1>5. CASE PutTemp(p)
  <2>1. pc[p] = "put_temp" /\ pc'[p] = "put_claim" /\ lock' = lock /\ temps' = temps \cup {batch[p]}
        /\ UNCHANGED <<files, info, staged, batch>>
    BY <1>0, <1>5 DEF PutTemp, Step, TypeOK, putFrame, putLocals
  <2>2. ASSUME Calm PROVE CleanHeld(p)'
    BY <1>1, <1>4, <2>1, <2>2 DEF CleanHeld, Halfway, LoneRecord, Paired, HasPayload, HasRecord, Holding
  <2> QED
    BY <1>0, <1>4, <2>1, <2>2, CleanHolder, CleanNow DEF Holding
<1>6. CASE PutClaim(p)
  <2>1. PICK n \in Names : /\ FirstFree(n) /\ name' = [name EXCEPT ![p] = n]
                          /\ info' = [info EXCEPT ![n] = PutRecord(p, TRUE)]
    BY <1>6 DEF PutClaim
  <2>2. pc[p] = "put_claim" /\ pc'[p] = "put_untemp" /\ lock' = lock /\ name'[p] = n
        /\ UNCHANGED <<files, temps, staged, batch>>
    BY <1>0, <1>6, <2>1 DEF PutClaim, Step, TypeOK, putLocals
  <2>3. \A m \in Names \ {n} : info'[m] = info[m]
    BY <1>2, <2>1
  <2>4. ASSUME Calm PROVE CleanHeld(p)'
    BY <1>1, <1>4, <2>2, <2>3, <2>4 DEF CleanHeld, Halfway, LoneRecord, Paired, HasPayload, HasRecord, Holding
  <2> QED
    BY <1>0, <2>2, <2>4, CleanHolder, CleanNow DEF Holding
<1>7. CASE PutUntemp(p)
  <2>1. pc[p] = "put_untemp" /\ pc'[p] = "put_move" /\ lock' = lock /\ temps' = temps \ {batch[p]}
        /\ UNCHANGED <<files, info, staged, batch, name>>
    BY <1>0, <1>7 DEF PutUntemp, Step, TypeOK, putFrame, putLocals
  <2>2. ASSUME Calm PROVE CleanHeld(p)'
    BY <1>1, <1>4, <2>1, <2>2 DEF CleanHeld, Halfway, LoneRecord, Paired, HasPayload, HasRecord, Holding
  <2> QED
    BY <1>0, <2>1, <2>2, CleanHolder, CleanNow DEF Holding
<1>8. CASE PutNoLinks(p)
  <2>1. pc[p] = "put_claim" /\ pc'[p] = "put_inplace" /\ lock' = lock /\ temps' = temps \ {batch[p]}
        /\ UNCHANGED <<files, info, staged, batch, name>>
    BY <1>0, <1>8 DEF PutNoLinks, Step, TypeOK, putFrame, putLocals
  <2>2. ASSUME Calm PROVE CleanHeld(p)'
    BY <1>1, <1>4, <2>1, <2>2 DEF CleanHeld, Halfway, LoneRecord, Paired, HasPayload, HasRecord, Holding
  <2> QED
    BY <1>0, <2>1, <2>2, CleanHolder, CleanNow DEF Holding
<1>9. CASE PutInPlace(p)
  <2>1. PICK n \in Names : /\ FirstFree(n) /\ name' = [name EXCEPT ![p] = n]
                          /\ info' = [info EXCEPT ![n] = PutRecord(p, FALSE)]
    BY <1>9 DEF PutInPlace
  <2>2. pc[p] = "put_inplace" /\ pc'[p] = "put_write" /\ lock' = lock /\ name'[p] = n
        /\ UNCHANGED <<files, temps, staged, batch>>
    BY <1>0, <1>9, <2>1 DEF PutInPlace, Step, TypeOK, putLocals
  <2>3. \A m \in Names \ {n} : info'[m] = info[m]
    BY <1>2, <2>1
  <2>4. ASSUME Calm PROVE CleanHeld(p)'
    BY <1>1, <1>4, <2>2, <2>3, <2>4 DEF CleanHeld, Halfway, LoneRecord, Paired, HasPayload, HasRecord, Holding
  <2> QED
    BY <1>0, <2>2, <2>4, CleanHolder, CleanNow DEF Holding
<1>10. CASE PutWrite(p)
  <2>1. pc[p] = "put_write" /\ pc'[p] = "put_move" /\ lock' = lock
        /\ UNCHANGED <<files, temps, staged, batch, name>>
    BY <1>0, <1>10 DEF PutWrite, Step, TypeOK, putFrame, putLocals
  <2>2. \A m \in Names \ {name[p]} : info'[m] = info[m]
    BY <1>2, <1>10 DEF PutWrite
  <2>3. ASSUME Calm PROVE CleanHeld(p)'
    BY <1>1, <1>4, <2>1, <2>2, <2>3 DEF CleanHeld, Halfway, LoneRecord, Paired, HasPayload, HasRecord, Holding
  <2> QED
    BY <1>0, <2>1, <2>3, CleanHolder, CleanNow DEF Holding
<1>11. CASE PutNoRecord(p)
  <2>1. lock' = "free" /\ UNCHANGED <<files, staged>>
    BY <1>11 DEF PutNoRecord, Release, putFrame
  <2>2. ASSUME Calm PROVE Pure'
    <3>1. CASE pc[p] = "put_claim" /\ temps' = temps \ {batch[p]} /\ info' = info
      BY <1>1, <1>4, <2>1, <2>2, <3>1
      DEF CleanHeld, Halfway, LoneRecord, Paired, HasPayload, HasRecord, Holding, Pure
    <3>2. CASE pc[p] = "put_inplace" /\ UNCHANGED <<temps, info>>
      BY <1>1, <1>4, <2>1, <2>2, <3>2
      DEF CleanHeld, Halfway, LoneRecord, Paired, HasPayload, HasRecord, Holding, Pure
    <3>3. CASE pc[p] = "put_write" /\ info' = [info EXCEPT ![name[p]] = NoRecord] /\ temps' = temps
      <4>1. ~HasPayload(name[p]) /\ info'[name[p]].batch = 0
            /\ \A m \in Names \ {name[p]} : info'[m] = info[m]
        BY <1>0, <1>2, <3>3, Nulls DEF PutHolds
      <4> QED
        BY <1>1, <1>2, <1>4, <2>1, <2>2, <3>3, <4>1
        DEF CleanHeld, Halfway, LoneRecord, Paired, HasPayload, HasRecord, Holding, Pure
    <3> QED
      BY <1>11, <3>1, <3>2, <3>3 DEF PutNoRecord, Release, Step
  <2> QED
    BY <1>0, <2>1, <2>2, CleanHolder
<1>12. CASE PutMove(p) \/ PutMoveFails(p) \/ PutCopyFails(p)
  <2>1. lock' = "free" /\ UNCHANGED <<temps, staged>> /\ pc[p] \in {"put_move", "put_copy"}
    BY <1>12 DEF PutMove, PutMoveFails, PutCopyFails, Release, Step, putFrame
  <2>2. \A m \in Names \ {name[p]} : files'[m] = files[m] /\ info'[m] = info[m]
    BY <1>2, <1>12 DEF PutMove, PutMoveFails, PutCopyFails
  <2>3. Paired(name[p])'
    <3> SUFFICES (files'[name[p]].id # 0) <=> (info'[name[p]].batch # 0)
      BY <1>12 DEF Paired, HasPayload, HasRecord, PutMove, PutMoveFails, PutCopyFails, putFrame
    <3>1. CASE PutMove(p)
      <4>1. pc[p] = "put_move" /\ info[name[p]].batch = batch[p] /\ batch[p] # 0
        BY <1>0, <3>1 DEF PutMove, Release, Step, PutHolds, PutRecord, IInv, FreshBatch, BeforeMove
      <4> QED
        BY <1>2, <3>1, <4>1 DEF PutMove, PutPayload
    <3>2. CASE PutMoveFails(p)
      <4>1. pc[p] = "put_move" /\ files[name[p]].id = 0
        BY <1>0, <3>2 DEF PutMoveFails, Release, Step, PutHolds, HasPayload
      <4> QED
        BY <1>2, <3>2, <4>1, Nulls DEF PutMoveFails
    <3>3. CASE PutCopyFails(p)
      BY <1>2, <3>3, Nulls DEF PutCopyFails
    <3> QED
      BY <1>12, <3>1, <3>2, <3>3
  <2>4. ASSUME Calm PROVE Pure'
    <3>1. name'[p] = name[p]
      BY <1>12 DEF PutMove, PutMoveFails, PutCopyFails, putFrame
    <3>2. \A m \in Names \ {name[p]} : Paired(m)'
      BY <1>1, <1>4, <2>1, <2>2, <2>4 DEF CleanHeld, Halfway, LoneRecord, Paired, HasPayload, HasRecord, Holding
    <3>3. \A m : m = name[p] => Paired(m)'
      BY <2>3, <3>1 DEF Paired, HasPayload, HasRecord
    <3> QED
      BY <1>1, <1>4, <2>1, <2>4, <3>2, <3>3 DEF CleanHeld, Holding, Pure
  <2> QED
    BY <1>0, <2>1, <2>4, CleanHolder
<1>13. CASE PutCopy(p) \/ PutCopied(p)
  <2>1. /\ lock' = lock /\ UNCHANGED <<info, temps, staged, name, batch>>
        /\ pc[p] \in {"put_move", "put_copy"} /\ pc'[p] \in {"put_copy", "put_unlink"}
    BY <1>0, <1>13 DEF PutCopy, PutCopied, Step, TypeOK, putFrame, putLocals
  <2>2. /\ \A m \in Names \ {name[p]} : files'[m] = files[m]
        /\ files'[name[p]].id = batch[p] /\ batch[p] # 0 /\ info[name[p]].batch = batch[p]
    <3>1. batch[p] # 0 /\ info[name[p]].batch = batch[p]
      BY <1>0, <2>1 DEF PutHolds, PutRecord, IInv, FreshBatch, BeforeMove
    <3> QED
      BY <1>2, <1>13, <3>1 DEF PutCopy, PutCopied, PutPayload
  <2>3. ASSUME Calm PROVE CleanHeld(p)'
    BY <1>1, <1>4, <2>1, <2>2, <2>3 DEF CleanHeld, Halfway, LoneRecord, Paired, HasPayload, HasRecord, Holding
  <2> QED
    BY <1>0, <2>1, <2>3, CleanHolder, CleanNow DEF Holding
<1>14. CASE PutUnlink(p) \/ PutSourceLeft(p)
  <2>1. pc[p] = "put_unlink" /\ lock' = "free" /\ UNCHANGED <<files, info, temps, staged>>
    BY <1>14 DEF PutUnlink, PutSourceLeft, Release, Step, putFrame
  <2>2. ASSUME Calm PROVE Pure'
    BY <1>1, <1>4, <2>1, <2>2 DEF CleanHeld, Halfway, LoneRecord, Paired, HasPayload, HasRecord, Holding, Pure
  <2> QED
    BY <1>0, <2>1, <2>2, CleanHolder
<1> QED
  BY <1>3, <1>5, <1>6, <1>7, <1>8, <1>9, <1>10, <1>11, <1>12, <1>13, <1>14 DEF PutStep

(* A restore in its section: what it carries at the staging path, the      *)
(* record of a payload that has left.                                      *)
LEMMA RestoreClean ==
  ASSUME IInv, CleanInv, NEW p \in Restorers, RestoreStep(p) PROVE CleanInv'
<1>0. p \in Procs /\ TypeOK /\ RestoreHolds(p)
  BY DEF IInv, Procs, Holds
<1>1. p \notin Putters /\ p \notin Emptiers
  BY ProcAssumption DEF Deleters
<1>2. files \in [Names -> Payload] /\ info \in [Names -> Record] /\ name[p] \in Names
      /\ pc \in [Procs -> Labels] /\ carry \in [Restorers -> 0..Debris]
  BY <1>0 DEF TypeOK
<1>3. CASE RestoreCheck(p) \/ RestoreRefuse(p)
  <2>1. /\ pc[p] = "res_check" /\ pc'[p] \in {"res_lock", "idle"}
        /\ UNCHANGED <<files, info, temps, staged, lock, name, batch, carry, midway>>
        /\ \A q \in Procs \ {p} : pc'[q] = pc[q]
    BY <1>0, <1>2, <1>3 DEF RestoreCheck, RestoreRefuse, Step, resFrame, resLocals, putLocals, empLocals
  <2> QED
    BY <1>0, <2>1, CleanBystander DEF Holding
<1>4. CASE RestoreLock(p)
  BY <1>0, <1>4, CleanAcquire DEF RestoreLock, resFrame
<1>5. ASSUME pc[p] \in Holding, Calm PROVE lock = p /\ CleanHeld(p) /\ temps = {}
  BY <1>0, <1>1, <1>5, CleanNow DEF CleanHeld
<1>6. CASE RestoreVerify(p)
  <2>1. pc[p] = "res_verify" /\ pc'[p] = "res_stage" /\ lock' = lock
        /\ UNCHANGED <<files, info, temps, staged, name, carry>>
    BY <1>0, <1>2, <1>6 DEF RestoreVerify, Step, resFrame, resLocals
  <2>2. ASSUME Calm PROVE CleanHeld(p)'
    BY <1>1, <1>5, <2>1, <2>2 DEF CleanHeld, Halfway, LoneRecord, Paired, HasPayload, HasRecord, Holding
  <2> QED
    BY <1>0, <2>1, <2>2, CleanHolder, CleanNow DEF Holding
<1>7. CASE RestoreChanged(p) \/ RestoreStageFails(p)
  <2>1. pc[p] \in {"res_verify", "res_stage"} /\ lock' = "free"
        /\ UNCHANGED <<files, info, temps, staged>>
    BY <1>7 DEF RestoreChanged, RestoreStageFails, Release, Step, resFrame
  <2>2. ASSUME Calm PROVE Pure'
    BY <1>1, <1>5, <2>1, <2>2 DEF CleanHeld, Halfway, LoneRecord, Paired, HasPayload, HasRecord, Holding, Pure
  <2> QED
    BY <1>0, <2>1, <2>2, CleanHolder
<1>8. CASE RestoreMove(p)
  <2>1. pc[p] = "res_stage" /\ pc'[p] = "res_swap" /\ lock' = lock
        /\ UNCHANGED <<info, temps, name>>
    BY <1>0, <1>2, <1>8 DEF RestoreMove, Step, resFrame
  <2>2. carry'[p] = files[name[p]].file /\ staged' = staged \cup {files[name[p]].file}
    BY <1>2, <1>8 DEF RestoreMove
  <2>3. /\ \A m \in Names \ {name[p]} : files'[m] = files[m]
        /\ files'[name[p]].id = 0
    BY <1>2, <1>8, Nulls DEF RestoreMove
  <2>4. ASSUME Calm PROVE CleanHeld(p)'
    <3>1. temps' = {} /\ staged' = {carry'[p]}
      BY <1>5, <2>1, <2>2, <2>4 DEF CleanHeld, Holding
    <3>2. \A n \in Names \ {name[p]} : Paired(n)'
      BY <1>1, <1>5, <2>1, <2>3, <2>4 DEF CleanHeld, Halfway, LoneRecord, Paired, HasPayload, HasRecord, Holding
    <3> QED
      BY <1>1, <2>1, <2>3, <3>1, <3>2 DEF CleanHeld, Halfway, LoneRecord, HasPayload
  <2> QED
    BY <1>0, <2>1, <2>4, CleanHolder, CleanNow DEF Holding
<1>9. CASE RestoreCopy(p)
  <2>1. pc[p] = "res_stage" /\ pc'[p] = "res_unlink" /\ lock' = lock
        /\ UNCHANGED <<files, info, temps, name>>
    BY <1>0, <1>2, <1>9 DEF RestoreCopy, Step, resFrame
  <2>2. carry'[p] = files[name[p]].file /\ staged' = staged \cup {files[name[p]].file}
    BY <1>2, <1>9 DEF RestoreCopy
  <2>4. ASSUME Calm PROVE CleanHeld(p)'
    <3>1. temps' = {} /\ staged' = {carry'[p]}
      BY <1>5, <2>1, <2>2, <2>4 DEF CleanHeld, Holding
    <3>2. \A n \in Names : Paired(n)'
      BY <1>1, <1>5, <2>1, <2>4 DEF CleanHeld, Halfway, LoneRecord, Paired, HasPayload, HasRecord, Holding
    <3> QED
      BY <1>1, <2>1, <3>1, <3>2 DEF CleanHeld, Halfway, LoneRecord
  <2> QED
    BY <1>0, <2>1, <2>4, CleanHolder, CleanNow DEF Holding
<1>10. CASE RestoreUnlink(p)
  <2>1. pc[p] = "res_unlink" /\ pc'[p] = "res_swap" /\ lock' = lock
        /\ UNCHANGED <<info, temps, staged, name, carry>>
    BY <1>0, <1>2, <1>10 DEF RestoreUnlink, Step, resFrame, resLocals
  <2>2. ASSUME Calm PROVE /\ \A m \in Names \ {name[p]} : files'[m] = files[m]
                          /\ files'[name[p]].id = 0
    BY <1>2, <1>10, <2>2, Nulls DEF RestoreUnlink, Calm
  <2>4. ASSUME Calm PROVE CleanHeld(p)'
    <3>2. \A n \in Names \ {name[p]} : Paired(n)'
      BY <1>1, <1>5, <2>1, <2>2, <2>4 DEF CleanHeld, Halfway, LoneRecord, Paired, HasPayload, HasRecord, Holding
    <3> QED
      BY <1>1, <1>5, <2>1, <2>2, <2>4, <3>2 DEF CleanHeld, Halfway, LoneRecord, HasPayload, Holding
  <2> QED
    BY <1>0, <2>1, <2>4, CleanHolder, CleanNow DEF Holding
<1>11. CASE RestoreSwap(p)
  <2>1. pc[p] = "res_swap" /\ pc'[p] = "res_place" /\ lock' = lock
        /\ UNCHANGED <<files, info, temps, staged, name, carry>>
    BY <1>0, <1>2, <1>11 DEF RestoreSwap, Step, resFrame, resLocals
  <2>4. ASSUME Calm PROVE CleanHeld(p)'
    BY <1>1, <1>5, <2>1, <2>4 DEF CleanHeld, Halfway, LoneRecord, Paired, HasPayload, HasRecord, Holding
  <2> QED
    BY <1>0, <2>1, <2>4, CleanHolder, CleanNow DEF Holding
<1>12. CASE RestorePlace(p)
  <2>1. pc[p] = "res_place" /\ pc'[p] = "res_record" /\ lock' = lock
        /\ staged' = staged \ {carry[p]}
        /\ UNCHANGED <<files, info, temps, name, carry>>
    BY <1>0, <1>2, <1>12 DEF RestorePlace, Step, resFrame, resLocals
  <2>4. ASSUME Calm PROVE CleanHeld(p)'
    <3>1. temps' = {} /\ staged' = {}
      BY <1>5, <2>1, <2>4 DEF CleanHeld, Holding
    <3>2. \A n \in Names \ {name[p]} : Paired(n)'
      BY <1>1, <1>5, <2>1, <2>4 DEF CleanHeld, Halfway, LoneRecord, Paired, HasPayload, HasRecord, Holding
    <3> QED
      BY <1>1, <1>5, <2>1, <2>4, <3>1, <3>2 DEF CleanHeld, Halfway, LoneRecord, HasPayload, Holding
  <2> QED
    BY <1>0, <2>1, <2>4, CleanHolder, CleanNow DEF Holding
<1>13. CASE RestoreUnstage(p)
  BY <1>13 DEF RestoreUnstage, CleanInv, Calm
<1>14. CASE RestoreRecord(p)
  <2>1. pc[p] = "res_record" /\ lock' = "free" /\ UNCHANGED <<files, temps, staged>>
    BY <1>14 DEF RestoreRecord, Release, Step, resFrame
  <2>2. ASSUME Calm PROVE /\ \A m \in Names \ {name[p]} : info'[m] = info[m]
                          /\ info'[name[p]].batch = 0
    BY <1>2, <1>14, <2>2, Nulls DEF RestoreRecord, Calm
  <2>3. ASSUME Calm PROVE Pure'
    <3>1. temps' = {} /\ staged' = {} /\ files[name[p]].id = 0
      BY <1>5, <2>1, <2>3 DEF CleanHeld, Holding, HasPayload
    <3>2. \A n \in Names \ {name[p]} : Paired(n)'
      BY <1>1, <1>5, <2>1, <2>2, <2>3 DEF CleanHeld, Halfway, LoneRecord, Paired, HasPayload, HasRecord, Holding
    <3>3. \A n : n = name[p] => Paired(n)'
      BY <2>1, <2>2, <2>3, <3>1 DEF Paired, HasPayload, HasRecord
    <3> QED
      BY <3>1, <3>2, <3>3 DEF Pure
  <2> QED
    BY <1>0, <2>1, <2>3, CleanHolder
<1> QED
  BY <1>3, <1>4, <1>6, <1>7, <1>8, <1>9, <1>10, <1>11, <1>12, <1>13, <1>14 DEF RestoreStep

(* An rm in its section: the record of a payload it removed.               *)
LEMMA RemoveClean ==
  ASSUME IInv, CleanInv, NEW p \in Removers, RemoveStep(p) PROVE CleanInv'
<1>0. p \in Procs /\ TypeOK /\ RemoveHolds(p)
  BY DEF IInv, Procs, Deleters, Holds
<1>1. p \notin Putters /\ p \notin Emptiers /\ p \notin Restorers
  BY ProcAssumption DEF Deleters
<1>2. files \in [Names -> Payload] /\ info \in [Names -> Record] /\ name[p] \in Names
      /\ pc \in [Procs -> Labels]
  BY <1>0 DEF TypeOK
<1>3. CASE RemoveLock(p)
  BY <1>0, <1>3, CleanAcquire DEF RemoveLock, rmFrame
<1>4. ASSUME pc[p] \in Holding, Calm PROVE lock = p /\ CleanHeld(p) /\ temps = {} /\ staged = {}
  BY <1>0, <1>1, <1>4, CleanNow DEF CleanHeld
<1>5. CASE RemoveVerify(p)
  <2>1. pc[p] = "rm_verify" /\ pc'[p] = "rm_payload" /\ lock' = lock
        /\ UNCHANGED <<files, info, temps, staged, name>>
    BY <1>0, <1>2, <1>5 DEF RemoveVerify, Step, rmFrame
  <2>2. ASSUME Calm PROVE CleanHeld(p)'
    BY <1>1, <1>4, <2>1, <2>2 DEF CleanHeld, Halfway, LoneRecord, Paired, HasPayload, HasRecord, Holding
  <2> QED
    BY <1>0, <2>1, <2>2, CleanHolder, CleanNow DEF Holding
<1>6. CASE RemoveChanged(p) \/ RemoveKept(p)
  <2>1. pc[p] \in {"rm_verify", "rm_payload"} /\ lock' = "free"
        /\ UNCHANGED <<files, info, temps, staged>>
    BY <1>6 DEF RemoveChanged, RemoveKept, Release, Step, rmFrame
  <2>2. ASSUME Calm PROVE Pure'
    BY <1>1, <1>4, <2>1, <2>2 DEF CleanHeld, Halfway, LoneRecord, Paired, HasPayload, HasRecord, Holding, Pure
  <2> QED
    BY <1>0, <2>1, <2>2, CleanHolder
<1>7. CASE RemovePayload(p)
  <2>1. pc[p] = "rm_payload" /\ pc'[p] = "rm_record" /\ lock' = lock
        /\ UNCHANGED <<info, temps, staged, name>>
        /\ \A m \in Names \ {name[p]} : files'[m] = files[m]
    BY <1>0, <1>2, <1>7 DEF RemovePayload, Step, rmFrame
  <2>2. ASSUME Calm PROVE CleanHeld(p)'
    BY <1>1, <1>4, <2>1, <2>2 DEF CleanHeld, Halfway, LoneRecord, Paired, HasPayload, HasRecord, Holding
  <2> QED
    BY <1>0, <2>1, <2>2, CleanHolder, CleanNow DEF Holding
<1>8. CASE RemoveRecord(p)
  <2>1. pc[p] = "rm_record" /\ lock' = "free" /\ UNCHANGED <<files, temps, staged>>
    BY <1>8 DEF RemoveRecord, Release, Step, rmFrame
  <2>2. ASSUME Calm PROVE /\ \A m \in Names \ {name[p]} : info'[m] = info[m]
                          /\ info'[name[p]].batch = 0
    BY <1>2, <1>8, <2>2, Nulls DEF RemoveRecord, Calm
  <2>3. ASSUME Calm PROVE Pure'
    <3>1. temps' = {} /\ staged' = {} /\ files[name[p]].id = 0
      BY <1>0, <1>4, <2>1, <2>3 DEF RemoveHolds, Holding, HasPayload
    <3>2. \A n \in Names \ {name[p]} : Paired(n)'
      BY <1>1, <1>4, <2>1, <2>2, <2>3 DEF CleanHeld, Halfway, LoneRecord, Paired, HasPayload, HasRecord, Holding
    <3>3. \A n : n = name[p] => Paired(n)'
      BY <2>1, <2>2, <2>3, <3>1 DEF Paired, HasPayload, HasRecord
    <3> QED
      BY <3>1, <3>2, <3>3 DEF Pure
  <2> QED
    BY <1>0, <2>1, <2>3, CleanHolder
<1> QED
  BY <1>3, <1>5, <1>6, <1>7, <1>8 DEF RemoveStep

(* An empty in its section: the records of the payloads it removed.        *)
LEMMA EmptyClean ==
  ASSUME IInv, CleanInv, NEW p \in Emptiers, EmptyStep(p) PROVE CleanInv'
<1>0. p \in Procs /\ TypeOK /\ EmptyHolds(p)
  BY DEF IInv, Procs, Deleters, Holds
<1>1. p \notin Putters /\ p \notin Restorers
  BY ProcAssumption DEF Deleters
<1>2. files \in [Names -> Payload] /\ info \in [Names -> Record]
      /\ pc \in [Procs -> Labels] /\ midway \in [Emptiers -> SUBSET Names]
  BY <1>0 DEF TypeOK
<1>3. CASE EmptyCountInfo(p)
  <2>1. /\ pc[p] = "emp_count" /\ pc'[p] = "emp_lock"
        /\ UNCHANGED <<files, info, temps, staged, lock, name, batch, carry, midway>>
        /\ \A q \in Procs \ {p} : pc'[q] = pc[q]
    BY <1>0, <1>2, <1>3 DEF EmptyCountInfo, Step, empFrame, resLocals, putLocals
  <2> QED
    BY <1>0, <2>1, CleanBystander DEF Holding
<1>4. CASE EmptyLock(p)
  BY <1>0, <1>4, CleanAcquire DEF EmptyLock, empFrame
<1>5. ASSUME pc[p] \in Holding, Calm
      PROVE  /\ lock = p /\ temps = {} /\ staged = {}
             /\ \A n \in Names : \/ Paired(n)
                                 \/ pc[p] \in {"emp_wipe", "emp_stop"} /\ n \in midway[p]
  <2>1. lock = p /\ CleanHeld(p) /\ temps = {} /\ staged = {}
    BY <1>0, <1>1, <1>5, CleanNow DEF CleanHeld
  <2>2. pc[p] \notin LoneRecord
    BY <1>0, <1>1, <1>5 DEF EmptyStep, EmptyCountInfo, EmptyLock, EmptyStart, EmptyPayload,
       EmptyKeep, EmptyRecord, EmptyStop, EmptyStopped, EmptyInfo, Acquire, Release, Step, LoneRecord
  <2>3. \A n \in Names : n \in Halfway(p) =>
                           pc[p] \in {"emp_wipe", "emp_stop"} /\ n \in midway[p]
    BY <2>2 DEF Halfway
  <2> QED
    BY <2>1, <2>3 DEF CleanHeld
<1>6. ASSUME lock' = p, pc'[p] \in {"emp_wipe", "emp_stop"}, temps' = {}, staged' = {},
             \A n \in Names : Paired(n)' \/ n \in midway'[p]
      PROVE  CleanHeld(p)'
  BY <1>6 DEF CleanHeld, Halfway
<1>7. CASE EmptyStart(p)
  <2>1. pc[p] = "emp_start" /\ pc'[p] = "emp_wipe" /\ lock' = lock
        /\ UNCHANGED <<files, info, temps, staged>>
    BY <1>0, <1>2, <1>7 DEF EmptyStart, Step, empFrame
  <2>2. ASSUME Calm PROVE CleanHeld(p)'
    BY <1>5, <1>6, <2>1, <2>2 DEF Paired, HasPayload, HasRecord, Holding
  <2> QED
    BY <1>0, <2>1, <2>2, CleanHolder, CleanNow DEF Holding
<1>8. ASSUME NEW n \in Names, EmptyPayload(p, n) PROVE CleanInv'
  <2>1. pc[p] = "emp_wipe" /\ pc'[p] = "emp_wipe" /\ lock' = lock
        /\ UNCHANGED <<info, temps, staged>> /\ midway'[p] = midway[p] \cup {n}
        /\ \A m \in Names \ {n} : files'[m] = files[m]
    BY <1>0, <1>2, <1>8 DEF EmptyPayload, empFrame
  <2>2. ASSUME Calm PROVE CleanHeld(p)'
    <3>1. \A m \in Names : Paired(m)' \/ m \in midway'[p]
      BY <1>5, <2>1, <2>2 DEF Paired, HasPayload, HasRecord, Holding
    <3> QED
      BY <1>5, <1>6, <2>1, <2>2, <3>1 DEF Holding
  <2> QED
    BY <1>0, <2>1, <2>2, CleanHolder, CleanNow DEF Holding
<1>9. ASSUME NEW n \in Names, EmptyKeep(p, n) PROVE CleanInv'
  <2>1. pc[p] = "emp_wipe" /\ pc'[p] = "emp_wipe" /\ lock' = lock
        /\ UNCHANGED <<files, info, temps, staged, midway>>
    BY <1>9 DEF EmptyKeep, empFrame, empLocals
  <2>2. ASSUME Calm PROVE CleanHeld(p)'
    <3>1. \A m \in Names : Paired(m)' \/ m \in midway'[p]
      BY <1>5, <2>1, <2>2 DEF Paired, HasPayload, HasRecord, Holding
    <3> QED
      BY <1>5, <1>6, <2>1, <2>2, <3>1 DEF Holding
  <2> QED
    BY <1>0, <2>1, <2>2, CleanHolder, CleanNow DEF Holding
<1>10. ASSUME NEW n \in Names, EmptyRecord(p, n) PROVE CleanInv'
  <2>1. pc[p] \in {"emp_wipe", "emp_stop"} /\ pc' = pc /\ lock' = lock /\ n \in midway[p]
        /\ UNCHANGED <<files, temps, staged>> /\ midway'[p] = midway[p] \ {n}
    BY <1>0, <1>2, <1>10 DEF EmptyRecord, empFrame
  <2>2. ASSUME Calm PROVE /\ \A m \in Names \ {n} : info'[m] = info[m]
                          /\ info'[n].batch = 0
    BY <1>2, <1>10, <2>2, Nulls DEF EmptyRecord, Calm
  <2>3. ASSUME Calm PROVE CleanHeld(p)'
    <3>1. files[n].id = 0
      BY <1>0, <2>1 DEF EmptyHolds, HasPayload
    <3>2. \A m \in Names \ {n} : Paired(m)' \/ m \in midway'[p]
      BY <1>5, <2>1, <2>2, <2>3 DEF Paired, HasPayload, HasRecord, Holding
    <3>3. \A m : m = n => Paired(m)'
      BY <2>1, <2>2, <2>3, <3>1 DEF Paired, HasPayload, HasRecord
    <3> QED
      BY <1>5, <1>6, <2>1, <2>3, <3>2, <3>3 DEF Holding
  <2> QED
    BY <1>0, <2>1, <2>3, CleanHolder, CleanNow DEF Holding
<1>11. CASE EmptyStop(p)
  <2>1. pc[p] = "emp_wipe" /\ pc'[p] = "emp_stop" /\ lock' = lock
        /\ UNCHANGED <<files, info, temps, staged, midway>>
    BY <1>0, <1>2, <1>11 DEF EmptyStop, Step, empFrame, empLocals
  <2>2. ASSUME Calm PROVE CleanHeld(p)'
    <3>1. \A m \in Names : Paired(m)' \/ m \in midway'[p]
      BY <1>5, <2>1, <2>2 DEF Paired, HasPayload, HasRecord, Holding
    <3> QED
      BY <1>5, <1>6, <2>1, <2>2, <3>1 DEF Holding
  <2> QED
    BY <1>0, <2>1, <2>2, CleanHolder, CleanNow DEF Holding
<1>12. CASE EmptyStopped(p)
  <2>1. pc[p] = "emp_stop" /\ lock' = "free" /\ midway[p] = {}
        /\ UNCHANGED <<files, info, temps, staged>>
    BY <1>12 DEF EmptyStopped, Release, Step, empFrame
  <2>2. ASSUME Calm PROVE Pure'
    BY <1>5, <2>1, <2>2 DEF Paired, HasPayload, HasRecord, Holding, Pure
  <2> QED
    BY <1>0, <2>1, <2>2, CleanHolder
<1>13. CASE EmptyInfo(p)
  <2>1. pc[p] = "emp_wipe" /\ lock' = "free" /\ midway[p] = {}
        /\ UNCHANGED <<files, staged>> /\ temps' \subseteq temps
    BY <1>13 DEF EmptyInfo, Release, Step, empFrame
  <2>2. \A n \in Names : \/ info'[n] = info[n]
                         \/ ~HasPayload(n) /\ info'[n].batch = 0
    BY <1>13, Nulls DEF EmptyInfo
  <2>3. ASSUME Calm PROVE Pure'
    <3>1. temps' = {} /\ staged' = {} /\ \A n \in Names : Paired(n)
      BY <1>5, <2>1, <2>3 DEF Holding
    <3>2. \A n \in Names : Paired(n)'
      BY <2>1, <2>2, <3>1 DEF Paired, HasPayload, HasRecord
    <3> QED
      BY <3>1, <3>2 DEF Pure
  <2> QED
    BY <1>0, <2>1, <2>3, CleanHolder
<1> QED
  BY <1>3, <1>4, <1>7, <1>8, <1>9, <1>10, <1>11, <1>12, <1>13 DEF EmptyStep

(* A repair finds nothing broken in a calm trash; what it takes away is a  *)
(* record of no payload.                                                   *)
LEMMA FixClean ==
  ASSUME IInv, CleanInv, NEW p \in Repairers, FixStep(p) PROVE CleanInv'
<1>0. p \in Procs /\ TypeOK /\ FixHolds(p)
  BY DEF IInv, Procs, Holds
<1>1. p \notin Putters /\ p \notin Restorers /\ p \notin Emptiers
  BY ProcAssumption DEF Deleters
<1>2. files \in [Names -> Payload] /\ info \in [Names -> Record]
      /\ pc \in [Procs -> Labels]
  BY <1>0 DEF TypeOK
<1>3. CASE FixLock(p)
  BY <1>0, <1>3, CleanAcquire DEF FixLock, fixFrame
<1>4. ASSUME pc[p] \in Holding, Calm
      PROVE  lock = p /\ temps = {} /\ staged = {} /\ \A n \in Names : Paired(n)
  <2>1. lock = p /\ CleanHeld(p) /\ temps = {} /\ staged = {}
    BY <1>0, <1>1, <1>4, CleanNow DEF CleanHeld
  <2>2. pc[p] \notin LoneRecord
    BY <1>0, <1>4 DEF FixStep, FixLock, FixVerify, FixDone, FixRecord, FixTemp,
       Acquire, Release, Step, LoneRecord
  <2> QED
    BY <1>1, <2>1, <2>2 DEF CleanHeld, Halfway
<1>5. ASSUME temps' = {}, staged' = {}, \A n \in Names : Paired(n)', pc'[p] = "fix_remove"
      PROVE  CleanHeld(p)'
  BY <1>5 DEF CleanHeld
<1>6. CASE FixVerify(p)
  <2>1. pc[p] = "fix_verify" /\ pc'[p] = "fix_remove" /\ lock' = lock
        /\ UNCHANGED <<files, info, temps, staged>>
    BY <1>0, <1>2, <1>6 DEF FixVerify, Step, fixFrame
  <2>2. ASSUME Calm PROVE CleanHeld(p)'
    BY <1>4, <1>5, <2>1, <2>2 DEF Paired, HasPayload, HasRecord, Holding
  <2> QED
    BY <1>0, <2>1, <2>2, CleanHolder, CleanNow DEF Holding
<1>7. CASE FixDone(p)
  <2>1. pc[p] = "fix_remove" /\ lock' = "free" /\ UNCHANGED <<files, info, temps, staged>>
    BY <1>7 DEF FixDone, Release, Step, fixFrame
  <2>2. ASSUME Calm PROVE Pure'
    BY <1>4, <2>1, <2>2 DEF Paired, HasPayload, HasRecord, Holding, Pure
  <2> QED
    BY <1>0, <2>1, <2>2, CleanHolder
<1>8. ASSUME NEW n \in Names, FixRecord(p, n) PROVE CleanInv'
  <2>1. pc[p] = "fix_remove" /\ pc' = pc /\ lock' = lock /\ n \in todo[p]
        /\ UNCHANGED <<files, temps, staged>>
    BY <1>8 DEF FixRecord, fixFrame
  <2>2. \A m \in Names : \/ info'[m] = info[m]
                         \/ ~HasPayload(m) /\ info'[m].batch = 0
    BY <1>0, <1>2, <1>8, <2>1, Nulls DEF FixRecord, FixHolds
  <2>3. ASSUME Calm PROVE CleanHeld(p)'
    <3>1. \A m \in Names : Paired(m)'
      BY <1>4, <2>1, <2>2, <2>3 DEF Paired, HasPayload, HasRecord, Holding
    <3> QED
      BY <1>4, <1>5, <2>1, <2>3, <3>1 DEF Holding
  <2> QED
    BY <1>0, <2>1, <2>3, CleanHolder, CleanNow DEF Holding
<1>9. ASSUME NEW b \in seenTemps[p], FixTemp(p, b) PROVE CleanInv'
  <2>1. pc[p] = "fix_remove" /\ pc' = pc /\ lock' = lock /\ temps' = temps \ {b}
        /\ UNCHANGED <<files, info, staged>>
    BY <1>9 DEF FixTemp, fixFrame
  <2>2. ASSUME Calm PROVE CleanHeld(p)'
    BY <1>4, <1>5, <2>1, <2>2 DEF Paired, HasPayload, HasRecord, Holding
  <2> QED
    BY <1>0, <2>1, <2>2, CleanHolder, CleanNow DEF Holding
<1> QED
  BY <1>3, <1>6, <1>7, <1>8, <1>9 DEF FixStep

(* A command that starts, or gives up waiting, holds nothing.              *)
LEMMA StartClean ==
  ASSUME IInv, CleanInv, NEW p \in Procs, Start(p) \/ TimeOut(p) PROVE CleanInv'
<1>0. /\ pc \in [Procs -> Labels] /\ name \in [Procs -> Names] /\ batch \in [Putters -> Nat]
  BY DEF IInv, TypeOK
<1>1. /\ pc[p] \in {"idle"} \cup Waiting /\ pc'[p] \in {"idle", "res_check", "emp_count"} \cup Waiting
      /\ \A q \in Procs \ {p} : pc'[q] = pc[q]
  <2>1. CASE Start(p)
    <3>1. PICK to \in {"emp_count"} \cup Waiting \cup {"res_check"} : Step(p, "idle", to)
      BY <2>1 DEF Start, PutBegin, RestoreScan, RemoveScan, EmptyCount, FixScan, Waiting
    <3> QED
      BY <1>0, <3>1 DEF Step
  <2>2. CASE TimeOut(p)
    BY <1>0, <2>2 DEF TimeOut
  <2> QED
    BY <2>1, <2>2
<1>2. \A q \in Procs \ {p} : name'[q] = name[q]
  BY <1>0 DEF Start, PutBegin, RestoreScan, RemoveScan, EmptyCount, FixScan, TimeOut,
     putFrame, empFrame, fixFrame
<1>3. UNCHANGED <<files, info, temps, staged, lock, carry, midway>>
  BY DEF Start, PutBegin, RestoreScan, RemoveScan, EmptyCount, FixScan, TimeOut,
     putFrame, resFrame, rmFrame, empFrame, fixFrame, resLocals, empLocals
<1>4. \A q \in Putters \ {p} : batch'[q] = batch[q]
  BY <1>0 DEF Start, PutBegin, RestoreScan, RemoveScan, EmptyCount, FixScan, TimeOut,
     putFrame, resFrame, rmFrame, empFrame, fixFrame, putLocals
<1> QED
  BY <1>1, <1>2, <1>3, <1>4, CleanBystander DEF Waiting, Holding

LEMMA StepClean == IInv /\ CleanInv /\ [Next]_vars => CleanInv'
<1> SUFFICES ASSUME IInv, CleanInv, [Next]_vars PROVE CleanInv'
  OBVIOUS
<1>1. ASSUME UNCHANGED <<files, info, temps, staged, lock, pc, name, batch, carry, midway>>
      PROVE  CleanInv'
  BY <1>1 DEF CleanInv, Calm, CleanHeld, Halfway, Pure, Paired, HasPayload, HasRecord
<1>2. CASE UNCHANGED vars
  BY <1>1, <1>2 DEF vars, putLocals, resLocals, empLocals
<1>3. ASSUME NEW x \in Path, UserCreate(x) \/ UserUnlink(x) PROVE CleanInv'
  BY <1>1, <1>3 DEF UserCreate, UserUnlink, putLocals, resLocals, empLocals
<1>4. ASSUME NEW p \in Procs, Continue(p) PROVE CleanInv'
  BY <1>4, StartClean, PutClean, RestoreClean, RemoveClean, EmptyClean, FixClean DEF Continue
<1>5. ASSUME NEW p \in Procs, Kill(p) PROVE CleanInv'
  BY <1>5 DEF Kill, CleanInv, Calm
<1> QED
  BY <1>2, <1>3, <1>4, <1>5, StartClean DEF Next

(* With the lock free and no kill and no failure that leaves something     *)
(* behind, records and payloads pair up and no temporary or staged file is *)
(* left, whatever was refused, undone or stopped by Ctrl-C.                *)
THEOREM TrashClean == Spec => []CleanWhenFree
<1>1. Init => CleanInv
  BY ProcAssumption, Nulls DEF Init, CleanInv, Pure, Paired, HasPayload, HasRecord, NoPayload
<1>2. CleanInv => CleanWhenFree
  BY DEF CleanInv, CleanWhenFree, Calm, Pure, Paired
<1> QED
  BY <1>1, <1>2, StepClean, Invariant, PTL DEF Spec

-----------------------------------------------------------------------------
(* TrashSystem implements TrashStore: first RecordsApart, then what each   *)
(* step does to the four views of the store (Pending, Listed, Away, Shown),*)
(* one command at a time.                                                  *)

(* No record is written and no put starts.                                 *)
RecordsOnlyGo ==
  /\ \A n \in Names : info'[n] = info[n] \/ info'[n] = NoRecord
  /\ \A p \in Putters :
       pc'[p] \in BeforeClaim => pc[p] \in BeforeClaim /\ batch'[p] = batch[p]
  /\ stamp <= stamp' /\ stamp' \in Nat

(* Then the records that stay are apart, as they were.                     *)
LEMMA ApartGoes ==
  ASSUME IInv, RecordsApart, RecordsOnlyGo
  PROVE  RecordsApart'
<1>1. /\ stamp \in Nat /\ info \in [Names -> Record]
      /\ \A n \in Names : info[n].batch \in Nat
      /\ \A p \in Putters : batch[p] \in Nat /\ p \in Procs
  BY DEF IInv, TypeOK, Record, Procs
<1>2. \A n \in Names : info'[n].batch <= stamp'
  BY <1>1, Nulls DEF RecordsApart, RecordsOnlyGo
<1>3. ASSUME NEW m \in Names, NEW n \in Names, HasRecord(n)',
             (info[m].batch = info[n].batch)'
      PROVE  m = n
  BY <1>3, Nulls DEF RecordsApart, RecordsOnlyGo, HasRecord
<1>4. ASSUME NEW p \in Putters, pc'[p] \in BeforeClaim, NEW n \in Names
      PROVE  info'[n].batch # batch'[p]
  BY <1>1, <1>4, Nulls
  DEF RecordsApart, RecordsOnlyGo, IInv, FreshBatch, BeforeClaim, BeforeMove
<1> QED BY <1>2, <1>3, <1>4 DEF RecordsApart

(* The record a put writes carries a batch of its own.                     *)
LEMMA ApartComes ==
  ASSUME IInv, RecordsApart, NEW p \in Putters, NEW n \in Names,
         pc[p] \in BeforeClaim, pc'[p] \notin BeforeClaim,
         \A q \in Putters \ {p} : pc'[q] = pc[q],
         \E w \in BOOLEAN : info' = [info EXCEPT ![n] = PutRecord(p, w)],
         UNCHANGED <<batch, stamp>>
  PROVE  RecordsApart'
<1>1. /\ stamp \in Nat /\ info \in [Names -> Record]
      /\ \A m \in Names : info[m].batch \in Nat
      /\ batch[p] \in Nat /\ batch[p] <= stamp
      /\ info'[n].batch = batch[p]
      /\ \A m \in Names \ {n} : info'[m] = info[m]
  BY DEF IInv, TypeOK, Record, PutRecord, FreshBatch
<1>2. \A m \in Names : info[m].batch # batch[p]
  BY DEF RecordsApart
<1>3. \A q \in Putters \ {p} : pc[q] \in BeforeClaim => batch[q] # batch[p]
  BY DEF IInv, FreshBatch, BeforeClaim, BeforeMove
<1>4. \A m \in Names : info'[m].batch <= stamp'
  BY <1>1 DEF RecordsApart
<1>5. ASSUME NEW k \in Names, NEW m \in Names, HasRecord(m)',
             (info[k].batch = info[m].batch)'
      PROVE  k = m
  BY <1>1, <1>2, <1>5 DEF RecordsApart, HasRecord
<1>6. ASSUME NEW q \in Putters, pc'[q] \in BeforeClaim, NEW m \in Names
      PROVE  info'[m].batch # batch'[q]
  BY <1>1, <1>3, <1>6 DEF RecordsApart
<1> QED BY <1>4, <1>5, <1>6 DEF RecordsApart

(* A put writes records with its own batch only, or takes its record back. *)
LEMMA PutApart ==
  ASSUME IInv, IInv', RecordsApart, NEW p \in Putters,
         PutStep(p) \/ \E x \in Path : PutBegin(p, x)
  PROVE  RecordsApart'
<1>1. stamp \in Nat /\ info \in [Names -> Record] /\ p \in Procs
  BY DEF IInv, TypeOK, Procs
<1>2. ASSUME NEW x \in Path, PutBegin(p, x) PROVE RecordsApart'
  <2>1. \A n \in Names : info[n].batch \in Nat /\ info[n].batch <= stamp
    BY <1>1 DEF Record, RecordsApart
  <2>2. \A q \in Putters \ {p} :
          (pc'[q] \in BeforeClaim => pc[q] \in BeforeClaim) /\ batch'[q] = batch[q]
    BY <1>1, <1>2 DEF IInv, TypeOK, PutBegin, Step
  <2>3. batch'[p] = stamp + 1 /\ stamp' = stamp + 1 /\ info' = info
    BY <1>1, <1>2 DEF IInv, TypeOK, PutBegin
  <2>4. ASSUME NEW q \in Putters, pc'[q] \in BeforeClaim, NEW n \in Names
        PROVE  info'[n].batch # batch'[q]
    BY <1>1, <2>1, <2>2, <2>3, <2>4 DEF RecordsApart
  <2> QED BY <1>1, <2>1, <2>3, <2>4 DEF RecordsApart, HasRecord
<1>3. CASE PutLock(p) \/ PutTemp(p) \/ PutUntemp(p) \/ PutNoLinks(p)
  <2>1. RecordsOnlyGo
    BY <1>1, <1>3 DEF IInv, TypeOK, RecordsOnlyGo, BeforeClaim, PutLock, PutTemp,
       PutUntemp, PutNoLinks, Acquire, Step, putLocals, Procs
  <2> QED BY <2>1, ApartGoes
<1>4. CASE PutClaim(p)
  BY <1>1, <1>4, ApartComes
  DEF IInv, TypeOK, PutClaim, Step, BeforeClaim, putLocals, Procs
<1>5. CASE PutInPlace(p)
  BY <1>1, <1>5, ApartComes
  DEF IInv, TypeOK, PutInPlace, Step, BeforeClaim, putLocals, Procs
<1>6. CASE PutWrite(p)
  <2>1. /\ info[name[p]] = PutRecord(p, FALSE)
        /\ info' = [info EXCEPT ![name[p]] = PutRecord(p, TRUE)]
        /\ name[p] \in Names
    BY <1>1, <1>6 DEF IInv, TypeOK, Holds, PutHolds, PutWrite, Step
  <2>2. /\ \A n \in Names : info'[n].batch = info[n].batch
        /\ stamp' = stamp /\ batch' = batch
        /\ \A q \in Putters : pc'[q] \in BeforeClaim => pc[q] \in BeforeClaim
    BY <1>1, <1>6, <2>1
    DEF IInv, TypeOK, PutRecord, PutWrite, Step, BeforeClaim, putLocals, Procs
  <2> QED BY <2>2 DEF RecordsApart, HasRecord
<1>7. CASE \/ PutNoRecord(p) \/ PutMove(p) \/ PutMoveFails(p) \/ PutCopy(p)
           \/ PutCopied(p) \/ PutCopyFails(p) \/ PutUnlink(p) \/ PutSourceLeft(p)
  <2>1. /\ info' = info \/ info' = [info EXCEPT ![name[p]] = NoRecord]
        /\ stamp' = stamp /\ batch' = batch
    BY <1>7 DEF PutNoRecord, PutMove, PutMoveFails, PutCopy, PutCopied,
       PutCopyFails, PutUnlink, PutSourceLeft, putLocals
  <2>2. \E to \in {"idle", "put_copy", "put_unlink"} : pc' = [pc EXCEPT ![p] = to]
    BY <1>7 DEF PutNoRecord, PutMove, PutMoveFails, PutCopy, PutCopied,
       PutCopyFails, PutUnlink, PutSourceLeft, Release, Step
  <2>3. RecordsOnlyGo
    BY <1>1, <2>1, <2>2 DEF IInv, TypeOK, RecordsOnlyGo, BeforeClaim, Procs
  <2> QED BY <2>3, ApartGoes
<1> QED BY <1>2, <1>3, <1>4, <1>5, <1>6, <1>7 DEF PutStep

(* A process that is no put leaves the puts' control alone.                *)
LEMMA OthersApart ==
  ASSUME IInv, IInv', RecordsApart, NEW p \in Procs \ Putters, NEW to,
         pc' = [pc EXCEPT ![p] = to] \/ pc' = pc, batch' = batch,
         \A n \in Names : info'[n] = info[n] \/ info'[n] = NoRecord,
         stamp' = stamp \/ stamp' = stamp + 1
  PROVE  RecordsApart'
<1>1. \A q \in Putters : pc'[q] = pc[q]
  BY DEF IInv, TypeOK, Procs
<1>2. stamp \in Nat /\ stamp' \in Nat /\ stamp <= stamp'
  BY DEF IInv, TypeOK
<1>3. RecordsOnlyGo
  BY <1>1, <1>2 DEF RecordsOnlyGo
<1> QED BY <1>3, ApartGoes

(* What a restore, an rm, an empty or a repair does to the records.        *)
LEMMA RestoreApart ==
  ASSUME IInv, IInv', RecordsApart, NEW p \in Restorers,
         RestoreStep(p) \/ \E n \in Names : RestoreScan(p, n)
  PROVE  RecordsApart'
<1>1. /\ info' = info \/ info' = [info EXCEPT ![name[p]] = NoRecord]
      /\ stamp' = stamp \/ stamp' = stamp + 1
      /\ batch' = batch
  BY DEF RestoreStep, RestoreScan, RestoreCheck, RestoreRefuse, RestoreLock,
     RestoreVerify, RestoreChanged, RestoreMove, RestoreCopy, RestoreStageFails,
     RestoreUnlink, RestoreSwap, RestorePlace, RestoreUnstage, RestoreRecord,
     resFrame, putLocals
<1>2. \E to \in Labels : pc' = [pc EXCEPT ![p] = to]
  BY DEF RestoreStep, RestoreScan, RestoreCheck, RestoreRefuse, RestoreLock,
     RestoreVerify, RestoreChanged, RestoreMove, RestoreCopy, RestoreStageFails,
     RestoreUnlink, RestoreSwap, RestorePlace, RestoreUnstage, RestoreRecord,
     Acquire, Release, Step, Labels, Waiting, Holding
<1>3. \A n \in Names : info'[n] = info[n] \/ info'[n] = NoRecord
  BY <1>1 DEF IInv, TypeOK
<1>4. p \in Procs \ Putters
  BY ProcAssumption DEF Procs
<1> QED BY <1>1, <1>2, <1>3, <1>4, OthersApart

(* An rm or an empty only removes records.                                 *)
LEMMA DeleteApart ==
  ASSUME IInv, IInv', RecordsApart, NEW p \in Deleters,
         \/ p \in Removers /\ (RemoveStep(p) \/ \E n \in Names : RemoveScan(p, n))
         \/ p \in Emptiers /\ (EmptyStep(p) \/ EmptyCount(p))
  PROVE  RecordsApart'
<1>1. /\ \A n \in Names : info'[n] = info[n] \/ info'[n] = NoRecord
      /\ stamp' = stamp /\ batch' = batch
  BY DEF IInv, TypeOK, RemoveStep, RemoveScan, RemoveLock, RemoveVerify,
     RemoveChanged, RemovePayload, RemoveKept, RemoveRecord, EmptyStep, EmptyCount,
     EmptyCountInfo, EmptyLock, EmptyStart, EmptyPayload, EmptyKeep, EmptyRecord,
     EmptyStop, EmptyStopped, EmptyInfo, rmFrame, empFrame, putLocals
<1>2. \/ pc' = pc
      \/ \E to \in Labels : pc' = [pc EXCEPT ![p] = to]
  BY DEF RemoveStep, RemoveScan, RemoveLock, RemoveVerify,
     RemoveChanged, RemovePayload, RemoveKept, RemoveRecord, EmptyStep, EmptyCount,
     EmptyCountInfo, EmptyLock, EmptyStart, EmptyPayload, EmptyKeep, EmptyRecord,
     EmptyStop, EmptyStopped, EmptyInfo, Acquire, Release, Step, Labels, Waiting,
     Holding
<1> QED BY <1>1, <1>2, OthersApart, ProcAssumption DEF Procs, Deleters

(* A repair only removes records.                                          *)
LEMMA FixApart ==
  ASSUME IInv, IInv', RecordsApart, NEW p \in Repairers, FixStep(p) \/ FixScan(p)
  PROVE  RecordsApart'
<1>1. /\ \A n \in Names : info'[n] = info[n] \/ info'[n] = NoRecord
      /\ stamp' = stamp /\ batch' = batch
  BY DEF IInv, TypeOK, FixStep, FixScan, FixLock, FixVerify, FixRecord, FixTemp,
     FixDone, fixFrame, putLocals
<1>2. \/ pc' = pc
      \/ \E to \in Labels : pc' = [pc EXCEPT ![p] = to]
  BY DEF FixStep, FixScan, FixLock, FixVerify, FixRecord, FixTemp, FixDone,
     Acquire, Release, Step, Labels, Waiting, Holding
<1> QED BY <1>1, <1>2, OthersApart, ProcAssumption DEF Procs, Repairers

(* Giving up and being killed write no record.                             *)
LEMMA EndApart ==
  ASSUME IInv, IInv', RecordsApart, NEW p \in Procs, TimeOut(p) \/ Kill(p)
  PROVE  RecordsApart'
<1>1. RecordsOnlyGo
  BY DEF IInv, TypeOK, RecordsOnlyGo, BeforeClaim, TimeOut, Kill, putLocals, Procs
<1> QED BY <1>1, ApartGoes

(* The user writes no record.                                              *)
LEMMA UserApart ==
  ASSUME IInv, IInv', RecordsApart, NEW x \in Path, UserCreate(x) \/ UserUnlink(x)
  PROVE  RecordsApart'
<1>1. RecordsOnlyGo
  BY DEF IInv, TypeOK, RecordsOnlyGo, UserCreate, UserUnlink, putLocals
<1> QED BY <1>1, ApartGoes

(* At every instant, no two records carry the same batch, so no two names  *)
(* show the same item.                                                     *)
LEMMA ApartKept ==
  IInv /\ IInv' /\ RecordsApart /\ [Next]_vars => RecordsApart'
<1> SUFFICES ASSUME IInv, IInv', RecordsApart, [Next]_vars PROVE RecordsApart'
  OBVIOUS
<1>1. CASE UNCHANGED vars
  BY <1>1 DEF vars, putLocals, RecordsApart, HasRecord
<1>2. ASSUME NEW p \in Procs, Start(p) \/ Continue(p) \/ Kill(p)
      PROVE  RecordsApart'
  BY <1>2, PutApart, RestoreApart, DeleteApart, FixApart, EndApart
  DEF Start, Continue, Procs, Deleters
<1>3. ASSUME NEW x \in Path, UserCreate(x) \/ UserUnlink(x) PROVE RecordsApart'
  BY <1>3, UserApart
<1> QED BY <1>1, <1>2, <1>3 DEF Next

(* An empty trash has no records.                                          *)
LEMMA InitApart == Init => RecordsApart
BY Nulls DEF Init, RecordsApart, HasRecord, BeforeClaim, Procs

(* No two records carry one batch, whatever the puts at work: each writes  *)
(* its own batch under one name (trash_put_locked).                        *)
THEOREM BatchesApart == Spec => []RecordsApart
BY Invariant, InitApart, ApartKept, PTL DEF Spec

-----------------------------------------------------------------------------
(* The views, when little changes.                                         *)

(* No name shows another item than before.                                 *)
LEMMA ListedSame ==
  ASSUME \A n \in Names : Shows(n)' <=> Shows(n),
         \A n \in Names : Shows(n) => ItemAt(n)' = ItemAt(n)
  PROVE  Listed' = Listed
<1>1. \A e : e \in Listed' <=> \E n \in Names : Shows(n)' /\ e = ItemAt(n)'
  BY DEF Listed
<1>2. \A e : e \in Listed <=> \E n \in Names : Shows(n) /\ e = ItemAt(n)
  BY DEF Listed
<1> QED BY <1>1, <1>2

(* One name stops showing its item, which no other name shows.             *)
LEMMA ListedGoes ==
  ASSUME IInv, RecordsApart, NEW n \in Names, Shows(n), ~Shows(n)',
         \A m \in Names \ {n} : files'[m] = files[m] /\ info'[m] = info[m]
  PROVE  ItemAt(n) \in Listed /\ Listed' = Listed \ {ItemAt(n)}
<1>1. \A e : e \in Listed' <=> \E m \in Names : Shows(m)' /\ e = ItemAt(m)'
  BY DEF Listed
<1>2. \A e : e \in Listed <=> \E m \in Names : Shows(m) /\ e = ItemAt(m)
  BY DEF Listed
<1>3. \A m \in Names \ {n} : /\ Shows(m)' <=> Shows(m)
                             /\ ItemAt(m)' = ItemAt(m)
  BY DEF Shows, ItemAt, HasRecord
<1>4. \A m \in Names : Shows(m) => ItemAt(m).item = info[m].batch
  <2>1. \A m \in Names : Shows(m) => HasPayload(m) /\ HasRecord(m)
    BY RealFiles DEF IInv, TrashOrder, PayloadShape, Shows, HasPayload, NoPayload
  <2> QED BY <2>1 DEF IInv, TrashOrder, SamePut, ItemAt
<1>5. \A m \in Names \ {n} : Shows(m) => ItemAt(m) # ItemAt(n)
  BY <1>4 DEF RecordsApart, Shows
<1> QED BY <1>1, <1>2, <1>3, <1>5

(* One name that showed nothing shows an item.                             *)
LEMMA ListedComes ==
  ASSUME NEW n \in Names, ~Shows(n), Shows(n)',
         \A m \in Names \ {n} : files'[m] = files[m] /\ info'[m] = info[m]
  PROVE  Listed' = Listed \cup {ItemAt(n)'}
<1>1. \A e : e \in Listed' <=> \E m \in Names : Shows(m)' /\ e = ItemAt(m)'
  BY DEF Listed
<1>2. \A e : e \in Listed <=> \E m \in Names : Shows(m) /\ e = ItemAt(m)
  BY DEF Listed
<1>3. \A m \in Names \ {n} : /\ Shows(m)' <=> Shows(m)
                             /\ ItemAt(m)' = ItemAt(m)
  BY DEF Shows, ItemAt, HasRecord
<1> QED BY <1>1, <1>2, <1>3

(* Records without a whole payload come and go unseen.                     *)
LEMMA ListedUnseen ==
  ASSUME IInv, \A n \in Names : \/ files'[n] = files[n] /\ info'[n] = info[n]
                                \/ ~Shows(n) /\ ~Shows(n)'
  PROVE  Listed' = Listed
<1>1. \A n \in Names : Shows(n)' <=> Shows(n)
  BY DEF Shows, HasRecord
<1>2. \A n \in Names : Shows(n) => ItemAt(n)' = ItemAt(n)
  BY DEF ItemAt
<1> QED BY <1>1, <1>2, ListedSame

(* The processes of one command that do not move leave its view alone.     *)
LEMMA PendingSame ==
  ASSUME \A q \in Putters : /\ pc'[q] \in Bringing <=> pc[q] \in Bringing
                            /\ pc[q] \in Bringing => batch'[q] = batch[q]
  PROVE  Pending' = Pending
<1>1. \A i : i \in Pending' <=>
               \E q \in Putters : pc'[q] \in Bringing /\ i = batch'[q]
  BY DEF Pending, Bringing, BeforeMove
<1>2. \A i : i \in Pending <=>
               \E q \in Putters : pc[q] \in Bringing /\ i = batch[q]
  BY DEF Pending
<1> QED BY <1>1, <1>2

(* The same items are away when no restore moves.                          *)
LEMMA AwaySame ==
  ASSUME \A q \in Restorers : HasAway(q)' <=> HasAway(q),
         \A q \in Restorers : HasAway(q) => AwayOf(q)' = AwayOf(q)
  PROVE  Away' = Away
<1>1. \A e : e \in Away' <=> \E q \in Restorers : HasAway(q)' /\ e = AwayOf(q)'
  BY DEF Away
<1>2. \A e : e \in Away <=> \E q \in Restorers : HasAway(q) /\ e = AwayOf(q)
  BY DEF Away
<1> QED BY <1>1, <1>2

(* The same items are shown when no deletion moves.                        *)
LEMMA ShownSame ==
  ASSUME counted' = counted,
         \A q \in Deleters : pc'[q] = "idle" <=> pc[q] = "idle"
  PROVE  Shown' = Shown
BY DEF Shown

(* A process that is no restore leaves what is away alone; one that is no  *)
(* put, what is pending; one that is no deletion, what is shown.           *)
LEMMA NotPut ==
  ASSUME batch' = batch, \A q \in Putters : pc'[q] = pc[q]
  PROVE  Pending' = Pending
BY PendingSame

(* Nothing is taken or returned when no restore moves.                     *)
LEMMA NotRestore ==
  ASSUME rec' = rec \/ \A q \in Restorers : rec'[q] = rec[q], carry' = carry,
         \A q \in Restorers : pc'[q] = pc[q]
  PROVE  Away' = Away
<1>1. \A q \in Restorers : HasAway(q)' <=> HasAway(q)
  BY DEF HasAway
<1>2. \A q \in Restorers : HasAway(q) => AwayOf(q)' = AwayOf(q)
  BY DEF AwayOf
<1> QED BY <1>1, <1>2, AwaySame

(* Nothing more is shown when no deletion moves.                           *)
LEMMA NotDelete ==
  ASSUME counted' = counted, \A q \in Deleters : pc'[q] = pc[q]
  PROVE  Shown' = Shown
BY ShownSame

-----------------------------------------------------------------------------
(* The steps of the store, in the views.                                   *)
StoreStep == [Store!Next]_(Store!vars)

(* Nothing, or only what deletions show, has changed.                      *)
LEMMA QuietStep ==
  ASSUME UNCHANGED <<stamp, Pending, Listed, Away>>, Shown' \in SUBSET Nat
  PROVE  StoreStep
BY DEF StoreStep, Store!Next, Store!Show

(* A put ends without an item.                                             *)
LEMMA AbortStep ==
  ASSUME NEW i \in Pending, Pending' = Pending \ {i},
         UNCHANGED <<stamp, Listed, Away, Shown>>
  PROVE  StoreStep
BY DEF StoreStep, Store!Next, Store!Abort

(* A put brings its item.                                                  *)
LEMMA EnterStep ==
  ASSUME NEW e \in [item : Pending, path : Path, file : File],
         Pending' = Pending \ {e.item}, Listed' = Listed \cup {e},
         UNCHANGED <<stamp, Away, Shown>>
  PROVE  StoreStep
BY DEF StoreStep, Store!Next, Store!Enter

(* A restore takes an item.                                                *)
LEMMA TakeStep ==
  ASSUME NEW e \in Listed, Listed' = Listed \ {e}, Away' = Away \cup {e},
         UNCHANGED <<stamp, Pending, Shown>>
  PROVE  StoreStep
BY DEF StoreStep, Store!Next, Store!Take

(* A deletion takes an item it showed.                                     *)
LEMMA DeleteStep ==
  ASSUME NEW e \in Listed, e.item \in Shown, Listed' = Listed \ {e},
         UNCHANGED <<stamp, Pending, Away, Shown>>
  PROVE  StoreStep
BY DEF StoreStep, Store!Next, Store!Delete

(* A restore keeps the item it has.                                        *)
LEMMA KeepStep ==
  ASSUME NEW e \in Away, Away' = Away \ {e},
         UNCHANGED <<stamp, Pending, Listed, Shown>>
  PROVE  StoreStep
BY DEF StoreStep, Store!Next, Store!Keep

(* A restore puts its item back.                                           *)
LEMMA ReturnStep ==
  ASSUME NEW e \in Away, Away' = Away \ {e}, Listed' = Listed \cup {e},
         stamp' = stamp + 1, UNCHANGED <<Pending, Shown>>
  PROVE  StoreStep
BY DEF StoreStep, Store!Next, Store!Return

(* Shown stays a set of identities.                                        *)
LEMMA ShownType == ASSUME IInv PROVE Shown \in SUBSET Nat
BY DEF IInv, TypeOK, Shown

-----------------------------------------------------------------------------
(* What a put does to the views of the other commands: nothing.            *)
LEMMA PutLeaves ==
  ASSUME IInv, NEW p \in Putters, PutStep(p) \/ \E x \in Path : PutBegin(p, x)
  PROVE  /\ Away' = Away /\ Shown' = Shown
         /\ \A q \in Putters \ {p} : pc'[q] = pc[q] /\ batch'[q] = batch[q]
<1>1. /\ rec' = rec /\ carry' = carry /\ counted' = counted
      /\ \A q \in Procs \ {p} : pc'[q] = pc[q]
      /\ \A q \in Putters \ {p} : batch'[q] = batch[q]
  BY DEF IInv, TypeOK, PutStep, PutBegin, PutLock, PutTemp, PutClaim, PutUntemp,
     PutNoLinks, PutInPlace, PutWrite, PutNoRecord, PutMove, PutMoveFails, PutCopy,
     PutCopied, PutCopyFails, PutUnlink, PutSourceLeft, Acquire, Release, Step,
     putFrame, putLocals, resLocals, asked
<1>2. /\ \A q \in Restorers \cup Deleters : q \in Procs \ {p}
      /\ \A q \in Putters : q \in Procs
  BY ProcAssumption DEF Procs, Deleters
<1> QED BY <1>1, <1>2, NotRestore, NotDelete

(* The batch of a put that moves on is nobody else's among those to come.  *)
LEMMA PendingGoes ==
  ASSUME IInv, NEW p \in Putters, pc[p] \in Bringing, pc'[p] \notin Bringing,
         \A q \in Putters \ {p} : pc'[q] = pc[q] /\ batch'[q] = batch[q]
  PROVE  batch[p] \in Pending /\ Pending' = Pending \ {batch[p]}
<1>1. \A q \in Putters \ {p} : pc[q] \in Bringing => batch[q] # batch[p]
  <2> SUFFICES ASSUME NEW q \in Putters \ {p}, pc[q] \in Bringing
               PROVE  batch[q] # batch[p]
    OBVIOUS
  <2>1. /\ p \in Procs /\ q \in Procs /\ name[p] \in Names /\ name[q] \in Names
    BY DEF IInv, TypeOK, Procs
  <2>2. CASE pc[p] \in BeforeMove /\ pc[q] \in BeforeMove
    BY <2>2 DEF IInv, FreshBatch
  <2>3. CASE pc[p] = "put_copy" /\ pc[q] \in BeforeMove
    <3>1. files[name[p]].id = batch[p]
      BY <2>1, <2>3 DEF IInv, Holds, PutHolds
    <3> QED BY <2>1, <2>3, <3>1 DEF IInv, FreshBatch
  <2>4. CASE pc[p] \in BeforeMove /\ pc[q] = "put_copy"
    <3>1. files[name[q]].id = batch[q]
      BY <2>1, <2>4 DEF IInv, Holds, PutHolds
    <3> QED BY <2>1, <2>4, <3>1 DEF IInv, FreshBatch
  <2>5. CASE pc[p] = "put_copy" /\ pc[q] = "put_copy"
    BY <2>1, <2>5, HolderHasLock DEF Holding
  <2> QED BY <2>2, <2>3, <2>4, <2>5 DEF Bringing
<1>2. \A i : i \in Pending' <=>
               \E q \in Putters : pc'[q] \in Bringing /\ i = batch'[q]
  BY DEF Pending, Bringing, BeforeMove
<1>3. \A i : i \in Pending <=>
               \E q \in Putters : pc[q] \in Bringing /\ i = batch[q]
  BY DEF Pending
<1> QED BY <1>1, <1>2, <1>3

(* An operand is moved under a name that showed nothing.                   *)
LEMMA PutEnters ==
  ASSUME IInv, RecordsApart, NEW p \in Putters, NEW f, NEW n \in Names,
         pc[p] \in Bringing, pc'[p] \notin Bringing, ~Shows(n),
         info[n] = PutRecord(p, TRUE), batch[p] # 0, info' = info,
         files' = [files EXCEPT ![n] = PutPayload(p, f)], f \in 1..Debris,
         \A q \in Putters \ {p} : pc'[q] = pc[q] /\ batch'[q] = batch[q],
         Away' = Away, Shown' = Shown, stamp' = stamp
  PROVE  StoreStep
<1>1. /\ at[p] \in Path /\ files \in [Names -> Payload]
      /\ p \in Procs
  BY DEF IInv, TypeOK, Procs
<1>2. batch[p] \in Pending /\ Pending' = Pending \ {batch[p]}
  BY PendingGoes
<1>3. files'[n] = PutPayload(p, f)
  BY <1>1
<1>4. CASE f \in File
  <2> DEFINE e == [item |-> batch[p], path |-> at[p], file |-> f]
  <2>1. Shows(n)' /\ ItemAt(n)' = e
    BY <1>3, <1>4 DEF Shows, ItemAt, HasRecord, PutRecord, PutPayload
  <2>2. Listed' = Listed \cup {e}
    BY <1>1, <2>1, ListedComes
  <2>3. e \in [item : Pending, path : Path, file : File] /\ e.item = batch[p]
    BY <1>1, <1>2, <1>4
  <2> HIDE DEF e
  <2> QED BY <1>2, <2>2, <2>3, EnterStep
<1>5. CASE f \notin File
  <2>1. ~Shows(n)'
    BY <1>3, <1>5 DEF Shows, PutPayload
  <2>2. Listed' = Listed
    BY <1>1, <2>1, ListedUnseen
  <2> QED BY <1>2, <2>2, AbortStep
<1> QED BY <1>4, <1>5

(* A put's steps: most are not seen, one brings the item, or the put ends  *)
(* without it.                                                             *)
LEMMA PutRefines ==
  ASSUME IInv, IInv', RecordsApart, NEW p \in Putters,
         PutStep(p) \/ \E x \in Path : PutBegin(p, x)
  PROVE  StoreStep
<1>1. /\ p \in Procs /\ name[p] \in Names /\ at[p] \in Path
      /\ files \in [Names -> Payload] /\ info \in [Names -> Record]
      /\ pc \in [Procs -> Labels] /\ batch \in [Putters -> Nat]
      /\ live[at[p]] \in 0..Debris
      /\ Shown' \in SUBSET Nat
  BY ShownType DEF IInv, TypeOK, Procs, Shown
<1>2. /\ Away' = Away /\ Shown' = Shown
      /\ \A q \in Putters \ {p} : pc'[q] = pc[q] /\ batch'[q] = batch[q]
  BY PutLeaves
<1>3. \A n \in Names : ~HasPayload(n) => ~Shows(n) /\ files[n].file \notin File
  BY RealFiles DEF IInv, TrashOrder, PayloadShape, HasPayload, Shows
<1>4. \A n \in Names : ~HasRecord(n) => ~Shows(n)
  BY DEF Shows
<1>5. ASSUME NEW x \in Path, PutBegin(p, x) PROVE StoreStep
  <2>1. /\ pc[p] = "idle" /\ pc'[p] = "put_lock"
        /\ batch'[p] = stamp' /\ stamp' = stamp + 1 /\ stamp \in Nat
        /\ files' = files /\ info' = info
    BY <1>1, <1>5 DEF IInv, TypeOK, PutBegin, Step
  <2>2. Listed' = Listed
    BY <2>1, ListedUnseen
  <2>3. Pending' = Pending \cup {stamp'}
    <3>1. \A i : i \in Pending' <=>
                   \E q \in Putters : pc'[q] \in Bringing /\ i = batch'[q]
      BY DEF Pending, Bringing, BeforeMove
    <3>2. \A i : i \in Pending <=>
                   \E q \in Putters : pc[q] \in Bringing /\ i = batch[q]
      BY DEF Pending
    <3> QED BY <1>2, <2>1, <3>1, <3>2 DEF Bringing, BeforeMove
  <2> QED BY <1>2, <2>1, <2>2, <2>3 DEF StoreStep, Store!Next, Store!Begin
<1>6. CASE PutLock(p) \/ PutTemp(p) \/ PutUntemp(p) \/ PutNoLinks(p)
  <2>1. /\ pc[p] \in Bringing /\ pc'[p] \in Bringing
        /\ UNCHANGED <<stamp, batch, files, info>>
    BY <1>1, <1>6 DEF PutLock, PutTemp, PutUntemp, PutNoLinks, Acquire, Step,
       Bringing, BeforeMove, putLocals
  <2>2. Listed' = Listed /\ Pending' = Pending
    BY <1>2, <2>1, ListedUnseen, PendingSame
  <2> QED BY <1>1, <1>2, <2>1, <2>2, QuietStep
<1>7. ASSUME NEW n \in Names, ~HasPayload(n), info' = [info EXCEPT ![n] = info'[n]],
             UNCHANGED <<stamp, batch, files>>,
             pc[p] \in Bringing, pc'[p] \in Bringing \cup {"idle"}
      PROVE  StoreStep
  <2>1. ~Shows(n)'
    BY <1>3, <1>7 DEF Shows
  <2>2. Listed' = Listed
    BY <1>1, <1>3, <1>7, <2>1, ListedUnseen
  <2>3. CASE pc'[p] \in Bringing
    BY <1>1, <1>2, <1>7, <2>2, <2>3, QuietStep, PendingSame
  <2>4. CASE pc'[p] = "idle"
    BY <1>2, <1>7, <2>2, <2>4, PendingGoes, AbortStep DEF Bringing, BeforeMove
  <2> QED BY <1>7, <2>3, <2>4
<1>8. CASE PutClaim(p) \/ PutInPlace(p)
  <2>1. PICK n \in Names : /\ FirstFree(n)
                           /\ \E w \in BOOLEAN :
                                info' = [info EXCEPT ![n] = PutRecord(p, w)]
    BY <1>8 DEF PutClaim, PutInPlace
  <2>2. /\ ~HasPayload(n) /\ info' = [info EXCEPT ![n] = info'[n]]
        /\ UNCHANGED <<stamp, batch, files>>
        /\ pc[p] \in Bringing /\ pc'[p] \in Bringing
    BY <1>1, <1>8, <2>1 DEF PutClaim, PutInPlace, Step, FirstFree, Claimable,
       Bringing, BeforeMove, putLocals
  <2> QED BY <1>7, <2>2
<1>9. CASE PutWrite(p) \/ PutNoRecord(p)
  <2>1. pc[p] = "put_write" => ~HasPayload(name[p])
    BY <1>1 DEF IInv, Holds, PutHolds
  <2>2. /\ UNCHANGED <<stamp, batch, files>>
        /\ pc[p] \in Bringing /\ pc'[p] \in Bringing \cup {"idle"}
    BY <1>1, <1>9 DEF PutWrite, PutNoRecord, Release, Step, Bringing, BeforeMove,
       putLocals
  <2>3. CASE pc[p] = "put_write"
    <3>1. info' = [info EXCEPT ![name[p]] = info'[name[p]]]
      BY <1>1, <1>9, <2>3 DEF PutWrite, PutNoRecord, Release, Step
    <3> QED BY <1>1, <1>7, <2>1, <2>2, <2>3, <3>1
  <2>4. CASE pc[p] # "put_write"
    <3>1. info' = info /\ pc'[p] = "idle"
      BY <1>1, <1>9, <2>4 DEF PutWrite, PutNoRecord, Release, Step
    <3>2. Listed' = Listed
      BY <2>2, <3>1, ListedUnseen
    <3> QED BY <1>2, <2>2, <3>1, <3>2, PendingGoes, AbortStep
        DEF Bringing, BeforeMove
  <2> QED BY <2>3, <2>4
<1>10. CASE PutMoveFails(p)
  <2>1. /\ ~HasPayload(name[p]) /\ pc[p] \in Bringing /\ pc'[p] = "idle"
        /\ UNCHANGED <<stamp, batch, files>>
        /\ info' = [info EXCEPT ![name[p]] = info'[name[p]]]
    BY <1>1, <1>10 DEF IInv, Holds, PutHolds, PutMoveFails, Release, Step,
       Bringing, BeforeMove, putLocals
  <2> QED BY <1>1, <1>7, <2>1
<1>11. CASE PutMove(p)
  <2>1. /\ info[name[p]] = PutRecord(p, TRUE) /\ batch[p] # 0
        /\ ~HasPayload(name[p])
    BY <1>1, <1>11 DEF IInv, Holds, PutHolds, FreshBatch, BeforeMove, PutMove,
       Release, Step
  <2>2. /\ pc[p] \in Bringing /\ pc'[p] \notin Bringing
        /\ live[at[p]] \in 1..Debris
        /\ UNCHANGED <<info, stamp>>
        /\ files' = [files EXCEPT ![name[p]] = PutPayload(p, live[at[p]])]
    BY <1>1, <1>11, BoundAssumption
    DEF PutMove, Release, Step, Bringing, BeforeMove, Nothing, Debris
  <2> QED BY <1>1, <1>2, <1>3, <2>1, <2>2, PutEnters
<1>12. CASE PutCopy(p)
  <2>1. /\ ~HasPayload(name[p]) /\ pc[p] \in Bringing /\ pc'[p] \in Bringing
        /\ UNCHANGED <<info, stamp, batch>>
        /\ files' = [files EXCEPT ![name[p]] = PutPayload(p, Debris)]
    BY <1>1, <1>12 DEF PutCopy, Step, Bringing, BeforeMove, putLocals
  <2>2. \A n \in Names : \/ files'[n] = files[n] /\ info'[n] = info[n]
                         \/ ~Shows(n) /\ ~Shows(n)'
    BY <1>1, <1>3, <2>1, RealFiles DEF Shows, PutPayload
  <2> QED BY <1>1, <1>2, <2>1, <2>2, ListedUnseen, PendingSame, QuietStep
<1>13. CASE PutCopied(p)
  <2>1. /\ files[name[p]].file = Debris /\ info[name[p]] = PutRecord(p, TRUE)
        /\ batch[p] # 0
    BY <1>1, <1>13 DEF IInv, Holds, PutHolds, PutCopied, Step
  <2>2. ~Shows(name[p])
    BY <2>1, RealFiles DEF Shows
  <2>3. /\ pc[p] \in Bringing /\ pc'[p] \notin Bringing
        /\ live[at[p]] \in 1..Debris
        /\ UNCHANGED <<info, stamp>>
        /\ files' = [files EXCEPT ![name[p]] = PutPayload(p, live[at[p]])]
    BY <1>1, <1>13, BoundAssumption
    DEF PutCopied, Step, Bringing, BeforeMove, Nothing, Debris
  <2> QED BY <1>1, <1>2, <2>1, <2>2, <2>3, PutEnters
<1>14. CASE PutCopyFails(p)
  <2>1. /\ files[name[p]].file = Debris /\ pc[p] \in Bringing
        /\ pc'[p] = "idle" /\ UNCHANGED <<stamp, batch>>
        /\ files' = [files EXCEPT ![name[p]] = NoPayload]
        /\ info' = [info EXCEPT ![name[p]] = NoRecord]
    BY <1>1, <1>14 DEF IInv, Holds, PutHolds, PutCopyFails, Release, Step,
       Bringing, BeforeMove, putLocals
  <2>2. \A n \in Names : \/ files'[n] = files[n] /\ info'[n] = info[n]
                         \/ ~Shows(n) /\ ~Shows(n)'
    BY <1>1, <2>1, RealFiles DEF Shows
  <2>3. Listed' = Listed
    BY <2>2, ListedUnseen
  <2> QED BY <1>2, <2>1, <2>3, PendingGoes, AbortStep DEF Bringing, BeforeMove
<1>15. CASE PutUnlink(p) \/ PutSourceLeft(p)
  <2>1. /\ pc[p] \notin Bringing /\ pc'[p] \notin Bringing
        /\ UNCHANGED <<files, info, stamp, batch>>
    BY <1>1, <1>15 DEF PutUnlink, PutSourceLeft, Release, Step, Bringing,
       BeforeMove, putLocals
  <2> QED BY <1>1, <1>2, <2>1, ListedUnseen, PendingSame, QuietStep
<1> QED
  BY <1>5, <1>6, <1>8, <1>9, <1>10, <1>11, <1>12, <1>13, <1>14, <1>15 DEF PutStep

-----------------------------------------------------------------------------
(* What a restore does to the views of the other commands: nothing.        *)
LEMMA RestoreLeaves ==
  ASSUME IInv, NEW p \in Restorers,
         RestoreStep(p) \/ \E n \in Names : RestoreScan(p, n)
  PROVE  /\ Pending' = Pending /\ Shown' = Shown
         /\ \A q \in Restorers \ {p} :
              pc'[q] = pc[q] /\ rec'[q] = rec[q] /\ carry'[q] = carry[q]
<1>1. /\ batch' = batch /\ counted' = counted
      /\ \A q \in Procs \ {p} : pc'[q] = pc[q]
  BY DEF IInv, TypeOK, RestoreStep, RestoreScan, RestoreCheck, RestoreRefuse,
     RestoreLock, RestoreVerify, RestoreChanged, RestoreMove, RestoreCopy,
     RestoreStageFails, RestoreUnlink, RestoreSwap, RestorePlace, RestoreUnstage,
     RestoreRecord, Acquire, Release, Step, resFrame, putLocals, asked
<1>2. \A q \in Restorers \ {p} : rec'[q] = rec[q] /\ carry'[q] = carry[q]
  BY DEF IInv, TypeOK, RestoreStep, RestoreScan, RestoreCheck, RestoreRefuse,
     RestoreLock, RestoreVerify, RestoreChanged, RestoreMove, RestoreCopy,
     RestoreStageFails, RestoreUnlink, RestoreSwap, RestorePlace, RestoreUnstage,
     RestoreRecord, resLocals
<1>3. /\ \A q \in Putters \cup Deleters : q \in Procs \ {p}
      /\ \A q \in Restorers : q \in Procs
  BY ProcAssumption DEF Procs, Deleters
<1> QED BY <1>1, <1>2, <1>3, NotPut, NotDelete

(* An item comes into a restore's hands, or leaves them: it is the only    *)
(* one away, as the restore has the lock.                                  *)
LEMMA AwayComes ==
  ASSUME NEW p \in Restorers, ~HasAway(p), HasAway(p)',
         \A q \in Restorers \ {p} :
           pc'[q] = pc[q] /\ rec'[q] = rec[q] /\ carry'[q] = carry[q]
  PROVE  Away' = Away \cup {AwayOf(p)'}
<1>1. \A e : e \in Away' <=> \E q \in Restorers : HasAway(q)' /\ e = AwayOf(q)'
  BY DEF Away
<1>2. \A e : e \in Away <=> \E q \in Restorers : HasAway(q) /\ e = AwayOf(q)
  BY DEF Away
<1>3. \A q \in Restorers \ {p} : /\ HasAway(q)' <=> HasAway(q)
                                 /\ AwayOf(q)' = AwayOf(q)
  BY DEF HasAway, AwayOf
<1> QED BY <1>1, <1>2, <1>3

(* The item leaves its restore's hands.                                    *)
LEMMA AwayGoes ==
  ASSUME IInv, NEW p \in Restorers, HasAway(p), ~HasAway(p)',
         \A q \in Restorers \ {p} :
           pc'[q] = pc[q] /\ rec'[q] = rec[q] /\ carry'[q] = carry[q]
  PROVE  AwayOf(p) \in Away /\ Away' = Away \ {AwayOf(p)}
<1>1. \A e : e \in Away' <=> \E q \in Restorers : HasAway(q)' /\ e = AwayOf(q)'
  BY DEF Away
<1>2. \A e : e \in Away <=> \E q \in Restorers : HasAway(q) /\ e = AwayOf(q)
  BY DEF Away
<1>3. p \in Procs /\ \A q \in Restorers : q \in Procs
  BY DEF Procs
<1>4. lock = p
  BY <1>3, HolderHasLock DEF HasAway, Holding
<1>5. \A q \in Restorers \ {p} : ~HasAway(q)
  BY <1>3, <1>4, HolderHasLock DEF HasAway, Holding
<1>6. \A q \in Restorers \ {p} : ~HasAway(q)'
  BY <1>5 DEF HasAway
<1> QED BY <1>1, <1>2, <1>5, <1>6

(* A restore keeps what it has in its hands, if anything.                  *)
LEMMA AwayStays ==
  ASSUME NEW p \in Restorers, HasAway(p)' <=> HasAway(p),
         HasAway(p) => AwayOf(p)' = AwayOf(p),
         \A q \in Restorers \ {p} :
           pc'[q] = pc[q] /\ rec'[q] = rec[q] /\ carry'[q] = carry[q]
  PROVE  Away' = Away
BY AwaySame DEF HasAway, AwayOf

(* A restore takes the payload under its name out of files/.               *)
LEMMA RestoreTakes ==
  ASSUME IInv, RecordsApart, NEW p \in Restorers, NEW n \in Names,
         info[n] = rec[p], rec[p].batch # 0, rec[p].whole, HasPayload(n),
         ~HasAway(p), pc'[p] = "res_swap", carry'[p] = files[n].file,
         files'[n].file \notin File, \A m \in Names \ {n} : files'[m] = files[m],
         \A q \in Restorers \ {p} :
           pc'[q] = pc[q] /\ rec'[q] = rec[q] /\ carry'[q] = carry[q],
         UNCHANGED <<info, rec, stamp>>, Pending' = Pending, Shown' = Shown
  PROVE  StoreStep
<1>1. ~Shows(n)'
  BY DEF Shows
<1>2. CASE files[n].file \in File
  <2>1. Shows(n)
    BY <1>2 DEF Shows, HasRecord
  <2>2. ItemAt(n) \in Listed /\ Listed' = Listed \ {ItemAt(n)}
    BY <1>1, <2>1, ListedGoes
  <2>3. HasRecord(n) /\ files[n].item = rec[p].batch
    BY DEF IInv, TrashOrder, SamePut, HasRecord
  <2>4. HasAway(p)' /\ AwayOf(p)' = ItemAt(n)
    BY <1>2, <2>3 DEF HasAway, AwayOf, ItemAt
  <2>5. Away' = Away \cup {ItemAt(n)}
    BY <2>4, AwayComes
  <2> QED BY <2>2, <2>5, TakeStep
<1>3. CASE files[n].file \notin File
  <2>1. ~Shows(n)
    BY <1>3 DEF Shows
  <2>2. Listed' = Listed
    BY <1>1, <2>1, ListedUnseen
  <2>3. ~HasAway(p)'
    BY <1>3 DEF HasAway
  <2>4. Away' = Away
    BY <2>3, AwayStays
  <2> QED BY <2>2, <2>4, ShownType, QuietStep
<1> QED BY <1>2, <1>3

(* A restore's steps: it takes the item, keeps it or returns it.           *)
LEMMA RestoreRefines ==
  ASSUME IInv, IInv', RecordsApart, NEW p \in Restorers,
         RestoreStep(p) \/ \E n \in Names : RestoreScan(p, n)
  PROVE  StoreStep
<1>1. /\ p \in Procs /\ name[p] \in Names /\ rec[p] \in Record
      /\ files \in [Names -> Payload] /\ info \in [Names -> Record]
      /\ pc \in [Procs -> Labels] /\ carry \in [Restorers -> 0..Debris]
      /\ Shown \in SUBSET Nat
  BY ShownType DEF IInv, TypeOK, Procs
<1>2. /\ Pending' = Pending /\ Shown' = Shown
      /\ \A q \in Restorers \ {p} :
           pc'[q] = pc[q] /\ rec'[q] = rec[q] /\ carry'[q] = carry[q]
  BY RestoreLeaves
<1>3. RestoreHolds(p)
  BY <1>1 DEF IInv, Holds
<1>4. \A n \in Names : files[n].file \in File => HasPayload(n)
  BY RealFiles DEF IInv, TrashOrder, PayloadShape, HasPayload
<1>5. CASE \/ \E n \in Names : RestoreScan(p, n)
           \/ RestoreCheck(p) \/ RestoreRefuse(p) \/ RestoreLock(p)
           \/ RestoreVerify(p) \/ RestoreChanged(p) \/ RestoreCopy(p)
           \/ RestoreStageFails(p)
  <2>1. /\ UNCHANGED <<files, info, stamp>>
        /\ pc[p] \notin {"res_swap", "res_place"}
        /\ pc'[p] \notin {"res_swap", "res_place"}
    BY <1>1, <1>5 DEF RestoreScan, RestoreCheck, RestoreRefuse, RestoreLock,
       RestoreVerify, RestoreChanged, RestoreCopy, RestoreStageFails, Acquire,
       Release, Step
  <2>2. ~HasAway(p) /\ ~HasAway(p)'
    BY <2>1 DEF HasAway
  <2>3. Away' = Away /\ Listed' = Listed
    BY <1>2, <2>1, <2>2, AwayStays, ListedUnseen
  <2> QED BY <1>1, <1>2, <2>1, <2>3, QuietStep
<1>6. CASE RestoreMove(p)
  <2>1. /\ pc[p] = "res_stage" /\ pc'[p] = "res_swap"
        /\ carry'[p] = files[name[p]].file
        /\ files' = [files EXCEPT ![name[p]] = NoPayload]
        /\ UNCHANGED <<info, rec, stamp>>
    BY <1>1, <1>6 DEF RestoreMove, Step
  <2>2. /\ info[name[p]] = rec[p] /\ rec[p].batch # 0 /\ rec[p].whole
        /\ HasPayload(name[p]) /\ ~HasAway(p)
    BY <1>3, <2>1 DEF RestoreHolds, HasAway
  <2>3. files'[name[p]].file \notin File
    BY <1>1, <2>1, RealFiles
  <2> QED BY <1>1, <1>2, <2>1, <2>2, <2>3, RestoreTakes
<1>7. CASE RestoreUnlink(p)
  <2>1. /\ pc[p] = "res_unlink" /\ pc'[p] = "res_swap" /\ carry' = carry
        /\ \A m \in Names \ {name[p]} : files'[m] = files[m]
        /\ files'[name[p]].file \in {NoPayload.file, Debris}
        /\ UNCHANGED <<info, rec, stamp>>
    BY <1>1, <1>7 DEF RestoreUnlink, Step, resLocals, Payload
  <2>2. /\ info[name[p]] = rec[p] /\ rec[p].batch # 0 /\ rec[p].whole
        /\ HasPayload(name[p]) /\ ~HasAway(p)
        /\ carry'[p] = files[name[p]].file
    BY <1>3, <2>1 DEF RestoreHolds, HasAway
  <2>3. files'[name[p]].file \notin File
    BY <2>1, RealFiles
  <2> QED BY <1>1, <1>2, <2>1, <2>2, <2>3, RestoreTakes
<1>8. CASE RestoreSwap(p)
  <2>1. /\ pc[p] = "res_swap" /\ pc'[p] = "res_place"
        /\ UNCHANGED <<files, info, carry, rec, stamp>>
    BY <1>1, <1>8 DEF RestoreSwap, Step, resLocals
  <2>2. (HasAway(p)' <=> HasAway(p)) /\ AwayOf(p)' = AwayOf(p)
    BY <2>1 DEF HasAway, AwayOf
  <2> QED BY <1>1, <1>2, <2>1, <2>2, AwayStays, ListedUnseen, QuietStep
<1>9. ASSUME pc[p] \in {"res_swap", "res_place"},
             pc'[p] \notin {"res_swap", "res_place"},
             UNCHANGED <<files, info, stamp>>
      PROVE  StoreStep
  <2>1. ~HasAway(p)' /\ Listed' = Listed
    BY <1>9, ListedUnseen DEF HasAway
  <2>2. CASE HasAway(p)
    BY <1>2, <1>9, <2>1, <2>2, AwayGoes, KeepStep
  <2>3. CASE ~HasAway(p)
    BY <1>1, <1>2, <1>9, <2>1, <2>3, AwayStays, QuietStep
  <2> QED BY <2>2, <2>3
<1>10. CASE RestorePlace(p)
  BY <1>1, <1>9, <1>10 DEF RestorePlace, Step
<1>11. CASE RestoreUnstage(p)
  <2>1. /\ pc[p] \in {"res_swap", "res_place"} /\ pc'[p] = "idle" /\ info' = info
        /\ ~HasAway(p)'
    BY <1>1, <1>11 DEF RestoreUnstage, Release, Step, HasAway
  <2>2. CASE UNCHANGED <<files, stamp>>
    BY <1>9, <2>1, <2>2
  <2>3. CASE files' = [files EXCEPT ![name[p]] =
                [file |-> carry[p], item |-> rec[p].batch, id |-> stamp + 1]]
             /\ stamp' = stamp + 1
    <3>1. /\ info[name[p]] = rec[p] /\ rec[p].batch # 0 /\ rec[p].whole
          /\ HasPayload(name[p]) => files[name[p]].file = Debris
      BY <1>3, <2>1 DEF RestoreHolds
    <3>2. ~Shows(name[p])
      BY <1>1, <1>4, <3>1, RealFiles DEF Shows
    <3>3. PICK n \in Names : n = name[p]
      BY <1>1
    <3>4. /\ files'[n].file = carry[p] /\ files'[n].item = rec[p].batch
          /\ \A m \in Names \ {n} : files'[m] = files[m]
      BY <1>1, <2>3, <3>3
    <3>5. CASE carry[p] \in File
      <4>1. HasAway(p) /\ Shows(n)' /\ ItemAt(n)' = AwayOf(p)
        BY <2>1, <3>1, <3>3, <3>4, <3>5
        DEF HasAway, Shows, HasRecord, ItemAt, AwayOf
      <4>2. Listed' = Listed \cup {AwayOf(p)}
        BY <2>1, <3>2, <3>3, <3>4, <4>1, ListedComes
      <4> QED BY <1>2, <2>1, <2>3, <4>1, <4>2, AwayGoes, ReturnStep
    <3>6. CASE carry[p] \notin File
      <4>1. ~HasAway(p) /\ ~Shows(n)'
        BY <3>4, <3>6 DEF HasAway, Shows
      <4>2. Listed' = Listed /\ Away' = Away
        BY <1>2, <2>1, <3>2, <3>3, <3>4, <4>1, ListedUnseen, AwayStays
      <4> QED BY <1>2, <2>3, <4>2 DEF StoreStep, Store!Next, Store!Tick
    <3> QED BY <3>5, <3>6
  <2> QED BY <1>11, <2>2, <2>3 DEF RestoreUnstage
<1>12. CASE RestoreRecord(p)
  <2>1. /\ pc[p] = "res_record" /\ pc'[p] = "idle" /\ UNCHANGED <<files, stamp>>
        /\ info' = info \/ info' = [info EXCEPT ![name[p]] = NoRecord]
    BY <1>1, <1>12 DEF RestoreRecord, Release, Step
  <2>2. files[name[p]].file \notin File
    BY <1>1, <1>3, <1>4, <2>1, RealFiles DEF RestoreHolds
  <2>3. \A n \in Names : \/ files'[n] = files[n] /\ info'[n] = info[n]
                         \/ ~Shows(n) /\ ~Shows(n)'
    BY <1>1, <2>1, <2>2 DEF Shows
  <2>4. ~HasAway(p) /\ ~HasAway(p)'
    BY <2>1 DEF HasAway
  <2> QED BY <1>1, <1>2, <2>1, <2>3, <2>4, ListedUnseen, AwayStays, QuietStep
<1> QED
  BY <1>5, <1>6, <1>7, <1>8, <1>10, <1>11, <1>12 DEF RestoreStep

-----------------------------------------------------------------------------
(* What a deletion does to the views of puts and restores: nothing.        *)
LEMMA DeleteLeaves ==
  ASSUME IInv, NEW p \in Deleters,
         \/ p \in Removers /\ (RemoveStep(p) \/ \E n \in Names : RemoveScan(p, n))
         \/ p \in Emptiers /\ (EmptyStep(p) \/ EmptyCount(p))
  PROVE  Pending' = Pending /\ Away' = Away /\ stamp' = stamp
<1>1. /\ batch' = batch /\ carry' = carry /\ stamp' = stamp
      /\ \A q \in Procs \ {p} : pc'[q] = pc[q]
  BY DEF IInv, TypeOK, RemoveStep, RemoveScan, RemoveLock, RemoveVerify,
     RemoveChanged, RemovePayload, RemoveKept, RemoveRecord, EmptyStep, EmptyCount,
     EmptyCountInfo, EmptyLock, EmptyStart, EmptyPayload, EmptyKeep, EmptyRecord,
     EmptyStop, EmptyStopped, EmptyInfo, Acquire, Release, Step, rmFrame, empFrame,
     putLocals, resLocals
<1>2. \A q \in Restorers : q # p /\ q \in Procs
  BY ProcAssumption DEF Procs, Deleters
<1>3. \A q \in Putters : q # p /\ q \in Procs
  BY ProcAssumption DEF Procs, Deleters
<1>4. \A q \in Restorers : rec'[q] = rec[q]
  BY <1>2 DEF IInv, TypeOK, RemoveStep, RemoveScan, RemoveLock, RemoveVerify,
     RemoveChanged, RemovePayload, RemoveKept, RemoveRecord, EmptyStep, EmptyCount,
     EmptyCountInfo, EmptyLock, EmptyStart, EmptyPayload, EmptyKeep, EmptyRecord,
     EmptyStop, EmptyStopped, EmptyInfo, empFrame
<1> QED BY <1>1, <1>2, <1>3, <1>4, NotPut, NotRestore

(* A deletion takes the payload under a name whose item it showed.         *)
LEMMA DeleteTakes ==
  ASSUME IInv, IInv', RecordsApart, NEW p \in Deleters, NEW n \in Names,
         pc[p] # "idle", pc'[p] # "idle",
         \A q \in Procs \ {p} : pc'[q] = pc[q],
         HasPayload(n) /\ HasRecord(n) => files[n].item \in counted[p],
         files' = [files EXCEPT ![n] = NoPayload],
         UNCHANGED <<info, counted, stamp>>,
         Pending' = Pending, Away' = Away
  PROVE  StoreStep
<1>1. /\ p \in Procs /\ files \in [Names -> Payload]
      /\ \A q \in Deleters : q \in Procs
  BY DEF IInv, TypeOK, Procs
<1>2. Shown' = Shown
  BY <1>1, ShownSame
<1>3. ~Shows(n)' /\ \A m \in Names \ {n} : files'[m] = files[m]
  BY <1>1, RealFiles DEF Shows
<1>4. CASE Shows(n)
  <2>1. ItemAt(n) \in Listed /\ Listed' = Listed \ {ItemAt(n)}
    BY <1>3, <1>4, ListedGoes
  <2>2. HasPayload(n) /\ HasRecord(n)
    BY <1>4, RealFiles DEF IInv, TrashOrder, PayloadShape, HasPayload, Shows
  <2>3. ItemAt(n).item \in Shown
    BY <2>2 DEF ItemAt, Shown
  <2> QED BY <1>2, <2>1, <2>3, DeleteStep
<1>5. CASE ~Shows(n)
  <2>1. Listed' = Listed
    BY <1>3, <1>5, ListedUnseen
  <2> QED BY <1>2, <2>1, ShownType, QuietStep
<1> QED BY <1>4, <1>5

(* A step of a deletion that deletes nothing whole.                        *)
LEMMA DeleteQuiet ==
  ASSUME IInv, IInv',
         \A n \in Names : \/ files'[n] = files[n] /\ info'[n] = info[n]
                          \/ files[n].file \notin File /\ files' = files,
         Pending' = Pending, Away' = Away, stamp' = stamp
  PROVE  StoreStep
<1>1. Shown' \in SUBSET Nat
  BY DEF IInv, TypeOK, Shown
<1>2. Listed' = Listed
  BY ListedUnseen DEF Shows
<1> QED BY <1>1, <1>2, QuietStep

(* An rm deletes the item it showed.                                       *)
LEMMA RemoveRefines ==
  ASSUME IInv, IInv', RecordsApart, NEW p \in Removers,
         RemoveStep(p) \/ \E n \in Names : RemoveScan(p, n)
  PROVE  StoreStep
<1>1. /\ p \in Procs /\ p \in Deleters /\ name[p] \in Names
      /\ files \in [Names -> Payload] /\ info \in [Names -> Record]
      /\ pc \in [Procs -> Labels]
      /\ RemoveHolds(p)
  BY DEF IInv, TypeOK, Procs, Deleters, Holds
<1>2. Pending' = Pending /\ Away' = Away /\ stamp' = stamp
  BY <1>1, DeleteLeaves
<1>3. CASE RemovePayload(p)
  <2>1. /\ pc[p] = "rm_payload" /\ pc'[p] = "rm_record"
        /\ \A q \in Procs \ {p} : pc'[q] = pc[q]
        /\ files' = [files EXCEPT ![name[p]] = NoPayload]
        /\ UNCHANGED <<info, counted>>
    BY <1>1, <1>3 DEF RemovePayload, Step
  <2>2. HasPayload(name[p]) /\ HasRecord(name[p]) =>
          files[name[p]].item \in counted[p]
    BY <1>1, <2>1 DEF RemoveHolds, IInv, TrashOrder, SamePut, HasRecord
  <2> QED BY <1>1, <1>2, <2>1, <2>2, DeleteTakes
<1>4. CASE RemoveRecord(p)
  <2>1. /\ files' = files /\ pc[p] = "rm_record"
        /\ info' = info \/ info' = [info EXCEPT ![name[p]] = NoRecord]
    BY <1>4 DEF RemoveRecord, Release, Step
  <2>2. files[name[p]].file \notin File
    BY <1>1, <2>1, RealFiles
    DEF RemoveHolds, IInv, TrashOrder, PayloadShape, HasPayload
  <2> QED BY <1>1, <1>2, <2>1, <2>2, DeleteQuiet
<1>5. CASE \/ \E n \in Names : RemoveScan(p, n)
           \/ RemoveLock(p) \/ RemoveVerify(p) \/ RemoveChanged(p) \/ RemoveKept(p)
  BY <1>2, <1>5, DeleteQuiet
  DEF RemoveScan, RemoveLock, RemoveVerify, RemoveChanged, RemoveKept
<1> QED BY <1>3, <1>4, <1>5 DEF RemoveStep

(* An empty deletes items it counted, one at a time.                       *)
LEMMA EmptyRefines ==
  ASSUME IInv, IInv', RecordsApart, NEW p \in Emptiers, EmptyStep(p) \/ EmptyCount(p)
  PROVE  StoreStep
<1>1. /\ p \in Procs /\ p \in Deleters
      /\ files \in [Names -> Payload] /\ info \in [Names -> Record]
      /\ pc \in [Procs -> Labels]
      /\ EmptyHolds(p)
  BY DEF IInv, TypeOK, Procs, Deleters, Holds
<1>2. Pending' = Pending /\ Away' = Away /\ stamp' = stamp
  BY <1>1, DeleteLeaves
<1>3. \A n \in Names : ~HasPayload(n) => files[n].file \notin File
  BY RealFiles DEF IInv, TrashOrder, PayloadShape, HasPayload
<1>4. ASSUME NEW n \in Names, EmptyPayload(p, n) PROVE StoreStep
  <2>1. /\ pc[p] = "emp_wipe" /\ pc' = pc /\ n \in todo[p]
        /\ files' = [files EXCEPT ![n] = NoPayload]
        /\ UNCHANGED <<info, counted>>
    BY <1>4 DEF EmptyPayload
  <2>2. HasPayload(n) => files[n].item \in counted[p]
    BY <1>1, <2>1 DEF EmptyHolds, SawPayload
  <2> QED BY <1>1, <1>2, <2>1, <2>2, DeleteTakes
<1>5. ASSUME NEW n \in Names, EmptyRecord(p, n) PROVE StoreStep
  <2>1. /\ files' = files /\ pc[p] \in {"emp_wipe", "emp_stop"} /\ n \in midway[p]
        /\ info' = info \/ info' = [info EXCEPT ![n] = NoRecord]
    BY <1>5 DEF EmptyRecord
  <2>2. files[n].file \notin File
    BY <1>1, <1>3, <2>1 DEF EmptyHolds
  <2> QED BY <1>1, <1>2, <2>1, <2>2, DeleteQuiet
<1>6. CASE EmptyInfo(p)
  <2>1. files' = files
    BY <1>6 DEF EmptyInfo
  <2>2. \A n \in Names : info'[n] = info[n] \/ files[n].file \notin File
    BY <1>1, <1>3, <1>6 DEF EmptyInfo
  <2> QED BY <1>2, <2>1, <2>2, DeleteQuiet
<1>7. CASE \/ EmptyCount(p) \/ EmptyCountInfo(p) \/ EmptyLock(p) \/ EmptyStart(p)
           \/ (\E n \in Names : EmptyKeep(p, n)) \/ EmptyStop(p) \/ EmptyStopped(p)
  BY <1>2, <1>7, DeleteQuiet
  DEF EmptyCount, EmptyCountInfo, EmptyLock, EmptyStart, EmptyKeep, EmptyStop,
      EmptyStopped
<1> QED BY <1>4, <1>5, <1>6, <1>7 DEF EmptyStep

(* A repair is never seen: it removes what no list shows.                  *)
LEMMA FixRefines ==
  ASSUME IInv, IInv', NEW p \in Repairers, FixStep(p) \/ FixScan(p)
  PROVE  StoreStep
<1>1. /\ UNCHANGED <<batch, carry, rec, counted, stamp, files>>
      /\ \A q \in Procs \ {p} : pc'[q] = pc[q]
  BY DEF IInv, TypeOK, FixStep, FixScan, FixLock, FixVerify, FixRecord, FixTemp,
     FixDone, Acquire, Release, Step, fixFrame, putLocals, resLocals, asked
<1>2. \A q \in Putters \cup Restorers : q \in Procs \ {p}
  BY ProcAssumption DEF Procs
<1>3. Pending' = Pending /\ Away' = Away
  BY <1>1, <1>2, NotPut, NotRestore
<1>4. FixHolds(p) /\ info \in [Names -> Record]
  BY DEF IInv, TypeOK, Holds, Procs
<1>5. \A n \in Names : ~HasPayload(n) => files[n].file \notin File
  BY RealFiles DEF IInv, TrashOrder, PayloadShape, HasPayload
<1>6. \A n \in Names : info'[n] = info[n] \/ files[n].file \notin File
  BY <1>4, <1>5 DEF FixStep, FixScan, FixLock, FixVerify, FixRecord, FixTemp,
     FixDone, fixFrame, FixHolds
<1> QED BY <1>1, <1>3, <1>6, DeleteQuiet

(* A process that gives up or is killed ends its put without an item, or   *)
(* leaves with the item it had away, or stops showing.                     *)
LEMMA EndRefines ==
  ASSUME IInv, IInv', NEW p \in Procs, TimeOut(p) \/ Kill(p)
  PROVE  StoreStep
<1>1. /\ UNCHANGED <<files, info, batch, carry, rec, counted, stamp>>
      /\ pc[p] # "idle" /\ pc'[p] = "idle"
      /\ \A q \in Procs \ {p} : pc'[q] = pc[q]
  BY DEF IInv, TypeOK, TimeOut, Kill, Waiting, putLocals, resLocals, asked
<1>2. Listed' = Listed
  BY <1>1, ListedUnseen
<1>3. /\ \A q \in Putters : q \in Procs /\ q \notin Restorers /\ q \notin Deleters
      /\ \A q \in Restorers : q \in Procs /\ q \notin Deleters
      /\ \A q \in Deleters : q \in Procs
  BY ProcAssumption DEF Procs, Deleters
<1>4. CASE p \in Putters
  <2>1. Away' = Away /\ Shown' = Shown
    BY <1>1, <1>3, <1>4, NotRestore, NotDelete
  <2>2. CASE pc[p] \in Bringing
    BY <1>1, <1>2, <1>3, <1>4, <2>1, <2>2, PendingGoes, AbortStep
    DEF Bringing, BeforeMove
  <2>3. CASE pc[p] \notin Bringing
    <3>1. Pending' = Pending
      BY <1>1, <1>3, <2>3, PendingSame DEF Bringing, BeforeMove
    <3> QED BY <1>1, <1>2, <2>1, <3>1, ShownType, QuietStep
  <2> QED BY <2>2, <2>3
<1>5. CASE p \in Restorers
  <2>1. Pending' = Pending /\ Shown' = Shown /\ ~HasAway(p)'
    BY <1>1, <1>3, <1>5, NotPut, NotDelete DEF HasAway
  <2>2. CASE HasAway(p)
    BY <1>1, <1>2, <1>3, <1>5, <2>1, <2>2, AwayGoes, KeepStep
  <2>3. CASE ~HasAway(p)
    BY <1>1, <1>2, <1>3, <1>5, <2>1, <2>3, AwayStays, ShownType, QuietStep
  <2> QED BY <2>2, <2>3
<1>6. CASE p \notin Putters \cup Restorers
  BY <1>1, <1>3, <1>6, NotPut, NotRestore, DeleteQuiet
<1> QED BY <1>4, <1>5, <1>6

(* The user's own file operations are not seen either.                     *)
LEMMA UserRefines ==
  ASSUME IInv, NEW x \in Path, UserCreate(x) \/ UserUnlink(x)
  PROVE  StoreStep
<1>1. UNCHANGED <<files, info, batch, carry, rec, counted, stamp, pc>>
  BY DEF UserCreate, UserUnlink, putLocals, resLocals, asked
<1> QED BY <1>1, ListedUnseen, NotPut, NotRestore, NotDelete, ShownType, QuietStep

-----------------------------------------------------------------------------

(* An empty trash is an empty store.                                       *)
LEMMA InitRefines == Init => Store!Init
BY Nulls, RealFiles DEF Init, Store!Init, Pending, Bringing, BeforeMove, Listed,
   Shows, Away, HasAway, Shown, Procs, Deleters

(* Every step of the system is a step of the store, or is not seen.        *)
LEMMA StepRefines == IInv /\ IInv' /\ RecordsApart /\ [Next]_vars => StoreStep
<1> SUFFICES ASSUME IInv, IInv', RecordsApart, [Next]_vars PROVE StoreStep
  OBVIOUS
<1>1. CASE UNCHANGED vars
  <2>1. UNCHANGED <<files, info, batch, carry, rec, counted, stamp, pc>>
    BY <1>1 DEF vars, putLocals, resLocals, asked
  <2> QED
    BY <2>1, ListedUnseen, NotPut, NotRestore, NotDelete, ShownType, QuietStep
<1>2. ASSUME NEW p \in Procs, Start(p) \/ Continue(p) \/ Kill(p) PROVE StoreStep
  BY <1>2, PutRefines, RestoreRefines, RemoveRefines, EmptyRefines, FixRefines,
     EndRefines DEF Start, Continue
<1>3. ASSUME NEW x \in Path, UserCreate(x) \/ UserUnlink(x) PROVE StoreStep
  BY <1>3, UserRefines
<1> QED BY <1>1, <1>2, <1>3 DEF Next

(* The trash of TrashSystem, with every command at once and kills at any   *)
(* instant, is the simple store: items enter once and whole, leave by a    *)
(* restore or by a deletion that showed them, and come back unchanged.     *)
THEOREM StoreImplemented == Spec => ImplementsStore
<1>1. Init => Store!Init
  BY InitRefines
<1>2. IInv /\ IInv' /\ RecordsApart /\ [Next]_vars => [Store!Next]_(Store!vars)
  BY StepRefines DEF StoreStep
<1> QED BY <1>1, <1>2, Invariant, BatchesApart, PTL
        DEF Spec, ImplementsStore, Store!Spec
=============================================================================
