---------------------------- MODULE TrashRefines ----------------------------
(***************************************************************************)
(* TrashSystem implements TrashStore: what the store promises, read off    *)
(* the directories and the program counters.                               *)
(***************************************************************************)
EXTENDS TrashInv

(* What `list` shows under the name n: a whole payload with its record.    *)
Shows(n) == HasRecord(n) /\ info[n].whole /\ files[n].file \in File
ItemAt(n) ==
  [item |-> files[n].item, path |-> info[n].path, file |-> files[n].file]
Listed == {ItemAt(n) : n \in {m \in Names : Shows(m)}}

(* A put has brought nothing while its copy is not whole.                  *)
Bringing == BeforeMove \cup {"put_copy"}
Pending == {batch[p] : p \in {q \in Putters : pc[q] \in Bringing}}

(* The payload a restore has taken out of files/ and not placed yet.       *)
HasAway(p) == pc[p] \in {"res_swap", "res_place"} /\ carry[p] \in File
AwayOf(p) == [item |-> rec[p].batch, path |-> rec[p].path, file |-> carry[p]]
Away == {AwayOf(p) : p \in {q \in Restorers : HasAway(q)}}

(* An rm or an empty that runs has shown what it counted.                  *)
Shown == UNION {counted[p] : p \in {q \in Deleters : pc[q] # "idle"}}

Store == INSTANCE TrashStore WITH
  last <- stamp, pending <- Pending, listed <- Listed, away <- Away,
  shown <- Shown

(* The batch of a record is its own: a put that has no record yet has a    *)
(* batch no record has.  So no two names show the same item.               *)
BeforeClaim == {"put_lock", "put_temp", "put_claim", "put_inplace"}
RecordsApart ==
  /\ \A n \in Names : info[n].batch <= stamp
  /\ \A m, n \in Names : HasRecord(n) /\ info[m].batch = info[n].batch => m = n
  /\ \A p \in Putters : pc[p] \in BeforeClaim =>
       \A n \in Names : info[n].batch # batch[p]

(* Whatever the commands do at once, and wherever they are killed, a user  *)
(* sees the simple store: items enter once and whole, leave by a restore   *)
(* or by a deletion that showed them, and come back unchanged.             *)
ImplementsStore == Store!Spec
=============================================================================
