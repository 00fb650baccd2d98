------------------------------ MODULE MCTotal ------------------------------
(***************************************************************************)
(* TrashTotal on small instances: two commands of any kind at once, two    *)
(* items and a clock whose window is a tick or two.                        *)
(***************************************************************************)
EXTENDS TrashTotal, TLC

Symmetry == Permutations(Procs) \cup Permutations(Item)

(* No step reads a local of a command before the command sets it, and a    *)
(* total whose stamp has passed never becomes current again.               *)
Local(f, unset) ==
  [p \in Procs |-> IF pc[p] \in {"idle", "log"} THEN unset ELSE f[p]]
View ==
  <<payloads, records, mtime, now, lock, pc, hurt,
    Local(item, NoItem), Local(todo, {}), Local(before, NoTotal),
    IF total # NoTotal /\ total.stamp # mtime THEN NoTotal ELSE total>>
=============================================================================
