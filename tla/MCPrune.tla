------------------------------ MODULE MCPrune ------------------------------
(***************************************************************************)
(* Prune on small instances.  A trash is named for its place in the order  *)
(* of the paths.                                                           *)
(***************************************************************************)
EXTENDS Prune, TLC

Symmetry == Permutations(Procs)

(* Bound: what lies there at first is in the first root, undated or of the *)
(* first date.  What is put beside it is in either root, of either date.   *)
OldFirst == \A i \in items : i.id <= Old => i.root = 1 /\ i.epoch < 2

(* A local is seen only where a step or a property can still read it.      *)
At(f, places, unset) == [p \in Procs |-> IF pc[p] \in places THEN f[p] ELSE unset]
Of(f, command, unset) ==
  [p \in Procs |-> IF pc[p] # "idle" /\ cmd[p] = command THEN f[p] ELSE unset]
Busy == {"put", "check", "looked", "dry", "age", "short", "lock", "prune"}
View ==
  <<items, made, Min({free, Floor}), lock, runs, pc, At(cmd, Busy, "none"), passing, over, have,
    At(roots, Busy, {}), At(want, {"dry", "lock"}, {}),
    At(max, {"dry", "lock", "prune"}, 0), At(plan, {"age", "prune"}, {}),
    [p \in Procs |-> Of(seen, "empty", {})[p] \cap {i.id : i \in items}],
    Of(gone, "empty", 0), At(sum, {"dry"}, 0),
    Of(batch, "put", 0), At(used, Busy, 0), At(deleted, Busy, 0),
    At(errors, {"lock", "prune"}, FALSE), At(stop, Busy, FALSE),
    At(refused, Busy, FALSE), Of(changed, "empty", FALSE)>>
=============================================================================
