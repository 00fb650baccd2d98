----------------------------- MODULE MCDirSizes -----------------------------
(* DirSizes for TLC. *)
EXTENDS DirSizes, TLC

Symmetry == Permutations(Procs) \cup Permutations(Names)

(* Nothing is asked of a name once it is in `fooled`, for good.            *)
SomeAnswered == fooled # Names
=============================================================================
