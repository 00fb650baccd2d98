----------------------------- MODULE MCRecycle -----------------------------
(* Recycle for TLC: a file, the free name beside it, a path elsewhere.     *)
EXTENDS Recycle, TLC

MCPaths == {"a", "a1", "far"}
MCBeside == [a |-> "a1", a1 |-> "a1", far |-> "far"]
Symmetry == Permutations(Procs)

(* What a later step or a property of the run reads: a command's locals    *)
(* while they are in use, and one set of the files that may be lost.       *)
Use(live, value) == IF live THEN <<value>> ELSE <<>>
Locals(p) ==
  <<op[p], pc[p], rows[p], cur[p], carry[p],
    Use(pc[p] \in {"send", "note"}, <<since[p], mine[p]>>),
    Use(pc[p] \in {"send", "note", "trim"}, src[p]),
    Use(op[p] \notin {"none", "restore"}, seen[p]),
    Use(pc[p] \in {"plan", "next", "clear"}, policy[p]),
    Use(pc[p] \in {"open", "copy"}, fresh[p]),
    [i \in DOMAIN dest[p] \cap ({r.id : r \in rows[p]} \cup {cur[p].id}) |->
       dest[p][i]]>>
(* Only a command that is yet to begin reads lastPut; the clock, that and  *)
(* a put the shell has not answered.                                       *)
Later == runs < MaxRuns
View ==
  <<disk, stamp, created, runs, Use(Later, lastPut),
    Use(Later \/ \E p \in Procs : pc[p] = "send", now), gone \cup clobbered, [p \in Procs |-> Locals(p)]>>
=============================================================================
