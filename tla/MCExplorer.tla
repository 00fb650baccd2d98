----------------------------- MODULE MCExplorer -----------------------------
(***************************************************************************)
(* A top with a directory and a file, and a file in the directory.         *)
(*                                                                         *)
(* A session that has quit before any delete, and one that is over with no *)
(* delete left, only repeat what they would have shown without the quit:   *)
(* no invariant reads `quit`, and QuitWaits only reads `over` with the     *)
(* delete.  View makes one state of them.  It drops the count of marks     *)
(* once every delete is used: only MayMark reads it, which is then false.  *)
(***************************************************************************)
EXTENDS Explorer

const_Up == (2 :> 1) @@ (3 :> 1) @@ (4 :> 2)
const_Own == (1 :> 1) @@ (2 :> 1) @@ (3 :> 2) @@ (4 :> 2)

(* Bound: where a row that failed has left the disk, one scan or change    *)
(* fewer.                                                                  *)
FewerScans == strays # {} => events < MaxEvents

View ==
  IF over /\ ~deleting.on THEN <<"over">>
  ELSE IF quit /\ deletes = 0 THEN <<"quit", crashed>>
  ELSE <<disk, jobs, deleting, session, screen, asked, torn, ending, events, deletes,
         IF deletes < MaxDeletes THEN marks ELSE 0>>
=============================================================================
