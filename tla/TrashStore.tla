----------------------------- MODULE TrashStore -----------------------------
(***************************************************************************)
(* What a trash promises, with no files, records, names, locks or          *)
(* processes: an item is what `list` shows and `restore` brings back, a    *)
(* whole file with the path it came from.  It enters the trash once, as it *)
(* was, and leaves it only with a restore, which may bring it back         *)
(* unchanged, or by a deletion that someone who was shown it asked for.    *)
(* Nothing else ever happens to it, whatever is killed or fails.           *)
(***************************************************************************)
EXTENDS Naturals

CONSTANTS Path, File

VARIABLES
  last,     \* the last identity given to a put or a payload
  pending,  \* puts that have not brought their item yet
  listed,   \* the items that can be listed and restored
  away,     \* the items a restore has in hand
  shown     \* what the running deletions have shown to their users

vars == <<last, pending, listed, away, shown>>

Init ==
  /\ last = 0 /\ pending = {}
  /\ listed = {} /\ away = {} /\ shown = {}

(* A put starts, under an identity of its own, or ends with nothing done.  *)
Begin ==
  /\ last' = last + 1
  /\ pending' = pending \cup {last'}
  /\ UNCHANGED <<listed, away, shown>>

Abort(i) ==
  /\ i \in pending
  /\ pending' = pending \ {i}
  /\ UNCHANGED <<last, listed, away, shown>>

(* A put brings its item, once.                                            *)
Enter(e) ==
  /\ e.item \in pending
  /\ pending' = pending \ {e.item}
  /\ listed' = listed \cup {e}
  /\ UNCHANGED <<last, away, shown>>

(* A restore takes an item out, and keeps it (or is killed with it), or    *)
(* puts it back as it was.                                                 *)
Take(e) ==
  /\ e \in listed
  /\ listed' = listed \ {e}
  /\ away' = away \cup {e}
  /\ UNCHANGED <<last, pending, shown>>

Keep(e) ==
  /\ e \in away
  /\ away' = away \ {e}
  /\ UNCHANGED <<last, pending, listed, shown>>

Return(e) ==
  /\ e \in away
  /\ away' = away \ {e}
  /\ listed' = listed \cup {e}
  /\ last' = last + 1
  /\ UNCHANGED <<pending, shown>>

(* A deletion shows items, or is done with them; it deletes what it showed *)
(* only, one item at a time.                                               *)
Show ==
  /\ shown' \in SUBSET Nat
  /\ UNCHANGED <<last, pending, listed, away>>

Delete(e) ==
  /\ e \in listed /\ e.item \in shown
  /\ listed' = listed \ {e}
  /\ UNCHANGED <<last, pending, away, shown>>

Tick == last' = last + 1 /\ UNCHANGED <<pending, listed, away, shown>>

Next ==
  \/ Begin \/ Show \/ Tick
  \/ \E i \in pending : Abort(i)
  \/ \E e \in [item : pending, path : Path, file : File] : Enter(e)
  \/ \E e \in listed : Take(e) \/ Delete(e)
  \/ \E e \in away : Keep(e) \/ Return(e)

Spec == Init /\ [][Next]_vars
=============================================================================
