------------------------------ MODULE MCTrash ------------------------------
(***************************************************************************)
(* TrashSystem for TLC.  The locals of a command that has ended are never  *)
(* read again (the next command sets its own), so states that differ only  *)
(* in them are one state: View drops them, and the history that only       *)
(* NothingLost reads, which FilesView keeps.  For safety runs only.        *)
(***************************************************************************)
EXTENDS TrashRefines, TLC

Running(f) == [p \in {q \in DOMAIN f : pc[q] # "idle"} |-> f[p]]

View == <<live, staged, files, info, temps, lock, pc, stamp, created,
          Running(name), Running(at), Running(batch), Running(rec),
          Running(force), Running(blocked), Running(carry), Running(seen),
          Running(seenInfo), Running(found), Running(seenTemps), Running(cut),
          Running(todo), Running(midway), Running(counted), Running(removed)>>

FilesView == <<View, lost>>
=============================================================================
