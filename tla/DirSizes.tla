------------------------------ MODULE DirSizes ------------------------------
(***************************************************************************)
(* The `directorysizes` cache of one trash root (trashdir.rs): a line per  *)
(* trashed directory, its size and the second its record was written.  A   *)
(* line is trusted while its second is the record's, so two items that had *)
(* one name within a second are told apart only by the order in which      *)
(* lines are dropped and written.  A put sizes its item outside the lock,  *)
(* and so does every command that shows or sums sizes.                     *)
(*                                                                         *)
(* Items are numbered in the order they are put, and the number of an item *)
(* stands for its size: no two are alike.  A directory that a failing      *)
(* removal left in part has a size of its own, the same however often that *)
(* happens.                                                                *)
(***************************************************************************)
EXTENDS Integers, FiniteSets

CONSTANTS
  Procs,        \* commands running at once
  Nobody,       \* the holder of a lock nobody has
  Names,        \* names in the trash
  MaxPuts,      \* bound: items put
  Files,        \* those that are not directories, and have no line
  MaxSeconds    \* bound: seconds that pass

ASSUME ProcAssumption == Nobody \notin Procs
ASSUME BoundAssumption ==
  /\ MaxPuts \in Nat /\ Files \subseteq 1..MaxPuts /\ MaxSeconds \in Nat

Nothing == 0
NoRecord == [item |-> Nothing, at |-> 0]
NoLine == [size |-> 0, at |-> 0 - 1]
NoLines == [n \in Names |-> NoLine]

VARIABLES
  now, puts,          \* the second of the last put, the items put so far
  payload, record,    \* files/NAME and info/NAME.trashinfo
  lines,              \* the file `directorysizes`
  lock,               \* who holds the root's TrashLock
  job, stage,         \* of each command: what it is, and its next step
  names,              \* the names it has yet to deal with
  kept,               \* empty: those it means to keep; a purge: those there as it begins
  look,               \* put: RecordLook of the record it sizes; others: the last they listed
  loaded,             \* DirSizes::lines
  walked, misses,     \* sizes just walked, and DirSizes::misses
  measured,           \* history: items there whose put wrote a line
  fooled              \* history: names whose line nobody answers for
vars == <<now, puts, payload, record, lines, lock, job, stage, names, kept, look, loaded,
          walked, misses, measured, fooled>>
trash == <<payload, record>>
sizing == <<loaded, walked, misses>>

(* What is left of item i when it was removed in part.                     *)
Part(i) == MaxPuts + i

IsDir(n) == payload[n] \notin Files \cup {Nothing}
Listed == {n \in Names : record[n] # NoRecord}

(* DirSizes::cached_dir: a line is valid while its second is the record's. *)
Valid(ls, n) == /\ ls[n] # NoLine /\ record[n] # NoRecord
                /\ ls[n].at = record[n].at
Trusted(n) == IsDir(n) /\ Valid(lines, n)

(* The lines of `ls` whose payload is still a directory.                   *)
WithoutGone(ls) == [n \in Names |-> IF IsDir(n) THEN ls[n] ELSE NoLine]

Init ==
  /\ now = 1 /\ puts = 0
  /\ payload = [n \in Names |-> Nothing] /\ record = [n \in Names |-> NoRecord]
  /\ lines = NoLines /\ lock = Nobody
  /\ job = [p \in Procs |-> "none"] /\ stage = [p \in Procs |-> "idle"]
  /\ names = [p \in Procs |-> {}] /\ kept = [p \in Procs |-> {}]
  /\ look = [p \in Procs |-> NoRecord] /\ loaded = [p \in Procs |-> NoLines]
  /\ walked = [p \in Procs |-> [n \in Names |-> Nothing]]
  /\ misses = [p \in Procs |-> NoLines]
  /\ measured = {} /\ fooled = {}

Go(p, s) == stage' = [stage EXCEPT ![p] = s] /\ UNCHANGED job
Start(p, j, s) == stage' = [stage EXCEPT ![p] = s] /\ job' = [job EXCEPT ![p] = j]
Forget(p) ==
  /\ look' = [look EXCEPT ![p] = NoRecord] /\ loaded' = [loaded EXCEPT ![p] = NoLines]
  /\ walked' = [walked EXCEPT ![p] = [n \in Names |-> Nothing]]
  /\ misses' = [misses EXCEPT ![p] = NoLines]

(* The command is over; what it kept in memory is gone with it.            *)
Finish(p) == /\ Start(p, "none", "idle") /\ Forget(p)
             /\ names' = [names EXCEPT ![p] = {}] /\ kept' = [kept EXCEPT ![p] = {}]

----------------------------------------------------------------------------
(* put *)

(* The name is taken with its whole record, under the lock.                *)
Reserve(p, n) ==
  /\ stage[p] = "idle" /\ lock = Nobody /\ puts < MaxPuts
  /\ payload[n] = Nothing /\ record[n] = NoRecord
  /\ lock' = p /\ puts' = puts + 1 /\ now' \in now..MaxSeconds
  /\ record' = [record EXCEPT ![n] = [item |-> puts + 1, at |-> now']]
  /\ Start(p, "put", "move") /\ names' = [names EXCEPT ![p] = {n}]
  /\ UNCHANGED <<payload, lines, kept, look, sizing, measured, fooled>>

(* A file needs no line, and a put asked to stop leaves it to `status`.    *)
Move(p) ==
  /\ stage[p] = "move"
  /\ \E n \in names[p] : payload' = [payload EXCEPT ![n] = record[n].item]
  /\ lock' = Nobody
  /\ \/ /\ \E n \in names[p] : record[n].item \notin Files
        /\ Go(p, "look") /\ UNCHANGED <<names, kept, look, sizing>>
     \/ Finish(p)
  /\ UNCHANGED <<now, puts, record, lines, measured, fooled>>

LookAt(p) ==
  /\ stage[p] = "look"
  /\ \E n \in names[p] :
       IF record[n] = NoRecord THEN Finish(p)
       ELSE /\ look' = [look EXCEPT ![p] = record[n]] /\ Go(p, "walk")
            /\ UNCHANGED <<names, kept, sizing>>
  /\ UNCHANGED <<now, puts, trash, lines, lock, measured, fooled>>

(* What a walk of the payload finds, stamped with the second of the record  *)
(* there now.                                                              *)
LineOf(n, size) == [size |-> size, at |-> record[n].at]

(* The record it looked at may be of a later put that has yet to move its  *)
(* item there.                                                             *)
TooSoon(n) == \E q \in Procs : stage[q] = "move" /\ n \in names[q]

(* Should another item come between the walk and the second, the record is *)
(* another too, and Upsert writes nothing.                                 *)
WalkOwn(p) ==
  /\ stage[p] = "walk"
  /\ \E n \in names[p] :
       IF record[n] = NoRecord THEN Finish(p) /\ UNCHANGED fooled
       ELSE /\ misses' = [misses EXCEPT ![p][n] = LineOf(n, payload[n])] /\ Go(p, "write")
            /\ fooled' = IF TooSoon(n) THEN fooled \cup {n} ELSE fooled
            /\ UNCHANGED <<names, kept, look, loaded, walked>>
  /\ UNCHANGED <<now, puts, trash, lines, lock, measured>>

(* Mutant: the record is not looked at again.                              *)
AnyRecord(p, n) == record[n] # NoRecord

(* Under the lock, the line goes only to the record the walk sized.        *)
SameRecord(p, n) == record[n] = look[p]
Upsert(p) ==
  /\ stage[p] = "write" /\ lock = Nobody
  /\ \E n \in names[p] :
       IF SameRecord(p, n)
       THEN /\ lines' = [lines EXCEPT ![n] = misses[p][n]]
            /\ measured' = measured \cup {record[n].item}
       ELSE UNCHANGED <<lines, measured>>
  /\ Finish(p)
  /\ UNCHANGED <<now, puts, trash, lock, fooled>>

----------------------------------------------------------------------------
(* The commands that show or sum sizes, rm among them, which goes on to remove
   what it listed; and a purge, which sizes while it holds the lock. *)

Load(p, j) ==
  /\ stage[p] = "idle"
  /\ IF j = "purge" THEN lock = Nobody /\ lock' = p ELSE UNCHANGED lock
  /\ loaded' = [loaded EXCEPT ![p] = lines]
  /\ look' = IF j = "sizes" THEN [look EXCEPT ![p] = [item |-> puts, at |-> now]] ELSE look
  /\ names' = [names EXCEPT ![p] = Listed] /\ Start(p, j, "size")
  /\ UNCHANGED <<now, puts, trash, lines, kept, walked, misses, measured, fooled>>

(* payload_bytes: the payload, then the line, and only then a walk.        *)
PayloadBytes(p, n) ==
  /\ stage[p] = "size" /\ n \in names[p] /\ walked[p][n] = Nothing
  /\ IF IsDir(n) /\ ~Valid(loaded[p], n)
     THEN walked' = [walked EXCEPT ![p][n] = payload[n]] /\ UNCHANGED names
     ELSE names' = [names EXCEPT ![p] = @ \ {n}] /\ UNCHANGED walked
  /\ UNCHANGED <<now, puts, trash, lines, lock, job, stage, kept, look, loaded, misses, measured,
                 fooled>>

(* The second is read after the walk.                                      *)
Remember(p, n) ==
  /\ stage[p] = "size" /\ n \in names[p] /\ walked[p][n] # Nothing
  /\ names' = [names EXCEPT ![p] = @ \ {n}]
  /\ misses' = IF record[n] = NoRecord THEN misses
               ELSE [misses EXCEPT ![p][n] = LineOf(n, walked[p][n])]
  /\ walked' = [walked EXCEPT ![p][n] = Nothing]
  /\ UNCHANGED <<now, puts, trash, lines, lock, job, stage, kept, look, loaded, measured, fooled>>

(* Mutant: the lines read at the start are written back.                   *)
MergedLoaded(p) ==
  [n \in Names |-> IF misses[p][n] # NoLine THEN misses[p][n] ELSE WithoutGone(loaded[p])[n]]

(* The lines as the lock finds them, not as they were loaded, less those   *)
(* whose directory is gone, and with the misses.                           *)
Merged(p) ==
  [n \in Names |-> IF misses[p][n] # NoLine THEN misses[p][n] ELSE WithoutGone(lines)[n]]
NothingToWrite(p) == misses[p] = NoLines /\ loaded[p] = WithoutGone(loaded[p])

WriteBack(p) ==
  /\ stage[p] = "size" /\ names[p] = {}
  /\ IF NothingToWrite(p) THEN UNCHANGED lines
     ELSE lock \in {Nobody, p} /\ lines' = Merged(p)
  /\ IF job[p] # "purge" THEN Finish(p)
     ELSE \* what the budget cannot keep goes next, under the same lock
          /\ Go(p, "payload") /\ Forget(p)
          /\ \E victims \in SUBSET Listed : names' = [names EXCEPT ![p] = victims]
          /\ kept' = [kept EXCEPT ![p] = Listed]
  /\ UNCHANGED <<now, puts, trash, lock, measured, fooled>>

----------------------------------------------------------------------------
(* Removals, all under the lock: the payload, its record, its line.  A restore
   that cannot remove what it copied leaves an orphan, which has no record and
   so no line that is trusted: that is left out. *)

(* A restore, and a removal from the picker of empty, which size no other. *)
TakeItem(p, n) ==
  /\ stage[p] = "idle" /\ lock = Nobody /\ n \in Listed
  /\ lock' = p /\ names' = [names EXCEPT ![p] = {n}] /\ Start(p, "take", "payload")
  /\ UNCHANGED <<now, puts, trash, lines, kept, look, sizing, measured, fooled>>

(* rm has sized what matched, and takes the lock for one item at a time, if *)
(* it is still the one it listed.  It writes its misses back when no more  *)
(* are left.                                                               *)
RmItem(p, n) ==
  /\ job[p] = "sizes" /\ stage[p] = "size" /\ names[p] = {} /\ lock = Nobody
  /\ n \in Listed /\ record[n].item <= look[p].item
  /\ lock' = p /\ names' = [names EXCEPT ![p] = {n}] /\ Go(p, "payload")
  /\ UNCHANGED <<now, puts, trash, lines, kept, look, sizing, measured, fooled>>

Empty(p, victims) ==
  /\ stage[p] = "idle" /\ lock = Nobody /\ victims \subseteq Listed /\ victims # {}
  /\ lock' = p /\ names' = [names EXCEPT ![p] = victims] /\ Start(p, "empty", "payload")
  /\ kept' = [kept EXCEPT ![p] = Listed \ victims]
  /\ UNCHANGED <<now, puts, trash, lines, look, sizing, measured, fooled>>

(* The item goes from under a command that walked it without the lock.     *)
Overtakes(n) ==
  \E q \in Procs : /\ job[q] = "sizes"
                   /\ walked[q][n] # Nothing \/ misses[q][n] # NoLine

TakePayload(p, n) ==
  /\ stage[p] = "payload" /\ n \in names[p] /\ payload[n] # Nothing
  /\ payload' = [payload EXCEPT ![n] = Nothing]
  /\ measured' = measured \ {record[n].item}
  /\ fooled' = IF Overtakes(n) THEN fooled \cup {n} ELSE fooled
  /\ UNCHANGED <<now, puts, record, lines, lock, job, stage, names, kept, look, sizing>>

(* A restore only warns of a record that cannot go, and drops the line.    *)
TakeRecord(p, n) ==
  /\ stage[p] = "payload" /\ n \in names[p] /\ payload[n] = Nothing
  /\ \/ record' = [record EXCEPT ![n] = NoRecord]
     \/ job[p] = "take" /\ UNCHANGED record
  /\ IF job[p] \in {"take", "sizes"} THEN Go(p, "line") /\ UNCHANGED names
     ELSE names' = [names EXCEPT ![p] = @ \ {n}] /\ UNCHANGED <<job, stage>>
  /\ UNCHANGED <<now, puts, payload, lines, lock, kept, look, sizing, measured, fooled>>

(* The item is done with: rm goes on to the next, the others are over.     *)
Leave(p) ==
  /\ lock' = Nobody
  /\ IF job[p] = "sizes"
     THEN Go(p, "size") /\ names' = [names EXCEPT ![p] = {}] /\ UNCHANGED <<kept, look, sizing>>
     ELSE Finish(p)

(* The former size of the item has a line, or was walked for one.          *)
Remembered(n) ==
  Trusted(n) \/ \E q \in Procs : walked[q][n] # Nothing \/ misses[q][n] # NoLine

(* The payload cannot go, or not all of it, or its record cannot: the item  *)
(* stays as it is, its line too, and an empty or a purge takes the next.   *)
TakeFails(p, n) ==
  /\ stage[p] = "payload" /\ n \in names[p]
  /\ \/ UNCHANGED <<payload, fooled>>
     \/ /\ IsDir(n) /\ payload' = [payload EXCEPT ![n] = Part(record[n].item)]
        /\ fooled' = IF Remembered(n) THEN fooled \cup {n} ELSE fooled
  /\ IF job[p] \in {"take", "sizes"} THEN Leave(p)
     ELSE /\ names' = [names EXCEPT ![p] = @ \ {n}]
          /\ UNCHANGED <<lock, job, stage, kept, look, sizing>>
  /\ UNCHANGED <<now, puts, record, lines, measured>>

Dropped(n) == [lines EXCEPT ![n] = NoLine]
DropLine(p) ==
  /\ stage[p] = "line"
  /\ \E n \in names[p] : lines' = Dropped(n)
  /\ Leave(p)
  /\ UNCHANGED <<now, puts, trash, measured, fooled>>

(* An empty by age leaves the lines of the items it meant to keep, so one  *)
(* it failed to remove stays without; one that was interrupted, and a full *)
(* wipe, those whose directory is still there.                             *)
PruneLines(p) ==
  /\ lines' = [n \in Names |-> IF n \in kept[p] THEN lines[n] ELSE NoLine]
  /\ measured' = measured \ {record[n].item : n \in Listed \ kept[p]}

(* The end of an empty or a purge, which leaves the rest when interrupted, *)
(* though no record whose payload is gone.  A purge that removed nothing   *)
(* writes nothing.                                                         *)
Prune(p) ==
  /\ job[p] \in {"empty", "purge"} /\ stage[p] = "payload"
  /\ \A n \in names[p] : payload[n] # Nothing
  /\ \/ job[p] = "empty" /\ names[p] = {} /\ PruneLines(p)
     \/ /\ lines' = IF job[p] = "purge" /\ Listed = kept[p] THEN lines ELSE WithoutGone(lines)
        /\ UNCHANGED measured
  /\ lock' = Nobody /\ Finish(p)
  /\ UNCHANGED <<now, puts, trash, fooled>>

(* A killed command lets go of the lock, and drops no more lines; halfway   *)
(* through a payload, it is one that failed to remove it before.  Killed   *)
(* without the lock, a put is one that was asked to stop, and the others   *)
(* leave nothing behind.                                                   *)
Kill(p) ==
  /\ lock = p /\ lock' = Nobody
  /\ fooled' = fooled \cup {n \in Names \ Listed : lines[n] # NoLine}
  /\ Finish(p)
  /\ UNCHANGED <<now, puts, trash, lines, measured>>

PutStep(p) == \/ \E n \in Names : Reserve(p, n)
              \/ Move(p) \/ LookAt(p) \/ WalkOwn(p) \/ Upsert(p)
SizeStep(p) == \/ \E j \in {"sizes", "purge"} : Load(p, j)
               \/ \E n \in Names : PayloadBytes(p, n) \/ Remember(p, n)
               \/ WriteBack(p)
TakeStep(p) == \/ \E n \in Names : \/ TakeItem(p, n) \/ RmItem(p, n)
                                   \/ TakePayload(p, n) \/ TakeRecord(p, n)
                                   \/ TakeFails(p, n)
               \/ \E victims \in SUBSET Names : Empty(p, victims)
               \/ DropLine(p) \/ Prune(p) \/ Kill(p)
Next == \E p \in Procs : PutStep(p) \/ SizeStep(p) \/ TakeStep(p)
Spec == Init /\ [][Next]_vars

----------------------------------------------------------------------------

(* The lines are of the names there, the lock of a command, and what is    *)
(* there under a name is the item of its record, whole or in part.         *)
TypeOK ==
  /\ payload \in [Names -> 0..2 * MaxPuts]
  /\ record \in [Names -> [item : 0..MaxPuts, at : 0..MaxSeconds]]
  /\ lines \in [Names -> [size : 0..2 * MaxPuts, at : -1..MaxSeconds]]
  /\ lock \in Procs \cup {Nobody}
  /\ \A n \in Names : payload[n] # Nothing =>
       /\ record[n] # NoRecord
       /\ \/ payload[n] = record[n].item
          \/ record[n].item \notin Files /\ payload[n] = Part(record[n].item)

(* A line that is trusted is the size of the directory there.  Another     *)
(* item may have had the name within the same second, and may have been    *)
(* sized by a put, or had a line, before it went; and a removal may have   *)
(* failed, before or after.  Not so where a command that walks without the *)
(* lock was overtaken by a removal, which does not look again; where a     *)
(* removal failed halfway, and the line of the whole directory stayed, or  *)
(* was yet to be written; where a put sized the item of a later one before *)
(* it was there; or where a command was killed before it dropped a line.   *)
SizesTrue == \A n \in Names \ fooled : Trusted(n) => lines[n].size = payload[n]

(* The line a put wrote stays valid as long as its item is there, whatever *)
(* lines others write back meanwhile, and whatever removals fail: until an *)
(* empty by age that could not remove the item leaves it without.          *)
PutsMeasured ==
  \A n \in Names \ fooled : IsDir(n) /\ record[n].item \in measured => Trusted(n)
=============================================================================
