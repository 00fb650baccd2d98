------------------------------ MODULE Explorer ------------------------------
(***************************************************************************)
(* The explorer of du_tui.rs (`du -i`): one loop that takes in the scans   *)
(* and the rows of a delete that ended since its last turn, draws, and     *)
(* handles a key; threads that scan directories; and a thread that moves   *)
(* the rows of a delete to the trash one at a time.                        *)
(*                                                                         *)
(* Paths are numbers, in the order of names; a size is one number for the  *)
(* three the code carries.  The threads work on the disk: `alive` is what  *)
(* exists, `trash` what this run put away and has the ticket of, and       *)
(* `strays` what a row reported as failed left in the trash all the same.  *)
(***************************************************************************)
EXTENDS Integers, FiniteSets, Sequences, SequencesExt, FiniteSetsExt

CONSTANTS
  Paths, Root, Up,     \* the tree: every path but Root lies in Up of it
  Dirs,                \* the paths that are directories
  Own,                 \* the size of each path without what it holds
  Dotted,              \* names that `.` hides
  Refused,             \* rows the trash refuses, for want of a permission
  Foreign,             \* rows it takes with a copy across file systems
  Recycled,            \* rows of a Windows drive that WSL moves to its bin
  Fickle,              \* files another program may remove or make
  MaxEvents,           \* bound: scans started and changes by other programs
  MaxDeletes, MaxMarks \* bounds: deletes started, times a mark is set

ASSUME TreeAssumption ==
  /\ Paths \subseteq Nat /\ IsFiniteSet(Paths) /\ Root \in Dirs /\ Dirs \subseteq Paths
  /\ Up \in [Paths \ {Root} -> Dirs] /\ \A p \in Paths \ {Root} : Up[p] < p
  /\ Own \in [Paths -> Nat]
ASSUME OptionAssumption ==
  /\ Dotted \cup Refused \cup Foreign \cup Recycled \cup Fickle \subseteq Paths \ {Root}
  /\ Fickle \cap Dirs = {} /\ Foreign \cap Recycled = {}
  /\ {MaxEvents, MaxDeletes, MaxMarks} \subseteq Nat

VARIABLES
  alive, trash,        \* what is on the disk, and the tickets of what was trashed
  strays,              \* what was trashed with no ticket, and what stays of it
  jobs,                \* App::jobs: the running scan of a directory
  events,              \* scans started, and changes by other programs, so far
  deleting,            \* App::deleting and its thread
  undo,                \* App::undo
  stuck,               \* tickets whose undo failed, as the status line said
  cache, cur,          \* App::cache, App::cur
  cursor, sel, away,   \* the cursor, the marks here by row, those of other views
  hide,                \* App::hide_dots
  asked,               \* the rows the prompt counted, while it is open
  marks, deletes,      \* marks set, and deletes started, so far
  torn,                \* a scan was stopped, or overlapped a change
  quit, over, crashed  \* App::quit, the loop returned, the loop panicked

disk == <<alive, trash, strays>>
bounds == <<events, marks, deletes>>
session == <<undo, stuck>>
screen == <<cache, cur, cursor, sel, away, hide>>
ending == <<quit, over, crashed>>
vars == <<disk, bounds, jobs, deleting, session, screen, asked, torn, ending>>

-----------------------------------------------------------------------------
(* The tree.                                                               *)

Above[p \in Paths] == IF p = Root THEN {Root} ELSE {p} \cup Above[Up[p]]
Below(p) == {q \in Paths : p \in Above[q]}
In(d, S) == {p \in S \ {Root} : Up[p] = d}
Weight(S) == MapThenSumSet(LAMBDA p : Own[p], S)
Disk(p) == Weight(Below(p) \cap alive)

-----------------------------------------------------------------------------
(* Views.                                                                  *)

Row(p, n) == [path |-> p, disk |-> n]
Ahead(a, b) == a.disk > b.disk \/ (a.disk = b.disk /\ a.path < b.path)

(* The elements of a set, one Before the next.                             *)
InOrder(S, Before(_, _)) ==
  CHOOSE s \in [1..Cardinality(S) -> S] : \A i, j \in DOMAIN s : i < j => Before(s[i], s[j])
(* sort_rows.                                                              *)
Sorted(S) == InOrder(S, Ahead)
(* The rows of these paths, in the order they had (retain, partition).     *)
Keep(rows, S) ==
  LET at == InOrder({i \in DOMAIN rows : rows[i].path \in S}, LAMBDA i, j : i < j)
  IN  [n \in DOMAIN at |-> rows[at[n]]]

Shown(p, h) == ~(h /\ p \in Dotted)
Listed(v) == ToSet(v.rows) \cup ToSet(v.stash)
PathsOf(rows) == {r.path : r \in ToSet(rows)}
SumRows(S) == MapThenSumSet(LAMBDA r : r.disk, S)
IndexOf(rows, p) == SelectInSeq(rows, LAMBDA r : r.path = p)

(* Mutant: a cursor past the end, when the rows above it went.             *)
ClampUp(i, rows) == Max({i, 1})

(* select: the cursor stays on a row.                                      *)
Clamp(i, rows) == Min({Len(rows), Max({i, 1})})

(* insert_in_order.                                                        *)
Insert(rows, r) ==
  LET later == {i \in DOMAIN rows : Ahead(r, rows[i])}
  IN  InsertAt(rows, IF later = {} THEN Len(rows) + 1 ELSE Min(later), r)

(* quick_view: directories first, their sizes to come.                     *)
QuickView(d) ==
  LET files == Sorted({Row(p, Own[p]) : p \in In(d, alive) \ Dirs})
      dirs == InOrder({Row(p, 0) : p \in In(d, alive \cap Dirs)}, LAMBDA a, b : a.path < b.path)
  IN  [rows |-> dirs \o files, stash |-> <<>>, disk |-> SumRows(ToSet(files)),
       scanning |-> TRUE, partial |-> FALSE]

(* What a scan of d that found these rows hands over.                      *)
ScanView(d, got, partial) ==
  [rows |-> Sorted(got), stash |-> <<>>, disk |-> Own[d] + SumRows(got),
   scanning |-> FALSE, partial |-> partial]

(* The refilter of a view: rows out of sight go to the stash and back.     *)
Narrow(v, h) ==
  LET seen == {p \in Paths : Shown(p, h)}
  IN  [v EXCEPT !.rows = FoldLeft(Insert, Keep(@, seen), Keep(v.stash, seen)),
                !.stash = Keep(v.rows, Paths \ seen) \o Keep(@, Paths \ seen)]

Selected == sel \cap DOMAIN cache[cur].rows
MarkedPaths == {r.path : r \in away} \cup {cache[cur].rows[i].path : i \in Selected}
UnderCursor == IF cursor \in DOMAIN cache[cur].rows THEN cache[cur].rows[cursor].path ELSE Root

-----------------------------------------------------------------------------
(* Sizes carried up the chain.                                             *)

Shift(v, from, to) == Max({v - from, 0}) + to
ShiftRows(rows, on, from, to) ==
  [i \in DOMAIN rows |-> IF rows[i].path \in on THEN [rows[i] EXCEPT !.disk = Shift(@, from, to)] ELSE rows[i]]

(* Mutant: rows out of sight keep their old size.                          *)
CarryShown(c, d, from, to) ==
  [e \in DOMAIN c |->
    IF e \in Above[d]
    THEN [c[e] EXCEPT !.disk = Shift(@, from, to), !.rows = ShiftRows(@, Above[d], from, to)]
    ELSE c[e]]

Carry(c, d, from, to) ==
  [e \in DOMAIN c |->
    IF e \in Above[d]
    THEN [c[e] EXCEPT !.disk = Shift(@, from, to),
                      !.rows = ShiftRows(@, Above[d], from, to),
                      !.stash = ShiftRows(@, Above[d], from, to)]
    ELSE c[e]]

(* Put the row that leads to d at its total.                               *)
PutRow(c, d, n) ==
  LET put(rows) == [i \in DOMAIN rows |-> IF rows[i].path = d THEN Row(d, n) ELSE rows[i]]
  IN  IF d # Root /\ Up[d] \in DOMAIN c
      THEN [c EXCEPT ![Up[d]].rows = put(@), ![Up[d]].stash = put(@)] ELSE c

Without(c, S) == [e \in DOMAIN c \ S |-> c[e]]
With(c, d, v) == [e \in DOMAIN c \cup {d} |-> IF e = d THEN v ELSE c[e]]

(* apply_fresh: what was cached below is dropped, the rest takes the       *)
(* change.                                                                 *)
ApplyFresh(c, d, v) ==
  LET rest == With(Without(c, Below(d)), d, v)
  IN  IF d = Root THEN rest ELSE PutRow(Carry(rest, Up[d], c[d].disk, v.disk), d, v.disk)

(* drop_row, but for the view on screen.                                   *)
DropRow(c, r) ==
  LET out(rows) == Keep(rows, Paths \ {r.path})
      gone == [e \in DOMAIN c |-> IF e = Up[r.path] THEN [c[e] EXCEPT !.rows = out(@), !.stash = out(@)] ELSE c[e]]
  IN  Without(Carry(gone, Up[r.path], r.disk, 0), Below(r.path))

-----------------------------------------------------------------------------
(* Marks and the cursor.                                                   *)

(* stash_marks, which holds each path once, then restore_marks in a view   *)
(* of these rows.                                                          *)
Held ==
  LET rows == cache[cur].rows
      last == {i \in Selected : \A j \in Selected : rows[j].path = rows[i].path => j <= i}
  IN  {rows[i] : i \in last} \cup {r \in away : \A i \in Selected : rows[i].path # r.path}
Taken(rows, held) == {i \in DOMAIN rows : rows[i].path \in {r.path : r \in held}}
Left(rows, held) == {r \in held : r.path \notin PathsOf(rows)}

(* prune_marks: those of entries of d that its view no longer lists.       *)
Pruned(held, d, v) == {r \in held : Up[r.path] = d => r.path \in {x.path : x \in Listed(v)}}

(* refilter of the view on screen, given its rows and marks as they stand. *)
Refilter(c, h) ==
  LET old == c[cur]
      new == IF h \/ old.stash # <<>> THEN Narrow(old, h) ELSE old
  IN  /\ cache' = [c EXCEPT ![cur] = new]
      /\ sel' = {IndexOf(new.rows, old.rows[i].path) : i \in sel \cap DOMAIN old.rows} \ {0}
      /\ cursor' = LET at == IF cursor \in DOMAIN old.rows THEN IndexOf(new.rows, old.rows[cursor].path) ELSE 1
                   IN  Clamp(at, new.rows)

(* current: a mark shows the size its view has by now.                     *)
Current(r) ==
  LET all == IF Up[r.path] \in DOMAIN cache THEN cache[Up[r.path]].rows \o cache[Up[r.path]].stash ELSE <<>>
  IN  IF r.path \in PathsOf(all) THEN all[IndexOf(all, r.path)] ELSE r

(* batch: the marks, or the row under the cursor; one row of a path, and   *)
(* none inside another.                                                    *)
Targets ==
  LET rows == cache[cur].rows
      here == (IF sel = {} /\ away = {} THEN {cursor} ELSE sel) \cap DOMAIN rows
      all == {r.path : r \in away} \cup {rows[i].path : i \in here}
      row(p) == IF \E r \in away : r.path = p THEN Current(CHOOSE r \in away : r.path = p)
                ELSE rows[Min({i \in here : rows[i].path = p})]
  IN  {row(p) : p \in {q \in all : \A x \in all : q \in Below(x) => q = x}}

-----------------------------------------------------------------------------
(* Scans.                                                                  *)

NewJob(refresh) == [refresh |-> refresh, stop |-> FALSE, at |-> "new", todo |-> {}, got |-> {}]
Spawn(d, refresh) == jobs' = With(jobs, d, NewJob(refresh)) /\ events' = events + 1
CanScan == events < MaxEvents

ScanList(d) ==
  /\ jobs[d].at = "new"
  /\ jobs' = [jobs EXCEPT ![d].at = IF d \in alive THEN "reading" ELSE "failed",
                            ![d].todo = In(d, alive)]

ScanRead(d) ==
  /\ jobs[d].at = "reading" /\ ~jobs[d].stop
  /\ \E p \in jobs[d].todo :
       jobs' = [jobs EXCEPT ![d].todo = @ \ {p},
                              ![d].got = @ \cup {Row(q, Disk(q)) : q \in {p} \cap alive}]

(* A stopped scan counted some of the directories left in part.            *)
ScanEnd(d) ==
  /\ jobs[d].at = "reading"
  /\ \/ /\ jobs[d].todo = {}
        /\ jobs' = [jobs EXCEPT ![d].at = "whole"]
     \/ /\ jobs[d].todo # {} /\ jobs[d].stop
        /\ \E begun \in SUBSET (jobs[d].todo \cap Dirs) :
             jobs' = [jobs EXCEPT ![d].at = "partial", ![d].todo = {},
                                  ![d].got = @ \cup {Row(q, Own[q]) : q \in begun}]

ScanThread(d) ==
  /\ ScanList(d) \/ ScanRead(d) \/ ScanEnd(d)
  /\ UNCHANGED <<disk, deleting, session, screen, asked, bounds, ending>>

Running == ~over /\ ~crashed

(* poll_jobs and take_view.  A rescan whose view is gone ends the program, *)
(* and so does the view on screen.                                         *)
Landed(d) ==
  LET j == jobs[d]
      missing == IF j.at = "partial" /\ d \in DOMAIN cache
                 THEN {r \in Listed(cache[d]) : r.path \notin {x.path : x \in j.got}} ELSE {}
      v == ScanView(d, j.got, j.at = "partial")
  IN  [v EXCEPT !.rows = Sorted(j.got \cup missing)]

TakeView(d) ==
  LET fresh == Landed(d)
      held == IF d = cur THEN Held ELSE away
      put == IF jobs[d].refresh THEN ApplyFresh(cache, d, fresh) ELSE With(cache, d, fresh)
      new == IF d = cur /\ hide THEN With(put, d, Narrow(fresh, hide)) ELSE put
      left == Pruned(held, d, fresh)
      rows == new[d].rows
      keep == IndexOf(rows, UnderCursor)
  IN  /\ cache' = new
      /\ IF d = cur
         THEN /\ sel' = Taken(rows, left) /\ away' = Left(rows, left)
              /\ cursor' = Clamp(keep, rows)
         ELSE /\ away' = left
              /\ UNCHANGED <<sel, cursor>>

(* Mutant: a directory trashed while it was scanned is shown again.        *)
TakeJobBlind(d) ==
  /\ Running /\ jobs[d].at \in {"whole", "partial", "failed"}
  /\ jobs' = Without(jobs, {d})
  /\ \/ /\ jobs[d].at = "failed"
        /\ cache' = IF d \in DOMAIN cache THEN [cache EXCEPT ![d].scanning = FALSE] ELSE cache
        /\ UNCHANGED <<sel, away, cursor, crashed>>
     \/ /\ jobs[d].at # "failed"
        /\ IF d \notin DOMAIN cache /\ (jobs[d].refresh \/ d = cur)
           THEN crashed' = TRUE /\ UNCHANGED <<cache, sel, away, cursor>>
           ELSE TakeView(d) /\ UNCHANGED crashed
  /\ UNCHANGED <<disk, deleting, session, cur, hide, asked, bounds, quit, over>>

(* Mutant: a scan that failed leaves its view waiting.                     *)
TakeJobStuck(d) ==
  /\ Running /\ jobs[d].at \in {"whole", "partial", "failed"}
  /\ jobs' = Without(jobs, {d})
  /\ \/ /\ jobs[d].at = "failed"
        /\ UNCHANGED <<cache, sel, away, cursor, crashed>>
     \/ /\ jobs[d].at # "failed" /\ d \notin {cur, Root} \cup alive
        /\ cache' = Without(cache, {d})
        /\ UNCHANGED <<sel, away, cursor, crashed>>
     \/ /\ jobs[d].at # "failed" /\ d \in {cur, Root} \cup alive
        /\ IF d \notin DOMAIN cache /\ (jobs[d].refresh \/ d = cur)
           THEN crashed' = TRUE /\ UNCHANGED <<cache, sel, away, cursor>>
           ELSE TakeView(d) /\ UNCHANGED crashed
  /\ UNCHANGED <<disk, deleting, session, cur, hide, asked, bounds, quit, over>>

TakeJob(d) ==
  /\ Running /\ jobs[d].at \in {"whole", "partial", "failed"}
  /\ jobs' = Without(jobs, {d})
  /\ \/ /\ jobs[d].at = "failed"
        /\ cache' = IF d \in DOMAIN cache THEN [cache EXCEPT ![d].scanning = FALSE] ELSE cache
        /\ UNCHANGED <<sel, away, cursor, crashed>>
     \/ /\ jobs[d].at # "failed" /\ d \notin {cur, Root} \cup alive
        /\ cache' = Without(cache, {d})
        /\ UNCHANGED <<sel, away, cursor, crashed>>
     \/ /\ jobs[d].at # "failed" /\ d \in {cur, Root} \cup alive
        /\ IF d \notin DOMAIN cache /\ (jobs[d].refresh \/ d = cur)
           THEN crashed' = TRUE /\ UNCHANGED <<cache, sel, away, cursor>>
           ELSE TakeView(d) /\ UNCHANGED crashed
  /\ UNCHANGED <<disk, deleting, session, cur, hide, asked, bounds, quit, over>>

-----------------------------------------------------------------------------
(* The delete thread, trash_rows: one row at a time.                       *)

Idle == [on |-> FALSE, ended |-> TRUE, busy |-> FALSE, stop |-> FALSE,
         todo |-> <<>>, sent |-> <<>>, pending |-> {}, group |-> <<>>]

DeleteNext ==
  /\ deleting.on /\ ~deleting.ended /\ ~deleting.busy
  /\ deleting' = IF deleting.stop \/ deleting.todo = <<>>
                 THEN [deleting EXCEPT !.ended = TRUE] ELSE [deleting EXCEPT !.busy = TRUE]
  /\ UNCHANGED disk

Done(r, got) ==
  deleting' = [deleting EXCEPT !.busy = FALSE, !.todo = Tail(@), !.sent = Append(@, [row |-> r, got |-> got])]

(* What one trashed row left behind, under a name the trash had free.      *)
Ticket(p) ==
  [path |-> p, held |-> Below(p) \cap alive,
   name |-> CHOOSE n \in 1..(Cardinality(trash) + 1) : \A t \in trash : t.name # n]

(* What may stay of a row that is reported as failed when the trash has    *)
(* it whole: the original of a copy that could be removed in part, or not  *)
(* at all (SourceLeft), or nothing, where the Windows bin took the row.    *)
Remains(p) ==
  {s \in SUBSET (Below(p) \cap alive) :
     \/ p \in Foreign /\ p \in s /\ \A q \in s \ {p} : Up[q] \in s
     \/ p \in Recycled /\ s = {}}

RowFails(p) ==
  \/ /\ p \in Refused \cup Foreign \cup Recycled \/ p \notin alive
     /\ UNCHANGED disk
  \/ /\ p \in alive \ Refused
     /\ \E s \in Remains(p) :
          /\ alive' = alive \ (Below(p) \ s)
          /\ strays' = strays \cup {[path |-> p, held |-> Below(p) \cap alive, stays |-> s]}
     /\ UNCHANGED trash

(* put_one on the row in hand: the trash takes it and hands over a ticket, *)
(* or it fails, which is sent unless a stop came.                          *)
DeleteRow ==
  /\ deleting.busy
  /\ LET r == Head(deleting.todo)
     IN  \/ /\ r.path \in alive \ (Refused \cup Recycled)
            /\ alive' = alive \ Below(r.path)
            /\ trash' = trash \cup {Ticket(r.path)} /\ UNCHANGED strays
            /\ Done(r, {Ticket(r.path)})
         \/ /\ RowFails(r.path)
            /\ IF deleting.stop THEN deleting' = [deleting EXCEPT !.busy = FALSE, !.ended = TRUE]
               ELSE Done(r, {})

DeleteThread ==
  /\ DeleteNext \/ DeleteRow
  /\ UNCHANGED <<jobs, session, screen, asked, bounds, ending>>

(* poll_delete: a row that went leaves its view, and the view on screen    *)
(* gives way to the row's parent if it lay inside.                         *)
TakeRow ==
  /\ Running /\ deleting.on /\ deleting.sent # <<>>
  /\ LET done == Head(deleting.sent)
         r == done.row
         d == [deleting EXCEPT !.sent = Tail(@), !.pending = @ \ {r.path}]
     IN  IF done.got # {}
         THEN /\ deleting' = [d EXCEPT !.group = Append(@, done)]
              /\ cache' = DropRow(cache, r)
              /\ cur' = IF cur \in Below(r.path) THEN Up[r.path] ELSE cur
              /\ cursor' = IF cur' \in DOMAIN cache' THEN Clamp(cursor, cache'[cur'].rows) ELSE cursor
         ELSE deleting' = d /\ UNCHANGED <<cache, cur, cursor>>
  /\ UNCHANGED <<disk, jobs, session, sel, away, hide, asked, bounds, ending>>

(* Mutant: a stopped delete leaves no undo step.                           *)
FinishWhole ==
  /\ Running /\ deleting.on /\ deleting.ended /\ deleting.sent = <<>>
  /\ deleting' = Idle
  /\ undo' = IF deleting.group = <<>> \/ deleting.pending # {} THEN undo ELSE Append(undo, deleting.group)
  /\ UNCHANGED <<disk, jobs, stuck, screen, asked, bounds, ending>>

(* finish_delete: the rows become one undo step.                           *)
Finish ==
  /\ Running /\ deleting.on /\ deleting.ended /\ deleting.sent = <<>>
  /\ deleting' = Idle
  /\ undo' = IF deleting.group = <<>> THEN undo ELSE Append(undo, deleting.group)
  /\ UNCHANGED <<disk, jobs, stuck, screen, asked, bounds, ending>>

-----------------------------------------------------------------------------
(* Keys.  The loop draws first, and after a quit it waits for the delete.  *)

Draws == cur \in DOMAIN cache
Key == Running /\ Draws /\ (quit => deleting.on /\ deleting.stop)
Browse == Key /\ asked = {}

BeingTrashed(d) == deleting.on /\ \E p \in deleting.pending : d \in Below(p)

(* go: a directory not seen yet shows a quick listing while it is scanned. *)
(* The cursor lands on the row left, or where Move may take it from.       *)
Go(d, on) ==
  /\ ~BeingTrashed(d)
  /\ LET new == d \notin DOMAIN cache
         open == IF new THEN With(cache, d, QuickView(d)) ELSE cache
         v == IF hide \/ open[d].stash # <<>> THEN Narrow(open[d], hide) ELSE open[d]
     IN  /\ new => d \in alive
         /\ cache' = With(open, d, v) /\ cur' = d
         /\ cursor' = Clamp(IndexOf(v.rows, on), v.rows)
         /\ sel' = Taken(v.rows, Held) /\ away' = Left(v.rows, Held)
         /\ IF new THEN CanScan /\ Spawn(d, FALSE) ELSE UNCHANGED <<jobs, events>>
  /\ UNCHANGED <<disk, deleting, session, hide, asked, marks, deletes, ending>>

Open == Browse /\ UnderCursor \in Dirs \ {Root} /\ Go(UnderCursor, Root)
Back == Browse /\ cur # Root /\ Go(Up[cur], cur)
(* Enter in the panel of marks.                                            *)
Jump == Browse /\ \E r \in away : Up[r.path] # cur /\ Go(Up[r.path], r.path)

(* refresh: a view that was never whole is replaced, without a carry.      *)
Refresh ==
  /\ Browse /\ ~deleting.on /\ cur \notin DOMAIN jobs /\ CanScan
  /\ cache' = [cache EXCEPT ![cur].scanning = TRUE]
  /\ Spawn(cur, ~cache[cur].partial)
  /\ UNCHANGED <<disk, deleting, session, cur, cursor, sel, away, hide, asked, marks, deletes, ending>>

StopScan ==
  /\ Browse /\ cur \in DOMAIN jobs /\ ~jobs[cur].stop
  /\ jobs' = [jobs EXCEPT ![cur].stop = TRUE]
  /\ UNCHANGED <<disk, deleting, session, screen, asked, bounds, ending>>

Move ==
  /\ Browse /\ \E i \in DOMAIN cache[cur].rows : i # cursor /\ cursor' = i
  /\ UNCHANGED <<disk, jobs, deleting, session, cache, cur, sel, away, hide, asked, bounds, ending>>

(* Bound: marks that no delete of this instance could act on are left out. *)
MayMark == marks < MaxMarks /\ deletes < MaxDeletes

ToggleMark ==
  /\ Browse /\ ~deleting.on /\ cursor \in DOMAIN cache[cur].rows
  /\ \/ cursor \in sel /\ sel' = sel \ {cursor} /\ UNCHANGED marks
     \/ cursor \notin sel /\ MayMark /\ sel' = sel \cup {cursor} /\ marks' = marks + 1
  /\ UNCHANGED <<disk, jobs, deleting, session, cache, cur, cursor, away, hide, asked, events, deletes, ending>>

MarkAll ==
  /\ Browse /\ ~deleting.on /\ MayMark
  /\ sel' = sel \cup DOMAIN cache[cur].rows /\ marks' = marks + 1
  /\ UNCHANGED <<disk, jobs, deleting, session, cache, cur, cursor, away, hide, asked, events, deletes, ending>>

(* ClearMarks, and unmark in the panel of marks.                           *)
Unmark ==
  /\ Browse
  /\ \/ sel' = {} /\ away' = {}
     \/ \E r \in away : away' = away \ {r} /\ UNCHANGED sel
  /\ UNCHANGED <<disk, jobs, deleting, session, cache, cur, cursor, hide, asked, bounds, ending>>

ToggleDots ==
  /\ Browse /\ hide' = ~hide
  /\ Refilter(cache, ~hide)
  /\ UNCHANGED <<disk, jobs, deleting, session, cur, away, asked, bounds, ending>>

Ask ==
  /\ Browse /\ ~deleting.on /\ ~cache[cur].scanning
  /\ Targets # {} /\ asked' = {r.path : r \in Targets}
  /\ UNCHANGED <<disk, jobs, deleting, session, screen, bounds, ending>>

No ==
  /\ Key /\ asked # {} /\ asked' = {}
  /\ UNCHANGED <<disk, jobs, deleting, session, screen, bounds, ending>>

(* delete: what is trashed is settled again at `y`.                        *)
Yes ==
  /\ Key /\ asked # {} /\ asked' = {} /\ ~deleting.on
  /\ deletes < MaxDeletes /\ deletes' = deletes + 1
  /\ deleting' = [Idle EXCEPT !.on = TRUE, !.ended = FALSE,
                              !.todo = InOrder(Targets, LAMBDA a, b : a.path < b.path),
                              !.pending = {r.path : r \in Targets}]
  /\ sel' = {} /\ away' = {}
  /\ UNCHANGED <<disk, jobs, session, cache, cur, cursor, hide, events, marks, ending>>

(* undo_last: each row goes back to its place, unless that is taken.       *)
PutBack(u, done) ==
  LET r == done.row
      ticket == CHOOSE t \in done.got : TRUE
      back == IF Up[r.path] \in DOMAIN u.cache /\ r.path \notin PathsOf(u.cache[Up[r.path]].rows)
              THEN [u.cache EXCEPT ![Up[r.path]].rows = Insert(@, r)] ELSE u.cache
  IN  IF r.path \in u.alive THEN [u EXCEPT !.stuck = @ \cup {ticket}]
      ELSE [alive |-> u.alive \cup ticket.held \cup Above[r.path], trash |-> u.trash \ {ticket},
            stuck |-> u.stuck, cache |-> Carry(back, Up[r.path], 0, r.disk)]

UndoLast ==
  /\ Browse /\ ~deleting.on /\ undo # <<>>
  /\ LET u == FoldLeft(PutBack, [alive |-> alive, trash |-> trash, stuck |-> stuck, cache |-> cache], Last(undo))
     IN  /\ alive' = u.alive /\ trash' = u.trash /\ stuck' = u.stuck
         /\ IF hide THEN Refilter(u.cache, hide)
            ELSE cache' = u.cache /\ cursor' = Clamp(cursor, u.cache[cur].rows) /\ UNCHANGED sel
  /\ undo' = Front(undo)
  /\ UNCHANGED <<strays, jobs, deleting, cur, away, hide, asked, bounds, ending>>

Quit ==
  /\ Key /\ ~quit /\ quit' = TRUE
  /\ UNCHANGED <<disk, jobs, deleting, session, screen, asked, bounds, over, crashed>>

-----------------------------------------------------------------------------
(* The loop.                                                               *)

Draw ==
  /\ Running /\ ~Draws /\ crashed' = TRUE
  /\ UNCHANGED <<disk, jobs, deleting, session, screen, asked, bounds, quit, over>>

(* A quit stops a running delete and waits for its thread.                 *)
StopDelete ==
  /\ Running /\ Draws /\ quit /\ deleting.on /\ ~deleting.stop
  /\ deleting' = [deleting EXCEPT !.stop = TRUE]
  /\ UNCHANGED <<disk, jobs, session, screen, asked, bounds, ending>>

(* Mutant: a quit does not wait for the delete.                            *)
LeaveNow ==
  /\ Running /\ Draws /\ quit
  /\ over' = TRUE /\ jobs' = <<>>
  /\ UNCHANGED <<disk, deleting, session, screen, asked, bounds, quit, crashed>>

Leave ==
  /\ Running /\ Draws /\ quit /\ ~deleting.on
  /\ over' = TRUE /\ jobs' = <<>>
  /\ UNCHANGED <<disk, deleting, session, screen, asked, bounds, quit, crashed>>

(* Another program.                                                        *)
Meddle ==
  /\ events < MaxEvents /\ events' = events + 1
  /\ \E p \in Fickle : alive' = (IF p \in alive THEN alive \ {p} ELSE alive \cup {p}) /\ Up[p] \in alive
  /\ UNCHANGED <<trash, strays, jobs, deleting, session, screen, asked, marks, deletes, ending>>

Init ==
  /\ alive = Paths /\ trash = {} /\ strays = {}
  /\ jobs = [d \in {Root} |-> NewJob(FALSE)] /\ events = 1
  /\ deleting = Idle /\ undo = <<>> /\ stuck = {}
  /\ cache = [d \in {Root} |-> QuickView(Root)] /\ cur = Root
  /\ cursor = Clamp(1, QuickView(Root).rows) /\ sel = {} /\ away = {} /\ hide = FALSE
  /\ asked = {} /\ marks = 0 /\ deletes = 0 /\ torn = FALSE
  /\ quit = FALSE /\ over = FALSE /\ crashed = FALSE

Loop == (\E d \in DOMAIN jobs : TakeJob(d)) \/ TakeRow \/ Finish \/ Draw \/ StopDelete \/ Leave
Keys ==
  \/ Open \/ Back \/ Jump \/ Refresh \/ StopScan \/ Move \/ ToggleMark \/ MarkAll \/ Unmark
  \/ ToggleDots \/ Ask \/ No \/ Yes \/ UndoLast \/ Quit
ScanThreads == \E d \in DOMAIN jobs : ScanThread(d)

(* A scan met a change of the disk, or was stopped: from then on sizes may *)
(* differ until the top is scanned again.  So they may once a delete goes  *)
(* by the size a mark was made with, its view dropped since (current), or  *)
(* once anything leaves the disk with no ticket, in a row that failed.     *)
Tears ==
  \/ DOMAIN jobs' # {} /\ (alive' # alive \/ deleting'.on)
  \/ events' # events /\ jobs' = jobs
  \/ \E d \in DOMAIN jobs \ DOMAIN jobs' : jobs[d].at = "partial"
  \/ /\ deleting'.on /\ ~deleting.on
     /\ \E r \in Targets : Up[r.path] \notin DOMAIN cache /\ r.disk # Disk(r.path)
  \/ alive' # alive /\ trash' = trash

Next == (Loop \/ Keys \/ ScanThreads \/ DeleteThread \/ Meddle) /\ torn' = (torn \/ Tears)

Spec == Init /\ [][Next]_vars

-----------------------------------------------------------------------------
(* Properties.                                                             *)

Rows == [path : Paths \ {Root}, disk : Nat]
Views == [rows : Seq(Rows), stash : Seq(Rows), disk : Nat,
          scanning : BOOLEAN, partial : BOOLEAN]

(* Every variable keeps its type; the cursor is on a row, or nowhere in an *)
(* empty view, and the marks are on rows.                                  *)
TypeOK ==
  /\ alive \subseteq Paths /\ Root \in alive
  /\ \A t \in trash : t.path \in t.held /\ t.held \subseteq Paths
  /\ \A t \in strays : t.path \in t.held /\ t.stays \subseteq t.held /\ t.held \subseteq Paths
  /\ DOMAIN jobs \subseteq Dirs /\ DOMAIN cache \subseteq Dirs
  /\ \A d \in DOMAIN jobs :
       /\ jobs[d].todo \subseteq Paths /\ jobs[d].got \subseteq Rows
       /\ jobs[d].at \in {"new", "reading", "whole", "partial", "failed"}
  /\ \A d \in DOMAIN cache : cache[d] \in Views
  /\ cur \in Dirs /\ away \subseteq Rows /\ asked \subseteq Paths /\ stuck \subseteq trash
  /\ cur \in DOMAIN cache => cursor \in 0..Len(cache[cur].rows) /\ sel \subseteq DOMAIN cache[cur].rows

(* Whatever the session put in the trash and told of can be undone: its    *)
(* ticket is in a step of the undo list, or with the delete that still     *)
(* runs, unless an undo said that it failed.  A stopped or a partly failed *)
(* delete loses none, and no step holds a ticket the trash no longer has.  *)
(* What a row reported as failed left in the trash (`strays`) is in none.  *)
Tickets(sent) == UNION {sent[i].got : i \in DOMAIN sent}
Undoable ==
  trash = (UNION {Tickets(undo[i]) : i \in DOMAIN undo}) \cup Tickets(deleting.group)
          \cup Tickets(deleting.sent) \cup stuck

(* Once a delete is over, no view of a directory it trashed is kept, even  *)
(* one that a scan begun before handed over after; the only ones kept of   *)
(* directories no longer there are those that went with a row reported as  *)
(* failed.                                                                 *)
Untold == UNION {t.held \ t.stays : t \in strays}
NoGhosts == ~deleting.on => DOMAIN cache \subseteq alive \cup Untold

(* If no scan met a change, no row was trashed by the size of a mark that  *)
(* had lost its view and none that was reported as failed left the disk,   *)
(* the views agree with the disk: their rows, the size of each, and the    *)
(* total, through deletes, undos and rescans of directories at any level,  *)
(* hidden rows included.                                                   *)
TotalsRight ==
  ~torn /\ ~deleting.on =>
    \A d \in DOMAIN cache : ~cache[d].scanning /\ ~cache[d].partial =>
      /\ cache[d].disk = Disk(d)
      /\ Listed(cache[d]) = {Row(p, Disk(p)) : p \in In(d, alive)}

(* A view that waits for its sizes has a scan under way: the explorer      *)
(* never refuses to trash rows "until the sizes are in" for ever.          *)
ScanningHasJob == Running => \A d \in DOMAIN cache : cache[d].scanning => d \in DOMAIN jobs

(* The program does not end while the delete thread works: no row is left  *)
(* partway.                                                                *)
QuitWaits == over => deleting.ended /\ deleting.sent = <<>>

-----------------------------------------------------------------------------
(* What the source says, and the code does not do.                         *)

(* du_tui.rs:1493, `.expect("current view")`, and `self.cache[&self.cur]`: *)
(* the view on screen, and the one a rescan comes back to, are cached.     *)
NeverPanics == ~crashed

(* du_tui.rs:2529: "a mark must not land on another" row.                  *)
MarksStay ==
  [][UndoLast => MarkedPaths' \subseteq MarkedPaths]_vars

(* du_tui.rs:1738: delete starts "trashing the confirmed rows".            *)
ConfirmedRows ==
  [][deleting'.on /\ ~deleting.on => deleting'.pending \subseteq asked]_vars

(* du_tui.rs:1454: "The parents never took a stopped view's sizes".        *)
ParentsWhole ==
  [][\A d \in DOMAIN jobs : jobs[d].at = "partial" /\ TakeJob(d) =>
       \A e \in (DOMAIN cache \cap DOMAIN cache') \ {d} : cache'[e].disk = cache[e].disk]_vars

(* docs/newsfragments/+du-explorer-marks-rescan.fixed.md:1: the explorer   *)
(* "keeps marks through a rescan, shows their fresh sizes".  One made in a *)
(* quick listing, whose view a rescan further up drops, stays at nothing;  *)
(* drop_row takes that off the totals above.                               *)
MarksFresh ==
  ~torn /\ ~deleting.on /\ DOMAIN jobs = {} =>
    \A r \in away : r.path \in alive => Current(r).disk = Disk(r.path)

(* du_tui.rs:153: `failed` are "Rows that stayed, with why."  A row that   *)
(* ends in an error may be in the trash or in the Windows bin, and off the *)
(* disk in part or whole.                                                  *)
FailedRowsStay ==
  [][DeleteRow /\ trash' = trash => alive' = alive]_vars
=============================================================================
