------------------------------- MODULE DuScan -------------------------------
(***************************************************************************)
(* The parallel walk of du.rs: every directory is a job that any worker    *)
(* thread may run.  A file with several hard links counts at whichever of  *)
(* its paths a thread meets first; when that was not the smallest one, the *)
(* tree is walked again with the path of each such file fixed.  The rows   *)
(* of the report are the largest few, kept in two lists that every thread  *)
(* offers to.  Meanwhile the user may ask the scan to stop, and names may  *)
(* come and go.                                                            *)
(*                                                                         *)
(* Paths are numbers, in the order of `credits_first`.  A directory stands *)
(* for the thread that walks it, so there are never too few threads.       *)
(***************************************************************************)
EXTENDS Integers, FiniteSets, FiniteSetsExt

CONSTANTS
  Dirs,            \* paths of directories
  Root,            \* the PATH scanned
  Up,              \* the parent of each other directory
  Names,           \* paths of names of files
  DirOf, NameOf,   \* the directory and the last component of each
  FileOf,          \* the file behind it
  Size,            \* the bytes of each file
  Shapes,          \* inodes of the directories: two paths of one are a bind mount
  Sealable,        \* directories that may refuse to be opened
  Closed,          \* artefacts: one row, nothing below them is listed
  Tops,            \* lengths of the list of rows asked for
  SortedInsertCap, \* up to this length a list stays sorted
  DepthLimits,     \* levels the walk may enter, by the stack its threads got
  UnreadKept,      \* unreadable entries remembered by name
  MinSize,         \* `--min-size`
  MayStop,         \* whether the user may stop the scan
  Movable,         \* names that someone may remove or make meanwhile
  Late,            \* those that may be missing when the scan begins
  MaxChanges       \* bound: how often

ASSUME TreeAssumption ==
  /\ Dirs \cap Names = {} /\ Dirs \cup Names \subseteq Nat /\ IsFiniteSet(Dirs \cup Names)
  /\ Root \in Dirs /\ Up \in [Dirs \ {Root} -> Dirs] /\ \A d \in Dirs \ {Root} : Up[d] < d
  /\ DirOf \in [Names -> Dirs]
  /\ \A n, k \in Names : DirOf[n] = DirOf[k] /\ NameOf[n] = NameOf[k] => n = k
  /\ \A n \in Names : Size[FileOf[n]] \in Nat
\* Two paths of one directory show the same directories and the same files.
ASSUME MountAssumption ==
  \A s \in Shapes : \A d, e \in Dirs : s[d] = s[e] =>
    /\ \A c \in Dirs \ {Root} : Up[c] = d => \E b \in Dirs \ {Root} : Up[b] = e /\ s[b] = s[c]
    /\ \A n \in Names : DirOf[n] = d =>
         \E k \in Names : DirOf[k] = e /\ NameOf[k] = NameOf[n] /\ FileOf[k] = FileOf[n]
ASSUME OptionAssumption ==
  /\ Tops \subseteq Nat /\ SortedInsertCap \in Nat /\ DepthLimits \subseteq Nat /\ UnreadKept \in Nat
  /\ MinSize \in Nat /\ MayStop \in BOOLEAN /\ MaxChanges \in Nat
  /\ Sealable \subseteq Dirs /\ Late \subseteq Movable /\ Movable \subseteq Names

Files == {FileOf[n] : n \in Names}
NoPath == 0 - 1
Block == 1             \* what a directory takes itself

VARIABLES
  top, depthLimit,     \* what this scan was asked
  inode, sealed,       \* the tree: inodes of directories, those that cannot be opened
  there,               \* the names that exist
  changes, stop,
  phase,               \* "first", "second" or "over"
  stage, todo, cands,  \* of each directory: where its job is, names to stat, rows to offer
  claims, decided,     \* Ctx::claims, Ctx::decided
  seen, met,           \* Ctx::seen, Ctx::met
  counted,             \* the names at which a file was counted
  rows, topDirs, topFiles, \* what each directory came to, and the two lists
  cut, unread, live,   \* Ctx::cut, Ctx::unreadable, ScanControl::files
  first,               \* the first walk's report, while the second runs
  moved                \* history: the files whose names changed meanwhile

input == <<top, depthLimit, inode, sealed>>
walkVars == <<stage, todo, cands, claims, seen, met, counted, rows, topDirs, topFiles, cut, unread>>
vars == <<input, there, changes, stop, phase, walkVars, decided, live, first, moved>>

-----------------------------------------------------------------------------
(* The tree. *)

Above[d \in Dirs] == IF d = Root THEN {d} ELSE {d} \cup Above[Up[d]]
Depth(d) == Cardinality(Above[d]) - 1
Under(d) == {e \in Dirs : d \in Above[e]}
Children(d) == {e \in Dirs \ {Root} : Up[e] = d}
NamesIn(d) == {n \in Names : DirOf[n] = d}

\* What a name is on disk: under a bind mount two paths are one entry.
Entry(n) == <<inode[DirOf[n]], NameOf[n]>>
Twins(n) == {k \in Names : Entry(k) = Entry(n)}
NLink(f) == Cardinality({Entry(n) : n \in {k \in there : FileOf[k] = f}})
Mounted == \E d, e \in Dirs : d # e /\ inode[d] = inode[e]

Listing(d) == \A e \in Above[d] \ {d} : e = Root \/ e \notin Closed
InnerListing(d) == Listing(d) /\ (d = Root \/ d \notin Closed)

-----------------------------------------------------------------------------
(* The lists of the largest rows: TopN and SharedTop. *)

Row(path, key) == [path |-> path, key |-> key]
\* rank: largest first, ties by path.
Ahead(a, b) == a.key > b.key \/ (a.key = b.key /\ a.path < b.path)
Best(S, n) == {a \in S : Cardinality({b \in S : Ahead(b, a)}) < n}

NoFloor == Row(NoPath, 0)
EmptyTop == [items |-> {}, floor |-> NoFloor]
NoUnread == [count |-> 0, kept |-> {}]

\* The floor is known once n items survived a cut.
Cut(list) ==
  LET kept == Best(list.items, top)
  IN [items |-> kept,
      floor |-> IF Cardinality(kept) = top
                  THEN CHOOSE a \in kept : \A b \in kept \ {a} : Ahead(b, a)
                  ELSE list.floor]

\* SharedTop::wants, which reads the floor's key without the lock.
Wants(list, key) == top > 0 /\ key >= list.floor.key
Takes(list, row) == list.floor = NoFloor \/ Ahead(row, list.floor)
\* TopN::push: a short list is cut at once, a long one at twice its length.
Pushed(list, row) ==
  LET more == [list EXCEPT !.items = @ \cup {row}]
  IN IF ~Takes(list, row) THEN list
     ELSE IF top <= SortedInsertCap \/ Cardinality(more.items) >= 2 * top THEN Cut(more)
     ELSE more

-----------------------------------------------------------------------------
(* Entering a directory. *)

FileRow(n) == Row(n, Size[FileOf[n]])
Candidates(d) == {n \in cands : DirOf[n] = d}
Opened(d) == stage[d] \notin {"new", "gone"} /\ d \notin sealed /\ Depth(d) <= depthLimit

Walking == phase \in {"first", "second"}
Go(d, s) == stage' = [stage EXCEPT ![d] = s]

Ready(d) ==
  /\ Walking
  /\ stage[d] = "new"
  /\ d # Root => stage[Up[d]] = "below"

\* A stopped scan skips what it has not entered; the PATH itself is entered.
EnterStopped(d) ==
  /\ Ready(d) /\ d # Root /\ stop
  /\ cut' = TRUE
  /\ Go(d, "gone")
  /\ UNCHANGED <<input, there, changes, stop, phase, todo, cands, claims, decided, seen, met,
                 counted, rows, topDirs, topFiles, unread, live, first, moved>>

\* Too deep: known only by its stat, its own block counts and nothing below.
EnterDeep(d) ==
  /\ Ready(d) /\ (d = Root \/ ~stop) /\ Depth(d) > depthLimit
  /\ rows' = [rows EXCEPT ![d] = Block]
  /\ Go(d, "done")
  /\ UNCHANGED <<input, there, changes, stop, phase, todo, cands, claims, decided, seen, met,
                 counted, topDirs, topFiles, cut, unread, live, first, moved>>

\* Ctx::unread: all are counted, the first few kept by name.
Unread(path) ==
  [count |-> unread.count + 1,
   kept |-> IF Cardinality(unread.kept) < UnreadKept THEN unread.kept \cup {path}
            ELSE unread.kept]

\* It cannot be opened: as above, but with a row of its own.
EnterSealed(d) ==
  /\ Ready(d) /\ (d = Root \/ ~stop) /\ Depth(d) <= depthLimit /\ d \in sealed
  /\ unread' = Unread(d)
  /\ rows' = [rows EXCEPT ![d] = Block]
  /\ Go(d, IF d = Root THEN "done" ELSE "self")
  /\ UNCHANGED <<input, there, changes, stop, phase, todo, cands, claims, decided, seen, met,
                 counted, topDirs, topFiles, cut, live, first, moved>>

\* `dirs_seen`: a directory met again is walked once.
EnterAgain(d) ==
  /\ Ready(d) /\ (d = Root \/ ~stop) /\ Depth(d) <= depthLimit /\ d \notin sealed
  /\ \E e \in Dirs \ {d} : Opened(e) /\ inode[e] = inode[d]
  /\ Go(d, "gone")
  /\ UNCHANGED <<input, there, changes, stop, phase, todo, cands, claims, decided, seen, met,
                 counted, rows, topDirs, topFiles, cut, unread, live, first, moved>>

\* Open it and list its names.
EnterOpen(d) ==
  /\ Ready(d) /\ (d = Root \/ ~stop) /\ Depth(d) <= depthLimit /\ d \notin sealed
  /\ \A e \in Dirs \ {d} : Opened(e) => inode[e] # inode[d]
  /\ Go(d, "stat")
  /\ todo' = [todo EXCEPT ![d] = NamesIn(d) \cap there]
  /\ UNCHANGED <<input, there, changes, stop, phase, cands, claims, decided, seen, met,
                 counted, rows, topDirs, topFiles, cut, unread, live, first, moved>>

-----------------------------------------------------------------------------
(* Counting the names of a directory: its stat jobs take them in any order. *)

Listed(d, n) ==
  /\ Walking /\ stage[d] = "stat" /\ n \in todo[d]
  /\ todo' = [todo EXCEPT ![d] = @ \ {n}]

Known(f) == phase = "second" /\ decided[f] # NoPath

\* The name went between the listing and the stat.  (A second walk may take
\* the stat of a linked file from the first one, and then misses nothing.)
StatMissing(d, n) ==
  /\ Listed(d, n) /\ n \notin there
  /\ unread' = Unread(n)
  /\ UNCHANGED <<input, there, changes, stop, phase, stage, cands, claims, decided, seen, met,
                 counted, rows, topDirs, topFiles, cut, live, first, moved>>

\* Ctx::counts_here, as what it does to seen, claims and met and whether the
\* name takes the file's count.
CountsFirst(f) ==     \* first_link
  [counts |-> NLink(f) = 1 \/ f \notin seen,
   seen |-> IF NLink(f) = 1 THEN seen ELSE seen \cup {f}, claims |-> claims, met |-> met]

(* Mutant: a smaller path that took the claim over still passes for the one counted. *)
ClaimForgets(n, f) ==
  [counts |-> claims[f].path = NoPath, seen |-> seen, met |-> met,
   claims |-> IF claims[f].path = NoPath \/ n < claims[f].path
                THEN [claims EXCEPT ![f] = [path |-> n, there |-> TRUE]] ELSE claims]

Claim(n, f) ==        \* LinkClaims::claim: the first sighting counts, the smallest path is kept
  [counts |-> claims[f].path = NoPath,
   seen |-> seen, met |-> met,
   claims |-> IF claims[f].path = NoPath THEN [claims EXCEPT ![f] = [path |-> n, there |-> TRUE]]
              ELSE IF n < claims[f].path THEN [claims EXCEPT ![f] = [path |-> n, there |-> FALSE]]
              ELSE claims]

CountsAt(n, f) ==     \* a second walk: at the decided path only
  [counts |-> decided[f] = n, seen |-> seen, claims |-> claims,
   met |-> met + (IF decided[f] = n THEN 1 ELSE 0)]

CountsHere(n, f, reused) ==
  IF top = 0 \/ (~reused /\ NLink(f) <= 1) THEN CountsFirst(f)
  ELSE IF Known(f) THEN CountsAt(n, f)
  ELSE IF phase = "second" THEN CountsFirst(f)
  ELSE Claim(n, f)

\* stat_entries and Stats::add_file.
Stat(d, n) ==
  LET f == FileOf[n]
  IN \E reused \in {r \in BOOLEAN : r => Known(f)} :
       LET c == CountsHere(n, f, reused)
       IN /\ Listed(d, n)
          /\ reused \/ n \in there
          /\ seen' = c.seen /\ claims' = c.claims /\ met' = c.met
          /\ counted' = IF c.counts THEN counted \cup {n} ELSE counted
          /\ cands' = IF c.counts /\ Listing(d) /\ Wants(topFiles, Size[f])
                        THEN cands \cup {n} ELSE cands
          /\ UNCHANGED <<input, there, changes, stop, phase, stage, decided, rows, topDirs,
                         topFiles, cut, unread, live, first, moved>>

\* The jobs are joined: each adds to the live counter, and the best candidates are kept.
StatsDone(d) ==
  LET best == {r.path : r \in Best({FileRow(n) : n \in Candidates(d)}, top)}
  IN /\ Walking /\ stage[d] = "stat" /\ todo[d] = {}
     /\ live' = live + Cardinality(NamesIn(d) \cap counted)
     /\ cands' = (cands \ NamesIn(d)) \cup (IF InnerListing(d) THEN best ELSE {})
     /\ Go(d, IF InnerListing(d) /\ best # {} THEN "offer" ELSE "below")
     /\ UNCHANGED <<input, there, changes, stop, phase, todo, claims, decided, seen, met,
                    counted, rows, topDirs, topFiles, cut, unread, first, moved>>

-----------------------------------------------------------------------------
(* Offering rows: a look at the floor, then the lock. *)

BestOf(d) == CHOOSE n \in Candidates(d) :
               \A k \in Candidates(d) \ {n} : Ahead(FileRow(n), FileRow(k))

LookFile(d) ==
  /\ Walking /\ stage[d] = "offer"
  /\ LET wanted == Wants(topFiles, FileRow(BestOf(d)).key)
     IN /\ Go(d, IF wanted THEN "push" ELSE "below")
        /\ cands' = IF wanted THEN cands ELSE cands \ NamesIn(d)
  /\ UNCHANGED <<input, there, changes, stop, phase, todo, claims, decided, seen, met, counted,
                 rows, topDirs, topFiles, cut, unread, live, first, moved>>

\* Once one is turned away the rest would be too.
PushFile(d) ==
  LET row == FileRow(BestOf(d))
      rest == IF Takes(topFiles, row) THEN cands \ {row.path} ELSE cands \ NamesIn(d)
  IN /\ Walking /\ stage[d] = "push"
     /\ topFiles' = Pushed(topFiles, row)
     /\ cands' = rest
     /\ Go(d, IF rest \cap NamesIn(d) = {} THEN "below" ELSE "offer")
     /\ UNCHANGED <<input, there, changes, stop, phase, todo, claims, decided, seen, met,
                    counted, rows, topDirs, cut, unread, live, first, moved>>

\* absorb_child: the largest subdirectory that may take its parent's row.
LargestChild(d, row) ==
  LET able == {row[c] : c \in {e \in Children(d) : Opened(e) /\ Listing(e) /\ row[e] >= MinSize}}
  IN Max({0} \cup able)

\* offer_self: no row where one subdirectory holds 90 % of it, artefacts apart.
Offered(d, row) ==
  /\ d # Root /\ Listing(d)
  /\ d \in Closed \/ ~(row[d] > 0 /\ LargestChild(d, row) * 10 >= row[d] * 9)

\* The subdirectories are back: add them up.
Absorb(d) ==
  LET sum == Block + MapThenSumSet(LAMBDA n : Size[FileOf[n]], NamesIn(d) \cap counted)
                   + MapThenSumSet(LAMBDA c : rows[c], Children(d))
  IN /\ Walking /\ stage[d] = "below"
     /\ \A c \in Children(d) : stage[c] \in {"gone", "done"}
     /\ rows' = [rows EXCEPT ![d] = sum]
     /\ Go(d, IF Offered(d, rows') THEN "self" ELSE "done")
     /\ UNCHANGED <<input, there, changes, stop, phase, todo, cands, claims, decided, seen, met,
                    counted, topDirs, topFiles, cut, unread, live, first, moved>>

LookSelf(d) ==
  /\ Walking /\ stage[d] = "self"
  /\ Go(d, IF Wants(topDirs, rows[d]) THEN "pushself" ELSE "done")
  /\ UNCHANGED <<input, there, changes, stop, phase, todo, cands, claims, decided, seen, met,
                 counted, rows, topDirs, topFiles, cut, unread, live, first, moved>>

PushSelf(d) ==
  /\ Walking /\ stage[d] = "pushself"
  /\ topDirs' = Pushed(topDirs, Row(d, rows[d]))
  /\ Go(d, "done")
  /\ UNCHANGED <<input, there, changes, stop, phase, todo, cands, claims, decided, seen, met,
                 counted, rows, topFiles, cut, unread, live, first, moved>>

-----------------------------------------------------------------------------
(* The scan: one walk, and perhaps a second one. *)

NoClaim == [path |-> NoPath, there |-> TRUE]

FreshWalk ==
  [stage |-> [d \in Dirs |-> "new"], todo |-> [d \in Dirs |-> {}], cands |-> {},
   claims |-> [f \in Files |-> NoClaim], seen |-> {}, met |-> 0, counted |-> {},
   rows |-> [d \in Dirs |-> 0], topDirs |-> EmptyTop, topFiles |-> EmptyTop,
   cut |-> FALSE, unread |-> NoUnread]

Report == [counted |-> counted, rows |-> rows, topDirs |-> topDirs, topFiles |-> topFiles,
           cut |-> cut, unread |-> unread]
NoReport == [counted |-> {}, rows |-> FreshWalk.rows, topDirs |-> EmptyTop,
             topFiles |-> EmptyTop, cut |-> FALSE, unread |-> NoUnread]

\* LinkClaims::settled.
Settled == \A f \in Files : claims[f].there

EndFirst ==
  /\ phase = "first" /\ stage[Root] = "done"
  /\ stop \/ Settled
  /\ phase' = "over"
  /\ UNCHANGED <<input, there, changes, stop, walkVars, decided, live, first, moved>>

\* Walk again with each linked file held to its smallest path.
StartSecond ==
  /\ phase = "first" /\ stage[Root] = "done"
  /\ ~stop /\ ~Settled
  /\ phase' = "second"
  /\ first' = Report
  /\ decided' = [f \in Files |-> claims[f].path]
  /\ live' = 0
  /\ stage' = FreshWalk.stage /\ todo' = FreshWalk.todo /\ cands' = FreshWalk.cands
  /\ claims' = FreshWalk.claims /\ seen' = FreshWalk.seen /\ met' = FreshWalk.met
  /\ counted' = FreshWalk.counted /\ rows' = FreshWalk.rows
  /\ topDirs' = FreshWalk.topDirs /\ topFiles' = FreshWalk.topFiles
  /\ cut' = FreshWalk.cut /\ unread' = FreshWalk.unread
  /\ UNCHANGED <<input, there, changes, stop, moved>>

(* Mutant: the second walk is trusted. *)
AllMetTrusted == TRUE

\* Every linked file was met at its path.
AllMet == met = Cardinality({f \in Files : decided[f] # NoPath})

\* A fixed path that was not met leaves its file uncounted: the first walk is kept then.
EndSecond ==
  /\ phase = "second" /\ stage[Root] = "done"
  /\ phase' = "over"
  /\ IF AllMet
       THEN UNCHANGED <<counted, rows, topDirs, topFiles, cut, unread>>
       ELSE /\ counted' = first.counted /\ rows' = first.rows
            /\ topDirs' = first.topDirs /\ topFiles' = first.topFiles
            /\ cut' = first.cut /\ unread' = first.unread
  /\ UNCHANGED <<input, there, changes, stop, stage, todo, cands, claims, decided, seen, met,
                 live, first, moved>>

-----------------------------------------------------------------------------
(* Meanwhile. *)

\* ScanControl::stop, set by the explorer or by Ctrl-C.
Stop ==
  /\ MayStop /\ Walking /\ ~stop
  /\ stop' = TRUE
  /\ UNCHANGED <<input, there, changes, phase, walkVars, decided, live, first, moved>>

\* Someone removes or makes a name of a file.
Unlink(n) ==
  /\ Walking /\ changes < MaxChanges /\ n \in Movable \cap there
  /\ there' = there \ Twins(n)
  /\ changes' = changes + 1 /\ moved' = moved \cup {FileOf[n]}
  /\ UNCHANGED <<input, stop, phase, walkVars, decided, live, first>>

Link(n) ==
  /\ Walking /\ changes < MaxChanges /\ n \in Movable \ there
  /\ there' = there \cup Twins(n)
  /\ changes' = changes + 1 /\ moved' = moved \cup {FileOf[n]}
  /\ UNCHANGED <<input, stop, phase, walkVars, decided, live, first>>

Rest == phase = "over" /\ UNCHANGED vars

-----------------------------------------------------------------------------

Init ==
  /\ top \in Tops /\ depthLimit \in DepthLimits
  /\ inode \in Shapes
  /\ sealed \in {S \in SUBSET Sealable : \A d, e \in Dirs : inode[d] = inode[e] => (d \in S <=> e \in S)}
  /\ there \in {Names, Names \ UNION {Twins(n) : n \in Late}}
  /\ changes = 0 /\ stop = FALSE /\ phase = "first"
  /\ stage = FreshWalk.stage /\ todo = FreshWalk.todo /\ cands = FreshWalk.cands
  /\ claims = FreshWalk.claims /\ seen = FreshWalk.seen /\ met = FreshWalk.met
  /\ counted = FreshWalk.counted /\ rows = FreshWalk.rows
  /\ topDirs = FreshWalk.topDirs /\ topFiles = FreshWalk.topFiles
  /\ cut = FreshWalk.cut /\ unread = FreshWalk.unread
  /\ decided = [f \in Files |-> NoPath] /\ live = 0 /\ first = NoReport /\ moved = {}

Step(d) ==
  \/ EnterStopped(d) \/ EnterDeep(d) \/ EnterSealed(d) \/ EnterAgain(d) \/ EnterOpen(d)
  \/ \E n \in Names : StatMissing(d, n) \/ Stat(d, n)
  \/ StatsDone(d) \/ LookFile(d) \/ PushFile(d)
  \/ Absorb(d) \/ LookSelf(d) \/ PushSelf(d)

Next ==
  \/ \E d \in Dirs : Step(d)
  \/ EndFirst \/ StartSecond \/ EndSecond
  \/ Stop \/ (\E n \in Names : Unlink(n) \/ Link(n))
  \/ Rest

Spec == Init /\ [][Next]_vars

-----------------------------------------------------------------------------
(* Properties. *)

Item == [path : Dirs \cup Names, key : Nat]
TopList == [items : SUBSET Item, floor : Item \cup {NoFloor}]
Stages == {"new", "gone", "stat", "offer", "push", "below", "self", "pushself", "done"}

\* Rows a list holds between two pushes.
RoomFor(n) == IF n <= SortedInsertCap THEN n ELSE 2 * n - 1

\* The types of the variables, and the bounds of what the threads share
\* (TopN::push, UNREAD_KEPT).
TypeOK ==
  /\ top \in Tops /\ depthLimit \in DepthLimits /\ inode \in Shapes /\ sealed \subseteq Sealable
  /\ there \subseteq Names /\ changes \in 0..MaxChanges /\ stop \in BOOLEAN
  /\ phase \in {"first", "second", "over"}
  /\ stage \in [Dirs -> Stages] /\ todo \in [Dirs -> SUBSET Names] /\ cands \subseteq Names
  /\ claims \in [Files -> [path : Names \cup {NoPath}, there : BOOLEAN]]
  /\ decided \in [Files -> Names \cup {NoPath}]
  /\ seen \subseteq Files /\ met \in Nat /\ counted \subseteq Names
  /\ rows \in [Dirs -> Nat] /\ topDirs \in TopList /\ topFiles \in TopList
  /\ \A list \in {topDirs, topFiles} : Cardinality(list.items) <= RoomFor(top)
  /\ cut \in BOOLEAN /\ live \in Nat
  /\ unread.count \in Nat /\ unread.kept \subseteq Dirs \cup Names
  /\ Cardinality(unread.kept) <= UnreadKept
  /\ moved \subseteq Files

\* What one thread that meets the tree in path order would report.
Reached(d) == \A e \in Above[d] : e \notin sealed /\ Depth(e) <= depthLimit
Visited(d) == d = Root \/ Reached(Up[d])
TrueCounted ==
  LET met1 == {n \in there : Reached(DirOf[n])}
  IN {n \in met1 : \A k \in met1 : FileOf[k] = FileOf[n] => n <= k}
TrueRow ==
  [d \in Dirs |->
     Block * Cardinality({e \in Under(d) : Visited(e)})
     + MapThenSumSet(LAMBDA n : Size[FileOf[n]], {n \in TrueCounted : DirOf[n] \in Under(d)})]
TrueDirs == {d \in Dirs : Visited(d) /\ Depth(d) <= depthLimit
                           /\ (IF d \in sealed THEN d # Root ELSE Offered(d, TrueRow))}

\* Threads meet links and finish directories in any order, yet a scan that
\* nothing disturbs reports the same total for every directory and the same
\* rows (the second walk, LinkClaims::settled; SharedTop), and the same
\* unreadable entries while there are no more than are kept.
Agrees ==
  phase = "over" /\ moved = {} /\ ~stop /\ ~Mounted /\ top > 0 =>
    /\ counted = TrueCounted
    /\ \A d \in Dirs : Visited(d) => rows[d] = TrueRow[d]
    /\ Best(topDirs.items, top) = Best({Row(d, TrueRow[d]) : d \in TrueDirs}, top)
    /\ Best(topFiles.items, top) =
         Best({FileRow(n) : n \in {k \in TrueCounted : InnerListing(DirOf[k])}}, top)
    /\ LET blocked == {d \in sealed : Visited(d) /\ Depth(d) <= depthLimit}
       IN /\ unread.count = Cardinality(blocked)
          /\ unread.count <= UnreadKept => unread.kept = blocked

\* Wherever it is mounted, the walk may come to its directory.
WithinReach(n) == \A d \in Dirs : inode[d] = inode[DirOf[n]] => Reached(d)

\* A file whose names stay put is counted once, whatever happens to the others:
\* links, bind mounts, a second walk that is dropped, a stop (`met` in scan_pooled).
\* The live counter never shows more files than there are.
CountsOnce ==
  /\ \A f \in Files \ moved :
       LET at == {n \in counted : FileOf[n] = f}
       IN /\ Cardinality(at) <= 1
          /\ phase = "over" /\ ~cut /\ (\E n \in there : FileOf[n] = f /\ WithinReach(n))
             => at # {}
  /\ moved = {} => live <= Cardinality(Files)
=============================================================================
