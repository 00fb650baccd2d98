# rtrash in TLA+

rtrash is a FreeDesktop trash for the command line: `put` moves a file into a trash directory and
writes a record of where it came from, `restore` and `undo` bring it back, `rm`, `empty` and
`reap` delete for good, and `status --check --fix` repairs. Every command may run at the same time
as every other one, may be killed at any instant, and may meet a file system that refuses any
call. These modules model that, TLC checks them on small instances, and TLAPS proves the core for
any number of processes, names and files. Beside the core stand models of the caches, of Ctrl-C, of
retention, of `du` and its explorer, and of the Recycle Bin.

## 1. The system

### What is shared

A *trash root* is a directory with `files/` (the payloads), `info/` (one `NAME.trashinfo` record
per payload: original path, date, and the batch id of the put), a lock file `.rtrash.lock` that
every changing command `flock`s, and two caches: `directorysizes` and the running total with its
history. There is one root per volume (`Trash`, `.Trash/$uid`, `.Trash-$uid`). Everything else a
command knows, it read from there, mostly *before* it held the lock.

### Components

| component (source) | state | operations | what makes it correct |
|---|---|---|---|
| put (`put.rs`, `trashdir.rs`) | batch id; the record and the payload in hand | take the lock, write the record to a temporary, link it to a free name, move the payload (rename, or copy and remove across file systems), undo the record on failure | no payload without record, no record paired with another item's payload, no file lost on any error path |
| restore (`restore.rs`, `list.rs`) | the entry as the unlocked list read it; the staged file | look, lock, re-read the record, stage beside the destination, swap, place, unstage on failure, remove the record | moves the item it listed, never loses it, does not replace a file without `-f` |
| rm (`rm.rs`) | the entry as listed | lock, re-read, remove payload, remove record | deletes what it showed |
| empty (`empty.rs`, `fastdelete.rs`) | `Seen`: payload identities and record names counted before the question | lock, wipe the counted payloads in parallel, each record after its payload, then the rest of `info/`; age pass; `--dangling` | deletes what it counted, leaves pairs |
| status --fix (`trash_check.rs`) | the problems found by an unlocked scan | lock, scan again, remove what is still broken | never takes a record or temporary of a live put |
| Ctrl-C (`interrupt.rs`) | presses, open sections, deferred press, disposition | handler, open and end of a section, abortable copies | a section never ends halfway, a press is never forgotten |
| running total (`trash_total.rs`, `trash_history.rs`) | stored total with a stamp of `info/` and `files/` | read, store, carry over a change, forget | a stale total is never trusted |
| directorysizes (`trashdir.rs`) | one line per trashed directory with the mtime of its record | add on put, read, rewrite without the stale lines | a line is only used for the item it measured |
| retention (`retention.rs`, `budget.rs`, `space.rs`) | candidates over all roots | plan by age, size and free space; prune under every root's lock | deletes oldest first, no more than needed |
| permanent-deletion guard (`permanent_guard.rs`, `allow_roots.rs`) | cap, items used | gate one, gate many, remove | never more deletions than the cap |
| choice of the trash (`trashdir.rs`, `platform.rs`, `mount_probe.rs`) | none (mount table) | pick the root for a path | same volume when one is usable |
| undo (`undo.rs`) | none | group records into put runs, restore the last ones | undoes whole runs, newest first |
| list, info, status, filters | none | read and show, write measured sizes back | read-only but for the caches |
| reap (`reap.rs`, `reap_profiles.rs`, `reap_timer.rs`) | rules | select by rule and floor, then put or delete | never below a floor |
| Recycle Bin (`win_recycle.rs`, `wsl*.rs`) | the shell's `$R` payloads and `$I` records, `last-put.txt` | put, rm, empty, restore, --fix, purge, trim after a put | nothing lost, every whole payload named by a record, no lock to rely on |
| Finder trash (`finder*.rs`, `ds_store.rs`) | macOS's own trash | as above on that platform | same pairs discipline |
| du (`du.rs`) | per scan: link claims, shared lists of the largest rows, counters | walk every directory on many threads, walk again when a link counted at the wrong path, stop | the report of any interleaving is that of one thread |
| explorer (`du_tui.rs`) | cached views, running scans, marks, a delete, an undo list | scan, rescan, sort, mark, trash, undo, quit | views agree with the disk, whatever was trashed can be undone |
| dupes, ncdu and snapshot formats | measurements | compare, read, write | read-only |
| terminal interfaces, settings, safety checks | screen, settings | keys, refusals before any change | no trash state |

Interactions: commands meet only in the file system. The lock orders all changes of one root,
except the user's own file operations, and except what a command read before it. Within one
process rayon removes many victims at once, and a signal handler runs on any thread. rm, empty,
retention and reap go through the guard; put, restore, rm and empty carry or forget the total.

### What is hard here

* Every command looks first (often asks the user) and locks later, so each re-verifies under the
  lock that the name still holds what it saw. Too weak a check (same name, same path, record only)
  acts on another item.
* A kill at any instant leaves a record without payload, a blank record, a temporary, or a staged
  file; later commands work on top of that.
* Each step can fail, and each has its own undo, which can fail too.
* The removal of payloads is parallel and Ctrl-C stops it between items.
* Counters, stamps and caches are kept outside the lock, stamped in seconds.
* `du` counts a hard-linked file at whichever of its names a thread meets first, and reads the
  floor of a shared list without its lock; the answer must not show it.
* The explorer's loop takes in scans and deletes that began before what is now on the screen.
* The Recycle Bin has no lock that rtrash could take: a row is checked again, and then acted on.

PROJECT.json lists each hazard at its line with the properties aimed at it.

## 2. The modules

### The core: one trash root, all commands at once

| module | models | how |
|---|---|---|
| TrashRoot | the root, the user's tree, the processes | `live`, `files`, `info`, `temps`, `staged`, `lock` are the disk; the other variables are locals of a process, each named for its variable in the code; `stamp`, `created`, `counted`, `removed`, `discarded`, `clobbered` are history that no guard of the code reads |
| Put | `trash_put_locked`, `claim_name`, `create_put_temp`, `trash_move_locked`, `move_by_copy` | one action per system call that another process can see |
| Restore | `restore_one_to`, `Entry::relock`, `unstage` | as above; the two looks before the lock are one action |
| Remove | the locked part of `rm`, `permanent_guard::remove` | payload first, record after |
| Empty | `Seen::take`, the wipe, the age pass | any number of victims in flight at once, as rayon has them |
| Repair | `trash_check::fix`, `empty --dangling` | two scans, removals one by one |
| TrashSystem | composition, user, kills, properties | `Next`, `Spec`, `FairSpec` |
| TrashStore, TrashRefines | what the user is promised, and how the core keeps it | the abstract store and the refinement mapping |

A step of a process is what it does between two points at which another process could tell the
difference; the lock is `flock`, so a killed process drops it. All the user's paths share one
base name, so that puts compete for the same trash names. A file's bytes are a number, `Debris`
is a part of a file. A payload's `id` stands for device, inode and ctime (what `Seen` compares)
and its `item` for the put that brought it; only `id` is read by guards. What may go wrong is a
constant, `Faults`, so that a run chooses its failures; the theorems hold for every subset.

Properties (TrashSystem): `OneHolder` the flock excludes on every early return; `SamePut` a
record never pairs with the payload of another put; `PayloadHasRecord` a whole payload never
lacks its record; `OnlyCounted` rm and empty delete only what they showed; `RestoresListed` a
restore stages the item it listed; `LiveTempKept` no repair takes a live put's temporary;
`NothingLost` every file is somewhere, unless someone asked for its deletion; `CleanWhenFree`
without kills or stuck calls the root is all pairs whenever the lock is free; `Ends` every command
ends; `NeverClobbers` (violated, see section 5).

TrashStore has no files, names or locks: an item is pending, listed, away (in the hands of a
restore) or gone, it enters once, and is deleted only if a running deletion has shown it.
TrashRefines reads these off the disk: `Listed` is every name under which a whole payload meets a
whole record (what `list` shows), `Pending` the batches of puts that have not brought their item,
`Away` what restores hold in staging, `Shown` what the running rm and empty counted.
`ImplementsStore` says that the core is this store under any interleaving, failure or kill.

### Around the core

These take one concern each, with the trash itself reduced to what that concern reads.

| module | models | state |
|---|---|---|
| TrashTotal | the running total (`trash_total.rs`) and the arithmetic of put, rm, restore, empty, `--dangling` and the history line on it | `payloads`, `records`, `mtime` of `info/`, the stored `total` with its stamp, the lock; a process runs any command, one after another |
| Interrupt | `interrupt.rs` atomic by atomic | `presses`, `critical`, `deferred`, `stopFirst`, the mutex STATE, the disposition; a handler on each thread, which looks first and acts in a later step |
| DirSizes | the `directorysizes` cache (`trashdir.rs`) and every command that writes, trusts or drops a line | `payload`, `record` and `lines` per name, the lock; per command what it loaded and walked |
| Prune | `retention::prune` and the put, empty and purge that run it, the permanent-deletion gate | items with a root, a size and a date; a lock per root; per process what it counted, plans, has in the gate |

*TrashTotal.* An amount is the set of payloads and of records that it counts, so two totals are
equal only if they count the same items, not merely as many bytes. A clock that stands still
between changes models coarse mtimes; `Window` is the two seconds in which a stamp is not enough
and the records are counted too. `hurt` is history: it becomes true where the code has a flaw we
know of, which `TotalTrue` then excuses: the measurement stored without the lock, the one that
timed out (both in section 5), a restore or an age pass whose record stays
though its payload went, a put that ends in SourceLeft or another tool's change within one tick.
Every other way to a wrong total is a violation. Another tool, which knows no lock, moves only while
the lock is free, and commands are not killed here (the stamp of a half-done change is that of a
foreign one).

*Interrupt.* A thread opens a section, works and closes it, each in the code's steps, some under
STATE; `Batch` is `stop_then_quit`; a press runs the handler on any thread, between any two
steps. History: `armed`, `raced` (a section opened after a handler that will quit had looked),
`lost` (a press deferred when no section is left). Watches and abortable copies are left out.

*DirSizes.* The number of an item stands for its size, so a line is right only if it is that of the
item there. A line is trusted while its second is that of the record; a put takes `now' \in
now..MaxSeconds`, so several items may have a name within one second, which is the case the code
has to get right by the order of its steps. A put looks at its record, walks, and writes under the
lock if the record is the same; `payload_bytes` walks first and reads the second after; `write_back`
merges what it walked into the lines as it finds them. `rm` is a command that shows sizes and goes on
to remove what it listed. Any removal may fail: the payload stays whole, or is a directory removed in part
(`Part`), with its record; `rm` goes on to its next item with the line as it is, an empty and a purge with the
next victim, and an empty that was not stopped then drops the line of what it could not remove, since it was
none of the items it meant to keep (`PruneLines`). Properties: `SizesTrue` a trusted line is the size of the
item there; `PutsMeasured` the line a put wrote stays as long as its item, whatever others write back, until an
empty by age that could not remove the item leaves it without. Both
except the names in `fooled`, a history: an unlocked walk overtaken by the removal of its item, a
directory removed in part whose former size has a line or was walked for one, a
put that sized the item of a later put before it was there, a command killed before it dropped a
line (section 5 has the first three). Inodes, counted beside, are left out.

*Prune.* A root is a number, its place in the order of paths. A process that is idle starts a put
run, `empty [DAYS] --max-size`, or a purge (`reap --purge-trash`, `empty --until-free`). The age
pass takes any number of items at once through the gate, a prune one after the other, oldest
first. An item without a readable date (`Undated`) is older than any other to a prune, is among what a prune
after a cut leaves out, and is never old to the age pass.
A removal is one step under the lock; how payload and record go is the core's matter.
Left out: the largest-first policy, inodes, restores and rms meanwhile, and the question before.

Properties: `WithinCap` no run deletes more than the cap, with any number of removals in the gate
at once; `CountCovers` an empty that fitted the cap when counted is not refused halfway, unless
something was put since or a root was not locked to be counted; `NoWaitCycle` two commands never
wait for each other's roots; `UnderBudget` a prune in which nothing failed ends within its
budget, counting what it takes into account (after a cut it leaves the old items out, even when the age pass
was refused or stuck and they are still there); `OnlyOverBudget` and `OldestFirst` it takes an item only while it is over, and the oldest;
`Spares` an empty takes nothing that it did not count, a put nothing of its own run.
permanent_guard.rs:17-19 has a refused run delete nothing. That is so of a run that the count
refuses; when the gate refuses later, since a put came between the count and the locks, part is
gone. `CountCovers` says that nothing else leads there.

### Beside the trash

| module | models | state |
|---|---|---|
| DuScan | the pooled walk of `du.rs`: `walk_dir`, `stat_entries`, `LinkClaims`, `SharedTop`, `scan_pooled` with its second walk | per directory a job that any worker may run; claims and decided paths of linked files; the two shared lists; unreadable entries |
| Explorer | `du_tui.rs`: the loop, the scan threads, the delete thread, undo | views, jobs, marks, the delete with its channel, the undo list; the disk underneath |
| Recycle | `win_recycle.rs`, `wsl_bin.rs`, the budget after a put | payload and record of each id, the user's files, `last-put.txt`; per process its rows and its plan. The shell's own put and purge are external, one step an item |

*DuScan.* A thread's reads of shared state (`Wants`, the floor of a list) and what it does with them are
steps of their own. Properties: `Agrees` a scan that nothing disturbs reports, for every directory and
both lists of rows, what one thread meeting the tree in path order would; `CountsOnce` a file whose
names stay put is counted once, whatever happens to the others: links, a bind mount, a stop, a second
walk that is dropped.

*Explorer.* A row whose `bin::trash` answers an error (`RowFails`) may still have left the disk: its copy is
whole in the trash and part of the original is gone (`SourceLeft`; `Foreign` is the rows on another file
system), or it went to the bin of Windows, which gives no ticket (`Recycled`). `strays` keeps what such a row
held and what of it stays. Properties: `Undoable` whatever the session trashed and has a ticket of is in a step
of the undo list, or with the delete that runs, or was reported as failed to undo, and no step has a ticket of
anything else; what a failed row left in the trash or in the bin has none (section 5); `NoGhosts` no view of a
trashed directory stays, even one that a scan begun before hands over after, but for those of directories that
went with a failed row; `TotalsRight` if no scan met a change, no row was
trashed by the size of a mark that had lost its view, and none that failed left the disk (`torn`), rows, sizes
and totals of every cached view are those of the disk; `ScanningHasJob` a view that waits for
its sizes has a scan under way, so its rows can be trashed at some time; `QuitWaits` the program does
not end with a row halfway; `TypeOK` with the cursor on a row and the marks on rows. A trashed row leaves a
ticket that names it in the trash, which goes from the delete to the undo list as the code's `Trashed` does: a
path may be trashed, made anew and trashed again. A row is marked by its index here and by its path elsewhere, as
in the code, and two rows of one path are two.

*Recycle.* A restore to another volume looks at the destination (`CopyLook`), reads the source, and makes its
copy there (`CopyStart`), each in a step of its own; a copy that fails takes back whatever is at the
destination by then, if nothing was there at the look (`TakesBack`). The path that the shell records may be
spelt otherwise than the one typed: `RowOf` keeps the recorded one, `SamePath` is the exact comparison of the
trim, `FromLastPut` the one by `key_of`. A record that is no file (`Stray`) is reported and kept. It implements
the same `TrashStore` as the core (`ImplementsStore`), with `Listed` the
records that meet their payload. Further: `NothingLost` each file is at a path or in the bin unless
someone asked, or a restore replaced it or took it back with its own failed copy (`clobbered`);
`RecordBeside` no command leaves a payload without record, wherever it fails or is
killed; `RestoreKeeps` (violated).
`TrimSpares`, that a put never trims what it has just moved, does not hold either and is in no run.

TrashTotal, Interrupt, DirSizes and Recycle have a `TypeOK` each that is proved and is in no run; that of DuScan
TLC checked while it was built.

## 3. Runs

| run | instance | shows |
|---|---|---|
| repairs | put without hard links, rm, --fix, --dangling; kill | no repair takes what a live command relies on, whoever is killed; the lock excludes |
| cross_device | put, restore, rm across file systems; failing writes, sources, placements | no file is lost on any error path; the store is implemented |
| clean | put, restore, empty; refused writes, stuck payloads, Ctrl-C; `FairSpec` | pairs only when free; only what was counted is deleted, each payload before its record; every command ends |
| restore_race | put, restore, user | violated: the destination replaced without `-f` |
| total | 2 processes, 2 items, `Window` 1, `MaxTick` 1, every fault | a trusted total is right, and is carried |
| dir_sizes | 2 commands, 2 names, 2 directories, 2 seconds; any removal may fail, a kill | a trusted line is right, a put's line is kept |
| sections | 2 threads, 2 items each, 3 presses; `FairSpec` | the disposition, first and second press, whole sections, no press forgotten |
| prunes | 2 processes, 2 roots, 1 old item (in the first root, of the first date or none) and 2 more, sizes and dates 1..2, budget 2, cap 1, 2 commands, every fault | all of Prune's properties |
| scan | 4 directories of which one is a closed artefact and one a bind mount in some trees, 7 names of linked and plain files, one name that comes or goes, a stop, lists of 0 to 2 rows | any interleaving reports what one thread would |
| explorer | a top with a directory on another file system and a file that goes to the bin of Windows, a file below; 3 scans or foreign changes, a delete, a mark | views, undo and the end of the loop |
| recycle | 2 processes, 2 items, 2 files, 2 volumes, 1 damaged entry, 3 commands; held, failing copies, kill | nothing lost, records beside, the store |
| bin_clobber | 1 process, 2 items, no fault | violated: a restore replaces what it has just brought back |

Bounds of the core: `NumNames` 2, `MaxFiles` 2, `MaxStamp` 2 or 3, one process per command. Two
names are what it takes for a name to be skipped and for an item to return under the other one; two
files are what it takes to mistake one for the other; three stamps allow a put, a restore that
returns its payload, and another put, the longest story any of the checks could confuse. Every
command can run again after it ended or was killed, so one process per command stands for a
sequence of them; two of one kind at once differ only in their locals, and the theorems hold for
any number. The user's path is one because that is the worst case: everything then competes for the
same destination.

Bounds of the others: two processes are the measurer and the one that overtakes it, the prune and
the one that puts or prunes beside it; `MaxTick` = `Window` lets a stamp be fresh and be old. Three
presses are a first, a second and one too many; two items per thread let a section open after one
has closed. In prunes three items are two to choose between and one that comes in between, a
budget of 2 holds one large item or two small ones, and with a cap of 1 a second deletion in the
gate is one too many. Two commands are one run against another, the gate's counter starts anew with
each. Larger roots only repeat the choice, and all of these are proved for any number.
In dir_sizes two names are what it takes for one command to undo another's line, two items let a
name change hands, or lie side by side for an `rm` to fail at one and go on to the other. `SomeAnswered` stops
where every name is in `fooled`: names never leave it and both properties are of the others. Files, which have
no line, and a third item are in the proof. In scan every file with links has its names in
different directories, `SortedInsertCap` 1 makes a list of two leave its sorted form, and `DepthLimits`
1 cuts the tree above its depth. In explorer one delete of a mark and of a row under the cursor are two
shapes of batch; three events are a first scan, one of the directory below, and one rescan or change
that overtakes; after a row that failed and left the disk there are two (`FewerScans`). No directory lies two down there, so the case of `Tears` that is of marks does not come up in that run; with
4 a directory too it does, in under five minutes, and the proof has it for any tree. `View` there makes
one state of sessions that have quit with nothing left to do, and forgets how many marks were set once
no delete is left (MCExplorer says why that loses nothing). In recycle three commands are a put and two that race for
its item. What lies in the trash of prunes at first is in one root and no younger than what comes (`OldFirst`);
the two items put are in any.

The kill of a command in the core is in repairs, with put, rm and both repairs, and in the theorems
for every command; cross_device and clean leave it out to keep their faults apart.

`View` (MCTrash, MCTotal, MCPrune, MCRecycle) drops locals where no step or property reads them before they
are set; it is used for safety only, and so is symmetry. The mapping of the store reads only what
`View` keeps; `FilesView` keeps the history that NothingLost reads too. Deadlock is not checked: the bounds
stop the user, the clock, the presses and the commands.

Fairness. Core (`FairSpec`): weak fairness of `Continue(p)` for each process, which is that the
kernel runs a started process. While it waits for the lock `TimeOut` keeps `Continue` enabled, as
the acquisition loop in `trashdir.rs` polls with a deadline; no fairness is assumed of the lock.
Nothing makes anyone start a command. Interrupt (`FairSpec`): weak fairness of `Step(t)` for each
thread, in its work or in its handler; presses and batch runs are under no fairness.

## 4. Proofs

| module | theorems (of every run of `Spec`) | inductive invariant |
|---|---|---|
| TrashSystemProofs | `TypesHold`, `LockExcludes`, `PairsMatch`, `PayloadsListed`, `FilesKept`, `DeletesCounted`, `TempsKept`, `RestoresRight`: TypeOK, OneHolder, SamePut, PayloadHasRecord, NothingLost, OnlyCounted, LiveTempKept, RestoresListed | IInv (TrashInv) |
| | `TrashClean`: CleanWhenFree | CleanInv (TrashInv), beside IInv |
| | `StoreImplemented`: ImplementsStore | RecordsApart, beside IInv |
| PruneProofs | `LocksOrdered`, `CapHolds`: NoWaitCycle, WithinCap | LockInv, GateInv |
| | `PruneTyped`, `CountedFits`, `PruneReaches`, `PruneNeeds`, `OldestGoes`, `PruneSpares`: TypeOK, CountCovers, UnderBudget, OnlyOverBudget, OldestFirst, Spares | PruneInv |
| TrashTotalProofs | `TotalIsTrue`, `TotalCarried`: TotalTrue, Carries | IInv |
| DirSizesProofs | `TrustedSizes`, `MeasuredStays`: SizesTrue, PutsMeasured | IInv |
| InterruptProofs | `DispositionKept`, `FirstPressStops`, `SectionsWhole`: DispositionRight, FirstStops, SectionWhole | IInv |
| ExplorerProofs | `ExplorerTyped`, `AlwaysScanning`, `QuitsAfter`, `KeepsNoGhost`, `AlwaysUndoable`, `TotalsStayRight`: TypeOK, ScanningHasJob, QuitWaits, NoGhosts, Undoable, TotalsRight | ScanInv, DeleteInv, StrayInv, GhostInv, TicketInv, PlaceInv, WholeInv, SizesInv |
| DuScanProofs | `AlwaysOnce`, `AlwaysAgrees`: CountsOnce, Agrees | IInv, CalmInv |
| RecycleProofs | `RecycleLosesNothing`, `PayloadHasRecord`, `RecycleIsStore`: NothingLost, RecordBeside, ImplementsStore | IInv |

Each module also proves the TypeOK of its component, of which the parts are needed anyway. All hold
for every value of the constants that the named assumptions allow: `ProcAssumption`,
`BoundAssumption` and `ModeAssumption` (TrashRoot), `NumberAssumption` and `ProcAssumption` (Prune),
`WindowAssumption`, `ItemAssumption` and `ProcAssumption` (TrashTotal), `ProcAssumption` and
`BoundAssumption` (DirSizes), `ThreadAssumption`, `MainAssumption` and `LimitAssumption` (Interrupt),
`TreeAssumption` and `OptionAssumption` (Explorer: a finite tree in which what is below has a greater number),
`TreeAssumption`, `MountAssumption` and `OptionAssumption` (DuScan: such a tree, in which two paths of one
directory show the same directories and files, and what cannot be opened is a directory),
`PathAssumption`, `BoundAssumption` and `JunkAssumption` (Recycle). They say that names for "nobody" are
not processes, that bounds are numbers, that a set of threads, items or paths is finite where it is counted,
that the trash of Prune starts with no more items than there may ever be, and that Recycle has a path.
None of the properties is inductive as it stands. TLC checked each invariant below on the run of its
component, as an invariant, before it was proved.

**The core.** A restore may remove a record only because it is the one of the payload it staged; that
holds because it re-read the record under the lock and the lock has kept everyone else out since. So
IInv adds to the properties (a) the shape of names (`PayloadShape`, `PayloadWhole`), (b) that the batch of
a put which has not moved its operand is nobody's identity yet (`FreshBatch`), without which an old count
could adopt a new payload, and (c) for each process `Holds(p)`: what its program counter promises about the
trash. TrashSystemProofs proves first what a step of one process leaves true for the others, once for the steps
that change the trash (then the stepping process holds the lock, so a bystander is not in a locked
section) and once for the steps that do not; then one lemma `XKeeps` per action X, IInv /\ X => IInv', with a step per part of IInv that the action can disturb.

**Clean when free.** Whoever gives the lock back must have paired what it unpaired, on each error path.
`CleanInv` says, for a trash in which nothing was killed or got stuck and nobody meddled, which one name
may be without its other half at each place of the holder's section.

**The refinement.** Two names must never show one item, or a removal under one name would not
remove it from `Listed`. `RecordsApart` says so, with the batch of a put that has no record yet; it
is inductive beside IInv (`BatchesApart`). Then one lemma per command (`PutRefines`,
`RestoreRefines`, `RemoveRefines`, `EmptyRefines`, `FixRefines`, `EndRefines`, `UserRefines`)
maps each action to a step of the store or to a stutter, over lemmas about what one changed name does
to `Listed`, and one changed process to `Pending`, `Away` and `Shown`.

**The prune.** `LockInv`: a lock's holder is in a place where it holds locks, and a process that
waits has only roots before those it still wants. Two processes in each other's way would need a
root before and after the same root. `GateInv`: what a run has deleted, let through and is about
to refuse is at most the gate's counter, and the first two are at most the cap; and the gate is
empty whenever a command starts to count anew. The counter alone does not do: it may lie above the
cap for a moment. PruneInv has four more parts. `TypeInv` gives each item a number of its own and each place
a command. `FenceInv`: a prune has the locks of its roots and what it has doomed lies in them, so nobody else
adds to or takes from what it measures (`InsideKept`). `SortInv`, of a prune that deletes: one item
is in the gate; it is older than all that is still planned; each doomed item is such that what is left when
all older ones are gone is more than max (`Needed`); and if nothing failed, what is not doomed is younger than what
is, and what is left over it is at most max (`Enough`). The plan is computed once and each removal changes
all its sums, so the step that matters is that a removal of the oldest item changes none of these
remainders (`LeftOver`). From it follow `OnlyOverBudget`, `OldestFirst` and, when nothing is doomed any more,
`UnderBudget`. `RoomInv`, for `CountCovers`: what the age pass has left to take, and the plan a prune would make
with every lock, fit with what is used under the cap, and neither grows by what others delete (`LessLeft`).
`Bytes` is a fold over a set. That it adds up (`BytesRemove`, `BytesSplit`) is shown by a smallest
counterexample, from the library's `WFMin`, since an induction rule is out of the provers' reach.

**The running total.** `Told` says what the file holds while a command is in its section, if its stamp is not
stale: the trash as it was before, since the command has not stored yet; `Carried` what the command will
store. Both are stated at each place by the one item in hand, and `InHand` says where its two halves are.

**directorysizes.** `LineTrue`: a line is of the item there, or the record is gone and some process has still to
drop the line; a name at which a removal stopped halfway is in `fooled` if any line or walk has its whole size. What makes a write right is `Sized`: when the record a put looked at is still the one there,
its walk was of that record's payload and is not of the same second as the record; and `Walked`: what a
command walked under the lock, or looked at before, is still there or its line is of nothing.

**Interrupt.** `Counted`: CRITICAL is the number of threads in a section. `Installed`: what STATE keeps is the
disposition to go back to, kept for good in a batch run and otherwise for as long as a section is open. `Whole`: a
handler that is about to quit has seen no section, so a section open now opened since, which `raced` records.
`First`: while there was one press, every handler at work handles it.

**Recycle.** There is no lock, so each process's promises must survive any step of any other. They do as an
id is never used twice: once its put has brought the item or failed (`Known`), no payload comes to it again
and its record is as it was until it goes, so a row listed at any time is either right or of nothing
(`AsListed`). `Apart` keeps two puts from one id and two copies from one destination; `Somewhere` is
NothingLost without the payloads that are about to be dropped.

**The explorer.** Rows are sorted, inserted and filtered, sizes carried up a chain, and an undo is a fold
over the rows of its step. What one step of such a fold keeps, the fold keeps: the values it takes are put
in a sequence (`SequenceFold`), and the least index at which a claim fails is refuted. That a sorted order
exists at all (`CHOOSE` in `InOrder`) is shown in the same way, over the size of the set. On that rest eight
invariants. `ScanInv`: the types, and `Waits`, a scan for each view that waits. A step keeps it if it starts a
scan with every view it opens and drops no scan but with its answer. `DeleteInv`: no delete on means no
thread at work, nothing sent and nothing put by; a loop that is over has no delete on. `GhostInv`: each cached
directory is on the disk, or lies in a row that the thread has trashed and the loop has not heard of
(`Unheard`), or went with a row that failed (`Untold`); the scan that lands meanwhile is why `take_view` asks the disk. `TicketInv`: the trash is exactly
what the undo steps, the delete and the failed undos hold, and no ticket is in two of these places; without
the second half an undo of one step could take the ticket of another. `PlaceInv`: the cursor and the marks are
on rows, and there are no marks while a delete runs, since only a delete takes rows from the view on screen
without setting the marks anew. `StrayInv` says what a stray is made of, and `WholeInv` that while nothing
tore no failed row has left the disk. Each has a lemma for every action that can disturb it.

`SizesInv` is what TotalsRight needs while nothing tore, beside those before. A view that waits for no first
scan has the total and the rows of what is `Seen`: the disk, and what the thread has trashed that the loop has
not heard of (`ViewsRight`). A scan at work has for each entry it read the row that the disk gives
(`JobsRight`), and what a delete has yet to trash is written down at its size on the disk (`TodoRight`). What a
ticket holds is a whole subtree whose size is its row's (`AllPacked`), off the disk and apart from what else is
off it since, its parent there at the time (`AllAbsent`, where `Later` is the disk as it was after a step of the
undo list): so whatever a row takes away its undo gives back, in the reverse order. Sizes themselves are sums
over sets of paths; all that one step has to know of them is that the total of a directory is its own and its
rows' (`DirSize`), that what comes or goes below a row changes each total above by as much and no other
(`SizeMoves`), and that no amount carried off is more than there is (`SizeWithin`), so that `Shift` loses
nothing at its floor. `CarryUp`, `CarryDown` and `CarrySame` say the same of `Carry`.

**The scan.** The walk (`OpenInv`, `MountInv`): a directory that was entered was opened, unless something bars
it, below an open one and once among its mounts, and closes after all below it. So when the PATH is done, each
directory within reach was opened at one of its mounts (`AllOpened`, by the least path that was not) and its
names were all taken. `TakenInv`: a name that was taken counted its file or found it counted. `OneInv` is what
CountsOnce says of the walk; it holds since each file that counted is claimed, among the files seen, or held
to the path it counted at (`BarInv`), and which of the three a name asks depends on nothing that changes
during a walk (`SeenInv`, `ClaimInv`, `DecidedInv`: `Ways`). `MetInv`: no more decided paths are met than
counted, so a second walk that met as many as there are counted them all, and otherwise the first walk's
report, of which the same was true, is put back.

For `Agrees` CalmInv is proved beside it. `RowsInv`: a directory that is back has its block, its names and its
subdirectories, if it was opened, so when the PATH is done the row of each is the sum of all that is below it:
what is below two subdirectories has nothing in common (`UnderParts`), and the sum of such sets is the sum of
their union (`SumFamily`); the directory with the greatest path for which that fails is refuted. `Covers`,
of both lists: of the rows due so far that are neither in the list nor still waiting to be offered, each has
as many ahead of it as the list is long, and so has whatever is behind the floor. That a stale look at the
floor turns away only such rows is `CoversUnwanted`; at the end nothing waits (`CoversBest`). `LeastInv`,
while nobody stops the scan or touches a name: a claim is the least name of its file taken so far, and is
settled if it is the one counted; a decided path is the least name within reach; as many decided paths are
met as counted. So the names counted at the end are the least of each file, in the first walk if it is
settled and otherwise in the second, which then is not dropped (`EndAllMet`). `UnreadInv` counts the
directories that could not be opened.

Only model-checked: `Ends` and `PressActs` (liveness, which this prover does not do), and the properties of the
runs that expect a violation.

## 5. Findings

* restore_race: `restore_one_to` reads `dest_exists` (`restore.rs:1125`) before it waits for the
  lock, and places with `fs::rename`, which replaces. A file made at the destination meanwhile is
  destroyed though README.md:411 says that the default refuses. `clobbered` records it, and so
  `NothingLost` excepts it.
* bin_clobber: `restore_one` of the Recycle Bin checks every destination while it plans
  (`win_recycle.rs:3511-3549`) and not again before `restore_payload`, whose rename replaces. Two items
  of one original path, or of one name with `--to`, are restored in one go and the second lands on the
  first, though win_recycle.rs:3026 has "refuse (default)".

What follows was met on the way and has no run of its own. The model has the behaviour, and a property
either excuses it by a history variable or states it and is in no run: `TrimSpares` in Recycle,
`StaleNeverTrusted` in TrashTotal, `SectionNeverCut` and `DeferredActs` in Interrupt, `OnlyWhenShort` in Prune;
`FailedRowsStay`, `NeverPanics`, `MarksStay`, `ConfirmedRows`, `ParentsWhole`, `MarksFresh` in Explorer. Put
one in the cfg of the component in place of what is there (with `Faults = {}` for the total and the bin, and
for `MarksFresh` with 4 among `Dirs`), and TLC shows the steps.

* A put's trim takes what the put has just moved: `prune_after_put` (`win_recycle.rs:2758`) hands the paths as
  typed to `trim_after_put`, which compares them exactly (`budget.rs:129`); every other match goes through
  `key_of` (`win_recycle.rs:2579`, 2679). A put whose path the shell records in another case, or through the name
  of the volume, counts as another's, though README.md:308 says that what a put has just trashed always
  stays (`TrimSpares`).
* A failed copy of the bin removes what is at its destination (`win_recycle.rs:232`), even what another restore
  or the user has put there since the look at 228: the file may have been the last copy (`clobbered`).
* Rows that failed: `bin::trash` (`du_tui.rs:228`) makes an error of a row that the bin of Windows took, and of one
  whose copy is whole in the trash while the original could not all be removed. du_tui.rs:153 has such rows
  as "Rows that stayed, with why". What they left in the trash is in no undo step, and what the views had
  of them stays until a rescan (`FailedRowsStay`; `strays`).
* Total stored without the lock: `bytes()` (`trash_total.rs:129-151`) counts the records, has `prune`
  measure, and stores the two after the lock is gone, under the stamp that `info/` has by then.
  trash_total.rs:7 says "a stale total is never trusted" (`StaleNeverTrusted`; `hurt`).
* Zero stored as a total: when that prune does not get the lock it has measured nothing (`hurt`).
* A purge that takes all: `purge_oldest` (`reap.rs:2119-2130`) takes the size of a trash from a dry
  prune whose `left` is 0 when the lock is not had, and brings the trash down to 0 bytes.
  It also takes more than is still needed when others delete while it waits (`OnlyWhenShort`, of either).
* A section that ends halfway: the handler reads CRITICAL and then quits; a section opened by another
  thread in between is cut, which interrupt.rs:17 says never happens (`SectionNeverCut`; `raced`). And a press
  forgotten: a section that ends in between leaves it deferred to nobody (`DeferredActs`; `lost`).
* Sizes of another item: `payload_bytes` walks and then reads the second (`trashdir.rs:1842-1848`), and
  `write_back` does not look again. When the name changes hands meanwhile, the item that has it now is
  trusted with the size of the one before, until the line goes: what `record_dir_size` guards against
  at trashdir.rs:1308 (`fooled`). `rm` writes back the misses of items it has just removed, so lines of
  gone items stay until the next command.
* The size of a directory removed in part: when `permanent_guard::remove` fails in `rm` (`rm.rs:401-407`) or in a
  prune (`retention.rs:176-183`) the item stays with its record, and a line of its former size with it, which is
  trusted (`fooled`). After an empty the line goes with the other victims' (`empty.rs:917`), even that of an item
  of which nothing was removed; the next reader walks it.
* A put's guard passes too soon: when the record it first looks at is already that of a later put, whose
  payload is on its way, it sizes what is not there yet; the later put corrects it unless Ctrl-C skips its
  walk (`fooled`).
* Explorer: a rescan whose view a delete dropped panics (`du_tui.rs:1493`); the rows trashed may differ
  from those confirmed, since the view of a scan may land while the prompt is open (`du_tui.rs:1738`); an undo
  may leave a mark on another row (`du_tui.rs:2529`); parents take the sizes of a stopped view
  (`du_tui.rs:1454`).
* Explorer: a mark made in a quick listing has no size yet. A rescan of a directory further up drops the view it
  was made in (`du_tui.rs:1491`), and from then on the mark stays as it was (`current`, `du_tui.rs:1536`), though
  docs/newsfragments/+du-explorer-marks-rescan.fixed.md:1 says that marks show "their fresh sizes" through a
  rescan (`MarksFresh`). When it is trashed, `drop_row` takes that size off the totals above
  (`du_tui.rs:1873`), which stay too high until the top is scanned again; so does a mark from before an undo. An
  attempt to prove TotalsRight met it; `Tears` has it since, and excuses it.
* du: a directory mounted at two depths may be met first where it is as deep as the walk goes. It is then the
  one that was walked (`du.rs:2849`), its subdirectories are too deep (`du.rs:2769`), and the shallow path is
  skipped: files that one of its paths leads to are counted nowhere. So `CountsOnce` speaks of files within
  reach wherever they are mounted (`WithinReach`).
* du: a scan stopped in its second walk reports the first, with links where threads met them
  (`du.rs:4029`); an unreadable directory below an artefact is not among the unreadable (`du.rs:3477`).

## 6. Not modelled

* Parsing and printing, prompts, colours, key bindings and settings change no trash state.
* Policy refusals before the first change (protected paths, holders, allowed roots) are left out: a
  refused command is one that does not start.
* The Finder trash is driven through Finder and `.DS_Store`, both outside the repository; what is left
  of it here is a sequence of calls to them.
* The shell of Windows is external in Recycle; its quotas, several volumes' bins and the reading of a
  damaged `$I` beyond "bad" are left out.
* du's filters, shared extents, git, duplicates, and the ncdu and snapshot formats compute on
  measurements that no one changes; they are functions of data, and their bulk is parsing and layout.
  Drawing and key bindings of the explorer likewise.
* Volume choice, the grouping of undo, reap's rules and its loop are pure or sequential; they change
  the trash only through the commands of the core.

* The history of totals (`trash_history.rs:49`) is appended to and trimmed by several commands at once; a
  line may be lost, which nothing but a graph would show.

PROJECT.json has the status of every component.

## 7. Plan

Done: the core, its store, the refinement; Interrupt; TrashTotal; Prune; DirSizes; DuScan; Explorer;
Recycle as a second implementation of the store. Proved: every safety property and action property that the
passing runs check; and both refinements.

What is worth proving next: `MarksFresh`, once the code keeps marks so; its case of `Tears` goes with it.

What is worth modelling next: the sections of Interrupt within the wipe (a press between a payload's
removal and its section), `move_by_copy` over directories, and the pure algorithms of the last point of
section 6 in one run over small inputs.
