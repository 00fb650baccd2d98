------------------------------ MODULE Recycle ------------------------------
(***************************************************************************)
(* The Windows Recycle Bin, from Windows and from WSL.  The shell owns it: *)
(* an item is a payload `$R` + id and a record `$I` + id, under an id of   *)
(* its own that the shell draws at random.  rtrash has no lock on it: each *)
(* command lists the bin, checks its rows again just before it acts, and   *)
(* works beside the other commands.  The shell's own put and purge         *)
(* (trash::delete, os_limited::purge_all) are external, one step an item.  *)
(*                                                                         *)
(* Abstracted: every size is 1, so a budget counts items; one volume's bin *)
(* and the one volume besides it (Far); matching by name, size and age is  *)
(* the choice of any rows; --to=DIR is a Paths value rows may share; an    *)
(* item is copied to another volume as one file.                           *)
(***************************************************************************)
EXTENDS Naturals, FiniteSets, FiniteSetsExt

CONSTANTS
  Procs,
  Paths,       \* original paths, and the free names beside them
  Far,         \* those on another volume
  Beside,      \* [path |-> the name free_name tries first]
  Junk,        \* ids of damaged entries that no put of this model made
  MaxPuts, MaxFiles, MaxTick, MaxRuns,   \* bounds
  Budget,      \* RTRASH_MAX_SIZE
  Faults       \* subset of {"send", "held", "copy", "kill"}

ASSUME PathAssumption ==
  Paths # {} /\ Far \subseteq Paths /\ Beside \in [Paths -> Paths]
ASSUME BoundAssumption ==
  /\ MaxPuts \in Nat /\ MaxFiles \in Nat /\ MaxTick \in Nat /\ MaxRuns \in Nat
  /\ Budget \in Nat
ASSUME JunkAssumption == Junk \cap 1..MaxPuts = {}

VARIABLES
  file,       \* what each path holds
  payload,    \* `$R` of each id
  record,     \* `$I` of each id
  now, stamp, created, runs,   \* seconds; ids drawn; files made; commands run
  lastPut,    \* last-put.txt: when the latest put began and what it moved
  op, pc,     \* what each process runs, and where it is
  rows,       \* the rows it still has to act on
  cur,        \* the row it acts on
  dest,       \* restore's plan: where each row goes
  policy,     \* --conflict
  since, src, mine,   \* put: a second before its start, its operand, its id
  fresh,      \* a copy's destination was not there as it looked
  seen,       \* history: the ids it listed to act on
  carry,      \* history: the file its restore has taken out of the bin
  gone,       \* history: files deleted or replaced on request
  clobbered   \* history: files a restore replaced without -f, or removed
              \* with its own failed copy

disk == <<file, payload, record>>
work == <<rows, cur>>
plan == <<dest, policy>>
putting == <<since, src, mine>>
locals == <<work, plan, putting, fresh, seen, carry>>
history == <<gone, clobbered>>
counters == <<now, stamp, created, runs>>
vars == <<disk, counters, lastPut, op, pc, locals, history>>

Ids == 1..MaxPuts \cup Junk
Files == 1..MaxFiles
None == 0                 \* no file, no payload
Part == MaxFiles + 1      \* a copy not whole
Debris == MaxFiles + 2    \* the payload of a damaged entry
NoRecord == [what |-> "none"]
Bad == [what |-> "bad"]   \* unreadable, or no `$I` record
Stray == [what |-> "stray"]   \* a folder or a link
RecordOf(x, t) == [what |-> "record", from |-> x, at |-> t]
NoRow == [id |-> 0]

There(x) == file[x] # None
HasRecord(i) == record[i].what = "record"
RowOf(i) == [id |-> i, from |-> record[i].from, at |-> record[i].at]

(* list_items: each record that parses and still has its payload.          *)
Listing == {RowOf(i) : i \in {j \in Ids : HasRecord(j) /\ payload[j] # None}}

(* What `status --check` reports.                                          *)
Problem(kind, i) == [kind |-> kind, id |-> i]
Problems ==
  {Problem(record[i].what, i) : i \in {j \in Ids : record[j] \in {Bad, Stray}}}
    \cup {Problem("dangling", i) :
            i \in {j \in Ids : HasRecord(j) /\ payload[j] = None}}
    \cup {Problem("orphan", i) :
            i \in {j \in Ids : payload[j] # None /\ record[j].what = "none"}}

(* recheck_bin_item: both files are there and the record reads as it did.  *)
Passes(r) == payload[r.id] # None /\ HasRecord(r.id) /\ RowOf(r.id) = r

(* The n oldest of a set of rows, whatever order ties come in.             *)
Oldest(S, n) ==
  {T \in kSubset(n, S) : \A t \in T, s \in S \ T : t.at <= s.at}

Over(total, max) == IF total > max THEN total - max ELSE 0

(* trim_after_put: this put's own rows count and never go.  They are the   *)
(* rows of its path whose record spells it as it was typed: the shell may  *)
(* write it in another case or through a volume's name, and the two are    *)
(* compared as they stand.                                                 *)
SamePath(p) == {r \in Listing : r.from = src[p]}
TrimPicks(own) ==
  LET rest == Listing \ own
  IN  Oldest(rest, Over(Cardinality(rest), Over(Budget, Cardinality(own))))

(* from_last_put: by time and path, however it is spelt (key_of).          *)
FromLastPut == {r \in Listing : r.from = lastPut.path /\ r.at >= lastPut.since}

TypeOK ==
  /\ file \in [Paths -> Files \cup {None, Part}]
  /\ payload \in [Ids -> Files \cup {None, Debris}]
  /\ \A i \in Ids : record[i] \in {NoRecord, Bad, Stray} \/
       (HasRecord(i) /\ record[i].from \in Paths /\ record[i].at \in 0..MaxTick)
  /\ now \in 0..MaxTick /\ stamp \in 0..MaxPuts /\ created \in 0..MaxFiles
  /\ \A p \in Procs :
       op[p] \notin {"none", "fix"} => {r.id : r \in rows[p]} \subseteq seen[p]
  /\ gone \subseteq Files /\ clobbered \subseteq Files

(* A record with no payload, a payload with no record, a bad record beside *)
(* its payload, a folder under a record's name.                            *)
JunkKinds == {"dangling", "orphan", "spoilt", "stray"}
JunkRecord ==
  [dangling |-> RecordOf(CHOOSE x \in Paths : TRUE, 0), orphan |-> NoRecord,
   spoilt |-> Bad, stray |-> Stray]

Init ==
  /\ \E j \in [Junk -> JunkKinds] :
       /\ payload = [i \in Ids |->
            IF i \in Junk /\ j[i] \in {"orphan", "spoilt"} THEN Debris ELSE None]
       /\ record = [i \in Ids |-> IF i \in Junk THEN JunkRecord[j[i]] ELSE NoRecord]
  /\ file = [x \in Paths |-> None]
  /\ now = 0 /\ stamp = 0 /\ created = 0 /\ runs = 0
  /\ lastPut = [since |-> MaxTick + 1, path |-> "none"]
  /\ op = [p \in Procs |-> "none"] /\ pc = [p \in Procs |-> "idle"]
  /\ rows = [p \in Procs |-> {}] /\ cur = [p \in Procs |-> NoRow]
  /\ dest = [p \in Procs |-> <<>>] /\ policy = [p \in Procs |-> "refuse"]
  /\ since = [p \in Procs |-> 0] /\ src = [p \in Procs |-> "none"]
  /\ mine = [p \in Procs |-> 0] /\ fresh = [p \in Procs |-> FALSE]
  /\ seen = [p \in Procs |-> {}] /\ carry = [p \in Procs |-> None]
  /\ gone = {} /\ clobbered = {}

-----------------------------------------------------------------------------
(* Steps of a process.                                                     *)

Goto(p, l) == pc' = [pc EXCEPT ![p] = l]
Begin(p, o, l) ==
  /\ pc[p] = "idle" /\ runs < MaxRuns
  /\ runs' = runs + 1
  /\ op' = [op EXCEPT ![p] = o]
  /\ Goto(p, l)

(* A command that lists the bin and acts on the rows S of it.              *)
Lists(p, o, l, S) ==
  /\ Begin(p, o, l)
  /\ rows' = [rows EXCEPT ![p] = S]
  /\ seen' = [seen EXCEPT ![p] = {r.id : r \in S}]
  /\ UNCHANGED <<disk, now, stamp, created, lastPut, cur, putting, carry,
                 fresh, history>>

(* The row in hand is done with, or given up.                              *)
Drop(p, l) ==
  /\ Goto(p, l)
  /\ cur' = [cur EXCEPT ![p] = NoRow]

(* A record is removed, or held by another program.                        *)
RecordGoes(i) ==
  \/ record' = [record EXCEPT ![i] = NoRecord]
  \/ "held" \in Faults /\ UNCHANGED record

Take(p, r, l) ==
  /\ rows' = [rows EXCEPT ![p] = @ \ {r}]
  /\ Goto(p, l)
  /\ cur' = [cur EXCEPT ![p] = r]

Reset(p) ==
  /\ Goto(p, "idle")
  /\ op' = [op EXCEPT ![p] = "none"]
  /\ rows' = [rows EXCEPT ![p] = {}] /\ cur' = [cur EXCEPT ![p] = NoRow]
  /\ dest' = [dest EXCEPT ![p] = <<>>] /\ policy' = [policy EXCEPT ![p] = "refuse"]
  /\ since' = [since EXCEPT ![p] = 0] /\ src' = [src EXCEPT ![p] = "none"]
  /\ mine' = [mine EXCEPT ![p] = 0] /\ fresh' = [fresh EXCEPT ![p] = FALSE]
  /\ seen' = [seen EXCEPT ![p] = {}] /\ carry' = [carry EXCEPT ![p] = None]
  /\ UNCHANGED <<disk, counters, lastPut, history>>

(* A command ends with no row left.                                        *)
Ended(p) ==
  \/ pc[p] \in {"purge", "next", "wsl", "fix"} /\ rows[p] = {}
  \/ pc[p] = "end"
End(p) == Ended(p) /\ Reset(p)

Kill(p) == "kill" \in Faults /\ pc[p] # "idle" /\ ~Ended(p) /\ Reset(p)

-----------------------------------------------------------------------------
(* put: rtrash asks the shell, then writes last-put.txt and trims the bin. *)

PutLook(p, x) ==
  /\ Begin(p, "put", "send") /\ file[x] \in Files /\ stamp < MaxPuts
  /\ stamp' = stamp + 1 /\ mine' = [mine EXCEPT ![p] = stamp']
  /\ since' = [since EXCEPT ![p] = Over(now, 1)]
  /\ src' = [src EXCEPT ![p] = x]
  /\ UNCHANGED <<disk, now, created, lastPut, work, plan, fresh, seen, carry,
                 history>>

Busy(x) == \E q \in Procs : pc[q] = "copy" /\ dest[q][cur[q].id] = x

(* External: the shell gives the item its id, with its record.             *)
ShellTakes(p) ==
  /\ pc[p] = "send" /\ file[src[p]] \in Files
  /\ payload' = [payload EXCEPT ![mine[p]] = file[src[p]]]
  /\ record' = [record EXCEPT ![mine[p]] = RecordOf(src[p], now)]
  /\ file' = [file EXCEPT ![src[p]] = None]
  /\ Goto(p, "note")
  /\ UNCHANGED <<counters, lastPut, op, locals, history>>

SendFails(p) ==
  /\ pc[p] = "send" /\ ("send" \in Faults \/ file[src[p]] \notin Files)
  /\ Goto(p, "end")
  /\ UNCHANGED <<disk, counters, lastPut, op, locals, history>>

WriteLastPut(p) ==
  /\ pc[p] = "note"
  /\ lastPut' = [since |-> since[p], path |-> src[p]]
  /\ Goto(p, "trim")
  /\ UNCHANGED <<disk, counters, op, locals, history>>

(* prune_after_put: what it picks goes with no second look.                *)
PruneAfterPut(p) ==
  /\ pc[p] = "trim"
  /\ \E own \in SUBSET SamePath(p) : \E S \in TrimPicks(own) :
       /\ rows' = [rows EXCEPT ![p] = S]
       /\ seen' = [seen EXCEPT ![p] = {r.id : r \in S}]
  /\ Goto(p, "purge")
  /\ UNCHANGED <<disk, counters, lastPut, op, cur, plan, putting, carry,
                 fresh, history>>

-----------------------------------------------------------------------------
(* rm and empty by any row; a bare empty of the whole bin; purge_oldest_on *)

RmList(p, S) ==
  /\ S # {} /\ Lists(p, "rm", "recheck", S)
  /\ UNCHANGED <<dest, policy>>

(* A bare empty goes ahead alone only for the latest put's items.          *)
EmptyList(p) ==
  /\ Listing # {} /\ Listing \subseteq FromLastPut
  /\ Lists(p, "empty", "recheck", Listing)
  /\ UNCHANGED <<dest, policy>>

PurgeOldestOn(p) ==
  /\ \E S \in Oldest(Listing, 1) : Lists(p, "oldest", "purge", S)
  /\ UNCHANGED <<dest, policy>>

(* After the question: act only on rows still as listed.                   *)
Recheck(p) ==
  /\ pc[p] = "recheck"
  /\ rows' = [rows EXCEPT ![p] = {r \in @ : Passes(r)}]
  /\ Goto(p, "purge")
  /\ UNCHANGED <<disk, counters, lastPut, op, cur, plan, putting, fresh,
                 seen, carry, history>>

(* External: the shell purges the payload of the row, and its record.      *)
ShellPurges(p, r) ==
  /\ pc[p] = "purge" /\ r \in rows[p]
  /\ rows' = [rows EXCEPT ![p] = @ \ {r}]
  /\ IF payload[r.id] = None
     THEN UNCHANGED <<disk, gone>>
     ELSE /\ gone' = gone \cup {payload[r.id]}
          /\ payload' = [payload EXCEPT ![r.id] = None]
          /\ record' = [record EXCEPT ![r.id] = NoRecord]
          /\ UNCHANGED file
  /\ UNCHANGED <<counters, lastPut, op, pc, cur, plan, putting, fresh, seen,
                 carry, clobbered>>

-----------------------------------------------------------------------------
(* The WSL view: rm and empty remove the payload, then its record; either  *)
(* may refuse to go.                                                       *)

WslList(p, S) ==
  /\ S # {} /\ Lists(p, "wsl", "wsl", S)
  /\ UNCHANGED <<dest, policy>>

WslRecheck(p, r) ==
  /\ pc[p] = "wsl" /\ r \in rows[p]
  /\ Take(p, r, IF Passes(r) THEN "wsl_payload" ELSE "wsl")
  /\ UNCHANGED <<disk, counters, lastPut, op, plan, putting, fresh, seen,
                 carry, history>>

(* Mutant: the record goes although the payload would not.                 *)
RemoveEntryBoth(p) ==
  /\ pc[p] = "wsl_payload"
  /\ LET i == cur[p].id IN
     \/ /\ payload[i] # None
        /\ gone' = gone \cup {payload[i]}
        /\ payload' = [payload EXCEPT ![i] = None]
     \/ /\ payload[i] = None \/ "held" \in Faults
        /\ UNCHANGED <<payload, gone>>
  /\ Goto(p, "wsl_record")
  /\ UNCHANGED <<file, record, counters, lastPut, op, clobbered, locals>>

RemoveEntry(p) ==
  /\ pc[p] = "wsl_payload"
  /\ LET i == cur[p].id IN
     \/ /\ payload[i] # None
        /\ gone' = gone \cup {payload[i]}
        /\ payload' = [payload EXCEPT ![i] = None]
        /\ Goto(p, "wsl_record") /\ UNCHANGED cur
     \/ /\ payload[i] = None \/ "held" \in Faults
        /\ Drop(p, "wsl") /\ UNCHANGED <<payload, gone>>
  /\ UNCHANGED <<file, record, counters, lastPut, op, rows, plan, putting,
                 fresh, seen, carry, clobbered>>

RemoveEntryRecord(p) ==
  /\ pc[p] = "wsl_record"
  /\ RecordGoes(cur[p].id)
  /\ Drop(p, "wsl")
  /\ UNCHANGED <<file, payload, counters, lastPut, op, rows, plan, putting,
                 fresh, seen, carry, history>>

-----------------------------------------------------------------------------
(* restore: every destination is checked before the first row moves.       *)

RestoreList(p, S) ==
  /\ S # {} /\ Lists(p, "restore", "plan", S)
  /\ \E c \in {"refuse", "overwrite", "rename"} :
       policy' = [policy EXCEPT ![p] = c]
  /\ UNCHANGED dest

(* Where a row goes: a taken destination is refused (or skipped), replaced *)
(* later, or given the first free name beside it.                          *)
Goes(p, r) ==
  There(r.from) => CASE policy[p] = "refuse" -> FALSE
                     [] policy[p] = "rename" -> ~There(Beside[r.from])  \* bound
                     [] OTHER -> TRUE
Target(p, r) ==
  IF There(r.from) /\ policy[p] = "rename" THEN Beside[r.from] ELSE r.from

RestorePlan(p) ==
  /\ pc[p] = "plan"
  /\ LET S == {r \in rows[p] : Goes(p, r)} IN
     /\ rows' = [rows EXCEPT ![p] = S]
     /\ dest' = [dest EXCEPT ![p] =
          [i \in {r.id : r \in S} |-> Target(p, CHOOSE r \in S : r.id = i)]]
  /\ Goto(p, "next")
  /\ UNCHANGED <<disk, counters, lastPut, op, cur, policy, putting, fresh,
                 seen, carry, history>>

RestoreRecheck(p, r) ==
  /\ pc[p] = "next" /\ r \in rows[p]
  /\ Take(p, r, IF Passes(r) THEN "clear" ELSE "next")
  /\ UNCHANGED <<disk, counters, lastPut, op, plan, putting, fresh, seen,
                 carry, history>>

(* -f removes what is at the destination, through the permanent guard.     *)
RestoreClear(p) ==
  /\ pc[p] = "clear"
  /\ LET x == dest[p][cur[p].id] IN
     IF policy[p] = "overwrite" /\ There(x)
     THEN \/ /\ ~Busy(x)
             /\ file' = [file EXCEPT ![x] = None]
             /\ gone' = gone \cup ({file[x]} \ {Part})
             /\ Goto(p, "move") /\ UNCHANGED cur
          \/ /\ Busy(x) \/ "held" \in Faults
             /\ Drop(p, "next") /\ UNCHANGED <<file, gone>>
     ELSE Goto(p, "move") /\ UNCHANGED <<file, gone, cur>>
  /\ UNCHANGED <<payload, record, counters, lastPut, op, rows, plan, putting,
                 fresh, seen, carry, clobbered>>

Replaced(x) == {file[x]} \ {None, Part}

(* restore_payload: a rename replaces whatever file is there.              *)
RestoreMove(p) ==
  /\ pc[p] = "move"
  /\ LET i == cur[p].id
         x == dest[p][i]
     IN /\ x \notin Far /\ payload[i] # None /\ ~Busy(x)
        /\ file' = [file EXCEPT ![x] = payload[i]]
        /\ clobbered' = clobbered \cup Replaced(x)
        /\ payload' = [payload EXCEPT ![i] = None]
        /\ carry' = [carry EXCEPT ![p] = payload[i]]
  /\ Goto(p, "unlink")
  /\ UNCHANGED <<record, counters, lastPut, op, work, plan, putting, fresh,
                 seen, gone>>

RestoreFails(p) ==
  /\ pc[p] = "move"
  /\ payload[cur[p].id] = None \/ Busy(dest[p][cur[p].id]) \/ "held" \in Faults
  /\ Drop(p, "next")
  /\ UNCHANGED <<disk, counters, lastPut, op, rows, plan, putting, fresh,
                 seen, carry, history>>

(* To another volume: a look at the destination, then the copy, whole      *)
(* before the payload goes.                                                *)
CopyLook(p) ==
  /\ pc[p] = "move"
  /\ LET i == cur[p].id
         x == dest[p][i]
     IN /\ x \in Far /\ payload[i] # None
        /\ fresh' = [fresh EXCEPT ![p] = ~There(x)]
  /\ Goto(p, "open")
  /\ UNCHANGED <<disk, counters, lastPut, op, work, plan, putting, seen,
                 carry, history>>

CopyStart(p) ==
  /\ pc[p] = "open"
  /\ LET i == cur[p].id
         x == dest[p][i]
     IN /\ payload[i] # None /\ ~Busy(x)
        /\ file' = [file EXCEPT ![x] = Part]
        /\ clobbered' = clobbered \cup Replaced(x)
  /\ Goto(p, "copy")
  /\ UNCHANGED <<payload, record, counters, lastPut, op, locals, gone>>

CopyDone(p) ==
  /\ pc[p] = "copy" /\ payload[cur[p].id] # None
  /\ file' = [file EXCEPT ![dest[p][cur[p].id]] = payload[cur[p].id]]
  /\ Goto(p, "drop")
  /\ UNCHANGED <<payload, record, counters, lastPut, op, locals, history>>

CopyStops(p) ==
  /\ pc[p] \in {"open", "copy"}
  /\ \/ "copy" \in Faults
     \/ payload[cur[p].id] = None
     \/ pc[p] = "open" /\ Busy(dest[p][cur[p].id])

(* A copy that fails removes its destination if that was not there as it   *)
(* looked, whoever has put there what is there now.                        *)
TakesBack(p) ==
  LET x == dest[p][cur[p].id] IN
  IF fresh[p] /\ (pc[p] = "copy" \/ ~Busy(x))
  THEN /\ file' = [file EXCEPT ![x] = None]
       /\ clobbered' = clobbered \cup Replaced(x)
  ELSE UNCHANGED <<file, clobbered>>

(* Mutant: a failed copy counts as done.                                   *)
CopyIgnored(p) ==
  /\ CopyStops(p) /\ TakesBack(p) /\ Goto(p, "drop")
  /\ UNCHANGED <<payload, record, counters, lastPut, op, locals, gone>>

CopyFails(p) ==
  /\ CopyStops(p) /\ TakesBack(p) /\ Drop(p, "next")
  /\ UNCHANGED <<payload, record, counters, lastPut, op, rows, plan, putting,
                 fresh, seen, carry, gone>>

RestoreDrop(p) ==
  /\ pc[p] = "drop"
  /\ LET i == cur[p].id IN
     \/ /\ payload[i] # None
        /\ payload' = [payload EXCEPT ![i] = None]
        /\ carry' = [carry EXCEPT ![p] = payload[i]]
        /\ Goto(p, "unlink") /\ UNCHANGED cur
     \/ /\ payload[i] = None \/ "held" \in Faults
        /\ Drop(p, "next") /\ UNCHANGED <<payload, carry>>
  /\ UNCHANGED <<file, record, counters, lastPut, op, rows, plan, putting,
                 fresh, seen, history>>

RestoreUnlink(p) ==
  /\ pc[p] = "unlink"
  /\ RecordGoes(cur[p].id)
  /\ carry' = [carry EXCEPT ![p] = None]
  /\ Drop(p, "next")
  /\ UNCHANGED <<file, payload, counters, lastPut, op, rows, plan, putting,
                 fresh, seen, history>>

-----------------------------------------------------------------------------
(* status --check --fix removes dangling and bad records, by name.         *)

(* Mutant: the records whose payload is there go too.                      *)
FixEvery == {i \in Ids : record[i].what # "none"}

FixTargets == {q.id : q \in {r \in Problems : r.kind \in {"dangling", "bad"}}}

CheckBins(p) ==
  /\ FixTargets # {}
  /\ Begin(p, "fix", "fix")
  /\ rows' = [rows EXCEPT ![p] = {[id |-> i] : i \in FixTargets}]
  /\ UNCHANGED <<disk, now, stamp, created, lastPut, cur, plan, putting,
                 fresh, seen, carry, history>>

FixRemove(p, r) ==
  /\ pc[p] = "fix" /\ r \in rows[p]
  /\ rows' = [rows EXCEPT ![p] = @ \ {r}]
  /\ RecordGoes(r.id)
  /\ UNCHANGED <<file, payload, counters, lastPut, op, pc, cur, plan,
                 putting, fresh, seen, carry, history>>

-----------------------------------------------------------------------------
(* The user and the clock.                                                 *)

NewFile(x) ==
  /\ file[x] = None /\ created < MaxFiles
  /\ created' = created + 1
  /\ file' = [file EXCEPT ![x] = created']
  /\ UNCHANGED <<payload, record, now, stamp, runs, lastPut, op, pc, locals,
                 history>>

Tick ==
  /\ now < MaxTick /\ now' = now + 1
  /\ UNCHANGED <<disk, stamp, created, runs, lastPut, op, pc, locals,
                 history>>

Put(p) ==
  \/ \E x \in Paths : PutLook(p, x)
  \/ ShellTakes(p) \/ SendFails(p) \/ WriteLastPut(p) \/ PruneAfterPut(p)

Purge(p) ==
  \/ \E S \in SUBSET Listing : RmList(p, S) \/ WslList(p, S)
  \/ EmptyList(p) \/ PurgeOldestOn(p) \/ Recheck(p)
  \/ \E r \in rows[p] : ShellPurges(p, r) \/ WslRecheck(p, r)
  \/ RemoveEntry(p) \/ RemoveEntryRecord(p)

Restore(p) ==
  \/ \E S \in SUBSET Listing : RestoreList(p, S)
  \/ RestorePlan(p)
  \/ \E r \in rows[p] : RestoreRecheck(p, r)
  \/ RestoreClear(p) \/ RestoreMove(p) \/ RestoreFails(p)
  \/ CopyLook(p) \/ CopyStart(p) \/ CopyDone(p) \/ CopyFails(p)
  \/ RestoreDrop(p) \/ RestoreUnlink(p)

Fix(p) == CheckBins(p) \/ \E r \in rows[p] : FixRemove(p, r)

Next ==
  \/ \E p \in Procs : Put(p) \/ Purge(p) \/ Restore(p) \/ Fix(p) \/ End(p) \/ Kill(p)
  \/ \E x \in Paths : NewFile(x)
  \/ Tick

Spec == Init /\ [][Next]_vars

-----------------------------------------------------------------------------
(* Each file is at a path or in the bin, whole, unless someone asked to    *)
(* delete or replace it (or a restore did unasked, which RestoreKeeps and  *)
(* the failed copy of two restores of a row show: `clobbered`).            *)
NothingLost ==
  \A f \in 1..created :
    \/ \E x \in Paths : file[x] = f
    \/ \E i \in Ids : payload[i] = f
    \/ f \in gone \cup clobbered

(* No command, wherever it fails or is killed, leaves a payload that no    *)
(* record names: list and rm would never show it again.                    *)
RecordBeside == \A i \in 1..stamp : payload[i] # None => HasRecord(i)

(* "the items that put just trashed always stay" (README.md:308): a put    *)
(* never trims away what it has just moved.                                *)
TrimSpares ==
  \A p \in Procs : op[p] = "put" => \A r \in rows[p] : r.id # mine[p]

(* "when the destination exists: refuse (default)" (win_recycle.rs:3026):  *)
(* a restore without -f never replaces what an earlier row of the same     *)
(* restore has just brought back.                                          *)
Earlier(p, x) ==
  \E i \in DOMAIN dest[p] \ ({r.id : r \in rows[p]} \cup {cur[p].id}) :
    dest[p][i] = x
Replaces(p) ==
  /\ pc[p] \in {"move", "open"} /\ pc'[p] \in {"unlink", "copy"}
  /\ policy[p] # "overwrite" /\ There(dest[p][cur[p].id])
RestoreKeeps ==
  [][\A p \in Procs : Replaces(p) => ~Earlier(p, dest[p][cur[p].id])]_vars

-----------------------------------------------------------------------------
(* The bin is the store: what `list` shows enters once and whole, and only *)
(* leaves by a restore or a deletion that listed it.                       *)

ItemAt(i) == [item |-> i, path |-> record[i].from, file |-> payload[i]]
Listed == {ItemAt(r.id) : r \in Listing}
Pending == {mine[p] : p \in {q \in Procs : pc[q] = "send"}}
Away == {[item |-> cur[p].id, path |-> cur[p].from,
          file |-> carry[p]] :
           p \in {q \in Procs : pc[q] = "unlink"}}
Shown == UNION {seen[p] : p \in {q \in Procs : op[q] \notin {"none", "restore"}}}

Store == INSTANCE TrashStore WITH
  Path <- Paths, File <- Files, last <- stamp, pending <- Pending,
  listed <- Listed, away <- Away, shown <- Shown

ImplementsStore == Store!Spec
=============================================================================
