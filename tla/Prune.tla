------------------------------- MODULE Prune -------------------------------
(***************************************************************************)
(* Keeping the trash small: the prune of retention.rs and the three that   *)
(* run it, over several trash roots at once.  A put prunes the roots it    *)
(* used to the budget; `empty [DAYS] --max-size` takes the old items and   *)
(* then prunes all roots together, within a cap it has checked first; and  *)
(* a purge (`reap --purge-trash`, `empty --until-free`) frees what a short *)
(* file system lacks.  Every deletion goes through the gate of the         *)
(* permanent-deletion guard.                                               *)
(***************************************************************************)
EXTENDS Integers, FiniteSets, FiniteSetsExt

CONSTANTS
  Procs,
  Roots,     \* the trash roots, as numbers in the order of their paths
  Sizes, Epochs,
  Old,       \* how many items the trash holds at first
  MaxItems,  \* bound on the items there ever are
  MaxRuns,   \* bound on the commands
  Budget,    \* RTRASH_MAX_SIZE and --max-size
  Cap,       \* RTRASH_MAX_PERMANENT
  Floor,     \* what a purge wants free
  Faults     \* "timeout", "stuck" and "stop"

ASSUME NumberAssumption ==
  /\ Roots \subseteq Nat /\ IsFiniteSet(Roots)
  /\ Sizes \subseteq Nat /\ Epochs \subseteq Nat \ {0}
  /\ {Old, MaxItems, MaxRuns, Budget, Cap, Floor} \subseteq Nat
  /\ Old <= MaxItems

NoProc == "nobody"

ASSUME ProcAssumption == NoProc \notin Procs

VARIABLES
  items,    \* what the trash holds
  made,     \* the number of items made so far
  runs,     \* the number of commands started so far
  free,     \* free space of the file system
  lock,     \* the holder of each root's lock, or NoProc
  pc,
  cmd,      \* the command a process runs: "put", "empty" or "purge"
  roots,    \* the roots a command has still to go through
  want,     \* the roots a prune has still to try to lock
  have,     \* the roots it locked: `usable`
  max, plan,
  seen, gone,     \* of an empty: what it counted, and its age cut
  batch,          \* of a put: the id of its run
  sum,            \* the items an empty counted, the bytes a purge measured
  used,           \* USED, the deletions let through the gate
  passing, over,  \* items in the gate: let through, and about to be refused
  errors,         \* of the prune that runs: a lock, a gate or a removal failed
  stop,           \* a Ctrl-C came: `requested`
  deleted,        \* history: the deletions of this run
  refused,        \* history: the gate refused a deletion of this run
  changed         \* history: a put, or a lock not had, since an empty counted

shared == <<items, made, free, lock>>
prune == <<want, have, max, plan, errors>>
gate == <<used, passing, over, deleted, refused>>
count == <<seen, gone, sum>>
run == <<runs, cmd, batch, stop, changed>>
vars == <<shared, pc, roots, prune, gate, count, run>>

Bytes(s) == MapThenSumSet(LAMBDA i : i.size, s)
Set(f, p, v) == f' = [f EXCEPT ![p] = v]
Goto(p, l) == Set(pc, p, l)

(* The epoch of an item whose date cannot be read.                         *)
Undated == 0

Item == [id : 1..MaxItems, root : Roots, size : Sizes, epoch : Epochs \cup {Undated},
         batch : 0..MaxItems]

Init ==
  /\ \E f \in [1..Old -> Roots \X Sizes \X (Epochs \cup {Undated})] :
       items = {[id |-> i, root |-> f[i][1], size |-> f[i][2],
                 epoch |-> f[i][3], batch |-> 0] : i \in 1..Old}
  /\ made = Old /\ runs = 0 /\ free = 0
  /\ lock = [r \in Roots |-> NoProc]
  /\ pc = [p \in Procs |-> "idle"] /\ cmd = pc
  /\ roots = [p \in Procs |-> {}] /\ want = roots /\ have = roots
  /\ plan = roots /\ seen = roots /\ passing = roots /\ over = roots
  /\ max = [p \in Procs |-> 0] /\ gone = max /\ sum = max /\ used = max
  /\ batch = max /\ deleted = max
  /\ errors = [p \in Procs |-> FALSE] /\ refused = errors /\ changed = errors
  /\ stop = errors

(* A command is a process of its own: the gate has let nothing through.    *)
Starts(p, c) ==
  /\ pc[p] = "idle" /\ Set(cmd, p, c)
  /\ runs < MaxRuns /\ runs' = runs + 1
  /\ Set(used, p, 0) /\ Set(refused, p, FALSE) /\ Set(stop, p, FALSE)
  /\ Set(deleted, p, 0) /\ UNCHANGED <<passing, over>>

-----------------------------------------------------------------------------
(* prune(): the locks, in path order.                                      *)

(* Mutant: in the order the roots were given.                              *)
AnyTurn(p, r) == r \in want[p]

Turn(p, r) == r \in want[p] /\ \A q \in want[p] : r <= q

(* The first root of those a command has still to go through.              *)
First(p, r) == r \in roots[p] /\ \A q \in roots[p] : r <= q

Begin(p, l, rs, m) ==
  /\ Goto(p, l) /\ Set(want, p, rs) /\ Set(have, p, {}) /\ Set(max, p, m)
  /\ Set(plan, p, {}) /\ Set(errors, p, FALSE)

LockRoot(p, r) ==
  /\ pc[p] \in {"dry", "lock"} /\ Turn(p, r) /\ lock[r] = NoProc
  /\ Set(lock, r, p)
  /\ Set(want, p, want[p] \ {r}) /\ Set(have, p, have[p] \cup {r})
  /\ UNCHANGED <<items, made, free, pc, roots, max, plan, errors, gate, count,
                 run>>

LockTimeout(p, r) ==
  /\ "timeout" \in Faults \/ stop[p]
  /\ pc[p] \in {"dry", "lock"} /\ Turn(p, r) /\ lock[r] # NoProc
  /\ Set(want, p, want[p] \ {r}) /\ Set(errors, p, TRUE)
  /\ Set(changed, p, changed[p] \/ pc[p] = "dry")
  /\ UNCHANGED <<shared, pc, roots, have, max, plan, gate, count, runs, cmd,
                 batch, stop>>

Unlock(p) == lock' = [r \in Roots |-> IF lock[r] = p THEN NoProc ELSE lock[r]]

(* What a prune measures: after a cut, an item at or before it counts as   *)
(* gone, and so does one with no date, which the age pass never takes.     *)
Counts(p, i) == gone[p] = 0 \/ i.epoch > gone[p]

Candidates(p) == {i \in items : i.root \in have[p] /\ Counts(p, i)}

(* Mutant: an empty takes what it did not count.                           *)
ProtectedOwn(p, i) == cmd[p] = "put" /\ i.batch = batch[p]

Protected(p, i) ==
  \/ cmd[p] = "put" /\ i.batch = batch[p]
  \/ cmd[p] = "empty" /\ i.id \notin seen[p]

(* plan: the oldest first, the larger of two as old, while the rest is     *)
(* more than max.                                                          *)
Before(i, j) ==
  \/ i.epoch < j.epoch
  \/ i.epoch = j.epoch /\ i.size > j.size
  \/ i.epoch = j.epoch /\ i.size = j.size /\ i.id < j.id

Takeable(p) == {i \in Candidates(p) : ~Protected(p, i)}

(* Mutant: what is protected does not count.                               *)
PlanTakeable(p) ==
  {i \in Takeable(p) :
     Bytes(Takeable(p)) - Bytes({j \in Takeable(p) : Before(j, i)}) > max[p]}

(* Mutant: the items go until less than max is left.                       *)
PlanBelow(p) ==
  {i \in Takeable(p) :
     Bytes(Candidates(p)) - Bytes({j \in Takeable(p) : Before(j, i)}) >= max[p]}

(* Mutant: the newest first.                                               *)
PlanNewest(p) ==
  {i \in Takeable(p) :
     Bytes(Candidates(p)) - Bytes({j \in Takeable(p) : Before(i, j)}) > max[p]}

Plan(p) ==
  {i \in Takeable(p) :
     Bytes(Candidates(p)) - Bytes({j \in Takeable(p) : Before(j, i)}) > max[p]}

PrunePlan(p) ==
  /\ pc[p] = "lock" /\ want[p] = {} /\ Goto(p, "prune")
  /\ Set(plan, p, Plan(p))
  /\ UNCHANGED <<shared, roots, want, have, max, errors, gate, count, run>>

(* A Ctrl-C, of a command that stops on it: the items not begun stay.  It  *)
(* is taken where the code looks for it, between two items and in a wait.  *)
Press(p) ==
  /\ "stop" \in Faults /\ ~stop[p]
  /\ \/ pc[p] \in {"age", "prune"} /\ plan[p] # {}
     \/ /\ pc[p] = "lock" \/ (pc[p] = "dry" /\ cmd[p] = "purge")
        /\ \E r \in Roots : Turn(p, r) /\ lock[r] # NoProc
  /\ Set(stop, p, TRUE)
  /\ UNCHANGED <<shared, pc, roots, prune, gate, count, runs, cmd, batch, changed>>

Deleting(p) == passing[p] \cup over[p] # {} \/ (plan[p] # {} /\ ~stop[p])

-----------------------------------------------------------------------------
(* The gate, and a removal behind it.  The age pass of an empty runs them  *)
(* on many threads, a prune on one.                                        *)
IsNext(p, i) ==
  /\ i \in plan[p] /\ ~stop[p]
  /\ pc[p] = "prune" =>
       /\ passing[p] \cup over[p] = {}
       /\ \A j \in plan[p] \ {i} : Before(i, j)

(* Mutant: a prune does not go through the gate.                           *)
GateInAgeOnly(p, i) ==
  /\ pc[p] \in {"prune", "age"} /\ IsNext(p, i)
  /\ Set(plan, p, plan[p] \ {i})
  /\ IF used[p] < Cap \/ pc[p] = "prune"
       THEN Set(passing, p, passing[p] \cup {i}) /\ UNCHANGED over
       ELSE Set(over, p, over[p] \cup {i}) /\ UNCHANGED passing
  /\ Set(used, p, used[p] + 1)
  /\ UNCHANGED <<shared, pc, roots, want, have, max, errors, deleted, refused, count,
                 run>>

GateIn(p, i) ==
  /\ pc[p] \in {"prune", "age"} /\ IsNext(p, i)
  /\ Set(plan, p, plan[p] \ {i})
  /\ IF used[p] < Cap
       THEN Set(passing, p, passing[p] \cup {i}) /\ UNCHANGED over
       ELSE Set(over, p, over[p] \cup {i}) /\ UNCHANGED passing
  /\ Set(used, p, used[p] + 1)
  /\ UNCHANGED <<shared, pc, roots, want, have, max, errors, deleted, refused, count,
                 run>>

GateRefuse(p, i) ==
  /\ i \in over[p]
  /\ Set(over, p, over[p] \ {i}) /\ Set(used, p, used[p] - 1)
  /\ Set(refused, p, TRUE) /\ Set(errors, p, TRUE)
  /\ UNCHANGED <<shared, pc, roots, want, have, max, plan, passing, deleted, count,
                 run>>

Remove(p, i) ==
  /\ i \in passing[p]
  /\ Set(passing, p, passing[p] \ {i})
  /\ items' = items \ {i} /\ free' = free + i.size
  /\ Set(deleted, p, deleted[p] + 1)
  /\ UNCHANGED <<made, lock, pc, roots, prune, used, over, refused, count,
                 run>>

RemoveStuck(p, i) ==
  /\ "stuck" \in Faults /\ i \in passing[p]
  /\ Set(passing, p, passing[p] \ {i}) /\ Set(errors, p, TRUE)
  /\ UNCHANGED <<shared, pc, roots, want, have, max, plan, used, over, deleted, refused,
                 count, run>>

-----------------------------------------------------------------------------
(* A put run: some items, then prune_after_put on each root it used.       *)
PutStart(p) ==
  /\ made < MaxItems /\ Starts(p, "put")
  /\ Goto(p, "put") /\ Set(batch, p, made + 1)
  /\ Set(gone, p, 0)
  /\ UNCHANGED <<shared, roots, prune, seen, sum, changed>>

(* An item is dated now, and the clock may stand still.                    *)
PutItem(p, r, s, e) ==
  /\ pc[p] = "put" /\ lock[r] = NoProc /\ made < MaxItems
  /\ \A i \in items : i.epoch <= e
  /\ items' = items \cup
       {[id |-> made + 1, root |-> r, size |-> s, epoch |-> e, batch |-> batch[p]]}
  /\ made' = made + 1
  /\ Set(roots, p, roots[p] \cup {r})
  /\ changed' = [q \in Procs |-> TRUE]
  /\ UNCHANGED <<free, lock, pc, prune, gate, count, runs, cmd, batch, stop>>

PutDone(p) ==
  /\ pc[p] = "put" /\ Goto(p, "check")
  /\ UNCHANGED <<shared, roots, prune, gate, count, run>>

(* bytes() takes no lock with a current total; it is 0 when the trash has  *)
(* to be measured and its lock is not had in time.                         *)
Check(p, r) ==
  /\ pc[p] = "check" /\ First(p, r)
  /\ Set(roots, p, roots[p] \ {r})
  /\ \/ /\ \/ Bytes({i \in items : i.root = r}) <= Budget
           \/ "timeout" \in Faults /\ lock[r] # NoProc
        /\ UNCHANGED <<pc, prune>>
     \/ /\ Bytes({i \in items : i.root = r}) > Budget
        /\ Begin(p, "lock", {r}, Budget)
  /\ UNCHANGED <<shared, gate, count, run>>

CheckDone(p) ==
  /\ pc[p] = "check" /\ roots[p] = {} /\ Goto(p, "idle")
  /\ UNCHANGED <<shared, roots, prune, gate, count, run>>

-----------------------------------------------------------------------------
(* empty [DAYS] --max-size: Seen::take, then the cap, then the items at or *)
(* before the cut on each root, then a prune of all roots.                 *)
Look(p) ==
  /\ Starts(p, "empty")
  /\ Set(seen, p, {i.id : i \in items})
  /\ \E cut \in Epochs \cup {0} : Set(gone, p, cut)
  /\ Set(changed, p, FALSE) /\ Goto(p, "looked")
  /\ UNCHANGED <<shared, roots, prune, sum, batch>>

Aged(p) == {i \in items : i.epoch # Undated /\ i.epoch <= gone[p]}

(* would_remove, and the dry prune.                                        *)
Count(p) ==
  /\ pc[p] = "looked"
  /\ Set(sum, p, Cardinality(Aged(p)))
  /\ Begin(p, "dry", Roots, Budget)
  /\ UNCHANGED <<shared, roots, gate, seen, gone, run>>

(* Mutant: the cap is checked against the prune alone.                     *)
FitsPrune(p) == Cardinality(Plan(p)) <= Cap

Fits(p) == sum[p] + Cardinality(Plan(p)) <= Cap

CountDone(p) ==
  /\ cmd[p] = "empty" /\ pc[p] = "dry" /\ want[p] = {}
  /\ Unlock(p) /\ Set(have, p, {})
  /\ IF Fits(p) THEN Goto(p, "age") /\ Set(roots, p, IF gone[p] = 0 THEN {} ELSE Roots)
     ELSE Goto(p, "idle") /\ UNCHANGED roots
  /\ UNCHANGED <<items, made, free, want, max, plan, errors, gate, count, run>>

AgeLock(p, r) ==
  /\ pc[p] = "age" /\ ~stop[p] /\ have[p] = {} /\ r \in roots[p] /\ lock[r] = NoProc
  /\ Set(lock, r, p) /\ Set(have, p, {r})
  /\ Set(roots, p, roots[p] \ {r})
  /\ Set(plan, p, {i \in Aged(p) : i.root = r /\ i.id \in seen[p]})
  /\ UNCHANGED <<items, made, free, pc, want, max, errors, gate, count, run>>

AgeTimeout(p, r) ==
  /\ "timeout" \in Faults
  /\ pc[p] = "age" /\ have[p] = {} /\ r \in roots[p] /\ lock[r] # NoProc
  /\ Set(roots, p, roots[p] \ {r})
  /\ UNCHANGED <<shared, pc, prune, gate, count, run>>

AgeUnlock(p) ==
  /\ pc[p] = "age" /\ have[p] # {} /\ ~Deleting(p)
  /\ Unlock(p) /\ Set(have, p, {})
  /\ UNCHANGED <<items, made, free, pc, roots, want, max, plan, errors, gate,
                 count, run>>

AgeDone(p) ==
  /\ pc[p] = "age" /\ have[p] = {} /\ (roots[p] = {} \/ stop[p])
  /\ Begin(p, "lock", Roots, Budget)
  /\ UNCHANGED <<shared, roots, gate, count, run>>

-----------------------------------------------------------------------------
(* purge_oldest: for each root, a dry prune measures it, and a second      *)
(* prune takes it down to that measure less the need.                      *)
Need == IF free < Floor THEN Floor - free ELSE 0

PurgeStart(p) ==
  /\ Need > 0 /\ Starts(p, "purge")
  /\ Goto(p, "short") /\ Set(roots, p, Roots)
  /\ Set(gone, p, 0)
  /\ UNCHANGED <<shared, prune, seen, sum, batch, changed>>

Measure(p, r) ==
  /\ pc[p] = "short" /\ Need > 0 /\ First(p, r)
  /\ Set(sum, p, Need) /\ Begin(p, "dry", {r}, 0)
  /\ UNCHANGED <<shared, roots, gate, seen, gone, run>>

(* Mutant: the subtraction does not saturate.                              *)
MinusNeedPlain(t, need) == t - need

MinusNeed(t, need) == IF t > need THEN t - need ELSE 0

Measured(p, r) ==
  /\ cmd[p] = "purge" /\ pc[p] = "dry" /\ want[p] = {} /\ First(p, r)
  /\ Unlock(p) /\ Set(roots, p, roots[p] \ {r})
  /\ Begin(p, "lock", {r}, MinusNeed(Bytes(Candidates(p)), sum[p]))
  /\ UNCHANGED <<items, made, free, gate, count, run>>

PurgeDone(p) ==
  /\ pc[p] = "short" /\ (Need = 0 \/ roots[p] = {})
  /\ Goto(p, "idle") /\ Set(roots, p, {})
  /\ UNCHANGED <<shared, prune, gate, count, run>>

-----------------------------------------------------------------------------
After(c) == IF c = "put" THEN "check" ELSE IF c = "purge" THEN "short" ELSE "idle"

PruneDone(p) ==
  /\ pc[p] = "prune" /\ ~Deleting(p)
  /\ Unlock(p) /\ Set(have, p, {})
  /\ Goto(p, After(cmd[p]))
  /\ UNCHANGED <<items, made, free, roots, want, max, plan, errors, gate, count,
                 run>>

Delete(p) ==
  \E i \in items : GateIn(p, i) \/ GateRefuse(p, i) \/ Remove(p, i) \/ RemoveStuck(p, i)
PruneStep(p) ==
  \/ PrunePlan(p) \/ Press(p) \/ PruneDone(p) \/ Delete(p)
  \/ \E r \in Roots : LockRoot(p, r) \/ LockTimeout(p, r)
Put(p) ==
  \/ PutStart(p) \/ PutDone(p) \/ CheckDone(p)
  \/ \E r \in Roots : Check(p, r) \/ \E s \in Sizes, e \in Epochs : PutItem(p, r, s, e)
Empty(p) ==
  \/ Look(p) \/ Count(p) \/ CountDone(p) \/ AgeUnlock(p) \/ AgeDone(p)
  \/ \E r \in Roots : AgeLock(p, r) \/ AgeTimeout(p, r)
Purge(p) ==
  PurgeStart(p) \/ PurgeDone(p) \/ \E r \in Roots : Measure(p, r) \/ Measured(p, r)

Next == \E p \in Procs : PruneStep(p) \/ Put(p) \/ Empty(p) \/ Purge(p)

Spec == Init /\ [][Next]_vars

-----------------------------------------------------------------------------
Places ==
  {"idle", "put", "check", "looked", "dry", "age", "short", "lock", "prune"}

(* Every variable has its type; no number goes below zero.                 *)
TypeOK ==
  /\ pc \in [Procs -> Places]
  /\ items \subseteq Item /\ made \in 0..MaxItems /\ runs \in 0..MaxRuns /\ free \in Nat
  /\ lock \in [Roots -> Procs \cup {NoProc}]
  /\ {roots, want, have} \subseteq [Procs -> SUBSET Roots]
  /\ {plan, passing, over} \subseteq [Procs -> SUBSET Item]
  /\ {max, sum, deleted, used} \subseteq [Procs -> Nat]
  /\ seen \in [Procs -> SUBSET (1..MaxItems)]
  /\ gone \in [Procs -> Epochs \cup {0}] /\ batch \in [Procs -> 0..MaxItems]
  /\ {errors, stop, refused, changed} \subseteq [Procs -> BOOLEAN]

(* No run deletes more than the cap, with any number of removals at once.  *)
WithinCap == \A p \in Procs : deleted[p] <= Cap

(* An empty whose count fitted the cap is not refused halfway, unless      *)
(* something was put since, or a trash could not be locked to be counted.  *)
CountCovers ==
  \A p \in Procs : refused[p] /\ cmd[p] = "empty" => changed[p]

(* Two commands never wait for each other's roots.                         *)
Waits(p, q) ==
  pc[p] \in {"dry", "lock"} /\ \E r \in want[p] : Turn(p, r) /\ lock[r] = q
NoWaitCycle == \A p, q \in Procs : ~(Waits(p, q) /\ Waits(q, p))

(* A prune in which nothing failed leaves no more than its budget, but for *)
(* what it must not take.                                                  *)
UnderBudget ==
  [][\A p \in Procs :
       pc[p] = "prune" /\ pc'[p] # "prune" /\ ~errors[p] /\ ~stop[p] =>
         Bytes(Candidates(p)) <= max[p] \/ Takeable(p) = {}]_vars

(* A prune deletes only while the roots it locked hold more than max: what *)
(* others did since a total was read, or since a need was measured, does   *)
(* not make it take an item more.                                          *)
Deletes(p, i) == i \in passing[p] /\ i \notin items' /\ i \in items
OnlyOverBudget ==
  [][\A p \in Procs : \A i \in items :
       pc[p] = "prune" /\ Deletes(p, i) => Bytes(Candidates(p)) > max[p]]_vars

(* What goes is older than what stays, in all the roots together.          *)
OldestFirst ==
  [][\A p \in Procs : \A i \in items :
       pc[p] = "prune" /\ ~errors[p] /\ Deletes(p, i) =>
         \A j \in Takeable(p) \ {i} : i.epoch <= j.epoch]_vars

(* Whatever is restored, deleted or put between the count and the locks, an *)
(* empty deletes what it counted and a put nothing of its own run.         *)
Spares ==
  [][\A p \in Procs : \A i \in items : Deletes(p, i) =>
       /\ cmd[p] = "empty" => i.id \in seen[p]
       /\ cmd[p] = "put" => i.batch # batch[p]]_vars

(* A purge deletes no more than the file system lacks, as empty.rs:638 has *)
(* it: "remove the oldest trash items there ... until it is back at        *)
(* `floor`".                                                               *)
OnlyWhenShort ==
  \A p \in Procs : cmd[p] = "purge" /\ passing[p] # {} => free < Floor
=============================================================================
