---------------------------- MODULE PruneProofs ----------------------------
(***************************************************************************)
(* For any processes, roots, items, budget and cap: prunes that lock       *)
(* several roots never wait for each other; no run deletes more than its   *)
(* cap, or is refused a deletion it has counted; and a prune deletes the   *)
(* oldest first, what it may, while there is too much, until there is not. *)
(***************************************************************************)
EXTENDS Prune, FiniteSetTheorems, WellFoundedInduction, TLAPS

(* The types the proofs of the locks need.                                 *)
Types ==
  /\ lock \in [Roots -> Procs \cup {NoProc}]
  /\ pc \in [Procs -> Places]
  /\ roots \in [Procs -> SUBSET Roots]
  /\ want \in [Procs -> SUBSET Roots] /\ have \in [Procs -> SUBSET Roots]

(* The locks a process has are the roots of its prune, and all of them lie *)
(* before the ones it still wants.                                         *)
Working == {"dry", "lock", "prune", "age"}
Held(p) ==
  /\ \A r \in Roots : lock[r] = p => r \in have[p]
  /\ pc[p] \notin Working => have[p] = {}
Ordered(p) ==
  pc[p] \in {"dry", "lock"} => \A r \in have[p], q \in want[p] : r < q

LockInv == Types /\ \A p \in Procs : Held(p) /\ Ordered(p)

LEMMA LockInit == Init => LockInv
<1> SUFFICES ASSUME Init PROVE LockInv
  OBVIOUS
<1>1. Types
  BY DEF Init, Types, Places
<1>2. ASSUME NEW p \in Procs PROVE Held(p) /\ Ordered(p)
  <2>1. have[p] = {} /\ \A r \in Roots : lock[r] = NoProc
    BY DEF Init
  <2> QED
    BY <2>1, ProcAssumption DEF Held, Ordered
<1> QED
  BY <1>1, <1>2 DEF LockInv

(* A step of p changes locals of p and takes or frees locks for p.         *)
Only(f, p) == \A q \in Procs \ {p} : f'[q] = f[q]

LEMMA Bystanders ==
  ASSUME LockInv, NEW p \in Procs, Types', Held(p)', Ordered(p)',
         Only(pc, p), Only(want, p), Only(have, p),
         \A r \in Roots : lock'[r] = lock[r] \/ lock'[r] \in {NoProc, p}
  PROVE  LockInv'
<1>1. ASSUME NEW q \in Procs PROVE Held(q)' /\ Ordered(q)'
  <2>1. CASE q = p
    BY <2>1
  <2>2. CASE q # p
    BY <2>2, ProcAssumption DEF LockInv, Types, Held, Ordered, Only
  <2> QED
    BY <2>1, <2>2
<1> QED
  BY <1>1 DEF LockInv

LEMMA LockStep == LockInv /\ [Next]_vars => LockInv'
<1> SUFFICES ASSUME LockInv, [Next]_vars PROVE LockInv'
  OBVIOUS
<1> USE DEF Set, Goto
<1>0. CASE UNCHANGED vars
  BY <1>0 DEF vars, shared, prune, run, LockInv, Types, Held, Ordered
<1>1. ASSUME NEW p \in Procs, PruneStep(p) PROVE LockInv'
  <2>1. CASE PrunePlan(p)
    <3> USE <2>1 DEF PrunePlan, shared, prune, run
    <3>1. Types'
      BY DEF LockInv, Types, Places
    <3>2. Held(p)'
      BY ProcAssumption DEF LockInv, Types, Held, Working
    <3>3. Ordered(p)'
      BY NumberAssumption DEF LockInv, Types, Ordered, Held, Working
    <3>4. Only(pc, p) /\ Only(want, p) /\ Only(have, p)
      BY DEF LockInv, Types, Only
    <3>5. \A x \in Roots : lock'[x] = lock[x] \/ lock'[x] \in {NoProc, p}
      BY DEF LockInv, Types
    <3> HIDE <2>1 DEF PrunePlan, shared, prune, run
    <3> QED
      BY <3>1, <3>2, <3>3, <3>4, <3>5, Bystanders
  <2>2. CASE Press(p)
    <3> USE <2>2 DEF Press, shared, prune, run
    <3>1. Types'
      BY DEF LockInv, Types, Places
    <3>2. Held(p)'
      BY ProcAssumption DEF LockInv, Types, Held, Working
    <3>3. Ordered(p)'
      BY NumberAssumption DEF LockInv, Types, Ordered, Held, Working
    <3>4. Only(pc, p) /\ Only(want, p) /\ Only(have, p)
      BY DEF LockInv, Types, Only
    <3>5. \A x \in Roots : lock'[x] = lock[x] \/ lock'[x] \in {NoProc, p}
      BY DEF LockInv, Types
    <3> HIDE <2>2 DEF Press, shared, prune, run
    <3> QED
      BY <3>1, <3>2, <3>3, <3>4, <3>5, Bystanders
  <2>3. CASE PruneDone(p)
    <3> USE <2>3 DEF PruneDone, Unlock, After, shared, prune, run
    <3>1. Types'
      BY DEF LockInv, Types, Places
    <3>2. Held(p)'
      BY ProcAssumption DEF LockInv, Types, Held, Working
    <3>3. Ordered(p)'
      BY NumberAssumption DEF LockInv, Types, Ordered, Held, Working
    <3>4. Only(pc, p) /\ Only(want, p) /\ Only(have, p)
      BY DEF LockInv, Types, Only
    <3>5. \A x \in Roots : lock'[x] = lock[x] \/ lock'[x] \in {NoProc, p}
      BY DEF LockInv, Types
    <3> HIDE <2>3 DEF PruneDone, Unlock, After, shared, prune, run
    <3> QED
      BY <3>1, <3>2, <3>3, <3>4, <3>5, Bystanders
  <2>4. CASE Delete(p)
    <3> USE <2>4 DEF Delete, GateIn, GateRefuse, Remove, RemoveStuck, shared, prune, run
    <3>1. Types' /\ UNCHANGED <<lock, pc, want, have>>
      BY DEF LockInv, Types
    <3> QED
      BY <3>1 DEF LockInv, Held, Ordered
  <2>5. ASSUME NEW r \in Roots, LockRoot(p, r) PROVE LockInv'
    <3> USE <2>5 DEF LockRoot, Turn, shared, prune, run
    <3>1. Types'
      BY DEF LockInv, Types, Places
    <3>2. Held(p)'
      BY ProcAssumption DEF LockInv, Types, Held, Working
    <3>3. Ordered(p)'
      BY NumberAssumption DEF LockInv, Types, Ordered, Held, Working
    <3>4. Only(pc, p) /\ Only(want, p) /\ Only(have, p)
      BY DEF LockInv, Types, Only
    <3>5. \A x \in Roots : lock'[x] = lock[x] \/ lock'[x] \in {NoProc, p}
      BY DEF LockInv, Types
    <3> HIDE <2>5 DEF LockRoot, Turn, shared, prune, run
    <3> QED
      BY <3>1, <3>2, <3>3, <3>4, <3>5, Bystanders
  <2>6. ASSUME NEW r \in Roots, LockTimeout(p, r) PROVE LockInv'
    <3> USE <2>6 DEF LockTimeout, Turn, shared, prune, run
    <3>1. Types'
      BY DEF LockInv, Types, Places
    <3>2. Held(p)'
      BY ProcAssumption DEF LockInv, Types, Held, Working
    <3>3. Ordered(p)'
      BY NumberAssumption DEF LockInv, Types, Ordered, Held, Working
    <3>4. Only(pc, p) /\ Only(want, p) /\ Only(have, p)
      BY DEF LockInv, Types, Only
    <3>5. \A x \in Roots : lock'[x] = lock[x] \/ lock'[x] \in {NoProc, p}
      BY DEF LockInv, Types
    <3> HIDE <2>6 DEF LockTimeout, Turn, shared, prune, run
    <3> QED
      BY <3>1, <3>2, <3>3, <3>4, <3>5, Bystanders
  <2> QED
    BY <1>1, <2>1, <2>2, <2>3, <2>4, <2>5, <2>6 DEF PruneStep
<1>2. ASSUME NEW p \in Procs, Put(p) PROVE LockInv'
  <2>1. CASE PutStart(p)
    <3> USE <2>1 DEF PutStart, Starts, shared, prune, run
    <3>1. Types'
      BY DEF LockInv, Types, Places
    <3>2. Held(p)'
      BY ProcAssumption DEF LockInv, Types, Held, Working
    <3>3. Ordered(p)'
      BY NumberAssumption DEF LockInv, Types, Ordered, Held, Working
    <3>4. Only(pc, p) /\ Only(want, p) /\ Only(have, p)
      BY DEF LockInv, Types, Only
    <3>5. \A x \in Roots : lock'[x] = lock[x] \/ lock'[x] \in {NoProc, p}
      BY DEF LockInv, Types
    <3> HIDE <2>1 DEF PutStart, Starts, shared, prune, run
    <3> QED
      BY <3>1, <3>2, <3>3, <3>4, <3>5, Bystanders
  <2>2. CASE PutDone(p)
    <3> USE <2>2 DEF PutDone, shared, prune, run
    <3>1. Types'
      BY DEF LockInv, Types, Places
    <3>2. Held(p)'
      BY ProcAssumption DEF LockInv, Types, Held, Working
    <3>3. Ordered(p)'
      BY NumberAssumption DEF LockInv, Types, Ordered, Held, Working
    <3>4. Only(pc, p) /\ Only(want, p) /\ Only(have, p)
      BY DEF LockInv, Types, Only
    <3>5. \A x \in Roots : lock'[x] = lock[x] \/ lock'[x] \in {NoProc, p}
      BY DEF LockInv, Types
    <3> HIDE <2>2 DEF PutDone, shared, prune, run
    <3> QED
      BY <3>1, <3>2, <3>3, <3>4, <3>5, Bystanders
  <2>3. CASE CheckDone(p)
    <3> USE <2>3 DEF CheckDone, shared, prune, run
    <3>1. Types'
      BY DEF LockInv, Types, Places
    <3>2. Held(p)'
      BY ProcAssumption DEF LockInv, Types, Held, Working
    <3>3. Ordered(p)'
      BY NumberAssumption DEF LockInv, Types, Ordered, Held, Working
    <3>4. Only(pc, p) /\ Only(want, p) /\ Only(have, p)
      BY DEF LockInv, Types, Only
    <3>5. \A x \in Roots : lock'[x] = lock[x] \/ lock'[x] \in {NoProc, p}
      BY DEF LockInv, Types
    <3> HIDE <2>3 DEF CheckDone, shared, prune, run
    <3> QED
      BY <3>1, <3>2, <3>3, <3>4, <3>5, Bystanders
  <2>4. ASSUME NEW r \in Roots, Check(p, r) PROVE LockInv'
    <3> USE <2>4 DEF Check, Begin, First, shared, prune, run
    <3>1. Types'
      BY DEF LockInv, Types, Places
    <3>2. Held(p)'
      BY ProcAssumption DEF LockInv, Types, Held, Working
    <3>3. Ordered(p)'
      BY NumberAssumption DEF LockInv, Types, Ordered, Held, Working
    <3>4. Only(pc, p) /\ Only(want, p) /\ Only(have, p)
      BY DEF LockInv, Types, Only
    <3>5. \A x \in Roots : lock'[x] = lock[x] \/ lock'[x] \in {NoProc, p}
      BY DEF LockInv, Types
    <3> HIDE <2>4 DEF Check, Begin, First, shared, prune, run
    <3> QED
      BY <3>1, <3>2, <3>3, <3>4, <3>5, Bystanders
  <2>5. ASSUME NEW r \in Roots, NEW s \in Sizes, NEW e \in Epochs, PutItem(p, r, s, e) PROVE LockInv'
    <3> USE <2>5 DEF PutItem, shared, prune, run
    <3>1. Types'
      BY DEF LockInv, Types, Places
    <3>2. Held(p)'
      BY ProcAssumption DEF LockInv, Types, Held, Working
    <3>3. Ordered(p)'
      BY NumberAssumption DEF LockInv, Types, Ordered, Held, Working
    <3>4. Only(pc, p) /\ Only(want, p) /\ Only(have, p)
      BY DEF LockInv, Types, Only
    <3>5. \A x \in Roots : lock'[x] = lock[x] \/ lock'[x] \in {NoProc, p}
      BY DEF LockInv, Types
    <3> HIDE <2>5 DEF PutItem, shared, prune, run
    <3> QED
      BY <3>1, <3>2, <3>3, <3>4, <3>5, Bystanders
  <2> QED
    BY <1>2, <2>1, <2>2, <2>3, <2>4, <2>5 DEF Put
<1>3. ASSUME NEW p \in Procs, Empty(p) PROVE LockInv'
  <2>1. CASE Look(p)
    <3> USE <2>1 DEF Look, Starts, shared, prune, run
    <3>1. Types'
      BY DEF LockInv, Types, Places
    <3>2. Held(p)'
      BY ProcAssumption DEF LockInv, Types, Held, Working
    <3>3. Ordered(p)'
      BY NumberAssumption DEF LockInv, Types, Ordered, Held, Working
    <3>4. Only(pc, p) /\ Only(want, p) /\ Only(have, p)
      BY DEF LockInv, Types, Only
    <3>5. \A x \in Roots : lock'[x] = lock[x] \/ lock'[x] \in {NoProc, p}
      BY DEF LockInv, Types
    <3> HIDE <2>1 DEF Look, Starts, shared, prune, run
    <3> QED
      BY <3>1, <3>2, <3>3, <3>4, <3>5, Bystanders
  <2>2. CASE Count(p)
    <3> USE <2>2 DEF Count, Begin, shared, prune, run
    <3>1. Types'
      BY DEF LockInv, Types, Places
    <3>2. Held(p)'
      BY ProcAssumption DEF LockInv, Types, Held, Working
    <3>3. Ordered(p)'
      BY NumberAssumption DEF LockInv, Types, Ordered, Held, Working
    <3>4. Only(pc, p) /\ Only(want, p) /\ Only(have, p)
      BY DEF LockInv, Types, Only
    <3>5. \A x \in Roots : lock'[x] = lock[x] \/ lock'[x] \in {NoProc, p}
      BY DEF LockInv, Types
    <3> HIDE <2>2 DEF Count, Begin, shared, prune, run
    <3> QED
      BY <3>1, <3>2, <3>3, <3>4, <3>5, Bystanders
  <2>3. CASE CountDone(p)
    <3> USE <2>3 DEF CountDone, Unlock, shared, prune, run
    <3>1. Types'
      BY DEF LockInv, Types, Places
    <3>2. Held(p)'
      BY ProcAssumption DEF LockInv, Types, Held, Working
    <3>3. Ordered(p)'
      BY NumberAssumption DEF LockInv, Types, Ordered, Held, Working
    <3>4. Only(pc, p) /\ Only(want, p) /\ Only(have, p)
      BY DEF LockInv, Types, Only
    <3>5. \A x \in Roots : lock'[x] = lock[x] \/ lock'[x] \in {NoProc, p}
      BY DEF LockInv, Types
    <3> HIDE <2>3 DEF CountDone, Unlock, shared, prune, run
    <3> QED
      BY <3>1, <3>2, <3>3, <3>4, <3>5, Bystanders
  <2>4. CASE AgeUnlock(p)
    <3> USE <2>4 DEF AgeUnlock, Unlock, shared, prune, run
    <3>1. Types'
      BY DEF LockInv, Types, Places
    <3>2. Held(p)'
      BY ProcAssumption DEF LockInv, Types, Held, Working
    <3>3. Ordered(p)'
      BY NumberAssumption DEF LockInv, Types, Ordered, Held, Working
    <3>4. Only(pc, p) /\ Only(want, p) /\ Only(have, p)
      BY DEF LockInv, Types, Only
    <3>5. \A x \in Roots : lock'[x] = lock[x] \/ lock'[x] \in {NoProc, p}
      BY DEF LockInv, Types
    <3> HIDE <2>4 DEF AgeUnlock, Unlock, shared, prune, run
    <3> QED
      BY <3>1, <3>2, <3>3, <3>4, <3>5, Bystanders
  <2>5. CASE AgeDone(p)
    <3> USE <2>5 DEF AgeDone, Begin, shared, prune, run
    <3>1. Types'
      BY DEF LockInv, Types, Places
    <3>2. Held(p)'
      BY ProcAssumption DEF LockInv, Types, Held, Working
    <3>3. Ordered(p)'
      BY NumberAssumption DEF LockInv, Types, Ordered, Held, Working
    <3>4. Only(pc, p) /\ Only(want, p) /\ Only(have, p)
      BY DEF LockInv, Types, Only
    <3>5. \A x \in Roots : lock'[x] = lock[x] \/ lock'[x] \in {NoProc, p}
      BY DEF LockInv, Types
    <3> HIDE <2>5 DEF AgeDone, Begin, shared, prune, run
    <3> QED
      BY <3>1, <3>2, <3>3, <3>4, <3>5, Bystanders
  <2>6. ASSUME NEW r \in Roots, AgeLock(p, r) PROVE LockInv'
    <3> USE <2>6 DEF AgeLock, shared, prune, run
    <3>1. Types'
      BY DEF LockInv, Types, Places
    <3>2. Held(p)'
      BY ProcAssumption DEF LockInv, Types, Held, Working
    <3>3. Ordered(p)'
      BY NumberAssumption DEF LockInv, Types, Ordered, Held, Working
    <3>4. Only(pc, p) /\ Only(want, p) /\ Only(have, p)
      BY DEF LockInv, Types, Only
    <3>5. \A x \in Roots : lock'[x] = lock[x] \/ lock'[x] \in {NoProc, p}
      BY DEF LockInv, Types
    <3> HIDE <2>6 DEF AgeLock, shared, prune, run
    <3> QED
      BY <3>1, <3>2, <3>3, <3>4, <3>5, Bystanders
  <2>7. ASSUME NEW r \in Roots, AgeTimeout(p, r) PROVE LockInv'
    <3> USE <2>7 DEF AgeTimeout, shared, prune, run
    <3>1. Types'
      BY DEF LockInv, Types, Places
    <3>2. Held(p)'
      BY ProcAssumption DEF LockInv, Types, Held, Working
    <3>3. Ordered(p)'
      BY NumberAssumption DEF LockInv, Types, Ordered, Held, Working
    <3>4. Only(pc, p) /\ Only(want, p) /\ Only(have, p)
      BY DEF LockInv, Types, Only
    <3>5. \A x \in Roots : lock'[x] = lock[x] \/ lock'[x] \in {NoProc, p}
      BY DEF LockInv, Types
    <3> HIDE <2>7 DEF AgeTimeout, shared, prune, run
    <3> QED
      BY <3>1, <3>2, <3>3, <3>4, <3>5, Bystanders
  <2> QED
    BY <1>3, <2>1, <2>2, <2>3, <2>4, <2>5, <2>6, <2>7 DEF Empty
<1>4. ASSUME NEW p \in Procs, Purge(p) PROVE LockInv'
  <2>1. CASE PurgeStart(p)
    <3> USE <2>1 DEF PurgeStart, Starts, shared, prune, run
    <3>1. Types'
      BY DEF LockInv, Types, Places
    <3>2. Held(p)'
      BY ProcAssumption DEF LockInv, Types, Held, Working
    <3>3. Ordered(p)'
      BY NumberAssumption DEF LockInv, Types, Ordered, Held, Working
    <3>4. Only(pc, p) /\ Only(want, p) /\ Only(have, p)
      BY DEF LockInv, Types, Only
    <3>5. \A x \in Roots : lock'[x] = lock[x] \/ lock'[x] \in {NoProc, p}
      BY DEF LockInv, Types
    <3> HIDE <2>1 DEF PurgeStart, Starts, shared, prune, run
    <3> QED
      BY <3>1, <3>2, <3>3, <3>4, <3>5, Bystanders
  <2>2. CASE PurgeDone(p)
    <3> USE <2>2 DEF PurgeDone, shared, prune, run
    <3>1. Types'
      BY DEF LockInv, Types, Places
    <3>2. Held(p)'
      BY ProcAssumption DEF LockInv, Types, Held, Working
    <3>3. Ordered(p)'
      BY NumberAssumption DEF LockInv, Types, Ordered, Held, Working
    <3>4. Only(pc, p) /\ Only(want, p) /\ Only(have, p)
      BY DEF LockInv, Types, Only
    <3>5. \A x \in Roots : lock'[x] = lock[x] \/ lock'[x] \in {NoProc, p}
      BY DEF LockInv, Types
    <3> HIDE <2>2 DEF PurgeDone, shared, prune, run
    <3> QED
      BY <3>1, <3>2, <3>3, <3>4, <3>5, Bystanders
  <2>3. ASSUME NEW r \in Roots, Measure(p, r) PROVE LockInv'
    <3> USE <2>3 DEF Measure, Begin, First, shared, prune, run
    <3>1. Types'
      BY DEF LockInv, Types, Places
    <3>2. Held(p)'
      BY ProcAssumption DEF LockInv, Types, Held, Working
    <3>3. Ordered(p)'
      BY NumberAssumption DEF LockInv, Types, Ordered, Held, Working
    <3>4. Only(pc, p) /\ Only(want, p) /\ Only(have, p)
      BY DEF LockInv, Types, Only
    <3>5. \A x \in Roots : lock'[x] = lock[x] \/ lock'[x] \in {NoProc, p}
      BY DEF LockInv, Types
    <3> HIDE <2>3 DEF Measure, Begin, First, shared, prune, run
    <3> QED
      BY <3>1, <3>2, <3>3, <3>4, <3>5, Bystanders
  <2>4. ASSUME NEW r \in Roots, Measured(p, r) PROVE LockInv'
    <3> USE <2>4 DEF Measured, Begin, First, Unlock, shared, prune, run
    <3>1. Types'
      BY DEF LockInv, Types, Places
    <3>2. Held(p)'
      BY ProcAssumption DEF LockInv, Types, Held, Working
    <3>3. Ordered(p)'
      BY NumberAssumption DEF LockInv, Types, Ordered, Held, Working
    <3>4. Only(pc, p) /\ Only(want, p) /\ Only(have, p)
      BY DEF LockInv, Types, Only
    <3>5. \A x \in Roots : lock'[x] = lock[x] \/ lock'[x] \in {NoProc, p}
      BY DEF LockInv, Types
    <3> HIDE <2>4 DEF Measured, Begin, First, Unlock, shared, prune, run
    <3> QED
      BY <3>1, <3>2, <3>3, <3>4, <3>5, Bystanders
  <2> QED
    BY <1>4, <2>1, <2>2, <2>3, <2>4 DEF Purge
<1> QED
  BY <1>0, <1>1, <1>2, <1>3, <1>4 DEF Next

(* No two commands wait for each other's roots: the root one waits for     *)
(* would lie both before and after the root the other waits for.           *)
THEOREM LocksOrdered == Spec => []NoWaitCycle
<1>1. LockInv => NoWaitCycle
  <2> SUFFICES ASSUME LockInv, NEW p \in Procs, NEW q \in Procs,
                      Waits(p, q), Waits(q, p)
               PROVE  FALSE
    BY DEF NoWaitCycle
  <2>1. PICK r \in want[p] : Turn(p, r) /\ lock[r] = q
    BY DEF Waits
  <2>2. PICK s \in want[q] : Turn(q, s) /\ lock[s] = p
    BY DEF Waits
  <2>3. r \in Roots /\ s \in Roots /\ r \in have[q] /\ s \in have[p]
    BY <2>1, <2>2 DEF LockInv, Types, Held
  <2>4. s < r /\ r < s
    BY <2>1, <2>2, <2>3 DEF LockInv, Ordered, Waits, Turn
  <2> QED
    BY <2>3, <2>4, NumberAssumption
<1> QED
  BY <1>1, LockInit, LockStep, PTL DEF Spec

-----------------------------------------------------------------------------
PlanTypes == plan = [p \in Procs |-> plan[p]] /\ stop = [p \in Procs |-> stop[p]]
PassTypes == passing = [p \in Procs |-> passing[p]] /\ over = [p \in Procs |-> over[p]]
UseTypes == used \in [Procs -> Int] /\ deleted \in [Procs -> Nat]
GateTypes == PlanTypes /\ PassTypes /\ UseTypes

(* The gate has counted every deletion done, every one it let through and  *)
(* every one it is about to refuse; it lets one more through only below    *)
(* the cap.                                                                *)
Counted(p) ==
  /\ IsFiniteSet(passing[p]) /\ IsFiniteSet(over[p])
  /\ deleted[p] + Cardinality(passing[p]) + Cardinality(over[p]) <= used[p]
  /\ deleted[p] + Cardinality(passing[p]) <= Cap

(* Nothing is in the gate when a command starts to count anew.             *)
Quiet(p) ==
  /\ pc[p] \notin {"prune", "age"} => passing[p] = {} /\ over[p] = {}
  /\ pc[p] = "age" /\ have[p] = {} =>
       passing[p] = {} /\ over[p] = {} /\ (plan[p] = {} \/ stop[p])
  /\ pc[p] = "dry" => plan[p] = {}

GateInv == GateTypes /\ \A p \in Procs : Counted(p) /\ Quiet(p)

(* An item more in the gate, or less, is one more, or less, to count.       *)
LEMMA OneMore ==
  ASSUME NEW S, NEW i, IsFiniteSet(S)
  PROVE  /\ IsFiniteSet(S \cup {i})
         /\ Cardinality(S) \in Nat /\ Cardinality(S \cup {i}) \in Nat
         /\ Cardinality(S \cup {i}) <= Cardinality(S) + 1
<1>1. Cardinality(S) \in Nat
  BY FS_CardinalityType
<1>2. IsFiniteSet(S \cup {i}) /\ Cardinality(S \cup {i}) \in {Cardinality(S), Cardinality(S) + 1}
  BY FS_AddElement
<1> QED
  BY <1>1, <1>2

LEMMA OneLess ==
  ASSUME NEW S, NEW i \in S, IsFiniteSet(S)
  PROVE  /\ IsFiniteSet(S \ {i})
         /\ Cardinality(S) \in Nat /\ Cardinality(S \ {i}) \in Nat
         /\ Cardinality(S \ {i}) = Cardinality(S) - 1
<1>1. Cardinality(S) \in Nat
  BY FS_CardinalityType
<1>2. IsFiniteSet(S \ {i}) /\ Cardinality(S \ {i}) = Cardinality(S) - 1
  BY FS_RemoveElement
<1>3. Cardinality(S \ {i}) \in Nat
  BY <1>2, FS_CardinalityType
<1> QED
  BY <1>1, <1>2, <1>3

LEMMA GateInit == Init => GateInv
<1> SUFFICES ASSUME Init PROVE GateInv
  OBVIOUS
<1>1. GateTypes
  BY DEF Init, GateTypes, PlanTypes, PassTypes, UseTypes
<1>2. ASSUME NEW p \in Procs PROVE Counted(p) /\ Quiet(p)
  BY FS_EmptySet, NumberAssumption DEF Init, Counted, Quiet
<1> QED
  BY <1>1, <1>2 DEF GateInv

LEMMA GateBystanders ==
  ASSUME GateInv, NEW p \in Procs, GateTypes', Counted(p)', Quiet(p)',
         Only(pc, p), Only(have, p), Only(plan, p), Only(stop, p),
         Only(passing, p), Only(over, p), Only(used, p), Only(deleted, p)
  PROVE  GateInv'
<1>1. ASSUME NEW q \in Procs PROVE Counted(q)' /\ Quiet(q)'
  <2>1. CASE q = p
    BY <2>1
  <2>2. CASE q # p
    BY <2>2 DEF GateInv, Counted, Quiet, Only
  <2> QED
    BY <2>1, <2>2
<1> QED
  BY <1>1 DEF GateInv

LEMMA GateStep == LockInv /\ GateInv /\ [Next]_vars => GateInv'
<1> SUFFICES ASSUME LockInv, GateInv, [Next]_vars PROVE GateInv'
  OBVIOUS
<1> USE DEF Set, Goto
<1>0. CASE UNCHANGED vars
  BY <1>0 DEF vars, prune, gate, run, GateInv, GateTypes, PlanTypes, PassTypes, UseTypes, Counted, Quiet
<1>1. ASSUME NEW p \in Procs, PruneStep(p) PROVE GateInv'
  <2>1. CASE PrunePlan(p)
    <3> USE <2>1 DEF PrunePlan, prune, gate, run
    <3>1. GateTypes'
      <4>1. PlanTypes'
        BY DEF GateInv, GateTypes, PlanTypes
      <4>2. PassTypes'
        BY DEF GateInv, GateTypes, PassTypes
      <4>3. UseTypes'
        BY DEF GateInv, GateTypes, UseTypes
      <4> QED
        BY <4>1, <4>2, <4>3 DEF GateTypes
    <3>2. Counted(p)'
      BY DEF GateInv, GateTypes, PassTypes, UseTypes, Counted
    <3>3. Quiet(p)'
      BY DEF LockInv, Types, GateInv, GateTypes, PlanTypes, PassTypes, Quiet
    <3>4. Only(pc, p) /\ Only(have, p) /\ Only(plan, p) /\ Only(stop, p)
      BY DEF LockInv, Types, GateInv, GateTypes, PlanTypes, Only
    <3>5. Only(passing, p) /\ Only(over, p) /\ Only(used, p) /\ Only(deleted, p)
      BY DEF GateInv, GateTypes, PassTypes, UseTypes, Only
    <3> HIDE <2>1 DEF PrunePlan, prune, gate, run
    <3> QED
      BY <3>1, <3>2, <3>3, <3>4, <3>5, GateBystanders
  <2>2. CASE Press(p)
    <3> USE <2>2 DEF Press, prune, gate, run
    <3>1. GateTypes'
      <4>1. PlanTypes'
        BY DEF GateInv, GateTypes, PlanTypes
      <4>2. PassTypes'
        BY DEF GateInv, GateTypes, PassTypes
      <4>3. UseTypes'
        BY DEF GateInv, GateTypes, UseTypes
      <4> QED
        BY <4>1, <4>2, <4>3 DEF GateTypes
    <3>2. Counted(p)'
      BY DEF GateInv, GateTypes, PassTypes, UseTypes, Counted
    <3>3. Quiet(p)'
      BY DEF LockInv, Types, GateInv, GateTypes, PlanTypes, PassTypes, Quiet
    <3>4. Only(pc, p) /\ Only(have, p) /\ Only(plan, p) /\ Only(stop, p)
      BY DEF LockInv, Types, GateInv, GateTypes, PlanTypes, Only
    <3>5. Only(passing, p) /\ Only(over, p) /\ Only(used, p) /\ Only(deleted, p)
      BY DEF GateInv, GateTypes, PassTypes, UseTypes, Only
    <3> HIDE <2>2 DEF Press, prune, gate, run
    <3> QED
      BY <3>1, <3>2, <3>3, <3>4, <3>5, GateBystanders
  <2>3. CASE PruneDone(p)
    <3> USE <2>3 DEF PruneDone, Unlock, After, Deleting, prune, gate, run
    <3>1. GateTypes'
      <4>1. PlanTypes'
        BY DEF GateInv, GateTypes, PlanTypes
      <4>2. PassTypes'
        BY DEF GateInv, GateTypes, PassTypes
      <4>3. UseTypes'
        BY DEF GateInv, GateTypes, UseTypes
      <4> QED
        BY <4>1, <4>2, <4>3 DEF GateTypes
    <3>2. Counted(p)'
      BY DEF GateInv, GateTypes, PassTypes, UseTypes, Counted
    <3>3. Quiet(p)'
      BY DEF LockInv, Types, GateInv, GateTypes, PlanTypes, PassTypes, Quiet
    <3>4. Only(pc, p) /\ Only(have, p) /\ Only(plan, p) /\ Only(stop, p)
      BY DEF LockInv, Types, GateInv, GateTypes, PlanTypes, Only
    <3>5. Only(passing, p) /\ Only(over, p) /\ Only(used, p) /\ Only(deleted, p)
      BY DEF GateInv, GateTypes, PassTypes, UseTypes, Only
    <3> HIDE <2>3 DEF PruneDone, Unlock, After, Deleting, prune, gate, run
    <3> QED
      BY <3>1, <3>2, <3>3, <3>4, <3>5, GateBystanders
  <2>4. ASSUME NEW i \in items, GateIn(p, i) PROVE GateInv'
    <3> USE <2>4 DEF GateIn, IsNext, prune, gate, run
    <3>1. GateTypes'
      <4>1. PlanTypes'
        BY DEF GateInv, GateTypes, PlanTypes
      <4>2. PassTypes'
        BY DEF GateInv, GateTypes, PassTypes
      <4>3. UseTypes'
        BY DEF GateInv, GateTypes, UseTypes
      <4> QED
        BY <4>1, <4>2, <4>3 DEF GateTypes
    <3>2. Counted(p)'
      <4>1. used[p] \in Int /\ deleted[p] \in Nat /\ Cap \in Nat
        BY NumberAssumption DEF GateInv, GateTypes, UseTypes
      <4>2. used'[p] = used[p] + 1 /\ deleted'[p] = deleted[p]
        BY DEF GateInv, GateTypes, UseTypes
      <4>3. CASE used[p] < Cap
        <5>1. passing'[p] = passing[p] \cup {i} /\ over'[p] = over[p]
          BY <4>3 DEF GateInv, GateTypes, PassTypes
        <5>2. IsFiniteSet(passing[p]) /\ IsFiniteSet(over[p]) /\ Cardinality(over[p]) \in Nat
          BY FS_CardinalityType DEF GateInv, Counted
        <5>3. /\ IsFiniteSet(passing'[p]) /\ Cardinality(passing[p]) \in Nat
              /\ Cardinality(passing'[p]) \in Nat
              /\ Cardinality(passing'[p]) <= Cardinality(passing[p]) + 1
          <6> DEFINE S == passing[p]
          <6>1. IsFiniteSet(S)
            BY <5>2
          <6>2. /\ IsFiniteSet(S \cup {i})
                /\ Cardinality(S) \in Nat /\ Cardinality(S \cup {i}) \in Nat
                /\ Cardinality(S \cup {i}) <= Cardinality(S) + 1
            <7> HIDE <2>4 DEF S
            <7> QED
              BY <6>1, OneMore
          <6>3. passing'[p] = S \cup {i}
            BY <5>1
          <6> QED
            BY <6>2, <6>3, Zenon
        <5> HIDE <2>4 DEF GateIn, IsNext, prune, gate, run
        <5>4. over'[p] = over[p]
          BY <5>1
        <5> QED
          BY <4>1, <4>2, <4>3, <5>2, <5>3, <5>4 DEF GateInv, Counted
      <4>4. CASE ~(used[p] < Cap)
        <5>1. passing'[p] = passing[p] /\ over'[p] = over[p] \cup {i}
          BY <4>4 DEF GateInv, GateTypes, PassTypes
        <5>2. IsFiniteSet(passing[p]) /\ IsFiniteSet(over[p]) /\ Cardinality(passing[p]) \in Nat
          BY FS_CardinalityType DEF GateInv, Counted
        <5>3. /\ IsFiniteSet(over'[p]) /\ Cardinality(over[p]) \in Nat
              /\ Cardinality(over'[p]) \in Nat
              /\ Cardinality(over'[p]) <= Cardinality(over[p]) + 1
          <6> DEFINE S == over[p]
          <6>1. IsFiniteSet(S)
            BY <5>2
          <6>2. /\ IsFiniteSet(S \cup {i})
                /\ Cardinality(S) \in Nat /\ Cardinality(S \cup {i}) \in Nat
                /\ Cardinality(S \cup {i}) <= Cardinality(S) + 1
            <7> HIDE <2>4 DEF S
            <7> QED
              BY <6>1, OneMore
          <6>3. over'[p] = S \cup {i}
            BY <5>1
          <6> QED
            BY <6>2, <6>3, Zenon
        <5> HIDE <2>4 DEF GateIn, IsNext, prune, gate, run
        <5>4. passing'[p] = passing[p]
          BY <5>1
        <5> QED
          BY <4>1, <4>2, <5>2, <5>3, <5>4 DEF GateInv, Counted
      <4> QED
        BY <4>3, <4>4
    <3>3. Quiet(p)'
      BY DEF LockInv, Types, GateInv, GateTypes, PlanTypes, PassTypes, Quiet
    <3>4. Only(pc, p) /\ Only(have, p) /\ Only(plan, p) /\ Only(stop, p)
      BY DEF LockInv, Types, GateInv, GateTypes, PlanTypes, Only
    <3>5. Only(passing, p) /\ Only(over, p) /\ Only(used, p) /\ Only(deleted, p)
      BY DEF GateInv, GateTypes, PassTypes, UseTypes, Only
    <3> HIDE <2>4 DEF GateIn, IsNext, prune, gate, run
    <3> QED
      BY <3>1, <3>2, <3>3, <3>4, <3>5, GateBystanders
  <2>5. ASSUME NEW i \in items, GateRefuse(p, i) PROVE GateInv'
    <3> USE <2>5 DEF GateRefuse, prune, gate, run
    <3>1. GateTypes'
      <4>1. PlanTypes'
        BY DEF GateInv, GateTypes, PlanTypes
      <4>2. PassTypes'
        BY DEF GateInv, GateTypes, PassTypes
      <4>3. UseTypes'
        BY DEF GateInv, GateTypes, UseTypes
      <4> QED
        BY <4>1, <4>2, <4>3 DEF GateTypes
    <3>2. Counted(p)'
      <4>1. used[p] \in Int /\ deleted[p] \in Nat /\ Cap \in Nat
        BY NumberAssumption DEF GateInv, GateTypes, UseTypes
      <4>2. used'[p] = used[p] - 1 /\ deleted'[p] = deleted[p]
        BY DEF GateInv, GateTypes, UseTypes
      <4>3. i \in over[p] /\ passing'[p] = passing[p] /\ over'[p] = over[p] \ {i}
        BY DEF GateInv, GateTypes, PassTypes
      <4>4. IsFiniteSet(passing[p]) /\ IsFiniteSet(over[p]) /\ Cardinality(passing[p]) \in Nat
        BY FS_CardinalityType DEF GateInv, Counted
      <4>5. /\ IsFiniteSet(over'[p]) /\ Cardinality(over[p]) \in Nat
            /\ Cardinality(over'[p]) = Cardinality(over[p]) - 1
        BY <4>3, <4>4, OneLess
      <4> HIDE <2>5 DEF GateRefuse, prune, gate, run
      <4> QED
        BY <4>1, <4>2, <4>3, <4>4, <4>5 DEF GateInv, Counted
    <3>3. Quiet(p)'
      BY DEF LockInv, Types, GateInv, GateTypes, PlanTypes, PassTypes, Quiet
    <3>4. Only(pc, p) /\ Only(have, p) /\ Only(plan, p) /\ Only(stop, p)
      BY DEF LockInv, Types, GateInv, GateTypes, PlanTypes, Only
    <3>5. Only(passing, p) /\ Only(over, p) /\ Only(used, p) /\ Only(deleted, p)
      BY DEF GateInv, GateTypes, PassTypes, UseTypes, Only
    <3> HIDE <2>5 DEF GateRefuse, prune, gate, run
    <3> QED
      BY <3>1, <3>2, <3>3, <3>4, <3>5, GateBystanders
  <2>6. ASSUME NEW i \in items, Remove(p, i) PROVE GateInv'
    <3> USE <2>6 DEF Remove, prune, gate, run
    <3>1. GateTypes'
      <4>1. PlanTypes'
        BY DEF GateInv, GateTypes, PlanTypes
      <4>2. PassTypes'
        BY DEF GateInv, GateTypes, PassTypes
      <4>3. UseTypes'
        BY DEF GateInv, GateTypes, UseTypes
      <4> QED
        BY <4>1, <4>2, <4>3 DEF GateTypes
    <3>2. Counted(p)'
      <4>1. used[p] \in Int /\ deleted[p] \in Nat /\ Cap \in Nat
        BY NumberAssumption DEF GateInv, GateTypes, UseTypes
      <4>2. used'[p] = used[p] /\ deleted'[p] = deleted[p] + 1
        BY DEF GateInv, GateTypes, UseTypes
      <4>3. i \in passing[p] /\ passing'[p] = passing[p] \ {i} /\ over'[p] = over[p]
        BY DEF GateInv, GateTypes, PassTypes
      <4>4. IsFiniteSet(passing[p]) /\ IsFiniteSet(over[p]) /\ Cardinality(over[p]) \in Nat
        BY FS_CardinalityType DEF GateInv, Counted
      <4>5. /\ IsFiniteSet(passing'[p]) /\ Cardinality(passing[p]) \in Nat
            /\ Cardinality(passing'[p]) = Cardinality(passing[p]) - 1
        BY <4>3, <4>4, OneLess
      <4> HIDE <2>6 DEF Remove, prune, gate, run
      <4> QED
        BY <4>1, <4>2, <4>3, <4>4, <4>5 DEF GateInv, Counted
    <3>3. Quiet(p)'
      BY DEF LockInv, Types, GateInv, GateTypes, PlanTypes, PassTypes, Quiet
    <3>4. Only(pc, p) /\ Only(have, p) /\ Only(plan, p) /\ Only(stop, p)
      BY DEF LockInv, Types, GateInv, GateTypes, PlanTypes, Only
    <3>5. Only(passing, p) /\ Only(over, p) /\ Only(used, p) /\ Only(deleted, p)
      BY DEF GateInv, GateTypes, PassTypes, UseTypes, Only
    <3> HIDE <2>6 DEF Remove, prune, gate, run
    <3> QED
      BY <3>1, <3>2, <3>3, <3>4, <3>5, GateBystanders
  <2>7. ASSUME NEW i \in items, RemoveStuck(p, i) PROVE GateInv'
    <3> USE <2>7 DEF RemoveStuck, prune, gate, run
    <3>1. GateTypes'
      <4>1. PlanTypes'
        BY DEF GateInv, GateTypes, PlanTypes
      <4>2. PassTypes'
        BY DEF GateInv, GateTypes, PassTypes
      <4>3. UseTypes'
        BY DEF GateInv, GateTypes, UseTypes
      <4> QED
        BY <4>1, <4>2, <4>3 DEF GateTypes
    <3>2. Counted(p)'
      <4>1. used[p] \in Int /\ deleted[p] \in Nat /\ Cap \in Nat
        BY NumberAssumption DEF GateInv, GateTypes, UseTypes
      <4>2. used'[p] = used[p] /\ deleted'[p] = deleted[p]
        BY DEF GateInv, GateTypes, UseTypes
      <4>3. i \in passing[p] /\ passing'[p] = passing[p] \ {i} /\ over'[p] = over[p]
        BY DEF GateInv, GateTypes, PassTypes
      <4>4. IsFiniteSet(passing[p]) /\ IsFiniteSet(over[p]) /\ Cardinality(over[p]) \in Nat
        BY FS_CardinalityType DEF GateInv, Counted
      <4>5. /\ IsFiniteSet(passing'[p]) /\ Cardinality(passing[p]) \in Nat
            /\ Cardinality(passing'[p]) = Cardinality(passing[p]) - 1
        BY <4>3, <4>4, OneLess
      <4> HIDE <2>7 DEF RemoveStuck, prune, gate, run
      <4> QED
        BY <4>1, <4>2, <4>3, <4>4, <4>5 DEF GateInv, Counted
    <3>3. Quiet(p)'
      BY DEF LockInv, Types, GateInv, GateTypes, PlanTypes, PassTypes, Quiet
    <3>4. Only(pc, p) /\ Only(have, p) /\ Only(plan, p) /\ Only(stop, p)
      BY DEF LockInv, Types, GateInv, GateTypes, PlanTypes, Only
    <3>5. Only(passing, p) /\ Only(over, p) /\ Only(used, p) /\ Only(deleted, p)
      BY DEF GateInv, GateTypes, PassTypes, UseTypes, Only
    <3> HIDE <2>7 DEF RemoveStuck, prune, gate, run
    <3> QED
      BY <3>1, <3>2, <3>3, <3>4, <3>5, GateBystanders
  <2>8. ASSUME NEW r \in Roots, LockRoot(p, r) PROVE GateInv'
    <3> USE <2>8 DEF LockRoot, Turn, prune, gate, run
    <3>1. GateTypes'
      <4>1. PlanTypes'
        BY DEF GateInv, GateTypes, PlanTypes
      <4>2. PassTypes'
        BY DEF GateInv, GateTypes, PassTypes
      <4>3. UseTypes'
        BY DEF GateInv, GateTypes, UseTypes
      <4> QED
        BY <4>1, <4>2, <4>3 DEF GateTypes
    <3>2. Counted(p)'
      BY DEF GateInv, GateTypes, PassTypes, UseTypes, Counted
    <3>3. Quiet(p)'
      BY DEF LockInv, Types, GateInv, GateTypes, PlanTypes, PassTypes, Quiet
    <3>4. Only(pc, p) /\ Only(have, p) /\ Only(plan, p) /\ Only(stop, p)
      BY DEF LockInv, Types, GateInv, GateTypes, PlanTypes, Only
    <3>5. Only(passing, p) /\ Only(over, p) /\ Only(used, p) /\ Only(deleted, p)
      BY DEF GateInv, GateTypes, PassTypes, UseTypes, Only
    <3> HIDE <2>8 DEF LockRoot, Turn, prune, gate, run
    <3> QED
      BY <3>1, <3>2, <3>3, <3>4, <3>5, GateBystanders
  <2>9. ASSUME NEW r \in Roots, LockTimeout(p, r) PROVE GateInv'
    <3> USE <2>9 DEF LockTimeout, Turn, prune, gate, run
    <3>1. GateTypes'
      <4>1. PlanTypes'
        BY DEF GateInv, GateTypes, PlanTypes
      <4>2. PassTypes'
        BY DEF GateInv, GateTypes, PassTypes
      <4>3. UseTypes'
        BY DEF GateInv, GateTypes, UseTypes
      <4> QED
        BY <4>1, <4>2, <4>3 DEF GateTypes
    <3>2. Counted(p)'
      BY DEF GateInv, GateTypes, PassTypes, UseTypes, Counted
    <3>3. Quiet(p)'
      BY DEF LockInv, Types, GateInv, GateTypes, PlanTypes, PassTypes, Quiet
    <3>4. Only(pc, p) /\ Only(have, p) /\ Only(plan, p) /\ Only(stop, p)
      BY DEF LockInv, Types, GateInv, GateTypes, PlanTypes, Only
    <3>5. Only(passing, p) /\ Only(over, p) /\ Only(used, p) /\ Only(deleted, p)
      BY DEF GateInv, GateTypes, PassTypes, UseTypes, Only
    <3> HIDE <2>9 DEF LockTimeout, Turn, prune, gate, run
    <3> QED
      BY <3>1, <3>2, <3>3, <3>4, <3>5, GateBystanders
  <2> QED
    BY <1>1, <2>1, <2>2, <2>3, <2>4, <2>5, <2>6, <2>7, <2>8, <2>9 DEF PruneStep, Delete
<1>2. ASSUME NEW p \in Procs, Put(p) PROVE GateInv'
  <2>1. CASE PutStart(p)
    <3> USE <2>1 DEF PutStart, Starts, prune, gate, run
    <3>1. GateTypes'
      <4>1. PlanTypes'
        BY DEF GateInv, GateTypes, PlanTypes
      <4>2. PassTypes'
        BY DEF GateInv, GateTypes, PassTypes
      <4>3. UseTypes'
        BY DEF GateInv, GateTypes, UseTypes
      <4> QED
        BY <4>1, <4>2, <4>3 DEF GateTypes
    <3>2. Counted(p)'
      BY FS_EmptySet, NumberAssumption DEF GateInv, GateTypes, PassTypes, UseTypes, Counted, Quiet
    <3>3. Quiet(p)'
      BY DEF LockInv, Types, GateInv, GateTypes, PlanTypes, PassTypes, Quiet
    <3>4. Only(pc, p) /\ Only(have, p) /\ Only(plan, p) /\ Only(stop, p)
      BY DEF LockInv, Types, GateInv, GateTypes, PlanTypes, Only
    <3>5. Only(passing, p) /\ Only(over, p) /\ Only(used, p) /\ Only(deleted, p)
      BY DEF GateInv, GateTypes, PassTypes, UseTypes, Only
    <3> HIDE <2>1 DEF PutStart, Starts, prune, gate, run
    <3> QED
      BY <3>1, <3>2, <3>3, <3>4, <3>5, GateBystanders
  <2>2. CASE PutDone(p)
    <3> USE <2>2 DEF PutDone, prune, gate, run
    <3>1. GateTypes'
      <4>1. PlanTypes'
        BY DEF GateInv, GateTypes, PlanTypes
      <4>2. PassTypes'
        BY DEF GateInv, GateTypes, PassTypes
      <4>3. UseTypes'
        BY DEF GateInv, GateTypes, UseTypes
      <4> QED
        BY <4>1, <4>2, <4>3 DEF GateTypes
    <3>2. Counted(p)'
      BY DEF GateInv, GateTypes, PassTypes, UseTypes, Counted
    <3>3. Quiet(p)'
      BY DEF LockInv, Types, GateInv, GateTypes, PlanTypes, PassTypes, Quiet
    <3>4. Only(pc, p) /\ Only(have, p) /\ Only(plan, p) /\ Only(stop, p)
      BY DEF LockInv, Types, GateInv, GateTypes, PlanTypes, Only
    <3>5. Only(passing, p) /\ Only(over, p) /\ Only(used, p) /\ Only(deleted, p)
      BY DEF GateInv, GateTypes, PassTypes, UseTypes, Only
    <3> HIDE <2>2 DEF PutDone, prune, gate, run
    <3> QED
      BY <3>1, <3>2, <3>3, <3>4, <3>5, GateBystanders
  <2>3. CASE CheckDone(p)
    <3> USE <2>3 DEF CheckDone, prune, gate, run
    <3>1. GateTypes'
      <4>1. PlanTypes'
        BY DEF GateInv, GateTypes, PlanTypes
      <4>2. PassTypes'
        BY DEF GateInv, GateTypes, PassTypes
      <4>3. UseTypes'
        BY DEF GateInv, GateTypes, UseTypes
      <4> QED
        BY <4>1, <4>2, <4>3 DEF GateTypes
    <3>2. Counted(p)'
      BY DEF GateInv, GateTypes, PassTypes, UseTypes, Counted
    <3>3. Quiet(p)'
      BY DEF LockInv, Types, GateInv, GateTypes, PlanTypes, PassTypes, Quiet
    <3>4. Only(pc, p) /\ Only(have, p) /\ Only(plan, p) /\ Only(stop, p)
      BY DEF LockInv, Types, GateInv, GateTypes, PlanTypes, Only
    <3>5. Only(passing, p) /\ Only(over, p) /\ Only(used, p) /\ Only(deleted, p)
      BY DEF GateInv, GateTypes, PassTypes, UseTypes, Only
    <3> HIDE <2>3 DEF CheckDone, prune, gate, run
    <3> QED
      BY <3>1, <3>2, <3>3, <3>4, <3>5, GateBystanders
  <2>4. ASSUME NEW r \in Roots, Check(p, r) PROVE GateInv'
    <3> USE <2>4 DEF Check, Begin, First, prune, gate, run
    <3>1. GateTypes'
      <4>1. PlanTypes'
        BY DEF GateInv, GateTypes, PlanTypes
      <4>2. PassTypes'
        BY DEF GateInv, GateTypes, PassTypes
      <4>3. UseTypes'
        BY DEF GateInv, GateTypes, UseTypes
      <4> QED
        BY <4>1, <4>2, <4>3 DEF GateTypes
    <3>2. Counted(p)'
      BY DEF GateInv, GateTypes, PassTypes, UseTypes, Counted
    <3>3. Quiet(p)'
      BY DEF LockInv, Types, GateInv, GateTypes, PlanTypes, PassTypes, Quiet
    <3>4. Only(pc, p) /\ Only(have, p) /\ Only(plan, p) /\ Only(stop, p)
      BY DEF LockInv, Types, GateInv, GateTypes, PlanTypes, Only
    <3>5. Only(passing, p) /\ Only(over, p) /\ Only(used, p) /\ Only(deleted, p)
      BY DEF GateInv, GateTypes, PassTypes, UseTypes, Only
    <3> HIDE <2>4 DEF Check, Begin, First, prune, gate, run
    <3> QED
      BY <3>1, <3>2, <3>3, <3>4, <3>5, GateBystanders
  <2>5. ASSUME NEW r \in Roots, NEW s \in Sizes, NEW e \in Epochs, PutItem(p, r, s, e) PROVE GateInv'
    <3> USE <2>5 DEF PutItem, prune, gate, run
    <3>1. GateTypes'
      <4>1. PlanTypes'
        BY DEF GateInv, GateTypes, PlanTypes
      <4>2. PassTypes'
        BY DEF GateInv, GateTypes, PassTypes
      <4>3. UseTypes'
        BY DEF GateInv, GateTypes, UseTypes
      <4> QED
        BY <4>1, <4>2, <4>3 DEF GateTypes
    <3>2. Counted(p)'
      BY DEF GateInv, GateTypes, PassTypes, UseTypes, Counted
    <3>3. Quiet(p)'
      BY DEF LockInv, Types, GateInv, GateTypes, PlanTypes, PassTypes, Quiet
    <3>4. Only(pc, p) /\ Only(have, p) /\ Only(plan, p) /\ Only(stop, p)
      BY DEF LockInv, Types, GateInv, GateTypes, PlanTypes, Only
    <3>5. Only(passing, p) /\ Only(over, p) /\ Only(used, p) /\ Only(deleted, p)
      BY DEF GateInv, GateTypes, PassTypes, UseTypes, Only
    <3> HIDE <2>5 DEF PutItem, prune, gate, run
    <3> QED
      BY <3>1, <3>2, <3>3, <3>4, <3>5, GateBystanders
  <2> QED
    BY <1>2, <2>1, <2>2, <2>3, <2>4, <2>5 DEF Put
<1>3. ASSUME NEW p \in Procs, Empty(p) PROVE GateInv'
  <2>1. CASE Look(p)
    <3> USE <2>1 DEF Look, Starts, prune, gate, run
    <3>1. GateTypes'
      <4>1. PlanTypes'
        BY DEF GateInv, GateTypes, PlanTypes
      <4>2. PassTypes'
        BY DEF GateInv, GateTypes, PassTypes
      <4>3. UseTypes'
        BY DEF GateInv, GateTypes, UseTypes
      <4> QED
        BY <4>1, <4>2, <4>3 DEF GateTypes
    <3>2. Counted(p)'
      BY FS_EmptySet, NumberAssumption DEF GateInv, GateTypes, PassTypes, UseTypes, Counted, Quiet
    <3>3. Quiet(p)'
      BY DEF LockInv, Types, GateInv, GateTypes, PlanTypes, PassTypes, Quiet
    <3>4. Only(pc, p) /\ Only(have, p) /\ Only(plan, p) /\ Only(stop, p)
      BY DEF LockInv, Types, GateInv, GateTypes, PlanTypes, Only
    <3>5. Only(passing, p) /\ Only(over, p) /\ Only(used, p) /\ Only(deleted, p)
      BY DEF GateInv, GateTypes, PassTypes, UseTypes, Only
    <3> HIDE <2>1 DEF Look, Starts, prune, gate, run
    <3> QED
      BY <3>1, <3>2, <3>3, <3>4, <3>5, GateBystanders
  <2>2. CASE Count(p)
    <3> USE <2>2 DEF Count, Begin, prune, gate, run
    <3>1. GateTypes'
      <4>1. PlanTypes'
        BY DEF GateInv, GateTypes, PlanTypes
      <4>2. PassTypes'
        BY DEF GateInv, GateTypes, PassTypes
      <4>3. UseTypes'
        BY DEF GateInv, GateTypes, UseTypes
      <4> QED
        BY <4>1, <4>2, <4>3 DEF GateTypes
    <3>2. Counted(p)'
      BY DEF GateInv, GateTypes, PassTypes, UseTypes, Counted
    <3>3. Quiet(p)'
      BY DEF LockInv, Types, GateInv, GateTypes, PlanTypes, PassTypes, Quiet
    <3>4. Only(pc, p) /\ Only(have, p) /\ Only(plan, p) /\ Only(stop, p)
      BY DEF LockInv, Types, GateInv, GateTypes, PlanTypes, Only
    <3>5. Only(passing, p) /\ Only(over, p) /\ Only(used, p) /\ Only(deleted, p)
      BY DEF GateInv, GateTypes, PassTypes, UseTypes, Only
    <3> HIDE <2>2 DEF Count, Begin, prune, gate, run
    <3> QED
      BY <3>1, <3>2, <3>3, <3>4, <3>5, GateBystanders
  <2>3. CASE CountDone(p)
    <3> USE <2>3 DEF CountDone, Unlock, prune, gate, run
    <3>1. GateTypes'
      <4>1. PlanTypes'
        BY DEF GateInv, GateTypes, PlanTypes
      <4>2. PassTypes'
        BY DEF GateInv, GateTypes, PassTypes
      <4>3. UseTypes'
        BY DEF GateInv, GateTypes, UseTypes
      <4> QED
        BY <4>1, <4>2, <4>3 DEF GateTypes
    <3>2. Counted(p)'
      BY DEF GateInv, GateTypes, PassTypes, UseTypes, Counted
    <3>3. Quiet(p)'
      BY DEF LockInv, Types, GateInv, GateTypes, PlanTypes, PassTypes, Quiet
    <3>4. Only(pc, p) /\ Only(have, p) /\ Only(plan, p) /\ Only(stop, p)
      BY DEF LockInv, Types, GateInv, GateTypes, PlanTypes, Only
    <3>5. Only(passing, p) /\ Only(over, p) /\ Only(used, p) /\ Only(deleted, p)
      BY DEF GateInv, GateTypes, PassTypes, UseTypes, Only
    <3> HIDE <2>3 DEF CountDone, Unlock, prune, gate, run
    <3> QED
      BY <3>1, <3>2, <3>3, <3>4, <3>5, GateBystanders
  <2>4. CASE AgeUnlock(p)
    <3> USE <2>4 DEF AgeUnlock, Unlock, Deleting, prune, gate, run
    <3>1. GateTypes'
      <4>1. PlanTypes'
        BY DEF GateInv, GateTypes, PlanTypes
      <4>2. PassTypes'
        BY DEF GateInv, GateTypes, PassTypes
      <4>3. UseTypes'
        BY DEF GateInv, GateTypes, UseTypes
      <4> QED
        BY <4>1, <4>2, <4>3 DEF GateTypes
    <3>2. Counted(p)'
      BY DEF GateInv, GateTypes, PassTypes, UseTypes, Counted
    <3>3. Quiet(p)'
      BY DEF LockInv, Types, GateInv, GateTypes, PlanTypes, PassTypes, Quiet
    <3>4. Only(pc, p) /\ Only(have, p) /\ Only(plan, p) /\ Only(stop, p)
      BY DEF LockInv, Types, GateInv, GateTypes, PlanTypes, Only
    <3>5. Only(passing, p) /\ Only(over, p) /\ Only(used, p) /\ Only(deleted, p)
      BY DEF GateInv, GateTypes, PassTypes, UseTypes, Only
    <3> HIDE <2>4 DEF AgeUnlock, Unlock, Deleting, prune, gate, run
    <3> QED
      BY <3>1, <3>2, <3>3, <3>4, <3>5, GateBystanders
  <2>5. CASE AgeDone(p)
    <3> USE <2>5 DEF AgeDone, Begin, prune, gate, run
    <3>1. GateTypes'
      <4>1. PlanTypes'
        BY DEF GateInv, GateTypes, PlanTypes
      <4>2. PassTypes'
        BY DEF GateInv, GateTypes, PassTypes
      <4>3. UseTypes'
        BY DEF GateInv, GateTypes, UseTypes
      <4> QED
        BY <4>1, <4>2, <4>3 DEF GateTypes
    <3>2. Counted(p)'
      BY DEF GateInv, GateTypes, PassTypes, UseTypes, Counted
    <3>3. Quiet(p)'
      BY DEF LockInv, Types, GateInv, GateTypes, PlanTypes, PassTypes, Quiet
    <3>4. Only(pc, p) /\ Only(have, p) /\ Only(plan, p) /\ Only(stop, p)
      BY DEF LockInv, Types, GateInv, GateTypes, PlanTypes, Only
    <3>5. Only(passing, p) /\ Only(over, p) /\ Only(used, p) /\ Only(deleted, p)
      BY DEF GateInv, GateTypes, PassTypes, UseTypes, Only
    <3> HIDE <2>5 DEF AgeDone, Begin, prune, gate, run
    <3> QED
      BY <3>1, <3>2, <3>3, <3>4, <3>5, GateBystanders
  <2>6. ASSUME NEW r \in Roots, AgeLock(p, r) PROVE GateInv'
    <3> USE <2>6 DEF AgeLock, prune, gate, run
    <3>1. GateTypes'
      <4>1. PlanTypes'
        BY DEF GateInv, GateTypes, PlanTypes
      <4>2. PassTypes'
        BY DEF GateInv, GateTypes, PassTypes
      <4>3. UseTypes'
        BY DEF GateInv, GateTypes, UseTypes
      <4> QED
        BY <4>1, <4>2, <4>3 DEF GateTypes
    <3>2. Counted(p)'
      BY DEF GateInv, GateTypes, PassTypes, UseTypes, Counted
    <3>3. Quiet(p)'
      BY DEF LockInv, Types, GateInv, GateTypes, PlanTypes, PassTypes, Quiet
    <3>4. Only(pc, p) /\ Only(have, p) /\ Only(plan, p) /\ Only(stop, p)
      BY DEF LockInv, Types, GateInv, GateTypes, PlanTypes, Only
    <3>5. Only(passing, p) /\ Only(over, p) /\ Only(used, p) /\ Only(deleted, p)
      BY DEF GateInv, GateTypes, PassTypes, UseTypes, Only
    <3> HIDE <2>6 DEF AgeLock, prune, gate, run
    <3> QED
      BY <3>1, <3>2, <3>3, <3>4, <3>5, GateBystanders
  <2>7. ASSUME NEW r \in Roots, AgeTimeout(p, r) PROVE GateInv'
    <3> USE <2>7 DEF AgeTimeout, prune, gate, run
    <3>1. GateTypes'
      <4>1. PlanTypes'
        BY DEF GateInv, GateTypes, PlanTypes
      <4>2. PassTypes'
        BY DEF GateInv, GateTypes, PassTypes
      <4>3. UseTypes'
        BY DEF GateInv, GateTypes, UseTypes
      <4> QED
        BY <4>1, <4>2, <4>3 DEF GateTypes
    <3>2. Counted(p)'
      BY DEF GateInv, GateTypes, PassTypes, UseTypes, Counted
    <3>3. Quiet(p)'
      BY DEF LockInv, Types, GateInv, GateTypes, PlanTypes, PassTypes, Quiet
    <3>4. Only(pc, p) /\ Only(have, p) /\ Only(plan, p) /\ Only(stop, p)
      BY DEF LockInv, Types, GateInv, GateTypes, PlanTypes, Only
    <3>5. Only(passing, p) /\ Only(over, p) /\ Only(used, p) /\ Only(deleted, p)
      BY DEF GateInv, GateTypes, PassTypes, UseTypes, Only
    <3> HIDE <2>7 DEF AgeTimeout, prune, gate, run
    <3> QED
      BY <3>1, <3>2, <3>3, <3>4, <3>5, GateBystanders
  <2> QED
    BY <1>3, <2>1, <2>2, <2>3, <2>4, <2>5, <2>6, <2>7 DEF Empty
<1>4. ASSUME NEW p \in Procs, Purge(p) PROVE GateInv'
  <2>1. CASE PurgeStart(p)
    <3> USE <2>1 DEF PurgeStart, Starts, prune, gate, run
    <3>1. GateTypes'
      <4>1. PlanTypes'
        BY DEF GateInv, GateTypes, PlanTypes
      <4>2. PassTypes'
        BY DEF GateInv, GateTypes, PassTypes
      <4>3. UseTypes'
        BY DEF GateInv, GateTypes, UseTypes
      <4> QED
        BY <4>1, <4>2, <4>3 DEF GateTypes
    <3>2. Counted(p)'
      BY FS_EmptySet, NumberAssumption DEF GateInv, GateTypes, PassTypes, UseTypes, Counted, Quiet
    <3>3. Quiet(p)'
      BY DEF LockInv, Types, GateInv, GateTypes, PlanTypes, PassTypes, Quiet
    <3>4. Only(pc, p) /\ Only(have, p) /\ Only(plan, p) /\ Only(stop, p)
      BY DEF LockInv, Types, GateInv, GateTypes, PlanTypes, Only
    <3>5. Only(passing, p) /\ Only(over, p) /\ Only(used, p) /\ Only(deleted, p)
      BY DEF GateInv, GateTypes, PassTypes, UseTypes, Only
    <3> HIDE <2>1 DEF PurgeStart, Starts, prune, gate, run
    <3> QED
      BY <3>1, <3>2, <3>3, <3>4, <3>5, GateBystanders
  <2>2. CASE PurgeDone(p)
    <3> USE <2>2 DEF PurgeDone, prune, gate, run
    <3>1. GateTypes'
      <4>1. PlanTypes'
        BY DEF GateInv, GateTypes, PlanTypes
      <4>2. PassTypes'
        BY DEF GateInv, GateTypes, PassTypes
      <4>3. UseTypes'
        BY DEF GateInv, GateTypes, UseTypes
      <4> QED
        BY <4>1, <4>2, <4>3 DEF GateTypes
    <3>2. Counted(p)'
      BY DEF GateInv, GateTypes, PassTypes, UseTypes, Counted
    <3>3. Quiet(p)'
      BY DEF LockInv, Types, GateInv, GateTypes, PlanTypes, PassTypes, Quiet
    <3>4. Only(pc, p) /\ Only(have, p) /\ Only(plan, p) /\ Only(stop, p)
      BY DEF LockInv, Types, GateInv, GateTypes, PlanTypes, Only
    <3>5. Only(passing, p) /\ Only(over, p) /\ Only(used, p) /\ Only(deleted, p)
      BY DEF GateInv, GateTypes, PassTypes, UseTypes, Only
    <3> HIDE <2>2 DEF PurgeDone, prune, gate, run
    <3> QED
      BY <3>1, <3>2, <3>3, <3>4, <3>5, GateBystanders
  <2>3. ASSUME NEW r \in Roots, Measure(p, r) PROVE GateInv'
    <3> USE <2>3 DEF Measure, Begin, First, prune, gate, run
    <3>1. GateTypes'
      <4>1. PlanTypes'
        BY DEF GateInv, GateTypes, PlanTypes
      <4>2. PassTypes'
        BY DEF GateInv, GateTypes, PassTypes
      <4>3. UseTypes'
        BY DEF GateInv, GateTypes, UseTypes
      <4> QED
        BY <4>1, <4>2, <4>3 DEF GateTypes
    <3>2. Counted(p)'
      BY DEF GateInv, GateTypes, PassTypes, UseTypes, Counted
    <3>3. Quiet(p)'
      BY DEF LockInv, Types, GateInv, GateTypes, PlanTypes, PassTypes, Quiet
    <3>4. Only(pc, p) /\ Only(have, p) /\ Only(plan, p) /\ Only(stop, p)
      BY DEF LockInv, Types, GateInv, GateTypes, PlanTypes, Only
    <3>5. Only(passing, p) /\ Only(over, p) /\ Only(used, p) /\ Only(deleted, p)
      BY DEF GateInv, GateTypes, PassTypes, UseTypes, Only
    <3> HIDE <2>3 DEF Measure, Begin, First, prune, gate, run
    <3> QED
      BY <3>1, <3>2, <3>3, <3>4, <3>5, GateBystanders
  <2>4. ASSUME NEW r \in Roots, Measured(p, r) PROVE GateInv'
    <3> USE <2>4 DEF Measured, Begin, First, Unlock, prune, gate, run
    <3>1. GateTypes'
      <4>1. PlanTypes'
        BY DEF GateInv, GateTypes, PlanTypes
      <4>2. PassTypes'
        BY DEF GateInv, GateTypes, PassTypes
      <4>3. UseTypes'
        BY DEF GateInv, GateTypes, UseTypes
      <4> QED
        BY <4>1, <4>2, <4>3 DEF GateTypes
    <3>2. Counted(p)'
      BY DEF GateInv, GateTypes, PassTypes, UseTypes, Counted
    <3>3. Quiet(p)'
      BY DEF LockInv, Types, GateInv, GateTypes, PlanTypes, PassTypes, Quiet
    <3>4. Only(pc, p) /\ Only(have, p) /\ Only(plan, p) /\ Only(stop, p)
      BY DEF LockInv, Types, GateInv, GateTypes, PlanTypes, Only
    <3>5. Only(passing, p) /\ Only(over, p) /\ Only(used, p) /\ Only(deleted, p)
      BY DEF GateInv, GateTypes, PassTypes, UseTypes, Only
    <3> HIDE <2>4 DEF Measured, Begin, First, Unlock, prune, gate, run
    <3> QED
      BY <3>1, <3>2, <3>3, <3>4, <3>5, GateBystanders
  <2> QED
    BY <1>4, <2>1, <2>2, <2>3, <2>4 DEF Purge
<1> QED
  BY <1>0, <1>1, <1>2, <1>3, <1>4 DEF Next

(* No run deletes more than its cap.                                       *)
THEOREM CapHolds == Spec => []WithinCap
<1>1. GateInv => WithinCap
  <2> SUFFICES ASSUME GateInv, NEW p \in Procs PROVE deleted[p] <= Cap
    BY DEF WithinCap
  <2> QED
    BY FS_CardinalityType, NumberAssumption DEF GateInv, GateTypes, PassTypes, UseTypes, Counted
<1> QED
  BY <1>1, LockInit, LockStep, GateInit, GateStep, PTL DEF Spec

-----------------------------------------------------------------------------
(* Of the numbers in a set, one is the least.                              *)
LEMMA Least ==
  ASSUME NEW S \in SUBSET Nat, S # {}
  PROVE  \E n \in S : \A m \in S : n <= m
<1>1. PICK n \in S : \A m \in S : ~ (<<m, n>> \in OpToRel(<, Nat))
  BY NatLessThanWellFounded, WFMin
<1>2. \A m \in S : ~ (m < n)
  BY <1>1 DEF OpToRel
<1> QED
  BY <1>2

(* Of the finite sets in a collection, one has the fewest elements.        *)
LEMMA Smallest ==
  ASSUME NEW C, C # {}, \A s \in C : IsFiniteSet(s)
  PROVE  \E s \in C : \A t \in C : Cardinality(s) <= Cardinality(t)
<1> DEFINE N == {Cardinality(s) : s \in C}
<1>1. N \in SUBSET Nat /\ N # {}
  BY FS_CardinalityType
<1>2. PICK n \in N : \A m \in N : n <= m
  BY <1>1, Least
<1> QED
  BY <1>2

(* The sum as Bytes adds it up: one item chosen, and the rest.             *)
Step(f, s) == IF s = {} THEN 0 ELSE LET x == CHOOSE x \in s : TRUE IN x.size + f[s \ {x}]
Adds(f, S) == f = [s \in SUBSET S |-> Step(f, s)]
Adder(S) == CHOOSE f : Adds(f, S)

LEMMA BytesAdds == ASSUME NEW S PROVE Bytes(S) = Adder(S)[S]
BY DEF Bytes, MapThenSumSet, MapThenFoldSet, Adder, Adds, Step

LEMMA AdderExists ==
  ASSUME NEW S, IsFiniteSet(S)
  PROVE  Adds(Adder(S), S)
<1> DEFINE UpTo(n, f) == f = [s \in SUBSET S |-> f[s]] /\ \A s \in SUBSET S : Cardinality(s) <= n => f[s] = Step(f, s)
           Bad == {n \in Nat : ~ \E f : UpTo(n, f)}
<1>0. \A s \in SUBSET S : IsFiniteSet(s) /\ Cardinality(s) \in Nat /\ Cardinality(s) <= Cardinality(S)
  BY FS_Subset, FS_CardinalityType
<1>1. Bad = {}
  <2> SUFFICES ASSUME Bad # {} PROVE FALSE
    OBVIOUS
  <2>1. PICK n \in Bad : \A m \in Bad : n <= m
    BY Least
  <2>2. CASE n = 0
    <3> DEFINE f == [s \in SUBSET S |-> 0]
    <3>1. \A s \in SUBSET S : Cardinality(s) <= 0 => s = {}
      BY <1>0, FS_EmptySet
    <3>2. UpTo(0, f)
      BY <3>1 DEF Step
    <3> QED
      BY <2>1, <2>2, <3>2
  <2>3. CASE n # 0
    <3>0. n \in Nat
      BY <2>1
    <3> HIDE DEF Bad
    <3>1. n - 1 \in Nat /\ n - 1 \notin Bad
      BY <2>1, <2>3, <3>0
    <3> USE DEF Bad
    <3>2. PICK f : UpTo(n - 1, f)
      BY <3>1
    <3> DEFINE g == [s \in SUBSET S |-> Step(f, s)]
    <3>3. ASSUME NEW s \in SUBSET S, Cardinality(s) <= n PROVE g[s] = Step(g, s)
      <4>1. CASE s = {}
        BY <4>1 DEF Step
      <4>2. CASE s # {}
        <5> DEFINE x == CHOOSE x \in s : TRUE
        <5>1. x \in s
          BY <4>2
        <5> HIDE DEF x
        <5>2. s \ {x} \in SUBSET S /\ Cardinality(s \ {x}) <= n - 1
          <6>1. Cardinality(s \ {x}) = Cardinality(s) - 1 /\ Cardinality(s) \in Nat
            BY <1>0, <5>1, OneLess
          <6> QED
            BY <2>1, <3>3, <6>1
        <5>3. f[s \ {x}] = g[s \ {x}]
          BY <3>2, <5>2
        <5>4. g[s] = x.size + f[s \ {x}] /\ Step(g, s) = x.size + g[s \ {x}]
          BY <4>2 DEF Step, x
        <5> QED
          BY <5>3, <5>4
      <4> QED
        BY <4>1, <4>2
    <3>4. UpTo(n, g)
      BY <3>3
    <3> QED
      BY <2>1, <3>4
  <2> QED
    BY <2>2, <2>3
<1>2. PICK f : UpTo(Cardinality(S), f)
  BY <1>0, <1>1
<1>3. Adds(f, S)
  <2>1. \A s \in SUBSET S : f[s] = Step(f, s)
    BY <1>0, <1>2
  <2>2. f = [s \in SUBSET S |-> f[s]]
    BY <1>2
  <2> QED
    BY <2>1, <2>2 DEF Adds
<1> QED
  BY <1>3 DEF Adder

LEMMA AddersAgree ==
  ASSUME NEW S, NEW T, NEW f, NEW g, Adds(f, S), Adds(g, T), NEW U \in SUBSET (S \cap T), IsFiniteSet(U)
  PROVE  f[U] = g[U]
<1> DEFINE Bad == {s \in SUBSET U : f[s] # g[s]}
<1>0. \A s \in SUBSET U : IsFiniteSet(s) /\ Cardinality(s) \in Nat /\ f[s] = Step(f, s) /\ g[s] = Step(g, s)
  BY FS_Subset, FS_CardinalityType DEF Adds
<1>1. Bad = {}
  <2> SUFFICES ASSUME Bad # {} PROVE FALSE
    OBVIOUS
  <2>1. PICK s \in Bad : \A t \in Bad : Cardinality(s) <= Cardinality(t)
    BY <1>0, Smallest
  <2>2. s # {}
    BY <1>0 DEF Step
  <2> DEFINE x == CHOOSE x \in s : TRUE
  <2>3. x \in s
    BY <2>2
  <2> HIDE DEF x
  <2>4. f[s \ {x}] = g[s \ {x}]
    <3>1. Cardinality(s \ {x}) = Cardinality(s) - 1 /\ Cardinality(s) \in Nat
      BY <1>0, <2>3, OneLess
    <3> QED
      BY <2>1, <3>1
  <2>5. f[s] = x.size + f[s \ {x}] /\ g[s] = x.size + g[s \ {x}]
    BY <1>0, <2>2 DEF Step, x
  <2> QED
    BY <2>4, <2>5
<1> QED
  BY <1>1

LEMMA BytesStep ==
  ASSUME NEW S, IsFiniteSet(S), S # {}
  PROVE  \E x \in S : Bytes(S) = x.size + Bytes(S \ {x})
<1> DEFINE x == CHOOSE x \in S : TRUE
<1>1. x \in S /\ IsFiniteSet(S \ {x})
  BY FS_RemoveElement
<1>2. Adder(S)[S \ {x}] = Adder(S \ {x})[S \ {x}]
  BY <1>1, AdderExists, AddersAgree
<1>3. Adder(S)[S] = x.size + Adder(S)[S \ {x}]
  BY AdderExists DEF Adds, Step
<1> QED
  BY <1>1, <1>2, <1>3, BytesAdds

Weighed(S) == IsFiniteSet(S) /\ \A i \in S : i.size \in Nat

(* The sizes of a set of items add up to a number.                         *)
LEMMA BytesNat ==
  ASSUME NEW S, Weighed(S)
  PROVE  Bytes(S) \in Nat /\ Bytes({}) = 0
<1>0. \A s \in SUBSET S : IsFiniteSet(s) /\ Cardinality(s) \in Nat
  BY FS_Subset, FS_CardinalityType DEF Weighed
<1>1. Bytes({}) = 0
  BY BytesAdds, AdderExists, FS_EmptySet DEF Adds, Step
<1> DEFINE Bad == {s \in SUBSET S : Bytes(s) \notin Nat}
<1>2. Bad = {}
  <2> SUFFICES ASSUME Bad # {} PROVE FALSE
    OBVIOUS
  <2>1. PICK s \in Bad : \A t \in Bad : Cardinality(s) <= Cardinality(t)
    BY <1>0, Smallest
  <2>2. s # {}
    BY <1>1
  <2>3. PICK x \in s : Bytes(s) = x.size + Bytes(s \ {x})
    BY <1>0, <2>2, BytesStep
  <2>4. Bytes(s \ {x}) \in Nat /\ x.size \in Nat
    <3>1. Cardinality(s \ {x}) = Cardinality(s) - 1 /\ Cardinality(s) \in Nat
      BY <1>0, <2>3, OneLess
    <3> QED
      BY <2>1, <2>3, <3>1 DEF Weighed
  <2> QED
    BY <2>3, <2>4
<1> QED
  BY <1>1, <1>2

(* Any item of a set adds its size to the rest.                            *)
LEMMA BytesRemove ==
  ASSUME NEW S, Weighed(S), NEW i \in S
  PROVE  Bytes(S) = i.size + Bytes(S \ {i})
<1>0. \A s \in SUBSET S : IsFiniteSet(s) /\ Cardinality(s) \in Nat /\ Weighed(s) /\ Bytes(s) \in Nat
  <2>1. \A s \in SUBSET S : IsFiniteSet(s) /\ Cardinality(s) \in Nat /\ Weighed(s)
    BY FS_Subset, FS_CardinalityType DEF Weighed
  <2> QED
    BY <2>1, BytesNat
<1> DEFINE Right(s) == \A y \in s : Bytes(s) = y.size + Bytes(s \ {y})
           Bad == {s \in SUBSET S : ~Right(s)}
<1>1. Bad = {}
  <2> SUFFICES ASSUME Bad # {} PROVE FALSE
    OBVIOUS
  <2>1. PICK s \in Bad : \A t \in Bad : Cardinality(s) <= Cardinality(t)
    BY <1>0, Smallest
  <2>2. PICK y \in s : Bytes(s) # y.size + Bytes(s \ {y})
    BY <2>1
  <2>3. PICK x \in s : Bytes(s) = x.size + Bytes(s \ {x})
    BY <1>0, <2>2, BytesStep
  <2>4. x # y
    BY <2>2, <2>3
  <2>5. ASSUME NEW z \in s PROVE Right(s \ {z})
    <3>1. Cardinality(s \ {z}) = Cardinality(s) - 1 /\ Cardinality(s) \in Nat
      BY <1>0, OneLess
    <3> QED
      BY <2>1, <3>1
  <2>6. Bytes(s \ {x}) = y.size + Bytes((s \ {x}) \ {y}) /\ Bytes(s \ {y}) = x.size + Bytes((s \ {y}) \ {x})
    BY <2>4, <2>5
  <2>7. Bytes((s \ {x}) \ {y}) = Bytes((s \ {y}) \ {x})
    <3>1. (s \ {x}) \ {y} = (s \ {y}) \ {x}
      OBVIOUS
    <3> QED
      BY <3>1
  <2>8. x.size \in Nat /\ y.size \in Nat /\ Bytes((s \ {x}) \ {y}) \in Nat
    BY <1>0 DEF Weighed
  <2> QED
    BY <2>2, <2>3, <2>6, <2>7, <2>8
<1> QED
  BY <1>1

(* A part and the rest add up to the whole.                                *)
LEMMA BytesSplit ==
  ASSUME NEW S, Weighed(S), NEW T \in SUBSET S
  PROVE  /\ Bytes(S) = Bytes(T) + Bytes(S \ T)
         /\ Bytes(S) \in Nat /\ Bytes(T) \in Nat /\ Bytes(S \ T) \in Nat
<1>0. \A s \in SUBSET S : IsFiniteSet(s) /\ Cardinality(s) \in Nat /\ Weighed(s) /\ Bytes(s) \in Nat
  <2>1. \A s \in SUBSET S : IsFiniteSet(s) /\ Cardinality(s) \in Nat /\ Weighed(s)
    BY FS_Subset, FS_CardinalityType DEF Weighed
  <2> QED
    BY <2>1, BytesNat
<1> DEFINE Bad == {t \in SUBSET T : Bytes(S) # Bytes(t) + Bytes(S \ t)}
<1>1. Bad = {}
  <2> SUFFICES ASSUME Bad # {} PROVE FALSE
    OBVIOUS
  <2>1. PICK t \in Bad : \A u \in Bad : Cardinality(t) <= Cardinality(u)
    BY <1>0, Smallest
  <2>2. t # {}
    BY <1>0, BytesNat
  <2>3. PICK x \in t : TRUE
    BY <2>2
  <2>4. Bytes(S) = Bytes(t \ {x}) + Bytes(S \ (t \ {x}))
    <3>1. Cardinality(t \ {x}) = Cardinality(t) - 1 /\ Cardinality(t) \in Nat
      BY <1>0, OneLess
    <3> QED
      BY <2>1, <3>1
  <2>5. Bytes(t) = x.size + Bytes(t \ {x})
    BY <1>0, BytesRemove
  <2>6. Bytes(S \ (t \ {x})) = x.size + Bytes(S \ t)
    <3>1. (S \ (t \ {x})) \ {x} = S \ t /\ x \in S \ (t \ {x}) /\ S \ (t \ {x}) \in SUBSET S
      BY <2>3
    <3> QED
      BY <1>0, <3>1, BytesRemove
  <2>7. x.size \in Nat /\ Bytes(t \ {x}) \in Nat /\ Bytes(S \ t) \in Nat
    BY <1>0 DEF Weighed
  <2>8. Bytes(S) # Bytes(t) + Bytes(S \ t)
    BY <2>1
  <2> HIDE DEF Bad
  <2> QED
    BY <2>4, <2>5, <2>6, <2>7, <2>8
<1> QED
  BY <1>0, <1>1

-----------------------------------------------------------------------------
Commands == {"idle", "put", "empty", "purge"}

(* Every item has a number of its own.                                     *)
Numbered ==
  /\ IsFiniteSet(items) /\ \A i \in items : i.id <= made
  /\ \A i, j \in items : i.id = j.id => i = j

(* Each place is one of a command's.                                       *)
Running(p) ==
  /\ pc[p] \in {"looked", "age"} => cmd[p] = "empty"
  /\ pc[p] \in {"put", "check"} => cmd[p] = "put"
  /\ pc[p] = "short" => cmd[p] = "purge"
  /\ IsFiniteSet(plan[p])

TypeInv ==
  /\ TypeOK /\ cmd \in [Procs -> Commands]
  /\ Numbered /\ \A p \in Procs : Running(p)

Steps(p) == PruneStep(p) \/ Put(p) \/ Empty(p) \/ Purge(p)

(* A process leaves the locals of another alone.                           *)
Aside(q) ==
  /\ pc'[q] = pc[q] /\ cmd'[q] = cmd[q] /\ roots'[q] = roots[q]
  /\ want'[q] = want[q] /\ have'[q] = have[q] /\ max'[q] = max[q] /\ plan'[q] = plan[q]
  /\ seen'[q] = seen[q] /\ gone'[q] = gone[q] /\ batch'[q] = batch[q] /\ sum'[q] = sum[q]
  /\ used'[q] = used[q] /\ passing'[q] = passing[q] /\ over'[q] = over[q]
  /\ errors'[q] = errors[q] /\ stop'[q] = stop[q] /\ refused'[q] = refused[q]
  /\ changed[q] => changed'[q]

LEMMA Apart ==
  ASSUME TypeInv, NEW p \in Procs, Steps(p), NEW q \in Procs \ {p}
  PROVE  Aside(q)
<1> USE DEF Set, Goto, TypeInv, TypeOK, Aside, shared, prune, gate, count, run
<1>1. CASE PruneStep(p)
  BY <1>1 DEF PruneStep, PrunePlan, Press, PruneDone, Delete, GateIn, GateRefuse, Remove, RemoveStuck, LockRoot, LockTimeout
<1>2. CASE Put(p)
  <2>1. ASSUME NEW r \in Roots, NEW s \in Sizes, NEW e \in Epochs, PutItem(p, r, s, e) PROVE Aside(q)
    BY <2>1 DEF PutItem
  <2>2. ASSUME NEW r \in Roots, Check(p, r) PROVE Aside(q)
    BY <2>2 DEF Check, Begin
  <2>3. CASE PutStart(p) \/ PutDone(p) \/ CheckDone(p)
    BY <2>3 DEF PutStart, Starts, PutDone, CheckDone
  <2> QED
    BY <1>2, <2>1, <2>2, <2>3 DEF Put
<1>3. CASE Empty(p)
  BY <1>3 DEF Empty, Look, Starts, Count, CountDone, AgeUnlock, AgeDone, AgeLock, AgeTimeout, Begin
<1>4. CASE Purge(p)
  BY <1>4 DEF Purge, PurgeStart, Starts, PurgeDone, Measure, Measured, Begin
<1> QED
  BY <1>1, <1>2, <1>3, <1>4 DEF Steps

(* The items weigh something, and what is picked from them is finite.      *)
LEMMA Picked ==
  ASSUME TypeInv, NEW p \in Procs
  PROVE  /\ Weighed(items)
         /\ Plan(p) \subseteq items /\ Aged(p) \subseteq items /\ Candidates(p) \subseteq items
         /\ \A s \in SUBSET items : IsFiniteSet(s) /\ Cardinality(s) \in Nat /\ Bytes(s) \in Nat
<1>1. Weighed(items)
  BY NumberAssumption DEF Weighed, TypeInv, TypeOK, Numbered, Item
<1>2. Plan(p) \subseteq items /\ Aged(p) \subseteq items /\ Candidates(p) \subseteq items
  BY DEF Plan, Takeable, Candidates, Aged
<1>3. ASSUME NEW s \in SUBSET items PROVE IsFiniteSet(s) /\ Cardinality(s) \in Nat /\ Bytes(s) \in Nat
  <2>1. IsFiniteSet(s) /\ Weighed(s)
    BY <1>1, FS_Subset DEF Weighed
  <2> QED
    BY <2>1, BytesNat, FS_CardinalityType
<1> QED
  BY <1>1, <1>2, <1>3

(* The types one by one, but for that of USED.                             *)
Typed ==
  /\ pc \in [Procs -> Places] /\ cmd \in [Procs -> Commands]
  /\ items \subseteq Item /\ made \in 0..MaxItems /\ runs \in 0..MaxRuns /\ free \in Nat
  /\ lock \in [Roots -> Procs \cup {NoProc}]
  /\ roots \in [Procs -> SUBSET Roots]
  /\ want \in [Procs -> SUBSET Roots] /\ have \in [Procs -> SUBSET Roots]
  /\ plan \in [Procs -> SUBSET Item]
  /\ passing \in [Procs -> SUBSET Item] /\ over \in [Procs -> SUBSET Item]
  /\ max \in [Procs -> Nat] /\ sum \in [Procs -> Nat] /\ deleted \in [Procs -> Nat]
  /\ seen \in [Procs -> SUBSET (1..MaxItems)]
  /\ gone \in [Procs -> Epochs \cup {0}] /\ batch \in [Procs -> 0..MaxItems]
  /\ errors \in [Procs -> BOOLEAN] /\ stop \in [Procs -> BOOLEAN]
  /\ refused \in [Procs -> BOOLEAN] /\ changed \in [Procs -> BOOLEAN]

LEMMA TypedStep ==
  ASSUME TypeInv, Typed, NEW p \in Procs, Steps(p)
  PROVE  Typed'
<1> USE DEF Set, Goto, Typed, shared, prune, gate, count, run
<1>91. /\ Budget \in Nat /\ MaxItems \in Nat /\ MaxRuns \in Nat /\ Floor \in Nat
      /\ Roots \subseteq Nat /\ Sizes \subseteq Nat
  BY NumberAssumption
<1>92. \A s \in SUBSET items : Cardinality(s) \in Nat /\ Bytes(s) \in Nat
  BY Picked
<1>93. /\ Aged(p) \in SUBSET items /\ Candidates(p) \in SUBSET items
      /\ \A i \in items : i.size \in Nat
  BY <1>91 DEF Aged, Candidates, Item
<1>1. CASE PrunePlan(p)
  BY <1>91, <1>92, <1>93, <1>1 DEF PrunePlan, Places, Plan, Takeable, Candidates
<1>2. CASE Press(p)
  BY <1>91, <1>92, <1>93, <1>2 DEF Press
<1>3. CASE PruneDone(p)
  BY <1>91, <1>92, <1>93, <1>3 DEF PruneDone, After, Unlock, Places
<1>4. ASSUME NEW r \in Roots, LockRoot(p, r) PROVE Typed'
  BY <1>91, <1>92, <1>93, <1>4 DEF LockRoot, Turn
<1>5. ASSUME NEW r \in Roots, LockTimeout(p, r) PROVE Typed'
  BY <1>91, <1>92, <1>93, <1>5 DEF LockTimeout, Turn
<1>6. ASSUME NEW i \in items, GateIn(p, i) PROVE Typed'
  <2>1. plan' \in [Procs -> SUBSET Item] /\ passing' \in [Procs -> SUBSET Item]
        /\ over' \in [Procs -> SUBSET Item]
    <3>1. i \in Item
      OBVIOUS
    <3>2. plan' = [plan EXCEPT ![p] = plan[p] \ {i}]
      BY <1>6 DEF GateIn
    <3>3. \/ passing' = [passing EXCEPT ![p] = passing[p] \cup {i}] /\ over' = over
          \/ over' = [over EXCEPT ![p] = over[p] \cup {i}] /\ passing' = passing
      BY <1>6 DEF GateIn
    <3> HIDE DEF Set, Goto, shared, prune, gate, count, run
    <3> QED
      BY <3>1, <3>2, <3>3
  <2> QED
    BY <2>1, <1>6 DEF GateIn
<1>7. ASSUME NEW i \in items, GateRefuse(p, i) PROVE Typed'
  BY <1>91, <1>92, <1>93, <1>7 DEF GateRefuse
<1>8. ASSUME NEW i \in items, Remove(p, i) PROVE Typed'
  <2>1. items' \subseteq Item /\ free' \in Nat
    BY <1>93, <1>8 DEF Remove
  <2> QED
    BY <2>1, <1>8 DEF Remove
<1>9. ASSUME NEW i \in items, RemoveStuck(p, i) PROVE Typed'
  BY <1>91, <1>92, <1>93, <1>9 DEF RemoveStuck
<1>10. CASE PutStart(p)
  BY <1>91, <1>92, <1>93, <1>10 DEF PutStart, Starts, Places, Commands
<1>11. CASE PutDone(p)
  BY <1>91, <1>92, <1>93, <1>11 DEF PutDone, Places
<1>12. CASE CheckDone(p)
  BY <1>91, <1>92, <1>93, <1>12 DEF CheckDone, Places
<1>13. ASSUME NEW r \in Roots, Check(p, r) PROVE Typed'
  <2>1. CASE Bytes({i \in items : i.root = r}) > Budget /\ Begin(p, "lock", {r}, Budget)
    BY <1>91, <2>1, <1>13 DEF Check, Begin, Places
  <2>2. CASE UNCHANGED <<pc, prune>>
    BY <2>2, <1>13 DEF Check
  <2> QED
    BY <2>1, <2>2, <1>13 DEF Check
<1>14. ASSUME NEW r \in Roots, NEW s \in Sizes, NEW e \in Epochs, PutItem(p, r, s, e) PROVE Typed'
  BY <1>91, <1>92, <1>93, <1>14 DEF PutItem, Item
<1>15. CASE Look(p)
  BY <1>91, <1>92, <1>93, <1>15 DEF Look, Starts, Places, Commands, Item
<1>16. CASE Count(p)
  BY <1>91, <1>92, <1>93, <1>16 DEF Count, Begin, Places
<1>17. CASE CountDone(p)
  BY <1>91, <1>92, <1>93, <1>17 DEF CountDone, Unlock, Places
<1>18. CASE AgeUnlock(p)
  BY <1>91, <1>92, <1>93, <1>18 DEF AgeUnlock, Unlock
<1>19. CASE AgeDone(p)
  BY <1>91, <1>92, <1>93, <1>19 DEF AgeDone, Begin, Places
<1>20. ASSUME NEW r \in Roots, AgeLock(p, r) PROVE Typed'
  BY <1>91, <1>92, <1>93, <1>20 DEF AgeLock, Aged
<1>21. ASSUME NEW r \in Roots, AgeTimeout(p, r) PROVE Typed'
  BY <1>91, <1>92, <1>93, <1>21 DEF AgeTimeout
<1>22. CASE PurgeStart(p)
  BY <1>91, <1>92, <1>93, <1>22 DEF PurgeStart, Starts, Places, Commands
<1>23. CASE PurgeDone(p)
  BY <1>91, <1>92, <1>93, <1>23 DEF PurgeDone, Places
<1>24. ASSUME NEW r \in Roots, Measure(p, r) PROVE Typed'
  BY <1>91, <1>92, <1>93, <1>24 DEF Measure, Begin, Need, Places
<1>25. ASSUME NEW r \in Roots, Measured(p, r) PROVE Typed'
  BY <1>91, <1>92, <1>93, <1>25 DEF Measured, Begin, MinusNeed, Unlock, Places
<1> QED
  BY <1>1, <1>2, <1>3, <1>4, <1>5, <1>6, <1>7, <1>8, <1>9, <1>10, <1>11, <1>12, <1>13, <1>14,
     <1>15, <1>16, <1>17, <1>18, <1>19, <1>20, <1>21, <1>22, <1>23, <1>24, <1>25 DEF Steps, PruneStep, Delete, Put, Empty, Purge

(* What a step does to the items.                                          *)
LEMMA ItemsStep ==
  ASSUME NEW p \in Procs, Steps(p)
  PROVE  \/ UNCHANGED <<items, made>>
         \/ \E i \in items : Remove(p, i)
         \/ \E r \in Roots, s \in Sizes, e \in Epochs : PutItem(p, r, s, e)
BY DEF Steps, PruneStep, PrunePlan, Press, PruneDone, Delete, GateIn, GateRefuse, RemoveStuck,
       LockRoot, LockTimeout, Put, PutStart, PutDone, CheckDone, Check, Empty, Look, Count, CountDone,
       AgeUnlock, AgeDone, AgeLock, AgeTimeout, Purge, PurgeStart, PurgeDone, Measure, Measured, shared

LEMMA NumberedStep ==
  ASSUME TypeInv, Typed, NEW p \in Procs, Steps(p)
  PROVE  Numbered'
<1>1. IsFiniteSet(items) /\ Numbered /\ made \in Nat
  BY DEF TypeInv, Numbered, Typed
<1>2. CASE UNCHANGED <<items, made>>
  BY <1>1, <1>2 DEF Numbered
<1>3. ASSUME NEW i \in items, Remove(p, i) PROVE Numbered'
  <2>1. items' = items \ {i} /\ made' = made /\ IsFiniteSet(items')
    BY <1>1, <1>3, FS_RemoveElement DEF Remove
  <2> QED
    BY <1>1, <2>1 DEF Numbered
<1>4. ASSUME NEW r \in Roots, NEW s \in Sizes, NEW e \in Epochs, PutItem(p, r, s, e)
      PROVE  Numbered'
  <2> DEFINE new == [id |-> made + 1, root |-> r, size |-> s, epoch |-> e, batch |-> batch[p]]
  <2>1. items' = items \cup {new} /\ made' = made + 1 /\ IsFiniteSet(items')
    BY <1>1, <1>4, FS_AddElement DEF PutItem
  <2>2. new.id = made + 1
    OBVIOUS
  <2>4. \A i \in items : i.id <= made /\ i.id \in Nat
    BY <1>1, NumberAssumption DEF Numbered, Typed, Item
  <2> HIDE DEF new
  <2> QED
    BY <1>1, <2>1, <2>2, <2>4 DEF Numbered
<1> QED
  BY <1>2, <1>3, <1>4, ItemsStep

LEMMA RunningStep ==
  ASSUME TypeInv, Typed, NEW p \in Procs, Steps(p)
  PROVE  \A q \in Procs : Running(q)'
<1>1. ASSUME NEW q \in Procs \ {p} PROVE Running(q)'
  <2>1. Running(q)
    BY DEF TypeInv
  <2> QED
    BY <2>1, Apart DEF Aside, Running
<1>2. Running(p)'
  <2> USE DEF Set, Goto, Typed, shared, prune, gate, count, run
  <2>91. Running(p) /\ IsFiniteSet({})
    BY FS_EmptySet DEF TypeInv
  <2>92. \A s : s \subseteq items => IsFiniteSet(s)
    BY Picked
  <2>93. \A i : IsFiniteSet(plan[p] \ {i})
    <3>1. IsFiniteSet(plan[p])
      BY <2>91 DEF Running
    <3> QED
      BY <3>1, FS_RemoveElement
  <2>94. Plan(p) \subseteq items /\ Aged(p) \subseteq items
    BY Picked
  <2>1. CASE PrunePlan(p)
    BY <2>91, <2>92, <2>93, <2>94, <2>1 DEF PrunePlan, Running
  <2>2. CASE Press(p)
    BY <2>91, <2>92, <2>93, <2>94, <2>2 DEF Press, Running
  <2>3. CASE PruneDone(p)
    BY <2>91, <2>92, <2>93, <2>94, <2>3 DEF PruneDone, After, Running
  <2>4. ASSUME NEW r \in Roots, LockRoot(p, r) PROVE Running(p)'
    BY <2>91, <2>92, <2>93, <2>94, <2>4 DEF LockRoot, Running
  <2>5. ASSUME NEW r \in Roots, LockTimeout(p, r) PROVE Running(p)'
    BY <2>91, <2>92, <2>93, <2>94, <2>5 DEF LockTimeout, Running
  <2>6. ASSUME NEW i \in items, GateIn(p, i) PROVE Running(p)'
    BY <2>91, <2>92, <2>93, <2>94, <2>6 DEF GateIn, Running
  <2>7. ASSUME NEW i \in items, GateRefuse(p, i) PROVE Running(p)'
    BY <2>91, <2>92, <2>93, <2>94, <2>7 DEF GateRefuse, Running
  <2>8. ASSUME NEW i \in items, Remove(p, i) PROVE Running(p)'
    BY <2>91, <2>92, <2>93, <2>94, <2>8 DEF Remove, Running
  <2>9. ASSUME NEW i \in items, RemoveStuck(p, i) PROVE Running(p)'
    BY <2>91, <2>92, <2>93, <2>94, <2>9 DEF RemoveStuck, Running
  <2>10. CASE PutStart(p)
    BY <2>91, <2>92, <2>93, <2>94, <2>10 DEF PutStart, Starts, Running
  <2>11. CASE PutDone(p)
    BY <2>91, <2>92, <2>93, <2>94, <2>11 DEF PutDone, Running
  <2>12. CASE CheckDone(p)
    BY <2>91, <2>92, <2>93, <2>94, <2>12 DEF CheckDone, Running
  <2>13. ASSUME NEW r \in Roots, Check(p, r) PROVE Running(p)'
    BY <2>91, <2>92, <2>93, <2>94, <2>13 DEF Check, Begin, Running
  <2>14. ASSUME NEW r \in Roots, NEW s \in Sizes, NEW e \in Epochs, PutItem(p, r, s, e) PROVE Running(p)'
    BY <2>91, <2>92, <2>93, <2>94, <2>14 DEF PutItem, Running
  <2>15. CASE Look(p)
    BY <2>91, <2>92, <2>93, <2>94, <2>15 DEF Look, Starts, Running
  <2>16. CASE Count(p)
    BY <2>91, <2>92, <2>93, <2>94, <2>16 DEF Count, Begin, Running
  <2>17. CASE CountDone(p)
    BY <2>91, <2>92, <2>93, <2>94, <2>17 DEF CountDone, Running
  <2>18. CASE AgeUnlock(p)
    BY <2>91, <2>92, <2>93, <2>94, <2>18 DEF AgeUnlock, Running
  <2>19. CASE AgeDone(p)
    BY <2>91, <2>92, <2>93, <2>94, <2>19 DEF AgeDone, Begin, Running
  <2>20. ASSUME NEW r \in Roots, AgeLock(p, r) PROVE Running(p)'
    BY <2>91, <2>92, <2>93, <2>94, <2>20 DEF AgeLock, Running
  <2>21. ASSUME NEW r \in Roots, AgeTimeout(p, r) PROVE Running(p)'
    BY <2>91, <2>92, <2>93, <2>94, <2>21 DEF AgeTimeout, Running
  <2>22. CASE PurgeStart(p)
    BY <2>91, <2>92, <2>93, <2>94, <2>22 DEF PurgeStart, Starts, Running
  <2>23. CASE PurgeDone(p)
    BY <2>91, <2>92, <2>93, <2>94, <2>23 DEF PurgeDone, Running
  <2>24. ASSUME NEW r \in Roots, Measure(p, r) PROVE Running(p)'
    BY <2>91, <2>92, <2>93, <2>94, <2>24 DEF Measure, Begin, Running
  <2>25. ASSUME NEW r \in Roots, Measured(p, r) PROVE Running(p)'
    BY <2>91, <2>92, <2>93, <2>94, <2>25 DEF Measured, Begin, Running
  <2> QED
    BY <2>1, <2>2, <2>3, <2>4, <2>5, <2>6, <2>7, <2>8, <2>9, <2>10, <2>11, <2>12, <2>13, <2>14,
     <2>15, <2>16, <2>17, <2>18, <2>19, <2>20, <2>21, <2>22, <2>23, <2>24, <2>25 DEF Steps, PruneStep, Delete, Put, Empty, Purge
<1> QED
  BY <1>1, <1>2

LEMMA TypeInit == Init => TypeInv
<1> SUFFICES ASSUME Init PROVE TypeInv
  OBVIOUS
<1>1. PICK f \in [1..Old -> Roots \X Sizes \X (Epochs \cup {Undated})] :
        items = {[id |-> i, root |-> f[i][1], size |-> f[i][2],
                  epoch |-> f[i][3], batch |-> 0] : i \in 1..Old}
  BY DEF Init
<1>2. Old \in Nat /\ MaxItems \in Nat /\ Old <= MaxItems /\ MaxRuns \in Nat
  BY NumberAssumption
<1>3. items \subseteq Item
  <2> SUFFICES ASSUME NEW i \in 1..Old
               PROVE  [id |-> i, root |-> f[i][1], size |-> f[i][2],
                       epoch |-> f[i][3], batch |-> 0] \in Item
    BY <1>1
  <2>1. f[i] \in Roots \X Sizes \X (Epochs \cup {Undated})
    OBVIOUS
  <2>2. f[i][1] \in Roots /\ f[i][2] \in Sizes /\ f[i][3] \in Epochs \cup {Undated}
    BY <2>1
  <2> QED
    BY <1>2, <2>2 DEF Item
<1>4. Numbered
  <2> DEFINE F == [i \in 1..Old |-> [id |-> i, root |-> f[i][1], size |-> f[i][2],
                                     epoch |-> f[i][3], batch |-> 0]]
  <2>1. IsFiniteSet(1..Old)
    BY <1>2, FS_Interval
  <2>2. items = {F[i] : i \in 1..Old}
    BY <1>1
  <2>3. F \in [1..Old -> items]
    BY <2>2
  <2>4. IsFiniteSet(items)
    <3> HIDE DEF F
    <3>1. F \in Surjection(1..Old, items)
      BY <2>2, <2>3 DEF Surjection
    <3> QED
      BY <2>1, <3>1, FS_Surjection
  <2>5. made = Old
    BY DEF Init
  <2> QED
    BY <1>1, <1>2, <2>4, <2>5 DEF Numbered
<1>5. TypeOK
  <2>1. /\ made \in 0..MaxItems /\ runs \in 0..MaxRuns /\ free \in Nat
        /\ lock \in [Roots -> Procs \cup {NoProc}]
    BY <1>2 DEF Init
  <2>2. /\ pc \in [Procs -> Places] /\ {roots, want, have} \subseteq [Procs -> SUBSET Roots]
        /\ {plan, passing, over} \subseteq [Procs -> SUBSET Item]
        /\ seen \in [Procs -> SUBSET (1..MaxItems)]
    BY DEF Init, Places
  <2>3. /\ {max, sum, deleted, used} \subseteq [Procs -> Nat]
        /\ gone \in [Procs -> Epochs \cup {0}] /\ batch \in [Procs -> 0..MaxItems]
    BY <1>2 DEF Init
  <2>4. {errors, stop, refused, changed} \subseteq [Procs -> BOOLEAN]
    BY DEF Init
  <2> QED
    BY <1>3, <2>1, <2>2, <2>3, <2>4 DEF TypeOK
<1>6. cmd \in [Procs -> Commands] /\ \A p \in Procs : Running(p)
  BY FS_EmptySet DEF Init, Commands, Running
<1> QED
  BY <1>4, <1>5, <1>6 DEF TypeInv

LEMMA TypeStep == TypeInv /\ GateInv' /\ [Next]_vars => TypeInv'
<1> SUFFICES ASSUME TypeInv, GateInv', [Next]_vars PROVE TypeInv'
  OBVIOUS
<1>1. CASE UNCHANGED vars
  BY <1>1 DEF vars, shared, prune, gate, count, run, TypeInv, TypeOK, Numbered, Running
<1>2. ASSUME NEW p \in Procs, Steps(p) PROVE TypeInv'
  <2>1. Typed
    BY DEF TypeInv, TypeOK, Typed
  <2>2. Typed' /\ Numbered' /\ \A q \in Procs : Running(q)'
    BY <1>2, <2>1, TypedStep, NumberedStep, RunningStep
  <2>3. used' \in [Procs -> Nat]
    <3>1. used' \in [Procs -> Int] /\ deleted' \in [Procs -> Nat]
      BY DEF GateInv, GateTypes, UseTypes
    <3>2. ASSUME NEW q \in Procs PROVE used'[q] >= 0
      <4>1. Counted(q)'
        BY DEF GateInv
      <4>2. Cardinality(passing'[q]) \in Nat /\ Cardinality(over'[q]) \in Nat
        BY <4>1, FS_CardinalityType DEF Counted
      <4> QED
        BY <3>1, <4>1, <4>2 DEF Counted
    <3> QED
      BY <3>1, <3>2
  <2>4. TypeOK'
    BY <2>2, <2>3 DEF Typed, TypeOK
  <2> QED
    BY <2>2, <2>4 DEF TypeInv, Typed
<1> QED
  BY <1>1, <1>2 DEF Next, Steps

-----------------------------------------------------------------------------
(* A prune has the locks of its roots, and deletes in these alone; an      *)
(* empty deletes what it counted.                                          *)
Doomed(p) == plan[p] \cup passing[p] \cup over[p]
Fenced(p) ==
  /\ \A r \in have[p] : lock[r] = p
  /\ \A i \in passing[p] \cup over[p] : i.root \in have[p]
  /\ pc[p] = "prune" \/ (pc[p] = "age" /\ have[p] # {}) =>
       \A i \in plan[p] : i.root \in have[p]
  /\ pc[p] = "age" => \A i \in Doomed(p) : i.id \in seen[p]
FenceInv == \A p \in Procs : Fenced(p)

LEMMA Locking ==
  ASSUME TypeInv, NEW p \in Procs, Steps(p), NEW r \in Roots
  PROVE  lock'[r] = lock[r] \/ (lock[r] \in {p, NoProc} /\ lock'[r] \in {p, NoProc})
<1> USE DEF Set, TypeInv, TypeOK, shared
<1>1. CASE PruneStep(p)
  BY <1>1 DEF PruneStep, PrunePlan, Press, PruneDone, Unlock, Delete, GateIn, GateRefuse, Remove,
     RemoveStuck, LockRoot, LockTimeout
<1>2. CASE Put(p)
  BY <1>2 DEF Put, PutStart, PutDone, CheckDone, Check, PutItem
<1>3. CASE Empty(p)
  BY <1>3 DEF Empty, Look, Count, CountDone, Unlock, AgeUnlock, AgeDone, AgeLock, AgeTimeout
<1>4. CASE Purge(p)
  BY <1>4 DEF Purge, PurgeStart, PurgeDone, Measure, Measured, Unlock
<1> QED
  BY <1>1, <1>2, <1>3, <1>4 DEF Steps

LEMMA FenceKept ==
  ASSUME TypeInv, GateInv, FenceInv, NEW p \in Procs, Steps(p)
  PROVE  Fenced(p)'
<1> USE DEF Set, Goto, Typed, shared, prune, gate, count, run, Doomed
<1>91. Typed
  BY DEF TypeInv, TypeOK, Typed
<1>92. Fenced(p) /\ Quiet(p)
  BY DEF FenceInv, GateInv
<1>1. CASE PrunePlan(p)
  BY <1>91, <1>92, <1>1 DEF PrunePlan, Plan, Takeable, Candidates, Fenced, Quiet
<1>2. CASE Press(p)
  BY <1>91, <1>92, <1>2 DEF Press, Fenced, Quiet
<1>3. CASE PruneDone(p)
  BY <1>91, <1>92, <1>3 DEF PruneDone, After, Unlock, Deleting, Fenced, Quiet
<1>4. ASSUME NEW r \in Roots, LockRoot(p, r) PROVE Fenced(p)'
  BY <1>91, <1>92, <1>4 DEF LockRoot, Fenced, Quiet
<1>5. ASSUME NEW r \in Roots, LockTimeout(p, r) PROVE Fenced(p)'
  BY <1>91, <1>92, <1>5 DEF LockTimeout, Fenced, Quiet
<1>6. ASSUME NEW i \in items, GateIn(p, i) PROVE Fenced(p)'
  BY <1>91, <1>92, <1>6 DEF GateIn, IsNext, Fenced, Quiet
<1>7. ASSUME NEW i \in items, GateRefuse(p, i) PROVE Fenced(p)'
  BY <1>91, <1>92, <1>7 DEF GateRefuse, Fenced, Quiet
<1>8. ASSUME NEW i \in items, Remove(p, i) PROVE Fenced(p)'
  BY <1>91, <1>92, <1>8 DEF Remove, Fenced, Quiet
<1>9. ASSUME NEW i \in items, RemoveStuck(p, i) PROVE Fenced(p)'
  BY <1>91, <1>92, <1>9 DEF RemoveStuck, Fenced, Quiet
<1>10. CASE PutStart(p)
  BY <1>91, <1>92, <1>10 DEF PutStart, Starts, Fenced, Quiet
<1>11. CASE PutDone(p)
  BY <1>91, <1>92, <1>11 DEF PutDone, Fenced, Quiet
<1>12. CASE CheckDone(p)
  BY <1>91, <1>92, <1>12 DEF CheckDone, Fenced, Quiet
<1>13. ASSUME NEW r \in Roots, Check(p, r) PROVE Fenced(p)'
  BY <1>91, <1>92, <1>13 DEF Check, Begin, Fenced, Quiet
<1>14. ASSUME NEW r \in Roots, NEW s \in Sizes, NEW e \in Epochs, PutItem(p, r, s, e) PROVE Fenced(p)'
  BY <1>91, <1>92, <1>14 DEF PutItem, Fenced, Quiet
<1>15. CASE Look(p)
  BY <1>91, <1>92, <1>15 DEF Look, Starts, Fenced, Quiet
<1>16. CASE Count(p)
  BY <1>91, <1>92, <1>16 DEF Count, Begin, Fenced, Quiet
<1>17. CASE CountDone(p)
  BY <1>91, <1>92, <1>17 DEF CountDone, Unlock, Fenced, Quiet
<1>18. CASE AgeUnlock(p)
  BY <1>91, <1>92, <1>18 DEF AgeUnlock, Unlock, Deleting, Fenced, Quiet
<1>19. CASE AgeDone(p)
  BY <1>91, <1>92, <1>19 DEF AgeDone, Begin, Fenced, Quiet
<1>20. ASSUME NEW r \in Roots, AgeLock(p, r) PROVE Fenced(p)'
  BY <1>91, <1>92, <1>20 DEF AgeLock, Aged, Fenced, Quiet
<1>21. ASSUME NEW r \in Roots, AgeTimeout(p, r) PROVE Fenced(p)'
  BY <1>91, <1>92, <1>21 DEF AgeTimeout, Fenced, Quiet
<1>22. CASE PurgeStart(p)
  BY <1>91, <1>92, <1>22 DEF PurgeStart, Starts, Fenced, Quiet
<1>23. CASE PurgeDone(p)
  BY <1>91, <1>92, <1>23 DEF PurgeDone, Fenced, Quiet
<1>24. ASSUME NEW r \in Roots, Measure(p, r) PROVE Fenced(p)'
  BY <1>91, <1>92, <1>24 DEF Measure, Begin, Fenced, Quiet
<1>25. ASSUME NEW r \in Roots, Measured(p, r) PROVE Fenced(p)'
  BY <1>91, <1>92, <1>25 DEF Measured, Begin, Unlock, Fenced, Quiet
<1> QED
  BY <1>1, <1>2, <1>3, <1>4, <1>5, <1>6, <1>7, <1>8, <1>9, <1>10, <1>11, <1>12, <1>13, <1>14,
     <1>15, <1>16, <1>17, <1>18, <1>19, <1>20, <1>21, <1>22, <1>23, <1>24, <1>25 DEF Steps, PruneStep, Delete, Put, Empty, Purge

LEMMA FenceStep == TypeInv /\ GateInv /\ FenceInv /\ [Next]_vars => FenceInv'
<1> SUFFICES ASSUME TypeInv, GateInv, FenceInv, [Next]_vars PROVE FenceInv'
  OBVIOUS
<1>1. CASE UNCHANGED vars
  BY <1>1 DEF vars, shared, prune, gate, count, run, FenceInv, Fenced, Doomed
<1>2. ASSUME NEW p \in Procs, Steps(p), NEW q \in Procs PROVE Fenced(q)'
  <2>1. CASE q = p
    BY <1>2, <2>1, FenceKept
  <2>2. CASE q # p
    <3>1. Fenced(q) /\ Aside(q) /\ have[q] \subseteq Roots
      BY <1>2, <2>2, Apart DEF FenceInv, TypeInv, TypeOK
    <3>2. \A r \in have[q] : lock'[r] = q
      BY <1>2, <2>2, <3>1, Locking, ProcAssumption DEF Fenced
    <3> QED
      BY <3>1, <3>2 DEF Fenced, Aside, Doomed
  <2> QED
    BY <2>1, <2>2
<1> QED
  BY <1>1, <1>2 DEF Next, Steps, FenceInv

(* No other process adds to the roots of a prune, or takes from them.      *)
Inside(q) == {i \in items : i.root \in have[q]}

LEMMA InsideKept ==
  ASSUME TypeInv, FenceInv, NEW p \in Procs, Steps(p), NEW q \in Procs \ {p}
  PROVE  Inside(q)' = Inside(q)
<1>1. Aside(q) /\ Fenced(p) /\ Fenced(q) /\ have[q] \subseteq Roots
  BY Apart DEF FenceInv, TypeInv, TypeOK
<1>2. CASE UNCHANGED items
  BY <1>1, <1>2 DEF Inside, Aside
<1>3. ASSUME NEW i \in items, Remove(p, i) PROVE Inside(q)' = Inside(q)
  <2>1. items' = items \ {i} /\ i.root \in have[p]
    BY <1>1, <1>3 DEF Remove, Fenced
  <2>2. i.root \notin have[q]
    BY <1>1, <2>1 DEF Fenced
  <2> QED
    BY <1>1, <2>1, <2>2 DEF Inside, Aside
<1>4. ASSUME NEW r \in Roots, NEW s \in Sizes, NEW e \in Epochs, PutItem(p, r, s, e)
      PROVE  Inside(q)' = Inside(q)
  <2> DEFINE new == [id |-> made + 1, root |-> r, size |-> s, epoch |-> e, batch |-> batch[p]]
  <2>1. items' = items \cup {new} /\ lock[r] = NoProc /\ new.root = r
    BY <1>4 DEF PutItem
  <2>2. r \notin have[q]
    BY <1>1, <2>1, ProcAssumption DEF Fenced
  <2> HIDE DEF new
  <2> QED
    BY <1>1, <2>1, <2>2 DEF Inside, Aside
<1> QED
  BY <1>2, <1>3, <1>4, ItemsStep

-----------------------------------------------------------------------------
(* Two items are taken in one order.                                       *)
LEMMA Older ==
  ASSUME NEW i \in Item, NEW j \in Item
  PROVE  /\ ~Before(i, i) /\ (Before(i, j) => i.epoch <= j.epoch)
         /\ i.id # j.id => Before(i, j) \/ Before(j, i)
         /\ \A k \in Item : Before(i, j) /\ Before(j, k) => Before(i, k)
<1>1. \A k \in Item : k.id \in Int /\ k.epoch \in Int /\ k.size \in Int
  <2>1. Sizes \subseteq Nat /\ Epochs \subseteq Nat /\ MaxItems \in Nat
    BY NumberAssumption
  <2> SUFFICES ASSUME NEW k \in Item PROVE k.id \in Int /\ k.epoch \in Int /\ k.size \in Int
    OBVIOUS
  <2>2. k.id \in 1..MaxItems /\ k.epoch \in Epochs \cup {0} /\ k.size \in Sizes
    BY DEF Item, Undated
  <2>3. k.epoch \in Nat /\ k.size \in Nat
    <3>1. Epochs \cup {0} \subseteq Nat
      BY <2>1
    <3> QED
      BY <2>1, <2>2, <3>1, Zenon
  <2>4. k.id \in Int
    BY <2>2
  <2> QED
    BY <2>3, <2>4
<1> QED
  BY <1>1 DEF Before

(* What is left of c when all of t that is older than i is gone.           *)
Left(c, t, i) == Bytes(c) - Bytes({j \in t : Before(j, i)})

LEMMA LeftOver ==
  ASSUME NEW c \in SUBSET items, NEW t \in SUBSET c, TypeInv, NEW i \in items
  PROVE  /\ Left(c, t, i) \in Int /\ Bytes(c) \in Nat /\ Left(c, t, i) <= Bytes(c)
         /\ \A k \in t : Before(k, i) => Left(c \ {k}, t \ {k}, i) = Left(c, t, i)
         /\ \A j \in t : Before(i, j) => Left(c, t, j) <= Left(c, t, i)
<1>1. Weighed(items) /\ \A s \in SUBSET items : Weighed(s) /\ Bytes(s) \in Nat
  <2>1. Weighed(items) /\ \A s \in SUBSET items : IsFiniteSet(s)
    BY FS_Subset, NumberAssumption DEF Weighed, TypeInv, TypeOK, Numbered, Item
  <2>2. \A s \in SUBSET items : Weighed(s)
    BY <2>1 DEF Weighed
  <2> QED
    BY <2>1, <2>2, BytesNat
<1> DEFINE P(j) == {k \in t : Before(k, j)}
<1>2. \A j : P(j) \in SUBSET items
  OBVIOUS
<1>3. Left(c, t, i) \in Int /\ Bytes(c) \in Nat /\ Left(c, t, i) <= Bytes(c)
  BY <1>1, <1>2 DEF Left
<1>4. ASSUME NEW k \in t, Before(k, i) PROVE Left(c \ {k}, t \ {k}, i) = Left(c, t, i)
  <2>1. {j \in t \ {k} : Before(j, i)} = P(i) \ {k} /\ k \in P(i)
    BY <1>4
  <2>2. Bytes(P(i)) = k.size + Bytes(P(i) \ {k}) /\ Bytes(c) = k.size + Bytes(c \ {k})
    BY <1>1, <1>2, <2>1, BytesRemove
  <2>3. k.size \in Nat /\ Bytes(P(i) \ {k}) \in Nat /\ Bytes(c \ {k}) \in Nat
    BY <1>1, <1>2 DEF Weighed
  <2>4. Left(c \ {k}, t \ {k}, i) = Bytes(c \ {k}) - Bytes(P(i) \ {k})
    BY <2>1 DEF Left
  <2>5. Left(c, t, i) = Bytes(c) - Bytes(P(i))
    BY DEF Left
  <2> QED
    BY <2>2, <2>3, <2>4, <2>5
<1>5. ASSUME NEW j \in t, Before(i, j) PROVE Left(c, t, j) <= Left(c, t, i)
  <2>1. P(i) \in SUBSET P(j)
    BY <1>5, Older DEF TypeInv, TypeOK
  <2>2. Bytes(P(j)) = Bytes(P(i)) + Bytes(P(j) \ P(i))
    BY <1>1, <1>2, <2>1, BytesSplit
  <2>3. Bytes(P(i)) \in Nat /\ Bytes(P(j) \ P(i)) \in Nat /\ Bytes(c) \in Nat
    BY <1>1, <1>2
  <2>4. Left(c, t, j) = Bytes(c) - Bytes(P(j)) /\ Left(c, t, i) = Bytes(c) - Bytes(P(i))
    BY DEF Left
  <2> QED
    BY <2>2, <2>3, <2>4
<1> QED
  BY <1>3, <1>4, <1>5

(* One item is in the gate, the oldest of those doomed; every one of them  *)
(* has to go; and what is not doomed may stay.                             *)
OneAtATime(p) ==
  /\ passing[p] = {} \/ over[p] = {}
  /\ \A k, l \in passing[p] \cup over[p] : k = l
  /\ \A k \in passing[p] \cup over[p], i \in plan[p] : Before(k, i)
Needed(p) ==
  /\ Doomed(p) \subseteq Takeable(p)
  /\ \A i \in Doomed(p) : Left(Candidates(p), Takeable(p), i) > max[p]
Enough(p) ==
  ~errors[p] => \A j \in Takeable(p) \ Doomed(p) :
     /\ \A i \in Doomed(p) : Before(i, j)
     /\ Left(Candidates(p), Takeable(p), j) <= max[p]
Sorted(p) == pc[p] = "prune" => OneAtATime(p) /\ Needed(p) /\ Enough(p)
SortInv == \A p \in Procs : Sorted(p)

(* What a prune measures depends on the items in its roots alone.          *)
Trash(q) == <<Inside(q), gone[q], cmd[q], seen[q], batch[q]>>

LEMMA Measures ==
  ASSUME NEW q, UNCHANGED Trash(q)
  PROVE  Candidates(q)' = Candidates(q) /\ Takeable(q)' = Takeable(q)
<1>1. Inside(q)' = Inside(q) /\ gone'[q] = gone[q] /\ cmd'[q] = cmd[q]
      /\ seen'[q] = seen[q] /\ batch'[q] = batch[q]
  BY DEF Trash
<1>2. Candidates(q) = {i \in Inside(q) : gone[q] = 0 \/ i.epoch > gone[q]}
  BY DEF Candidates, Counts, Inside
<1>3. Candidates(q)' = {i \in Inside(q)' : gone'[q] = 0 \/ i.epoch > gone'[q]}
  BY DEF Candidates, Counts, Inside
<1>4. Candidates(q)' = Candidates(q)
  BY <1>1, <1>2, <1>3
<1> QED
  BY <1>1, <1>4 DEF Takeable, Protected

LEMMA PlanSorts ==
  ASSUME TypeInv, GateInv, NEW p \in Procs, PrunePlan(p)
  PROVE  Sorted(p)'
<1> DEFINE c == Candidates(p)
           t == Takeable(p)
<1>1. /\ passing'[p] = {} /\ over'[p] = {} /\ UNCHANGED Trash(p)
      /\ plan'[p] = {i \in t : Left(c, t, i) > max[p]} /\ max'[p] = max[p]
  BY DEF GateInv, Quiet, PrunePlan, Set, Goto, Plan, Left, shared, prune, gate, count, run, TypeInv,
         TypeOK, Trash, Inside
<1>2. Candidates(p)' = c /\ Takeable(p)' = t
  BY <1>1, Measures
<1>3. c \in SUBSET items /\ t \in SUBSET c /\ items \subseteq Item /\ max[p] \in Int
  BY DEF Takeable, Candidates, TypeInv, TypeOK
<1> HIDE DEF c, t
<1>4. ASSUME NEW i \in plan'[p], NEW j \in t \ plan'[p] PROVE Before(i, j) /\ Left(c, t, j) <= max[p]
  <2>1. i \in t /\ i \in items /\ j \in items /\ Left(c, t, i) > max[p] /\ ~(Left(c, t, j) > max[p])
    BY <1>1, <1>3, <1>4
  <2>2. Left(c, t, i) \in Int /\ Left(c, t, j) \in Int
    BY <1>3, <2>1, LeftOver
  <2>3. i.id # j.id
    BY <1>4, <2>1 DEF TypeInv, Numbered
  <2>4. ~Before(j, i)
    <3>1. i \in t /\ j \in items /\ c \in SUBSET items /\ t \in SUBSET c
      BY <1>3, <2>1
    <3>2. Before(j, i) => Left(c, t, i) <= Left(c, t, j)
      BY <3>1, LeftOver
    <3> QED
      BY <1>3, <2>1, <2>2, <3>2
  <2> QED
    BY <1>3, <2>1, <2>2, <2>3, <2>4, Older
<1>5. ASSUME NEW j \in t \ plan'[p] PROVE Left(c, t, j) <= max[p]
  <2>1. j \in items /\ ~(Left(c, t, j) > max[p])
    BY <1>1, <1>3, <1>5
  <2> QED
    BY <1>3, <2>1, LeftOver
<1>6. OneAtATime(p)'
  BY <1>1 DEF OneAtATime
<1>7. Needed(p)'
  BY <1>1, <1>2 DEF Needed, Doomed
<1>8. Enough(p)'
  BY <1>1, <1>2, <1>4, <1>5 DEF Enough, Doomed
<1> QED
  BY <1>6, <1>7, <1>8 DEF Sorted

(* The gate lets the oldest of those doomed in.                            *)
LEMMA GateSorts ==
  ASSUME TypeInv, SortInv, NEW p \in Procs, pc[p] = "prune", NEW i \in items, GateIn(p, i)
  PROVE  Sorted(p)'
<1>1. /\ UNCHANGED Trash(p) /\ max'[p] = max[p] /\ errors'[p] = errors[p]
      /\ i \in plan[p] /\ plan'[p] = plan[p] \ {i} /\ passing[p] = {} /\ over[p] = {}
      /\ \A j \in plan[p] \ {i} : Before(i, j)
      /\ \/ passing'[p] = {i} /\ over'[p] = {}
         \/ passing'[p] = {} /\ over'[p] = {i}
  BY DEF GateIn, IsNext, Set, shared, prune, count, run, TypeInv, TypeOK, Trash, Inside
<1>2. Candidates(p)' = Candidates(p) /\ Takeable(p)' = Takeable(p)
  BY <1>1, Measures
<1>3. Doomed(p)' = Doomed(p)
  BY <1>1 DEF Doomed
<1>4. OneAtATime(p)'
  BY <1>1 DEF OneAtATime
<1> QED
  BY <1>1, <1>2, <1>3, <1>4 DEF SortInv, Sorted, Needed, Enough

(* What is refused or stuck stays, and the prune knows of an error.        *)
LEMMA FailureSorts ==
  ASSUME TypeInv, SortInv, NEW p \in Procs, pc[p] = "prune", NEW i \in items,
         GateRefuse(p, i) \/ RemoveStuck(p, i)
  PROVE  Sorted(p)'
<1>1. /\ UNCHANGED Trash(p) /\ max'[p] = max[p] /\ errors'[p]
      /\ plan'[p] = plan[p] /\ passing'[p] \subseteq passing[p] /\ over'[p] \subseteq over[p]
  BY DEF GateRefuse, RemoveStuck, Set, shared, prune, count, run, TypeInv, TypeOK, Trash, Inside
<1>2. Candidates(p)' = Candidates(p) /\ Takeable(p)' = Takeable(p)
  BY <1>1, Measures
<1>3. OneAtATime(p)'
  BY <1>1 DEF SortInv, Sorted, OneAtATime
<1>4. Needed(p)'
  BY <1>1, <1>2 DEF SortInv, Sorted, Needed, Doomed
<1> QED
  BY <1>1, <1>3, <1>4 DEF Sorted, Enough

(* The item that goes is older than all that is doomed and all that stays. *)
LEMMA RemoveSorts ==
  ASSUME TypeInv, FenceInv, SortInv, NEW p \in Procs, pc[p] = "prune", NEW i \in items, Remove(p, i)
  PROVE  Sorted(p)'
<1> DEFINE c == Candidates(p)
           t == Takeable(p)
<1>1. /\ items' = items \ {i} /\ max'[p] = max[p] /\ errors'[p] = errors[p]
      /\ have'[p] = have[p] /\ gone'[p] = gone[p] /\ cmd'[p] = cmd[p] /\ seen'[p] = seen[p]
      /\ batch'[p] = batch[p] /\ plan'[p] = plan[p] /\ over'[p] = over[p]
      /\ i \in passing[p] /\ passing'[p] = passing[p] \ {i}
  BY DEF Remove, Set, prune, count, run, TypeInv, TypeOK
<1>2. OneAtATime(p) /\ Needed(p) /\ Enough(p)
  BY DEF SortInv, Sorted
<1>3. over[p] = {} /\ passing[p] = {i} /\ \A j \in plan[p] : Before(i, j)
  BY <1>1, <1>2 DEF OneAtATime
<1>4. Candidates(p)' = c \ {i} /\ Takeable(p)' = t \ {i}
  BY <1>1 DEF Candidates, Counts, Takeable, Protected
<1>5. c \in SUBSET items /\ t \in SUBSET c /\ items \subseteq Item /\ i \in t
  BY <1>2, <1>3 DEF Takeable, Candidates, TypeInv, TypeOK, Needed, Doomed
<1>6. i \notin plan[p]
  BY <1>3, <1>5, Older
<1>7. Doomed(p)' = Doomed(p) \ {i} /\ Doomed(p)' = plan[p] /\ Doomed(p) \subseteq t
  BY <1>1, <1>2, <1>3, <1>6 DEF Doomed, Needed
<1>8. OneAtATime(p)'
  BY <1>1, <1>3 DEF OneAtATime
<1>9. \A j \in t : Before(i, j) => Left(c \ {i}, t \ {i}, j) = Left(c, t, j)
  <2> HIDE DEF c, t
  <2> QED
    BY <1>5, LeftOver
<1>10. Needed(p)'
  BY <1>1, <1>2, <1>3, <1>4, <1>7, <1>9 DEF Needed
<1>11. Enough(p)'
  <2>1. ASSUME ~errors[p], NEW j \in (t \ {i}) \ Doomed(p)'
        PROVE  (\A k \in Doomed(p)' : Before(k, j)) /\ Left(c \ {i}, t \ {i}, j) <= max[p]
    <3>1. j \in t \ Doomed(p) /\ i \in Doomed(p)
      BY <1>1, <1>7, <2>1 DEF Doomed
    <3>2. (\A k \in Doomed(p) : Before(k, j)) /\ Left(c, t, j) <= max[p]
      BY <1>2, <2>1, <3>1 DEF Enough
    <3> QED
      BY <1>7, <1>9, <3>1, <3>2
  <2> QED
    BY <1>1, <1>4, <2>1 DEF Enough
<1> QED
  BY <1>8, <1>10, <1>11 DEF Sorted

LEMMA SortStep == TypeInv /\ GateInv /\ FenceInv /\ SortInv /\ [Next]_vars => SortInv'
<1> SUFFICES ASSUME TypeInv, GateInv, FenceInv, SortInv, [Next]_vars, NEW q \in Procs
             PROVE  Sorted(q)'
  BY DEF SortInv
<1>1. ASSUME UNCHANGED Trash(q), UNCHANGED <<pc[q], plan[q], passing[q], over[q], max[q], errors[q]>>
      PROVE  Sorted(q)'
  <2>1. Candidates(q)' = Candidates(q) /\ Takeable(q)' = Takeable(q)
    BY <1>1, Measures
  <2>2. Sorted(q) /\ Doomed(q)' = Doomed(q)
    BY <1>1 DEF SortInv, Doomed
  <2> QED
    BY <1>1, <2>1, <2>2 DEF Sorted, OneAtATime, Needed, Enough
<1>2. CASE UNCHANGED vars
  BY <1>1, <1>2 DEF vars, shared, prune, gate, count, run, Trash, Inside
<1>3. ASSUME NEW p \in Procs \ {q}, Steps(p) PROVE Sorted(q)'
  <2>1. Aside(q) /\ Inside(q)' = Inside(q)
    BY <1>3, Apart, InsideKept
  <2> QED
    BY <1>1, <2>1 DEF Aside, Trash
<1>4. ASSUME Steps(q), pc'[q] = "prune" PROVE Sorted(q)'
  <2>1. PrunePlan(q) \/ Press(q) \/ Delete(q)
    <3> USE DEF Set, Goto, Begin, TypeInv, TypeOK, shared, prune
    <3>1. CASE PruneStep(q)
      BY <1>4, <3>1 DEF PruneStep, PruneDone, After, LockRoot, LockTimeout
    <3>2. CASE Put(q)
      BY <1>4, <3>2 DEF Put, PutStart, PutDone, CheckDone, Check, PutItem
    <3>3. CASE Empty(q)
      BY <1>4, <3>3 DEF Empty, Look, Count, CountDone, AgeUnlock, AgeDone, AgeLock, AgeTimeout
    <3>4. CASE Purge(q)
      BY <1>4, <3>4 DEF Purge, PurgeStart, PurgeDone, Measure, Measured
    <3> QED
      BY <1>4, <3>1, <3>2, <3>3, <3>4 DEF Steps
  <2>2. CASE PrunePlan(q)
    BY <2>2, PlanSorts
  <2>3. CASE Press(q)
    <3>1. UNCHANGED Trash(q) /\ UNCHANGED <<pc[q], plan[q], passing[q], over[q], max[q], errors[q]>>
      BY <2>3 DEF Press, Set, shared, prune, gate, count, Trash, Inside
    <3> QED
      BY <1>1, <3>1
  <2>4. CASE Delete(q)
    <3>1. pc[q] = "prune"
      BY <1>4, <2>4 DEF Delete, GateIn, GateRefuse, Remove, RemoveStuck, shared
    <3> QED
      BY <2>4, <3>1, GateSorts, FailureSorts, RemoveSorts DEF Delete
  <2> QED
    BY <2>1, <2>2, <2>3, <2>4
<1> QED
  BY <1>2, <1>3, <1>4 DEF Next, Steps, Sorted

-----------------------------------------------------------------------------
(* What an empty has still to delete is what its count left room for.  The *)
(* plan it would make if it had every lock stands for the one it will.     *)
Young(p) == {i \in items : Counts(p, i)}
Known(p) == {i \in Young(p) : i.id \in seen[p]}
WholePlan(p) == {i \in Known(p) : Left(Young(p), Known(p), i) > Budget}
AgedTo(p) == {i \in Aged(p) : i.root \in roots[p] /\ i.id \in seen[p]}

Room(p) ==
  cmd[p] = "empty" /\ ~changed[p] =>
    /\ ~refused[p] /\ over[p] = {}
    /\ pc[p] \in {"looked", "dry"} => used[p] = 0
    /\ pc[p] = "dry" => Cardinality(Aged(p)) <= sum[p] /\ have[p] \cup want[p] = Roots
    /\ pc[p] \in {"dry", "lock"} => max[p] = Budget
    /\ pc[p] = "age" =>
         used[p] + Cardinality(plan[p]) + Cardinality(AgedTo(p)) + Cardinality(WholePlan(p)) <= Cap
    /\ pc[p] = "lock" => used[p] + Cardinality(WholePlan(p)) <= Cap
    /\ pc[p] = "prune" => used[p] + Cardinality(plan[p]) <= Cap
RoomInv == \A p \in Procs : Room(p)

(* With fewer items, less has to go.                                       *)
LEMMA LessLeft ==
  ASSUME TypeInv, NEW c \in SUBSET items, NEW t \in SUBSET c, NEW d \in SUBSET c, NEW i \in items
  PROVE  Left(d, t \cap d, i) \in Int /\ Left(c, t, i) \in Int /\ Left(d, t \cap d, i) <= Left(c, t, i)
<1> DEFINE P == {j \in t : Before(j, i)}
           Q == {j \in t \cap d : Before(j, i)}
<1>1. Weighed(items) /\ \A s \in SUBSET items : Weighed(s) /\ Bytes(s) \in Nat
  <2>1. Weighed(items) /\ \A s \in SUBSET items : IsFiniteSet(s)
    BY FS_Subset, NumberAssumption DEF Weighed, TypeInv, TypeOK, Numbered, Item
  <2>2. \A s \in SUBSET items : Weighed(s)
    BY <2>1 DEF Weighed
  <2> QED
    BY <2>1, <2>2, BytesNat
<1>2. P \in SUBSET c /\ Q \in SUBSET d /\ d \ Q \in SUBSET (c \ P)
  OBVIOUS
<1>3. Left(c, t, i) = Bytes(c) - Bytes(P) /\ Left(d, t \cap d, i) = Bytes(d) - Bytes(Q)
  BY DEF Left
<1> HIDE DEF P, Q
<1>4. Bytes(c) = Bytes(P) + Bytes(c \ P) /\ Bytes(d) = Bytes(Q) + Bytes(d \ Q)
  BY <1>1, <1>2, BytesSplit
<1>5. Bytes(c \ P) = Bytes(d \ Q) + Bytes((c \ P) \ (d \ Q))
  BY <1>1, <1>2, BytesSplit
<1>6. /\ Bytes(P) \in Nat /\ Bytes(Q) \in Nat /\ Bytes(c \ P) \in Nat /\ Bytes(d \ Q) \in Nat
      /\ Bytes((c \ P) \ (d \ Q)) \in Nat
  BY <1>1, <1>2
<1> QED
  BY <1>3, <1>4, <1>5, <1>6

(* The parts of a finite set are no larger than it.                        *)
LEMMA Sized ==
  ASSUME TypeInv
  PROVE  \A s, t : s \subseteq t /\ t \subseteq items =>
           /\ IsFiniteSet(s) /\ IsFiniteSet(t) /\ Cardinality(s) \in Nat /\ Cardinality(t) \in Nat
           /\ Cardinality(s) <= Cardinality(t)
BY FS_Subset, FS_CardinalityType DEF TypeInv, Numbered

LEMMA Shrinks ==
  ASSUME TypeInv, NEW q, items' \subseteq items, gone'[q] = gone[q], seen'[q] = seen[q],
         roots'[q] \subseteq roots[q]
  PROVE  /\ Cardinality(Aged(q)) \in Nat /\ Cardinality(AgedTo(q)) \in Nat
         /\ Cardinality(WholePlan(q)) \in Nat
         /\ Cardinality(Aged(q)') \in Nat /\ Cardinality(AgedTo(q)') \in Nat
         /\ Cardinality(WholePlan(q)') \in Nat
         /\ Cardinality(Aged(q)') <= Cardinality(Aged(q))
         /\ Cardinality(AgedTo(q)') <= Cardinality(AgedTo(q))
         /\ Cardinality(WholePlan(q)') <= Cardinality(WholePlan(q))
<1>1. Aged(q)' \subseteq Aged(q) /\ Aged(q) \subseteq items
  BY DEF Aged
<1>2. AgedTo(q)' \subseteq AgedTo(q) /\ AgedTo(q) \subseteq items
  BY <1>1 DEF AgedTo, Aged
<1>3. WholePlan(q)' \subseteq WholePlan(q) /\ WholePlan(q) \subseteq items
  <2>1. Young(q)' \in SUBSET Young(q) /\ Young(q) \in SUBSET items /\ Known(q) \in SUBSET Young(q)
        /\ Known(q)' = Known(q) \cap Young(q)'
    BY DEF Young, Known, Counts
  <2>2. \A i \in items : /\ Left(Young(q)', Known(q) \cap Young(q)', i) \in Int
                        /\ Left(Young(q), Known(q), i) \in Int
                        /\ Left(Young(q)', Known(q) \cap Young(q)', i) <= Left(Young(q), Known(q), i)
    BY <2>1, LessLeft
  <2>3. Budget \in Int
    BY NumberAssumption
  <2> QED
    BY <2>1, <2>2, <2>3 DEF WholePlan
<1> QED
  BY <1>1, <1>2, <1>3, Sized

LEMMA RoomApart ==
  ASSUME TypeInv, RoomInv, NEW p \in Procs, Steps(p), NEW q \in Procs \ {p}
  PROVE  Room(q)'
<1>1. Aside(q) /\ Room(q)
  BY Apart DEF RoomInv
<1>2. CASE items' \subseteq items
  <2>1. /\ Cardinality(Aged(q)') <= Cardinality(Aged(q))
        /\ Cardinality(AgedTo(q)') <= Cardinality(AgedTo(q))
        /\ Cardinality(WholePlan(q)') <= Cardinality(WholePlan(q))
        /\ Cardinality(Aged(q)) \in Nat /\ Cardinality(AgedTo(q)) \in Nat
        /\ Cardinality(WholePlan(q)) \in Nat
        /\ Cardinality(Aged(q)') \in Nat /\ Cardinality(AgedTo(q)') \in Nat
        /\ Cardinality(WholePlan(q)') \in Nat
    BY <1>1, <1>2, Shrinks DEF Aside
  <2>2. Cardinality(plan[q]) \in Int
    <3>1. IsFiniteSet(plan[q])
      BY DEF TypeInv, Running
    <3> QED
      BY <3>1, FS_CardinalityType
  <2>3. used[q] \in Int /\ sum[q] \in Int /\ Cap \in Int
    BY NumberAssumption DEF TypeInv, TypeOK
  <2> QED
    BY <1>1, <2>1, <2>2, <2>3 DEF Room, Aside
<1>3. ASSUME NEW r \in Roots, NEW s \in Sizes, NEW e \in Epochs, PutItem(p, r, s, e)
      PROVE  Room(q)'
  BY <1>3 DEF PutItem, Room
<1>4. items' \subseteq items \/ \E r \in Roots, s \in Sizes, e \in Epochs : PutItem(p, r, s, e)
  BY ItemsStep DEF Remove
<1> QED
  BY <1>2, <1>3, <1>4

(* While an empty goes on to the next of its steps, the same is counted.   *)
LEMMA SameCount ==
  ASSUME NEW p, items' = items, gone'[p] = gone[p], seen'[p] = seen[p]
  PROVE  /\ Aged(p)' = Aged(p) /\ WholePlan(p)' = WholePlan(p)
         /\ roots'[p] = roots[p] => AgedTo(p)' = AgedTo(p)
<1>91. Young(p)' = Young(p) /\ Known(p)' = Known(p)
  BY DEF Young, Known, Counts
<1> QED
  BY <1>91 DEF Aged, WholePlan, AgedTo

LEMMA RoomKept ==
  ASSUME TypeInv, GateInv, RoomInv, NEW p \in Procs, Steps(p)
  PROVE  Room(p)'
<1> USE DEF Set, Goto, shared, prune, gate, count, run
<1>91. Room(p) /\ Quiet(p) /\ Running(p) /\ Typed
  BY DEF RoomInv, GateInv, TypeInv, TypeOK, Typed
<1>92. /\ used \in [Procs -> Nat] /\ Budget \in Nat /\ Cap \in Nat
       /\ IsFiniteSet(items) /\ IsFiniteSet(plan[p])
  BY <1>91, NumberAssumption DEF TypeInv, TypeOK, Numbered, Running
<1>93. /\ AgedTo(p) \subseteq Aged(p) /\ Aged(p) \subseteq items
       /\ Known(p) \subseteq Young(p) /\ WholePlan(p) \subseteq Known(p) /\ Young(p) \subseteq items
  BY DEF AgedTo, Aged, WholePlan, Known, Young
<1>94. /\ Cardinality(Aged(p)) \in Nat /\ Cardinality(AgedTo(p)) \in Nat
       /\ Cardinality(WholePlan(p)) \in Nat /\ Cardinality(plan[p]) \in Nat
  BY <1>92, <1>93, FS_Subset, FS_CardinalityType
<1>95. /\ items' = items /\ gone'[p] = gone[p] /\ seen'[p] = seen[p] =>
            Aged(p)' = Aged(p) /\ WholePlan(p)' = WholePlan(p)
       /\ items' = items /\ gone'[p] = gone[p] /\ seen'[p] = seen[p] /\ roots'[p] = roots[p] =>
            AgedTo(p)' = AgedTo(p)
  BY SameCount
<1>96. CASE Put(p)
  <2>1. ASSUME NEW r \in Roots, NEW s \in Sizes, NEW e \in Epochs, PutItem(p, r, s, e) PROVE changed'[p]
    BY <2>1 DEF PutItem
  <2>2. ASSUME NEW r \in Roots, Check(p, r) PROVE cmd'[p] = "put"
    BY <1>91, <2>2 DEF Check, Running
  <2>3. CASE PutStart(p) \/ PutDone(p) \/ CheckDone(p)
    <3>1. cmd'[p] = "put"
      BY <1>91, <2>3 DEF PutStart, Starts, PutDone, CheckDone, Running, Typed
    <3> QED
      BY <3>1 DEF Room
  <2> QED
    BY <1>96, <2>1, <2>2, <2>3 DEF Put, Room
<1>97. CASE Purge(p)
  <2>1. cmd'[p] = "purge"
    BY <1>91, <1>97 DEF Purge, PurgeStart, Starts, PurgeDone, Measure, Measured, Running, Typed
  <2> QED
    BY <2>1 DEF Room
<1>1. CASE PrunePlan(p)
  <2>1. Plan(p) \subseteq WholePlan(p) \/ cmd[p] # "empty" \/ changed[p]
    <3> SUFFICES ASSUME cmd[p] = "empty", ~changed[p] PROVE Plan(p) \subseteq WholePlan(p)
      OBVIOUS
    <3> DEFINE c == Candidates(p)
               y == Young(p)
               k == Known(p)
    <3>1. c \in SUBSET y /\ y \in SUBSET items /\ k \in SUBSET y /\ Takeable(p) = k \cap c
      BY DEF Candidates, Young, Known, Takeable, Protected
    <3>2. max[p] = Budget /\ Plan(p) = {i \in Takeable(p) : Left(c, Takeable(p), i) > max[p]}
      BY <1>91, <1>1 DEF PrunePlan, Room, Plan, Left
    <3>3. WholePlan(p) = {i \in k : Left(y, k, i) > Budget}
      BY DEF WholePlan
    <3> HIDE DEF c, y, k
    <3>4. \A i \in items : /\ Left(c, k \cap c, i) \in Int /\ Left(y, k, i) \in Int
                          /\ Left(c, k \cap c, i) <= Left(y, k, i)
      BY <3>1, LessLeft
    <3> QED
      BY <1>92, <3>1, <3>2, <3>3, <3>4
  <2>2. Plan(p) \subseteq WholePlan(p) => Cardinality(Plan(p)) <= Cardinality(WholePlan(p))
        /\ Cardinality(Plan(p)) \in Nat
    BY <1>93, Sized
  <2>3. pc[p] = "lock" /\ pc'[p] = "prune" /\ plan'[p] = Plan(p) /\ UNCHANGED <<gate, run>>
    BY <1>91, <1>1 DEF PrunePlan, Typed
  <2> QED
    BY <1>91, <1>92, <1>94, <2>1, <2>2, <2>3 DEF Room
<1>2. CASE Press(p)
  BY <1>91, <1>95, <1>2 DEF Press, Room, Typed
<1>3. CASE PruneDone(p)
  BY <1>91, <1>95, <1>3 DEF PruneDone, After, Room, Typed
<1>4. ASSUME NEW r \in Roots, LockRoot(p, r) PROVE Room(p)'
  BY <1>91, <1>95, <1>4 DEF LockRoot, Turn, Room, Typed
<1>5. ASSUME NEW r \in Roots, LockTimeout(p, r) PROVE Room(p)'
  BY <1>91, <1>95, <1>5 DEF LockTimeout, Room, Typed
<1>6. ASSUME NEW i \in items, GateIn(p, i) PROVE Room(p)'
  <2>1. i \in plan[p] /\ plan'[p] = plan[p] \ {i} /\ used'[p] = used[p] + 1
        /\ UNCHANGED <<shared, pc, roots, max, refused, count, run>>
        /\ (used[p] < Cap => over'[p] = over[p])
    BY <1>91, <1>92, <1>6 DEF GateIn, IsNext, Typed
  <2>2. Cardinality(plan'[p]) \in Nat /\ Cardinality(plan'[p]) = Cardinality(plan[p]) - 1
    BY <1>92, <2>1, OneLess
  <2>3. pc[p] \in {"age", "prune"}
    BY <1>6 DEF GateIn
  <2> QED
    BY <1>91, <1>92, <1>94, <1>95, <2>1, <2>2, <2>3 DEF Room, Typed
<1>7. ASSUME NEW i \in items, GateRefuse(p, i) PROVE Room(p)'
  BY <1>91, <1>7 DEF GateRefuse, Room, Typed
<1>8. ASSUME NEW i \in items, Remove(p, i) PROVE Room(p)'
  <2>1. items' \subseteq items /\ UNCHANGED <<pc, roots, prune, used, over, refused, count, run>>
    BY <1>8 DEF Remove
  <2>2. /\ Cardinality(Aged(p)') \in Nat /\ Cardinality(AgedTo(p)') \in Nat
        /\ Cardinality(WholePlan(p)') \in Nat
        /\ Cardinality(Aged(p)') <= Cardinality(Aged(p))
        /\ Cardinality(AgedTo(p)') <= Cardinality(AgedTo(p))
        /\ Cardinality(WholePlan(p)') <= Cardinality(WholePlan(p))
    BY <2>1, Shrinks
  <2> QED
    BY <1>91, <1>92, <1>94, <2>1, <2>2 DEF Room, Typed
<1>9. ASSUME NEW i \in items, RemoveStuck(p, i) PROVE Room(p)'
  BY <1>91, <1>95, <1>9 DEF RemoveStuck, Room, Typed
<1>10. CASE Look(p)
  <2>1. pc'[p] = "looked" /\ ~refused'[p] /\ used'[p] = 0 /\ over'[p] = {}
    BY <1>91, <1>92, <1>10 DEF Look, Starts, Quiet, Typed, TypeInv, TypeOK
  <2> QED
    BY <2>1 DEF Room
<1>11. CASE Count(p)
  <2>1. /\ pc[p] = "looked" /\ pc'[p] = "dry" /\ sum'[p] = Cardinality(Aged(p))
        /\ have'[p] = {} /\ want'[p] = Roots /\ max'[p] = Budget
        /\ UNCHANGED <<shared, roots, gate, seen, gone, run>>
    BY <1>91, <1>11 DEF Count, Begin, Typed
  <2>2. Aged(p)' = Aged(p)
    BY <1>95, <2>1
  <2> QED
    BY <1>91, <1>94, <2>1, <2>2 DEF Room
<1>12. CASE CountDone(p)
  <2>1. /\ pc[p] = "dry" /\ want[p] = {} /\ plan[p] = {}
        /\ UNCHANGED <<items, made, free, want, max, plan, errors, gate, count, run>>
        /\ pc'[p] = "idle" \/ (pc'[p] = "age" /\ Fits(p))
    BY <1>91, <1>12 DEF CountDone, Quiet, Typed
  <2>2. Cardinality({}) = 0
    BY FS_EmptySet
  <2>3. cmd[p] = "empty" /\ ~changed[p] => Plan(p) = WholePlan(p)
    <3> SUFFICES ASSUME cmd[p] = "empty", ~changed[p] PROVE Plan(p) = WholePlan(p)
      OBVIOUS
    <3>1. have[p] = Roots /\ max[p] = Budget
      BY <1>91, <2>1 DEF Room
    <3>2. Candidates(p) = Young(p)
      BY <1>91, <3>1 DEF Candidates, Young, Typed, Item
    <3>3. Takeable(p) = Known(p)
      BY <3>2 DEF Takeable, Protected, Known
    <3> QED
      BY <3>1, <3>2, <3>3 DEF Plan, WholePlan, Left
  <2>4. Cardinality(AgedTo(p)') \in Nat /\ Cardinality(AgedTo(p)') <= Cardinality(Aged(p))
    <3>1. AgedTo(p)' \subseteq Aged(p)
      BY <2>1 DEF AgedTo, Aged
    <3> QED
      BY <1>93, <3>1, Sized
  <2>5. cmd[p] = "empty" /\ ~changed[p] /\ Fits(p) =>
          0 + 0 + Cardinality(AgedTo(p)') + Cardinality(WholePlan(p)) <= Cap
    <3>1. cmd[p] = "empty" /\ ~changed[p] /\ Fits(p) =>
            sum[p] + Cardinality(WholePlan(p)) <= Cap /\ Cardinality(Aged(p)) <= sum[p]
      BY <1>91, <2>1, <2>3 DEF Fits, Room
    <3> QED
      BY <1>91, <1>92, <1>94, <2>4, <3>1 DEF Typed
  <2>6. items' = items /\ gone'[p] = gone[p] /\ seen'[p] = seen[p]
    BY <2>1
  <2>7. WholePlan(p)' = WholePlan(p)
    BY <1>95, <2>6
  <2> QED
    BY <1>91, <2>1, <2>2, <2>5, <2>7 DEF Room
<1>13. CASE AgeUnlock(p)
  BY <1>91, <1>95, <1>13 DEF AgeUnlock, Room, Typed
<1>14. CASE AgeDone(p)
  BY <1>91, <1>92, <1>94, <1>95, <1>14 DEF AgeDone, Begin, Room, Typed
<1>15. ASSUME NEW r \in Roots, AgeLock(p, r) PROVE Room(p)'
  <2> DEFINE t == {i \in Aged(p) : i.root = r /\ i.id \in seen[p]}
             a == AgedTo(p)'
  <2>1. /\ pc[p] = "age" /\ pc'[p] = "age" /\ plan[p] = {} /\ r \in roots[p] /\ plan'[p] = t
        /\ roots'[p] = roots[p] \ {r} /\ UNCHANGED <<items, gate, count, run>>
    BY <1>91, <1>15 DEF AgeLock, Quiet, Typed
  <2>2. t \cup a \subseteq AgedTo(p) /\ t \cap a = {}
    BY <2>1 DEF AgedTo, Aged
  <2> HIDE DEF t, a
  <2>3. IsFiniteSet(t) /\ IsFiniteSet(a) /\ Cardinality(t \cup a) <= Cardinality(AgedTo(p))
        /\ Cardinality(t) \in Nat /\ Cardinality(a) \in Nat /\ Cardinality(t \cup a) \in Nat
    <3>1. AgedTo(p) \subseteq items /\ t \subseteq AgedTo(p) /\ a \subseteq AgedTo(p)
      BY <1>93, <2>2
    <3> QED
      BY <2>2, <3>1, Sized
  <2>4. Cardinality(t \cap a) = 0
    BY <2>2, FS_EmptySet
  <2>5. Cardinality(t) + Cardinality(a) <= Cardinality(AgedTo(p))
    <3>1. Cardinality(t \cup a) = Cardinality(t) + Cardinality(a) - Cardinality(t \cap a)
      BY <2>3, FS_Union
    <3>2. Cardinality(AgedTo(p)) \in Nat
      BY <1>94
    <3> QED
      BY <2>3, <2>4, <3>1, <3>2
  <2>6. WholePlan(p)' = WholePlan(p)
    BY <1>95, <2>1
  <2>7. Cardinality(plan[p]) = 0
    BY <2>1, FS_EmptySet
  <2>8. used'[p] + Cardinality(plan'[p]) + Cardinality(a) + Cardinality(WholePlan(p)') <= Cap
          \/ cmd[p] # "empty" \/ changed[p]
    BY <1>91, <1>92, <1>94, <2>1, <2>3, <2>5, <2>6, <2>7 DEF Room
  <2> QED
    BY <1>91, <2>1, <2>8 DEF Room, a
<1>16. ASSUME NEW r \in Roots, AgeTimeout(p, r) PROVE Room(p)'
  <2>1. roots'[p] \subseteq roots[p] /\ UNCHANGED <<shared, pc, prune, gate, count, run>>
    BY <1>91, <1>16 DEF AgeTimeout, Typed
  <2>2. /\ Cardinality(AgedTo(p)') \in Nat /\ Cardinality(AgedTo(p)') <= Cardinality(AgedTo(p))
        /\ Cardinality(WholePlan(p)') = Cardinality(WholePlan(p))
    BY <1>95, <2>1, Shrinks
  <2>3. pc[p] = "age"
    BY <1>16 DEF AgeTimeout
  <2> QED
    BY <1>91, <1>92, <1>94, <2>1, <2>2, <2>3 DEF Room
<1> QED
  BY <1>96, <1>97, <1>1, <1>2, <1>3, <1>4, <1>5, <1>6, <1>7, <1>8, <1>9, <1>10, <1>11, <1>12,
     <1>13, <1>14, <1>15, <1>16 DEF Steps, PruneStep, Delete, Empty

LEMMA RoomStep == TypeInv /\ GateInv /\ RoomInv /\ [Next]_vars => RoomInv'
<1> SUFFICES ASSUME TypeInv, GateInv, RoomInv, [Next]_vars, NEW q \in Procs PROVE Room(q)'
  BY DEF RoomInv
<1>1. CASE UNCHANGED vars
  <2>1. WholePlan(q)' = WholePlan(q) /\ Aged(q)' = Aged(q) /\ AgedTo(q)' = AgedTo(q)
    BY <1>1, SameCount DEF vars, shared, count
  <2> QED
    BY <1>1, <2>1 DEF vars, shared, prune, gate, count, run, RoomInv, Room
<1>2. ASSUME NEW p \in Procs, Steps(p) PROVE Room(q)'
  BY <1>2, RoomKept, RoomApart
<1> QED
  BY <1>1, <1>2 DEF Next, Steps

-----------------------------------------------------------------------------
(* The parts together.                                                     *)
PruneInv == TypeInv /\ GateInv /\ FenceInv /\ SortInv /\ RoomInv

LEMMA PruneInit == Init => PruneInv
<1> SUFFICES ASSUME Init PROVE PruneInv
  OBVIOUS
<1>1. FenceInv /\ SortInv /\ RoomInv
  BY DEF Init, FenceInv, Fenced, Doomed, SortInv, Sorted, RoomInv, Room
<1> QED
  BY <1>1, TypeInit, GateInit DEF PruneInv

LEMMA PruneAlways == Spec => [](LockInv /\ PruneInv)
<1>1. LockInv /\ PruneInv /\ [Next]_vars => LockInv' /\ PruneInv'
  BY LockStep, GateStep, TypeStep, FenceStep, SortStep, RoomStep DEF PruneInv
<1> QED
  BY <1>1, LockInit, PruneInit, PTL DEF Spec

(* Items are let through the gate in a prune and in an age pass alone.     *)
LEMMA Place ==
  ASSUME PruneInv, NEW p \in Procs, NEW i \in passing[p]
  PROVE  pc[p] \in {"prune", "age"}
BY DEF PruneInv, GateInv, Quiet

(* Of the items to take, one is the first.                                 *)
LEMMA Oldest ==
  ASSUME TypeInv, NEW t \in SUBSET items, t # {}
  PROVE  \E i \in t : {j \in t : Before(j, i)} = {}
<1> DEFINE E(i) == {j \in t : Before(j, i)}
           C == {E(i) : i \in t}
<1>1. \A i : E(i) \in SUBSET items /\ IsFiniteSet(E(i))
  BY Sized
<1>2. PICK s \in C : \A u \in C : Cardinality(s) <= Cardinality(u)
  <2>1. C # {} /\ \A u \in C : IsFiniteSet(u)
    BY <1>1
  <2> HIDE DEF C
  <2> QED
    BY <2>1, Smallest
<1>3. PICK i \in t : s = E(i)
  BY <1>2
<1>4. ASSUME NEW j \in E(i) PROVE FALSE
  <2>1. j \in t /\ j \in Item /\ i \in Item /\ \A k \in t : k \in Item
    BY <1>4 DEF TypeInv, TypeOK
  <2>2. Before(j, i) /\ ~Before(j, j) /\ \A k \in Item : Before(k, j) => Before(k, i)
    BY <1>4, <2>1, Older
  <2>3. E(j) \subseteq E(i) \ {j} /\ E(i) \ {j} \subseteq items /\ E(j) \in C
    BY <2>1, <2>2
  <2> HIDE DEF E, C
  <2>4. Cardinality(E(j)) <= Cardinality(E(i) \ {j}) /\ Cardinality(E(j)) \in Nat
    BY <2>3, Sized
  <2>5. /\ Cardinality(E(i) \ {j}) = Cardinality(E(i)) - 1
        /\ Cardinality(E(i)) \in Nat /\ Cardinality(E(i) \ {j}) \in Nat
    BY <1>1, <1>4, OneLess
  <2>6. Cardinality(E(i)) <= Cardinality(E(j))
    BY <1>2, <1>3, <2>3
  <2> QED
    BY <2>4, <2>5, <2>6
<1> QED
  BY <1>4

-----------------------------------------------------------------------------
(* Every variable of a prune keeps its type; no number goes below zero.    *)
THEOREM PruneTyped == Spec => []TypeOK
<1>1. PruneInv => TypeOK
  BY DEF PruneInv, TypeInv
<1> QED
  BY <1>1, PruneAlways, PTL

(* An empty whose count fitted the cap is not refused halfway: what the    *)
(* age pass and the prune have still to delete is what was counted, or     *)
(* less, whatever others restored or deleted since.                        *)
THEOREM CountedFits == Spec => []CountCovers
<1>1. PruneInv => CountCovers
  BY DEF PruneInv, TypeInv, TypeOK, RoomInv, Room, CountCovers
<1> QED
  BY <1>1, PruneAlways, PTL

(* A prune in which nothing failed leaves no more than its budget, but for *)
(* what it must not take, whatever the others do meanwhile.                *)
THEOREM PruneReaches == Spec => UnderBudget
<1> DEFINE Good(p) == Bytes(Candidates(p)) <= max[p] \/ Takeable(p) = {}
<1>1. ASSUME PruneInv, [Next]_vars, NEW p \in Procs,
             pc[p] = "prune", pc'[p] # "prune", ~errors[p], ~stop[p]
      PROVE  Good(p)
  <2>1. PruneDone(p)
    <3> USE DEF Set, Goto, PruneInv, TypeInv, TypeOK, shared, prune
    <3>1. PICK q \in Procs : Steps(q)
      BY <1>1 DEF vars, Next, Steps
    <3>2. q = p
      BY <1>1, <3>1, Apart DEF Aside
    <3>3. CASE PruneStep(p)
      BY <1>1, <3>3 DEF PruneStep, PrunePlan, Press, Delete, GateIn, GateRefuse, Remove, RemoveStuck,
         LockRoot, LockTimeout
    <3>4. CASE Put(p)
      BY <1>1, <3>4 DEF Put, PutStart, Starts, PutDone, CheckDone, Check, PutItem
    <3>5. CASE Empty(p)
      BY <1>1, <3>5 DEF Empty, Look, Starts, Count, CountDone, AgeUnlock, AgeDone, AgeLock, AgeTimeout
    <3>6. CASE Purge(p)
      BY <1>1, <3>6 DEF Purge, PurgeStart, Starts, PurgeDone, Measure, Measured
    <3> QED
      BY <3>1, <3>2, <3>3, <3>4, <3>5, <3>6 DEF Steps
  <2>2. Doomed(p) = {}
    BY <1>1, <2>1 DEF PruneDone, Deleting, Doomed
  <2> SUFFICES ASSUME Takeable(p) # {} PROVE Bytes(Candidates(p)) <= max[p]
    OBVIOUS
  <2> DEFINE c == Candidates(p)
             t == Takeable(p)
  <2>3. c \in SUBSET items /\ t \in SUBSET c /\ max[p] \in Nat
    BY <1>1 DEF PruneInv, TypeInv, TypeOK, Candidates, Takeable
  <2>4. Enough(p)
    BY <1>1 DEF PruneInv, SortInv, Sorted
  <2>5. \A j \in t : Left(c, t, j) <= max[p]
    BY <1>1, <2>2, <2>4 DEF Enough
  <2> HIDE DEF c, t
  <2>6. PICK i \in t : {j \in t : Before(j, i)} = {}
    BY <1>1, <2>3, Oldest DEF PruneInv, t
  <2>7. Left(c, t, i) = Bytes(c) - 0 /\ Bytes(c) \in Nat
    <3>1. Weighed(items) /\ IsFiniteSet(c)
      BY <1>1, <2>3, Picked DEF PruneInv
    <3>2. Bytes({}) = 0 /\ Bytes(c) \in Nat
      BY <1>1, <2>3, <3>1, Picked, BytesNat DEF PruneInv
    <3> QED
      BY <2>6, <3>2 DEF Left
  <2> QED
    BY <2>3, <2>5, <2>7 DEF c
<1>2. PruneInv /\ [Next]_vars =>
        [\A p \in Procs :
           pc[p] = "prune" /\ pc'[p] # "prune" /\ ~errors[p] /\ ~stop[p] => Good(p)]_vars
  BY <1>1
<1> QED
  BY <1>2, PruneAlways, PTL DEF Spec, UnderBudget

(* A prune deletes only while the roots it locked hold more than max.      *)
THEOREM PruneNeeds == Spec => OnlyOverBudget
<1> DEFINE A == \A p \in Procs : \A i \in items :
                  pc[p] = "prune" /\ Deletes(p, i) => Bytes(Candidates(p)) > max[p]
<1>1. ASSUME PruneInv, NEW p \in Procs, NEW i \in items, pc[p] = "prune", i \in passing[p]
      PROVE  Bytes(Candidates(p)) > max[p]
  <2>1. Candidates(p) \in SUBSET items /\ Takeable(p) \in SUBSET Candidates(p) /\ max[p] \in Nat
    BY <1>1 DEF PruneInv, TypeInv, TypeOK, Candidates, Takeable
  <2>2. Left(Candidates(p), Takeable(p), i) > max[p]
    BY <1>1 DEF PruneInv, SortInv, Sorted, Needed, Doomed
  <2>3. /\ Left(Candidates(p), Takeable(p), i) \in Int /\ Bytes(Candidates(p)) \in Nat
        /\ Left(Candidates(p), Takeable(p), i) <= Bytes(Candidates(p))
    BY <1>1, <2>1, LeftOver DEF PruneInv
  <2> QED
    BY <2>1, <2>2, <2>3
<1>2. PruneInv => A
  BY <1>1 DEF Deletes
<1> QED
  BY <1>2, PruneAlways, PTL DEF Spec, OnlyOverBudget

(* What goes is older than what stays, in all the roots together.          *)
THEOREM OldestGoes == Spec => OldestFirst
<1> DEFINE A == \A p \in Procs : \A i \in items :
                  pc[p] = "prune" /\ ~errors[p] /\ Deletes(p, i) =>
                    \A j \in Takeable(p) \ {i} : i.epoch <= j.epoch
<1>1. ASSUME PruneInv, NEW p \in Procs, NEW i \in items, pc[p] = "prune", ~errors[p],
             i \in passing[p], NEW j \in Takeable(p) \ {i}
      PROVE  i.epoch <= j.epoch
  <2>1. i \in Item /\ j \in Item
    BY <1>1 DEF PruneInv, TypeInv, TypeOK, Takeable, Candidates
  <2>2. OneAtATime(p) /\ Enough(p)
    BY <1>1 DEF PruneInv, SortInv, Sorted
  <2>3. Before(i, j)
    BY <1>1, <2>2 DEF OneAtATime, Enough, Doomed
  <2> QED
    BY <2>1, <2>3, Older
<1>2. PruneInv => A
  BY <1>1 DEF Deletes
<1> QED
  BY <1>2, PruneAlways, PTL DEF Spec, OldestFirst

(* An empty deletes what it counted, and a put nothing of its own run.     *)
THEOREM PruneSpares == Spec => Spares
<1> DEFINE A == \A p \in Procs : \A i \in items : Deletes(p, i) =>
                  /\ cmd[p] = "empty" => i.id \in seen[p]
                  /\ cmd[p] = "put" => i.batch # batch[p]
<1>1. ASSUME PruneInv, NEW p \in Procs, NEW i \in items, i \in passing[p]
      PROVE  /\ cmd[p] = "empty" => i.id \in seen[p]
             /\ cmd[p] = "put" => i.batch # batch[p]
  <2>1. CASE pc[p] = "prune"
    <3>1. i \in Takeable(p)
      BY <1>1, <2>1 DEF PruneInv, SortInv, Sorted, Needed, Doomed
    <3> QED
      BY <3>1 DEF Takeable, Protected
  <2>2. CASE pc[p] = "age"
    BY <1>1, <2>2 DEF PruneInv, TypeInv, Running, FenceInv, Fenced, Doomed
  <2> QED
    BY <1>1, <2>1, <2>2, Place
<1>2. PruneInv => A
  BY <1>1 DEF Deletes
<1> QED
  BY <1>2, PruneAlways, PTL DEF Spec, Spares
=============================================================================
