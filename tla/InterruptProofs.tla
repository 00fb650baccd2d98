-------------------------- MODULE InterruptProofs --------------------------
(***************************************************************************)
(* For any threads, items and presses: the handler is in place exactly     *)
(* while it is needed, the first press of a batch run does not end the     *)
(* process, and no section ends halfway.                                   *)
(***************************************************************************)
EXTENDS Interrupt, FiniteSetTheorems, TLAPS

Holding == {"batch", "open", "install", "close", "swap", "restore"}
InSection == {t \in Threads : pc[t] \in {"install", "inside", "finished", "close"}}

Types ==
  /\ presses \in 0..MaxPress /\ critical \in Nat
  /\ saved \in {"none", "default"} /\ disp \in {"default", "ignored", "ours"}
  /\ deferred \in BOOLEAN /\ stopFirst \in BOOLEAN /\ bySection \in BOOLEAN
  /\ alive \in BOOLEAN /\ armed \in BOOLEAN /\ raced \in BOOLEAN
  /\ lost \in BOOLEAN
  /\ mutex \in Threads \cup {NoThread}
  /\ pc \in [Threads -> Places] /\ items \in [Threads -> 0..MaxItems]
  /\ handler \in [Threads -> {"none", "look", "defer", "quit"}]
  /\ nth \in [Threads -> Nat]
  /\ original \in {"default", "ignored"}

(* The count is the number of open sections, and whoever is at a place     *)
(* that needs STATE has its mutex.                                         *)
Counted == critical = Cardinality(InSection)
Locked == \A t \in Threads : mutex = t <=> pc[t] \in Holding

(* A batch run begins alone; a handler is put in by the one section there  *)
(* is, and taken out when there is none.                                   *)
Alone(t) ==
  /\ pc[t] = "batch" =>
       stopFirst /\ ~armed /\ saved = "none" /\ \A u \in Threads \ {t} : pc[u] = "idle"
  /\ pc[t] = "install" => saved = "none" /\ InSection = {t}
  /\ pc[t] \in {"swap", "restore"} => critical = 0

(* What STATE keeps is the disposition to go back to.  In a batch run it   *)
(* is kept for good, and otherwise for as long as a section is open.       *)
NoneAt(S) == \A t \in Threads : pc[t] \notin S
Installed ==
  /\ original = "ignored" => disp = "ignored" /\ saved = "none" /\ ~bySection
  /\ original = "default" =>
       /\ disp = IF saved = "none" THEN "default" ELSE "ours"
       /\ bySection <=> (~stopFirst /\ saved # "none")
       /\ stopFirst /\ NoneAt({"batch"}) => saved # "none"
       /\ ~stopFirst /\ NoneAt({"install", "swap", "restore"}) =>
            (saved # "none" <=> critical > 0)

(* A handler that quits has seen no section, and any that opened since is  *)
(* in raced.                                                               *)
Whole ==
  /\ ~raced /\ (\E t \in Threads : handler[t] = "quit") => InSection = {}
  /\ SectionWhole

(* While there is one press, every handler at work handles that one.       *)
First ==
  /\ \A t \in Threads : handler[t] # "none" => nth[t] \in 1..presses
  /\ armed => stopFirst
  /\ armed /\ presses <= 1 => alive /\ \A t \in Threads : handler[t] # "quit"

IInv ==
  /\ Types /\ Counted /\ Locked /\ (\A t \in Threads : Alone(t))
  /\ Installed /\ Whole /\ First

LEMMA SectionsFinite ==
  IsFiniteSet(InSection) /\ Cardinality(InSection) \in Nat
  /\ (Cardinality(InSection) = 0 <=> InSection = {})
  /\ Cardinality(InSection) <= Cardinality(Threads)
<1>1. InSection \subseteq Threads
  BY DEF InSection
<1> QED
  BY <1>1, ThreadAssumption, FS_Subset, FS_CardinalityType, FS_EmptySet

(* What IInv says is what the runs check.                                  *)
LEMMA IInvRight == IInv => TypeOK /\ DispositionRight /\ FirstStops /\ SectionWhole
<1> SUFFICES ASSUME IInv PROVE TypeOK /\ DispositionRight /\ FirstStops /\ SectionWhole
  OBVIOUS
<1>1. TypeOK
  <2>1. critical \in 0..Cardinality(Threads)
    BY SectionsFinite, ThreadAssumption, FS_CardinalityType DEF IInv, Counted
  <2> QED
    BY <2>1 DEF IInv, Types, TypeOK
<1>2. DispositionRight
  <2> SUFFICES ASSUME mutex = NoThread
               PROVE  disp = IF original = "ignored" THEN "ignored"
                        ELSE IF critical > 0 \/ stopFirst THEN "ours" ELSE original
    BY DEF DispositionRight
  <2>1. NoneAt(Holding)
    BY ThreadAssumption DEF IInv, Locked, NoneAt
  <2>2. NoneAt({"batch"}) /\ NoneAt({"install", "swap", "restore"})
    BY <2>1 DEF NoneAt, Holding
  <2> QED
    BY <2>2 DEF IInv, Types, Installed
<1>3. FirstStops
  BY DEF IInv, First, FirstStops
<1>4. SectionWhole
  BY DEF IInv, Whole
<1> QED
  BY <1>1, <1>2, <1>3, <1>4

LEMMA InitHolds == Init => IInv
<1> SUFFICES ASSUME Init PROVE IInv
  OBVIOUS
<1>1. Types
  <2>1. items \in [Threads -> 0..MaxItems] /\ presses \in 0..MaxPress
    BY LimitAssumption DEF Init
  <2> QED
    BY <2>1 DEF Init, Types, Places
<1>2. InSection = {}
  BY DEF Init, InSection
<1>3. Counted
  BY <1>2, FS_EmptySet DEF Init, Counted
<1>4. Locked /\ \A t \in Threads : Alone(t)
  BY ThreadAssumption DEF Init, Locked, Alone, Holding
<1>5. Installed
  BY DEF Init, Installed, NoneAt
<1>6. Whole /\ First
  BY <1>2 DEF Init, Whole, SectionWhole, First
<1> QED
  BY <1>1, <1>3, <1>4, <1>5, <1>6 DEF IInv

(* What moving one thread does to the sections.                            *)
LEMMA SectionsMove ==
  ASSUME Types, NEW t \in Threads, NEW l \in Places, Goto(t, l)
  PROVE  /\ l \in {"install", "inside", "finished", "close"} =>
              InSection' = InSection \cup {t}
         /\ l \notin {"install", "inside", "finished", "close"} =>
              InSection' = InSection \ {t}
BY DEF Types, Goto, InSection

LEMMA CountMoves ==
  ASSUME NEW t \in Threads
  PROVE  /\ t \notin InSection =>
              /\ Cardinality(InSection \cup {t}) = Cardinality(InSection) + 1
              /\ InSection \ {t} = InSection
         /\ t \in InSection =>
              /\ Cardinality(InSection \ {t}) = Cardinality(InSection) - 1
              /\ InSection \cup {t} = InSection
<1>1. Cardinality(InSection \cup {t}) =
        IF t \in InSection THEN Cardinality(InSection) ELSE Cardinality(InSection) + 1
  BY SectionsFinite, FS_AddElement
<1>2. Cardinality(InSection \ {t}) =
        IF t \in InSection THEN Cardinality(InSection) - 1 ELSE Cardinality(InSection)
  BY SectionsFinite, FS_RemoveElement
<1> QED
  BY <1>1, <1>2

(* A thread that has the mutex is the only one at a place that needs it.   *)
LEMMA OnlyHolder ==
  ASSUME Types, Locked, NEW t \in Threads, pc[t] \in Holding
  PROVE  mutex = t /\ \A u \in Threads \ {t} : pc[u] \notin Holding
BY ThreadAssumption DEF Types, Locked

-----------------------------------------------------------------------------
(* The batch run.                                                          *)
LEMMA BatchKeeps ==
  ASSUME IInv, NEW t \in Threads, Batch(t) PROVE IInv'
<1> USE DEF Batch, At, Enter, atomics, state, history
<1>0. Types /\ Locked /\ Alone(t) /\ NoneAt(Places \ {"idle"})
  BY DEF IInv, Types, NoneAt
<1>1. Types'
  BY DEF IInv, Types, Goto, Places
<1>2. InSection' = InSection /\ InSection = {}
  BY <1>0 DEF Types, Goto, InSection
<1>3. Counted'
  BY <1>2 DEF IInv, Counted
<1>4. Locked'
  BY <1>0, ThreadAssumption DEF Types, Locked, Goto, Holding
<1>5. critical = 0
  BY <1>2, FS_EmptySet DEF IInv, Counted
<1>6. original = "default" => saved = "none" /\ ~bySection /\ disp = "default"
  <2>1. NoneAt({"install", "swap", "restore"})
    BY DEF NoneAt
  <2> QED
    BY <1>5, <2>1 DEF IInv, Installed, Types
<1>7. saved = "none" /\ ~bySection
  BY <1>6 DEF IInv, Installed, Types
<1>8. ASSUME NEW u \in Threads PROVE Alone(u)'
  BY <1>0, <1>2, <1>5, <1>7 DEF IInv, Alone, Goto, Types, First
<1>9. pc[t]' = "batch"
  BY <1>0 DEF Types, Goto
<1>10. Installed'
  BY <1>6, <1>7, <1>9 DEF IInv, Installed, NoneAt
<1>11. Whole'
  BY <1>0, <1>2, <1>9 DEF IInv, Whole, SectionWhole, Types, Goto
<1>12. First'
  BY DEF IInv, First
<1> QED
  BY <1>1, <1>3, <1>4, <1>8, <1>10, <1>11, <1>12 DEF IInv

LEMMA BatchInstallKeeps ==
  ASSUME IInv, NEW t \in Threads, BatchInstall(t) PROVE IInv'
<1> USE DEF BatchInstall, At, Leave, atomics, state, history
<1>0. Types /\ Locked /\ Alone(t) /\ pc[t] \in Holding
  BY DEF IInv, Types, Holding
<1>1. saved = "none" /\ Install
  BY <1>0 DEF Alone
<1>2. Types'
  <2>1. armed' \in BOOLEAN /\ bySection' \in BOOLEAN
    OBVIOUS
  <2> QED
    BY <1>0, <1>1, <2>1 DEF IInv, Installed, Types, Goto, Places, Install
<1>3. InSection' = InSection
  BY <1>0 DEF Types, Goto, InSection
<1>4. Counted'
  BY <1>3 DEF IInv, Counted
<1>5. Locked'
  BY <1>0, OnlyHolder, ThreadAssumption DEF Types, Locked, Goto, Holding
<1>6. NoneAt(Places \ {"idle"})' /\ stopFirst /\ ~armed
  BY <1>0 DEF Alone, NoneAt, Types, Goto
<1>7. ASSUME NEW u \in Threads PROVE Alone(u)'
  BY <1>6 DEF Alone, NoneAt, Places
<1>8. Installed'
  BY <1>0, <1>1, <1>6 DEF IInv, Installed, Install
<1>9. Whole'
  BY <1>3, <1>0 DEF IInv, Whole, SectionWhole, Types, Goto
<1>10. First'
  <2>1. armed' => presses = 0
    OBVIOUS
  <2>2. armed' => \A u \in Threads : handler[u] # "quit"
    BY <2>1, <1>0, LimitAssumption DEF IInv, First, Types
  <2> QED
    BY <2>2, <1>6 DEF IInv, First
<1> QED
  BY <1>2, <1>4, <1>5, <1>7, <1>8, <1>9, <1>10 DEF IInv

LEMMA ItemKeeps ==
  ASSUME IInv, NEW t \in Threads, Item(t) PROVE IInv'
<1> USE DEF Item, At, atomics, state, history
<1>0. Types /\ Locked
  BY DEF IInv
<1>1. Types'
  BY <1>0, LimitAssumption DEF Types, Goto, Places
<1>2. InSection' = InSection
  BY <1>0 DEF Types, Goto, InSection
<1>3. Counted' /\ Locked'
  BY <1>0, <1>2 DEF IInv, Counted, Locked, Types, Goto, Holding
<1>4. ASSUME NEW u \in Threads PROVE Alone(u)'
  BY <1>0, <1>2 DEF IInv, Alone, Goto, Types
<1>5. ASSUME NEW S, "idle" \notin S, "item" \notin S PROVE NoneAt(S)' <=> NoneAt(S)
  BY <1>0, <1>5 DEF NoneAt, Types, Goto
<1>6. Installed'
  <2>1. /\ NoneAt({"batch"})' <=> NoneAt({"batch"})
        /\ NoneAt({"install", "swap", "restore"})' <=> NoneAt({"install", "swap", "restore"})
    BY <1>5
  <2> QED
    BY <2>1 DEF IInv, Installed
<1>7. Whole' /\ First'
  BY <1>0, <1>2 DEF IInv, Whole, SectionWhole, First, Types, Goto
<1> QED
  BY <1>1, <1>3, <1>4, <1>6, <1>7 DEF IInv

-----------------------------------------------------------------------------
(* The sections.                                                           *)
LEMMA OpenKeeps ==
  ASSUME IInv, NEW t \in Threads, Open(t) PROVE IInv'
<1> USE DEF Open, At, Enter, atomics, state, history
<1>0. Types /\ Locked /\ NoneAt(Holding)
  BY ThreadAssumption DEF IInv, Locked, NoneAt
<1>1. Types'
  BY <1>0 DEF Types, Goto, Places
<1>2. InSection' = InSection
  BY <1>0 DEF Types, Goto, InSection
<1>3. Counted' /\ Locked'
  BY <1>0, <1>2, ThreadAssumption DEF IInv, Counted, Locked, NoneAt, Types, Goto, Holding
<1>4. NoneAt({"batch", "install", "swap", "restore"}) /\ NoneAt({"batch", "install", "swap", "restore"})'
  BY <1>0 DEF NoneAt, Holding, Types, Goto
<1>5. ASSUME NEW u \in Threads PROVE Alone(u)'
  BY <1>4 DEF Alone, NoneAt
<1>6. Installed'
  BY <1>4 DEF IInv, Installed, NoneAt
<1>7. Whole' /\ First'
  BY <1>0, <1>2 DEF IInv, Whole, SectionWhole, First, Types, Goto
<1> QED
  BY <1>1, <1>3, <1>5, <1>6, <1>7 DEF IInv

LEMMA OpenCountKeeps ==
  ASSUME IInv, NEW t \in Threads, OpenCount(t) PROVE IInv'
<1> USE DEF OpenCount, At, Leave, atomics, state, history
<1>0. Types /\ Locked /\ pc[t] \in Holding /\ t \notin InSection
  BY DEF IInv, Holding, InSection
<1>1. mutex = t /\ \A u \in Threads \ {t} : pc[u] \notin Holding
  BY <1>0, OnlyHolder
<1>2. Types'
  BY <1>0 DEF Types, Goto, Places
<1>3. InSection' = InSection \cup {t}
  BY <1>0, SectionsMove DEF Places
<1>4. Counted'
  BY <1>0, <1>3, CountMoves DEF IInv, Counted
<1>5. Locked'
  BY <1>0, <1>1, ThreadAssumption DEF Types, Locked, Goto, Holding
<1>6. critical = 0 => InSection = {}
  BY SectionsFinite DEF IInv, Counted
<1>7. ASSUME NEW u \in Threads PROVE Alone(u)'
  <2>1. CASE u = t
    BY <2>1, <1>0, <1>3, <1>6 DEF Alone, Types, Goto
  <2>2. CASE u # t
    <3>1. pc'[u] \notin Holding
      BY <1>0, <1>1, <2>2 DEF Types, Goto
    <3> QED
      BY <3>1 DEF Alone, Holding
  <2> QED
    BY <2>1, <2>2
<1>8. NoneAt({"batch", "install", "swap", "restore"})
  BY <1>1, <1>0 DEF NoneAt, Holding
<1>9. critical' > 0 /\ (critical = 0 \/ critical > 0)
  BY <1>0 DEF Types
<1>10. Installed'
  <2>1. NoneAt({"install", "swap", "restore"})' => critical > 0 \/ saved # "none"
    BY <1>0, <1>9 DEF NoneAt, Types, Goto
  <2>2. NoneAt({"batch"}) /\ NoneAt({"install", "swap", "restore"})
    BY <1>8 DEF NoneAt
  <2> QED
    BY <1>9, <2>1, <2>2 DEF IInv, Installed
<1>11. Whole'
  BY <1>0, <1>3 DEF IInv, Whole, SectionWhole, Types, Goto
<1>12. First'
  BY DEF IInv, First
<1> QED
  BY <1>2, <1>4, <1>5, <1>7, <1>10, <1>11, <1>12 DEF IInv

LEMMA OpenInstallKeeps ==
  ASSUME IInv, NEW t \in Threads, OpenInstall(t) PROVE IInv'
<1> USE DEF OpenInstall, At, Leave, atomics, state, history
<1>0. Types /\ Locked /\ Alone(t) /\ pc[t] \in Holding
  BY DEF IInv, Holding
<1>1. mutex = t /\ \A u \in Threads \ {t} : pc[u] \notin Holding
  BY <1>0, OnlyHolder
<1>2. Types'
  <2>1. bySection' \in BOOLEAN
    OBVIOUS
  <2> QED
    BY <1>0, <2>1 DEF IInv, Installed, Alone, Types, Goto, Places, Install
<1>3. saved = "none" /\ InSection = {t} /\ InSection' = {t}
  BY <1>0, SectionsMove DEF Alone, Places
<1>4. Counted'
  BY <1>3 DEF IInv, Counted
<1>5. Locked'
  BY <1>0, <1>1, ThreadAssumption DEF Types, Locked, Goto, Holding
<1>6. pc'[t] = "inside" /\ \A u \in Threads \ {t} : pc'[u] \notin Holding
  BY <1>0, <1>1 DEF Types, Goto
<1>7. ASSUME NEW u \in Threads PROVE Alone(u)'
  BY <1>6 DEF Alone, Holding
<1>8. critical > 0
  BY <1>0, <1>3, SectionsFinite DEF IInv, Counted, Types
<1>9. NoneAt({"batch"}) /\ (stopFirst /\ original = "default" => FALSE)
  <2>1. NoneAt({"batch"})
    BY <1>1 DEF NoneAt, Holding
  <2> QED
    BY <2>1, <1>3 DEF IInv, Installed
<1>10. Installed'
  BY <1>3, <1>8, <1>9, <1>0 DEF IInv, Installed, Install, Types
<1>11. Whole'
  BY <1>0, <1>3, SectionsFinite DEF IInv, Whole, SectionWhole, Types, Goto
<1>12. First'
  BY DEF IInv, First
<1> QED
  BY <1>2, <1>4, <1>5, <1>7, <1>10, <1>11, <1>12 DEF IInv

LEMMA FinishKeeps ==
  ASSUME IInv, NEW t \in Threads, Finish(t) PROVE IInv'
<1> USE DEF Finish, At, atomics, state, history
<1>0. Types /\ Locked
  BY DEF IInv
<1>1. Types'
  BY <1>0 DEF Types, Goto, Places
<1>2. InSection' = InSection
  BY <1>0 DEF Types, Goto, InSection
<1>3. Counted' /\ Locked'
  BY <1>0, <1>2 DEF IInv, Counted, Locked, Types, Goto, Holding
<1>4. ASSUME NEW u \in Threads PROVE Alone(u)'
  BY <1>0, <1>2 DEF IInv, Alone, Goto, Types
<1>5. Installed'
  BY <1>0 DEF IInv, Installed, NoneAt, Types, Goto
<1>6. Whole' /\ First'
  BY <1>0, <1>2 DEF IInv, Whole, SectionWhole, First, Types, Goto
<1> QED
  BY <1>1, <1>3, <1>4, <1>5, <1>6 DEF IInv

LEMMA CloseKeeps ==
  ASSUME IInv, NEW t \in Threads, Close(t) PROVE IInv'
<1> USE DEF Close, At, Enter, atomics, state, history
<1>0. Types /\ Locked /\ NoneAt(Holding)
  BY ThreadAssumption DEF IInv, Locked, NoneAt
<1>1. Types'
  BY <1>0 DEF Types, Goto, Places
<1>2. InSection' = InSection
  BY <1>0 DEF Types, Goto, InSection
<1>3. Counted' /\ Locked'
  BY <1>0, <1>2, ThreadAssumption DEF IInv, Counted, Locked, NoneAt, Types, Goto, Holding
<1>4. NoneAt({"batch", "install", "swap", "restore"}) /\ NoneAt({"batch", "install", "swap", "restore"})'
  BY <1>0 DEF NoneAt, Holding, Types, Goto
<1>5. ASSUME NEW u \in Threads PROVE Alone(u)'
  BY <1>4 DEF Alone, NoneAt
<1>6. Installed'
  BY <1>4 DEF IInv, Installed, NoneAt
<1>7. Whole' /\ First'
  BY <1>0, <1>2 DEF IInv, Whole, SectionWhole, First, Types, Goto
<1> QED
  BY <1>1, <1>3, <1>5, <1>6, <1>7 DEF IInv

LEMMA CloseCountKeeps ==
  ASSUME IInv, NEW t \in Threads, CloseCount(t) PROVE IInv'
<1> USE DEF CloseCount, At, Leave, atomics, state, history
<1>0. Types /\ Locked /\ pc[t] \in Holding /\ t \in InSection
  BY DEF IInv, Holding, InSection
<1>1. mutex = t /\ \A u \in Threads \ {t} : pc[u] \notin Holding
  BY <1>0, OnlyHolder
<1>2. critical \in Nat /\ critical > 0
  BY <1>0, SectionsFinite DEF IInv, Counted, Types
<1>3. Types'
  BY <1>0, <1>2 DEF Types, Goto, Places
<1>4. InSection' = InSection \ {t}
  BY <1>0, SectionsMove DEF Places
<1>5. Counted'
  BY <1>0, <1>4, CountMoves DEF IInv, Counted
<1>6. Locked'
  BY <1>0, <1>1, ThreadAssumption DEF Types, Locked, Goto, Holding
<1>7. ASSUME NEW u \in Threads PROVE Alone(u)'
  <2>1. CASE u = t
    BY <2>1, <1>0, <1>2 DEF Alone, Types, Goto
  <2>2. CASE u # t
    <3>1. pc'[u] \notin Holding
      BY <1>0, <1>1, <2>2 DEF Types, Goto
    <3> QED
      BY <3>1 DEF Alone, Holding
  <2> QED
    BY <2>1, <2>2
<1>8. Installed'
  <2>1. NoneAt({"install", "swap", "restore"})' => critical # 1
    BY <1>0 DEF NoneAt, Types, Goto
  <2>2. NoneAt({"batch"}) /\ NoneAt({"install", "swap", "restore"})
    BY <1>0, <1>1 DEF NoneAt, Holding
  <2>3. critical # 1 => critical' > 0
    BY <1>2
  <2> QED
    BY <1>2, <2>1, <2>2, <2>3 DEF IInv, Installed
<1>9. Whole'
  BY <1>0, <1>4 DEF IInv, Whole, SectionWhole, Types, Goto
<1>10. First'
  BY DEF IInv, First
<1> QED
  BY <1>3, <1>5, <1>6, <1>7, <1>8, <1>9, <1>10 DEF IInv

LEMMA CloseSwapKeeps ==
  ASSUME IInv, NEW t \in Threads, CloseSwap(t) PROVE IInv'
<1> USE DEF CloseSwap, At, atomics, state, history
<1>0. Types /\ Locked /\ Alone(t) /\ pc[t] \in Holding
  BY DEF IInv, Holding
<1>1. mutex = t /\ \A u \in Threads \ {t} : pc[u] \notin Holding
  BY <1>0, OnlyHolder
<1>2. Types'
  BY <1>0 DEF Types, Goto, Places
<1>3. InSection = {} /\ InSection' = {}
  BY <1>0, SectionsMove, SectionsFinite DEF IInv, Alone, Counted, Places
<1>4. Counted'
  BY <1>3 DEF IInv, Counted
<1>5. Locked'
  BY <1>0, <1>1 DEF Types, Locked, Goto, Holding
<1>6. pc'[t] = "restore" /\ \A u \in Threads \ {t} : pc'[u] \notin Holding
  BY <1>0, <1>1 DEF Types, Goto
<1>7. ASSUME NEW u \in Threads PROVE Alone(u)'
  BY <1>0, <1>6 DEF Alone, Holding
<1>8. Installed'
  <2>1. NoneAt({"batch"}) /\ ~NoneAt({"install", "swap", "restore"})'
    BY <1>1, <1>6 DEF NoneAt, Holding
  <2> QED
    BY <2>1 DEF IInv, Installed
<1>9. Whole'
  <2>1. ~ \E u \in Threads : pc'[u] = "inside"
    BY <1>3 DEF InSection
  <2> QED
    BY <1>3, <2>1 DEF IInv, Whole, SectionWhole
<1>10. First'
  <2>1. ASSUME armed, presses <= 1 PROVE alive'
    <3>1. stopFirst /\ ~(presses >= 2)
      BY <1>0, <2>1, LimitAssumption DEF IInv, First, Types
    <3> QED
      BY <3>1 DEF QuitsAtSectionEnd
  <2> QED
    BY <2>1 DEF IInv, First
<1> QED
  BY <1>2, <1>4, <1>5, <1>7, <1>8, <1>9, <1>10 DEF IInv

LEMMA CloseRestoreKeeps ==
  ASSUME IInv, NEW t \in Threads, CloseRestore(t) PROVE IInv'
<1> USE DEF CloseRestore, At, Leave, atomics, state, history
<1>0. Types /\ Locked /\ Alone(t) /\ pc[t] \in Holding
  BY DEF IInv, Holding
<1>1. mutex = t /\ \A u \in Threads \ {t} : pc[u] \notin Holding
  BY <1>0, OnlyHolder
<1>2. Types'
  BY <1>0 DEF Types, Goto, Places, IInv, Installed
<1>3. InSection = {} /\ InSection' = {} /\ critical = 0
  BY <1>0, SectionsMove, SectionsFinite DEF IInv, Alone, Counted, Places
<1>4. Counted'
  BY <1>3 DEF IInv, Counted
<1>5. Locked'
  BY <1>0, <1>1, ThreadAssumption DEF Types, Locked, Goto, Holding
<1>6. \A u \in Threads : pc'[u] \notin Holding
  BY <1>0, <1>1 DEF Types, Goto, Holding
<1>7. ASSUME NEW u \in Threads PROVE Alone(u)'
  BY <1>6 DEF Alone, Holding
<1>8. Installed'
  <2>1. NoneAt({"batch"})
    BY <1>0, <1>1 DEF NoneAt, Holding
  <2> QED
    BY <1>0, <1>3, <2>1 DEF IInv, Installed, Types
<1>9. Whole'
  <2>1. ~ \E u \in Threads : pc'[u] = "inside"
    BY <1>3 DEF InSection
  <2> QED
    BY <1>3, <2>1 DEF IInv, Whole, SectionWhole
<1>10. First'
  BY DEF IInv, First
<1> QED
  BY <1>2, <1>4, <1>5, <1>7, <1>8, <1>9, <1>10 DEF IInv

-----------------------------------------------------------------------------
(* The handler moves no thread, and changes nothing a section goes by.     *)
LEMMA HandlerKeeps ==
  ASSUME IInv, NEW t \in Threads,
         UNCHANGED <<critical, stopFirst, state, mutex, disp, original, pc, items, armed, raced>>,
         Types', Whole', First'
  PROVE  IInv'
<1> USE DEF state
<1>1. InSection' = InSection
  BY DEF InSection
<1>2. Counted' /\ Locked' /\ \A u \in Threads : Alone(u)'
  BY <1>1 DEF IInv, Counted, Locked, Alone
<1>3. Installed'
  BY DEF IInv, Installed, NoneAt
<1> QED
  BY <1>2, <1>3 DEF IInv

(* While a thread is inside, SIGINT does not have its default disposition. *)
LEMMA InsideIsOurs ==
  ASSUME IInv, NEW t \in Threads, pc[t] = "inside" PROVE disp # "default"
<1>0. Types /\ Locked /\ t \in InSection
  BY DEF IInv, InSection
<1>1. critical > 0 /\ critical # 0
  BY <1>0, SectionsFinite DEF IInv, Counted
<1>2. NoneAt({"batch"}) /\ NoneAt({"install", "swap", "restore"})
  BY <1>0, <1>1 DEF IInv, Alone, NoneAt
<1> QED
  BY <1>0, <1>1, <1>2 DEF IInv, Installed, Types

LEMMA PressKeeps ==
  ASSUME IInv, NEW t \in Threads, Press(t) PROVE IInv'
<1> USE DEF Press, atomics, state, history
<1>0. Types
  BY DEF IInv
<1>1. Types'
  <2>1. presses' \in 0..MaxPress /\ presses' \in Nat
    <3>1. presses \in 0..MaxPress
      BY <1>0 DEF Types
    <3>2. presses' = presses \/ presses' = presses + 1
      OBVIOUS
    <3>3. presses < MaxPress
      OBVIOUS
    <3> HIDE DEF Press
    <3> QED
      BY <3>1, <3>2, <3>3, LimitAssumption
  <2>2. nth' \in [Threads -> Nat]
    BY <1>0, <2>1 DEF Types
  <2>3. handler' \in [Threads -> {"none", "look", "defer", "quit"}]
    BY <1>0 DEF Types
  <2>4. alive' \in BOOLEAN
    BY <1>0 DEF Types
  <2> QED
    BY <1>0, <2>1, <2>2, <2>3, <2>4 DEF Types
<1>2. InSection' = InSection
  BY DEF InSection
<1>3. Whole'
  <2>1. ASSUME NEW u \in Threads, pc[u] = "inside" PROVE alive' = alive
    BY <2>1, InsideIsOurs
  <2>2. \A u \in Threads : handler'[u] = "quit" => handler[u] = "quit"
    BY <1>0 DEF Types
  <2> QED
    BY <1>2, <2>1, <2>2 DEF IInv, Whole, SectionWhole
<1>4. First'
  <2>1. armed => disp # "default"
    <3>1. armed => NoneAt({"batch"}) /\ stopFirst
      BY DEF IInv, First, Alone, NoneAt
    <3> QED
      BY <3>1, <1>0 DEF IInv, Installed, Types
  <2>2. presses \in Nat
    BY <1>0, LimitAssumption DEF Types
  <2>3. disp = "default" => UNCHANGED <<presses, handler, nth>> /\ ~armed
    BY <2>1
  <2>4. CASE disp = "default"
    BY <2>3, <2>4 DEF IInv, First
  <2>5. CASE disp # "default"
    <3>1. presses' = presses + 1 /\ \A u \in Threads \ {t} : nth'[u] = nth[u] /\ handler'[u] = handler[u]
      BY <1>0, <2>5 DEF Types
    <3>2. handler'[t] = "look" /\ nth'[t] = presses + 1 /\ alive' = alive
      BY <1>0, <2>5 DEF Types
    <3> QED
      BY <2>2, <3>1, <3>2 DEF IInv, First
  <2> QED
    BY <2>4, <2>5
<1> QED
  BY <1>1, <1>3, <1>4, HandlerKeeps

LEMMA LookKeeps ==
  ASSUME IInv, NEW t \in Threads, HandlerLook(t) PROVE IInv'
<1> USE DEF HandlerLook, atomics, state, history
<1>0. Types
  BY DEF IInv
<1>1. Types'
  BY <1>0 DEF Types, OnPress
<1>2. InSection' = InSection /\ (critical = 0 => InSection = {})
  BY SectionsFinite DEF InSection, IInv, Counted
<1>3. handler'[t] = "quit" => critical = 0 /\ ~(stopFirst /\ nth[t] = 1)
  BY <1>0 DEF OnPress, Types
<1>4. Whole'
  BY <1>0, <1>2, <1>3 DEF IInv, Whole, SectionWhole, Types
<1>5. First'
  <2>1. presses \in Nat /\ nth[t] \in 1..presses
    BY <1>0, LimitAssumption DEF IInv, First, Types
  <2>2. armed /\ presses <= 1 => handler'[t] # "quit"
    BY <2>1, <1>3 DEF IInv, First
  <2> QED
    BY <1>0, <2>1, <2>2 DEF IInv, First, Types
<1> QED
  BY <1>1, <1>4, <1>5, HandlerKeeps

LEMMA DeferKeeps ==
  ASSUME IInv, NEW t \in Threads, HandlerDefer(t) PROVE IInv'
<1> USE DEF HandlerDefer, atomics, state, history
<1>0. Types
  BY DEF IInv
<1>1. Types'
  BY <1>0 DEF Types
<1>2. InSection' = InSection
  BY DEF InSection
<1>3. Whole' /\ First'
  BY <1>0, <1>2 DEF IInv, Whole, SectionWhole, First, Types
<1> QED
  BY <1>1, <1>3, HandlerKeeps

LEMMA QuitKeeps ==
  ASSUME IInv, NEW t \in Threads, HandlerQuit(t) PROVE IInv'
<1> USE DEF HandlerQuit, atomics, state, history
<1>1. Types'
  BY DEF IInv, Types
<1>2. InSection' = InSection
  BY DEF InSection
<1>3. Whole'
  <2>1. ASSUME NEW u \in Threads, pc[u] = "inside" PROVE raced
    BY <2>1 DEF IInv, Whole, InSection
  <2> QED
    BY <1>2, <2>1 DEF IInv, Whole, SectionWhole
<1>4. First'
  BY DEF IInv, First
<1> QED
  BY <1>1, <1>3, <1>4, HandlerKeeps

-----------------------------------------------------------------------------
LEMMA NextKeeps == IInv /\ [Next]_vars => IInv'
<1> SUFFICES ASSUME IInv, [Next]_vars PROVE IInv'
  OBVIOUS
<1>1. CASE UNCHANGED vars
  BY <1>1 DEF vars, atomics, state, history, IInv, Types, Counted, InSection, Locked, Alone,
     NoneAt, Installed, Whole, SectionWhole, First
<1>2. ASSUME NEW t \in Threads, Batch(t) \/ Step(t) \/ Press(t) PROVE IInv'
  BY <1>2, BatchKeeps, BatchInstallKeeps, ItemKeeps, OpenKeeps, OpenCountKeeps,
     OpenInstallKeeps, FinishKeeps, CloseKeeps, CloseCountKeeps, CloseSwapKeeps,
     CloseRestoreKeeps, PressKeeps, LookKeeps, DeferKeeps, QuitKeeps DEF Step
<1> QED
  BY <1>1, <1>2 DEF Next

LEMMA Invariance == Spec => []IInv
BY InitHolds, NextKeeps, PTL DEF Spec

(* The counters, dispositions and program counters stay in their ranges;   *)
(* above all, the count of the open sections is never below zero.          *)
THEOREM InterruptTyped == Spec => []TypeOK
BY Invariance, IInvRight, PTL

(* Whatever sections threads open and close, when STATE is free the        *)
(* disposition of SIGINT is what it ought to be.                           *)
THEOREM DispositionKept == Spec => []DispositionRight
BY Invariance, IInvRight, PTL

(* The first press of a batch run never ends the process.                  *)
THEOREM FirstPressStops == Spec => []FirstStops
BY Invariance, IInvRight, PTL

(* A process that dies has all its sections whole, but for the one race    *)
(* the handler cannot see.                                                 *)
THEOREM SectionsWhole == Spec => []SectionWhole
BY Invariance, IInvRight, PTL
=============================================================================
