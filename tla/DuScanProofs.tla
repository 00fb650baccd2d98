---------------------------- MODULE DuScanProofs ----------------------------
(***************************************************************************)
(* The scan, for every tree, every number of names, links and bind mounts, *)
(* and every order of the threads.                                         *)
(*                                                                         *)
(* A file whose names stay put is counted once.  The walk opens each       *)
(* directory once and closes it when all below it is closed, so at its end *)
(* every directory within reach was opened, at one of its mounts           *)
(* (OpenInv, MountInv).  A name that was taken from an open directory      *)
(* counted its file or found it counted, and no name of a counted file     *)
(* counts it again: a claim, the set of files seen or a decided path is in *)
(* the way (CountingInv).  The first report stands when the second misses  *)
(* a decided path.                                                         *)
(*                                                                         *)
(* A scan that nothing disturbs says what one thread would.  A directory   *)
(* that is back has its block, its names and its subdirectories (RowsInv), *)
(* so at the end the whole of what is below it; a list holds the largest   *)
(* rows of all but those that wait to be offered (Covers, DirsInv,         *)
(* FilesInv), so at the end of all; a claim is the least name taken so     *)
(* far, and a decided path the least within reach (LeastInv).              *)
(***************************************************************************)
EXTENDS DuScan, FiniteSetTheorems, WellFoundedInduction, TLAPS

-----------------------------------------------------------------------------
(* The tree.                                                               *)

(* Of the numbers in a set, one is the least.                              *)
LEMMA Least ==
  ASSUME NEW S \in SUBSET Nat, S # {}
  PROVE  \E n \in S : \A m \in S : n <= m
<1>1. PICK n \in S : \A m \in S : ~ (<<m, n>> \in OpToRel(<, Nat))
  BY NatLessThanWellFounded, WFMin
<1>2. \A m \in S : ~ (m < n)
  BY <1>1 DEF OpToRel
<1> QED
  BY <1>2

AboveBody(f, d) == IF d = Root THEN {Root} ELSE {d} \cup f[Up[d]]

LEMMA AboveExists == \E f : f = [d \in Dirs |-> AboveBody(f, d)]
<1> DEFINE UpTo(n, f) ==
             /\ f = [d \in Dirs |-> f[d]]
             /\ \A d \in Dirs : d <= n => f[d] = AboveBody(f, d)
           Bad == {n \in Nat : ~ \E f : UpTo(n, f)}
<1>0. /\ \A d \in Dirs : d \in Nat
      /\ \A d \in Dirs \ {Root} : Up[d] \in Dirs /\ Up[d] < d /\ Up[d] \in Nat
  BY TreeAssumption
<1>1. Bad = {}
  <2> SUFFICES ASSUME Bad # {} PROVE FALSE
    OBVIOUS
  <2>1. PICK n \in Bad : \A m \in Bad : n <= m
    BY Least
  <2>2. CASE n = 0
    <3> DEFINE f == [d \in Dirs |-> IF d = Root THEN {Root} ELSE {d}]
    <3>1. ASSUME NEW d \in Dirs, d <= 0 PROVE f[d] = AboveBody(f, d)
      <4>1. d = Root
        BY <1>0, <3>1
      <4> QED
        BY <4>1 DEF AboveBody
    <3>2. UpTo(0, f)
      BY <3>1
    <3> QED
      BY <2>1, <2>2, <3>2
  <2>3. CASE n # 0
    <3>0. n \in Nat
      BY <2>1
    <3> HIDE DEF Bad
    <3>1. n - 1 \in Nat /\ n - 1 \notin Bad
      BY <2>1, <2>3, <3>0
    <3> USE DEF Bad
    <3>2. PICK f : UpTo(n - 1, f)
      BY <3>1
    <3> DEFINE g == [d \in Dirs |-> AboveBody(f, d)]
    <3>3. ASSUME NEW d \in Dirs, d <= n PROVE g[d] = AboveBody(g, d)
      <4>1. CASE d = Root
        BY <4>1 DEF AboveBody
      <4>2. CASE d # Root
        <5>1. Up[d] \in Dirs /\ Up[d] <= n - 1
          BY <1>0, <3>0, <3>3, <4>2
        <5>2. f[Up[d]] = g[Up[d]]
          BY <3>2, <5>1
        <5> QED
          BY <4>2, <5>2 DEF AboveBody
      <4> QED
        BY <4>1, <4>2
    <3>4. UpTo(n, g)
      BY <3>3
    <3> QED
      BY <2>1, <3>4
  <2> QED
    BY <2>2, <2>3
<1>2. \E n \in Nat : \A d \in Dirs : d <= n
  <2>1. CASE Dirs = {}
    BY <2>1
  <2>2. CASE Dirs # {}
    <3> DEFINE N == {n \in Nat : \A d \in Dirs : d <= n}
               Over(n) == {d \in Dirs : d > n}
               Sizes == {Cardinality(Over(n)) : n \in Nat}
    <3>1. \A n \in Nat : IsFiniteSet(Over(n)) /\ Cardinality(Over(n)) \in Nat
      BY TreeAssumption, FS_Subset, FS_CardinalityType
    <3>2. PICK k \in Sizes : \A j \in Sizes : k <= j
      <4>1. Sizes \in SUBSET Nat /\ Sizes # {}
        BY <3>1
      <4> HIDE DEF Sizes
      <4> QED
        BY <4>1, Least
    <3>3. PICK n \in Nat : k = Cardinality(Over(n))
      BY <3>2
    <3>4. Over(n) = {}
      <4> SUFFICES ASSUME NEW d \in Over(n) PROVE FALSE
        OBVIOUS
      <4>1. d \in Nat /\ d \notin Over(d) /\ Over(d) \in SUBSET Over(n)
        BY <1>0
      <4>2. Cardinality(Over(d)) < Cardinality(Over(n))
        <5>1. Over(d) # Over(n)
          BY <4>1
        <5> HIDE DEF Over
        <5> QED
          BY <3>1, <4>1, <5>1, FS_Subset
      <4>3. Cardinality(Over(d)) \in Sizes
        BY <4>1
      <4> HIDE DEF Over, Sizes
      <4> QED
        BY <3>1, <3>2, <3>3, <4>1, <4>2, <4>3
    <3> QED
      BY <1>0, <3>4
  <2> QED
    BY <2>1, <2>2
<1>3. PICK n \in Nat : \A d \in Dirs : d <= n
  BY <1>2
<1>4. PICK f : UpTo(n, f)
  BY <1>1
<1> QED
  BY <1>3, <1>4

LEMMA AboveDef ==
  ASSUME NEW d \in Dirs
  PROVE  Above[d] = IF d = Root THEN {Root} ELSE {d} \cup Above[Up[d]]
<1> DEFINE Is(f) == f = [e \in Dirs |-> IF e = Root THEN {Root} ELSE {e} \cup f[Up[e]]]
<1>1. \E f : Is(f)
  BY AboveExists DEF AboveBody
<1>2. Above = CHOOSE f : Is(f)
  BY DEF Above
<1>3. Is(Above)
  BY <1>1, <1>2
<1> QED
  BY <1>3

LEMMA AboveDirs == \A d \in Dirs : Above[d] \in SUBSET Dirs /\ d \in Above[d]
<1> DEFINE Bad == {d \in Dirs : ~ (Above[d] \in SUBSET Dirs /\ d \in Above[d])}
<1>1. Bad = {}
  <2> SUFFICES ASSUME Bad # {} PROVE FALSE
    OBVIOUS
  <2>1. Bad \in SUBSET Nat
    BY TreeAssumption
  <2>2. PICK d \in Bad : \A e \in Bad : d <= e
    BY <2>1, Least
  <2>3. d # Root
    <3>1. Root \in Dirs /\ Above[Root] = {Root}
      BY AboveDef, TreeAssumption
    <3> QED
      BY <3>1
  <2>4. Up[d] \in Dirs /\ Up[d] < d
    BY <2>3, TreeAssumption
  <2>5. Up[d] \notin Bad
    BY <2>1, <2>2, <2>4, TreeAssumption
  <2>6. Above[d] = {d} \cup Above[Up[d]]
    BY <2>3, AboveDef
  <2> QED
    BY <2>4, <2>5, <2>6
<1> QED
  BY <1>1


(* A directory is no deeper than there are directories.                    *)
LEMMA DepthInt == \A d \in Dirs : Depth(d) \in Int
<1> SUFFICES ASSUME NEW d \in Dirs PROVE Depth(d) \in Int
  OBVIOUS
<1>1. IsFiniteSet(Dirs)
  <2>1. Dirs \in SUBSET (Dirs \cup Names) /\ IsFiniteSet(Dirs \cup Names)
    BY TreeAssumption
  <2> QED
    BY <2>1, FS_Subset
<1>2. Above[d] \in SUBSET Dirs
  BY AboveDirs
<1>3. Cardinality(Above[d]) \in Nat
  BY <1>1, <1>2, FS_Subset, FS_CardinalityType
<1> QED
  BY <1>3 DEF Depth

(* What is within reach has all above it within reach.                     *)
LEMMA ReachUp ==
  ASSUME NEW d \in Dirs \ {Root}, Reached(d)
  PROVE  Reached(Up[d])
<1>1. Above[d] = {d} \cup Above[Up[d]]
  BY AboveDef
<1> QED
  BY <1>1 DEF Reached

LEMMA ReachFits ==
  ASSUME NEW d \in Dirs, Reached(d)
  PROVE  d \notin sealed /\ Depth(d) <= depthLimit
BY AboveDirs DEF Reached

-----------------------------------------------------------------------------
(* The invariant.                                                          *)

Inside == {"stat", "offer", "push", "below"}
Back == {"self", "pushself", "done"}
Fits(d) == d \notin sealed /\ Depth(d) <= depthLimit

Types ==
  /\ top \in Nat /\ depthLimit \in Nat /\ inode \in Shapes
  /\ there \subseteq Names /\ moved \subseteq Files
  /\ phase \in {"first", "second", "over"}
  /\ stage \in [Dirs -> Stages] /\ todo \in [Dirs -> SUBSET Names]
  /\ claims \in [Files -> [path : Names \cup {NoPath}, there : BOOLEAN]]
  /\ decided \in [Files -> Names \cup {NoPath}]
  /\ seen \subseteq Files /\ met \in Nat /\ counted \subseteq Names
  /\ cut \in BOOLEAN /\ live \in Nat /\ first.counted \subseteq Names
  /\ first.cut \in BOOLEAN

(* A name exists at every mount of its directory or at none.               *)
TwinsInv == \A n \in there : Twins(n) \subseteq there

(* The walk: a directory was opened unless something bars it, below an     *)
(* open one and once among its mounts; it closes after all below it.       *)
OpenInv ==
  /\ \A d \in Dirs : stage[d] \in Inside => Fits(d)
  /\ \A d \in Dirs \ {Root} : stage[d] # "new" =>
       Opened(Up[d]) /\ stage[Up[d]] \in {"below"} \cup Back
  /\ \A d \in Dirs \ {Root} : Opened(Up[d]) /\ stage[Up[d]] \in Back => stage[d] \in {"gone", "done"}
  /\ \A d \in Dirs : stage[d] # "stat" => todo[d] = {}
MountInv ==
  /\ \A d, e \in Dirs : Opened(d) /\ Opened(e) /\ inode[d] = inode[e] => d = e
  /\ \A d \in Dirs : stage[d] = "gone" /\ ~cut => \E e \in Dirs : Opened(e) /\ inode[e] = inode[d]

(* A name to stat is not counted yet; a counted one is of an open          *)
(* directory.                                                              *)
NamesInv ==
  /\ \A d \in Dirs : \A n \in todo[d] :
       DirOf[n] = d /\ n \notin counted /\ (FileOf[n] \notin moved => n \in there)
  /\ \A n \in counted : Opened(DirOf[n]) /\ (FileOf[n] \notin moved => n \in there)

Shown == {n \in counted : stage[DirOf[n]] # "stat"}
LiveInv == live = Cardinality(Shown)

Claimed(f) == claims[f].path # NoPath
Decided(f) == decided[f] # NoPath

(* A file counts once.                                                     *)
OneInv == \A k, n \in counted : FileOf[k] = FileOf[n] /\ FileOf[n] \notin moved => k = n
(* What keeps a counted file from counting again.                          *)
BarInv == \A k \in counted : FileOf[k] \notin moved /\ NLink(FileOf[k]) # 1 =>
            FileOf[k] \in seen \/ Claimed(FileOf[k]) \/ decided[FileOf[k]] = k
SeenInv ==
  \A f \in seen : /\ \E k \in counted : FileOf[k] = f
                  /\ f \notin moved => top = 0 \/ (phase = "second" /\ ~Decided(f))
ClaimInv ==
  \A f \in Files : Claimed(f) =>
    /\ top # 0 /\ phase = "first" /\ FileOf[claims[f].path] = f
    /\ \E k \in counted : FileOf[k] = f
    /\ f \notin moved => NLink(f) > 1
DecidedInv ==
  \A f \in Files : Decided(f) =>
    /\ top # 0 /\ phase = "second" /\ FileOf[decided[f]] = f
    /\ f \notin moved => NLink(f) > 1
(* A name that was taken counted its file or found it counted.             *)
TakenInv ==
  \A n \in there : FileOf[n] \notin moved /\ Opened(DirOf[n]) /\ n \notin todo[DirOf[n]]
                     /\ ~Decided(FileOf[n])
    => \E k \in counted : FileOf[k] = FileOf[n]
MetInv == met <= Cardinality({f \in Files : Decided(f) /\ decided[f] \in counted})

WalkInv ==
  /\ OpenInv /\ MountInv /\ NamesInv /\ LiveInv
  /\ OneInv /\ BarInv /\ SeenInv /\ ClaimInv /\ DecidedInv /\ TakenInv /\ MetInv

(* What a report owes: C are the names counted, x whether it was cut short. *)
Once(C, x) ==
  \A f \in Files \ moved :
    /\ \A k, n \in C : FileOf[k] = f /\ FileOf[n] = f => k = n
    /\ ~x /\ (\E n \in there : FileOf[n] = f /\ WithinReach(n)) => \E n \in C : FileOf[n] = f
FewShown == moved = {} => live <= Cardinality(Files)

IInv ==
  /\ Types /\ TwinsInv
  /\ Walking => WalkInv
  /\ phase = "second" => Once(first.counted, first.cut)
  /\ phase = "over" => Once(counted, cut) /\ FewShown

-----------------------------------------------------------------------------
(* The steps of a walk.                                                    *)

(* A walk leaves its input, its phase and what the first walk said alone.  *)
Keeps == UNCHANGED <<top, depthLimit, inode, sealed, phase, decided, first>>
Turns(d, to) == stage' = [stage EXCEPT ![d] = to]

Skips(d) ==
  /\ Turns(d, "gone") /\ UNCHANGED todo
  /\ cut' \/ (cut' = cut /\ \E e \in Dirs : Opened(e) /\ inode[e] = inode[d])
Bars(d) == ~Fits(d) /\ UNCHANGED <<todo, cut>> /\ \E to \in {"self", "done"} : Turns(d, to)
Opens(d) ==
  /\ Fits(d) /\ Turns(d, "stat") /\ UNCHANGED cut
  /\ \A e \in Dirs \ {d} : Opened(e) => inode[e] # inode[d]
  /\ todo' = [todo EXCEPT ![d] = NamesIn(d) \cap there]
Enters(d) ==
  /\ Keeps /\ UNCHANGED <<there, moved, claims, seen, met, counted, live>>
  /\ stage[d] = "new" /\ (d # Root => stage[Up[d]] = "below")
  /\ cut' \in BOOLEAN
  /\ Skips(d) \/ Bars(d) \/ Opens(d)

LeavesStat(d) ==
  /\ stage[d] = "stat" /\ todo[d] = {} /\ \E to \in {"offer", "below"} : Turns(d, to)
  /\ live' = live + Cardinality(NamesIn(d) \cap counted)
Offers(d) ==
  /\ stage[d] \in {"offer", "push"} /\ UNCHANGED live
  /\ \E to \in {"offer", "push", "below"} : Turns(d, to)
Rises(d) ==
  /\ stage[d] = "below" /\ UNCHANGED live /\ \E to \in {"self", "done"} : Turns(d, to)
  /\ \A c \in Children(d) : stage[c] \in {"gone", "done"}
Ends(d) ==
  /\ stage[d] \in {"self", "pushself"} /\ UNCHANGED live
  /\ \E to \in {"pushself", "done"} : Turns(d, to)
Goes(d) ==
  /\ Keeps /\ UNCHANGED <<there, moved, claims, seen, met, counted, cut, todo>>
  /\ LeavesStat(d) \/ Offers(d) \/ Rises(d) \/ Ends(d)

Counts(d, n) ==
  /\ Keeps /\ UNCHANGED <<there, moved, stage, cut, live>>
  /\ stage[d] = "stat" /\ n \in todo[d] /\ todo' = [todo EXCEPT ![d] = @ \ {n}]
  /\ \/ n \notin there /\ UNCHANGED <<claims, seen, met, counted>>
     \/ \E reused \in BOOLEAN :
          LET c == CountsHere(n, FileOf[n], reused)
          IN /\ reused => Known(FileOf[n])
             /\ reused \/ n \in there
             /\ seen' = c.seen /\ claims' = c.claims /\ met' = c.met
             /\ counted' = IF c.counts THEN counted \cup {n} ELSE counted

(* These are the steps.                                                    *)
LEMMA StepKinds ==
  ASSUME Types, NEW d \in Dirs, Step(d)
  PROVE  Walking /\ (Enters(d) \/ Goes(d) \/ \E n \in Names : Counts(d, n))
<1>0. Depth(d) \in Int /\ depthLimit \in Int
  BY DepthInt DEF Types
<1>1. CASE EnterStopped(d)
  BY <1>1 DEF EnterStopped, Ready, Go, Enters, Skips, Turns, Keeps, input, Types
<1>2. CASE EnterDeep(d)
  BY <1>0, <1>2 DEF EnterDeep, Ready, Go, Enters, Bars, Fits, Turns, Keeps, input, Types
<1>3. CASE EnterSealed(d)
  BY <1>3 DEF EnterSealed, Ready, Go, Enters, Bars, Fits, Turns, Keeps, input, Types
<1>4. CASE EnterAgain(d)
  BY <1>4 DEF EnterAgain, Ready, Go, Enters, Skips, Turns, Keeps, input, Types
<1>5. CASE EnterOpen(d)
  BY <1>5 DEF EnterOpen, Ready, Go, Enters, Opens, Fits, Turns, Keeps, input, Types
<1>6. ASSUME NEW n \in Names, StatMissing(d, n)
      PROVE  Walking /\ Counts(d, n)
  BY <1>6 DEF StatMissing, Listed, Counts, Keeps, input
<1>7. ASSUME NEW n \in Names, Stat(d, n)
      PROVE  Walking /\ Counts(d, n)
  BY <1>7 DEF Stat, Listed, Counts, Keeps, input
<1>8. CASE StatsDone(d)
  BY <1>8 DEF StatsDone, Go, Goes, LeavesStat, Turns, Keeps, input
<1>9. CASE LookFile(d)
  BY <1>9 DEF LookFile, Go, Goes, Offers, Turns, Keeps, input
<1>10. CASE PushFile(d)
  BY <1>10 DEF PushFile, Go, Goes, Offers, Turns, Keeps, input
<1>11. CASE Absorb(d)
  BY <1>11 DEF Absorb, Go, Goes, Rises, Turns, Keeps, input
<1>12. CASE LookSelf(d)
  BY <1>12 DEF LookSelf, Go, Goes, Ends, Turns, Keeps, input
<1>13. CASE PushSelf(d)
  BY <1>13 DEF PushSelf, Go, Goes, Ends, Turns, Keeps, input
<1> QED
  BY <1>1, <1>2, <1>3, <1>4, <1>5, <1>6, <1>7, <1>8, <1>9, <1>10, <1>11, <1>12, <1>13 DEF Step

(* A directory stays open, and only the one that is entered is opened.     *)
LEMMA KeepsFits ==
  ASSUME Keeps
  PROVE  /\ \A d \in Dirs : Fits(d)' <=> Fits(d)
         /\ \A d \in Dirs : Opened(d) <=> stage[d] \notin {"new", "gone"} /\ Fits(d)
         /\ \A d \in Dirs : Opened(d)' <=> stage'[d] \notin {"new", "gone"} /\ Fits(d)
BY DEF Keeps, Fits, Opened, Depth

LEMMA EntersOpened ==
  ASSUME Types, NEW d \in Dirs, Enters(d)
  PROVE  /\ \A e \in Dirs : Opened(e)' <=> Opened(e) \/ (e = d /\ Opens(d))
         /\ ~Opened(d)
<1>1. \A e \in Dirs \ {d} : stage'[e] = stage[e]
  BY DEF Types, Enters, Skips, Bars, Opens, Turns
<1>2. /\ Skips(d) => stage'[d] = "gone"
      /\ Opens(d) => stage'[d] = "stat" /\ Fits(d)
      /\ Bars(d) => ~Fits(d)
  BY DEF Types, Skips, Bars, Opens, Turns
<1>3. stage[d] = "new" /\ Keeps /\ (Skips(d) \/ Bars(d) \/ Opens(d))
  BY DEF Enters
<1> QED
  BY <1>1, <1>2, <1>3, KeepsFits

LEMMA GoesOpened ==
  ASSUME Types, NEW d \in Dirs, Goes(d)
  PROVE  \A e \in Dirs : Opened(e)' <=> Opened(e)
<1>1. \A e \in Dirs \ {d} : stage'[e] = stage[e]
  BY DEF Types, Goes, LeavesStat, Offers, Rises, Ends, Turns
<1>2. stage[d] \notin {"new", "gone"} /\ stage'[d] \notin {"new", "gone"}
  BY DEF Types, Goes, LeavesStat, Offers, Rises, Ends, Turns
<1> QED
  BY <1>1, <1>2, KeepsFits DEF Goes

LEMMA CountsOpened ==
  ASSUME NEW d \in Dirs, NEW n \in Names, Counts(d, n)
  PROVE  \A e \in Dirs : Opened(e)' <=> Opened(e)
BY KeepsFits DEF Counts

-----------------------------------------------------------------------------
(* A step of a walk keeps the types.                                       *)

LEMMA CountsHereIn ==
  ASSUME Types, NEW n \in Names, NEW f \in Files, NEW r \in BOOLEAN
  PROVE  LET c == CountsHere(n, f, r)
         IN /\ c.counts \in BOOLEAN /\ c.seen \in SUBSET Files /\ c.met \in Nat
            /\ c.claims \in [Files -> [path : Names \cup {NoPath}, there : BOOLEAN]]
<1>1. CountsFirst(f).counts \in BOOLEAN /\ CountsFirst(f).seen \in SUBSET Files
      /\ CountsFirst(f).met = met /\ CountsFirst(f).claims = claims
  BY DEF CountsFirst, Types
<1>2. CountsAt(n, f).counts \in BOOLEAN /\ CountsAt(n, f).seen = seen
      /\ CountsAt(n, f).met \in Nat /\ CountsAt(n, f).claims = claims
  BY DEF CountsAt, Types
<1>3. Claim(n, f).counts \in BOOLEAN /\ Claim(n, f).seen = seen
      /\ Claim(n, f).met = met
      /\ Claim(n, f).claims \in [Files -> [path : Names \cup {NoPath}, there : BOOLEAN]]
  <2>1. ASSUME NEW b \in BOOLEAN
        PROVE  [claims EXCEPT ![f] = [path |-> n, there |-> b]] \in
                 [Files -> [path : Names \cup {NoPath}, there : BOOLEAN]]
    BY DEF Types
  <2> QED
    BY <2>1 DEF Claim, Types
<1> QED
  BY <1>1, <1>2, <1>3 DEF CountsHere, Types

LEMMA FileIn == \A n \in Names : FileOf[n] \in Files /\ DirOf[n] \in Dirs
BY TreeAssumption DEF Files

LEMMA NamesFinite ==
  /\ IsFiniteSet(Names) /\ \A S \in SUBSET Names : IsFiniteSet(S) /\ Cardinality(S) \in Nat
  /\ IsFiniteSet(Files) /\ \A S \in SUBSET Files : IsFiniteSet(S) /\ Cardinality(S) \in Nat
<1>1. IsFiniteSet(Names)
  <2>1. Names \in SUBSET (Dirs \cup Names) /\ IsFiniteSet(Dirs \cup Names)
    BY TreeAssumption
  <2> QED
    BY <2>1, FS_Subset
<1>2. IsFiniteSet(Files)
  <2>1. [n \in Names |-> FileOf[n]] \in Surjection(Names, Files)
    BY DEF Files, Surjection
  <2> QED
    BY <1>1, <2>1, FS_Surjection
<1> QED
  BY <1>1, <1>2, FS_Subset, FS_CardinalityType

LEMMA EntersTypes ==
  ASSUME Types, NEW d \in Dirs, Enters(d)
  PROVE  Types'
<1>1. stage' \in [Dirs -> Stages]
  <2>1. \A s \in Stages : Turns(d, s) => stage' \in [Dirs -> Stages]
    BY DEF Turns, Types
  <2> QED
    BY <2>1 DEF Enters, Skips, Bars, Opens, Stages
<1>2. todo' \in [Dirs -> SUBSET Names]
  BY DEF Types, Enters, Skips, Bars, Opens, NamesIn
<1> QED
  BY <1>1, <1>2 DEF Types, Enters, Keeps

LEMMA GoesTypes ==
  ASSUME Types, NEW d \in Dirs, Goes(d)
  PROVE  Types'
<1>1. stage' \in [Dirs -> Stages]
  <2>1. \A s \in Stages : Turns(d, s) => stage' \in [Dirs -> Stages]
    BY DEF Turns, Types
  <2> QED
    BY <2>1 DEF Goes, LeavesStat, Offers, Rises, Ends, Stages
<1>2. live' \in Nat
  <2>1. Cardinality(NamesIn(d) \cap counted) \in Nat
    BY NamesFinite DEF Types
  <2> QED
    BY <2>1 DEF Types, Goes, LeavesStat, Offers, Rises, Ends
<1> QED
  BY <1>1, <1>2 DEF Types, Goes, Keeps

LEMMA CountsTypes ==
  ASSUME Types, NEW d \in Dirs, NEW n \in Names, Counts(d, n)
  PROVE  Types'
<1>1. todo' \in [Dirs -> SUBSET Names]
  BY DEF Types, Counts
<1>2. FileOf[n] \in Files
  BY FileIn
<1>3. /\ claims' \in [Files -> [path : Names \cup {NoPath}, there : BOOLEAN]]
      /\ seen' \in SUBSET Files /\ met' \in Nat /\ counted' \in SUBSET Names
  <2>1. CASE UNCHANGED <<claims, seen, met, counted>>
    BY <2>1 DEF Types
  <2>2. CASE ~UNCHANGED <<claims, seen, met, counted>>
    <3>1. PICK reused \in BOOLEAN :
            LET c == CountsHere(n, FileOf[n], reused)
            IN /\ seen' = c.seen /\ claims' = c.claims /\ met' = c.met
               /\ counted' = IF c.counts THEN counted \cup {n} ELSE counted
      BY <2>2 DEF Counts
    <3> QED
      BY <1>2, <3>1, CountsHereIn DEF Types
  <2> QED
    BY <2>1, <2>2
<1> QED
  BY <1>1, <1>3 DEF Types, Counts, Keeps

-----------------------------------------------------------------------------
(* A step of a walk keeps what holds of its directories.                   *)

LEMMA EntersOpen ==
  ASSUME Types, OpenInv, NEW d \in Dirs, Enters(d)
  PROVE  OpenInv'
<1>1. /\ \A e \in Dirs \ {d} : stage'[e] = stage[e] /\ todo'[e] = todo[e]
      /\ stage[d] = "new" /\ todo[d] = {}
  BY DEF Types, OpenInv, Enters, Skips, Bars, Opens, Turns
<1>2. /\ stage'[d] \in {"gone", "self", "done", "stat"}
      /\ stage'[d] = "stat" => Fits(d)
      /\ stage'[d] # "stat" => todo'[d] = {}
  BY <1>1 DEF Types, Enters, Skips, Bars, Opens, Turns
<1>3. stage'[d] \in Back => ~Opened(d)'
  BY KeepsFits, <1>2 DEF Types, Enters, Skips, Bars, Opens, Turns, Back
<1>4. \A e \in Dirs : (Fits(e)' <=> Fits(e)) /\ (Opened(e) => Opened(e)')
  BY EntersOpened, KeepsFits DEF Enters
<1>5. \A e \in Dirs \ {Root} : Up[e] \in Dirs /\ Up[e] # e
  BY TreeAssumption
<1>6. d # Root => stage[Up[d]] = "below" /\ Opened(Up[d])
  BY <1>5, KeepsFits DEF Enters, OpenInv, Inside
<1>7. \A e \in Dirs : stage'[e] \in Inside => Fits(e)'
  BY <1>1, <1>2, <1>4 DEF OpenInv, Inside
<1>8. \A e \in Dirs \ {Root} : stage'[e] # "new" =>
        Opened(Up[e])' /\ stage'[Up[e]] \in {"below"} \cup Back
  <2> SUFFICES ASSUME NEW e \in Dirs \ {Root}, stage'[e] # "new"
               PROVE  Opened(Up[e])' /\ stage'[Up[e]] \in {"below"} \cup Back
    OBVIOUS
  <2>1. Opened(Up[e]) /\ stage[Up[e]] \in {"below"} \cup Back
    BY <1>1, <1>6 DEF OpenInv
  <2>2. Up[e] # d
    BY <1>1, <2>1 DEF Back
  <2> QED
    BY <1>1, <1>4, <1>5, <2>1, <2>2
<1>9. \A e \in Dirs \ {Root} : Opened(Up[e])' /\ stage'[Up[e]] \in Back => stage'[e] \in {"gone", "done"}
  <2> SUFFICES ASSUME NEW e \in Dirs \ {Root}, Opened(Up[e])', stage'[Up[e]] \in Back
               PROVE  stage'[e] \in {"gone", "done"}
    OBVIOUS
  <2>1. Up[e] # d /\ stage[Up[e]] \in Back
    BY <1>1, <1>3, <1>5
  <2>2. Opened(Up[e])
    BY <1>5, <2>1, EntersOpened
  <2>3. e # d
    BY <1>6, <2>1 DEF Back
  <2> QED
    BY <1>1, <2>1, <2>2, <2>3 DEF OpenInv
<1>10. \A e \in Dirs : stage'[e] # "stat" => todo'[e] = {}
  BY <1>1, <1>2 DEF OpenInv
<1> QED
  BY <1>7, <1>8, <1>9, <1>10 DEF OpenInv

LEMMA GoesOpen ==
  ASSUME Types, OpenInv, NEW d \in Dirs, Goes(d)
  PROVE  OpenInv'
<1>1. /\ \A e \in Dirs \ {d} : stage'[e] = stage[e]
      /\ todo' = todo /\ (stage[d] = "stat" => todo[d] = {})
      /\ stage[d] \in Inside \cup {"self", "pushself"}
      /\ stage'[d] \in {"offer", "push", "below"} \cup Back
      /\ stage'[d] \in Inside => stage[d] \in Inside
      /\ stage[d] \in {"below"} \cup Back => stage'[d] \in Back
      /\ stage[d] # "below" /\ stage'[d] \in Back => stage[d] \in Back
  BY DEF Types, Goes, LeavesStat, Offers, Rises, Ends, Turns, Inside, Back
<1>2. stage[d] = "below" => \A e \in Dirs \ {Root} : Up[e] = d => stage[e] \in {"gone", "done"}
  BY DEF Goes, LeavesStat, Offers, Rises, Ends, Children
<1>3. \A e \in Dirs : (Fits(e)' <=> Fits(e)) /\ (Opened(e) <=> Opened(e)')
  BY GoesOpened, KeepsFits DEF Goes
<1>4. \A e \in Dirs \ {Root} : Up[e] \in Dirs /\ Up[e] # e
  BY TreeAssumption
<1>5. \A e \in Dirs : stage'[e] \in Inside => Fits(e)'
  BY <1>1, <1>3 DEF OpenInv
<1>6. \A e \in Dirs \ {Root} : stage'[e] # "new" =>
        Opened(Up[e])' /\ stage'[Up[e]] \in {"below"} \cup Back
  <2> SUFFICES ASSUME NEW e \in Dirs \ {Root}, stage'[e] # "new"
               PROVE  Opened(Up[e])' /\ stage'[Up[e]] \in {"below"} \cup Back
    OBVIOUS
  <2>1. stage[e] # "new"
    BY <1>1 DEF Inside
  <2>2. Opened(Up[e]) /\ stage[Up[e]] \in {"below"} \cup Back
    BY <2>1 DEF OpenInv
  <2> QED
    BY <1>1, <1>3, <1>4, <2>2
<1>7. \A e \in Dirs \ {Root} : Opened(Up[e])' /\ stage'[Up[e]] \in Back => stage'[e] \in {"gone", "done"}
  <2> SUFFICES ASSUME NEW e \in Dirs \ {Root}, Opened(Up[e])', stage'[Up[e]] \in Back
               PROVE  stage'[e] \in {"gone", "done"}
    OBVIOUS
  <2>1. stage[e] \in {"gone", "done"}
    BY <1>1, <1>2, <1>3, <1>4 DEF OpenInv
  <2>2. e # d
    BY <1>1, <2>1 DEF Inside
  <2> QED
    BY <1>1, <2>1, <2>2
<1>8. \A e \in Dirs : stage'[e] # "stat" => todo'[e] = {}
  BY <1>1 DEF OpenInv
<1> QED
  BY <1>5, <1>6, <1>7, <1>8 DEF OpenInv

LEMMA CountsOpen ==
  ASSUME Types, OpenInv, NEW d \in Dirs, NEW n \in Names, Counts(d, n)
  PROVE  OpenInv'
<1>1. /\ stage' = stage /\ stage[d] = "stat"
      /\ \A e \in Dirs \ {d} : todo'[e] = todo[e]
  BY DEF Types, Counts
<1>2. \A e \in Dirs : (Fits(e)' <=> Fits(e)) /\ (Opened(e) <=> Opened(e)')
  BY CountsOpened, KeepsFits DEF Counts
<1>3. \A e \in Dirs \ {Root} : Up[e] \in Dirs
  BY TreeAssumption
<1> QED
  BY <1>1, <1>2, <1>3 DEF OpenInv

LEMMA EntersMount ==
  ASSUME Types, MountInv, NEW d \in Dirs, Enters(d)
  PROVE  MountInv'
<1>1. /\ \A e \in Dirs \ {d} : stage'[e] = stage[e]
      /\ stage'[d] = "gone" => Skips(d)
      /\ cut' = cut \/ cut'
      /\ inode' = inode /\ stage[d] = "new"
  BY DEF Types, Enters, Skips, Bars, Opens, Turns, Keeps
<1>2. \A e \in Dirs : Opened(e)' <=> Opened(e) \/ (e = d /\ Opens(d))
  BY EntersOpened
<1>3. ASSUME NEW e \in Dirs, NEW g \in Dirs, Opened(e)', Opened(g)', inode'[e] = inode'[g]
      PROVE  e = g
  <2>1. CASE Opened(e) /\ Opened(g)
    BY <1>1, <1>3, <2>1 DEF MountInv
  <2>2. CASE ~(Opened(e) /\ Opened(g))
    <3>1. Opens(d) /\ (e = d \/ g = d)
      BY <1>2, <1>3, <2>2
    <3>2. \A b \in Dirs \ {d} : Opened(b) => inode[b] # inode[d]
      BY <3>1 DEF Opens
    <3>3. (e = d \/ Opened(e)) /\ (g = d \/ Opened(g)) /\ inode[e] = inode[g]
      BY <1>1, <1>2, <1>3
    <3> QED
      BY <3>1, <3>2, <3>3
  <2> QED
    BY <2>1, <2>2
<1>4. ASSUME NEW e \in Dirs, stage'[e] = "gone", ~cut'
      PROVE  \E g \in Dirs : Opened(g)' /\ inode'[g] = inode'[e]
  <2>1. ~cut
    BY <1>1, <1>4
  <2>2. CASE e = d
    BY <1>1, <1>2, <1>4, <2>2 DEF Skips
  <2>3. CASE e # d
    BY <1>1, <1>2, <1>4, <2>1, <2>3 DEF MountInv
  <2> QED
    BY <2>2, <2>3
<1> QED
  BY <1>3, <1>4 DEF MountInv

LEMMA GoesMount ==
  ASSUME Types, MountInv, NEW d \in Dirs, Goes(d)
  PROVE  MountInv'
<1>1. /\ \A e \in Dirs \ {d} : stage'[e] = stage[e]
      /\ stage'[d] # "gone" /\ cut' = cut /\ inode' = inode
  BY DEF Types, Goes, LeavesStat, Offers, Rises, Ends, Turns, Keeps
<1> QED
  BY <1>1, GoesOpened DEF MountInv

LEMMA CountsMount ==
  ASSUME MountInv, NEW d \in Dirs, NEW n \in Names, Counts(d, n)
  PROVE  MountInv'
<1>1. stage' = stage /\ cut' = cut /\ inode' = inode
  BY DEF Counts, Keeps
<1> QED
  BY <1>1, CountsOpened DEF MountInv

-----------------------------------------------------------------------------
(* Links.                                                                  *)

LinkSet(f) == {Entry(n) : n \in {k \in there : FileOf[k] = f}}

LEMMA LinksCount ==
  ASSUME Types, NEW f \in Files
  PROVE  /\ NLink(f) \in Nat
         /\ \A n \in there : FileOf[n] = f => NLink(f) >= 1
         /\ \A k, n \in there : NLink(f) = 1 /\ FileOf[k] = f /\ FileOf[n] = f => Entry(k) = Entry(n)
<1> DEFINE N == {k \in there : FileOf[k] = f}
<1>1. IsFiniteSet(N)
  BY NamesFinite DEF Types
<1>2. IsFiniteSet(LinkSet(f))
  <2>1. [n \in N |-> Entry(n)] \in Surjection(N, LinkSet(f))
    BY DEF Surjection, LinkSet
  <2> HIDE DEF N
  <2> QED
    BY <1>1, <2>1, FS_Surjection
<1>3. NLink(f) = Cardinality(LinkSet(f))
  BY DEF NLink, LinkSet
<1>4. Cardinality(LinkSet(f)) \in Nat
  BY <1>2, FS_CardinalityType
<1>5. \A n \in there : FileOf[n] = f => Entry(n) \in LinkSet(f)
  BY DEF LinkSet
<1>6. ASSUME NEW n \in there, FileOf[n] = f PROVE NLink(f) >= 1
  <2>1. LinkSet(f) # {}
    BY <1>5, <1>6
  <2>2. Cardinality(LinkSet(f)) # 0
    BY <1>2, <2>1, FS_EmptySet
  <2> QED
    BY <1>3, <1>4, <2>2
<1>7. ASSUME NEW k \in there, NEW n \in there, NLink(f) = 1, FileOf[k] = f, FileOf[n] = f
      PROVE  Entry(k) = Entry(n)
  <2>1. PICK x : LinkSet(f) = {x}
    BY <1>2, <1>3, <1>7, FS_Singleton
  <2> QED
    BY <1>5, <1>7, <2>1
<1> QED
  BY <1>3, <1>4, <1>6, <1>7

LEMMA LinksSame ==
  ASSUME inode' = inode, NEW f, \A n \in there \cup there' : FileOf[n] = f => (n \in there' <=> n \in there)
  PROVE  NLink(f)' = NLink(f)
<1>1. {k \in there' : FileOf[k] = f} = {k \in there : FileOf[k] = f}
  OBVIOUS
<1> QED
  BY <1>1 DEF NLink, Entry

(* One entry has one file, at all its paths.                               *)
LEMMA TwinFile ==
  ASSUME Types, NEW n \in Names, NEW k \in Twins(n)
  PROVE  k \in Names /\ FileOf[k] = FileOf[n] /\ n \in Twins(k)
<1>1. k \in Names /\ inode[DirOf[k]] = inode[DirOf[n]] /\ NameOf[k] = NameOf[n]
  BY DEF Twins, Entry
<1>2. DirOf[k] \in Dirs /\ DirOf[n] \in Dirs /\ inode \in Shapes
  BY <1>1, FileIn DEF Types
<1>3. PICK m \in Names : DirOf[m] = DirOf[k] /\ NameOf[m] = NameOf[n] /\ FileOf[m] = FileOf[n]
  BY <1>1, <1>2, MountAssumption
<1>4. m = k
  BY <1>1, <1>3, TreeAssumption
<1> QED
  BY <1>1, <1>3, <1>4 DEF Twins, Entry

(* In a directory that is open once, two paths of one entry are one.       *)
LEMMA OpenEntry ==
  ASSUME Types, MountInv, NEW k \in Names, NEW n \in Names,
         Opened(DirOf[k]), Opened(DirOf[n]), Entry(k) = Entry(n)
  PROVE  k = n
<1>1. inode[DirOf[k]] = inode[DirOf[n]] /\ NameOf[k] = NameOf[n]
  BY DEF Entry
<1>2. DirOf[k] = DirOf[n]
  BY <1>1, FileIn DEF MountInv
<1> QED
  BY <1>1, <1>2, TreeAssumption

LEMMA NotPath == \A n \in Names : n # NoPath
BY TreeAssumption DEF NoPath

-----------------------------------------------------------------------------
(* A step of a walk keeps what holds of its names.                         *)

LEMMA EntersNames ==
  ASSUME Types, NamesInv, NEW d \in Dirs, Enters(d)
  PROVE  NamesInv'
<1>1. counted' = counted /\ there' = there /\ moved' = moved
  BY DEF Enters
<1>2. \A e \in Dirs : Opened(e)' <=> Opened(e) \/ (e = d /\ Opens(d))
  BY EntersOpened
<1>3. ~Opened(d)
  BY EntersOpened
<1>4. \A e \in Dirs : todo'[e] = todo[e] \/ (e = d /\ todo'[e] = NamesIn(d) \cap there)
  BY DEF Types, Enters, Skips, Bars, Opens
<1>5. ASSUME NEW e \in Dirs, NEW n \in todo'[e]
      PROVE  DirOf[n] = e /\ n \notin counted' /\ (FileOf[n] \notin moved' => n \in there')
  <2>1. CASE todo'[e] = todo[e]
    BY <1>1, <1>5, <2>1 DEF NamesInv
  <2>2. CASE e = d /\ todo'[e] = NamesIn(d) \cap there
    <3>1. DirOf[n] = d /\ n \in there
      BY <1>5, <2>2 DEF NamesIn
    <3> QED
      BY <1>1, <1>3, <2>2, <3>1 DEF NamesInv
  <2> QED
    BY <1>4, <2>1, <2>2
<1>6. ASSUME NEW n \in counted'
      PROVE  Opened(DirOf[n])' /\ (FileOf[n] \notin moved' => n \in there')
  BY <1>1, <1>2, <1>6, FileIn DEF NamesInv, Types
<1> QED
  BY <1>5, <1>6 DEF NamesInv

LEMMA GoesNames ==
  ASSUME Types, NamesInv, NEW d \in Dirs, Goes(d)
  PROVE  NamesInv'
<1>1. counted' = counted /\ there' = there /\ moved' = moved /\ todo' = todo
  BY DEF Goes
<1>2. \A n \in counted : DirOf[n] \in Dirs
  BY FileIn DEF Types
<1>3. \A e \in Dirs : Opened(e)' <=> Opened(e)
  BY GoesOpened
<1>4. \A n \in counted' : Opened(DirOf[n])' /\ (FileOf[n] \notin moved' => n \in there')
  BY <1>1, <1>2, <1>3 DEF NamesInv
<1>5. \A e \in Dirs : \A n \in todo'[e] :
        DirOf[n] = e /\ n \notin counted' /\ (FileOf[n] \notin moved' => n \in there')
  BY <1>1 DEF NamesInv
<1> QED
  BY <1>4, <1>5 DEF NamesInv

(* The directory whose name is taken is open, and the name is its own.     *)
LEMMA TakenName ==
  ASSUME Types, OpenInv, NamesInv, NEW d \in Dirs, NEW n \in Names, Counts(d, n)
  PROVE  /\ DirOf[n] = d /\ n \notin counted /\ Opened(d) /\ n \notin todo'[d]
         /\ FileOf[n] \notin moved => n \in there
         /\ counted \subseteq counted' /\ counted' \subseteq counted \cup {n}
<1>1. stage[d] = "stat" /\ n \in todo[d]
  BY DEF Counts
<1>2. n \notin todo'[d]
  BY DEF Counts, Types
<1>3. Opened(d)
  BY <1>1, KeepsFits DEF OpenInv, Counts, Inside
<1>4. counted \subseteq counted' /\ counted' \subseteq counted \cup {n}
  BY DEF Counts
<1> QED
  BY <1>1, <1>2, <1>3, <1>4 DEF NamesInv

LEMMA CountsNames ==
  ASSUME Types, OpenInv, NamesInv, NEW d \in Dirs, NEW n \in Names, Counts(d, n)
  PROVE  NamesInv'
<1>1. /\ DirOf[n] = d /\ n \notin counted /\ Opened(d) /\ n \notin todo'[d]
      /\ FileOf[n] \notin moved => n \in there
      /\ counted' \subseteq counted \cup {n}
  BY TakenName
<1>2. there' = there /\ moved' = moved /\ \A e \in Dirs : todo'[e] \subseteq todo[e]
  BY DEF Counts, Types
<1>3. \A e \in Dirs : Opened(e)' <=> Opened(e)
  BY CountsOpened
<1>4. ASSUME NEW e \in Dirs, NEW m \in todo'[e]
      PROVE  DirOf[m] = e /\ m \notin counted' /\ (FileOf[m] \notin moved' => m \in there')
  BY <1>1, <1>2, <1>4 DEF NamesInv
<1>5. ASSUME NEW m \in counted'
      PROVE  Opened(DirOf[m])' /\ (FileOf[m] \notin moved' => m \in there')
  <2>1. CASE m = n
    BY <1>1, <1>2, <1>3, <2>1
  <2>2. CASE m \in counted
    BY <1>2, <1>3, <2>2, FileIn DEF NamesInv, Types
  <2> QED
    BY <1>1, <1>5, <2>1, <2>2
<1> QED
  BY <1>4, <1>5 DEF NamesInv

LEMMA EntersLive ==
  ASSUME Types, NamesInv, LiveInv, NEW d \in Dirs, Enters(d)
  PROVE  LiveInv'
<1>1. counted' = counted /\ live' = live /\ \A e \in Dirs \ {d} : stage'[e] = stage[e]
  BY DEF Types, Enters, Skips, Bars, Opens, Turns
<1>2. \A n \in counted : DirOf[n] \in Dirs \ {d}
  BY EntersOpened, FileIn DEF NamesInv, Types
<1>3. Shown' = Shown
  BY <1>1, <1>2 DEF Shown
<1> QED
  BY <1>1, <1>3 DEF LiveInv

LEMMA GoesLive ==
  ASSUME Types, LiveInv, NEW d \in Dirs, Goes(d)
  PROVE  LiveInv'
<1>1. /\ counted' = counted /\ \A e \in Dirs \ {d} : stage'[e] = stage[e]
      /\ stage'[d] # "stat"
      /\ LeavesStat(d) \/ (stage[d] # "stat" /\ live' = live)
  BY DEF Types, Goes, LeavesStat, Offers, Rises, Ends, Turns
<1>2. \A n \in counted : n \in Names /\ DirOf[n] \in Dirs
  BY FileIn DEF Types
<1>3. CASE LeavesStat(d)
  <2> DEFINE T == NamesIn(d) \cap counted
  <2>1. Shown' = Shown \cup T /\ Shown \cap T = {}
    BY <1>1, <1>2, <1>3 DEF Shown, NamesIn, LeavesStat
  <2>2. IsFiniteSet(Shown) /\ IsFiniteSet(T) /\ Cardinality(T) \in Nat /\ Cardinality(Shown) \in Nat
    BY NamesFinite DEF Types, Shown
  <2>3. live' = live + Cardinality(T)
    BY <1>3 DEF LeavesStat
  <2> HIDE DEF T
  <2>4. Cardinality(Shown \cup T) = Cardinality(Shown) + Cardinality(T)
    <3>1. Cardinality(Shown \cap T) = 0
      BY <2>1, FS_EmptySet
    <3>2. Cardinality(Shown \cup T) = Cardinality(Shown) + Cardinality(T) - Cardinality(Shown \cap T)
      BY <2>2, FS_Union
    <3> QED
      BY <2>2, <3>1, <3>2
  <2> QED
    BY <2>1, <2>3, <2>4 DEF LiveInv
<1>4. CASE stage[d] # "stat" /\ live' = live
  <2>1. Shown' = Shown
    BY <1>1, <1>2, <1>4 DEF Shown
  <2> QED
    BY <1>4, <2>1 DEF LiveInv
<1> QED
  BY <1>1, <1>3, <1>4

LEMMA CountsLive ==
  ASSUME Types, OpenInv, NamesInv, LiveInv, NEW d \in Dirs, NEW n \in Names, Counts(d, n)
  PROVE  LiveInv'
<1>1. stage' = stage /\ live' = live /\ stage[d] = "stat"
  BY DEF Counts
<1>2. DirOf[n] = d /\ counted \subseteq counted' /\ counted' \subseteq counted \cup {n}
  BY TakenName
<1>3. Shown' = Shown
  BY <1>1, <1>2 DEF Shown
<1> QED
  BY <1>1, <1>3 DEF LiveInv

LEMMA EntersTaken ==
  ASSUME Types, TakenInv, NEW d \in Dirs, Enters(d)
  PROVE  TakenInv'
<1> SUFFICES ASSUME NEW n \in there', FileOf[n] \notin moved', Opened(DirOf[n])',
                    n \notin todo'[DirOf[n]], ~Decided(FileOf[n])'
             PROVE  \E k \in counted' : FileOf[k] = FileOf[n]
  BY DEF TakenInv
<1>1. /\ counted' = counted /\ there' = there /\ moved' = moved /\ n \in Names /\ DirOf[n] \in Dirs
      /\ ~Decided(FileOf[n])
  BY FileIn DEF Enters, Types, Keeps, Decided
<1>2. CASE DirOf[n] = d /\ Opens(d)
  BY <1>1, <1>2 DEF Opens, NamesIn, Types
<1>3. CASE Opened(DirOf[n])
  <2>1. DirOf[n] # d
    BY <1>3, EntersOpened
  <2>2. todo'[DirOf[n]] = todo[DirOf[n]]
    BY <1>1, <2>1 DEF Enters, Skips, Bars, Opens, Types
  <2> QED
    BY <1>1, <1>3, <2>2 DEF TakenInv
<1> QED
  BY <1>1, <1>2, <1>3, EntersOpened

LEMMA GoesTaken ==
  ASSUME Types, TakenInv, NEW d \in Dirs, Goes(d)
  PROVE  TakenInv'
<1>1. counted' = counted /\ there' = there /\ moved' = moved /\ todo' = todo /\ decided' = decided
  BY DEF Goes, Keeps
<1>2. \A n \in there : DirOf[n] \in Dirs
  BY FileIn DEF Types
<1>3. \A e \in Dirs : Opened(e)' <=> Opened(e)
  BY GoesOpened
<1> QED
  BY <1>1, <1>2, <1>3 DEF TakenInv, Decided

-----------------------------------------------------------------------------
(* A step that takes a name keeps what bars a second count.                *)

CountingInv == OneInv /\ BarInv /\ SeenInv /\ ClaimInv /\ DecidedInv /\ TakenInv /\ MetInv

(* The three ways to count, and when each is taken.                        *)
FirstWay(n, f, c) ==
  /\ c.counts = (NLink(f) = 1 \/ f \notin seen)
  /\ c.seen = IF NLink(f) = 1 THEN seen ELSE seen \cup {f}
  /\ c.claims = claims /\ c.met = met
ClaimWay(n, f, c) ==
  /\ c.counts = (claims[f].path = NoPath)
  /\ c.seen = seen /\ c.met = met
  /\ \/ c.claims = claims /\ claims[f].path # NoPath
     \/ \E b \in BOOLEAN : c.claims = [claims EXCEPT ![f] = [path |-> n, there |-> b]]
AtWay(n, f, c) ==
  /\ c.counts = (decided[f] = n)
  /\ c.seen = seen /\ c.claims = claims
  /\ c.met = met + (IF decided[f] = n THEN 1 ELSE 0)

LEMMA Ways ==
  ASSUME Types, Walking, DecidedInv, NEW n \in Names, NEW r \in BOOLEAN,
         r => Known(FileOf[n]), r \/ n \in there
  PROVE  LET f == FileOf[n]
             c == CountsHere(n, f, r)
         IN \/ /\ FirstWay(n, f, c) /\ n \in there
               /\ top = 0 \/ (NLink(f) = 1 /\ ~r) \/ (phase = "second" /\ ~Decided(f))
            \/ /\ AtWay(n, f, c) /\ top # 0 /\ phase = "second" /\ Decided(f)
            \/ /\ ClaimWay(n, f, c) /\ n \in there
               /\ top # 0 /\ phase = "first" /\ ~Decided(f) /\ NLink(f) > 1
<1> DEFINE f == FileOf[n]
           c == CountsHere(n, f, r)
<1>0. f \in Files
  BY FileIn
<1>1. Known(f) <=> phase = "second" /\ Decided(f)
  BY DEF Known, Decided
<1>2. Decided(f) => top # 0 /\ phase = "second"
  BY <1>0 DEF DecidedInv
<1>3. FirstWay(n, f, CountsFirst(f))
  BY DEF FirstWay, CountsFirst
<1>4. AtWay(n, f, CountsAt(n, f))
  BY DEF AtWay, CountsAt
<1>5. ClaimWay(n, f, Claim(n, f))
  BY <1>0 DEF ClaimWay, Claim, Types
<1>6. NLink(f) \in Nat /\ (n \in there => NLink(f) >= 1)
  BY <1>0, LinksCount
<1>7. CASE top = 0 \/ (~r /\ NLink(f) <= 1)
  <2>1. c = CountsFirst(f)
    BY <1>7 DEF CountsHere
  <2>2. n \in there
    BY <1>1, <1>2, <1>7
  <2>3. top = 0 \/ (NLink(f) = 1 /\ ~r)
    BY <1>6, <1>7, <2>2
  <2> HIDE DEF c, f
  <2> QED
    BY <1>3, <2>1, <2>2, <2>3 DEF c, f
<1>8. CASE ~(top = 0 \/ (~r /\ NLink(f) <= 1)) /\ Known(f)
  <2>1. c = CountsAt(n, f)
    BY <1>8 DEF CountsHere
  <2> HIDE DEF c
  <2> QED
    BY <1>1, <1>4, <1>8, <2>1 DEF c
<1>9. CASE ~(top = 0 \/ (~r /\ NLink(f) <= 1)) /\ ~Known(f) /\ phase = "second"
  <2>1. c = CountsFirst(f)
    BY <1>9 DEF CountsHere
  <2> HIDE DEF c
  <2> QED
    BY <1>1, <1>3, <1>9, <2>1 DEF c
<1>10. CASE ~(top = 0 \/ (~r /\ NLink(f) <= 1)) /\ ~Known(f) /\ phase # "second"
  <2>1. c = Claim(n, f)
    BY <1>10 DEF CountsHere
  <2>2. phase = "first" /\ ~Decided(f) /\ NLink(f) > 1 /\ n \in there
    BY <1>1, <1>2, <1>6, <1>10 DEF Walking
  <2> HIDE DEF c
  <2> QED
    BY <1>5, <1>10, <2>1, <2>2 DEF c
<1> QED
  BY <1>7, <1>8, <1>9, <1>10

(* What the step does, with its way named.                                 *)
Sets(n, c) ==
  /\ seen' = c.seen /\ claims' = c.claims /\ met' = c.met
  /\ counted' = IF c.counts THEN counted \cup {n} ELSE counted
TakesFirst(n) ==
  /\ n \in there /\ \E c : FirstWay(n, FileOf[n], c) /\ Sets(n, c)
  /\ top = 0 \/ NLink(FileOf[n]) = 1 \/ (phase = "second" /\ ~Decided(FileOf[n]))
TakesDecided(n) ==
  /\ \E c : AtWay(n, FileOf[n], c) /\ Sets(n, c)
  /\ top # 0 /\ phase = "second" /\ Decided(FileOf[n])
TakesClaim(n) ==
  /\ n \in there /\ \E c : ClaimWay(n, FileOf[n], c) /\ Sets(n, c)
  /\ top # 0 /\ phase = "first" /\ ~Decided(FileOf[n]) /\ NLink(FileOf[n]) > 1
Misses(n) == n \notin there /\ UNCHANGED <<claims, seen, met, counted>>

LEMMA TakeKinds ==
  ASSUME Types, Walking, DecidedInv, NEW d \in Dirs, NEW n \in Names, Counts(d, n)
  PROVE  Misses(n) \/ TakesFirst(n) \/ TakesDecided(n) \/ TakesClaim(n)
<1>1. CASE n \notin there /\ UNCHANGED <<claims, seen, met, counted>>
  BY <1>1 DEF Misses
<1>2. CASE ~(n \notin there /\ UNCHANGED <<claims, seen, met, counted>>)
  <2>1. PICK r \in BOOLEAN : /\ r => Known(FileOf[n])
                             /\ r \/ n \in there
                             /\ Sets(n, CountsHere(n, FileOf[n], r))
    BY <1>2 DEF Counts, Sets
  <2> DEFINE c == CountsHere(n, FileOf[n], r)
  <2>2. Sets(n, c)
    BY <2>1
  <2>3. \/ /\ FirstWay(n, FileOf[n], c) /\ n \in there
           /\ top = 0 \/ (NLink(FileOf[n]) = 1 /\ ~r) \/ (phase = "second" /\ ~Decided(FileOf[n]))
        \/ /\ AtWay(n, FileOf[n], c) /\ top # 0 /\ phase = "second" /\ Decided(FileOf[n])
        \/ /\ ClaimWay(n, FileOf[n], c) /\ n \in there
           /\ top # 0 /\ phase = "first" /\ ~Decided(FileOf[n]) /\ NLink(FileOf[n]) > 1
    BY <2>1, Ways
  <2> HIDE DEF c
  <2> QED
    BY <2>2, <2>3 DEF TakesFirst, TakesDecided, TakesClaim
<1> QED
  BY <1>1, <1>2

(* A counted file does not count again.                                    *)
LEMMA Fresh ==
  ASSUME Types, OpenInv, MountInv, NamesInv, CountingInv, Walking,
         NEW d \in Dirs, NEW n \in Names, Counts(d, n), n \in counted',
         NEW k \in counted, FileOf[k] = FileOf[n], FileOf[n] \notin moved
  PROVE  FALSE
<1> DEFINE f == FileOf[n]
<1>0. f \in Files /\ k \in Names
  BY FileIn DEF Types
<1>1. n \notin counted /\ n \in there /\ Opened(DirOf[n])
  BY TakenName
<1>2. k \in there /\ Opened(DirOf[k]) /\ k # n
  BY <1>1 DEF NamesInv
<1>3. NLink(f) # 1
  BY <1>0, <1>1, <1>2, LinksCount, OpenEntry
<1>4. f \in seen \/ Claimed(f) \/ decided[f] = k
  BY <1>3 DEF CountingInv, BarInv
<1>5. f \in seen => top = 0 \/ (phase = "second" /\ ~Decided(f))
  BY DEF CountingInv, SeenInv
<1>6. Claimed(f) => top # 0 /\ phase = "first"
  BY <1>0 DEF CountingInv, ClaimInv
<1>7. Decided(f) => top # 0 /\ phase = "second"
  BY <1>0 DEF CountingInv, DecidedInv
<1>8. decided[f] = k => Decided(f)
  BY <1>0, NotPath DEF Decided
<1> HIDE DEF f
<1>9. CASE TakesFirst(n)
  <2>1. f \notin seen
    BY <1>1, <1>3, <1>9 DEF TakesFirst, FirstWay, Sets, f
  <2> QED
    BY <1>3, <1>4, <1>6, <1>7, <1>8, <1>9, <2>1 DEF TakesFirst, f
<1>10. CASE TakesDecided(n)
  <2>1. decided[f] = n
    BY <1>1, <1>10 DEF TakesDecided, AtWay, Sets, f
  <2> QED
    BY <1>2, <1>4, <1>5, <1>6, <1>10, <2>1 DEF TakesDecided, f
<1>11. CASE TakesClaim(n)
  <2>1. ~Claimed(f)
    BY <1>1, <1>11 DEF TakesClaim, ClaimWay, Sets, Claimed, f
  <2> QED
    BY <1>4, <1>5, <1>8, <1>11, <2>1 DEF TakesClaim, f
<1>12. CASE Misses(n)
  BY <1>1, <1>12 DEF Misses
<1> QED
  BY <1>9, <1>10, <1>11, <1>12, TakeKinds DEF CountingInv

(* What a step may add, and that it takes nothing away.                    *)
LEMMA TakeGrows ==
  ASSUME Types, OpenInv, NamesInv, CountingInv, Walking,
         NEW d \in Dirs, NEW n \in Names, Counts(d, n)
  PROVE  /\ counted \subseteq counted' /\ seen \subseteq seen'
         /\ \A f \in Files : Claimed(f) => Claimed(f)'
         /\ \A f \in seen' \ seen : f = FileOf[n] /\ TakesFirst(n) /\ NLink(f) # 1
         /\ \A f \in Files : claims'[f] = claims[f] \/ (f = FileOf[n] /\ claims'[f].path = n /\ TakesClaim(n))
         /\ n \in there /\ ~Decided(FileOf[n]) => \E k \in counted' : FileOf[k] = FileOf[n]
<1>0. FileOf[n] \in Files
  BY FileIn
<1>1. CASE Misses(n)
  BY <1>1 DEF Misses, Claimed
<1>2. CASE TakesFirst(n)
  <2>1. PICK c : FirstWay(n, FileOf[n], c) /\ Sets(n, c)
    BY <1>2 DEF TakesFirst
  <2>2. /\ claims' = claims
        /\ seen' = IF NLink(FileOf[n]) = 1 THEN seen ELSE seen \cup {FileOf[n]}
        /\ counted' = counted \cup {n} \/ (counted' = counted /\ FileOf[n] \in seen)
    BY <2>1 DEF FirstWay, Sets
  <2>3. \A f \in seen : \E k \in counted : FileOf[k] = f
    BY DEF CountingInv, SeenInv
  <2>4. \E k \in counted' : FileOf[k] = FileOf[n]
    BY <2>2, <2>3
  <2>5. counted \subseteq counted' /\ seen \subseteq seen' /\ \A f \in Files : Claimed(f) => Claimed(f)'
    BY <2>2 DEF Claimed
  <2> QED
    BY <1>2, <2>2, <2>4, <2>5
<1>3. CASE TakesDecided(n)
  BY <1>3 DEF TakesDecided, AtWay, Sets, Claimed
<1>4. CASE TakesClaim(n)
  <2>1. PICK c : ClaimWay(n, FileOf[n], c) /\ Sets(n, c)
    BY <1>4 DEF TakesClaim
  <2>2. /\ seen' = seen
        /\ counted' = counted \cup {n} \/ (counted' = counted /\ Claimed(FileOf[n]))
        /\ \/ claims' = claims
           \/ \E b \in BOOLEAN : claims' = [claims EXCEPT ![FileOf[n]] = [path |-> n, there |-> b]]
    BY <2>1 DEF ClaimWay, Sets, Claimed
  <2>3. \A f \in Files : Claimed(f) => \E k \in counted : FileOf[k] = f
    BY DEF CountingInv, ClaimInv
  <2>4. \E k \in counted' : FileOf[k] = FileOf[n]
    BY <1>0, <2>2, <2>3
  <2>5. \A f \in Files : claims'[f] = claims[f] \/ (f = FileOf[n] /\ claims'[f].path = n)
    <3>1. CASE claims' = claims
      BY <3>1
    <3>2. ASSUME NEW b \in BOOLEAN, claims' = [claims EXCEPT ![FileOf[n]] = [path |-> n, there |-> b]]
          PROVE  \A f \in Files : claims'[f] = claims[f] \/ (f = FileOf[n] /\ claims'[f].path = n)
      <4>1. claims \in [Files -> [path : Names \cup {NoPath}, there : BOOLEAN]]
        BY DEF Types
      <4>2. \A f \in Files : claims'[f] = IF f = FileOf[n] THEN [path |-> n, there |-> b] ELSE claims[f]
        BY <3>2, <4>1
      <4> QED
        BY <4>2
    <3> QED
      BY <2>2, <3>1, <3>2
  <2>6. \A f \in Files : Claimed(f) => Claimed(f)'
    BY <2>5, NotPath DEF Claimed
  <2> QED
    BY <1>4, <2>2, <2>4, <2>5, <2>6
<1> QED
  BY <1>1, <1>2, <1>3, <1>4, TakeKinds DEF CountingInv

LEMMA SameLinks ==
  ASSUME UNCHANGED <<inode, there>>
  PROVE  \A f : NLink(f)' = NLink(f)
BY DEF NLink, Entry

LEMMA CountsCounting ==
  ASSUME Types, OpenInv, MountInv, NamesInv, CountingInv, Walking,
         NEW d \in Dirs, NEW n \in Names, Counts(d, n)
  PROVE  CountingInv'
<1>0. /\ there' = there /\ moved' = moved /\ top' = top /\ phase' = phase /\ decided' = decided
      /\ \A f : NLink(f)' = NLink(f)
      /\ \A f : Decided(f)' <=> Decided(f)
      /\ FileOf[n] \in Files
  BY SameLinks, FileIn DEF Counts, Keeps, Decided
<1>1. /\ DirOf[n] = d /\ n \notin counted /\ Opened(d) /\ n \notin todo'[d]
      /\ FileOf[n] \notin moved => n \in there
      /\ counted \subseteq counted' /\ counted' \subseteq counted \cup {n}
  BY TakenName
<1>2. /\ seen \subseteq seen'
      /\ \A f \in Files : Claimed(f) => Claimed(f)'
      /\ \A f \in seen' \ seen : f = FileOf[n] /\ TakesFirst(n) /\ NLink(f) # 1
      /\ \A f \in Files : claims'[f] = claims[f] \/ (f = FileOf[n] /\ claims'[f].path = n /\ TakesClaim(n))
      /\ n \in there /\ ~Decided(FileOf[n]) => \E k \in counted' : FileOf[k] = FileOf[n]
  BY TakeGrows
<1>3. counted' \in SUBSET Names /\ counted \in SUBSET Names
  BY CountsTypes DEF Types
<1>4. OneInv'
  <2>1. \A k \in counted : n \in counted' /\ FileOf[k] = FileOf[n] => FileOf[n] \in moved
    BY Fresh
  <2> QED
    BY <1>0, <1>1, <2>1 DEF CountingInv, OneInv
<1>5. BarInv'
  <2> SUFFICES ASSUME NEW k \in counted', FileOf[k] \notin moved', NLink(FileOf[k])' # 1
               PROVE  FileOf[k] \in seen' \/ Claimed(FileOf[k])' \/ decided'[FileOf[k]] = k
    BY DEF BarInv
  <2>0. FileOf[k] \in Files
    BY <1>3, FileIn
  <2>1. CASE k \in counted
    BY <1>0, <1>2, <2>0, <2>1 DEF CountingInv, BarInv
  <2>2. CASE k \notin counted
    <3>1. k = n
      BY <1>1, <2>2
    <3>2. CASE Misses(n)
      BY <2>2, <3>2 DEF Misses
    <3>3. CASE TakesFirst(n)
      BY <1>0, <3>1, <3>3 DEF TakesFirst, FirstWay, Sets
    <3>4. CASE TakesDecided(n)
      BY <1>0, <1>1, <2>2, <3>1, <3>4 DEF TakesDecided, AtWay, Sets
    <3>5. CASE TakesClaim(n)
      <4>1. PICK c : ClaimWay(n, FileOf[n], c) /\ Sets(n, c)
        BY <3>5 DEF TakesClaim
      <4>2. claims[FileOf[n]].path = NoPath
        BY <2>2, <3>1, <4>1 DEF ClaimWay, Sets
      <4>3. PICK b \in BOOLEAN : claims' = [claims EXCEPT ![FileOf[n]] = [path |-> n, there |-> b]]
        BY <4>1, <4>2 DEF ClaimWay, Sets
      <4>4. claims'[FileOf[n]].path = n
        BY <1>0, <4>3 DEF Types
      <4> QED
        BY <3>1, <4>4, NotPath DEF Claimed
    <3> QED
      BY <3>2, <3>3, <3>4, <3>5, TakeKinds DEF CountingInv
  <2> QED
    BY <2>1, <2>2
<1>6. SeenInv'
  <2> SUFFICES ASSUME NEW f \in seen'
               PROVE  /\ \E k \in counted' : FileOf[k] = f
                      /\ f \notin moved => top = 0 \/ (phase = "second" /\ ~Decided(f))
    BY <1>0 DEF SeenInv
  <2>1. CASE f \in seen
    BY <1>1, <2>1 DEF CountingInv, SeenInv
  <2>2. CASE f \notin seen
    <3>1. f = FileOf[n] /\ TakesFirst(n) /\ NLink(f) # 1
      BY <1>2, <2>2
    <3>2. PICK c : FirstWay(n, FileOf[n], c) /\ Sets(n, c)
      BY <3>1 DEF TakesFirst
    <3>3. n \in counted'
      BY <2>2, <3>1, <3>2 DEF FirstWay, Sets
    <3> QED
      BY <3>1, <3>3 DEF TakesFirst
  <2> QED
    BY <2>1, <2>2
<1>7. ClaimInv'
  <2> SUFFICES ASSUME NEW f \in Files, Claimed(f)'
               PROVE  /\ top # 0 /\ phase = "first" /\ FileOf[claims'[f].path] = f
                      /\ \E k \in counted' : FileOf[k] = f
                      /\ f \notin moved => NLink(f) > 1
    BY <1>0 DEF ClaimInv
  <2>1. CASE claims'[f] = claims[f]
    <3>1. Claimed(f)
      BY <2>1 DEF Claimed
    <3> QED
      BY <1>1, <2>1, <3>1 DEF CountingInv, ClaimInv
  <2>2. CASE f = FileOf[n] /\ claims'[f].path = n /\ TakesClaim(n)
    BY <1>2, <2>2 DEF TakesClaim
  <2> QED
    BY <1>2, <2>1, <2>2
<1>8. DecidedInv'
  BY <1>0 DEF CountingInv, DecidedInv
<1>9. TakenInv'
  <2> SUFFICES ASSUME NEW m \in there, FileOf[m] \notin moved, Opened(DirOf[m])',
                      m \notin todo'[DirOf[m]], ~Decided(FileOf[m])
               PROVE  \E k \in counted' : FileOf[k] = FileOf[m]
    BY <1>0 DEF TakenInv
  <2>1. Opened(DirOf[m])
    BY CountsOpened, FileIn DEF Types
  <2>2. CASE m \notin todo[DirOf[m]]
    BY <1>1, <2>1, <2>2 DEF CountingInv, TakenInv
  <2>3. CASE m \in todo[DirOf[m]]
    <3>1. m = n
      BY <2>3, FileIn DEF Counts, Types
    <3> QED
      BY <1>2, <3>1
  <2> QED
    BY <2>2, <2>3
<1>10. MetInv'
  <2> DEFINE D == {f \in Files : Decided(f) /\ decided[f] \in counted}
             E == {f \in Files : Decided(f) /\ decided[f] \in counted'}
  <2>0. /\ E = {f \in Files : Decided(f)' /\ decided'[f] \in counted'}
        /\ D \in SUBSET E /\ E \in SUBSET Files
    BY <1>0, <1>1
  <2>1. /\ IsFiniteSet(D) /\ IsFiniteSet(E) /\ Cardinality(D) \in Nat /\ Cardinality(E) \in Nat
        /\ Cardinality(D) <= Cardinality(E)
    BY <2>0, NamesFinite, FS_Subset
  <2>2. met <= Cardinality(D) /\ met \in Nat
    BY DEF CountingInv, MetInv, Types
  <2>3. CASE met' = met
    <3> HIDE DEF D, E
    <3>1. met' <= Cardinality(E)
      BY <2>1, <2>2, <2>3
    <3> QED
      BY <2>0, <3>1 DEF MetInv
  <2>4. CASE met' # met
    <3>1. TakesDecided(n)
      <4>1. Misses(n) => met' = met
        BY DEF Misses
      <4>2. TakesFirst(n) => met' = met
        BY DEF TakesFirst, FirstWay, Sets
      <4>3. TakesClaim(n) => met' = met
        BY DEF TakesClaim, ClaimWay, Sets
      <4> QED
        BY <2>4, <4>1, <4>2, <4>3, TakeKinds DEF CountingInv
    <3>2. PICK c : AtWay(n, FileOf[n], c) /\ Sets(n, c)
      BY <3>1 DEF TakesDecided
    <3>3. decided[FileOf[n]] = n /\ met' = met + 1 /\ n \in counted'
      <4>1. /\ met' = met + (IF decided[FileOf[n]] = n THEN 1 ELSE 0)
            /\ decided[FileOf[n]] = n => n \in counted'
        BY <3>2 DEF AtWay, Sets
      <4>2. decided[FileOf[n]] = n
        BY <2>2, <2>4, <4>1
      <4> QED
        BY <4>1, <4>2
    <3>4. FileOf[n] \in E /\ FileOf[n] \notin D
      BY <1>0, <1>1, <3>1, <3>3 DEF TakesDecided
    <3> HIDE DEF D, E
    <3>5. Cardinality(D) # Cardinality(E)
      BY <2>0, <2>1, <3>4, FS_Subset
    <3>6. met' <= Cardinality(E)
      BY <2>1, <2>2, <3>3, <3>5
    <3> QED
      BY <2>0, <3>6 DEF MetInv
  <2> QED
    BY <2>3, <2>4
<1> QED
  BY <1>4, <1>5, <1>6, <1>7, <1>8, <1>9, <1>10 DEF CountingInv

(* The other steps of a walk count nothing.                                *)
LEMMA StillCounting ==
  ASSUME Types, CountingInv, Keeps, UNCHANGED <<there, moved, claims, seen, met, counted>>, TakenInv'
  PROVE  CountingInv'
<1>1. /\ there' = there /\ moved' = moved /\ top' = top /\ phase' = phase /\ decided' = decided
      /\ claims' = claims /\ seen' = seen /\ met' = met /\ counted' = counted
      /\ \A f : NLink(f)' = NLink(f)
      /\ \A f : (Decided(f)' <=> Decided(f)) /\ (Claimed(f)' <=> Claimed(f))
  BY SameLinks DEF Keeps, Decided, Claimed
<1>2. OneInv' /\ MetInv'
  BY <1>1 DEF CountingInv, OneInv, MetInv
<1>3. BarInv' /\ SeenInv'
  BY <1>1 DEF CountingInv, BarInv, SeenInv
<1>4. ClaimInv' /\ DecidedInv'
  BY <1>1 DEF CountingInv, ClaimInv, DecidedInv
<1> QED
  BY <1>2, <1>3, <1>4 DEF CountingInv

LEMMA WalkParts ==
  WalkInv <=> OpenInv /\ MountInv /\ NamesInv /\ LiveInv /\ CountingInv
BY DEF WalkInv, CountingInv

(* Every step of a walk keeps its invariant.                               *)
LEMMA StepWalk ==
  ASSUME Types, Walking, WalkInv, NEW d \in Dirs, Step(d)
  PROVE  Types' /\ WalkInv' /\ Keeps /\ UNCHANGED <<there, moved>>
<1>0. OpenInv /\ MountInv /\ NamesInv /\ LiveInv /\ CountingInv
  BY WalkParts
<1>1. CASE Enters(d)
  <2>1. CountingInv'
    BY <1>0, <1>1, EntersTaken, StillCounting DEF Enters, CountingInv
  <2>2. Types' /\ OpenInv' /\ MountInv' /\ NamesInv' /\ LiveInv'
    BY <1>0, <1>1, EntersTypes, EntersOpen, EntersMount, EntersNames, EntersLive
  <2> QED
    BY <1>1, <2>1, <2>2 DEF WalkInv, CountingInv, Enters
<1>2. CASE Goes(d)
  <2>1. CountingInv'
    BY <1>0, <1>2, GoesTaken, StillCounting DEF Goes, CountingInv
  <2>2. Types' /\ OpenInv' /\ MountInv' /\ NamesInv' /\ LiveInv'
    BY <1>0, <1>2, GoesTypes, GoesOpen, GoesMount, GoesNames, GoesLive
  <2> QED
    BY <1>2, <2>1, <2>2 DEF WalkInv, CountingInv, Goes
<1>3. ASSUME NEW n \in Names, Counts(d, n)
      PROVE  Types' /\ WalkInv' /\ Keeps /\ UNCHANGED <<there, moved>>
  <2>1. CountingInv'
    BY <1>0, <1>3, CountsCounting
  <2>2. Types' /\ OpenInv' /\ MountInv' /\ NamesInv' /\ LiveInv'
    BY <1>0, <1>3, CountsTypes, CountsOpen, CountsMount, CountsNames, CountsLive
  <2> QED
    BY <1>3, <2>1, <2>2 DEF WalkInv, CountingInv, Counts
<1> QED
  BY <1>1, <1>2, <1>3, StepKinds

-----------------------------------------------------------------------------
(* The end of a walk.                                                      *)

(* When the PATH itself is done, so is every directory that was entered.   *)
LEMMA AllBack ==
  ASSUME Types, OpenInv, stage[Root] = "done"
  PROVE  \A d \in Dirs : stage[d] \in {"new", "gone", "done"}
<1> DEFINE S == {d \in Dirs : stage[d] \notin {"new", "gone", "done"}}
<1> SUFFICES ASSUME S # {} PROVE FALSE
  OBVIOUS
<1>1. S \in SUBSET Nat
  BY TreeAssumption
<1>2. PICK d \in S : \A e \in S : d <= e
  BY <1>1, Least
<1>3. d \in Dirs \ {Root} /\ Up[d] \in Dirs /\ Up[d] < d /\ d \in Nat /\ Up[d] \in Nat
  BY <1>1, <1>2, TreeAssumption
<1>4. Up[d] \notin S
  BY <1>2, <1>3
<1>5. Opened(Up[d]) /\ stage[Up[d]] \in {"below"} \cup Back
  BY <1>2, <1>3 DEF OpenInv
<1>6. stage[Up[d]] = "done"
  BY <1>3, <1>4, <1>5 DEF Back
<1> QED
  BY <1>2, <1>3, <1>5, <1>6 DEF OpenInv, Back

(* A subdirectory is there at every mount of its parent.                   *)
LEMMA MountChild ==
  ASSUME Types, NEW d \in Dirs \ {Root}, NEW e \in Dirs, inode[e] = inode[Up[d]]
  PROVE  \E b \in Dirs \ {Root} : Up[b] = e /\ inode[b] = inode[d]
<1>1. Up[d] \in Dirs
  BY TreeAssumption
<1>2. inode \in Shapes
  BY DEF Types
<1>3. \A x, y \in Dirs : inode[x] = inode[y] =>
        \A c \in Dirs \ {Root} : Up[c] = x => \E b \in Dirs \ {Root} : Up[b] = y /\ inode[b] = inode[c]
  BY <1>2, MountAssumption
<1> QED
  BY <1>1, <1>3

(* Every directory that the walk may come to wherever it is mounted was    *)
(* opened at one of its mounts.                                            *)
WithinDir(d) == \A e \in Dirs : inode[e] = inode[d] => Reached(e)
OpenedTwin(d) == \E e \in Dirs : inode[e] = inode[d] /\ Opened(e)

LEMMA AllOpened ==
  ASSUME Types, OpenInv, MountInv, stage[Root] = "done", ~cut, NEW c \in Dirs, WithinDir(c)
  PROVE  OpenedTwin(c)
<1> DEFINE S == {d \in Dirs : WithinDir(d) /\ ~OpenedTwin(d)}
<1> SUFFICES ASSUME S # {} PROVE FALSE
  OBVIOUS
<1>1. S \in SUBSET Nat
  BY TreeAssumption
<1>2. PICK d \in S : \A e \in S : d <= e
  BY <1>1, Least
<1>3. d \in Dirs /\ WithinDir(d) /\ ~OpenedTwin(d)
  BY <1>2
<1>4. d # Root
  <2>1. CASE d = Root
    <3>1. Reached(Root)
      BY <1>3, <2>1 DEF WithinDir
    <3>2. Opened(Root)
      BY <1>3, <2>1, <3>1, ReachFits DEF Opened
    <3> QED
      BY <1>3, <2>1, <3>2 DEF OpenedTwin
  <2> QED
    BY <2>1
<1>5. Up[d] \in Dirs /\ Up[d] < d /\ d \in Nat /\ Up[d] \in Nat /\ inode \in Shapes
  BY <1>1, <1>2, <1>4, TreeAssumption DEF Types
<1>6. WithinDir(Up[d])
  <2> SUFFICES ASSUME NEW e \in Dirs, inode[e] = inode[Up[d]] PROVE Reached(e)
    BY DEF WithinDir
  <2>1. PICK b \in Dirs \ {Root} : Up[b] = e /\ inode[b] = inode[d]
    BY <1>3, <1>4, MountChild
  <2> QED
    BY <1>3, <2>1, ReachUp DEF WithinDir
<1>7. OpenedTwin(Up[d])
  BY <1>2, <1>5, <1>6
<1>8. PICK e \in Dirs : inode[e] = inode[Up[d]] /\ Opened(e)
  BY <1>7 DEF OpenedTwin
<1>9. stage[e] = "done"
  BY <1>8, AllBack DEF Opened
<1>10. PICK b \in Dirs \ {Root} : Up[b] = e /\ inode[b] = inode[d]
  BY <1>3, <1>4, <1>8, MountChild
<1>11. stage[b] \in {"gone", "done"}
  BY <1>8, <1>9, <1>10 DEF OpenInv, Back
<1>12. CASE stage[b] = "gone"
  BY <1>3, <1>10, <1>12 DEF MountInv, OpenedTwin
<1>13. CASE stage[b] = "done"
  <2>1. Opened(b)
    BY <1>3, <1>10, <1>13, ReachFits DEF WithinDir, Opened
  <2> QED
    BY <1>3, <1>10, <2>1 DEF OpenedTwin
<1> QED
  BY <1>11, <1>12, <1>13

(* So a file that was not held to a path is counted.                       *)
LEMMA AllTaken ==
  ASSUME Types, TwinsInv, WalkInv, stage[Root] = "done", ~cut,
         NEW n \in there, WithinReach(n), FileOf[n] \notin moved, ~Decided(FileOf[n])
  PROVE  \E k \in counted : FileOf[k] = FileOf[n]
<1>0. n \in Names /\ DirOf[n] \in Dirs /\ inode \in Shapes
  BY FileIn DEF Types
<1>1. PICK e \in Dirs : inode[e] = inode[DirOf[n]] /\ Opened(e)
  BY <1>0, AllOpened DEF WalkInv, WithinReach, WithinDir, OpenedTwin
<1>2. PICK k \in Names : DirOf[k] = e /\ NameOf[k] = NameOf[n] /\ FileOf[k] = FileOf[n]
  BY <1>0, <1>1, MountAssumption
<1>3. k \in Twins(n)
  BY <1>1, <1>2 DEF Twins, Entry
<1>4. k \in there
  BY <1>3 DEF TwinsInv
<1>5. stage[e] # "stat"
  BY AllBack DEF WalkInv
<1>6. todo[e] = {}
  BY <1>5 DEF WalkInv, OpenInv
<1> QED
  BY <1>1, <1>2, <1>4, <1>6 DEF WalkInv, TakenInv

(* A walk that ends owes nothing, unless it missed a decided path.         *)
LEMMA WalkOnce ==
  ASSUME Types, TwinsInv, WalkInv, stage[Root] = "done",
         \A f \in Files : Decided(f) => decided[f] \in counted
  PROVE  Once(counted, cut)
<1> SUFFICES ASSUME NEW f \in Files \ moved
             PROVE  /\ \A k, n \in counted : FileOf[k] = f /\ FileOf[n] = f => k = n
                    /\ ~cut /\ (\E n \in there : FileOf[n] = f /\ WithinReach(n))
                         => \E n \in counted : FileOf[n] = f
  BY DEF Once
<1>1. \A k, n \in counted : FileOf[k] = f /\ FileOf[n] = f => k = n
  BY DEF WalkInv, OneInv
<1>2. ASSUME ~cut, NEW n \in there, FileOf[n] = f, WithinReach(n)
      PROVE  \E k \in counted : FileOf[k] = f
  <2>1. CASE Decided(f)
    BY <2>1 DEF WalkInv, DecidedInv
  <2>2. CASE ~Decided(f)
    BY <1>2, <2>2, AllTaken
  <2> QED
    BY <2>1, <2>2
<1> QED
  BY <1>1, <1>2

(* The live counter has counted no more than there is.                     *)
LEMMA WalkFew ==
  ASSUME Types, WalkInv
  PROVE  FewShown
<1> SUFFICES ASSUME moved = {} PROVE live <= Cardinality(Files)
  BY DEF FewShown
<1> DEFINE g == [n \in Shown |-> FileOf[n]]
<1>1. Shown \in SUBSET counted /\ counted \in SUBSET Names
  BY DEF Shown, Types
<1>2. g \in Injection(Shown, Files)
  <2>1. \A n \in Shown : FileOf[n] \in Files
    BY <1>1, FileIn
  <2>2. \A k, n \in Shown : FileOf[k] = FileOf[n] => k = n
    BY <1>1 DEF WalkInv, OneInv
  <2> QED
    BY <2>1, <2>2 DEF Injection, IsInjective
<1> HIDE DEF g
<1>3. Cardinality(Shown) <= Cardinality(Files)
  BY <1>2, NamesFinite, FS_Injection
<1> QED
  BY <1>3 DEF WalkInv, LiveInv

(* Every decided path was counted when as many were met as there are.      *)
LEMMA MetAll ==
  ASSUME Types, MetInv, AllMet
  PROVE  \A f \in Files : Decided(f) => decided[f] \in counted
<1> DEFINE D == {f \in Files : Decided(f) /\ decided[f] \in counted}
           E == {f \in Files : decided[f] # NoPath}
<1>1. D \in SUBSET E /\ E \in SUBSET Files
  BY DEF Decided
<1>2. IsFiniteSet(E) /\ Cardinality(E) \in Nat /\ Cardinality(D) \in Nat
  BY <1>1, NamesFinite
<1>3. Cardinality(E) <= Cardinality(D)
  BY DEF MetInv, AllMet
<1>4. D = E
  <2> HIDE DEF D, E
  <2>1. Cardinality(D) <= Cardinality(E) /\ (Cardinality(E) = Cardinality(D) => E = D)
    BY <1>1, <1>2, FS_Subset
  <2> QED
    BY <1>2, <1>3, <2>1
<1> QED
  BY <1>4 DEF Decided

-----------------------------------------------------------------------------
(* Steps that are not a thread's.                                          *)

FreshVars ==
  /\ stage = FreshWalk.stage /\ todo = FreshWalk.todo /\ claims = FreshWalk.claims
  /\ seen = FreshWalk.seen /\ met = FreshWalk.met /\ counted = FreshWalk.counted
  /\ cut = FreshWalk.cut /\ live = 0

(* A walk that begins has nothing counted.                                 *)
LEMMA FreshKeeps ==
  ASSUME Types, FreshVars, DecidedInv
  PROVE  WalkInv
<1>1. /\ stage = [d \in Dirs |-> "new"] /\ todo = [d \in Dirs |-> {}]
      /\ claims = [f \in Files |-> NoClaim] /\ seen = {} /\ met = 0 /\ counted = {}
      /\ cut = FALSE /\ live = 0
  BY DEF FreshVars, FreshWalk
<1>2. \A d \in Dirs : ~Opened(d)
  BY <1>1 DEF Opened
<1>3. OpenInv /\ MountInv
  <2>1. \A d \in Dirs \ {Root} : Up[d] \in Dirs
    BY TreeAssumption
  <2> QED
    BY <1>1, <1>2, <2>1 DEF OpenInv, MountInv, Inside
<1>4. NamesInv /\ OneInv /\ BarInv /\ SeenInv
  BY <1>1 DEF NamesInv, OneInv, BarInv, SeenInv
<1>5. LiveInv
  BY <1>1, FS_EmptySet DEF LiveInv, Shown
<1>6. ClaimInv
  BY <1>1 DEF ClaimInv, Claimed, NoClaim
<1>7. MetInv
  <2>1. {f \in Files : Decided(f) /\ decided[f] \in counted} = {}
    BY <1>1
  <2> QED
    BY <1>1, <2>1, FS_EmptySet DEF MetInv
<1>8. TakenInv
  BY <1>2, FileIn DEF TakenInv, Types
<1> QED
  BY <1>3, <1>4, <1>5, <1>6, <1>7, <1>8 DEF WalkInv

(* Someone changes the names of one file.                                  *)
Changes(g) ==
  /\ Walking /\ UNCHANGED <<input, stop, phase, walkVars, decided, live, first>>
  /\ moved' = moved \cup {g} /\ there' \subseteq Names
  /\ \A n \in Names : FileOf[n] # g => (n \in there' <=> n \in there)

LEMMA ChangeKinds ==
  ASSUME Types, TwinsInv, NEW n \in Names, Unlink(n) \/ Link(n)
  PROVE  Changes(FileOf[n]) /\ TwinsInv'
<1>1. \A k \in Twins(n) : k \in Names /\ FileOf[k] = FileOf[n]
  BY TwinFile
<1>2. inode' = inode /\ \A k : Twins(k)' = Twins(k)
  BY DEF Unlink, Link, input, Twins, Entry
<1>3. Twins(n) \in SUBSET Names
  BY <1>1
<1>4. there' = there \ Twins(n) \/ there' = there \cup Twins(n)
  BY DEF Unlink, Link
<1>5. Changes(FileOf[n])
  BY <1>1, <1>3, <1>4 DEF Changes, Unlink, Link, Types
<1>6. \A k \in Names : \A m \in Twins(k) : m \in Names /\ (k \in Twins(n) <=> m \in Twins(n))
  BY DEF Twins
<1>7. TwinsInv'
  <2> SUFFICES ASSUME NEW k \in there', NEW m \in Twins(k) PROVE m \in there'
    BY <1>2 DEF TwinsInv
  <2>1. k \in Names
    BY <1>3, <1>4 DEF Types
  <2>2. m \in Names /\ (k \in Twins(n) <=> m \in Twins(n))
    BY <1>6, <2>1
  <2>3. k \in there => m \in there
    BY DEF TwinsInv
  <2> QED
    BY <1>4, <2>2, <2>3
<1> QED
  BY <1>5, <1>7

LEMMA ChangesWalk ==
  ASSUME Types, WalkInv, NEW g \in Files, Changes(g)
  PROVE  Types' /\ WalkInv'
<1>1. UNCHANGED <<top, depthLimit, inode, sealed, phase, stage, todo, claims, decided, seen, met,
                  counted, cut, live, first>>
  BY DEF Changes, input, walkVars
<1>2. /\ moved \subseteq moved' /\ there' \subseteq Names
      /\ \A n \in Names : FileOf[n] \notin moved' => (n \in there' <=> n \in there)
  BY DEF Changes
<1>3. Types'
  BY <1>1, <1>2 DEF Types, Changes
<1>4. \A f \in Files : f \notin moved' => NLink(f)' = NLink(f)
  <2> SUFFICES ASSUME NEW f \in Files, f \notin moved' PROVE NLink(f)' = NLink(f)
    OBVIOUS
  <2>1. \A n \in there \cup there' : FileOf[n] = f => (n \in there' <=> n \in there)
    BY <1>2 DEF Types
  <2> QED
    BY <1>1, <2>1, LinksSame
<1>5. /\ \A d : Fits(d)' <=> Fits(d)
      /\ \A d : Opened(d)' <=> Opened(d)
      /\ \A f : (Decided(f)' <=> Decided(f)) /\ (Claimed(f)' <=> Claimed(f))
  BY <1>1 DEF Fits, Opened, Depth, Decided, Claimed
<1>6. OpenInv' /\ MountInv' /\ LiveInv' /\ MetInv'
  <2>1. Shown' = Shown
    BY <1>1 DEF Shown
  <2> QED
    BY <1>1, <1>5, <2>1 DEF WalkInv, OpenInv, MountInv, LiveInv, MetInv
<1>7. NamesInv'
  <2>1. \A d \in Dirs : \A n \in todo[d] : n \in Names
    BY DEF Types
  <2>2. \A n \in counted : n \in Names
    BY DEF Types
  <2> QED
    BY <1>1, <1>2, <1>5, <2>1, <2>2 DEF WalkInv, NamesInv
<1>8. OneInv' /\ BarInv'
  <2>1. \A n \in counted : n \in Names /\ FileOf[n] \in Files
    BY FileIn DEF Types
  <2> QED
    BY <1>1, <1>2, <1>4, <1>5, <2>1 DEF WalkInv, OneInv, BarInv
<1>9. SeenInv' /\ ClaimInv' /\ DecidedInv'
  BY <1>1, <1>2, <1>4, <1>5 DEF WalkInv, SeenInv, ClaimInv, DecidedInv
<1>10. TakenInv'
  BY <1>1, <1>2, <1>5 DEF WalkInv, TakenInv
<1> QED
  BY <1>3, <1>6, <1>7, <1>8, <1>9, <1>10 DEF WalkInv

(* What a report owes is no more after a change.                           *)
LEMMA ChangesReach ==
  ASSUME Types, NEW g, Changes(g)
  PROVE  /\ \A n \in Names : WithinReach(n)' <=> WithinReach(n)
         /\ \A n \in there' : FileOf[n] \notin moved' => n \in there /\ n \in Names
         /\ moved \subseteq moved'
<1>1. UNCHANGED <<depthLimit, inode, sealed>>
  BY DEF Changes, input
<1>2. \A d : Reached(d)' <=> Reached(d)
  BY <1>1 DEF Reached, Depth
<1>3. \A n \in Names : WithinReach(n)' <=> WithinReach(n)
  BY <1>1, <1>2 DEF WithinReach
<1> QED
  BY <1>3 DEF Changes

LEMMA ChangesFirst ==
  ASSUME Types, NEW g, Changes(g), Once(first.counted, first.cut)
  PROVE  Once(first.counted, first.cut)'
<1>1. first' = first
  BY DEF Changes
<1>2. /\ \A n \in Names : WithinReach(n)' <=> WithinReach(n)
      /\ \A n \in there' : FileOf[n] \notin moved' => n \in there /\ n \in Names
      /\ moved \subseteq moved'
  BY ChangesReach
<1> QED
  BY <1>1, <1>2 DEF Once

-----------------------------------------------------------------------------
(* The invariant.                                                          *)

(* What the invariant says, apart from the walk, of variables that stay.   *)
LEMMA OnceSame ==
  ASSUME UNCHANGED <<depthLimit, inode, sealed, there, moved>>
  PROVE  /\ first' = first => (Once(first.counted, first.cut) <=> Once(first.counted, first.cut)')
         /\ counted' = counted /\ cut' = cut => (Once(counted, cut) <=> Once(counted, cut)')
         /\ counted' = first.counted /\ cut' = first.cut =>
              (Once(first.counted, first.cut) <=> Once(counted, cut)')
         /\ first'.counted = counted /\ first'.cut = cut =>
              (Once(counted, cut) <=> Once(first.counted, first.cut)')
<1>1. \A d : Reached(d)' <=> Reached(d)
  BY DEF Reached, Depth
<1>2. \A n : WithinReach(n)' <=> WithinReach(n)
  BY <1>1 DEF WithinReach
<1> QED
  BY <1>2 DEF Once

LEMMA InitInv == Init => IInv
<1> SUFFICES ASSUME Init PROVE IInv
  OBVIOUS
<1>1. /\ stage = [d \in Dirs |-> "new"] /\ todo = [d \in Dirs |-> {}]
      /\ claims = [f \in Files |-> NoClaim] /\ seen = {} /\ met = 0 /\ counted = {}
      /\ cut = FALSE /\ live = 0 /\ first = NoReport /\ moved = {}
      /\ decided = [f \in Files |-> NoPath] /\ phase = "first"
      /\ top \in Tops /\ depthLimit \in DepthLimits /\ inode \in Shapes
      /\ there \in {Names, Names \ UNION {Twins(n) : n \in Late}}
  BY DEF Init, FreshWalk
<1>2. Types
  BY <1>1, OptionAssumption DEF Types, Stages, NoClaim, NoReport
<1>3. TwinsInv
  <2>1. \A k \in Names : Twins(k) \subseteq Names
    BY DEF Twins
  <2>2. Late \subseteq Names
    BY OptionAssumption
  <2>3. \A k \in Names : \A m \in Twins(k) : \A n \in Names : m \in Twins(n) => k \in Twins(n)
    BY DEF Twins
  <2> QED
    BY <1>1, <2>1, <2>2, <2>3 DEF TwinsInv
<1>4. FreshVars
  BY DEF Init, FreshVars
<1>5. DecidedInv
  BY <1>1 DEF DecidedInv, Decided
<1> QED
  BY <1>1, <1>2, <1>3, <1>4, <1>5, FreshKeeps DEF IInv

LEMMA StopInv ==
  ASSUME IInv, Stop \/ Rest \/ UNCHANGED vars
  PROVE  IInv'
<1>1. UNCHANGED <<top, depthLimit, inode, sealed, there, phase, stage, todo, claims, decided, seen,
                  met, counted, cut, live, first, moved>>
  BY DEF Stop, Rest, vars, walkVars, input
<1>2. Types' /\ TwinsInv' /\ (Walking' <=> Walking)
  BY <1>1 DEF IInv, Types, TwinsInv, Twins, Entry, Walking
<1>3. WalkInv => WalkInv'
  <2>1. /\ \A d : Fits(d)' <=> Fits(d)
        /\ \A d : Opened(d)' <=> Opened(d)
        /\ \A f : (Decided(f)' <=> Decided(f)) /\ (Claimed(f)' <=> Claimed(f))
        /\ \A f : NLink(f)' = NLink(f)
        /\ Shown' = Shown
    BY <1>1, SameLinks DEF Fits, Opened, Depth, Decided, Claimed, Shown
  <2>2. OpenInv => OpenInv'
    BY <1>1, <2>1 DEF OpenInv
  <2>3. MountInv => MountInv'
    BY <1>1, <2>1 DEF MountInv
  <2>4. NamesInv /\ LiveInv /\ OneInv => NamesInv' /\ LiveInv' /\ OneInv'
    BY <1>1, <2>1 DEF NamesInv, LiveInv, OneInv
  <2>5. BarInv /\ SeenInv => BarInv' /\ SeenInv'
    BY <1>1, <2>1 DEF BarInv, SeenInv
  <2>6. ClaimInv /\ DecidedInv => ClaimInv' /\ DecidedInv'
    BY <1>1, <2>1 DEF ClaimInv, DecidedInv
  <2>7. TakenInv /\ MetInv => TakenInv' /\ MetInv'
    BY <1>1, <2>1 DEF TakenInv, MetInv
  <2> QED
    BY <2>2, <2>3, <2>4, <2>5, <2>6, <2>7 DEF WalkInv
<1>4. FewShown => FewShown'
  BY <1>1 DEF FewShown
<1> QED
  BY <1>1, <1>2, <1>3, <1>4, OnceSame DEF IInv

LEMMA StepInv ==
  ASSUME IInv, NEW d \in Dirs, Step(d)
  PROVE  IInv'
<1>1. Types /\ Walking /\ WalkInv /\ TwinsInv /\ (phase = "second" => Once(first.counted, first.cut))
  BY StepKinds DEF IInv
<1>2. Types' /\ WalkInv' /\ Keeps /\ UNCHANGED <<there, moved>>
  BY <1>1, StepWalk
<1>3. TwinsInv'
  BY <1>1, <1>2 DEF TwinsInv, Twins, Entry, Keeps
<1>4. phase' = phase /\ phase # "over"
  BY <1>1, <1>2 DEF Keeps, Walking
<1>5. phase' = "second" => Once(first.counted, first.cut)'
  BY <1>1, <1>2, <1>4, OnceSame DEF Keeps
<1> QED
  BY <1>2, <1>3, <1>4, <1>5 DEF IInv

LEMMA ChangeInv ==
  ASSUME IInv, NEW n \in Names, Unlink(n) \/ Link(n)
  PROVE  IInv'
<1>0. Types /\ TwinsInv /\ FileOf[n] \in Files
  BY FileIn DEF IInv
<1>1. Changes(FileOf[n]) /\ TwinsInv'
  BY <1>0, ChangeKinds
<1>2. Walking /\ WalkInv /\ phase' = phase /\ phase # "over"
  BY <1>1 DEF IInv, Changes, Walking
<1>3. Types' /\ WalkInv'
  BY <1>0, <1>1, <1>2, ChangesWalk
<1>4. phase' = "second" => Once(first.counted, first.cut)'
  BY <1>0, <1>1, <1>2, ChangesFirst DEF IInv
<1> QED
  BY <1>1, <1>2, <1>3, <1>4 DEF IInv

(* No path is decided in a first walk.                                     *)
LEMMA FirstOnce ==
  ASSUME IInv, phase = "first", stage[Root] = "done"
  PROVE  Once(counted, cut) /\ FewShown /\ WalkInv
<1>1. Types /\ TwinsInv /\ WalkInv
  BY DEF IInv, Walking
<1>2. \A f \in Files : ~Decided(f)
  BY <1>1 DEF WalkInv, DecidedInv
<1> QED
  BY <1>1, <1>2, WalkOnce, WalkFew

LEMMA EndFirstInv ==
  ASSUME IInv, EndFirst
  PROVE  IInv'
<1>1. Once(counted, cut) /\ FewShown
  BY FirstOnce DEF EndFirst
<1>2. UNCHANGED <<top, depthLimit, inode, sealed, there, stage, todo, claims, decided, seen,
                  met, counted, cut, live, first, moved>> /\ phase' = "over"
  BY DEF EndFirst, walkVars, input
<1>3. Types' /\ TwinsInv'
  BY <1>2 DEF IInv, Types, TwinsInv, Twins, Entry
<1>4. Once(counted, cut)' /\ FewShown'
  BY <1>1, <1>2, OnceSame DEF FewShown
<1> QED
  BY <1>2, <1>3, <1>4 DEF IInv, Walking

LEMMA StartSecondInv ==
  ASSUME IInv, StartSecond
  PROVE  IInv'
<1>1. Once(counted, cut) /\ WalkInv
  BY FirstOnce DEF StartSecond
<1>2. /\ UNCHANGED <<top, depthLimit, inode, sealed, there, moved>>
      /\ phase = "first" /\ phase' = "second" /\ first' = Report
      /\ decided' = [f \in Files |-> claims[f].path]
      /\ stage' = [d \in Dirs |-> "new"] /\ todo' = [d \in Dirs |-> {}]
      /\ claims' = [f \in Files |-> NoClaim] /\ seen' = {} /\ met' = 0 /\ counted' = {}
      /\ cut' = FALSE /\ live' = 0
  BY DEF StartSecond, input, FreshWalk
<1>3. first'.counted = counted /\ first'.cut = cut
  BY <1>2 DEF Report
<1>4. Types'
  BY <1>2, <1>3 DEF IInv, Types, NoClaim, Stages
<1>5. TwinsInv'
  BY <1>2 DEF IInv, TwinsInv, Twins, Entry
<1>6. DecidedInv'
  <2>1. \A f \in Files : Decided(f)' <=> Claimed(f)
    BY <1>2 DEF Decided, Claimed
  <2>2. \A f : NLink(f)' = NLink(f)
    BY <1>2, SameLinks
  <2> QED
    BY <1>1, <1>2, <2>1, <2>2 DEF DecidedInv, WalkInv, ClaimInv
<1>7. FreshVars'
  BY <1>2 DEF FreshVars, FreshWalk
<1>8. WalkInv'
  BY <1>4, <1>6, <1>7, FreshKeeps, PTL
<1>9. Once(first.counted, first.cut)'
  BY <1>1, <1>2, <1>3, OnceSame
<1> QED
  BY <1>2, <1>4, <1>5, <1>8, <1>9 DEF IInv

LEMMA EndSecondInv ==
  ASSUME IInv, EndSecond
  PROVE  IInv'
<1>1. Types /\ TwinsInv /\ WalkInv /\ Once(first.counted, first.cut)
  BY DEF IInv, EndSecond, Walking
<1>2. /\ UNCHANGED <<top, depthLimit, inode, sealed, there, stage, todo, claims, decided, seen,
                     met, live, first, moved>> /\ phase' = "over" /\ stage[Root] = "done"
      /\ \/ AllMet /\ counted' = counted /\ cut' = cut
         \/ counted' = first.counted /\ cut' = first.cut
  BY DEF EndSecond, input
<1>3. FewShown'
  <2>1. FewShown
    BY <1>1, WalkFew
  <2> QED
    BY <1>2, <2>1 DEF FewShown
<1>4. Once(counted, cut)'
  <2>1. CASE AllMet /\ counted' = counted /\ cut' = cut
    <3>1. Once(counted, cut)
      BY <1>1, <1>2, <2>1, MetAll, WalkOnce DEF WalkInv
    <3> QED
      BY <1>2, <2>1, <3>1, OnceSame
  <2>2. CASE counted' = first.counted /\ cut' = first.cut
    BY <1>1, <1>2, <2>2, OnceSame
  <2> QED
    BY <1>2, <2>1, <2>2
<1>5. Types' /\ TwinsInv'
  <2>1. counted' \subseteq Names /\ cut' \in BOOLEAN
    BY <1>1, <1>2 DEF Types
  <2> QED
    BY <1>1, <1>2, <2>1 DEF Types, TwinsInv, Twins, Entry
<1> QED
  BY <1>2, <1>3, <1>4, <1>5 DEF IInv, Walking

LEMMA NextInv == IInv /\ [Next]_vars => IInv'
BY StopInv, StepInv, ChangeInv, EndFirstInv, StartSecondInv, EndSecondInv DEF Next

LEMMA Invariant == Spec => []IInv
BY InitInv, NextInv, PTL DEF Spec

(* The invariant has the property.                                         *)
LEMMA Owed == IInv => CountsOnce
<1> SUFFICES ASSUME IInv PROVE CountsOnce
  OBVIOUS
<1>1. \A f \in Files \ moved : \A k, n \in counted : FileOf[k] = f /\ FileOf[n] = f => k = n
  BY DEF IInv, Types, Walking, WalkInv, OneInv, Once
<1>2. ASSUME NEW f \in Files \ moved
      PROVE  Cardinality({n \in counted : FileOf[n] = f}) <= 1
  <2> DEFINE at == {n \in counted : FileOf[n] = f}
  <2>1. CASE at = {}
    BY <2>1, FS_EmptySet
  <2>2. CASE at # {}
    <3>1. PICK n \in at : TRUE
      BY <2>2
    <3>2. at = {n}
      BY <1>1, <3>1
    <3> HIDE DEF at
    <3>3. Cardinality(at) = 1
      BY <3>2, FS_Singleton
    <3> QED
      BY <3>3 DEF at
  <2> QED
    BY <2>1, <2>2
<1>3. phase = "over" => Once(counted, cut)
  BY DEF IInv
<1>4. moved = {} => live <= Cardinality(Files)
  BY WalkFew DEF IInv, Types, Walking, FewShown
<1> QED
  BY <1>2, <1>3, <1>4 DEF CountsOnce, Once

(* A file whose names stay put is counted once: by the threads in any      *)
(* order, through links and bind mounts, by a second walk or by the first  *)
(* when the second missed a path, and the live counter never shows more    *)
(* files than there are (counts_here, LinkClaims, `met` in scan_pooled).   *)
THEOREM AlwaysOnce == Spec => []CountsOnce
BY Invariant, Owed, PTL

-----------------------------------------------------------------------------
(* What a scan that nothing disturbs reports.                              *)

(* Names nobody touched, no stop, no bind mount, and rows are asked for.   *)
Calm == moved = {} /\ ~stop /\ ~Mounted /\ top > 0

(* A list holds the n largest rows of P, but for those of P that wait.     *)
CoversFor(n, list, wait, P) ==
  /\ list.items \subseteq P /\ wait \subseteq P /\ list.items \cap wait = {}
  /\ \A a \in P \ (list.items \cup wait) :
       n <= Cardinality({b \in list.items \cup wait : Ahead(b, a)})
  /\ list.floor # NoFloor =>
       /\ list.floor \in P \ wait
       /\ n <= Cardinality({b \in list.items : b = list.floor \/ Ahead(b, list.floor)})
Covers(list, wait, P) == CoversFor(top, list, wait, P)

Lists == [items : SUBSET Item, floor : Item \cup {NoFloor}]

(* A directory whose subdirectories are back has its sum.                  *)
FileBytes(S) == MapThenSumSet(LAMBDA n : Size[FileOf[n]], S)
ChildBytes(d) == MapThenSumSet(LAMBDA c : rows[c], Children(d))
RowsInv ==
  \A d \in Dirs : stage[d] \in Back =>
    rows[d] = IF Fits(d) THEN Block + FileBytes(NamesIn(d) \cap counted) + ChildBytes(d) ELSE Block

(* The rows of directories: those done that may have one.                  *)
MayShow(d) == Depth(d) <= depthLimit /\ (IF d \in sealed THEN d # Root ELSE Offered(d, rows))
DoneRows == {Row(d, rows[d]) : d \in {e \in Dirs : stage[e] = "done" /\ MayShow(e)}}
DirsInv ==
  /\ topDirs \in Lists
  /\ \A d \in Dirs : stage[d] \in {"self", "pushself"} => MayShow(d)
  /\ Covers(topDirs, {}, DoneRows)

(* The rows of files: those counted in a directory that lists them.        *)
Inner(S) == {FileRow(n) : n \in {k \in S : InnerListing(DirOf[k])}}
FilesInv ==
  /\ topFiles \in Lists
  /\ cands \subseteq counted
  /\ \A n \in cands : Listing(DirOf[n]) /\ stage[DirOf[n]] \in {"stat", "offer", "push"}
                      /\ (stage[DirOf[n]] # "stat" => InnerListing(DirOf[n]))
  /\ \A d \in Dirs : stage[d] \in {"offer", "push"} => Candidates(d) # {}
  /\ Covers(topFiles, Inner(cands), Inner(counted))

(* The names met, and the least of each file.                              *)
Taken(n) == n \in there /\ Opened(DirOf[n]) /\ n \notin todo[DirOf[n]]
Meets(n) == n \in there /\ Reached(DirOf[n])
LeastClaim(f) ==
  /\ Claimed(f) => /\ Taken(claims[f].path)
                   /\ \A n \in Names : FileOf[n] = f /\ Taken(n) => claims[f].path <= n
  /\ claims[f].there <=> (Claimed(f) => claims[f].path \in counted)
LeastDecided(f) ==
  /\ Decided(f) => /\ Meets(decided[f])
                   /\ \A n \in Names : FileOf[n] = f /\ Meets(n) => decided[f] <= n
  /\ ~Decided(f) => \A n \in Names : FileOf[n] = f /\ Meets(n) => NLink(f) = 1
LeastInv ==
  /\ phase = "first" => \A f \in Files : LeastClaim(f)
  /\ phase = "second" => \A f \in Files : LeastDecided(f)
  /\ \A n \in Names : Taken(n) /\ decided[FileOf[n]] = n => n \in counted
  /\ met >= Cardinality({f \in Files : Decided(f) /\ decided[f] \in counted})

(* The directories that could not be opened.                               *)
Blocked == {d \in sealed : stage[d] # "new" /\ Depth(d) <= depthLimit}
UnreadInv ==
  /\ unread \in [count : Nat, kept : SUBSET Dirs]
  /\ unread.count = Cardinality(Blocked) /\ unread.kept \subseteq Blocked
  /\ unread.count <= UnreadKept => unread.kept = Blocked

CalmInv ==
  /\ sealed \subseteq Dirs
  /\ Walking => /\ rows \in [Dirs -> Nat] /\ RowsInv
                /\ top > 0 => DirsInv /\ FilesInv
                /\ cut => stop
                /\ Calm => LeastInv /\ UnreadInv
  /\ Agrees

-----------------------------------------------------------------------------
(* Ranks.                                                                  *)

LEMMA AheadOrder ==
  /\ \A a \in Item : ~Ahead(a, a)
  /\ \A a, b \in Item : a = b \/ Ahead(a, b) \/ Ahead(b, a)
  /\ \A a, b \in Item : ~(Ahead(a, b) /\ Ahead(b, a))
  /\ \A a, b, c \in Item : Ahead(a, b) /\ Ahead(b, c) => Ahead(a, c)
<1>1. \A a \in Item : a.path \in Nat /\ a.key \in Nat
  BY TreeAssumption DEF Item
<1>2. \A a, b \in Item : a.path = b.path /\ a.key = b.key => a = b
  BY DEF Item
<1> QED
  BY <1>1, <1>2 DEF Ahead

LEMMA FiniteItems ==
  ASSUME NEW S \in SUBSET Item, IsFiniteSet(S)
  PROVE  \A T \in SUBSET S : IsFiniteSet(T) /\ Cardinality(T) \in Nat /\ Cardinality(T) <= Cardinality(S)
BY FS_Subset, FS_CardinalityType

AheadOf(S, a) == {b \in S : Ahead(b, a)}
BehindOf(S, a) == {b \in S : Ahead(a, b)}

(* One row of a finite set is ahead of all others, and one behind.         *)
LEMMA Foremost ==
  ASSUME NEW S \in SUBSET Item, IsFiniteSet(S), S # {}
  PROVE  \E a \in S : \A b \in S \ {a} : Ahead(a, b)
<1> DEFINE N == {Cardinality(AheadOf(S, a)) : a \in S}
<1>0. \A a \in S : AheadOf(S, a) \in SUBSET S
  BY DEF AheadOf
<1>1. \A a \in S : IsFiniteSet(AheadOf(S, a)) /\ Cardinality(AheadOf(S, a)) \in Nat
  BY <1>0, FiniteItems
<1>2. N \in SUBSET Nat /\ N # {}
  BY <1>1
<1>3. PICK n \in N : \A m \in N : n <= m
  <2> HIDE DEF N
  <2> QED
    BY <1>2, Least
<1>4. PICK a \in S : n = Cardinality(AheadOf(S, a))
  BY <1>3
<1>5. ASSUME NEW b \in S \ {a}, ~Ahead(a, b) PROVE FALSE
  <2>1. Ahead(b, a)
    BY <1>5, AheadOrder
  <2>2. AheadOf(S, b) \in SUBSET AheadOf(S, a) /\ b \in AheadOf(S, a) /\ b \notin AheadOf(S, b)
    BY <1>5, <2>1, AheadOrder DEF AheadOf
  <2>3. Cardinality(AheadOf(S, b)) < Cardinality(AheadOf(S, a))
    <3>1. Cardinality(AheadOf(S, b)) <= Cardinality(AheadOf(S, a))
          /\ Cardinality(AheadOf(S, b)) # Cardinality(AheadOf(S, a))
      BY <1>1, <2>2, FS_Subset
    <3> QED
      BY <1>1, <1>5, <3>1
  <2>4. Cardinality(AheadOf(S, b)) \in N
    BY <1>5
  <2> HIDE DEF N
  <2> QED
    BY <1>1, <1>2, <1>3, <1>4, <1>5, <2>3, <2>4
<1> QED
  BY <1>5

LEMMA Hindmost ==
  ASSUME NEW S \in SUBSET Item, IsFiniteSet(S), S # {}
  PROVE  \E a \in S : \A b \in S \ {a} : Ahead(b, a)
<1> DEFINE N == {Cardinality(BehindOf(S, a)) : a \in S}
<1>0. \A a \in S : BehindOf(S, a) \in SUBSET S
  BY DEF BehindOf
<1>1. \A a \in S : IsFiniteSet(BehindOf(S, a)) /\ Cardinality(BehindOf(S, a)) \in Nat
  BY <1>0, FiniteItems
<1>2. N \in SUBSET Nat /\ N # {}
  BY <1>1
<1>3. PICK n \in N : \A m \in N : n <= m
  <2> HIDE DEF N
  <2> QED
    BY <1>2, Least
<1>4. PICK a \in S : n = Cardinality(BehindOf(S, a))
  BY <1>3
<1>5. ASSUME NEW b \in S \ {a}, ~Ahead(b, a) PROVE FALSE
  <2>1. Ahead(a, b)
    BY <1>5, AheadOrder
  <2>2. BehindOf(S, b) \in SUBSET BehindOf(S, a) /\ b \in BehindOf(S, a) /\ b \notin BehindOf(S, b)
    BY <1>5, <2>1, AheadOrder DEF BehindOf
  <2>3. Cardinality(BehindOf(S, b)) < Cardinality(BehindOf(S, a))
    <3>1. Cardinality(BehindOf(S, b)) <= Cardinality(BehindOf(S, a))
          /\ Cardinality(BehindOf(S, b)) # Cardinality(BehindOf(S, a))
      BY <1>1, <2>2, FS_Subset
    <3> QED
      BY <1>1, <1>5, <3>1
  <2>4. Cardinality(BehindOf(S, b)) \in N
    BY <1>5
  <2> HIDE DEF N
  <2> QED
    BY <1>1, <1>2, <1>3, <1>4, <1>5, <2>3, <2>4
<1> QED
  BY <1>5

LEMMA BestDef ==
  ASSUME NEW S, NEW n
  PROVE  Best(S, n) = {a \in S : Cardinality(AheadOf(S, a)) < n}
BY DEF Best, AheadOf

(* A row that is not among the best n has n of them ahead.                 *)
LEMMA BestLeads ==
  ASSUME NEW S \in SUBSET Item, IsFiniteSet(S), NEW n \in Nat, NEW a \in S \ Best(S, n)
  PROVE  n <= Cardinality(AheadOf(Best(S, n), a))
<1> DEFINE B == Best(S, n)
           Out == S \ B
<1>0. B \in SUBSET S /\ Out \in SUBSET S /\ a \in Out
  BY DEF Best
<1>1. \A T \in SUBSET S : IsFiniteSet(T) /\ Cardinality(T) \in Nat
  BY FiniteItems
<1>2. PICK c \in Out : \A b \in Out \ {c} : Ahead(c, b)
  <2> HIDE DEF Out
  <2> QED
    BY <1>0, <1>1, Foremost
<1>3. AheadOf(S, c) \in SUBSET S /\ AheadOf(B, a) \in SUBSET S
  BY <1>0 DEF AheadOf
<1>4. n <= Cardinality(AheadOf(S, c))
  BY <1>1, <1>2, <1>3, BestDef
<1>5. AheadOf(S, c) \in SUBSET AheadOf(B, a)
  <2> SUFFICES ASSUME NEW b \in S, Ahead(b, c) PROVE b \in B /\ Ahead(b, a)
    BY DEF AheadOf
  <2>1. b \notin Out \ {c}
    BY <1>0, <1>2, AheadOrder
  <2>2. b # c
    BY <1>0, <1>2, AheadOrder
  <2>3. b \in B
    BY <2>1, <2>2
  <2>4. c = a \/ Ahead(c, a)
    BY <1>0, <1>2
  <2>5. c \in Item /\ a \in Item /\ b \in Item
    BY <1>0, <1>2
  <2> QED
    BY <2>3, <2>4, <2>5, AheadOrder
<1> HIDE DEF B
<1>6. Cardinality(AheadOf(S, c)) <= Cardinality(AheadOf(B, a))
  BY <1>1, <1>3, <1>5, FS_Subset
<1> QED
  BY <1>1, <1>3, <1>4, <1>6 DEF B

(* They are n, or all there are.                                           *)
LEMMA BestSize ==
  ASSUME NEW S \in SUBSET Item, IsFiniteSet(S), NEW n \in Nat
  PROVE  /\ Best(S, n) \in SUBSET S /\ IsFiniteSet(Best(S, n)) /\ Cardinality(Best(S, n)) \in Nat
         /\ Cardinality(Best(S, n)) <= n
         /\ Best(S, n) = S \/ Cardinality(Best(S, n)) = n
<1> DEFINE B == Best(S, n)
<1>0. B \in SUBSET S
  BY DEF Best
<1>1. \A T \in SUBSET S : IsFiniteSet(T) /\ Cardinality(T) \in Nat
  BY FiniteItems
<1>2. Cardinality(B) <= n
  <2>1. CASE B = {}
    BY <2>1, FS_EmptySet
  <2>2. CASE B # {}
    <3> HIDE DEF B
    <3>1. PICK z \in B : \A b \in B \ {z} : Ahead(b, z)
      BY <1>0, <1>1, <2>2, Hindmost
    <3>2. B \ {z} \in SUBSET AheadOf(S, z) /\ AheadOf(S, z) \in SUBSET S
      BY <1>0, <3>1 DEF AheadOf
    <3>3. Cardinality(B \ {z}) <= Cardinality(AheadOf(S, z))
      BY <1>1, <3>2, FS_Subset
    <3>4. Cardinality(AheadOf(S, z)) < n
      BY <3>1, BestDef DEF B
    <3>5. Cardinality(B \ {z}) = Cardinality(B) - 1
      BY <1>0, <1>1, <3>1, FS_RemoveElement
    <3>6. Cardinality(B) \in Nat /\ Cardinality(AheadOf(S, z)) \in Nat
      BY <1>0, <1>1, <3>2
    <3> QED
      BY <3>3, <3>4, <3>5, <3>6
  <2> QED
    BY <2>1, <2>2
<1>3. ASSUME B # S PROVE n <= Cardinality(B)
  <2>1. PICK a \in S \ B : TRUE
    BY <1>0, <1>3
  <2>2. n <= Cardinality(AheadOf(B, a))
    BY <2>1, BestLeads
  <2>3. AheadOf(B, a) \in SUBSET B
    BY DEF AheadOf
  <2> HIDE DEF B
  <2>4. Cardinality(AheadOf(B, a)) <= Cardinality(B) /\ Cardinality(AheadOf(B, a)) \in Nat
    BY <1>0, <1>1, <2>3, FS_Subset
  <2> QED
    BY <1>0, <1>1, <2>2, <2>4
<1> HIDE DEF B
<1> QED
  BY <1>0, <1>1, <1>2, <1>3 DEF B

-----------------------------------------------------------------------------
(* A list that covers a set of rows.                                       *)

Leads(S, P) == S \subseteq P /\ \A a \in P \ S : top <= Cardinality(AheadOf(S, a))
FloorHolds(list, wait, P) ==
  list.floor # NoFloor =>
    /\ list.floor \in P \ wait
    /\ top <= Cardinality({b \in list.items : b = list.floor \/ Ahead(b, list.floor)})

LEMMA CoversParts ==
  ASSUME NEW list, NEW wait, NEW P
  PROVE  Covers(list, wait, P) <=>
           Leads(list.items \cup wait, P) /\ list.items \cap wait = {} /\ FloorHolds(list, wait, P)
<1>1. \A a : {b \in list.items \cup wait : Ahead(b, a)} = AheadOf(list.items \cup wait, a)
  BY DEF AheadOf
<1> QED
  BY <1>1 DEF Covers, CoversFor, Leads, FloorHolds

LEMMA AheadMore ==
  ASSUME NEW S \in SUBSET Item, IsFiniteSet(S), NEW T \in SUBSET S, NEW a \in Item, NEW c \in Item,
         a = c \/ Ahead(a, c), top \in Nat, top <= Cardinality(AheadOf(T, a))
  PROVE  top <= Cardinality(AheadOf(S, c))
<1>1. AheadOf(T, a) \in SUBSET AheadOf(S, c) /\ AheadOf(S, c) \in SUBSET S
  BY AheadOrder DEF AheadOf
<1>2. IsFiniteSet(AheadOf(S, c)) /\ Cardinality(AheadOf(S, c)) \in Nat
  BY <1>1, FiniteItems
<1>3. Cardinality(AheadOf(T, a)) <= Cardinality(AheadOf(S, c)) /\ Cardinality(AheadOf(T, a)) \in Nat
  BY <1>1, <1>2, FS_Subset, FS_CardinalityType
<1> QED
  BY <1>2, <1>3

LEMMA LeadsDrop ==
  ASSUME NEW P \in SUBSET Item, IsFiniteSet(P), top \in Nat, NEW S, Leads(S, P),
         NEW T \in SUBSET S, \A r \in S \ T : top <= Cardinality(AheadOf(T, r))
  PROVE  Leads(T, P)
<1>0. S \in SUBSET P /\ T \in SUBSET P
  BY DEF Leads
<1>1. IsFiniteSet(T) /\ T \in SUBSET Item
  BY <1>0, FiniteItems
<1> SUFFICES ASSUME NEW a \in P \ T PROVE top <= Cardinality(AheadOf(T, a))
  BY <1>0 DEF Leads
<1>2. CASE a \in S
  BY <1>2
<1>3. CASE a \notin S
  <2>1. top <= Cardinality(AheadOf(S, a))
    BY <1>3 DEF Leads
  <2>2. CASE \E r \in S \ T : Ahead(r, a)
    <3>1. PICK r \in S \ T : Ahead(r, a)
      BY <2>2
    <3>2. top <= Cardinality(AheadOf(T, r))
      BY <3>1
    <3> QED
      BY <1>0, <1>1, <3>1, <3>2, AheadMore
  <2>3. CASE ~\E r \in S \ T : Ahead(r, a)
    <3>1. AheadOf(S, a) = AheadOf(T, a)
      BY <2>3 DEF AheadOf
    <3> QED
      BY <2>1, <3>1
  <2> QED
    BY <2>2, <2>3
<1> QED
  BY <1>2, <1>3

LEMMA LeadsAdd ==
  ASSUME NEW P \in SUBSET Item, IsFiniteSet(P), top \in Nat, NEW S, Leads(S, P), NEW r \in Item
  PROVE  Leads(S \cup {r}, P \cup {r})
<1>0. S \in SUBSET P
  BY DEF Leads
<1>1. S \cup {r} \in SUBSET (P \cup {r}) /\ P \cup {r} \in SUBSET Item
  BY <1>0
<1>2. IsFiniteSet(P \cup {r})
  BY FS_AddElement
<1>3. IsFiniteSet(S \cup {r})
  BY <1>1, <1>2, FS_Subset
<1> SUFFICES ASSUME NEW a \in P \ S, a # r PROVE top <= Cardinality(AheadOf(S \cup {r}, a))
  BY <1>1 DEF Leads
<1>4. top <= Cardinality(AheadOf(S, a))
  BY DEF Leads
<1> QED
  BY <1>0, <1>1, <1>3, <1>4, AheadMore

(* What is behind the floor has enough ahead.                              *)
LEMMA FloorLeads ==
  ASSUME NEW P \in SUBSET Item, IsFiniteSet(P), top \in Nat, NEW list, NEW wait,
         list.items \subseteq P, FloorHolds(list, wait, P), list.floor # NoFloor,
         NEW S \in SUBSET P, list.items \subseteq S, NEW r \in Item, Ahead(list.floor, r)
  PROVE  top <= Cardinality(AheadOf(S, r))
<1> DEFINE F == {b \in list.items : b = list.floor \/ Ahead(b, list.floor)}
<1>1. top <= Cardinality(F) /\ list.floor \in Item
  BY DEF FloorHolds
<1>2. F \in SUBSET AheadOf(S, r) /\ AheadOf(S, r) \in SUBSET P
  BY <1>1, AheadOrder DEF AheadOf
<1> HIDE DEF F
<1>3. IsFiniteSet(AheadOf(S, r)) /\ Cardinality(AheadOf(S, r)) \in Nat
  BY <1>2, FiniteItems
<1>4. Cardinality(F) <= Cardinality(AheadOf(S, r)) /\ Cardinality(F) \in Nat
  BY <1>2, <1>3, FS_Subset, FS_CardinalityType
<1> QED
  BY <1>1, <1>3, <1>4

(* A new row waits.                                                        *)
LEMMA CoversWait ==
  ASSUME NEW P \in SUBSET Item, IsFiniteSet(P), top \in Nat, NEW list, NEW wait, Covers(list, wait, P),
         NEW r \in Item \ P
  PROVE  Covers(list, wait \cup {r}, P \cup {r})
<1>1. Leads(list.items \cup wait, P) /\ list.items \cap wait = {} /\ FloorHolds(list, wait, P)
  BY CoversParts
<1>2. list.items \subseteq P
  BY <1>1 DEF Leads
<1>3. Leads((list.items \cup wait) \cup {r}, P \cup {r})
  BY <1>1, LeadsAdd
<1>4. (list.items \cup wait) \cup {r} = list.items \cup (wait \cup {r})
  OBVIOUS
<1>5. FloorHolds(list, wait \cup {r}, P \cup {r})
  BY <1>1 DEF FloorHolds
<1> QED
  BY <1>1, <1>2, <1>3, <1>4, <1>5, CoversParts

(* Rows that wait are dropped when enough of the others are ahead.         *)
LEMMA CoversTrim ==
  ASSUME NEW P \in SUBSET Item, IsFiniteSet(P), top \in Nat, NEW list, NEW wait, Covers(list, wait, P),
         NEW less \in SUBSET wait,
         \A r \in wait \ less : top <= Cardinality(AheadOf(list.items \cup less, r))
  PROVE  Covers(list, less, P)
<1>1. Leads(list.items \cup wait, P) /\ list.items \cap wait = {} /\ FloorHolds(list, wait, P)
  BY CoversParts
<1>2. Leads(list.items \cup less, P)
  <2> DEFINE S == list.items \cup wait
             T == list.items \cup less
  <2>1. T \in SUBSET S /\ S \ T \subseteq wait \ less
    OBVIOUS
  <2>2. Leads(S, P) /\ \A r \in S \ T : top <= Cardinality(AheadOf(T, r))
    BY <1>1, <2>1
  <2> HIDE DEF S, T
  <2>3. Leads(T, P)
    BY <2>1, <2>2, LeadsDrop
  <2> QED
    BY <2>3 DEF T
<1>3. FloorHolds(list, less, P)
  BY <1>1 DEF FloorHolds
<1> QED
  BY <1>1, <1>2, <1>3, CoversParts

(* So are those behind the floor.                                          *)
LEMMA CoversSkip ==
  ASSUME NEW P \in SUBSET Item, IsFiniteSet(P), top \in Nat, NEW list, NEW wait, Covers(list, wait, P),
         NEW less \in SUBSET wait, list.floor # NoFloor, \A r \in wait \ less : Ahead(list.floor, r)
  PROVE  Covers(list, less, P)
<1>1. Leads(list.items \cup wait, P) /\ FloorHolds(list, wait, P)
  BY CoversParts
<1>2. list.items \subseteq P /\ list.items \cup less \in SUBSET P /\ wait \in SUBSET Item
  BY <1>1 DEF Leads
<1>3. \A r \in wait \ less : top <= Cardinality(AheadOf(list.items \cup less, r))
  BY <1>1, <1>2, FloorLeads
<1> QED
  BY <1>3, CoversTrim

(* A row turned away is behind the floor.                                  *)
LEMMA Refused ==
  ASSUME NEW P \in SUBSET Item, NEW list, NEW wait, Covers(list, wait, P), NEW r \in wait,
         ~Takes(list, r)
  PROVE  list.floor # NoFloor /\ Ahead(list.floor, r)
<1>1. list.floor # NoFloor /\ ~Ahead(r, list.floor)
  BY DEF Takes
<1>2. list.floor \in P \ wait /\ wait \subseteq P
  BY <1>1 DEF Covers, CoversFor
<1> QED
  BY <1>1, <1>2, AheadOrder

(* A row that waits is pushed.                                             *)
LEMMA CoversPush ==
  ASSUME NEW P \in SUBSET Item, IsFiniteSet(P), top \in Nat, top > 0,
         NEW list \in Lists,
         NEW wait, Covers(list, wait, P), NEW r \in wait, Takes(list, r)
  PROVE  Covers(Pushed(list, r), wait \ {r}, P)
<1> DEFINE more == [list EXCEPT !.items = @ \cup {r}]
           rest == wait \ {r}
<1>1. Leads(list.items \cup wait, P) /\ list.items \cap wait = {} /\ FloorHolds(list, wait, P)
  BY CoversParts
<1>2. more.items = list.items \cup {r} /\ more.floor = list.floor
  OBVIOUS
<1>3. list.items \in SUBSET P /\ wait \in SUBSET P /\ more.items \in SUBSET P
  BY <1>1, <1>2 DEF Leads
<1>4. IsFiniteSet(more.items) /\ Cardinality(more.items) \in Nat
  BY <1>3, FiniteItems
<1>5. more.items \cup rest = list.items \cup wait /\ more.items \cap rest = {}
  BY <1>1, <1>2
<1>6. FloorHolds(more, rest, P)
  <2> SUFFICES ASSUME list.floor # NoFloor
               PROVE  top <= Cardinality({b \in more.items : b = list.floor \/ Ahead(b, list.floor)})
    BY <1>1, <1>2 DEF FloorHolds
  <2> DEFINE F == {b \in list.items : b = list.floor \/ Ahead(b, list.floor)}
             G == {b \in more.items : b = list.floor \/ Ahead(b, list.floor)}
  <2>1. top <= Cardinality(F)
    BY <1>1 DEF FloorHolds
  <2>2. F \in SUBSET G /\ G \in SUBSET more.items
    BY <1>2
  <2> HIDE DEF F, G, more
  <2>3. IsFiniteSet(G) /\ Cardinality(G) \in Nat /\ Cardinality(F) <= Cardinality(G) /\ Cardinality(F) \in Nat
    BY <1>4, <2>2, FS_Subset, FS_CardinalityType
  <2>4. top <= Cardinality(G)
    BY <2>1, <2>3
  <2> QED
    BY <2>4 DEF G
<1>7. Covers(more, rest, P)
  BY <1>1, <1>5, <1>6, CoversParts
<1>8. Pushed(list, r) = IF top <= SortedInsertCap \/ Cardinality(more.items) >= 2 * top
                          THEN Cut(more) ELSE more
  BY DEF Pushed
<1> HIDE DEF more, rest
<1>9. Covers(Cut(more), rest, P)
  <2> DEFINE kept == Best(more.items, top)
  <2>0. more.items \in SUBSET Item
    BY <1>3
  <2>1. /\ kept \in SUBSET more.items /\ IsFiniteSet(kept) /\ Cardinality(kept) \in Nat
        /\ Cardinality(kept) <= top /\ (kept = more.items \/ Cardinality(kept) = top)
    BY <1>4, <2>0, BestSize
  <2>2. \A a \in more.items \ kept : top <= Cardinality(AheadOf(kept, a))
    BY <1>4, <2>0, BestLeads
  <2>3. /\ Cut(more).items = kept
        /\ Cardinality(kept) # top => Cut(more).floor = more.floor
        /\ Cardinality(kept) = top =>
             Cut(more).floor = CHOOSE a \in kept : \A b \in kept \ {a} : Ahead(b, a)
    BY DEF Cut
  <2> HIDE DEF kept
  <2>4. Leads(kept \cup rest, P)
    <3> DEFINE S == more.items \cup rest
               T == kept \cup rest
    <3>1. T \in SUBSET S /\ S \ T \subseteq more.items \ kept
      BY <2>1
    <3>2. Leads(S, P)
      BY <1>7, CoversParts
    <3>3. S \in SUBSET P
      BY <3>2 DEF Leads
    <3>4. T \in SUBSET Item /\ IsFiniteSet(T) /\ kept \in SUBSET T
      BY <3>1, <3>3, FiniteItems
    <3> HIDE DEF S, T
    <3>5. \A a \in S \ T : a \in Item /\ top <= Cardinality(AheadOf(kept, a))
      BY <2>2, <3>1, <3>3
    <3>6. \A a \in S \ T : top <= Cardinality(AheadOf(T, a))
      BY <3>4, <3>5, AheadMore
    <3>7. Leads(T, P)
      BY <3>1, <3>2, <3>6, LeadsDrop
    <3> QED
      BY <3>7 DEF T
  <2>5. FloorHolds(Cut(more), rest, P)
    <3>1. CASE Cardinality(kept) = top
      <4>1. kept # {}
        BY <3>1, FS_EmptySet
      <4>2. \E a \in kept : \A b \in kept \ {a} : Ahead(b, a)
        BY <2>0, <2>1, <4>1, Hindmost
      <4> DEFINE z == CHOOSE a \in kept : \A b \in kept \ {a} : Ahead(b, a)
      <4>3. z \in kept /\ \A b \in kept \ {z} : Ahead(b, z)
        BY <4>2
      <4>4. Cut(more).floor = z /\ Cut(more).items = kept
        BY <2>3, <3>1
      <4> HIDE DEF z
      <4>5. {b \in kept : b = z \/ Ahead(b, z)} = kept
        BY <4>3
      <4>6. z \in P \ rest
        BY <1>3, <1>5, <2>1, <4>3
      <4> QED
        BY <2>1, <3>1, <4>4, <4>5, <4>6 DEF FloorHolds
    <3>2. CASE Cardinality(kept) # top
      <4>1. kept = more.items /\ Cut(more).floor = more.floor /\ Cut(more).items = more.items
        BY <2>1, <2>3, <3>2
      <4> QED
        BY <1>6, <4>1 DEF FloorHolds
    <3> QED
      BY <3>1, <3>2
  <2>6. kept \cap rest = {}
    BY <1>5, <2>1
  <2> QED
    BY <2>3, <2>4, <2>5, <2>6, CoversParts
<1> QED
  BY <1>7, <1>8, <1>9 DEF rest

(* When nothing waits, the best of the list are the best of all.           *)
LEMMA CoversBest ==
  ASSUME NEW P \in SUBSET Item, IsFiniteSet(P), top \in Nat, NEW list, Covers(list, {}, P)
  PROVE  Best(list.items, top) = Best(P, top)
<1> DEFINE S == list.items
<1>1. S \in SUBSET P /\ \A a \in P \ S : top <= Cardinality(AheadOf(S, a))
  <2>1. Leads(list.items \cup {}, P)
    BY CoversParts
  <2>2. list.items \cup {} = S
    OBVIOUS
  <2> HIDE DEF S
  <2>3. Leads(S, P)
    BY <2>1, <2>2
  <2> QED
    BY <2>3 DEF Leads
<1> HIDE DEF S
<1>2. \A T \in SUBSET P : IsFiniteSet(T) /\ Cardinality(T) \in Nat /\ T \in SUBSET Item
  BY FiniteItems
<1>3. \A a \in P : /\ AheadOf(S, a) \in SUBSET AheadOf(P, a) /\ AheadOf(P, a) \in SUBSET P
                   /\ AheadOf(S, a) \in SUBSET P
  BY <1>1 DEF AheadOf
<1>4. \A a \in P : /\ Cardinality(AheadOf(S, a)) <= Cardinality(AheadOf(P, a))
                   /\ Cardinality(AheadOf(S, a)) \in Nat /\ Cardinality(AheadOf(P, a)) \in Nat
  BY <1>2, <1>3, FS_Subset
<1>5. ASSUME NEW a \in Best(P, top) PROVE a \in Best(S, top)
  <2>1. a \in P /\ Cardinality(AheadOf(P, a)) < top
    BY <1>5, BestDef
  <2>2. a \in S
    BY <1>1, <1>4, <2>1
  <2>3. Cardinality(AheadOf(S, a)) < top
    BY <1>4, <2>1
  <2> QED
    BY <2>2, <2>3, BestDef
<1>6. ASSUME NEW a \in Best(S, top) PROVE a \in Best(P, top)
  <2>1. a \in S /\ a \in P /\ Cardinality(AheadOf(S, a)) < top
    BY <1>1, <1>6, BestDef
  <2>2. CASE \E b \in P \ S : Ahead(b, a)
    <3>1. PICK b \in P \ S : Ahead(b, a)
      BY <2>2
    <3>2. top <= Cardinality(AheadOf(S, a))
      BY <1>1, <1>2, <2>1, <3>1, AheadMore
    <3> QED
      BY <1>4, <2>1, <3>2
  <2>3. CASE ~\E b \in P \ S : Ahead(b, a)
    <3>1. AheadOf(P, a) = AheadOf(S, a)
      BY <1>1, <2>3 DEF AheadOf
    <3> QED
      BY <2>1, <3>1, BestDef
  <2> QED
    BY <2>2, <2>3
<1> QED
  BY <1>5, <1>6 DEF S

-----------------------------------------------------------------------------
(* Sums over finite sets.                                                  *)

LEMMA OneLess ==
  ASSUME NEW S, NEW x \in S, IsFiniteSet(S)
  PROVE  /\ IsFiniteSet(S \ {x})
         /\ Cardinality(S) \in Nat /\ Cardinality(S \ {x}) \in Nat
         /\ Cardinality(S \ {x}) = Cardinality(S) - 1
<1>1. Cardinality(S) \in Nat
  BY FS_CardinalityType
<1>2. IsFiniteSet(S \ {x}) /\ Cardinality(S \ {x}) = Cardinality(S) - 1
  BY FS_RemoveElement
<1>3. Cardinality(S \ {x}) \in Nat
  BY <1>2, FS_CardinalityType
<1> QED
  BY <1>1, <1>2, <1>3

(* Of the finite sets in a collection, one has the fewest elements.        *)
LEMMA Smallest ==
  ASSUME NEW C, C # {}, \A s \in C : IsFiniteSet(s)
  PROVE  \E s \in C : \A t \in C : Cardinality(s) <= Cardinality(t)
<1> DEFINE N == {Cardinality(s) : s \in C}
<1>1. N \in SUBSET Nat /\ N # {}
  BY FS_CardinalityType
<1>2. PICK n \in N : \A m \in N : n <= m
  BY <1>1, Least
<1> QED
  BY <1>2

(* The sum of what w gives to the elements: one chosen, and the rest.      *)
AddUp(w, f, s) == IF s = {} THEN 0 ELSE LET x == CHOOSE x \in s : TRUE IN w[x] + f[s \ {x}]
Adds(w, f, S) == f = [s \in SUBSET S |-> AddUp(w, f, s)]
Adder(w, S) == CHOOSE f : Adds(w, f, S)
Sum(w, S) == Adder(w, S)[S]

LEMMA AdderExists ==
  ASSUME NEW w, NEW S, IsFiniteSet(S)
  PROVE  Adds(w, Adder(w, S), S)
<1> DEFINE UpTo(n, f) ==
             f = [s \in SUBSET S |-> f[s]] /\ \A s \in SUBSET S : Cardinality(s) <= n => f[s] = AddUp(w, f, s)
           Bad == {n \in Nat : ~ \E f : UpTo(n, f)}
<1>0. \A s \in SUBSET S : IsFiniteSet(s) /\ Cardinality(s) \in Nat /\ Cardinality(s) <= Cardinality(S)
  BY FS_Subset, FS_CardinalityType
<1>1. Bad = {}
  <2> SUFFICES ASSUME Bad # {} PROVE FALSE
    OBVIOUS
  <2>1. PICK n \in Bad : \A m \in Bad : n <= m
    BY Least
  <2>2. CASE n = 0
    <3> DEFINE f == [s \in SUBSET S |-> 0]
    <3>1. \A s \in SUBSET S : Cardinality(s) <= 0 => s = {}
      BY <1>0, FS_EmptySet
    <3>2. UpTo(0, f)
      BY <3>1 DEF AddUp
    <3> QED
      BY <2>1, <2>2, <3>2
  <2>3. CASE n # 0
    <3>0. n \in Nat
      BY <2>1
    <3> HIDE DEF Bad
    <3>1. n - 1 \in Nat /\ n - 1 \notin Bad
      BY <2>1, <2>3, <3>0
    <3> USE DEF Bad
    <3>2. PICK f : UpTo(n - 1, f)
      BY <3>1
    <3> DEFINE g == [s \in SUBSET S |-> AddUp(w, f, s)]
    <3>3. ASSUME NEW s \in SUBSET S, Cardinality(s) <= n PROVE g[s] = AddUp(w, g, s)
      <4>1. CASE s = {}
        BY <4>1 DEF AddUp
      <4>2. CASE s # {}
        <5> DEFINE x == CHOOSE x \in s : TRUE
        <5>1. x \in s
          BY <4>2
        <5> HIDE DEF x
        <5>2. s \ {x} \in SUBSET S /\ Cardinality(s \ {x}) <= n - 1
          <6>1. Cardinality(s \ {x}) = Cardinality(s) - 1 /\ Cardinality(s) \in Nat
            BY <1>0, <5>1, OneLess
          <6> QED
            BY <2>1, <3>3, <6>1
        <5>3. f[s \ {x}] = g[s \ {x}]
          BY <3>2, <5>2
        <5>4. g[s] = w[x] + f[s \ {x}] /\ AddUp(w, g, s) = w[x] + g[s \ {x}]
          BY <4>2 DEF AddUp, x
        <5> QED
          BY <5>3, <5>4
      <4> QED
        BY <4>1, <4>2
    <3>4. UpTo(n, g)
      BY <3>3
    <3> QED
      BY <2>1, <3>4
  <2> QED
    BY <2>2, <2>3
<1>2. PICK f : UpTo(Cardinality(S), f)
  BY <1>0, <1>1
<1>3. Adds(w, f, S)
  <2>1. \A s \in SUBSET S : f[s] = AddUp(w, f, s)
    BY <1>0, <1>2
  <2>2. f = [s \in SUBSET S |-> f[s]]
    BY <1>2
  <2> QED
    BY <2>1, <2>2 DEF Adds
<1> QED
  BY <1>3 DEF Adder

(* Functions that add up the same have the same sums.                      *)
LEMMA AddersAgree ==
  ASSUME NEW w, NEW v, NEW S, NEW T, NEW f, NEW g, Adds(w, f, S), Adds(v, g, T),
         NEW U \in SUBSET (S \cap T), IsFiniteSet(U), \A x \in U : w[x] = v[x]
  PROVE  f[U] = g[U]
<1> DEFINE Bad == {s \in SUBSET U : f[s] # g[s]}
<1>0. \A s \in SUBSET U : IsFiniteSet(s) /\ Cardinality(s) \in Nat /\ f[s] = AddUp(w, f, s) /\ g[s] = AddUp(v, g, s)
  BY FS_Subset, FS_CardinalityType DEF Adds
<1>1. Bad = {}
  <2> SUFFICES ASSUME Bad # {} PROVE FALSE
    OBVIOUS
  <2>1. PICK s \in Bad : \A t \in Bad : Cardinality(s) <= Cardinality(t)
    BY <1>0, Smallest
  <2>2. s # {}
    BY <1>0 DEF AddUp
  <2> DEFINE x == CHOOSE x \in s : TRUE
  <2>3. x \in s
    BY <2>2
  <2> HIDE DEF x
  <2>4. f[s \ {x}] = g[s \ {x}]
    <3>1. Cardinality(s \ {x}) = Cardinality(s) - 1 /\ Cardinality(s) \in Nat
      BY <1>0, <2>3, OneLess
    <3> QED
      BY <2>1, <3>1
  <2>5. f[s] = w[x] + f[s \ {x}] /\ g[s] = v[x] + g[s \ {x}]
    BY <1>0, <2>2 DEF AddUp, x
  <2>6. w[x] = v[x]
    BY <2>3
  <2> QED
    BY <2>1, <2>4, <2>5, <2>6
<1> QED
  BY <1>1

LEMMA SumSame ==
  ASSUME NEW S, IsFiniteSet(S), NEW w, NEW v, \A x \in S : w[x] = v[x]
  PROVE  Sum(w, S) = Sum(v, S)
<1>1. Adds(w, Adder(w, S), S) /\ Adds(v, Adder(v, S), S)
  BY AdderExists
<1>2. Adder(w, S)[S] = Adder(v, S)[S]
  BY <1>1, AddersAgree
<1> QED
  BY <1>2 DEF Sum

LEMMA SumStep ==
  ASSUME NEW w, NEW S, IsFiniteSet(S), S # {}
  PROVE  \E x \in S : Sum(w, S) = w[x] + Sum(w, S \ {x})
<1> DEFINE x == CHOOSE x \in S : TRUE
<1>1. x \in S /\ IsFiniteSet(S \ {x})
  BY FS_RemoveElement
<1>2. Adder(w, S)[S \ {x}] = Adder(w, S \ {x})[S \ {x}]
  <2>1. Adds(w, Adder(w, S), S) /\ Adds(w, Adder(w, S \ {x}), S \ {x})
    BY <1>1, AdderExists
  <2> HIDE DEF x
  <2> QED
    BY <1>1, <2>1, AddersAgree
<1>3. Adder(w, S)[S] = w[x] + Adder(w, S)[S \ {x}]
  <2>1. Adds(w, Adder(w, S), S)
    BY AdderExists
  <2> DEFINE f == Adder(w, S)
  <2>2. f = [s \in SUBSET S |-> AddUp(w, f, s)]
    BY <2>1 DEF Adds
  <2> HIDE DEF f
  <2>3. f[S] = AddUp(w, f, S)
    BY <2>2
  <2>4. f[S] = w[x] + f[S \ {x}]
    BY <2>3 DEF AddUp
  <2> QED
    BY <2>4 DEF f
<1> QED
  BY <1>1, <1>2, <1>3 DEF Sum

Weighed(w, S) == IsFiniteSet(S) /\ \A x \in S : w[x] \in Nat

LEMMA SumNat ==
  ASSUME NEW w, NEW S, Weighed(w, S)
  PROVE  Sum(w, S) \in Nat /\ Sum(w, {}) = 0
<1>0. \A s \in SUBSET S : IsFiniteSet(s) /\ Cardinality(s) \in Nat
  BY FS_Subset, FS_CardinalityType DEF Weighed
<1>1. Sum(w, {}) = 0
  <2> DEFINE f == Adder(w, {})
  <2>1. Adds(w, f, {})
    BY AdderExists, FS_EmptySet
  <2> HIDE DEF f
  <2>2. f[{}] = AddUp(w, f, {})
    BY <2>1 DEF Adds
  <2> QED
    BY <2>2 DEF AddUp, Sum, f
<1> DEFINE Bad == {s \in SUBSET S : Sum(w, s) \notin Nat}
<1>2. Bad = {}
  <2> SUFFICES ASSUME Bad # {} PROVE FALSE
    OBVIOUS
  <2>1. PICK s \in Bad : \A t \in Bad : Cardinality(s) <= Cardinality(t)
    BY <1>0, Smallest
  <2>2. s # {}
    BY <1>1
  <2>3. PICK x \in s : Sum(w, s) = w[x] + Sum(w, s \ {x})
    BY <1>0, <2>2, SumStep
  <2>4. Sum(w, s \ {x}) \in Nat /\ w[x] \in Nat
    <3>1. Cardinality(s \ {x}) = Cardinality(s) - 1 /\ Cardinality(s) \in Nat
      BY <1>0, <2>3, OneLess
    <3> QED
      BY <2>1, <2>3, <3>1 DEF Weighed
  <2> QED
    BY <2>3, <2>4
<1> QED
  BY <1>1, <1>2

(* Any element adds its share to the rest.                                 *)
LEMMA SumRemove ==
  ASSUME NEW w, NEW S, Weighed(w, S), NEW i \in S
  PROVE  Sum(w, S) = w[i] + Sum(w, S \ {i})
<1>0. \A s \in SUBSET S : IsFiniteSet(s) /\ Cardinality(s) \in Nat /\ Weighed(w, s) /\ Sum(w, s) \in Nat
  <2>1. \A s \in SUBSET S : IsFiniteSet(s) /\ Cardinality(s) \in Nat /\ Weighed(w, s)
    BY FS_Subset, FS_CardinalityType DEF Weighed
  <2> QED
    BY <2>1, SumNat
<1> DEFINE Right(s) == \A y \in s : Sum(w, s) = w[y] + Sum(w, s \ {y})
           Bad == {s \in SUBSET S : ~Right(s)}
<1>1. Bad = {}
  <2> SUFFICES ASSUME Bad # {} PROVE FALSE
    OBVIOUS
  <2>1. PICK s \in Bad : \A t \in Bad : Cardinality(s) <= Cardinality(t)
    BY <1>0, Smallest
  <2>2. PICK y \in s : Sum(w, s) # w[y] + Sum(w, s \ {y})
    BY <2>1
  <2>3. PICK x \in s : Sum(w, s) = w[x] + Sum(w, s \ {x})
    BY <1>0, <2>2, SumStep
  <2>4. x # y
    BY <2>2, <2>3
  <2>5. ASSUME NEW z \in s PROVE Right(s \ {z})
    <3>1. Cardinality(s \ {z}) = Cardinality(s) - 1 /\ Cardinality(s) \in Nat
      BY <1>0, OneLess
    <3> QED
      BY <2>1, <3>1
  <2>6. Sum(w, s \ {x}) = w[y] + Sum(w, (s \ {x}) \ {y}) /\ Sum(w, s \ {y}) = w[x] + Sum(w, (s \ {y}) \ {x})
    BY <2>4, <2>5
  <2>7. Sum(w, (s \ {x}) \ {y}) = Sum(w, (s \ {y}) \ {x})
    <3>1. (s \ {x}) \ {y} = (s \ {y}) \ {x}
      OBVIOUS
    <3> QED
      BY <3>1
  <2>8. w[x] \in Nat /\ w[y] \in Nat /\ Sum(w, (s \ {x}) \ {y}) \in Nat
    BY <1>0 DEF Weighed
  <2> QED
    BY <2>2, <2>3, <2>6, <2>7, <2>8
<1> QED
  BY <1>1

(* A part and the rest add up to the whole.                                *)
LEMMA SumSplit ==
  ASSUME NEW w, NEW S, Weighed(w, S), NEW T \in SUBSET S
  PROVE  /\ Sum(w, S) = Sum(w, T) + Sum(w, S \ T)
         /\ Sum(w, S) \in Nat /\ Sum(w, T) \in Nat /\ Sum(w, S \ T) \in Nat
<1>0. \A s \in SUBSET S : IsFiniteSet(s) /\ Cardinality(s) \in Nat /\ Weighed(w, s) /\ Sum(w, s) \in Nat
  <2>1. \A s \in SUBSET S : IsFiniteSet(s) /\ Cardinality(s) \in Nat /\ Weighed(w, s)
    BY FS_Subset, FS_CardinalityType DEF Weighed
  <2> QED
    BY <2>1, SumNat
<1> DEFINE Bad == {t \in SUBSET T : Sum(w, S) # Sum(w, t) + Sum(w, S \ t)}
<1>1. Bad = {}
  <2> SUFFICES ASSUME Bad # {} PROVE FALSE
    OBVIOUS
  <2>1. PICK t \in Bad : \A u \in Bad : Cardinality(t) <= Cardinality(u)
    BY <1>0, Smallest
  <2>2. t # {}
    <3>1. Sum(w, {}) = 0 /\ S \ {} = S /\ Sum(w, S) \in Nat
      BY <1>0, SumNat
    <3>2. Sum(w, S) = Sum(w, {}) + Sum(w, S \ {})
      BY <3>1
    <3> QED
      BY <2>1, <3>2
  <2>3. PICK x \in t : TRUE
    BY <2>2
  <2>4. Sum(w, S) = Sum(w, t \ {x}) + Sum(w, S \ (t \ {x}))
    <3>1. Cardinality(t \ {x}) = Cardinality(t) - 1 /\ Cardinality(t) \in Nat
      BY <1>0, OneLess
    <3> QED
      BY <2>1, <3>1
  <2>5. Sum(w, t) = w[x] + Sum(w, t \ {x})
    BY <1>0, SumRemove
  <2>6. Sum(w, S \ (t \ {x})) = w[x] + Sum(w, S \ t)
    <3>1. (S \ (t \ {x})) \ {x} = S \ t /\ x \in S \ (t \ {x}) /\ S \ (t \ {x}) \in SUBSET S
      BY <2>3
    <3> QED
      BY <1>0, <3>1, SumRemove
  <2>7. w[x] \in Nat /\ Sum(w, t \ {x}) \in Nat /\ Sum(w, S \ t) \in Nat
    BY <1>0 DEF Weighed
  <2>8. Sum(w, S) # Sum(w, t) + Sum(w, S \ t)
    BY <2>1
  <2> HIDE DEF Bad
  <2> QED
    BY <2>4, <2>5, <2>6, <2>7, <2>8
<1> QED
  BY <1>0, <1>1

LEMMA SumUnion ==
  ASSUME NEW w, NEW S, NEW T, Weighed(w, S), Weighed(w, T), S \cap T = {}
  PROVE  Weighed(w, S \cup T) /\ Sum(w, S \cup T) = Sum(w, S) + Sum(w, T)
<1> DEFINE U == S \cup T
<1>1. Weighed(w, U)
  BY FS_Union DEF Weighed
<1>2. U \ S = T /\ S \in SUBSET U
  OBVIOUS
<1> HIDE DEF U
<1>3. Sum(w, U) = Sum(w, S) + Sum(w, U \ S)
  BY <1>1, <1>2, SumSplit
<1>4. Sum(w, U) = Sum(w, S) + Sum(w, T)
  BY <1>2, <1>3
<1> QED
  BY <1>1, <1>4 DEF U

(* Where each share is 1, the sum is the number of elements.               *)
LEMMA SumOnes ==
  ASSUME NEW w, NEW S, IsFiniteSet(S), \A x \in S : w[x] = 1
  PROVE  Sum(w, S) = Cardinality(S)
<1>0. \A s \in SUBSET S : IsFiniteSet(s) /\ Cardinality(s) \in Nat /\ Weighed(w, s)
  BY FS_Subset, FS_CardinalityType DEF Weighed
<1> DEFINE Bad == {s \in SUBSET S : Sum(w, s) # Cardinality(s)}
<1>1. Bad = {}
  <2> SUFFICES ASSUME Bad # {} PROVE FALSE
    OBVIOUS
  <2>1. PICK s \in Bad : \A t \in Bad : Cardinality(s) <= Cardinality(t)
    BY <1>0, Smallest
  <2>2. s # {}
    BY <1>0, SumNat, FS_EmptySet
  <2>3. PICK x \in s : Sum(w, s) = w[x] + Sum(w, s \ {x})
    BY <1>0, <2>2, SumStep
  <2>4. Cardinality(s \ {x}) = Cardinality(s) - 1 /\ Cardinality(s) \in Nat
    BY <1>0, <2>3, OneLess
  <2>5. Sum(w, s \ {x}) = Cardinality(s \ {x})
    BY <2>1, <2>4
  <2>6. w[x] = 1 /\ Sum(w, s) # Cardinality(s)
    BY <2>1, <2>3
  <2> HIDE DEF Bad
  <2> QED
    BY <2>3, <2>4, <2>5, <2>6
<1> QED
  BY <1>0, <1>1

(* Sums of sets that share nothing add up to the sum of all of them.       *)
LEMMA SumFamily ==
  ASSUME NEW C, IsFiniteSet(C), NEW w, NEW v, NEW B,
         \A c \in C : Weighed(w, B[c]) /\ v[c] = Sum(w, B[c]),
         \A c, e \in C : c # e => B[c] \cap B[e] = {}
  PROVE  Weighed(w, UNION {B[c] : c \in C}) /\ Sum(v, C) = Sum(w, UNION {B[c] : c \in C})
<1> DEFINE All(s) == UNION {B[c] : c \in s}
           Right(s) == Weighed(w, All(s)) /\ Sum(v, s) = Sum(w, All(s))
           Bad == {s \in SUBSET C : ~Right(s)}
<1>0. \A s \in SUBSET C : IsFiniteSet(s) /\ Cardinality(s) \in Nat
  BY FS_Subset, FS_CardinalityType
<1>1. Bad = {}
  <2> SUFFICES ASSUME Bad # {} PROVE FALSE
    OBVIOUS
  <2>1. PICK s \in Bad : \A t \in Bad : Cardinality(s) <= Cardinality(t)
    BY <1>0, Smallest
  <2>2. CASE s = {}
    <3>1. All(s) = {}
      BY <2>2
    <3>2. Weighed(w, {}) /\ Weighed(v, {})
      BY FS_EmptySet DEF Weighed
    <3>3. Sum(w, {}) = 0 /\ Sum(v, {}) = 0
      BY <3>2, SumNat
    <3> HIDE DEF All
    <3> QED
      BY <2>1, <2>2, <3>1, <3>2, <3>3
  <2>3. CASE s # {}
    <3>0. IsFiniteSet(s) /\ s \in SUBSET C
      BY <1>0, <2>1
    <3>1. PICK x \in s : Sum(v, s) = v[x] + Sum(v, s \ {x})
      BY <2>3, <3>0, SumStep
    <3>2. Right(s \ {x})
      <4>1. Cardinality(s \ {x}) = Cardinality(s) - 1 /\ Cardinality(s) \in Nat
        BY <3>0, OneLess
      <4> QED
        BY <1>0, <2>1, <3>0, <4>1
    <3>3. All(s) = B[x] \cup All(s \ {x})
      OBVIOUS
    <3>4. B[x] \cap All(s \ {x}) = {}
      BY <3>0
    <3>5. Weighed(w, B[x]) /\ v[x] = Sum(w, B[x])
      BY <3>0
    <3> HIDE DEF All
    <3>6. Weighed(w, All(s)) /\ Sum(w, All(s)) = Sum(w, B[x]) + Sum(w, All(s \ {x}))
      <4>1. Weighed(w, All(s \ {x}))
        BY <3>2
      <4>2. /\ Weighed(w, B[x] \cup All(s \ {x}))
            /\ Sum(w, B[x] \cup All(s \ {x})) = Sum(w, B[x]) + Sum(w, All(s \ {x}))
        <5> DEFINE S == B[x]
                   T == All(s \ {x})
        <5>1. Weighed(w, S) /\ Weighed(w, T) /\ S \cap T = {}
          BY <3>4, <3>5, <4>1
        <5> HIDE DEF S, T
        <5>2. Weighed(w, S \cup T) /\ Sum(w, S \cup T) = Sum(w, S) + Sum(w, T)
          BY ONLY <5>1, SumUnion
        <5> QED
          BY <5>2 DEF S, T
      <4> QED
        BY <3>3, <4>2
    <3>7. Right(s)
      BY <3>1, <3>2, <3>5, <3>6
    <3> QED
      BY <2>1, <3>7
  <2> QED
    BY <2>2, <2>3
<1> QED
  BY <1>1

-----------------------------------------------------------------------------
(* What a directory comes to.                                              *)

(* The share of a path: a directory's block, or the bytes of the file.     *)
Weight == [x \in Dirs \cup Names |-> IF x \in Dirs THEN Block ELSE Size[FileOf[x]]]

LEMMA PathsFinite ==
  /\ IsFiniteSet(Dirs) /\ \A S \in SUBSET Dirs : IsFiniteSet(S) /\ Cardinality(S) \in Nat
  /\ \A S \in SUBSET (Dirs \cup Names) : Weighed(Weight, S)
<1>1. IsFiniteSet(Dirs \cup Names)
  BY TreeAssumption
<1>2. \A S \in SUBSET (Dirs \cup Names) : IsFiniteSet(S) /\ Cardinality(S) \in Nat
  BY <1>1, FS_Subset, FS_CardinalityType
<1>3. \A x \in Dirs \cup Names : Weight[x] \in Nat
  BY TreeAssumption DEF Weight, Block
<1> QED
  BY <1>2, <1>3 DEF Weighed

LEMMA NameWeight == \A n \in Names : Weight[n] = Size[FileOf[n]] /\ n \notin Dirs
<1>1. Dirs \cap Names = {}
  BY TreeAssumption
<1> QED
  BY <1>1 DEF Weight

LEMMA FileSum ==
  ASSUME NEW S \in SUBSET Names
  PROVE  FileBytes(S) = Sum(Weight, S)
<1> DEFINE Body(f, s) == IF s = {} THEN 0 ELSE LET x == CHOOSE x \in s : TRUE IN Size[FileOf[x]] + f[s \ {x}]
           Is(f) == f = [s \in SUBSET S |-> Body(f, s)]
           g == CHOOSE f : Is(f)
           h == Adder(Weight, S)
<1>0. IsFiniteSet(S)
  BY NamesFinite
<1>1. FileBytes(S) = g[S]
  BY DEF FileBytes, MapThenSumSet, MapThenFoldSet
<1>2. ASSUME NEW f, NEW s \in SUBSET S PROVE Body(f, s) = AddUp(Weight, f, s)
  <2>1. CASE s = {}
    BY <2>1 DEF AddUp
  <2>2. CASE s # {}
    <3> DEFINE x == CHOOSE x \in s : TRUE
    <3>1. x \in Names
      BY <2>2
    <3>2. Weight[x] = Size[FileOf[x]]
      BY <3>1, NameWeight
    <3>3. Body(f, s) = Size[FileOf[x]] + f[s \ {x}] /\ AddUp(Weight, f, s) = Weight[x] + f[s \ {x}]
      BY <2>2 DEF AddUp
    <3> QED
      BY <3>2, <3>3
  <2> QED
    BY <2>1, <2>2
<1> HIDE DEF Body
<1>3. \A f : Is(f) <=> Adds(Weight, f, S)
  BY <1>2 DEF Adds
<1>4. Adds(Weight, h, S)
  BY <1>0, AdderExists
<1>5. Adds(Weight, g, S)
  <2>1. Is(h)
    BY <1>3, <1>4
  <2>2. Is(g)
    BY <2>1
  <2> HIDE DEF g
  <2> QED
    BY <1>3, <2>2
<1> HIDE DEF g, h
<1>6. g[S] = h[S]
  BY <1>0, <1>4, <1>5, AddersAgree
<1> QED
  BY <1>1, <1>6 DEF h, Sum

LEMMA ChildSum == \A d : ChildBytes(d) = Sum(rows, Children(d))
BY DEF ChildBytes, MapThenSumSet, MapThenFoldSet, Sum, Adder, Adds, AddUp

LEMMA ChildrenIn == \A d \in Dirs : /\ Children(d) \in SUBSET Dirs /\ IsFiniteSet(Children(d))
                                    /\ d \notin Children(d) /\ \A c \in Children(d) : d < c
<1>1. \A d \in Dirs : Children(d) \in SUBSET Dirs /\ d \notin Children(d) /\ \A c \in Children(d) : d < c
  BY TreeAssumption DEF Children
<1> QED
  BY <1>1, PathsFinite

LEMMA BytesNat ==
  /\ \A S \in SUBSET Names : FileBytes(S) \in Nat
  /\ rows \in [Dirs -> Nat] => \A d \in Dirs : ChildBytes(d) \in Nat
<1>1. ASSUME NEW S \in SUBSET Names PROVE FileBytes(S) \in Nat
  BY FileSum, PathsFinite, SumNat
<1>2. ASSUME rows \in [Dirs -> Nat], NEW d \in Dirs PROVE ChildBytes(d) \in Nat
  <2>1. Weighed(rows, Children(d))
    BY <1>2, ChildrenIn DEF Weighed
  <2>2. Sum(rows, Children(d)) \in Nat
    BY <2>1, SumNat
  <2> QED
    BY <2>2, ChildSum
<1> QED
  BY <1>1, <1>2

LEMMA SameChildren ==
  ASSUME NEW d \in Dirs, \A c \in Children(d) : rows'[c] = rows[c]
  PROVE  ChildBytes(d)' = ChildBytes(d)
<1>1. ChildBytes(d)' = Sum(rows', Children(d))
  BY DEF ChildBytes, MapThenSumSet, MapThenFoldSet, Sum, Adder, Adds, AddUp
<1>2. Sum(rows', Children(d)) = Sum(rows, Children(d))
  BY ChildrenIn, SumSame
<1> QED
  BY <1>1, <1>2, ChildSum

(* What a step does to the rows.                                           *)
RowsStep(d) ==
  \/ rows' = rows /\ (stage'[d] \in Back => stage[d] \in Back)
  \/ stage[d] = "new" /\ ~Fits(d) /\ rows' = [rows EXCEPT ![d] = Block]
  \/ stage[d] = "below" /\ counted' = counted
     /\ rows' = [rows EXCEPT ![d] = Block + FileBytes(NamesIn(d) \cap counted) + ChildBytes(d)]

LEMMA StepRows ==
  ASSUME Types, NEW d \in Dirs, Step(d)
  PROVE  RowsStep(d)
<1>0. Depth(d) \in Int /\ depthLimit \in Int /\ \A s : Go(d, s) => stage'[d] = s
  BY DepthInt DEF Types, Go
<1>1. CASE EnterStopped(d)
  BY <1>0, <1>1 DEF EnterStopped, RowsStep, Back
<1>2. CASE EnterDeep(d)
  BY <1>0, <1>2 DEF EnterDeep, Ready, RowsStep, Fits
<1>3. CASE EnterSealed(d)
  BY <1>3 DEF EnterSealed, Ready, RowsStep, Fits
<1>4. CASE EnterAgain(d)
  BY <1>0, <1>4 DEF EnterAgain, RowsStep, Back
<1>5. CASE EnterOpen(d)
  BY <1>0, <1>5 DEF EnterOpen, RowsStep, Back
<1>6. ASSUME NEW n \in Names, StatMissing(d, n) PROVE RowsStep(d)
  BY <1>6 DEF StatMissing, RowsStep
<1>7. ASSUME NEW n \in Names, Stat(d, n) PROVE RowsStep(d)
  BY <1>7 DEF Stat, RowsStep
<1>8. CASE StatsDone(d)
  BY <1>0, <1>8 DEF StatsDone, RowsStep, Back
<1>9. CASE LookFile(d)
  BY <1>0, <1>9 DEF LookFile, RowsStep, Back
<1>10. CASE PushFile(d)
  BY <1>0, <1>10 DEF PushFile, RowsStep, Back
<1>11. CASE Absorb(d)
  BY <1>11 DEF Absorb, RowsStep, FileBytes, ChildBytes
<1>12. CASE LookSelf(d)
  BY <1>12 DEF LookSelf, RowsStep, Back
<1>13. CASE PushSelf(d)
  BY <1>13 DEF PushSelf, RowsStep, Back
<1> QED
  BY <1>1, <1>2, <1>3, <1>4, <1>5, <1>6, <1>7, <1>8, <1>9, <1>10, <1>11, <1>12, <1>13 DEF Step

(* Only the directory that steps moves, and only its names are counted.    *)
LEMMA StepLocal ==
  ASSUME Types, OpenInv, NamesInv, NEW d \in Dirs, Step(d)
  PROVE  /\ \A e \in Dirs \ {d} : stage'[e] = stage[e] /\ todo'[e] = todo[e]
         /\ \A e \in Dirs : Fits(e)' <=> Fits(e)
         /\ Keeps /\ counted \subseteq counted'
         /\ \A n \in counted' \ counted : DirOf[n] = d /\ n \in Names /\ stage[d] = "stat" /\ stage' = stage
<1>1. CASE Enters(d)
  BY <1>1, KeepsFits DEF Enters, Skips, Bars, Opens, Turns, Types
<1>2. CASE Goes(d)
  BY <1>2, KeepsFits DEF Goes, LeavesStat, Offers, Rises, Ends, Turns, Types
<1>3. ASSUME NEW n \in Names, Counts(d, n)
      PROVE  /\ \A e \in Dirs \ {d} : stage'[e] = stage[e] /\ todo'[e] = todo[e]
             /\ \A e \in Dirs : Fits(e)' <=> Fits(e)
             /\ Keeps /\ counted \subseteq counted'
             /\ \A k \in counted' \ counted : DirOf[k] = d /\ k \in Names /\ stage[d] = "stat" /\ stage' = stage
  <2>1. DirOf[n] = d /\ counted \subseteq counted' /\ counted' \subseteq counted \cup {n}
    BY <1>3, TakenName
  <2>2. Keeps /\ stage' = stage /\ stage[d] = "stat" /\ todo' = [todo EXCEPT ![d] = @ \ {n}]
    BY <1>3 DEF Counts
  <2>3. \A e \in Dirs : Fits(e)' <=> Fits(e)
    BY <2>2, KeepsFits
  <2>4. \A e \in Dirs \ {d} : todo'[e] = todo[e]
    BY <2>2 DEF Types
  <2> QED
    BY <2>1, <2>2, <2>3, <2>4
<1> QED
  BY <1>1, <1>2, <1>3, StepKinds

LEMMA StepRowsInv ==
  ASSUME Types, OpenInv, NamesInv, rows \in [Dirs -> Nat], RowsInv, NEW d \in Dirs, Step(d)
  PROVE  RowsInv' /\ rows' \in [Dirs -> Nat]
<1>0. /\ \A e \in Dirs \ {d} : stage'[e] = stage[e]
      /\ \A e \in Dirs : Fits(e)' <=> Fits(e)
      /\ counted \subseteq counted'
      /\ \A n \in counted' \ counted : DirOf[n] = d /\ stage[d] = "stat" /\ stage' = stage
  BY StepLocal
<1>1. RowsStep(d)
  BY StepRows
<1>2. /\ \A e \in Dirs \ {d} : rows'[e] = rows[e]
      /\ rows' # rows => stage[d] \in {"new", "below"}
  BY <1>1 DEF RowsStep
<1>3. rows' \in [Dirs -> Nat]
  <2>1. FileBytes(NamesIn(d) \cap counted) \in Nat /\ ChildBytes(d) \in Nat /\ Block \in Nat
    BY BytesNat DEF Types, Block
  <2>2. Block + FileBytes(NamesIn(d) \cap counted) + ChildBytes(d) \in Nat
    BY <2>1
  <2> QED
    BY <1>1, <2>1, <2>2 DEF RowsStep
<1>4. ASSUME NEW e \in Dirs, stage[e] \in Back, rows'[e] = rows[e]
      PROVE  rows'[e] = IF Fits(e)' THEN Block + FileBytes(NamesIn(e) \cap counted') + ChildBytes(e)' ELSE Block
  <2>1. rows[e] = IF Fits(e) THEN Block + FileBytes(NamesIn(e) \cap counted) + ChildBytes(e) ELSE Block
    BY <1>4 DEF RowsInv
  <2>2. NamesIn(e) \cap counted' = NamesIn(e) \cap counted
    BY <1>0, <1>4 DEF NamesIn, Back
  <2>3. Fits(e) => ChildBytes(e)' = ChildBytes(e)
    <3> SUFFICES ASSUME Fits(e), NEW c \in Children(e) PROVE rows'[c] = rows[c]
      BY SameChildren
    <3>1. Opened(e)
      BY <1>4 DEF Opened, Fits, Back
    <3>2. stage[c] \in {"gone", "done"}
      BY <1>4, <3>1 DEF OpenInv, Children
    <3>3. c \in Dirs
      BY ChildrenIn
    <3> QED
      BY <1>2, <3>2, <3>3
  <2> QED
    BY <1>0, <1>4, <2>1, <2>2, <2>3
<1>5. ASSUME NEW e \in Dirs, stage'[e] \in Back
      PROVE  rows'[e] = IF Fits(e)' THEN Block + FileBytes(NamesIn(e) \cap counted') + ChildBytes(e)' ELSE Block
  <2>1. CASE e # d
    BY <1>0, <1>2, <1>4, <1>5, <2>1
  <2>2. CASE e = d /\ rows' = rows /\ stage[d] \in Back
    BY <1>4, <2>2
  <2>3. CASE e = d /\ stage[d] = "new" /\ ~Fits(d) /\ rows' = [rows EXCEPT ![d] = Block]
    BY <1>0, <2>3
  <2>4. CASE e = d /\ stage[d] = "below" /\ counted' = counted
             /\ rows' = [rows EXCEPT ![d] = Block + FileBytes(NamesIn(d) \cap counted) + ChildBytes(d)]
    <3>1. Fits(d)
      BY <2>4 DEF OpenInv, Inside
    <3>2. ChildBytes(d)' = ChildBytes(d)
      BY <1>2, ChildrenIn, SameChildren
    <3>3. rows'[d] = Block + FileBytes(NamesIn(d) \cap counted) + ChildBytes(d)
      BY <2>4
    <3> QED
      BY <1>0, <2>4, <3>1, <3>2, <3>3
  <2> QED
    BY <1>1, <1>5, <2>1, <2>2, <2>3, <2>4 DEF RowsStep
<1> QED
  BY <1>3, <1>5 DEF RowsInv

-----------------------------------------------------------------------------
(* A list that rows are offered to.                                        *)

LEMMA CoversMore ==
  ASSUME NEW P \in SUBSET Item, IsFiniteSet(P), top \in Nat, top > 0, NEW list \in Lists,
         Covers(list, {}, P), NEW r \in Item \ P
  PROVE  /\ Covers(list, {r}, P \cup {r}) /\ P \cup {r} \in SUBSET Item /\ IsFiniteSet(P \cup {r})
<1>1. Covers(list, {} \cup {r}, P \cup {r})
  BY CoversWait
<1> QED
  BY <1>1, FS_AddElement

LEMMA CoversUnwanted ==
  ASSUME NEW P \in SUBSET Item, IsFiniteSet(P), top \in Nat, top > 0, NEW list \in Lists,
         NEW wait, Covers(list, wait, P), NEW less \in SUBSET wait,
         NEW r \in Item, ~Wants(list, r.key), \A b \in wait \ less : b = r \/ Ahead(r, b)
  PROVE  Covers(list, less, P)
<1>1. list.floor.key > r.key /\ r.key \in Nat
  BY TreeAssumption DEF Wants, Lists, NoFloor, Row, Item
<1>2. list.floor # NoFloor
  BY <1>1 DEF NoFloor, Row
<1>3. wait \subseteq P /\ list.floor \in P
  BY <1>2 DEF Covers, CoversFor
<1>4. \A b \in wait \ less : Ahead(list.floor, b)
  <2> SUFFICES ASSUME NEW b \in wait \ less PROVE Ahead(list.floor, b)
    OBVIOUS
  <2>1. Ahead(list.floor, r) /\ list.floor \in Item /\ b \in Item
    BY <1>1, <1>3 DEF Ahead
  <2> QED
    BY <2>1, AheadOrder
<1> QED
  BY <1>2, <1>4, CoversSkip

LEMMA CoversTurned ==
  ASSUME NEW P \in SUBSET Item, IsFiniteSet(P), top \in Nat, top > 0, NEW list \in Lists,
         NEW wait, Covers(list, wait, P), NEW less \in SUBSET wait,
         NEW r \in wait, ~Takes(list, r), \A b \in wait \ less : b = r \/ Ahead(r, b)
  PROVE  Covers(list, less, P)
<1>1. list.floor # NoFloor /\ Ahead(list.floor, r)
  BY Refused
<1>2. wait \subseteq P /\ list.floor \in P
  BY <1>1 DEF Covers, CoversFor
<1>3. \A b \in wait \ less : Ahead(list.floor, b)
  BY <1>1, <1>2, AheadOrder
<1> QED
  BY <1>1, <1>3, CoversSkip

(* A push gives a list again.                                              *)
LEMMA PushedList ==
  ASSUME NEW list \in Lists, NEW r \in Item, IsFiniteSet(list.items), top \in Nat, top > 0
  PROVE  Pushed(list, r) \in Lists
<1> DEFINE more == [list EXCEPT !.items = @ \cup {r}]
<1>1. more \in Lists /\ more.items = list.items \cup {r}
  BY DEF Lists
<1>2. IsFiniteSet(more.items) /\ more.items \in SUBSET Item
  BY <1>1, FS_AddElement DEF Lists
<1>3. Pushed(list, r) = IF ~Takes(list, r) THEN list
                        ELSE IF top <= SortedInsertCap \/ Cardinality(more.items) >= 2 * top
                          THEN Cut(more) ELSE more
  BY DEF Pushed
<1> HIDE DEF more
<1>4. Cut(more) \in Lists
  <2> DEFINE kept == Best(more.items, top)
  <2>1. kept \in SUBSET more.items /\ IsFiniteSet(kept) /\ kept \in SUBSET Item
    BY <1>2, BestSize
  <2>2. Cut(more) = [items |-> kept,
                     floor |-> IF Cardinality(kept) = top
                                 THEN CHOOSE a \in kept : \A b \in kept \ {a} : Ahead(b, a)
                                 ELSE more.floor]
    BY DEF Cut
  <2> HIDE DEF kept
  <2>3. CASE Cardinality(kept) = top
    <3>1. kept # {}
      BY <2>3, FS_EmptySet
    <3>2. \E a \in kept : \A b \in kept \ {a} : Ahead(b, a)
      BY <2>1, <3>1, Hindmost
    <3> DEFINE z == CHOOSE a \in kept : \A b \in kept \ {a} : Ahead(b, a)
    <3>3. z \in kept
      BY <3>2
    <3>4. Cut(more) = [items |-> kept, floor |-> z]
      BY <2>2, <2>3
    <3> HIDE DEF z
    <3> QED
      BY <2>1, <3>3, <3>4 DEF Lists
  <2>4. CASE Cardinality(kept) # top
    <3>1. Cut(more) = [items |-> kept, floor |-> more.floor]
      BY <2>2, <2>4
    <3> QED
      BY <1>1, <2>1, <3>1 DEF Lists
  <2> QED
    BY <2>3, <2>4
<1> QED
  BY <1>1, <1>3, <1>4

LEMMA CoversOffer ==
  ASSUME NEW P \in SUBSET Item, IsFiniteSet(P), top \in Nat, top > 0, NEW list \in Lists,
         Covers(list, {}, P), NEW r \in Item \ P
  PROVE  Covers(Pushed(list, r), {}, P \cup {r}) /\ Pushed(list, r) \in Lists
<1>1. Covers(list, {r}, P \cup {r}) /\ P \cup {r} \in SUBSET Item /\ IsFiniteSet(P \cup {r})
  BY CoversMore
<1>2. list.items \in SUBSET P
  BY DEF Covers, CoversFor
<1>3. Pushed(list, r) \in Lists
  BY <1>2, FS_Subset, PushedList
<1>4. CASE Takes(list, r)
  <2>1. Covers(Pushed(list, r), {r} \ {r}, P \cup {r})
    BY <1>1, <1>4, CoversPush
  <2>2. {r} \ {r} = {}
    OBVIOUS
  <2> QED
    BY <1>3, <2>1, <2>2
<1>5. CASE ~Takes(list, r)
  <2>1. Covers(list, {}, P \cup {r})
    BY <1>1, <1>5, CoversTurned
  <2>2. Pushed(list, r) = list
    BY <1>5 DEF Pushed
  <2> QED
    BY <1>3, <2>1, <2>2
<1> QED
  BY <1>4, <1>5

-----------------------------------------------------------------------------
(* The rows of directories.                                                *)

(* What a step does to the list of directories.                            *)
DirsStep(d) ==
  \/ /\ topDirs' = topDirs /\ stage[d] # "done" /\ stage'[d] # "done"
     /\ stage'[d] \in {"self", "pushself"} =>
          \/ stage[d] \in {"self", "pushself"}
          \/ Depth(d) <= depthLimit /\ (IF d \in sealed THEN d # Root ELSE Offered(d, rows'))
  \/ /\ topDirs' = topDirs /\ stage[d] \notin {"done", "self", "pushself"} /\ stage'[d] = "done"
     /\ Depth(d) > depthLimit \/ (d \in sealed /\ d = Root) \/ (d \notin sealed /\ ~Offered(d, rows'))
  \/ /\ topDirs' = topDirs /\ stage[d] = "self" /\ stage'[d] = "done"
     /\ ~Wants(topDirs, rows[d]) /\ rows' = rows
  \/ /\ stage[d] = "pushself" /\ stage'[d] = "done"
     /\ topDirs' = Pushed(topDirs, Row(d, rows[d])) /\ rows' = rows

LEMMA StepDirs ==
  ASSUME Types, OpenInv, NEW d \in Dirs, Step(d)
  PROVE  DirsStep(d)
<1>0. /\ Depth(d) \in Int /\ depthLimit \in Int /\ \A s : Go(d, s) => stage'[d] = s
      /\ stage[d] \in Inside => Fits(d)
  BY DepthInt DEF Types, Go, OpenInv
<1>1. CASE EnterStopped(d)
  BY <1>0, <1>1 DEF EnterStopped, Ready, DirsStep
<1>2. CASE EnterDeep(d)
  BY <1>0, <1>2 DEF EnterDeep, Ready, DirsStep
<1>3. CASE EnterSealed(d)
  BY <1>0, <1>3 DEF EnterSealed, Ready, DirsStep
<1>4. CASE EnterAgain(d)
  BY <1>0, <1>4 DEF EnterAgain, Ready, DirsStep
<1>5. CASE EnterOpen(d)
  BY <1>0, <1>5 DEF EnterOpen, Ready, DirsStep
<1>6. ASSUME NEW n \in Names, StatMissing(d, n) PROVE DirsStep(d)
  BY <1>6 DEF StatMissing, Listed, DirsStep
<1>7. ASSUME NEW n \in Names, Stat(d, n) PROVE DirsStep(d)
  BY <1>7 DEF Stat, Listed, DirsStep
<1>8. CASE StatsDone(d)
  BY <1>0, <1>8 DEF StatsDone, DirsStep
<1>9. CASE LookFile(d)
  BY <1>0, <1>9 DEF LookFile, DirsStep
<1>10. CASE PushFile(d)
  BY <1>0, <1>10 DEF PushFile, DirsStep
<1>11. CASE Absorb(d)
  <2>1. Fits(d)
    BY <1>0, <1>11 DEF Absorb, Inside
  <2>2. topDirs' = topDirs /\ stage[d] = "below" /\ stage'[d] = IF Offered(d, rows') THEN "self" ELSE "done"
    BY <1>0, <1>11 DEF Absorb
  <2> QED
    BY <2>1, <2>2 DEF DirsStep, Fits
<1>12. CASE LookSelf(d)
  BY <1>0, <1>12 DEF LookSelf, DirsStep
<1>13. CASE PushSelf(d)
  BY <1>0, <1>13 DEF PushSelf, DirsStep
<1> QED
  BY <1>1, <1>2, <1>3, <1>4, <1>5, <1>6, <1>7, <1>8, <1>9, <1>10, <1>11, <1>12, <1>13 DEF Step

LEMMA StepFrom ==
  ASSUME NEW d \in Dirs, Step(d), Types
  PROVE  stage[d] \notin {"gone", "done"}
<1>1. Enters(d) => stage[d] = "new"
  BY DEF Enters
<1>2. Goes(d) => stage[d] \notin {"gone", "done"}
  BY DEF Goes, LeavesStat, Offers, Rises, Ends
<1>3. \A n \in Names : Counts(d, n) => stage[d] = "stat"
  BY DEF Counts
<1> QED
  BY <1>1, <1>2, <1>3, StepKinds

(* Whether a directory may have a row depends on its own and those below.  *)
LEMMA ShowSame ==
  ASSUME Keeps, NEW e \in Dirs, rows'[e] = rows[e],
         Fits(e) => \A c \in Children(e) : rows'[c] = rows[c] /\ (Opened(c)' <=> Opened(c))
  PROVE  MayShow(e)' <=> MayShow(e)
<1>0. depthLimit' = depthLimit /\ sealed' = sealed
  BY DEF Keeps
<1>1. CASE Fits(e)
  <2>1. {c \in Children(e) : Opened(c)' /\ Listing(c) /\ rows'[c] >= MinSize}
          = {c \in Children(e) : Opened(c) /\ Listing(c) /\ rows[c] >= MinSize}
    BY <1>1
  <2>2. {rows'[c] : c \in {x \in Children(e) : Opened(x)' /\ Listing(x) /\ rows'[x] >= MinSize}}
          = {rows[c] : c \in {x \in Children(e) : Opened(x) /\ Listing(x) /\ rows[x] >= MinSize}}
    BY <1>1, <2>1
  <2>3. LargestChild(e, rows)' = LargestChild(e, rows)
    BY <2>2 DEF LargestChild
  <2>4. Offered(e, rows)' <=> Offered(e, rows)
    BY <2>3 DEF Offered
  <2> QED
    BY <1>0, <2>4 DEF MayShow, Depth
<1>2. CASE ~Fits(e)
  BY <1>0, <1>2 DEF MayShow, Fits, Depth
<1> QED
  BY <1>1, <1>2

(* A directory that has its sum keeps it, and what it may show.            *)
LEMMA BackShow ==
  ASSUME Types, OpenInv, NamesInv, rows \in [Dirs -> Nat], NEW d \in Dirs, Step(d),
         NEW e \in Dirs, stage[e] \in Back
  PROVE  rows'[e] = rows[e] /\ (MayShow(e)' <=> MayShow(e)) /\ stage'[e] \in Back
<1>0. /\ \A x \in Dirs \ {d} : stage'[x] = stage[x]
      /\ \A x \in Dirs : Fits(x)' <=> Fits(x)
      /\ Keeps
  BY StepLocal
<1>1. \A x \in Dirs : Opened(x)' <=> Opened(x) \/ (x = d /\ stage[d] = "new" /\ Opened(d)')
  <2>1. Enters(d) => stage[d] = "new"
    BY DEF Enters
  <2>2. \A n \in Names : Counts(d, n) => \A x \in Dirs : Opened(x)' <=> Opened(x)
    BY CountsOpened
  <2> QED
    BY <2>1, <2>2, EntersOpened, GoesOpened, StepKinds
<1>2. \A x \in Dirs : x # d \/ stage[d] \in Back => rows'[x] = rows[x]
  BY StepRows DEF RowsStep, Back
<1>3. ASSUME Fits(e), NEW c \in Children(e)
      PROVE  rows'[c] = rows[c] /\ (Opened(c)' <=> Opened(c))
  <2>1. Opened(e) /\ c \in Dirs /\ c # Root /\ Up[c] = e
    BY <1>3 DEF Opened, Fits, Back, Children
  <2>2. stage[c] \in {"gone", "done"}
    BY <2>1 DEF OpenInv
  <2>3. c # d
    BY <2>2, StepFrom
  <2> QED
    BY <1>1, <1>2, <2>1, <2>3
<1>4. rows'[e] = rows[e]
  BY <1>2
<1>5. stage'[e] \in Back
  <2>1. CASE e # d
    BY <1>0, <2>1
  <2>2. CASE e = d
    <3>1. stage[d] \notin {"new", "stat"} /\ ~Offers(d) /\ ~Rises(d)
      BY <2>2 DEF Back, Offers, Rises
    <3>2. Goes(d) /\ Ends(d)
      BY <3>1, StepKinds DEF Enters, Counts, Goes, LeavesStat
    <3> QED
      BY <2>2, <3>2 DEF Ends, Turns, Types, Back
  <2> QED
    BY <2>1, <2>2
<1> QED
  BY <1>0, <1>3, <1>4, <1>5, ShowSame

LEMMA DoneIn ==
  ASSUME rows \in [Dirs -> Nat]
  PROVE  /\ DoneRows \in SUBSET Item /\ IsFiniteSet(DoneRows)
         /\ \A d \in Dirs : Row(d, rows[d]) \in Item
         /\ \A d \in Dirs : stage[d] # "done" => Row(d, rows[d]) \notin DoneRows
<1> DEFINE S == {e \in Dirs : stage[e] = "done" /\ MayShow(e)}
<1>1. [d \in S |-> Row(d, rows[d])] \in Surjection(S, DoneRows)
  BY DEF DoneRows, Surjection
<1>2. IsFiniteSet(S)
  BY PathsFinite
<1> HIDE DEF S
<1>3. IsFiniteSet(DoneRows)
  BY <1>1, <1>2, FS_Surjection
<1>4. \A d \in Dirs : Row(d, rows[d]) \in Item
  BY DEF Row, Item
<1>5. \A d, e \in Dirs : Row(d, rows[d]) = Row(e, rows[e]) => d = e
  BY DEF Row
<1> QED
  BY <1>3, <1>4, <1>5 DEF DoneRows

(* What is offered when the subdirectories are back.                       *)
LEMMA OfferSame ==
  ASSUME Types, NEW d \in Dirs, Step(d), stage[d] = "below"
  PROVE  Offered(d, rows)' <=> Offered(d, rows')
<1>1. \A c \in Children(d) : Opened(c)' <=> Opened(c)
  <2>1. Goes(d)
    BY StepKinds DEF Enters, Counts
  <2> QED
    BY <2>1, GoesOpened, ChildrenIn
<1>2. {x \in Children(d) : Opened(x)' /\ Listing(x) /\ rows'[x] >= MinSize}
        = {x \in Children(d) : Opened(x) /\ Listing(x) /\ rows'[x] >= MinSize}
  BY <1>1
<1>3. LargestChild(d, rows)' = LargestChild(d, rows')
  BY <1>2 DEF LargestChild
<1> QED
  BY <1>3 DEF Offered

LEMMA StepDirsInv ==
  ASSUME Types, OpenInv, NamesInv, rows \in [Dirs -> Nat], top > 0, DirsInv, NEW d \in Dirs, Step(d)
  PROVE  DirsInv'
<1>0. /\ \A e \in Dirs \ {d} : stage'[e] = stage[e]
      /\ top \in Nat /\ top' = top /\ depthLimit' = depthLimit /\ sealed' = sealed /\ Keeps
  BY StepLocal DEF Keeps, Types
<1>1. \A e \in Dirs : stage[e] \in Back =>
        rows'[e] = rows[e] /\ (MayShow(e)' <=> MayShow(e)) /\ stage'[e] \in Back
  BY BackShow
<1>2. DirsStep(d)
  BY StepDirs
<1>3. stage[d] \notin {"gone", "done"}
  BY StepFrom
<1>4. \A e \in Dirs : stage'[e] \in {"self", "pushself"} => MayShow(e)'
  <2> SUFFICES ASSUME NEW e \in Dirs, stage'[e] \in {"self", "pushself"} PROVE MayShow(e)'
    OBVIOUS
  <2>1. CASE e # d
    BY <1>0, <1>1, <2>1 DEF DirsInv, Back
  <2>2. CASE e = d /\ stage[d] \in {"self", "pushself"}
    BY <1>1, <2>2 DEF DirsInv, Back
  <2>3. CASE e = d /\ stage[d] \notin {"self", "pushself"}
    <3>1. Depth(d) <= depthLimit /\ (IF d \in sealed THEN d # Root ELSE Offered(d, rows'))
      BY <1>2, <2>3 DEF DirsStep
    <3>2. \/ stage[d] = "new" /\ ~Fits(d)
          \/ stage[d] = "below"
      BY <1>3, <2>3, StepRows DEF RowsStep, Back
    <3>3. CASE d \in sealed
      BY <1>0, <2>3, <3>1, <3>3 DEF MayShow, Depth
    <3>4. CASE d \notin sealed
      <4>1. stage[d] = "below"
        BY <3>1, <3>2, <3>4 DEF Fits
      <4>5. Offered(d, rows)' <=> Offered(d, rows')
        BY <4>1, OfferSame
      <4> QED
        BY <1>0, <2>3, <3>1, <3>4, <4>5 DEF MayShow, Depth
    <3> QED
      BY <3>3, <3>4
  <2> QED
    BY <2>1, <2>2, <2>3
<1> DEFINE r == Row(d, rows[d])
<1>5. \A e \in Dirs \ {d} : stage[e] = "done" =>
        rows'[e] = rows[e] /\ (MayShow(e)' <=> MayShow(e))
  BY <1>1 DEF Back
<1>6. ASSUME stage'[d] = "done" => ~MayShow(d)' PROVE DoneRows' = DoneRows
  <2>1. {e \in Dirs : stage'[e] = "done" /\ MayShow(e)'} = {e \in Dirs : stage[e] = "done" /\ MayShow(e)}
    BY <1>0, <1>3, <1>5, <1>6
  <2>2. \A e \in {x \in Dirs : stage[x] = "done" /\ MayShow(x)} : Row(e, rows'[e]) = Row(e, rows[e])
    BY <1>3, <1>5
  <2> QED
    BY <2>1, <2>2 DEF DoneRows
<1>7. ASSUME stage'[d] = "done", MayShow(d)', rows'[d] = rows[d] PROVE DoneRows' = DoneRows \cup {r}
  <2>1. {e \in Dirs : stage'[e] = "done" /\ MayShow(e)'}
          = {e \in Dirs : stage[e] = "done" /\ MayShow(e)} \cup {d}
    BY <1>0, <1>3, <1>5, <1>7
  <2>2. \A e \in {x \in Dirs : stage[x] = "done" /\ MayShow(x)} \cup {d} : Row(e, rows'[e]) = Row(e, rows[e])
    BY <1>3, <1>5, <1>7
  <2> QED
    BY <2>1, <2>2 DEF DoneRows
<1>8. DoneRows \in SUBSET Item /\ IsFiniteSet(DoneRows) /\ r \in Item \ DoneRows
  BY <1>3, DoneIn
<1>9. topDirs \in Lists /\ Covers(topDirs, {}, DoneRows)
  BY DEF DirsInv
<1> HIDE DEF r
<1>10. CASE topDirs' = topDirs /\ (stage'[d] = "done" => ~MayShow(d)')
  BY <1>0, <1>4, <1>6, <1>9, <1>10 DEF DirsInv, Covers
<1>11. CASE stage[d] \in {"self", "pushself"} /\ stage'[d] = "done"
  <2>1. DoneRows' = DoneRows \cup {r}
    BY <1>1, <1>7, <1>11 DEF DirsInv, Back
  <2>2. CASE topDirs' = topDirs /\ ~Wants(topDirs, rows[d])
    <3>1. Covers(topDirs, {r}, DoneRows \cup {r}) /\ DoneRows \cup {r} \in SUBSET Item /\ IsFiniteSet(DoneRows \cup {r})
      BY <1>0, <1>8, <1>9, CoversMore
    <3>2. ~Wants(topDirs, r.key)
      BY <2>2 DEF r, Row
    <3>3. Covers(topDirs, {}, DoneRows \cup {r})
      BY <1>0, <1>8, <1>9, <3>1, <3>2, CoversUnwanted
    <3> QED
      BY <1>0, <1>4, <1>9, <2>1, <2>2, <3>3 DEF DirsInv, Covers
  <2>3. CASE topDirs' = Pushed(topDirs, r)
    <3>1. Covers(Pushed(topDirs, r), {}, DoneRows \cup {r}) /\ Pushed(topDirs, r) \in Lists
      BY <1>0, <1>8, <1>9, CoversOffer
    <3> QED
      BY <1>0, <1>4, <2>1, <2>3, <3>1 DEF DirsInv, Covers
  <2> QED
    BY <1>2, <1>11, <2>2, <2>3 DEF DirsStep, r
<1>12. CASE ~(stage[d] \in {"self", "pushself"} /\ stage'[d] = "done")
  <2>1. topDirs' = topDirs
    BY <1>2, <1>12 DEF DirsStep
  <2>2. ASSUME stage'[d] = "done" PROVE ~MayShow(d)'
    <3>1. Depth(d) > depthLimit \/ (d \in sealed /\ d = Root) \/ (d \notin sealed /\ ~Offered(d, rows'))
      BY <1>2, <1>12, <2>2 DEF DirsStep
    <3>2. Depth(d) \in Int /\ depthLimit \in Int
      BY DepthInt DEF Types
    <3>3. CASE Depth(d) > depthLimit
      BY <1>0, <3>2, <3>3 DEF MayShow, Depth
    <3>4. CASE d \in sealed /\ d = Root
      BY <1>0, <3>4 DEF MayShow
    <3>5. CASE d \notin sealed /\ ~Offered(d, rows') /\ Depth(d) <= depthLimit
      <4>1. stage[d] = "below"
        BY <1>3, <1>12, <2>2, <3>5, StepRows DEF RowsStep, Back, Fits
      <4>2. Offered(d, rows)' <=> Offered(d, rows')
        BY <4>1, OfferSame
      <4> QED
        BY <1>0, <3>5, <4>2 DEF MayShow
    <3> QED
      BY <3>1, <3>2, <3>3, <3>4, <3>5
  <2> QED
    BY <1>10, <2>1, <2>2
<1> QED
  BY <1>11, <1>12

-----------------------------------------------------------------------------
(* The rows of files.                                                      *)

LEMMA RowOfName ==
  /\ \A n \in Names : FileRow(n) \in Item /\ FileRow(n).path = n
  /\ \A n, k \in Names : FileRow(n) = FileRow(k) => n = k
<1>1. \A n \in Names : FileRow(n) = [path |-> n, key |-> Size[FileOf[n]]] /\ Size[FileOf[n]] \in Nat
  BY TreeAssumption DEF FileRow, Row
<1>2. \A n \in Names : FileRow(n) \in Item /\ FileRow(n).path = n
  BY <1>1 DEF Item
<1> QED
  BY <1>2

LEMMA RowsOf ==
  ASSUME NEW S \in SUBSET Names
  PROVE  /\ {FileRow(n) : n \in S} \in SUBSET Item /\ IsFiniteSet({FileRow(n) : n \in S})
<1> DEFINE R == {FileRow(n) : n \in S}
<1>1. [n \in S |-> FileRow(n)] \in Surjection(S, R)
  BY DEF Surjection
<1>2. IsFiniteSet(S)
  BY NamesFinite
<1>3. R \in SUBSET Item
  BY RowOfName
<1> HIDE DEF R
<1>4. IsFiniteSet(R)
  BY <1>1, <1>2, FS_Surjection
<1> QED
  BY <1>3, <1>4 DEF R

LEMMA InnerIs ==
  ASSUME NEW S \in SUBSET Names
  PROVE  /\ Inner(S) \in SUBSET Item /\ IsFiniteSet(Inner(S))
         /\ \A n \in Names : FileRow(n) \in Inner(S) <=> n \in S /\ InnerListing(DirOf[n])
         /\ \A r \in Inner(S) : \E n \in S : r = FileRow(n) /\ InnerListing(DirOf[n])
<1> DEFINE T == {k \in S : InnerListing(DirOf[k])}
<1>1. T \in SUBSET Names /\ Inner(S) = {FileRow(n) : n \in T}
  BY DEF Inner
<1>2. \A n \in Names : n \in T <=> n \in S /\ InnerListing(DirOf[n])
  OBVIOUS
<1>3. \A n \in T : n \in S /\ InnerListing(DirOf[n])
  OBVIOUS
<1> HIDE DEF T
<1>4. Inner(S) \in SUBSET Item /\ IsFiniteSet(Inner(S))
  BY <1>1, RowsOf
<1>5. \A n \in Names : FileRow(n) \in Inner(S) <=> n \in T
  BY <1>1, RowOfName
<1> QED
  BY <1>1, <1>2, <1>3, <1>4, <1>5

(* The candidate that is offered next is the largest.                      *)
LEMMA BestOfIs ==
  ASSUME cands \subseteq Names, NEW d \in Dirs, Candidates(d) # {}
  PROVE  /\ BestOf(d) \in Candidates(d)
         /\ \A k \in Candidates(d) : k = BestOf(d) \/ Ahead(FileRow(BestOf(d)), FileRow(k))
<1> DEFINE C == Candidates(d)
           R == {FileRow(n) : n \in C}
           IsBest(n) == \A k \in C \ {n} : Ahead(FileRow(n), FileRow(k))
<1>0. C \in SUBSET Names
  BY DEF Candidates
<1>1. R \in SUBSET Item /\ IsFiniteSet(R) /\ R # {}
  <2>1. R # {}
    OBVIOUS
  <2> HIDE DEF C
  <2> QED
    BY <1>0, <2>1, RowsOf
<1>2. PICK a \in R : \A b \in R \ {a} : Ahead(a, b)
  <2> HIDE DEF R
  <2> QED
    BY <1>1, Foremost
<1>3. PICK n \in C : a = FileRow(n)
  BY <1>2
<1>4. IsBest(n)
  <2> SUFFICES ASSUME NEW k \in C \ {n} PROVE Ahead(FileRow(n), FileRow(k))
    OBVIOUS
  <2>1. FileRow(k) # FileRow(n)
    BY <1>0, RowOfName
  <2> QED
    BY <1>2, <1>3, <2>1
<1>5. BestOf(d) = CHOOSE m \in C : IsBest(m)
  BY DEF BestOf
<1> HIDE DEF C
<1>6. BestOf(d) \in C /\ IsBest(BestOf(d))
  BY <1>3, <1>4, <1>5
<1> QED
  BY <1>6 DEF C

(* Steps that leave the rows of files alone.                               *)
FilesStay(d) ==
  /\ UNCHANGED <<cands, counted, topFiles>>
  /\ \A e \in Dirs \ {d} : stage'[e] = stage[e]
  /\ \/ stage' = stage
     \/ stage[d] \notin {"stat", "offer", "push"} /\ stage'[d] \notin {"offer", "push"}
     \/ stage[d] = "offer" /\ stage'[d] = "push"

LEMMA StayFiles ==
  ASSUME Types, top' = top, FilesInv, NEW d \in Dirs, FilesStay(d)
  PROVE  FilesInv'
<1>0. cands' = cands /\ counted' = counted /\ topFiles' = topFiles
  BY DEF FilesStay
<1>1. \A n \in cands : DirOf[n] \in Dirs /\ n \in Names
  BY FileIn DEF FilesInv, Types
<1>2. \A n \in cands' : Listing(DirOf[n]) /\ stage'[DirOf[n]] \in {"stat", "offer", "push"}
                      /\ (stage'[DirOf[n]] # "stat" => InnerListing(DirOf[n]))
  BY <1>0, <1>1 DEF FilesInv, FilesStay
<1>3. \A e \in Dirs : stage'[e] \in {"offer", "push"} => Candidates(e)' # {}
  <2>1. \A e \in Dirs : Candidates(e)' = Candidates(e)
    BY <1>0 DEF Candidates
  <2> QED
    BY <2>1 DEF FilesInv, FilesStay
<1>4. Covers(topFiles, Inner(cands), Inner(counted))'
  BY <1>0 DEF FilesInv, Covers, Inner
<1> QED
  BY <1>0, <1>2, <1>3, <1>4 DEF FilesInv

(* A name is counted.                                                      *)
LEMMA StatFiles ==
  ASSUME Types, OpenInv, NamesInv, top > 0, FilesInv, NEW d \in Dirs, NEW n \in Names, Stat(d, n)
  PROVE  FilesInv'
<1>0. /\ stage[d] = "stat" /\ stage' = stage /\ top' = top /\ topFiles' = topFiles /\ top \in Nat
      /\ n \in todo[d]
  BY DEF Stat, Listed, input, Types
<1>1. n \notin counted /\ DirOf[n] = d
  BY <1>0 DEF NamesInv
<1>2. \/ counted' = counted /\ cands' = cands
      \/ /\ counted' = counted \cup {n}
         /\ cands' = IF Listing(d) /\ Wants(topFiles, Size[FileOf[n]]) THEN cands \cup {n} ELSE cands
  BY DEF Stat
<1>3. CASE counted' = counted /\ cands' = cands
  BY <1>0, <1>3, StayFiles DEF FilesStay
<1>4. CASE /\ counted' = counted \cup {n}
           /\ cands' = IF Listing(d) /\ Wants(topFiles, Size[FileOf[n]]) THEN cands \cup {n} ELSE cands
  <2>0. /\ cands \in SUBSET Names /\ counted \in SUBSET Names /\ counted' \in SUBSET Names
        /\ cands' \in SUBSET Names /\ cands' \subseteq counted' /\ n \notin cands
    BY <1>1, <1>4 DEF FilesInv, Types
  <2>1. \A k \in cands' : Listing(DirOf[k]) /\ stage'[DirOf[k]] \in {"stat", "offer", "push"}
                      /\ (stage'[DirOf[k]] # "stat" => InnerListing(DirOf[k]))
    BY <1>0, <1>1, <1>4 DEF FilesInv
  <2>2. \A e \in Dirs : stage'[e] \in {"offer", "push"} => Candidates(e)' # {}
    BY <1>0, <1>4 DEF FilesInv, Candidates
  <2> DEFINE r == FileRow(n)
             P == Inner(counted)
             W == Inner(cands)
  <2>3. /\ P \in SUBSET Item /\ IsFiniteSet(P) /\ r \in Item
        /\ topFiles \in Lists /\ Covers(topFiles, W, P)
    BY <2>0, InnerIs, RowOfName DEF FilesInv
  <2>4. CASE ~InnerListing(d)
    <3>1. Inner(counted') = P /\ Inner(cands') = W
      BY <1>1, <1>4, <2>4 DEF Inner
    <3> QED
      BY <1>0, <2>0, <2>1, <2>2, <2>3, <3>1 DEF FilesInv, Covers, Inner
  <2>5. CASE InnerListing(d)
    <3>1. Inner(counted') = P \cup {r} /\ Inner(cands \cup {n}) = W \cup {r}
      BY <1>1, <1>4, <2>5 DEF Inner
    <3>2. r \in Item \ P
      BY <1>1, <2>0, <2>3, InnerIs
    <3>3. r.key = Size[FileOf[n]] /\ W \subseteq P
      BY <2>3 DEF FileRow, Row, Covers, CoversFor
    <3> HIDE DEF r, P, W
    <3>4. Covers(topFiles, W \cup {r}, P \cup {r}) /\ P \cup {r} \in SUBSET Item /\ IsFiniteSet(P \cup {r})
      BY <1>0, <2>3, <3>2, CoversWait, FS_AddElement
    <3>5. Covers(topFiles, Inner(cands'), P \cup {r})
      <4>1. CASE cands' = cands \cup {n}
        BY <3>1, <3>4, <4>1
      <4>2. CASE cands' # cands \cup {n}
        <5>1. cands' = cands /\ ~Wants(topFiles, r.key)
          BY <1>4, <2>5, <3>3, <4>2 DEF InnerListing
        <5>2. W \in SUBSET (W \cup {r}) /\ \A b \in (W \cup {r}) \ W : b = r
          OBVIOUS
        <5>3. Covers(topFiles, W, P \cup {r})
          BY <1>0, <2>3, <3>4, <5>1, <5>2, CoversUnwanted
        <5> QED
          BY <5>1, <5>3 DEF W
      <4> QED
        BY <4>1, <4>2
    <3>6. Covers(topFiles, Inner(cands), Inner(counted))'
      BY <1>0, <3>1, <3>5 DEF Covers, Inner
    <3> QED
      BY <1>0, <2>0, <2>1, <2>2, <2>3, <3>6 DEF FilesInv
  <2> QED
    BY <2>4, <2>5
<1> QED
  BY <1>2, <1>3, <1>4

(* The jobs of a directory are joined: its best candidates wait on.        *)
LEMMA StatsDoneFiles ==
  ASSUME Types, top > 0, FilesInv, NEW d \in Dirs, StatsDone(d)
  PROVE  FilesInv'
<1> DEFINE C == Candidates(d)
           R == {FileRow(n) : n \in C}
           B == Best(R, top)
           best == {r.path : r \in B}
<1>0. /\ stage[d] = "stat" /\ top' = top /\ topFiles' = topFiles /\ counted' = counted /\ top \in Nat
      /\ cands' = (cands \ NamesIn(d)) \cup (IF InnerListing(d) THEN best ELSE {})
      /\ stage' = [stage EXCEPT ![d] = IF InnerListing(d) /\ best # {} THEN "offer" ELSE "below"]
  BY DEF StatsDone, Go, input, Types
<1>1. /\ stage'[d] = IF InnerListing(d) /\ best # {} THEN "offer" ELSE "below"
      /\ \A e \in Dirs \ {d} : stage'[e] = stage[e]
  BY <1>0 DEF Types
<1>2. C \in SUBSET Names /\ C \in SUBSET cands /\ cands \in SUBSET Names /\ C = cands \cap NamesIn(d)
  BY DEF FilesInv, Types, Candidates, NamesIn
<1> HIDE DEF C
<1>3. R \in SUBSET Item /\ IsFiniteSet(R)
  BY <1>2, RowsOf
<1>4. B \in SUBSET R
  <2> HIDE DEF R
  <2> QED
    BY <1>0, <1>3, BestSize
<1>5. \A n \in C : FileRow(n) \in B <=> n \in best
  <2>1. \A n, k \in C : FileRow(n).path = n /\ (FileRow(n) = FileRow(k) => n = k)
    BY <1>2, RowOfName
  <2> HIDE DEF B
  <2> QED
    BY <1>4, <2>1
<1>6. best \in SUBSET C
  <2>1. \A n \in C : FileRow(n).path = n
    BY <1>2, RowOfName
  <2> HIDE DEF B
  <2> QED
    BY <1>4, <2>1
<1> HIDE DEF best
<1>7. /\ cands' \in SUBSET cands
      /\ \A n \in cands' : DirOf[n] = d => InnerListing(d) /\ n \in best
      /\ InnerListing(d) => best \subseteq cands'
  BY <1>0, <1>2, <1>6 DEF NamesIn
<1>8. /\ topFiles' \in Lists /\ cands' \subseteq counted'
      /\ \A n \in cands' : Listing(DirOf[n]) /\ stage'[DirOf[n]] \in {"stat", "offer", "push"}
                      /\ (stage'[DirOf[n]] # "stat" => InnerListing(DirOf[n]))
  <2>1. \A n \in cands : DirOf[n] \in Dirs
    BY <1>2, FileIn
  <2> QED
    BY <1>0, <1>1, <1>7, <2>1 DEF FilesInv
<1>9. \A e \in Dirs : stage'[e] \in {"offer", "push"} => Candidates(e)' # {}
  <2> SUFFICES ASSUME NEW e \in Dirs, stage'[e] \in {"offer", "push"} PROVE Candidates(e)' # {}
    OBVIOUS
  <2>1. CASE e # d
    <3>1. Candidates(e) # {}
      BY <1>1, <2>1 DEF FilesInv
    <3>2. Candidates(e)' = Candidates(e)
      BY <1>0, <1>2, <1>6, <2>1 DEF Candidates, NamesIn
    <3> QED
      BY <3>1, <3>2
  <2>2. CASE e = d
    <3>1. InnerListing(d) /\ best # {}
      BY <1>1, <2>2
    <3> QED
      BY <1>2, <1>6, <1>7, <2>2, <3>1 DEF Candidates, NamesIn
  <2> QED
    BY <2>1, <2>2
<1> DEFINE P == Inner(counted)
           W == Inner(cands)
           L == Inner(cands')
<1>10. /\ P \in SUBSET Item /\ IsFiniteSet(P) /\ W \in SUBSET Item /\ IsFiniteSet(W) /\ L \in SUBSET W
       /\ topFiles \in Lists /\ Covers(topFiles, W, P)
  <2>1. counted \in SUBSET Names /\ cands' \in SUBSET Names
    BY <1>2, <1>7 DEF Types
  <2>2. L \in SUBSET W
    BY <1>7 DEF Inner
  <2> QED
    BY <1>2, <2>1, <2>2, InnerIs DEF FilesInv
<1>11. \A r \in W \ L : InnerListing(d) /\ r \in R \ B
  <2> SUFFICES ASSUME NEW r \in W \ L PROVE InnerListing(d) /\ r \in R \ B
    OBVIOUS
  <2>1. PICK n \in cands : r = FileRow(n) /\ InnerListing(DirOf[n])
    BY <1>2, InnerIs
  <2>2. n \notin cands'
    BY <2>1 DEF Inner
  <2>3. n \in C /\ DirOf[n] = d
    BY <1>0, <1>2, <2>2 DEF NamesIn
  <2>4. n \notin best
    BY <1>7, <2>1, <2>2, <2>3
  <2> QED
    BY <1>5, <2>1, <2>3, <2>4
<1>12. InnerListing(d) => B \in SUBSET L
  <2> SUFFICES ASSUME InnerListing(d), NEW r \in B PROVE r \in L
    OBVIOUS
  <2>1. PICK n \in C : r = FileRow(n)
    BY <1>4
  <2>2. n \in cands' /\ DirOf[n] = d
    BY <1>2, <1>5, <1>7, <2>1 DEF NamesIn
  <2> QED
    BY <2>1, <2>2 DEF Inner
<1>13. topFiles.items \subseteq P
  BY <1>10 DEF Covers, CoversFor
<1> HIDE DEF P, W, L
<1>14. \A r \in W \ L : top <= Cardinality(AheadOf(topFiles.items \cup L, r))
  <2> SUFFICES ASSUME NEW r \in W \ L PROVE top <= Cardinality(AheadOf(topFiles.items \cup L, r))
    OBVIOUS
  <2>1. r \in R \ B /\ B \in SUBSET L
    BY <1>11, <1>12
  <2> HIDE DEF R
  <2>2. top <= Cardinality(AheadOf(B, r))
    BY <1>0, <1>3, <2>1, BestLeads
  <2>3. topFiles.items \cup L \in SUBSET P
    <3>1. W \subseteq P
      BY <1>10 DEF Covers, CoversFor
    <3> QED
      BY <1>10, <1>13, <3>1
  <2>4. IsFiniteSet(topFiles.items \cup L) /\ topFiles.items \cup L \in SUBSET Item /\ B \in SUBSET (topFiles.items \cup L)
    BY <1>10, <2>1, <2>3, FS_Subset
  <2> HIDE DEF B
  <2> QED
    BY <1>0, <1>10, <2>2, <2>4, AheadMore
<1>15. Covers(topFiles, L, P)
  BY <1>0, <1>10, <1>14, CoversTrim
<1>16. Covers(topFiles, Inner(cands), Inner(counted))'
  BY <1>0, <1>15 DEF Covers, Inner, P, L
<1> QED
  BY <1>8, <1>9, <1>16 DEF FilesInv

(* A candidate is offered: the rest of its directory goes when it is not   *)
(* wanted.                                                                 *)
LEMMA DropFiles ==
  ASSUME Types, top > 0, FilesInv, NEW d \in Dirs, stage[d] \in {"offer", "push"},
         ~Wants(topFiles, FileRow(BestOf(d)).key) \/ ~Takes(topFiles, FileRow(BestOf(d)))
  PROVE  Covers(topFiles, Inner(cands \ NamesIn(d)), Inner(counted))
<1> DEFINE P == Inner(counted)
           W == Inner(cands)
           L == Inner(cands \ NamesIn(d))
           r == FileRow(BestOf(d))
<1>0. cands \in SUBSET Names /\ counted \in SUBSET Names /\ top \in Nat /\ Candidates(d) # {}
  BY DEF FilesInv, Types
<1>1. /\ BestOf(d) \in Candidates(d)
      /\ \A k \in Candidates(d) : k = BestOf(d) \/ Ahead(r, FileRow(k))
  BY <1>0, BestOfIs
<1>2. /\ P \in SUBSET Item /\ IsFiniteSet(P) /\ L \in SUBSET W /\ r \in Item
      /\ topFiles \in Lists /\ Covers(topFiles, W, P)
  <2>1. L \in SUBSET W
    BY DEF Inner
  <2>2. BestOf(d) \in Names
    BY <1>0, <1>1 DEF Candidates
  <2> QED
    BY <1>0, <2>1, <2>2, InnerIs, RowOfName DEF FilesInv
<1>3. BestOf(d) \in cands /\ DirOf[BestOf(d)] = d /\ InnerListing(d)
  BY <1>1 DEF Candidates, FilesInv
<1>4. r \in W
  BY <1>3 DEF Inner
<1>5. \A b \in W \ L : b = r \/ Ahead(r, b)
  <2> SUFFICES ASSUME NEW b \in W \ L PROVE b = r \/ Ahead(r, b)
    OBVIOUS
  <2>1. PICK n \in cands : b = FileRow(n) /\ InnerListing(DirOf[n])
    BY <1>0, InnerIs
  <2>2. n \in NamesIn(d)
    BY <2>1 DEF Inner
  <2>3. n \in Candidates(d)
    BY <2>2 DEF NamesIn, Candidates
  <2> QED
    BY <1>1, <2>1, <2>3
<1> HIDE DEF P, W, L, r
<1>6. CASE ~Wants(topFiles, r.key)
  <2>1. Covers(topFiles, L, P)
    BY <1>0, <1>2, <1>5, <1>6, CoversUnwanted
  <2> QED
    BY <2>1 DEF L, P
<1>7. CASE ~Takes(topFiles, r)
  <2>1. Covers(topFiles, L, P)
    BY <1>0, <1>2, <1>4, <1>5, <1>7, CoversTurned
  <2> QED
    BY <2>1 DEF L, P
<1> QED
  BY <1>6, <1>7 DEF r

LEMMA LookFiles ==
  ASSUME Types, top > 0, FilesInv, NEW d \in Dirs, LookFile(d)
  PROVE  FilesInv'
<1> DEFINE wanted == Wants(topFiles, FileRow(BestOf(d)).key)
<1>0. /\ stage[d] = "offer" /\ top' = top /\ topFiles' = topFiles /\ counted' = counted
      /\ stage'[d] = (IF wanted THEN "push" ELSE "below")
      /\ \A e \in Dirs \ {d} : stage'[e] = stage[e]
      /\ cands' = IF wanted THEN cands ELSE cands \ NamesIn(d)
  BY DEF LookFile, Go, input, Types
<1>1. CASE wanted
  BY <1>0, <1>1, StayFiles DEF FilesStay
<1>2. CASE ~wanted
  <2>1. Covers(topFiles, Inner(cands \ NamesIn(d)), Inner(counted))
    BY <1>0, <1>2, DropFiles
  <2>2. cands \in SUBSET Names
    BY DEF FilesInv, Types
  <2> HIDE DEF wanted
  <2>3. Covers(topFiles, Inner(cands), Inner(counted))'
    BY <1>0, <1>2, <2>1 DEF Covers, Inner
  <2>4. \A n \in cands' : n \in cands /\ DirOf[n] \in Dirs \ {d}
    BY <1>0, <1>2, <2>2, FileIn DEF NamesIn
  <2>5. \A e \in Dirs : stage'[e] \in {"offer", "push"} => Candidates(e)' # {}
    <3> SUFFICES ASSUME NEW e \in Dirs, stage'[e] \in {"offer", "push"} PROVE Candidates(e)' # {}
      OBVIOUS
    <3>1. e # d
      BY <1>0, <1>2
    <3>2. Candidates(e) # {}
      BY <1>0, <3>1 DEF FilesInv
    <3>3. Candidates(e)' = Candidates(e)
      BY <1>0, <1>2, <3>1 DEF Candidates, NamesIn
    <3> QED
      BY <3>2, <3>3
  <2> QED
    BY <1>0, <1>2, <2>3, <2>4, <2>5 DEF FilesInv
<1> QED
  BY <1>1, <1>2

LEMMA PushFiles ==
  ASSUME Types, top > 0, FilesInv, NEW d \in Dirs, PushFile(d)
  PROVE  FilesInv'
<1> DEFINE n == BestOf(d)
           row == FileRow(n)
           rest == IF Takes(topFiles, row) THEN cands \ {row.path} ELSE cands \ NamesIn(d)
<1>0. /\ stage[d] = "push" /\ top' = top /\ counted' = counted /\ top \in Nat
      /\ topFiles' = Pushed(topFiles, row) /\ cands' = rest
      /\ stage'[d] = IF rest \cap NamesIn(d) = {} THEN "below" ELSE "offer"
      /\ \A e \in Dirs \ {d} : stage'[e] = stage[e]
  BY DEF PushFile, Go, input, Types
<1>1. cands \in SUBSET Names /\ counted \in SUBSET Names /\ Candidates(d) # {}
  BY <1>0 DEF FilesInv, Types
<1>2. n \in Candidates(d)
  BY <1>1, BestOfIs
<1>3. n \in cands /\ n \in Names /\ DirOf[n] = d /\ InnerListing(d) /\ row.path = n /\ row \in Item
  BY <1>0, <1>1, <1>2, RowOfName DEF Candidates, FilesInv
<1>4. rest \in SUBSET cands /\ \A k \in cands \ rest : DirOf[k] = d
  BY <1>3 DEF NamesIn
<1> HIDE DEF rest
<1>5. \A k \in cands' : Listing(DirOf[k]) /\ stage'[DirOf[k]] \in {"stat", "offer", "push"}
                      /\ (stage'[DirOf[k]] # "stat" => InnerListing(DirOf[k]))
  <2> SUFFICES ASSUME NEW k \in rest
               PROVE  Listing(DirOf[k]) /\ stage'[DirOf[k]] \in {"stat", "offer", "push"}
                      /\ (stage'[DirOf[k]] # "stat" => InnerListing(DirOf[k]))
    BY <1>0
  <2>1. DirOf[k] \in Dirs /\ k \in cands
    BY <1>1, <1>4, FileIn
  <2>2. CASE DirOf[k] = d
    <3>1. k \in rest \cap NamesIn(d)
      BY <1>1, <2>1, <2>2 DEF NamesIn
    <3> QED
      BY <1>0, <1>3, <2>1, <2>2, <3>1 DEF FilesInv
  <2>3. CASE DirOf[k] # d
    BY <1>0, <2>1, <2>3 DEF FilesInv
  <2> QED
    BY <2>2, <2>3
<1>6. \A e \in Dirs : stage'[e] \in {"offer", "push"} => Candidates(e)' # {}
  <2> SUFFICES ASSUME NEW e \in Dirs, stage'[e] \in {"offer", "push"} PROVE Candidates(e)' # {}
    OBVIOUS
  <2>1. CASE e = d
    <3>1. rest \cap NamesIn(d) # {}
      BY <1>0, <2>1
    <3> QED
      BY <1>0, <2>1, <3>1 DEF Candidates, NamesIn
  <2>2. CASE e # d
    <3>1. Candidates(e) # {}
      BY <1>0, <2>2 DEF FilesInv
    <3>2. Candidates(e)' = Candidates(e)
      BY <1>0, <1>4, <2>2 DEF Candidates
    <3> QED
      BY <3>1, <3>2
  <2> QED
    BY <2>1, <2>2
<1> DEFINE P == Inner(counted)
           W == Inner(cands)
<1>7. /\ P \in SUBSET Item /\ IsFiniteSet(P) /\ topFiles \in Lists /\ Covers(topFiles, W, P)
  BY <1>1, InnerIs DEF FilesInv
<1>8. topFiles' \in Lists
  <2>1. topFiles.items \in SUBSET P
    BY <1>7 DEF Covers, CoversFor
  <2> HIDE DEF P, W, row
  <2>2. IsFiniteSet(topFiles.items)
    BY <1>7, <2>1, FS_Subset
  <2> QED
    BY <1>0, <1>3, <1>7, <2>2, PushedList
<1>9. Covers(topFiles', Inner(rest), P)
  <2>1. CASE Takes(topFiles, row)
    <3>1. row \in W
      BY <1>3 DEF Inner
    <3>2. Inner(rest) = W \ {row}
      <4>1. rest = cands \ {n}
        BY <1>3, <2>1 DEF rest
      <4>2. \A k \in cands : FileRow(k) = row => k = n
        BY <1>1, <1>3, RowOfName
      <4> QED
        BY <4>1, <4>2 DEF Inner
    <3> HIDE DEF P, W, row
    <3> QED
      BY <1>0, <1>7, <2>1, <3>1, <3>2, CoversPush
  <2>2. CASE ~Takes(topFiles, row)
    <3>1. topFiles' = topFiles /\ rest = cands \ NamesIn(d)
      BY <1>0, <2>2 DEF Pushed, rest
    <3>2. Covers(topFiles, Inner(cands \ NamesIn(d)), P)
      BY <1>0, <2>2, DropFiles
    <3> QED
      BY <3>1, <3>2
  <2> QED
    BY <2>1, <2>2
<1>10. Covers(topFiles, Inner(cands), Inner(counted))'
  BY <1>0, <1>9 DEF Covers, Inner
<1> QED
  BY <1>0, <1>4, <1>5, <1>6, <1>8, <1>10 DEF FilesInv

LEMMA StepFilesInv ==
  ASSUME Types, OpenInv, NamesInv, top > 0, FilesInv, NEW d \in Dirs, Step(d)
  PROVE  FilesInv'
<1>0. \A e \in Dirs \ {d} : stage'[e] = stage[e]
  BY StepLocal
<1>1. top' = top
  BY StepLocal DEF Keeps
<1>2. \A s : Go(d, s) => stage'[d] = s
  BY DEF Types, Go
<1> DEFINE Other ==
      \/ EnterStopped(d) \/ EnterDeep(d) \/ EnterSealed(d) \/ EnterAgain(d) \/ EnterOpen(d)
      \/ (\E n \in Names : StatMissing(d, n)) \/ Absorb(d) \/ LookSelf(d) \/ PushSelf(d)
<1>3. Other => FilesStay(d)
  <2>1. EnterStopped(d) => FilesStay(d)
    BY <1>0, <1>2 DEF EnterStopped, Ready, FilesStay
  <2>2. EnterDeep(d) => FilesStay(d)
    BY <1>0, <1>2 DEF EnterDeep, Ready, FilesStay
  <2>3. EnterSealed(d) => FilesStay(d)
    BY <1>0, <1>2 DEF EnterSealed, Ready, FilesStay
  <2>4. EnterAgain(d) => FilesStay(d)
    BY <1>0, <1>2 DEF EnterAgain, Ready, FilesStay
  <2>5. EnterOpen(d) => FilesStay(d)
    BY <1>0, <1>2 DEF EnterOpen, Ready, FilesStay
  <2>6. \A n \in Names : StatMissing(d, n) => FilesStay(d)
    BY <1>0 DEF StatMissing, FilesStay
  <2>7. Absorb(d) => FilesStay(d)
    BY <1>0, <1>2 DEF Absorb, FilesStay
  <2>8. LookSelf(d) => FilesStay(d)
    BY <1>0, <1>2 DEF LookSelf, FilesStay
  <2>9. PushSelf(d) => FilesStay(d)
    BY <1>0, <1>2 DEF PushSelf, FilesStay
  <2> QED
    BY <2>1, <2>2, <2>3, <2>4, <2>5, <2>6, <2>7, <2>8, <2>9
<1>4. CASE Other
  BY <1>1, <1>3, <1>4, StayFiles
<1>5. ASSUME NEW n \in Names, Stat(d, n) PROVE FilesInv'
  BY <1>5, StatFiles
<1>6. StatsDone(d) \/ LookFile(d) \/ PushFile(d) => FilesInv'
  BY StatsDoneFiles, LookFiles, PushFiles
<1>7. Other \/ (\E n \in Names : Stat(d, n)) \/ StatsDone(d) \/ LookFile(d) \/ PushFile(d)
  BY DEF Step
<1> HIDE DEF Other
<1> QED
  BY <1>4, <1>5, <1>6, <1>7

-----------------------------------------------------------------------------
(* A walk that nothing disturbs.                                           *)

LEMMA StepStop ==
  ASSUME NEW d \in Dirs, Step(d), Types
  PROVE  stop' = stop /\ (cut' => cut \/ stop)
<1>1. EnterStopped(d) => stop' = stop /\ (cut' => cut \/ stop)
  BY DEF EnterStopped, Ready, Types
<1>2. EnterDeep(d) \/ EnterSealed(d) \/ EnterAgain(d) \/ EnterOpen(d) => stop' = stop /\ (cut' => cut \/ stop)
  BY DEF EnterDeep, EnterSealed, EnterAgain, EnterOpen
<1>3. \A n \in Names : StatMissing(d, n) \/ Stat(d, n) => stop' = stop /\ (cut' => cut \/ stop)
  BY DEF StatMissing, Stat
<1>4. StatsDone(d) \/ LookFile(d) \/ PushFile(d) => stop' = stop /\ (cut' => cut \/ stop)
  BY DEF StatsDone, LookFile, PushFile
<1>5. Absorb(d) \/ LookSelf(d) \/ PushSelf(d) => stop' = stop /\ (cut' => cut \/ stop)
  BY DEF Absorb, LookSelf, PushSelf
<1> QED
  BY <1>1, <1>2, <1>3, <1>4, <1>5 DEF Step

(* Which directories could not be opened.                                  *)
LEMMA SealedUnread ==
  ASSUME Types, sealed \subseteq Dirs, UnreadInv, NEW d \in Dirs, EnterSealed(d)
  PROVE  UnreadInv'
<1>0. /\ stage[d] = "new" /\ Depth(d) <= depthLimit /\ d \in sealed /\ unread' = Unread(d)
      /\ sealed' = sealed /\ depthLimit' = depthLimit
      /\ stage' = [stage EXCEPT ![d] = IF d = Root THEN "done" ELSE "self"]
  BY DEF EnterSealed, Ready, Go, input
<1>1. stage'[d] # "new" /\ \A e \in Dirs \ {d} : stage'[e] = stage[e]
  BY <1>0 DEF Types
<1>2. Blocked' = Blocked \cup {d} /\ d \notin Blocked /\ Blocked \in SUBSET Dirs
  BY <1>0, <1>1 DEF Blocked, Depth
<1>3. IsFiniteSet(Blocked) /\ Cardinality(Blocked) \in Nat /\ Cardinality(Blocked') = Cardinality(Blocked) + 1
  BY <1>2, PathsFinite, FS_AddElement
<1>4. /\ unread \in [count : Nat, kept : SUBSET Dirs]
      /\ unread.count = Cardinality(Blocked) /\ unread.kept \subseteq Blocked
      /\ unread.count <= UnreadKept => unread.kept = Blocked
      /\ UnreadKept \in Nat
  BY OptionAssumption DEF UnreadInv
<1>5. /\ unread'.count = unread.count + 1
      /\ unread'.kept = IF Cardinality(unread.kept) < UnreadKept THEN unread.kept \cup {d} ELSE unread.kept
      /\ unread' = [count |-> unread'.count, kept |-> unread'.kept]
  BY <1>0 DEF Unread
<1>6. unread' \in [count : Nat, kept : SUBSET Dirs]
  BY <1>4, <1>5
<1>7. unread'.count = Cardinality(Blocked') /\ unread'.kept \subseteq Blocked'
  BY <1>2, <1>3, <1>4, <1>5
<1>8. ASSUME unread'.count <= UnreadKept PROVE unread'.kept = Blocked'
  <2>1. unread.count < UnreadKept
    BY <1>4, <1>5, <1>8
  <2>2. unread.kept = Blocked
    BY <1>4, <2>1
  <2>3. Cardinality(unread.kept) < UnreadKept
    BY <1>4, <2>1, <2>2
  <2> QED
    BY <1>2, <1>5, <2>2, <2>3
<1> QED
  BY <1>6, <1>7, <1>8 DEF UnreadInv

LEMMA StepUnread ==
  ASSUME Types, OpenInv, NamesInv, sealed \subseteq Dirs, Calm, UnreadInv, NEW d \in Dirs, Step(d)
  PROVE  UnreadInv'
<1>0. /\ \A e \in Dirs \ {d} : stage'[e] = stage[e]
      /\ sealed' = sealed /\ depthLimit' = depthLimit
  BY StepLocal DEF Keeps
<1>1. CASE EnterSealed(d)
  BY <1>1, SealedUnread
<1>2. ASSUME unread' = unread, Depth(d) > depthLimit \/ d \notin sealed \/ (stage[d] # "new" /\ stage'[d] # "new")
      PROVE  UnreadInv'
  <2>0. Depth(d) \in Int /\ depthLimit \in Int
    BY DepthInt DEF Types
  <2>1. Blocked' = {e \in sealed : stage'[e] # "new" /\ Depth(e) <= depthLimit}
    BY <1>0 DEF Blocked, Depth
  <2>2. Blocked' = Blocked
    BY <1>0, <1>2, <2>0, <2>1 DEF Blocked
  <2> QED
    BY <1>2, <2>2 DEF UnreadInv
<1>3. CASE EnterStopped(d)
  BY <1>3 DEF EnterStopped, Calm
<1>4. CASE EnterDeep(d)
  BY <1>2, <1>4 DEF EnterDeep
<1>5. CASE EnterAgain(d)
  BY <1>5 DEF EnterAgain, Calm, Mounted
<1>6. CASE EnterOpen(d)
  BY <1>2, <1>6 DEF EnterOpen
<1>7. ASSUME NEW n \in Names, StatMissing(d, n) PROVE FALSE
  BY <1>7 DEF StatMissing, Listed, NamesInv, Calm
<1>8. ASSUME NEW n \in Names, Stat(d, n) PROVE UnreadInv'
  BY <1>2, <1>8 DEF Stat, Listed
<1>9. \A s : Go(d, s) => stage'[d] = s
  BY DEF Types, Go
<1>10. CASE StatsDone(d)
  BY <1>2, <1>9, <1>10 DEF StatsDone
<1>11. CASE LookFile(d)
  BY <1>2, <1>9, <1>11 DEF LookFile
<1>12. CASE PushFile(d)
  BY <1>2, <1>9, <1>12 DEF PushFile
<1>13. CASE Absorb(d)
  BY <1>2, <1>9, <1>13 DEF Absorb
<1>14. CASE LookSelf(d)
  BY <1>2, <1>9, <1>14 DEF LookSelf
<1>15. CASE PushSelf(d)
  BY <1>2, <1>9, <1>15 DEF PushSelf
<1> QED
  BY <1>1, <1>3, <1>4, <1>5, <1>6, <1>7, <1>8, <1>10, <1>11, <1>12, <1>13, <1>14, <1>15 DEF Step

(* Which names have been taken.                                            *)
LEMMA EntersTook ==
  ASSUME Types, NEW d \in Dirs, Enters(d), NEW n \in Names
  PROVE  Taken(n)' <=> Taken(n)
<1>1. there' = there /\ DirOf[n] \in Dirs
  BY FileIn DEF Enters
<1>2. CASE DirOf[n] # d
  <2>1. todo'[DirOf[n]] = todo[DirOf[n]]
    BY <1>1, <1>2 DEF Enters, Skips, Bars, Opens, Types
  <2> QED
    BY <1>1, <1>2, <2>1, EntersOpened DEF Taken
<1>3. CASE DirOf[n] = d
  <2>1. ~Opened(d) /\ (Opened(d)' <=> Opens(d))
    BY EntersOpened
  <2>2. Opens(d) /\ n \in there => n \in todo'[d]
    BY <1>3 DEF Opens, NamesIn, Types
  <2> QED
    BY <1>1, <1>3, <2>1, <2>2 DEF Taken
<1> QED
  BY <1>2, <1>3

LEMMA GoesTook ==
  ASSUME Types, NEW d \in Dirs, Goes(d), NEW n \in Names
  PROVE  Taken(n)' <=> Taken(n)
<1>1. there' = there /\ todo' = todo /\ DirOf[n] \in Dirs
  BY FileIn DEF Goes
<1> QED
  BY <1>1, GoesOpened DEF Taken

LEMMA CountsTook ==
  ASSUME Types, OpenInv, NamesInv, moved = {}, NEW d \in Dirs, NEW n \in Names, Counts(d, n)
  PROVE  /\ ~Taken(n) /\ n \in there
         /\ \A m \in Names : Taken(m)' <=> Taken(m) \/ m = n
<1>1. DirOf[n] = d /\ Opened(d) /\ n \in there /\ n \in todo[d] /\ n \notin todo'[d]
  BY TakenName DEF Counts
<1>2. there' = there /\ \A m \in Names \ {n} : \A e \in Dirs : m \in todo'[e] <=> m \in todo[e]
  BY DEF Counts, Types
<1>3. \A e \in Dirs : Opened(e)' <=> Opened(e)
  BY CountsOpened
<1>4. ~Taken(n) /\ Taken(n)'
  BY <1>1, <1>2, <1>3 DEF Taken
<1>5. ASSUME NEW m \in Names \ {n} PROVE Taken(m)' <=> Taken(m)
  <2>1. DirOf[m] \in Dirs
    BY FileIn
  <2>2. Opened(DirOf[m])' <=> Opened(DirOf[m])
    BY <1>3, <2>1
  <2>3. m \in todo'[DirOf[m]] <=> m \in todo[DirOf[m]]
    BY <1>2, <2>1
  <2> QED
    BY <1>2, <2>2, <2>3 DEF Taken
<1> QED
  BY <1>1, <1>4, <1>5

(* A claim, as it is made.                                                 *)
LEMMA ClaimExact ==
  ASSUME Types, NEW d \in Dirs, NEW n \in Names, Counts(d, n), TakesClaim(n)
  PROVE  Sets(n, Claim(n, FileOf[n]))
<1>1. ~Known(FileOf[n]) /\ top # 0 /\ phase = "first" /\ n \in there /\ NLink(FileOf[n]) > 1
  BY DEF TakesClaim, Known
<1>2. NLink(FileOf[n]) \in Nat
  BY FileIn, LinksCount
<1>3. CountsHere(n, FileOf[n], FALSE) = Claim(n, FileOf[n])
  BY <1>1, <1>2 DEF CountsHere
<1>4. \E r \in BOOLEAN : (r => Known(FileOf[n])) /\ Sets(n, CountsHere(n, FileOf[n], r))
  BY <1>1 DEF Counts, Sets
<1> QED
  BY <1>1, <1>3, <1>4

LEMMA ClaimLeast ==
  ASSUME Types, OpenInv, NamesInv, CountingInv, Walking, moved = {}, top > 0, NEW d \in Dirs,
         NEW n \in Names, Counts(d, n), TakesClaim(n), LeastClaim(FileOf[n])
  PROVE  LeastClaim(FileOf[n])'
<1> DEFINE f == FileOf[n]
<1>0. f \in Files /\ \A m \in Names : m \in Nat
  BY FileIn, TreeAssumption
<1>1. /\ ~Taken(n) /\ n \in there
      /\ \A m \in Names : Taken(m)' <=> Taken(m) \/ m = n
  BY CountsTook
<1>2. Sets(n, Claim(n, f))
  BY ClaimExact
<1>3. n \notin counted /\ phase = "first" /\ ~Decided(f) /\ NLink(f) > 1 /\ n # NoPath
  BY TakenName, NotPath DEF TakesClaim
<1>4. claims \in [Files -> [path : Names \cup {NoPath}, there : BOOLEAN]]
  BY DEF Types
<1> HIDE DEF f
<1>5. CASE ~Claimed(f)
  <2>1. claims'[f] = [path |-> n, there |-> TRUE] /\ n \in counted'
    BY <1>0, <1>2, <1>4, <1>5 DEF Sets, Claim, Claimed
  <2>2. ASSUME NEW m \in Names, FileOf[m] = f, Taken(m) PROVE FALSE
    <3>1. m \in there /\ Opened(DirOf[m]) /\ m \notin todo[DirOf[m]]
      BY <2>2 DEF Taken
    <3>2. PICK k \in counted : FileOf[k] = f
      BY <1>3, <2>2, <3>1 DEF CountingInv, TakenInv
    <3>3. f \in seen \/ decided[f] = k
      BY <1>3, <1>5, <3>2 DEF CountingInv, BarInv
    <3>4. f \notin seen
      BY <1>3 DEF CountingInv, SeenInv
    <3>5. decided[f] # k
      BY <1>3, <3>2, NotPath DEF Decided, Types
    <3> QED
      BY <3>3, <3>4, <3>5
  <2>3. claims'[f].path = n /\ claims'[f].there = TRUE
    BY <2>1
  <2>4. \A m \in Names : FileOf[m] = f /\ Taken(m)' => m = n
    BY <1>1, <2>2
  <2> QED
    BY <1>0, <1>1, <2>1, <2>3, <2>4 DEF LeastClaim, f
<1>6. CASE Claimed(f) /\ n < claims[f].path
  <2>1. claims'[f] = [path |-> n, there |-> FALSE] /\ counted' = counted
    BY <1>0, <1>2, <1>4, <1>6 DEF Sets, Claim, Claimed
  <2>2. claims'[f].path = n /\ claims'[f].there = FALSE /\ claims[f].path \in Names
    BY <1>0, <1>4, <1>6, <2>1 DEF Claimed
  <2>3. \A m \in Names : FileOf[m] = f /\ Taken(m) => claims[f].path <= m
    BY <1>6 DEF LeastClaim, f
  <2>4. \A m \in Names : FileOf[m] = f /\ Taken(m)' => n <= m
    BY <1>0, <1>1, <1>6, <2>2, <2>3
  <2> QED
    BY <1>1, <1>3, <2>1, <2>2, <2>4 DEF LeastClaim, Claimed, f
<1>7. CASE Claimed(f) /\ ~(n < claims[f].path)
  <2>1. claims' = claims /\ counted' = counted
    BY <1>0, <1>2, <1>4, <1>7 DEF Sets, Claim, Claimed
  <2>2. claims[f].path \in Names /\ claims[f].path <= n
    BY <1>0, <1>4, <1>7 DEF Claimed
  <2>3. \A m \in Names : FileOf[m] = f /\ Taken(m)' => claims[f].path <= m
    BY <1>1, <1>7, <2>2 DEF LeastClaim, f
  <2> QED
    BY <1>1, <1>7, <2>1, <2>2, <2>3 DEF LeastClaim, Claimed, f
<1> QED
  BY <1>5, <1>6, <1>7

(* A name that is taken leaves each file with its least.                   *)
LEMMA CountsLeast ==
  ASSUME Types, OpenInv, NamesInv, CountingInv, Walking, moved = {}, top > 0, LeastInv,
         NEW d \in Dirs, NEW n \in Names, Counts(d, n)
  PROVE  LeastInv'
<1> DEFINE f == FileOf[n]
<1>0. /\ f \in Files /\ phase' = phase /\ decided' = decided /\ there' = there
      /\ \A g : NLink(g)' = NLink(g)
      /\ \A g : Decided(g)' <=> Decided(g)
      /\ \A m : Meets(m)' <=> Meets(m)
  BY SameLinks, FileIn DEF Counts, Keeps, Decided, Meets, Reached, Depth
<1>1. /\ ~Taken(n) /\ n \in there
      /\ \A m \in Names : Taken(m)' <=> Taken(m) \/ m = n
  BY CountsTook
<1>2. n \notin counted /\ counted \subseteq counted' /\ counted' \subseteq counted \cup {n}
  BY TakenName
<1>3. TakesFirst(n) \/ TakesDecided(n) \/ TakesClaim(n)
  BY <1>1, TakeKinds DEF CountingInv, Misses
<1>4. \A g \in Files : claims'[g] = claims[g] \/ (g = f /\ TakesClaim(n))
  BY TakeGrows
<1>5. TakesFirst(n) => ~Claimed(f) /\ ~Decided(f)
  <2>1. Decided(f) \/ Claimed(f) => NLink(f) > 1
    BY <1>0 DEF CountingInv, DecidedInv, ClaimInv
  <2>2. Claimed(f) => phase = "first"
    BY <1>0 DEF CountingInv, ClaimInv
  <2> QED
    BY <2>1, <2>2 DEF TakesFirst
<1> HIDE DEF f
<1>6. ASSUME phase' = "first", NEW g \in Files PROVE LeastClaim(g)'
  <2>0. LeastClaim(g) /\ phase = "first"
    BY <1>0, <1>6 DEF LeastInv
  <2>1. CASE g = f /\ TakesClaim(n)
    BY <2>0, <2>1, ClaimLeast DEF f
  <2>2. CASE g = f /\ ~TakesClaim(n)
    <3>1. claims'[g] = claims[g] /\ ~Claimed(g)
      BY <1>3, <1>4, <1>5, <2>0, <2>2 DEF TakesDecided
    <3> QED
      BY <2>0, <3>1 DEF LeastClaim, Claimed
  <2>3. CASE g # f
    <3>1. claims'[g] = claims[g]
      BY <1>4, <2>3
    <3>2. Claimed(g) => FileOf[claims[g].path] = g /\ claims[g].path \in Names
      BY DEF CountingInv, ClaimInv, Claimed, Types
    <3>3. Claimed(g) => claims[g].path # n
      BY <2>3, <3>2 DEF f
    <3>4. Claimed(g) => (claims[g].path \in counted' <=> claims[g].path \in counted)
      BY <1>2, <3>3
    <3>5. \A m \in Names : FileOf[m] = g => (Taken(m)' <=> Taken(m))
      BY <1>1, <2>3 DEF f
    <3>6. Claimed(g)' <=> Claimed(g)
      BY <3>1 DEF Claimed
    <3>7. Claimed(g)' => Taken(claims[g].path)'
      <4> SUFFICES ASSUME Claimed(g) PROVE Taken(claims[g].path)'
        BY <3>6
      <4>1. PICK p \in Names : p = claims[g].path /\ Taken(p)
        BY <2>0, <3>2 DEF LeastClaim
      <4>2. Taken(p)' /\ p = claims'[g].path
        BY <1>1, <3>1, <4>1
      <4> QED
        BY <4>2 DEF Taken
    <3>9. \A m \in Names : Claimed(g)' /\ FileOf[m] = g /\ Taken(m)' => claims'[g].path <= m
      BY <2>0, <3>1, <3>5, <3>6 DEF LeastClaim
    <3>10. claims'[g].there <=> (Claimed(g)' => claims'[g].path \in counted')
      BY <2>0, <3>1, <3>4, <3>6 DEF LeastClaim
    <3> QED
      BY <3>1, <3>7, <3>9, <3>10 DEF LeastClaim
  <2> QED
    BY <2>1, <2>2, <2>3
<1>7. ASSUME phase' = "second", NEW g \in Files PROVE LeastDecided(g)'
  <2>1. LeastDecided(g)
    BY <1>0, <1>7 DEF LeastInv
  <2> QED
    BY <1>0, <2>1 DEF LeastDecided
<1>8. decided[f] = n => TakesDecided(n)
  <2>1. decided[f] = n => Decided(f)
    BY NotPath DEF Decided
  <2> QED
    BY <1>3, <1>5, <2>1 DEF TakesClaim, f
<1>9. TakesDecided(n) => /\ decided[f] = n => n \in counted'
                         /\ met' = met + (IF decided[f] = n THEN 1 ELSE 0)
  BY DEF TakesDecided, AtWay, Sets, f
<1>10. ~TakesDecided(n) => met' = met
  BY <1>3 DEF TakesFirst, TakesClaim, FirstWay, ClaimWay, Sets
<1>11. ASSUME NEW m \in Names, Taken(m)', decided'[FileOf[m]] = m PROVE m \in counted'
  BY <1>0, <1>1, <1>2, <1>8, <1>9, <1>11 DEF LeastInv, f
<1>12. met' >= Cardinality({g \in Files : Decided(g) /\ decided[g] \in counted})'
  <2> DEFINE D == {g \in Files : Decided(g) /\ decided[g] \in counted}
             E == {g \in Files : Decided(g) /\ decided[g] \in counted'}
  <2>1. met >= Cardinality(D) /\ met \in Nat
    BY DEF LeastInv, Types
  <2>2. IsFiniteSet(D) /\ Cardinality(D) \in Nat
    BY NamesFinite
  <2>3. {g \in Files : Decided(g) /\ decided[g] \in counted}' = E
    BY <1>0
  <2>4. ASSUME decided[f] = n PROVE met' >= Cardinality(E)
    <3>1. E \in SUBSET (D \cup {f}) /\ f \notin D
      <4>1. \A g \in Files : Decided(g) => FileOf[decided[g]] = g
        BY DEF CountingInv, DecidedInv
      <4> QED
        BY <1>2, <2>4, <4>1 DEF f
    <3>2. IsFiniteSet(D \cup {f}) /\ Cardinality(D \cup {f}) = Cardinality(D) + 1
      <4> HIDE DEF D
      <4> QED
        BY <2>2, <3>1, FS_AddElement
    <3>3. Cardinality(E) <= Cardinality(D) + 1 /\ Cardinality(E) \in Nat
      <4> HIDE DEF D, E
      <4> QED
        BY <3>1, <3>2, FS_Subset, FS_CardinalityType
    <3>4. met' = met + 1
      BY <1>8, <1>9, <2>4
    <3> HIDE DEF D, E
    <3> QED
      BY <2>1, <2>2, <3>3, <3>4
  <2>5. ASSUME decided[f] # n PROVE met' >= Cardinality(E)
    <3>1. E = D
      <4>1. \A g \in Files : Decided(g) => FileOf[decided[g]] = g
        BY DEF CountingInv, DecidedInv
      <4>2. \A g \in Files : Decided(g) => decided[g] # n
        BY <2>5, <4>1 DEF f
      <4> QED
        BY <1>2, <4>2
    <3>2. met' = met
      BY <1>9, <1>10, <2>1, <2>5
    <3> HIDE DEF D, E
    <3> QED
      BY <2>1, <3>1, <3>2
  <2> HIDE DEF E
  <2> QED
    BY <2>3, <2>4, <2>5
<1> QED
  BY <1>6, <1>7, <1>11, <1>12 DEF LeastInv

LEMMA LeastStill ==
  ASSUME UNCHANGED <<phase, claims, counted, decided, met, there, inode, depthLimit, sealed>>,
         ClaimInv, Types, \A n \in Names : Taken(n)' <=> Taken(n), LeastInv
  PROVE  LeastInv'
<1>0. /\ \A g : NLink(g)' = NLink(g)
      /\ \A g : (Decided(g)' <=> Decided(g)) /\ (Claimed(g)' <=> Claimed(g))
      /\ \A m : Meets(m)' <=> Meets(m)
  BY SameLinks DEF Decided, Claimed, Meets, Reached, Depth
<1>1. ASSUME NEW g \in Files, LeastClaim(g) PROVE LeastClaim(g)'
  <2>1. Claimed(g) => claims[g].path \in Names
    BY DEF Claimed, Types
  <2>2. Claimed(g)' => Taken(claims[g].path)'
    BY <1>0, <1>1, <2>1 DEF LeastClaim
  <2> QED
    BY <1>0, <1>1, <2>2 DEF LeastClaim
<1>2. ASSUME NEW g \in Files, LeastDecided(g) PROVE LeastDecided(g)'
  BY <1>0, <1>2 DEF LeastDecided
<1>3. {f \in Files : Decided(f) /\ decided[f] \in counted}' = {f \in Files : Decided(f) /\ decided[f] \in counted}
  BY <1>0
<1> QED
  BY <1>0, <1>1, <1>2, <1>3 DEF LeastInv

LEMMA StepLeast ==
  ASSUME Types, WalkInv, moved = {}, top > 0, LeastInv, NEW d \in Dirs, Step(d)
  PROVE  LeastInv'
<1>0. OpenInv /\ NamesInv /\ CountingInv /\ ClaimInv
  BY WalkParts DEF CountingInv
<1>1. CASE Enters(d)
  <2>1. UNCHANGED <<phase, claims, counted, decided, met, there, inode, depthLimit, sealed>>
    BY <1>1 DEF Enters, Keeps
  <2> QED
    BY <1>0, <1>1, <2>1, EntersTook, LeastStill
<1>2. CASE Goes(d)
  <2>1. UNCHANGED <<phase, claims, counted, decided, met, there, inode, depthLimit, sealed>>
    BY <1>2 DEF Goes, Keeps
  <2> QED
    BY <1>0, <1>2, <2>1, GoesTook, LeastStill
<1> QED
  BY <1>0, <1>1, <1>2, StepKinds, CountsLeast

-----------------------------------------------------------------------------
(* The end of a walk that nothing disturbs.                                *)

Ended == stage[Root] = "done" /\ ~cut /\ ~Mounted

(* It opened the directories within reach and visited those one below.     *)
LEMMA EndReach ==
  ASSUME Types, OpenInv, MountInv, Ended
  PROVE  \A d \in Dirs : /\ Opened(d) <=> Reached(d)
                         /\ stage[d] = "done" <=> Visited(d)
                         /\ stage[d] = "new" <=> ~Visited(d)
<1>0. /\ \A d, e \in Dirs : inode[d] = inode[e] => d = e
      /\ stage[Root] = "done" /\ ~cut /\ Root \in Dirs
      /\ \A d \in Dirs \ {Root} : Up[d] \in Dirs /\ Up[d] < d
  BY TreeAssumption DEF Ended, Mounted
<1>1. \A d \in Dirs : stage[d] \in {"new", "done"}
  <2>1. \A d \in Dirs : stage[d] # "gone"
    BY <1>0 DEF MountInv, Opened
  <2> QED
    BY <1>0, <2>1, AllBack
<1>2. ASSUME NEW d \in Dirs, Reached(d) PROVE Opened(d)
  <2>1. WithinDir(d)
    BY <1>0, <1>2 DEF WithinDir
  <2>2. OpenedTwin(d)
    BY <1>0, <2>1, AllOpened
  <2> QED
    BY <1>0, <2>2 DEF OpenedTwin
<1>3. ASSUME NEW d \in Dirs, Opened(d) PROVE Reached(d)
  <2> DEFINE S == {e \in Dirs : Opened(e) /\ ~Reached(e)}
  <2> SUFFICES ASSUME S # {} PROVE FALSE
    BY <1>3
  <2>1. S \in SUBSET Nat
    BY TreeAssumption
  <2>2. PICK e \in S : \A b \in S : e <= b
    BY <2>1, Least
  <2>3. Fits(e) /\ stage[e] # "new"
    BY <2>2 DEF Opened, Fits
  <2>4. CASE e = Root
    <3>1. Above[e] = {e}
      BY <2>2, <2>4, AboveDef
    <3> QED
      BY <2>2, <2>3, <3>1 DEF Reached, Fits
  <2>5. CASE e # Root
    <3>1. Opened(Up[e]) /\ Up[e] \in Dirs /\ Up[e] < e
      BY <1>0, <2>2, <2>3, <2>5 DEF OpenInv
    <3>2. Up[e] \notin S
      BY <2>1, <2>2, <3>1, TreeAssumption
    <3>3. Reached(Up[e]) /\ Above[e] = {e} \cup Above[Up[e]]
      BY <2>2, <2>5, <3>1, <3>2, AboveDef
    <3> QED
      BY <2>2, <2>3, <3>3 DEF Reached, Fits
  <2> QED
    BY <2>4, <2>5
<1>4. ASSUME NEW d \in Dirs, stage[d] # "new" PROVE Visited(d)
  BY <1>0, <1>3, <1>4 DEF Visited, OpenInv
<1>5. ASSUME NEW d \in Dirs, Visited(d) PROVE stage[d] = "done"
  <2>1. CASE d = Root
    BY <1>0, <2>1
  <2>2. CASE d # Root
    <3>1. Up[d] \in Dirs /\ Opened(Up[d])
      BY <1>0, <1>2, <1>5, <2>2 DEF Visited
    <3>2. stage[Up[d]] \in Back
      BY <1>1, <3>1 DEF Opened, Back
    <3> QED
      BY <1>1, <2>2, <3>1, <3>2 DEF OpenInv
  <2> QED
    BY <2>1, <2>2
<1> QED
  BY <1>1, <1>2, <1>3, <1>4, <1>5

(* It took the names there.                                                *)
LEMMA EndTaken ==
  ASSUME Types, OpenInv, MountInv, Ended
  PROVE  \A n \in Names : Taken(n) <=> Meets(n)
<1>1. \A d \in Dirs : todo[d] = {}
  BY AllBack DEF OpenInv, Ended
<1> QED
  BY <1>1, EndReach, FileIn DEF Taken, Meets

(* A file counts at the least of its names.                                *)
LEMMA SoleLeast ==
  ASSUME Types, NEW C \in SUBSET Names, \A n \in C : Meets(n),
         \A n \in Names : Meets(n) => \E k \in C : FileOf[k] = FileOf[n],
         \A n \in C : \A k \in Names : Meets(k) /\ FileOf[k] = FileOf[n] => n <= k
  PROVE  C = TrueCounted
<1>1. TrueCounted = {n \in Names : Meets(n) /\ \A k \in Names : Meets(k) /\ FileOf[k] = FileOf[n] => n <= k}
  BY DEF TrueCounted, Meets, Types
<1>2. ASSUME NEW n \in TrueCounted PROVE n \in C
  <2>1. PICK k \in C : FileOf[k] = FileOf[n]
    BY <1>1
  <2>2. n <= k /\ k <= n /\ n \in Nat /\ k \in Nat
    BY <1>1, <2>1, TreeAssumption
  <2> QED
    BY <2>1, <2>2
<1> QED
  BY <1>1, <1>2

(* Of a file that is neither claimed nor decided there is one name.        *)
LEMMA EndSingle ==
  ASSUME Types, OpenInv, MountInv, Ended, NEW k \in Names, NEW n \in Names, Meets(k), Meets(n),
         FileOf[k] = FileOf[n], NLink(FileOf[n]) = 1
  PROVE  k = n
<1>1. Opened(DirOf[k]) /\ Opened(DirOf[n]) /\ k \in there /\ n \in there
  BY EndReach, FileIn DEF Meets
<1>2. Entry(k) = Entry(n)
  BY <1>1, FileIn, LinksCount
<1> QED
  BY <1>1, <1>2, OpenEntry

LEMMA EndDecided ==
  ASSUME Types, WalkInv, Ended, LeastInv, phase = "second", NEW f \in Files, Decided(f)
  PROVE  decided[f] \in counted /\ FileOf[decided[f]] = f
<1>1. decided[f] \in Names /\ FileOf[decided[f]] = f
  BY DEF WalkInv, DecidedInv, Decided, Types
<1>2. Taken(decided[f])
  BY <1>1, EndTaken DEF WalkInv, LeastInv, LeastDecided
<1> QED
  BY <1>1, <1>2 DEF LeastInv

LEMMA EndAllMet ==
  ASSUME Types, WalkInv, Ended, LeastInv, phase = "second"
  PROVE  AllMet
<1>1. {f \in Files : Decided(f) /\ decided[f] \in counted} = {f \in Files : decided[f] # NoPath}
  BY EndDecided DEF Decided
<1>2. met <= Cardinality({f \in Files : Decided(f) /\ decided[f] \in counted})
  BY DEF WalkInv, MetInv
<1>3. met >= Cardinality({f \in Files : Decided(f) /\ decided[f] \in counted})
  BY DEF LeastInv
<1>4. Cardinality({f \in Files : decided[f] # NoPath}) \in Nat /\ met \in Nat
  BY NamesFinite DEF Types
<1> QED
  BY <1>1, <1>2, <1>3, <1>4 DEF AllMet

LEMMA EndCounted ==
  ASSUME Types, WalkInv, Ended, LeastInv, moved = {}, top > 0, Walking,
         phase = "first" => Settled
  PROVE  counted = TrueCounted
<1>0. /\ counted \in SUBSET Names /\ OpenInv /\ MountInv
      /\ \A n \in Names : Taken(n) <=> Meets(n)
  BY EndTaken DEF Types, WalkInv
<1>1. ASSUME NEW n \in counted PROVE Meets(n)
  BY <1>0, <1>1, EndReach, FileIn DEF WalkInv, NamesInv, Meets
<1>2. ASSUME NEW n \in Names, Meets(n) PROVE \E k \in counted : FileOf[k] = FileOf[n]
  <2>0. FileOf[n] \in Files
    BY FileIn
  <2>1. CASE Decided(FileOf[n])
    <3>1. phase = "second"
      BY <2>0, <2>1 DEF WalkInv, DecidedInv
    <3> QED
      BY <2>0, <2>1, <3>1, EndDecided
  <2>2. CASE ~Decided(FileOf[n])
    BY <1>0, <1>2, <2>2 DEF Taken, WalkInv, TakenInv
  <2> QED
    BY <2>1, <2>2
<1>3. ASSUME NEW n \in counted, NEW k \in Names, Meets(k), FileOf[k] = FileOf[n] PROVE n <= k
  <2> DEFINE f == FileOf[n]
  <2>0. f \in Files /\ n \in Names /\ n \in Nat /\ Meets(n)
    BY <1>0, <1>1, FileIn, TreeAssumption
  <2>1. \A m \in counted : FileOf[m] = f => m = n
    BY <2>0 DEF WalkInv, OneInv
  <2> HIDE DEF f
  <2>2. CASE NLink(f) = 1
    <3>1. k = n
      BY <1>0, <1>3, <2>0, <2>2, EndSingle DEF f
    <3> QED
      BY <2>0, <3>1
  <2>3. CASE phase = "first" /\ NLink(f) # 1
    <3>1. ~Decided(f) /\ f \notin seen
      BY <2>0, <2>3 DEF WalkInv, DecidedInv, SeenInv
    <3>2. decided[f] # n
      BY <2>0, <3>1, NotPath DEF Decided
    <3>3. Claimed(f)
      BY <2>3, <3>1, <3>2 DEF WalkInv, BarInv, f
    <3>4. LeastClaim(f) /\ claims[f].there
      BY <2>0, <2>3 DEF LeastInv, Settled
    <3>5. claims[f].path \in counted /\ FileOf[claims[f].path] = f
      BY <2>0, <3>3, <3>4 DEF LeastClaim, WalkInv, ClaimInv
    <3>6. claims[f].path = n
      BY <2>1, <3>5
    <3> QED
      BY <1>0, <1>3, <3>3, <3>4, <3>6 DEF LeastClaim, f
  <2>4. CASE phase = "second" /\ NLink(f) # 1
    <3>1. LeastDecided(f)
      BY <2>0, <2>4 DEF LeastInv
    <3>2. Decided(f)
      BY <2>0, <2>4, <3>1 DEF LeastDecided, f
    <3>3. decided[f] = n
      BY <2>0, <2>1, <2>4, <3>2, EndDecided
    <3> QED
      BY <1>3, <3>1, <3>2, <3>3 DEF LeastDecided, f
  <2> QED
    BY <2>2, <2>3, <2>4 DEF Walking
<1> QED
  BY <1>0, <1>1, <1>2, <1>3, SoleLeast

-----------------------------------------------------------------------------
(* The rows at the end.                                                    *)

LEMMA AboveMore ==
  ASSUME NEW e \in Dirs
  PROVE  \A c \in Above[e] : c <= e /\ Above[c] \subseteq Above[e]
<1> DEFINE S == {x \in Dirs : ~ \A c \in Above[x] : c <= x /\ Above[c] \subseteq Above[x]}
<1> SUFFICES ASSUME S # {} PROVE FALSE
  OBVIOUS
<1>1. S \in SUBSET Nat
  BY TreeAssumption
<1>2. PICK x \in S : \A y \in S : x <= y
  BY <1>1, Least
<1>3. PICK c \in Above[x] : ~(c <= x /\ Above[c] \subseteq Above[x])
  BY <1>2
<1>4. x \in Dirs /\ c \in Dirs /\ x \in Nat /\ c \in Nat
  BY <1>1, <1>2, <1>3, AboveDirs, TreeAssumption
<1>5. c # x
  BY <1>3, <1>4
<1>6. x # Root
  <2>1. Above[Root] = {Root}
    BY AboveDef, TreeAssumption
  <2> QED
    BY <1>3, <1>5, <2>1
<1>7. Up[x] \in Dirs /\ Up[x] < x /\ Up[x] \in Nat /\ Above[x] = {x} \cup Above[Up[x]]
  BY <1>4, <1>6, AboveDef, TreeAssumption
<1>8. Up[x] \notin S /\ c \in Above[Up[x]]
  BY <1>2, <1>3, <1>4, <1>5, <1>7
<1>9. c <= Up[x] /\ Above[c] \subseteq Above[Up[x]]
  BY <1>7, <1>8
<1> QED
  BY <1>3, <1>4, <1>7, <1>9

(* Below a directory are itself and what is below its subdirectories,      *)
(* each directory below one of them.                                       *)
LEMMA UnderParts ==
  ASSUME NEW d \in Dirs
  PROVE  /\ Under(d) = {d} \cup UNION {Under(c) : c \in Children(d)}
         /\ \A c \in Children(d) : d \notin Under(c) /\ Under(c) \subseteq Under(d)
         /\ \A c, e \in Children(d) : c # e => Under(c) \cap Under(e) = {}
<1>0. \A c \in Children(d) : c \in Dirs \ {Root} /\ Up[c] = d /\ d < c /\ Above[c] = {c} \cup Above[d]
  BY AboveDef, TreeAssumption DEF Children
<1>1. \A e \in Dirs : e \in Nat /\ e \in Above[e] /\ Above[e] \subseteq Dirs
  BY AboveDirs, TreeAssumption
<1>2. ASSUME NEW c \in Children(d) PROVE d \notin Under(c) /\ Under(c) \subseteq Under(d)
  <2>1. d \in Above[c]
    BY <1>0, <1>1
  <2>2. \A e \in Dirs : c \in Above[e] => d \in Above[e]
    BY <2>1, AboveMore
  <2>3. c \notin Above[d]
    BY <1>0, <1>1, AboveMore
  <2> QED
    BY <2>2, <2>3 DEF Under
<1>3. ASSUME NEW e \in Under(d), e # d PROVE \E c \in Children(d) : e \in Under(c)
  <2> DEFINE S == {x \in Dirs : d \in Above[x] /\ x # d /\ ~ \E c \in Children(d) : c \in Above[x]}
  <2> SUFFICES ASSUME S # {} PROVE FALSE
    BY <1>3 DEF Under
  <2>1. S \in SUBSET Nat
    BY <1>1
  <2>2. PICK x \in S : \A y \in S : x <= y
    BY <2>1, Least
  <2>3. x \in Dirs /\ d \in Above[x] /\ x # d /\ ~ \E c \in Children(d) : c \in Above[x]
    BY <2>2
  <2>4. x # Root
    <3>1. Above[Root] = {Root}
      BY AboveDef, TreeAssumption
    <3> QED
      BY <2>3, <3>1
  <2>5. Up[x] \in Dirs /\ Up[x] < x /\ Above[x] = {x} \cup Above[Up[x]]
    BY <2>3, <2>4, AboveDef, TreeAssumption
  <2>6. Up[x] # d
    BY <1>1, <2>3, <2>4 DEF Children
  <2>7. Up[x] \notin S
    BY <1>1, <2>2, <2>3, <2>5
  <2> QED
    BY <2>3, <2>5, <2>6, <2>7
<1>4. ASSUME NEW c \in Children(d), NEW e \in Children(d), c # e PROVE Under(c) \cap Under(e) = {}
  <2> DEFINE S == {x \in Dirs : c \in Above[x] /\ e \in Above[x]}
  <2> SUFFICES ASSUME S # {} PROVE FALSE
    BY DEF Under
  <2>1. S \in SUBSET Nat
    BY <1>1
  <2>2. PICK x \in S : \A y \in S : x <= y
    BY <2>1, Least
  <2>3. x \in Dirs /\ c \in Above[x] /\ e \in Above[x]
    BY <2>2
  <2>4. x # Root
    <3>1. Above[Root] = {Root}
      BY AboveDef, TreeAssumption
    <3> QED
      BY <1>0, <2>3, <3>1
  <2>5. Up[x] \in Dirs /\ Up[x] < x /\ Above[x] = {x} \cup Above[Up[x]]
    BY <2>3, <2>4, AboveDef, TreeAssumption
  <2>6. \A b \in Children(d) : b \notin Above[d]
    BY <1>0, <1>1, AboveMore
  <2>7. x # c /\ x # e
    BY <1>0, <1>4, <2>3, <2>5, <2>6
  <2>8. Up[x] \in S
    BY <2>3, <2>5, <2>7
  <2> QED
    BY <1>1, <2>2, <2>3, <2>5, <2>8
<1>5. d \in Under(d) /\ Under(d) \subseteq Dirs
  BY <1>1 DEF Under
<1>6. Under(d) \subseteq {d} \cup UNION {Under(c) : c \in Children(d)}
  BY <1>3
<1>7. {d} \cup UNION {Under(c) : c \in Children(d)} \subseteq Under(d)
  BY <1>2, <1>5
<1> QED
  BY <1>2, <1>4, <1>6, <1>7

(* What counts towards a directory: those visited and the names counted.   *)
Mine(d) == {e \in Under(d) : Visited(e)} \cup {n \in counted : DirOf[n] \in Under(d)}

LEMMA MineIn ==
  ASSUME Types
  PROVE  \A d \in Dirs : Mine(d) \subseteq Dirs \cup Names /\ Weighed(Weight, Mine(d))
<1>1. \A d \in Dirs : Mine(d) \subseteq Dirs \cup Names
  BY DEF Mine, Under, Types
<1> QED
  BY <1>1, PathsFinite

LEMMA VisitedFits ==
  ASSUME NEW d \in Dirs, Visited(d), Fits(d)
  PROVE  Reached(d) /\ \A c \in Children(d) : Visited(c)
<1>1. CASE d = Root
  <2>1. Above[d] = {d}
    BY <1>1, AboveDef
  <2> QED
    BY <2>1 DEF Reached, Fits, Visited, Children
<1>2. CASE d # Root
  <2>1. Above[d] = {d} \cup Above[Up[d]]
    BY <1>2, AboveDef
  <2> QED
    BY <1>2, <2>1 DEF Reached, Fits, Visited, Children
<1> QED
  BY <1>1, <1>2

(* Nothing below a directory that was not opened is counted.               *)
LEMMA MineAlone ==
  ASSUME Types, NEW d \in Dirs, Visited(d), ~Fits(d), \A n \in counted : Meets(n)
  PROVE  Mine(d) = {d}
<1>1. \A e \in Dirs : d \in Above[e] => ~Reached(e)
  BY DEF Reached, Fits
<1>2. \A n \in counted : DirOf[n] \notin Under(d)
  BY <1>1, FileIn DEF Meets, Under, Types
<1>3. ASSUME NEW e \in Under(d), Visited(e), e # d PROVE FALSE
  <2>1. e \in Dirs /\ d \in Above[e]
    BY <1>3 DEF Under
  <2>2. e # Root
    <3>1. Above[Root] = {Root}
      BY AboveDef, TreeAssumption
    <3> QED
      BY <1>3, <2>1, <3>1
  <2>3. Up[e] \in Dirs /\ Above[e] = {e} \cup Above[Up[e]]
    BY <2>1, <2>2, AboveDef, TreeAssumption
  <2> QED
    BY <1>1, <1>3, <2>1, <2>2, <2>3 DEF Visited
<1>4. d \in Under(d)
  BY AboveDirs DEF Under
<1> QED
  BY <1>2, <1>3, <1>4 DEF Mine

LEMMA MineParts ==
  ASSUME Types, NEW d \in Dirs, Visited(d)
  PROVE  /\ Mine(d) = {d} \cup (NamesIn(d) \cap counted) \cup UNION {Mine(c) : c \in Children(d)}
         /\ \A c \in Children(d) : d \notin Mine(c) /\ NamesIn(d) \cap Mine(c) = {}
         /\ \A c, e \in Children(d) : c # e => Mine(c) \cap Mine(e) = {}
<1> DEFINE U == UNION {Under(c) : c \in Children(d)}
<1>0. /\ Under(d) = {d} \cup U
      /\ \A c \in Children(d) : d \notin Under(c) /\ Under(c) \subseteq Under(d)
      /\ \A c, e \in Children(d) : c # e => Under(c) \cap Under(e) = {}
  BY UnderParts
<1>1. /\ \A c \in Dirs : Under(c) \subseteq Dirs
      /\ counted \subseteq Names /\ Dirs \cap Names = {} /\ Children(d) \subseteq Dirs
      /\ \A n \in counted : DirOf[n] = d <=> n \in NamesIn(d)
  BY TreeAssumption DEF Under, Types, Children, NamesIn
<1>2. \A x : x \in Mine(d) <=> \/ x = d
                               \/ x \in U /\ Visited(x)
                               \/ x \in NamesIn(d) \cap counted
                               \/ x \in counted /\ DirOf[x] \in U
  BY <1>0, <1>1 DEF Mine
<1>3. \A x : x \in UNION {Mine(c) : c \in Children(d)} <=>
               (x \in U /\ Visited(x)) \/ (x \in counted /\ DirOf[x] \in U)
  BY DEF Mine
<1>4. \A c \in Children(d) : d \notin Mine(c) /\ NamesIn(d) \cap Mine(c) = {}
  BY <1>0, <1>1 DEF Mine, NamesIn
<1>5. \A c, e \in Children(d) : c # e => Mine(c) \cap Mine(e) = {}
  BY <1>0, <1>1 DEF Mine
<1> HIDE DEF U
<1>6. Mine(d) = {d} \cup (NamesIn(d) \cap counted) \cup UNION {Mine(c) : c \in Children(d)}
  BY <1>2, <1>3
<1> QED
  BY <1>4, <1>5, <1>6

(* Its row is the sum of its own, when those of its subdirectories are.    *)
LEMMA RowStep ==
  ASSUME Types, rows \in [Dirs -> Nat], NEW d \in Dirs, Visited(d), Fits(d),
         rows[d] = Block + FileBytes(NamesIn(d) \cap counted) + ChildBytes(d),
         \A c \in Children(d) : rows[c] = Sum(Weight, Mine(c))
  PROVE  rows[d] = Sum(Weight, Mine(d))
<1> DEFINE C == Children(d)
           N == NamesIn(d) \cap counted
           B == [c \in C |-> Mine(c)]
           M == UNION {B[c] : c \in C}
<1>0. /\ N \in SUBSET Names /\ C \in SUBSET Dirs /\ IsFiniteSet(C)
      /\ \A c \in C : Weighed(Weight, B[c]) /\ rows[c] = Sum(Weight, B[c])
      /\ \A c, e \in C : c # e => B[c] \cap B[e] = {}
  BY MineIn, MineParts, ChildrenIn DEF NamesIn
<1>1. /\ Mine(d) = {d} \cup N \cup M /\ d \notin M /\ N \cap M = {}
      /\ d \notin N
  <2>1. M = UNION {Mine(c) : c \in C}
    OBVIOUS
  <2> QED
    BY <1>0, <2>1, MineParts, NameWeight
<1> HIDE DEF B, C, N
<1>2. Weighed(Weight, M) /\ Sum(rows, C) = Sum(Weight, M)
  BY <1>0, SumFamily
<1> HIDE DEF M
<1>3. Weighed(Weight, N) /\ FileBytes(N) = Sum(Weight, N)
  BY <1>0, PathsFinite, FileSum
<1>4. Weighed(Weight, N \cup M) /\ Sum(Weight, N \cup M) = Sum(Weight, N) + Sum(Weight, M)
  BY <1>1, <1>2, <1>3, SumUnion
<1>5. Weight[d] = Block /\ Mine(d) \ {d} = N \cup M /\ d \in Mine(d)
  BY <1>1 DEF Weight
<1>6. Sum(Weight, Mine(d)) = Weight[d] + Sum(Weight, Mine(d) \ {d})
  BY <1>5, MineIn, SumRemove
<1>7. Sum(Weight, N) \in Nat /\ Sum(Weight, M) \in Nat
  BY <1>2, <1>3, SumNat
<1>8. ChildBytes(d) = Sum(Weight, M)
  BY <1>2, ChildSum DEF C
<1>9. rows[d] = Block + Sum(Weight, N) + Sum(Weight, M)
  BY <1>3, <1>8 DEF N
<1>10. Sum(Weight, Mine(d)) = Block + (Sum(Weight, N) + Sum(Weight, M))
  BY <1>4, <1>5, <1>6
<1> QED
  BY <1>7, <1>9, <1>10 DEF Block

LEMMA Greatest ==
  ASSUME NEW S \in SUBSET Nat, IsFiniteSet(S), S # {}
  PROVE  \E n \in S : \A m \in S : m <= n
<1> DEFINE T == {Cardinality({m \in S : m > n}) : n \in S}
<1>1. \A n \in S : IsFiniteSet({m \in S : m > n}) /\ Cardinality({m \in S : m > n}) \in Nat
  BY FS_Subset, FS_CardinalityType
<1>2. T \in SUBSET Nat /\ T # {}
  BY <1>1
<1>3. PICK k \in T : \A j \in T : k <= j
  <2> HIDE DEF T
  <2> QED
    BY <1>2, Least
<1>4. PICK n \in S : k = Cardinality({m \in S : m > n})
  BY <1>3
<1>5. ASSUME NEW m \in S, m > n PROVE FALSE
  <2> DEFINE A == {i \in S : i > n}
             E == {i \in S : i > m}
  <2>1. E \in SUBSET A /\ m \in A /\ m \notin E
    <3>1. \A i \in S : i \in Nat /\ (i > m => i > n)
      BY <1>5
    <3>2. ~(m > m)
      BY <3>1
    <3> QED
      BY <1>5, <3>1, <3>2
  <2>2. Cardinality(E) \in T /\ IsFiniteSet(A) /\ Cardinality(A) \in Nat /\ Cardinality(E) \in Nat
    BY <1>1
  <2> HIDE DEF A, E, T
  <2>3. Cardinality(E) <= Cardinality(A) /\ (Cardinality(A) = Cardinality(E) => A = E)
    BY <2>1, <2>2, FS_Subset
  <2>4. Cardinality(A) <= Cardinality(E)
    BY <1>3, <1>4, <2>2 DEF A
  <2> QED
    BY <2>1, <2>2, <2>3, <2>4
<1> QED
  BY <1>5

LEMMA EndRows ==
  ASSUME Types, OpenInv, MountInv, Ended, rows \in [Dirs -> Nat], RowsInv, \A n \in counted : Meets(n),
         NEW d \in Dirs, Visited(d)
  PROVE  rows[d] = Sum(Weight, Mine(d))
<1> DEFINE S == {e \in Dirs : Visited(e) /\ rows[e] # Sum(Weight, Mine(e))}
<1> SUFFICES ASSUME S # {} PROVE FALSE
  OBVIOUS
<1>1. S \in SUBSET Nat /\ IsFiniteSet(S)
  BY PathsFinite, TreeAssumption
<1>2. PICK e \in S : \A b \in S : b <= e
  <2> HIDE DEF S
  <2> QED
    BY <1>1, Greatest
<1>3. e \in Dirs /\ Visited(e) /\ rows[e] # Sum(Weight, Mine(e)) /\ e \in Nat
  BY <1>1, <1>2
<1>4. stage[e] \in Back
  BY <1>3, EndReach DEF Back
<1>5. CASE Fits(e)
  <2>1. rows[e] = Block + FileBytes(NamesIn(e) \cap counted) + ChildBytes(e)
    BY <1>3, <1>4, <1>5 DEF RowsInv
  <2>2. ASSUME NEW c \in Children(e) PROVE rows[c] = Sum(Weight, Mine(c))
    <3>1. c \in Dirs /\ c \in Nat /\ e < c /\ Visited(c)
      BY <1>3, <1>5, ChildrenIn, VisitedFits, TreeAssumption
    <3>2. c \notin S
      BY <1>2, <1>3, <3>1
    <3> QED
      BY <3>1, <3>2
  <2> QED
    BY <1>3, <1>5, <2>1, <2>2, RowStep
<1>6. CASE ~Fits(e)
  <2>1. rows[e] = Block
    BY <1>3, <1>4, <1>6 DEF RowsInv
  <2>2. Mine(e) = {e} /\ Weight[e] = Block /\ Weighed(Weight, {e})
    BY <1>3, <1>6, MineAlone, PathsFinite DEF Weight
  <2>3. Sum(Weight, {e}) = Weight[e] + Sum(Weight, {e} \ {e})
    BY <2>2, SumRemove
  <2>4. Sum(Weight, {}) = 0 /\ {e} \ {e} = {}
    BY <2>2, SumNat
  <2> QED
    BY <1>3, <2>1, <2>2, <2>3, <2>4 DEF Block
<1> QED
  BY <1>5, <1>6

LEMMA EndTrueRow ==
  ASSUME Types, OpenInv, MountInv, Ended, rows \in [Dirs -> Nat], RowsInv, \A n \in counted : Meets(n),
         counted = TrueCounted, NEW d \in Dirs, Visited(d)
  PROVE  rows[d] = TrueRow[d]
<1> DEFINE V == {e \in Under(d) : Visited(e)}
           N == {n \in counted : DirOf[n] \in Under(d)}
<1>1. V \in SUBSET Dirs /\ N \in SUBSET Names /\ V \cap N = {} /\ Mine(d) = V \cup N
  BY TreeAssumption DEF Under, Types, Mine
<1>2. TrueRow[d] = Block * Cardinality(V) + FileBytes(N)
  BY DEF TrueRow, FileBytes
<1> HIDE DEF V, N
<1>3. Weighed(Weight, V) /\ Weighed(Weight, N) /\ IsFiniteSet(V) /\ Cardinality(V) \in Nat
  BY <1>1, PathsFinite
<1>4. Sum(Weight, V \cup N) = Sum(Weight, V) + Sum(Weight, N)
  BY <1>1, <1>3, SumUnion
<1>5. Sum(Weight, V) = Cardinality(V)
  <2>1. \A x \in V : Weight[x] = 1
    BY <1>1 DEF Weight, Block
  <2> QED
    BY <1>3, <2>1, SumOnes
<1>6. FileBytes(N) = Sum(Weight, N) /\ Sum(Weight, N) \in Nat
  BY <1>1, <1>3, FileSum, SumNat
<1>7. rows[d] = Sum(Weight, V) + Sum(Weight, N)
  BY <1>1, <1>4, EndRows
<1>8. Block * Cardinality(V) = Cardinality(V)
  BY <1>3 DEF Block
<1> QED
  BY <1>2, <1>5, <1>6, <1>7, <1>8

-----------------------------------------------------------------------------
(* The report.                                                             *)

BlockedAtAll == {d \in sealed : Visited(d) /\ Depth(d) <= depthLimit}
TrueFiles == {FileRow(n) : n \in {k \in TrueCounted : InnerListing(DirOf[k])}}
TrueDirRows == {Row(d, TrueRow[d]) : d \in TrueDirs}
Says ==
  /\ counted = TrueCounted
  /\ \A d \in Dirs : Visited(d) => rows[d] = TrueRow[d]
  /\ Best(topDirs.items, top) = Best(TrueDirRows, top)
  /\ Best(topFiles.items, top) = Best(TrueFiles, top)
  /\ unread.count = Cardinality(BlockedAtAll)
  /\ unread.count <= UnreadKept => unread.kept = BlockedAtAll

LEMMA AgreesSays == Agrees <=> (phase = "over" /\ moved = {} /\ ~stop /\ ~Mounted /\ top > 0 => Says)
BY DEF Agrees, Says, BlockedAtAll, TrueFiles, TrueDirRows

(* It is offered the same by its sum as by what it should be.              *)
LEMMA OfferTrue ==
  ASSUME NEW d \in Dirs, rows[d] = TrueRow[d], \A c \in Children(d) : rows[c] = TrueRow[c]
  PROVE  Offered(d, rows) <=> Offered(d, TrueRow)
<1> DEFINE A(row) == {row[c] : c \in {e \in Children(d) : Opened(e) /\ Listing(e) /\ row[e] >= MinSize}}
<1>1. A(rows) = A(TrueRow)
  OBVIOUS
<1>2. LargestChild(d, rows) = LargestChild(d, TrueRow)
  <2>1. \A row : LargestChild(d, row) = Max({0} \cup A(row))
    BY DEF LargestChild
  <2> HIDE DEF A
  <2> QED
    BY <1>1, <2>1
<1> QED
  BY <1>2 DEF Offered

LEMMA EndDirs ==
  ASSUME Types, OpenInv, MountInv, Ended, rows \in [Dirs -> Nat], top > 0, DirsInv,
         \A d \in Dirs : Visited(d) => rows[d] = TrueRow[d]
  PROVE  Best(topDirs.items, top) = Best(TrueDirRows, top)
<1>1. ASSUME NEW d \in Dirs, Visited(d), Depth(d) <= depthLimit, d \notin sealed
      PROVE  Offered(d, rows) <=> Offered(d, TrueRow)
  <2>1. \A c \in Children(d) : c \in Dirs /\ Visited(c)
    BY <1>1, VisitedFits DEF Fits, Children
  <2> QED
    BY <1>1, <2>1, OfferTrue
<1>2. TrueDirs = {e \in Dirs : stage[e] = "done" /\ MayShow(e)}
  BY <1>1, EndReach DEF TrueDirs, MayShow
<1>3. DoneRows = TrueDirRows
  <2>1. \A d \in TrueDirs : rows[d] = TrueRow[d]
    BY DEF TrueDirs
  <2> QED
    BY <1>2, <2>1 DEF DoneRows, TrueDirRows
<1>4. Covers(topDirs, {}, DoneRows) /\ top \in Nat
  BY DEF DirsInv, Types
<1>5. DoneRows \in SUBSET Item /\ IsFiniteSet(DoneRows)
  BY DoneIn
<1> QED
  BY <1>3, <1>4, <1>5, CoversBest

LEMMA EndFiles ==
  ASSUME Types, OpenInv, MountInv, Ended, top > 0, FilesInv, counted = TrueCounted
  PROVE  Best(topFiles.items, top) = Best(TrueFiles, top)
<1>1. cands = {}
  <2>1. \A n \in cands : DirOf[n] \in Dirs /\ stage[DirOf[n]] \in {"stat", "offer", "push"}
    BY FileIn DEF FilesInv, Types
  <2> QED
    BY <2>1, AllBack DEF Ended
<1>2. Inner(cands) = {} /\ Inner(counted) = TrueFiles
  BY <1>1 DEF Inner, TrueFiles
<1>3. Inner(counted) \in SUBSET Item /\ IsFiniteSet(Inner(counted))
  BY InnerIs DEF Types
<1>4. Covers(topFiles, {}, Inner(counted)) /\ top \in Nat
  BY <1>2 DEF FilesInv, Types
<1> QED
  BY <1>2, <1>3, <1>4, CoversBest

LEMMA EndUnread ==
  ASSUME Types, OpenInv, MountInv, Ended, sealed \subseteq Dirs, UnreadInv
  PROVE  /\ unread.count = Cardinality(BlockedAtAll)
         /\ unread.count <= UnreadKept => unread.kept = BlockedAtAll
<1>1. Blocked = BlockedAtAll
  BY EndReach DEF Blocked, BlockedAtAll
<1> QED
  BY <1>1 DEF UnreadInv

(* A walk that nothing disturbs ends with the right report.                *)
LEMMA EndSays ==
  ASSUME Types, WalkInv, Walking, CalmInv, Calm, stage[Root] = "done", phase = "first" => Settled
  PROVE  Says /\ (phase = "second" => AllMet)
<1>1. /\ sealed \subseteq Dirs /\ rows \in [Dirs -> Nat] /\ RowsInv /\ DirsInv /\ FilesInv
      /\ LeastInv /\ UnreadInv /\ moved = {} /\ top > 0
      /\ OpenInv /\ MountInv /\ NamesInv
  BY DEF CalmInv, Calm, WalkInv
<1>2. Ended
  BY DEF CalmInv, Calm, Ended, Types
<1>3. counted = TrueCounted
  BY <1>1, <1>2, EndCounted
<1>4. \A n \in counted : Meets(n)
  BY <1>3 DEF TrueCounted, Meets
<1>5. \A d \in Dirs : Visited(d) => rows[d] = TrueRow[d]
  BY <1>1, <1>2, <1>3, <1>4, EndTrueRow
<1>6. Best(topDirs.items, top) = Best(TrueDirRows, top)
  BY <1>1, <1>2, <1>5, EndDirs
<1>7. Best(topFiles.items, top) = Best(TrueFiles, top)
  BY <1>1, <1>2, <1>3, EndFiles
<1>8. /\ unread.count = Cardinality(BlockedAtAll)
      /\ unread.count <= UnreadKept => unread.kept = BlockedAtAll
  BY <1>1, <1>2, EndUnread
<1>9. phase = "second" => AllMet
  BY <1>1, <1>2, EndAllMet
<1> QED
  BY <1>3, <1>5, <1>6, <1>7, <1>8, <1>9 DEF Says

LEMMA TrueRowSum ==
  there \subseteq Names =>
    TrueRow = [d \in Dirs |-> Block * Cardinality({e \in Under(d) : Visited(e)})
                              + Sum(Weight, {n \in TrueCounted : DirOf[n] \in Under(d)})]
<1> SUFFICES ASSUME there \subseteq Names, NEW d \in Dirs
             PROVE  FileBytes({n \in TrueCounted : DirOf[n] \in Under(d)})
                      = Sum(Weight, {n \in TrueCounted : DirOf[n] \in Under(d)})
  BY DEF TrueRow, FileBytes
<1>1. {n \in TrueCounted : DirOf[n] \in Under(d)} \in SUBSET Names
  BY DEF TrueCounted
<1> QED
  BY <1>1, FileSum

LEMMA SaysSame ==
  ASSUME there \subseteq Names,
         UNCHANGED <<top, depthLimit, inode, sealed, there, stage, counted, rows, topDirs, topFiles,
                     unread>>
  PROVE  Says' <=> Says
<1>1. /\ \A d : Reached(d)' <=> Reached(d)
      /\ \A d : Opened(d)' <=> Opened(d)
  BY DEF Reached, Opened, Depth
<1>2. \A d : Visited(d)' <=> Visited(d)
  BY <1>1 DEF Visited
<1>3. TrueCounted' = TrueCounted
  BY <1>1 DEF TrueCounted
<1>4. TrueRow' = TrueRow
  <2>1. TrueRow = [d \in Dirs |-> Block * Cardinality({e \in Under(d) : Visited(e)})
                                  + Sum(Weight, {n \in TrueCounted : DirOf[n] \in Under(d)})]
    BY TrueRowSum
  <2>2. TrueRow' = [d \in Dirs |-> Block * Cardinality({e \in Under(d) : Visited(e)'})
                                   + Sum(Weight, {n \in TrueCounted' : DirOf[n] \in Under(d)})]
    <3>1. (there \subseteq Names =>
             TrueRow = [d \in Dirs |-> Block * Cardinality({e \in Under(d) : Visited(e)})
                                       + Sum(Weight, {n \in TrueCounted : DirOf[n] \in Under(d)})])'
      BY TrueRowSum, PTL
    <3> QED
      BY <3>1 DEF Under, Sum, Adder, Adds, AddUp, Weight
  <2>3. \A d : {e \in Under(d) : Visited(e)'} = {e \in Under(d) : Visited(e)}
    BY <1>2
  <2> QED
    BY <1>3, <2>1, <2>2, <2>3
<1>5. TrueDirs' = TrueDirs
  <2>1. \A d : Offered(d, TrueRow)' <=> Offered(d, TrueRow)
    <3>1. \A d : LargestChild(d, TrueRow)' = LargestChild(d, TrueRow)
      <4> SUFFICES ASSUME NEW d PROVE LargestChild(d, TrueRow)' = LargestChild(d, TrueRow)
        OBVIOUS
      <4>1. {e \in Children(d) : Opened(e) /\ Listing(e) /\ TrueRow[e] >= MinSize}'
              = {e \in Children(d) : Opened(e) /\ Listing(e) /\ TrueRow[e] >= MinSize}
        BY <1>1, <1>4 DEF Children, Listing
      <4> QED
        BY <1>4, <4>1 DEF LargestChild
    <3> QED
      BY <1>4, <3>1 DEF Offered, Listing
  <2> QED
    BY <1>2, <2>1 DEF TrueDirs, Depth
<1>6. TrueDirRows' = TrueDirRows /\ TrueFiles' = TrueFiles /\ BlockedAtAll' = BlockedAtAll
  BY <1>2, <1>3, <1>4, <1>5 DEF TrueDirRows, TrueFiles, BlockedAtAll, Row, FileRow, InnerListing, Listing, Depth
<1> QED
  BY <1>2, <1>3, <1>4, <1>6 DEF Says, Best, Ahead

-----------------------------------------------------------------------------
(* The second invariant.                                                   *)

FreshLists ==
  /\ rows = FreshWalk.rows /\ topDirs = EmptyTop /\ topFiles = EmptyTop
  /\ cands = {} /\ unread = NoUnread

BlankInv ==
  /\ rows \in [Dirs -> Nat] /\ RowsInv /\ DirsInv /\ FilesInv /\ cut = FALSE /\ UnreadInv
  /\ \A n \in Names : ~Taken(n)
  /\ met >= Cardinality({f \in Files : Decided(f) /\ decided[f] \in counted})

(* A walk that begins has nothing to report.                               *)
LEMMA FreshCalm ==
  ASSUME FreshVars, FreshLists, sealed \subseteq Dirs
  PROVE  BlankInv
<1>1. /\ stage = [d \in Dirs |-> "new"] /\ counted = {} /\ cut = FALSE /\ met = 0
      /\ rows = [d \in Dirs |-> 0] /\ topDirs = EmptyTop /\ topFiles = EmptyTop
      /\ cands = {} /\ unread = NoUnread
  BY DEF FreshVars, FreshLists, FreshWalk
<1>2. rows \in [Dirs -> Nat] /\ RowsInv
  BY <1>1 DEF RowsInv, Back
<1>3. EmptyTop \in Lists /\ EmptyTop.items = {} /\ EmptyTop.floor = NoFloor
  BY DEF EmptyTop, Lists
<1>4. Covers(EmptyTop, {}, {})
  BY <1>3 DEF Covers, CoversFor
<1>5. DirsInv
  <2>1. DoneRows = {}
    BY <1>1 DEF DoneRows
  <2> QED
    BY <1>1, <1>3, <1>4, <2>1 DEF DirsInv
<1>6. FilesInv
  <2>1. Inner({}) = {}
    BY DEF Inner
  <2> QED
    BY <1>1, <1>3, <1>4, <2>1 DEF FilesInv
<1>7. UnreadInv
  <2>1. Blocked = {}
    BY <1>1 DEF Blocked
  <2> QED
    BY <1>1, <2>1, FS_EmptySet DEF UnreadInv, NoUnread
<1>8. \A n \in Names : ~Taken(n)
  BY <1>1, FileIn DEF Taken, Opened
<1>9. met >= Cardinality({f \in Files : Decided(f) /\ decided[f] \in counted})
  <2>1. {f \in Files : Decided(f) /\ decided[f] \in counted} = {}
    BY <1>1
  <2> QED
    BY <1>1, <2>1, FS_EmptySet
<1> QED
  BY <1>1, <1>2, <1>5, <1>6, <1>7, <1>8, <1>9 DEF BlankInv

LEMMA InitCalm == Init => CalmInv
<1> SUFFICES ASSUME Init PROVE CalmInv
  OBVIOUS
<1>1. Types
  BY InitInv DEF IInv
<1>2. FreshVars /\ FreshLists
  BY DEF Init, FreshVars, FreshLists, FreshWalk
<1>3. phase = "first" /\ sealed \subseteq Dirs /\ decided = [f \in Files |-> NoPath]
      /\ claims = [f \in Files |-> NoClaim]
  BY OptionAssumption DEF Init, FreshWalk
<1>4. BlankInv
  BY <1>2, <1>3, FreshCalm
<1>5. \A f \in Files : LeastClaim(f)
  BY <1>3 DEF LeastClaim, Claimed, NoClaim
<1>6. LeastInv
  BY <1>3, <1>4, <1>5 DEF LeastInv, BlankInv
<1>7. Agrees
  BY <1>3 DEF Agrees
<1> QED
  BY <1>3, <1>4, <1>6, <1>7 DEF CalmInv, BlankInv

LEMMA StepCalm ==
  ASSUME IInv, CalmInv, NEW d \in Dirs, Step(d)
  PROVE  CalmInv'
<1>1. Types /\ Walking /\ WalkInv /\ OpenInv /\ NamesInv
  BY StepKinds DEF IInv, WalkInv
<1>2. Keeps /\ UNCHANGED <<there, moved>>
  BY <1>1, StepWalk
<1>3. /\ sealed \subseteq Dirs /\ rows \in [Dirs -> Nat] /\ RowsInv /\ (top > 0 => DirsInv /\ FilesInv)
      /\ (cut => stop) /\ (Calm => LeastInv /\ UnreadInv)
  BY <1>1 DEF CalmInv
<1>4. sealed' = sealed /\ top' = top /\ inode' = inode /\ phase' = phase
  BY <1>2 DEF Keeps
<1>5. RowsInv' /\ rows' \in [Dirs -> Nat]
  BY <1>1, <1>3, StepRowsInv
<1>6. top' > 0 => DirsInv' /\ FilesInv'
  BY <1>1, <1>3, <1>4, StepDirsInv, StepFilesInv
<1>7. stop' = stop /\ (cut' => stop')
  BY <1>1, <1>3, StepStop
<1>8. Calm' => Calm
  BY <1>2, <1>4, <1>7 DEF Calm, Mounted
<1>9. Calm' => LeastInv' /\ UnreadInv'
  <2> SUFFICES ASSUME Calm PROVE LeastInv' /\ UnreadInv'
    BY <1>8
  <2>1. moved = {} /\ top > 0 /\ LeastInv /\ UnreadInv
    BY <1>3 DEF Calm
  <2> QED
    BY <1>1, <1>3, <2>1, StepLeast, StepUnread
<1>10. phase' # "over"
  BY <1>1, <1>4 DEF Walking
<1> QED
  BY <1>3, <1>4, <1>5, <1>6, <1>7, <1>9, <1>10 DEF CalmInv, Agrees

(* What does not touch the walk keeps its rows and lists.                  *)
LEMMA CalmStill ==
  ASSUME Types, UNCHANGED <<input, walkVars>>
  PROVE  /\ RowsInv => RowsInv'
         /\ DirsInv => DirsInv'
         /\ FilesInv => FilesInv'
<1>0. UNCHANGED <<top, depthLimit, inode, sealed, stage, todo, cands, counted, rows, topDirs, topFiles>>
  BY DEF input, walkVars
<1>1. /\ \A d : Opened(d)' <=> Opened(d)
      /\ \A d : Fits(d)' <=> Fits(d)
  BY <1>0 DEF Opened, Fits, Depth
<1>2. RowsInv => RowsInv'
  <2>1. \A d \in Dirs : ChildBytes(d)' = ChildBytes(d)
    BY <1>0, SameChildren
  <2>2. \A d \in Dirs : (NamesIn(d) \cap counted)' = NamesIn(d) \cap counted
    BY <1>0 DEF NamesIn
  <2> QED
    BY <1>0, <1>1, <2>1, <2>2 DEF RowsInv
<1>3. \A d \in Dirs : MayShow(d)' <=> MayShow(d)
  <2> SUFFICES ASSUME NEW d \in Dirs PROVE MayShow(d)' <=> MayShow(d)
    OBVIOUS
  <2>1. {c \in Children(d) : Opened(c)' /\ Listing(c) /\ rows'[c] >= MinSize}
          = {c \in Children(d) : Opened(c) /\ Listing(c) /\ rows[c] >= MinSize}
    BY <1>0, <1>1
  <2>2. LargestChild(d, rows)' = LargestChild(d, rows)
    BY <1>0, <2>1 DEF LargestChild
  <2>3. Offered(d, rows)' <=> Offered(d, rows)
    BY <1>0, <2>2 DEF Offered
  <2> QED
    BY <1>0, <2>3 DEF MayShow, Depth
<1>4. DirsInv => DirsInv'
  <2>1. DoneRows' = DoneRows
    BY <1>0, <1>3 DEF DoneRows
  <2>2. Covers(topDirs, {}, DoneRows) => Covers(topDirs, {}, DoneRows)'
    BY <1>0, <2>1 DEF Covers
  <2> QED
    BY <1>0, <1>3, <2>2 DEF DirsInv
<1>5. FilesInv => FilesInv'
  <2>1. Root \in Dirs /\ FilesStay(Root)
    BY <1>0, TreeAssumption DEF FilesStay
  <2> QED
    BY <1>0, <2>1, StayFiles
<1> QED
  BY <1>2, <1>4, <1>5

LEMMA StopCalm ==
  ASSUME IInv, CalmInv, Stop
  PROVE  CalmInv'
<1>1. Types /\ Walking /\ UNCHANGED <<input, walkVars, phase>> /\ stop' = TRUE
  BY DEF IInv, Stop
<1>2. sealed' = sealed /\ rows' = rows /\ top' = top
  BY <1>1 DEF input, walkVars
<1>3. phase' # "over"
  BY <1>1 DEF Walking
<1>4. ~Calm'
  BY <1>1 DEF Calm
<1> QED
  BY <1>1, <1>2, <1>3, <1>4, CalmStill DEF CalmInv, Agrees, Walking

LEMMA ChangeCalm ==
  ASSUME IInv, CalmInv, NEW n \in Names, Unlink(n) \/ Link(n)
  PROVE  CalmInv'
<1>1. /\ Types /\ Walking /\ UNCHANGED <<input, walkVars, phase, stop>> /\ FileOf[n] \in moved'
  BY DEF IInv, Unlink, Link
<1>2. sealed' = sealed /\ rows' = rows /\ top' = top /\ cut' = cut
  BY <1>1 DEF input, walkVars
<1>3. phase' # "over"
  BY <1>1 DEF Walking
<1>4. ~Calm'
  BY <1>1 DEF Calm
<1> QED
  BY <1>1, <1>2, <1>3, <1>4, CalmStill DEF CalmInv, Agrees, Walking

LEMMA RestCalm ==
  ASSUME IInv, CalmInv, UNCHANGED vars
  PROVE  CalmInv'
<1>1. UNCHANGED <<input, walkVars, phase, stop, moved, there, decided>> /\ Types
  BY DEF vars, IInv
<1>2. UNCHANGED <<top, depthLimit, inode, sealed, rows, cut, stage, todo, claims, counted, met,
                  topDirs, topFiles, unread>>
  BY <1>1 DEF input, walkVars
<1>3. Calm' => Calm
  BY <1>1, <1>2 DEF Calm, Mounted
<1>4. Walking /\ LeastInv => LeastInv'
  <2>1. \A n \in Names : Taken(n)' <=> Taken(n)
    BY <1>1, <1>2 DEF Taken, Opened, Depth
  <2>2. Walking => ClaimInv
    BY DEF IInv, WalkInv
  <2> QED
    BY <1>1, <1>2, <2>1, <2>2, LeastStill
<1>5. UnreadInv => UnreadInv'
  <2>1. Blocked' = Blocked
    BY <1>2 DEF Blocked, Depth
  <2> QED
    BY <1>2, <2>1 DEF UnreadInv
<1>6. Agrees'
  <2>1. there \subseteq Names
    BY <1>1 DEF Types
  <2>2. Says' <=> Says
    BY <1>1, <1>2, <2>1, SaysSame
  <2>3. phase = "over" /\ moved = {} /\ ~stop /\ ~Mounted /\ top > 0 => Says
    BY AgreesSays DEF CalmInv
  <2>4. (phase = "over" /\ moved = {} /\ ~stop /\ ~Mounted /\ top > 0 => Says)'
    BY <1>1, <1>2, <2>2, <2>3 DEF Mounted
  <2> QED
    BY <2>4, AgreesSays, PTL
<1> QED
  BY <1>1, <1>2, <1>3, <1>4, <1>5, <1>6, CalmStill DEF CalmInv, Walking

LEMMA EndFirstCalm ==
  ASSUME IInv, CalmInv, EndFirst
  PROVE  CalmInv'
<1>1. /\ phase = "first" /\ phase' = "over" /\ stage[Root] = "done" /\ (stop \/ Settled)
      /\ UNCHANGED <<top, depthLimit, inode, sealed, there, stop, stage, counted, rows, topDirs,
                     topFiles, unread, moved>>
  BY DEF EndFirst, input, walkVars
<1>2. Walking /\ Types /\ WalkInv
  BY <1>1 DEF IInv, Walking
<1>3. Agrees'
  <2>1. there \subseteq Names
    BY <1>2 DEF Types
  <2>2. Says' <=> Says
    BY <1>1, <2>1, SaysSame
  <2>3. Calm => Says
    BY <1>1, <1>2, EndSays DEF Calm
  <2>4. (phase = "over" /\ moved = {} /\ ~stop /\ ~Mounted /\ top > 0 => Says)'
    BY <1>1, <2>2, <2>3 DEF Mounted, Calm
  <2> QED
    BY <2>4, AgreesSays, PTL
<1>4. sealed' \subseteq Dirs /\ ~Walking'
  BY <1>1 DEF CalmInv, Walking
<1> QED
  BY <1>3, <1>4 DEF CalmInv

LEMMA EndSecondCalm ==
  ASSUME IInv, CalmInv, EndSecond
  PROVE  CalmInv'
<1>1. /\ phase = "second" /\ phase' = "over" /\ stage[Root] = "done"
      /\ UNCHANGED <<top, depthLimit, inode, sealed, there, stop, stage, moved>>
      /\ AllMet => UNCHANGED <<counted, rows, topDirs, topFiles, unread>>
  BY DEF EndSecond, input
<1>2. Walking /\ Types /\ WalkInv
  BY <1>1 DEF IInv, Walking
<1>3. Agrees'
  <2>1. there \subseteq Names
    BY <1>2 DEF Types
  <2>2. Calm => Says /\ AllMet
    BY <1>1, <1>2, EndSays DEF Calm
  <2>3. AllMet => (Says' <=> Says)
    BY <1>1, <2>1, SaysSame
  <2>4. (phase = "over" /\ moved = {} /\ ~stop /\ ~Mounted /\ top > 0 => Says)'
    BY <1>1, <2>2, <2>3 DEF Mounted, Calm
  <2> QED
    BY <2>4, AgreesSays, PTL
<1>4. sealed' \subseteq Dirs /\ ~Walking'
  BY <1>1 DEF CalmInv, Walking
<1> QED
  BY <1>3, <1>4 DEF CalmInv

(* The second walk begins with the least path of each file that has links. *)
LEMMA StartSecondCalm ==
  ASSUME IInv, CalmInv, StartSecond
  PROVE  CalmInv'
<1>1. /\ UNCHANGED <<top, depthLimit, inode, sealed, there, stop, moved>>
      /\ phase = "first" /\ phase' = "second" /\ ~stop /\ stage[Root] = "done"
      /\ decided' = [f \in Files |-> claims[f].path]
  BY DEF StartSecond, input
<1>2. Walking /\ Types /\ WalkInv
  BY <1>1 DEF IInv, Walking
<1>3. FreshVars' /\ FreshLists'
  BY DEF StartSecond, FreshVars, FreshLists, FreshWalk
<1>4. (sealed \subseteq Dirs)'
  BY <1>1 DEF CalmInv
<1>5. BlankInv'
  BY <1>3, <1>4, FreshCalm, PTL
<1>6. Calm' => LeastInv'
  <2> SUFFICES ASSUME Calm PROVE LeastInv'
    BY <1>1 DEF Calm, Mounted
  <2>1. Ended /\ LeastInv /\ moved = {} /\ top > 0
    BY <1>1, <1>2 DEF CalmInv, Calm, Ended, Types
  <2>2. \A n \in Names : Taken(n) <=> Meets(n)
    BY <1>2, <2>1, EndTaken DEF WalkInv
  <2>3. /\ \A f : NLink(f)' = NLink(f)
        /\ \A n : Meets(n)' <=> Meets(n)
        /\ \A f \in Files : decided'[f] = claims[f].path /\ (Decided(f)' <=> Claimed(f))
    BY <1>1, SameLinks DEF Meets, Reached, Depth, Decided, Claimed
  <2>4. ASSUME NEW f \in Files PROVE LeastDecided(f)'
    <3>1. LeastClaim(f) /\ (Claimed(f) => claims[f].path \in Names)
      BY <1>1, <1>2, <2>1 DEF LeastInv, Claimed, Types
    <3>2. CASE Claimed(f)
      <4>1. Meets(claims[f].path)
        BY <2>2, <3>1, <3>2 DEF LeastClaim
      <4>2. \A n \in Names : FileOf[n] = f /\ Meets(n) => claims[f].path <= n
        BY <2>2, <3>1, <3>2 DEF LeastClaim
      <4>3. PICK p \in Names : p = claims[f].path /\ Meets(p)
        BY <3>1, <3>2, <4>1
      <4>4. Meets(p)' /\ decided'[f] = p
        BY <2>3, <4>3
      <4>5. Meets(decided[f])'
        BY <4>4
      <4> QED
        BY <2>3, <3>2, <4>2, <4>5 DEF LeastDecided
    <3>3. CASE ~Claimed(f)
      <4>1. ASSUME NEW n \in Names, FileOf[n] = f, Meets(n) PROVE NLink(f) = 1
        <5>1. ~Decided(f) /\ f \notin seen
          BY <1>1, <1>2, <2>1 DEF WalkInv, DecidedInv, SeenInv
        <5>2. n \in there /\ Opened(DirOf[n]) /\ n \notin todo[DirOf[n]]
          BY <2>2, <4>1 DEF Taken
        <5>3. PICK k \in counted : FileOf[k] = f
          BY <1>2, <2>1, <4>1, <5>1, <5>2 DEF WalkInv, TakenInv
        <5>4. decided[f] # k
          BY <1>2, <5>1, <5>3, NotPath DEF Decided, Types
        <5> QED
          BY <1>2, <2>1, <3>3, <5>1, <5>3, <5>4 DEF WalkInv, BarInv
      <4> QED
        BY <2>3, <3>3, <4>1 DEF LeastDecided
    <3> QED
      BY <3>2, <3>3
  <2> QED
    BY <1>1, <1>5, <2>4 DEF LeastInv, BlankInv
<1> QED
  BY <1>1, <1>4, <1>5, <1>6 DEF CalmInv, Agrees, BlankInv

LEMMA NextCalm == IInv /\ CalmInv /\ [Next]_vars => CalmInv'
BY StepCalm, StopCalm, ChangeCalm, RestCalm, EndFirstCalm, StartSecondCalm, EndSecondCalm DEF Next, Rest

LEMMA CalmInvariant == Spec => [](IInv /\ CalmInv)
BY InitInv, InitCalm, NextInv, NextCalm, PTL DEF Spec

(* Threads meet links and finish directories in any order, yet a scan that *)
(* nothing disturbs reports the same total for every directory, the same   *)
(* rows and the same unreadable entries as one thread that meets the tree  *)
(* in path order (scan_pooled and its second walk, LinkClaims, SharedTop,  *)
(* Ctx::unread).                                                           *)
THEOREM AlwaysAgrees == Spec => []Agrees
<1>1. CalmInv => Agrees
  BY DEF CalmInv
<1> QED
  BY <1>1, CalmInvariant, PTL
=============================================================================
