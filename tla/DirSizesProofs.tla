--------------------------- MODULE DirSizesProofs ---------------------------
(***************************************************************************)
(* For any commands, names, items and seconds: a line of `directorysizes`  *)
(* that is trusted is the size of the item there, and the line a put wrote *)
(* lasts as long as its item.                                              *)
(***************************************************************************)
EXTENDS DirSizes, TLAPS

Lines == [Names -> [size : 0..2 * MaxPuts, at : -1..MaxSeconds]]
Types ==
  /\ TypeOK
  /\ now \in Nat /\ puts \in 0..MaxPuts
  /\ job \in [Procs -> {"none", "put", "sizes", "purge", "take", "empty"}]
  /\ stage \in [Procs -> {"idle", "move", "look", "walk", "write", "size", "payload", "line"}]
  /\ names \in [Procs -> SUBSET Names] /\ kept \in [Procs -> SUBSET Names]
  /\ look \in [Procs -> [item : 0..MaxPuts, at : Nat]]
  /\ loaded \in [Procs -> Lines] /\ misses \in [Procs -> Lines]
  /\ walked \in [Procs -> [Names -> 0..2 * MaxPuts]]
  /\ measured \subseteq 1..puts

(* The records are of items put, each of another.                          *)
Records ==
  /\ \A n \in Names : record[n] # NoRecord => record[n].item \in 1..puts
  /\ \A n, m \in Names : record[n] # NoRecord /\ record[n].item = record[m].item => n = m

(* A command is at a stage of its kind, and holds the lock at those that   *)
(* change the trash, a purge from its start.                               *)
Single(S) == \E n \in Names : S = {n}
Locked(p) == stage[p] \in {"move", "payload", "line"} \/ (job[p] = "purge" /\ stage[p] = "size")
Place(p) ==
  /\ stage[p] = "idle" <=> job[p] = "none"
  /\ stage[p] \in {"move", "look", "walk", "write"} <=> job[p] = "put"
  /\ stage[p] = "size" => job[p] \in {"sizes", "purge"}
  /\ stage[p] = "line" => job[p] \in {"sizes", "take"}
  /\ job[p] = "put" => Single(names[p])
  /\ job[p] \in {"take", "sizes"} /\ stage[p] # "size" => Single(names[p])
  /\ lock = p <=> Locked(p)

(* An empty keeps no victim, and a purge finds nothing that was not there. *)
Keeps(p) ==
  stage[p] = "payload" =>
    /\ job[p] = "empty" => kept[p] \subseteq Listed /\ names[p] \cap kept[p] = {}
    /\ job[p] = "purge" => Listed \subseteq kept[p]

(* The record of a put under way is its own, without item or line.         *)
Moving(p) ==
  stage[p] = "move" => \A n \in names[p] :
    /\ record[n] # NoRecord /\ payload[n] = Nothing /\ record[n].item \notin measured
    /\ n \notin fooled => lines[n] = NoLine

(* What a put is about to write is of the record it looked at.             *)
Sized(p) ==
  /\ stage[p] \in {"walk", "write"} => look[p].item \in 1..puts
  /\ stage[p] = "write" => \A n \in names[p] \ fooled : look[p] = record[n] =>
       /\ ~TooSoon(n)
       /\ misses[p][n].at = record[n].at
       /\ payload[n] # Nothing => misses[p][n] = LineOf(n, payload[n])

(* What the other commands have walked is still there.                     *)
Walking(p) == job[p] = "sizes" \/ (job[p] = "purge" /\ stage[p] = "size")
Walked(p) ==
  /\ Walking(p) => \A n \in Names \ fooled :
       /\ walked[p][n] # Nothing => walked[p][n] = payload[n]
       /\ misses[p][n] # NoLine =>
            misses[p][n] = LineOf(n, payload[n]) /\ payload[n] # Nothing
  /\ job[p] # "sizes" /\ ~Walking(p) =>
       \A n \in Names : walked[p][n] = Nothing /\ (job[p] # "put" => misses[p][n] = NoLine)
  /\ stage[p] = "line" => \A n \in names[p] : payload[n] = Nothing

(* A line is of the item there, or else of one that is going and whoever   *)
(* removes it has yet to drop the line.                                    *)
Drops(p, n) ==
  \/ stage[p] = "line" /\ n \in names[p]
  \/ job[p] = "empty" /\ stage[p] = "payload" /\ n \notin kept[p]
  \/ job[p] = "purge" /\ stage[p] = "payload" /\ n \in kept[p]
LineTrue(n) ==
  lines[n] # NoLine =>
    /\ payload[n] # Nothing => lines[n] = LineOf(n, payload[n])
    /\ record[n] = NoRecord => \E p \in Procs : Drops(p, n)

Mine(p) == Place(p) /\ Keeps(p) /\ Moving(p) /\ Sized(p) /\ Walked(p)
IInv ==
  /\ Types /\ Records
  /\ \A p \in Procs : Mine(p)
  /\ \A n \in Names \ fooled : LineTrue(n)
  /\ PutsMeasured

LEMMA Constants ==
  /\ NoRecord \in [item : 0..MaxPuts, at : 0..MaxSeconds] /\ NoRecord \in [item : 0..MaxPuts, at : Nat]
  /\ NoLine \in [size : 0..2 * MaxPuts, at : -1..MaxSeconds] /\ NoLines \in Lines
  /\ [n \in Names |-> Nothing] \in [Names -> 0..2 * MaxPuts]
BY BoundAssumption DEF NoRecord, NoLine, NoLines, Lines, Nothing

LEMMA Entries ==
  ASSUME Types, Records, NEW n \in Names
  PROVE  /\ payload[n] # Nothing => record[n] # NoRecord
         /\ record[n] # NoRecord => record[n].item \in 1..puts
         /\ NoRecord.item = 0 /\ Nothing = 0
         /\ \A size \in 0..2 * MaxPuts : /\ LineOf(n, size) \in [size : 0..2 * MaxPuts, at : -1..MaxSeconds]
                                     /\ LineOf(n, size) # NoLine
                                     /\ LineOf(n, size).at = record[n].at
BY BoundAssumption DEF Types, TypeOK, Records, NoRecord, Nothing, LineOf, NoLine

LEMMA InitHolds == Init => IInv
<1> SUFFICES ASSUME Init PROVE IInv
  OBVIOUS
<1> USE DEF Init
<1>1. puts \in 0..MaxPuts /\ now \in Nat
  BY BoundAssumption
<1>2. TypeOK
  BY Constants DEF TypeOK, Lines, Nothing
<1>3. Types
  BY <1>1, <1>2, Constants DEF Types
<1>4. Records
  BY DEF Records
<1>5. ASSUME NEW p \in Procs PROVE Mine(p)
  BY <1>5, ProcAssumption
     DEF Mine, Place, Keeps, Locked, Moving, Sized, Walked, Walking, NoLines
<1>6. \A n \in Names : LineTrue(n)
  BY DEF LineTrue, NoLines
<1>7. PutsMeasured
  BY DEF PutsMeasured, IsDir
<1> QED
  BY <1>3, <1>4, <1>5, <1>6, <1>7 DEF IInv

-----------------------------------------------------------------------------
(* A step of p changes locals of p, takes or frees the lock for p, and     *)
(* changes the trash only while no one else has the lock.                  *)
Only(f, p) == \A q \in Procs \ {p} : f'[q] = f[q]
Local(p) ==
  /\ Only(job, p) /\ Only(stage, p) /\ Only(names, p) /\ Only(kept, p)
  /\ Only(look, p) /\ Only(misses, p) /\ Only(walked, p)
Locks(p) ==
  /\ lock' = lock \/ (lock = Nobody /\ lock' = p) \/ (lock = p /\ lock' = Nobody)
  /\ lock \in {Nobody, p} \/ UNCHANGED <<payload, record, lines, measured>>
  /\ fooled \subseteq fooled'

(* What may become of the item of a name.                                  *)
Entry(n) ==
  \/ payload'[n] = payload[n] /\ record'[n] = record[n]
  \/ payload[n] = Nothing /\ payload'[n] = Nothing /\ record'[n].item \notin 1..puts
  \/ payload[n] = Nothing /\ record'[n] = record[n] /\ TooSoon(n)
  \/ payload'[n] = Nothing /\ record'[n] = record[n] /\ (Overtakes(n) => n \in fooled')
  \/ payload[n] # Nothing /\ record'[n] = record[n] /\ (Remembered(n) => n \in fooled')

LEMMA Bystanders ==
  ASSUME IInv, NEW p \in Procs, Local(p), Locks(p), \A n \in Names : Entry(n),
         \A n \in Names : TooSoon(n)' => TooSoon(n) \/ record'[n].item \notin 1..puts,
         puts' \in Nat, puts' >= puts,
         NEW q \in Procs, q # p
  PROVE  Mine(q)'
<1>0. Types /\ Records /\ Mine(q)
  BY DEF IInv
<1>1. job'[q] = job[q] /\ stage'[q] = stage[q] /\ names'[q] = names[q] /\ kept'[q] = kept[q]
      /\ look'[q] = look[q] /\ misses'[q] = misses[q] /\ walked'[q] = walked[q]
  BY DEF Local, Only
<1>2. (lock' = q <=> lock = q)
      /\ (lock = q => UNCHANGED <<payload, record, lines, measured>>)
  BY ProcAssumption DEF Locks
<1>3. Place(q)'
  BY <1>0, <1>1, <1>2 DEF Mine, Place, Locked
<1>4. stage[q] \in {"move", "payload", "line"} => lock = q
  BY <1>0 DEF Mine, Place, Locked
<1>4a. Keeps(q)'
  BY <1>0, <1>1, <1>2, <1>4 DEF Mine, Keeps, Listed
<1>5. Moving(q)'
  BY <1>0, <1>1, <1>2, <1>4 DEF Mine, Moving, Locks
<1>6. Sized(q)'
  <2>1. stage[q] \in {"walk", "write"} => look'[q].item \in 1..puts /\ look'[q].item \in 1..puts'
    BY <1>0, <1>1 DEF Mine, Sized, Types
  <2>2. ASSUME NEW n \in names[q] \ fooled', stage[q] = "write", look[q] = record'[n]
        PROVE  /\ ~TooSoon(n)' /\ misses[q][n].at = record'[n].at
               /\ payload'[n] # Nothing => misses[q][n] = LineOf(n, payload[n])'
    <3>1. n \in Names /\ n \notin fooled /\ record'[n].item \in 1..puts
      BY <1>0, <2>1, <2>2, <1>1 DEF Types, Locks
    <3>2. record'[n] = record[n]
      BY <3>1 DEF Entry
    <3>3. ~TooSoon(n) /\ misses[q][n].at = record[n].at
          /\ (payload[n] # Nothing => misses[q][n] = LineOf(n, payload[n]))
      BY <1>0, <2>2, <3>1, <3>2 DEF Mine, Sized
    <3>4. payload[n] # Nothing => Remembered(n)
      <4>1. payload[n] \in 0..2 * MaxPuts
        BY <1>0, <3>1 DEF Types, TypeOK
      <4> QED
        BY <1>0, <3>1, <3>3, <4>1, Entries DEF Remembered
    <3>5. payload'[n] = payload[n] \/ payload'[n] = Nothing
      BY <3>1, <3>3, <3>4, <2>2 DEF Entry
    <3> QED
      BY <3>1, <3>2, <3>3, <3>5 DEF LineOf
  <2> QED
    BY <1>1, <2>1, <2>2 DEF Sized
<1>7. Walked(q)'
  <2>1. ASSUME Walking(q), NEW n \in Names \ fooled'
        PROVE  /\ walked[q][n] # Nothing => walked[q][n] = payload'[n]
               /\ misses[q][n] # NoLine =>
                    misses[q][n] = LineOf(n, payload[n])' /\ payload'[n] # Nothing
    <3>1. n \notin fooled
      BY DEF Locks
    <3>2. CASE payload'[n] = payload[n] /\ record'[n] = record[n]
      BY <1>0, <2>1, <3>1, <3>2 DEF Mine, Walked, LineOf
    <3>3. CASE payload[n] = Nothing
      BY <1>0, <2>1, <3>1, <3>3 DEF Mine, Walked
    <3>4. CASE payload'[n] = Nothing /\ (Overtakes(n) => n \in fooled')
      <4>1. CASE lock = q
        BY <1>0, <1>2, <2>1, <3>1, <4>1 DEF Mine, Walked, LineOf
      <4>2. CASE lock # q
        <5>1. job[q] = "sizes"
          BY <1>0, <2>1, <4>2 DEF Mine, Walking, Place, Locked
        <5> QED
          BY <2>1, <5>1, <3>4 DEF Overtakes
      <4> QED
        BY <4>1, <4>2
    <3>5. CASE Remembered(n) => n \in fooled'
      BY <2>1, <3>5 DEF Remembered
    <3> QED
      BY <3>2, <3>3, <3>4, <3>5 DEF Entry
  <2>2. Walking(q)' <=> Walking(q)
    BY <1>1 DEF Walking
  <2> QED
    BY <1>0, <1>1, <1>2, <1>4, <2>1, <2>2 DEF Mine, Walked
<1> QED
  BY <1>3, <1>4a, <1>5, <1>6, <1>7 DEF Mine

(* A step that changes neither the trash nor the lines.                    *)
LEMMA QuietKeeps ==
  ASSUME IInv, NEW p \in Procs, Local(p), Locks(p),
         UNCHANGED <<puts, payload, record, lines, measured>>,
         stage'[p] # "move", \A n \in Names : Drops(p, n) => Drops(p, n)',
         Types', Mine(p)'
  PROVE  IInv'
<1>1. Records' /\ \A n \in Names : Entry(n)
  BY DEF IInv, Records, Entry
<1>2. \A n \in Names : TooSoon(n)' => TooSoon(n)
  BY DEF TooSoon, Local, Only
<1>3. puts' \in Nat /\ puts' >= puts
  BY BoundAssumption DEF IInv, Types
<1>4. ASSUME NEW q \in Procs PROVE Mine(q)'
  BY <1>1, <1>2, <1>3, Bystanders
<1>5. ASSUME NEW n \in Names \ fooled' PROVE LineTrue(n)'
  <2>1. \A q \in Procs : Drops(q, n) => Drops(q, n)'
    BY DEF Drops, Local, Only
  <2>2. LineTrue(n)
    BY DEF IInv, Locks
  <2> QED
    BY <2>1, <2>2 DEF LineTrue, LineOf
<1>6. PutsMeasured'
  BY DEF IInv, PutsMeasured, IsDir, Trusted, Valid, Locks
<1> QED
  BY <1>1, <1>4, <1>5, <1>6 DEF IInv

(* The end of a command.                                                   *)
LEMMA Forgotten ==
  ASSUME Types, NEW p \in Procs, Forget(p)
  PROVE  /\ look' \in [Procs -> [item : 0..MaxPuts, at : Nat]]
         /\ loaded' \in [Procs -> Lines] /\ misses' \in [Procs -> Lines]
         /\ walked' \in [Procs -> [Names -> 0..2 * MaxPuts]]
         /\ Only(look, p) /\ Only(misses, p) /\ Only(walked, p)
         /\ misses'[p] = NoLines /\ \A n \in Names : walked'[p][n] = Nothing
BY Constants DEF Types, Forget, Only

LEMMA Finished ==
  ASSUME Types, NEW p \in Procs, Finish(p)
  PROVE  /\ job' \in [Procs -> {"none", "put", "sizes", "purge", "take", "empty"}]
         /\ stage' \in [Procs -> {"idle", "move", "look", "walk", "write", "size", "payload", "line"}]
         /\ names' \in [Procs -> SUBSET Names] /\ kept' \in [Procs -> SUBSET Names]
         /\ look' \in [Procs -> [item : 0..MaxPuts, at : Nat]]
         /\ loaded' \in [Procs -> Lines] /\ misses' \in [Procs -> Lines]
         /\ walked' \in [Procs -> [Names -> 0..2 * MaxPuts]]
         /\ Local(p) /\ stage'[p] = "idle" /\ job'[p] = "none"
         /\ lock' # p => Mine(p)'
<1> USE DEF Finish, Start
<1>1. Forget(p)
  OBVIOUS
<1>2. Only(job, p) /\ Only(stage, p) /\ Only(names, p) /\ Only(kept, p)
      /\ stage'[p] = "idle" /\ job'[p] = "none"
  BY DEF Types, Only
<1>3. lock' # p => Mine(p)'
  BY <1>1, <1>2, Forgotten DEF Mine, Place, Keeps, Locked, Moving, Sized, Walked, Walking, NoLines
<1>4. job' \in [Procs -> {"none", "put", "sizes", "purge", "take", "empty"}]
      /\ stage' \in [Procs -> {"idle", "move", "look", "walk", "write", "size", "payload", "line"}]
      /\ names' \in [Procs -> SUBSET Names] /\ kept' \in [Procs -> SUBSET Names]
  BY DEF Types
<1> HIDE DEF Finish, Start
<1> QED
  BY <1>1, <1>2, <1>3, <1>4, Forgotten DEF Local

(* What a step that only finishes leaves.                                  *)
LEMMA FinishQuiet ==
  ASSUME IInv, NEW p \in Procs, Finish(p), stage[p] \in {"look", "walk"},
         UNCHANGED <<now, puts, trash, lines, lock, measured, fooled>>
  PROVE  IInv'
<1> USE DEF trash
<1>1. Types /\ Mine(p)
  BY DEF IInv
<1>2. lock # p
  BY <1>1 DEF Mine, Place, Locked
<1>3. Types'
  BY <1>1, Finished DEF Types, TypeOK
<1>4. Locks(p)
  BY DEF Locks
<1>5. \A n \in Names : ~Drops(p, n)
  BY <1>1 DEF Drops, Mine, Place
<1> QED
  BY <1>1, <1>2, <1>3, <1>4, <1>5, Finished, QuietKeeps

-----------------------------------------------------------------------------
(* put                                                                     *)
LEMMA LookKeeps ==
  ASSUME IInv, NEW p \in Procs, LookAt(p) PROVE IInv'
<1> USE DEF LookAt, trash, sizing
<1>0. Types /\ Records /\ Mine(p)
  BY DEF IInv
<1>1. PICK n \in names[p] : IF record[n] = NoRecord THEN Finish(p)
                            ELSE /\ look' = [look EXCEPT ![p] = record[n]] /\ Go(p, "walk")
                                 /\ UNCHANGED <<names, kept, sizing>>
  OBVIOUS
<1>2. CASE record[n] = NoRecord
  BY <1>1, <1>2, FinishQuiet
<1>3. CASE record[n] # NoRecord
  <2> USE <1>1, <1>3 DEF Go
  <2>1. n \in Names /\ record[n] \in [item : 0..MaxPuts, at : Nat] /\ record[n].item \in 1..puts
    BY <1>0, BoundAssumption DEF Types, TypeOK, Records
  <2>2. Types'
    BY <1>0, <2>1 DEF Types, TypeOK
  <2>3. Local(p) /\ Locks(p) /\ stage'[p] = "walk" /\ \A m \in Names : ~Drops(p, m)
    BY <1>0 DEF Types, Local, Only, Locks, Drops, Mine, Place
  <2>4. Mine(p)'
    BY <1>0, <2>1 DEF Types, Mine, Place, Keeps, Locked, Moving, Sized, Walked, Walking
  <2> QED
    BY <2>2, <2>3, <2>4, QuietKeeps
<1> QED
  BY <1>2, <1>3

LEMMA WalkKeeps ==
  ASSUME IInv, NEW p \in Procs, WalkOwn(p) PROVE IInv'
<1> USE DEF WalkOwn, trash, sizing
<1>0. Types /\ Records /\ Mine(p)
  BY DEF IInv
<1>1. PICK n \in names[p] :
        IF record[n] = NoRecord THEN Finish(p) /\ UNCHANGED fooled
        ELSE /\ misses' = [misses EXCEPT ![p][n] = LineOf(n, payload[n])] /\ Go(p, "write")
             /\ fooled' = IF TooSoon(n) THEN fooled \cup {n} ELSE fooled
             /\ UNCHANGED <<names, kept, look, loaded, walked>>
  OBVIOUS
<1>2. CASE record[n] = NoRecord
  BY <1>1, <1>2, FinishQuiet
<1>3. CASE record[n] # NoRecord
  <2> USE <1>1, <1>3 DEF Go
  <2>1. n \in Names /\ payload[n] \in 0..2 * MaxPuts
    BY <1>0 DEF Types, TypeOK
  <2>2. misses' \in [Procs -> Lines]
    <3>1. LineOf(n, payload[n]) \in [size : 0..2 * MaxPuts, at : -1..MaxSeconds]
      BY <1>0, <2>1, Entries
    <3>2. misses' = [misses EXCEPT ![p][n] = LineOf(n, payload[n])]
      OBVIOUS
    <3> HIDE DEF WalkOwn, trash, sizing, Go
    <3> QED
      BY <1>0, <2>1, <3>1, <3>2 DEF Types, Lines
  <2>3. Types'
    BY <1>0, <2>2 DEF Types, TypeOK
  <2>4. Local(p) /\ Locks(p) /\ stage'[p] = "write" /\ \A m \in Names : ~Drops(p, m)
    BY <1>0 DEF Types, Local, Only, Locks, Drops, Mine, Place
  <2>5. misses'[p][n] = LineOf(n, payload[n]) /\ misses'[p][n].at = record[n].at
    BY <1>0, <2>1, Entries DEF Types, Lines
  <2>6. names[p] = {n}
    BY <1>0 DEF Mine, Place, Single
  <2>7. TooSoon(n)' => n \in fooled'
    BY <2>4 DEF TooSoon, Local, Only
  <2>8. Sized(p)'
    BY <1>0, <2>4, <2>5, <2>6, <2>7 DEF Types, Mine, Sized, LineOf
  <2>9. Place(p)' /\ Keeps(p)' /\ Moving(p)' /\ Walked(p)'
    <3>1. stage'[p] = "write" /\ job'[p] = "put" /\ names'[p] = {n} /\ walked'[p] = walked[p]
      BY <1>0, <2>4, <2>6 DEF Mine, Place
    <3>2. Place(p)' /\ Keeps(p)' /\ Moving(p)'
      BY <1>0, <2>1, <3>1 DEF Mine, Place, Keeps, Locked, Moving, Single
    <3> QED
      BY <1>0, <3>1, <3>2 DEF Mine, Place, Walked, Walking
  <2> QED
    BY <2>3, <2>4, <2>8, <2>9, QuietKeeps DEF Mine
<1> QED
  BY <1>2, <1>3

LEMMA UpsertKeeps ==
  ASSUME IInv, NEW p \in Procs, Upsert(p) PROVE IInv'
<1> USE DEF Upsert, trash
<1>0. Types /\ Records /\ Mine(p) /\ Finish(p) /\ lock = Nobody
  BY DEF IInv
<1>1. PICK n \in names[p] : IF SameRecord(p, n)
                            THEN /\ lines' = [lines EXCEPT ![n] = misses[p][n]]
                                 /\ measured' = measured \cup {record[n].item}
                            ELSE UNCHANGED <<lines, measured>>
  OBVIOUS
<1>2. n \in Names /\ names[p] = {n}
  BY <1>0 DEF Types, Mine, Place, Single
<1>3. lines' \in Lines /\ measured' \subseteq 1..puts
  <2>1. misses[p][n] \in [size : 0..2 * MaxPuts, at : -1..MaxSeconds]
    BY <1>0, <1>2 DEF Types, Lines
  <2>2. record[n] = look[p] => record[n].item \in 1..puts
    BY <1>0 DEF Mine, Sized
  <2> QED
    <3>1. lines' \in Lines
      BY <1>0, <1>1, <1>2, <2>1 DEF Types, TypeOK, Lines
    <3>2. measured' \subseteq 1..puts
      BY <1>0, <1>1, <2>2 DEF Types, SameRecord
    <3> QED
      BY <3>1, <3>2
<1>4. Types'
  BY <1>0, <1>3, Finished DEF Types, TypeOK, Lines
<1>5. Locks(p) /\ Local(p) /\ stage'[p] = "idle" /\ Mine(p)'
  BY <1>0, Finished, ProcAssumption DEF Locks
<1>6. Records' /\ \A m \in Names : Entry(m)
  BY <1>0 DEF Records, Entry
<1>7. \A m \in Names : TooSoon(m)' => TooSoon(m)
  BY <1>5 DEF TooSoon, Local, Only
<1>8. ASSUME NEW q \in Procs PROVE Mine(q)'
  <2>1. puts' \in Nat /\ puts' >= puts
    BY <1>0, BoundAssumption DEF Types
  <2> QED
    BY <1>5, <1>6, <1>7, <2>1, Bystanders
<1>9. SameRecord(p, n) /\ n \notin fooled =>
        misses[p][n].at = record[n].at /\ (payload[n] # Nothing => misses[p][n] = LineOf(n, payload[n]))
  BY <1>0, <1>2 DEF Mine, Sized, SameRecord
<1>10. SameRecord(p, n) => record[n] # NoRecord
  BY <1>0 DEF Mine, Sized, SameRecord, NoRecord, Nothing
<1>11. ASSUME NEW m \in Names \ fooled' PROVE LineTrue(m)'
  <2>1. LineTrue(m)
    BY DEF IInv
  <2>2. \A q \in Procs : Drops(q, m) => Drops(q, m)'
    BY <1>0, <1>5 DEF Drops, Local, Only, Mine, Place
  <2>3. CASE lines'[m] = lines[m]
    BY <2>1, <2>2, <2>3 DEF LineTrue, LineOf
  <2>4. CASE lines'[m] # lines[m]
    <3>1. m = n /\ SameRecord(p, n) /\ lines'[n] = misses[p][n]
      BY <1>0, <1>1, <1>2, <2>4 DEF Types, TypeOK
    <3> QED
      BY <1>9, <1>10, <3>1 DEF LineTrue, LineOf
  <2> QED
    BY <2>3, <2>4
<1>12. PutsMeasured'
  <2> SUFFICES ASSUME NEW m \in Names \ fooled, IsDir(m), record[m].item \in measured'
               PROVE  Trusted(m)'
    BY DEF PutsMeasured, IsDir
  <2>0. payload[m] # Nothing /\ record[m] # NoRecord
    BY <1>0, Entries DEF IsDir
  <2>1. CASE m = n /\ SameRecord(p, n)
    <3>1. lines'[n] = LineOf(n, payload[n])
      BY <1>0, <1>1, <1>2, <1>9, <2>0, <2>1 DEF Types, TypeOK
    <3>2. payload[n] \in 0..2 * MaxPuts
      BY <1>0, <1>2 DEF Types, TypeOK
    <3> QED
      BY <1>0, <1>2, <2>0, <2>1, <3>1, <3>2, Entries DEF Trusted, Valid, IsDir
  <2>2. CASE ~(m = n /\ SameRecord(p, n))
    <3>1. lines'[m] = lines[m]
      BY <1>0, <1>1, <1>2, <2>2 DEF Types, TypeOK
    <3>2. record[m].item \in measured
      BY <1>0, <1>1, <1>2, <2>0, <2>2 DEF Records
    <3>3. Trusted(m)
      BY <3>2 DEF IInv, PutsMeasured
    <3> QED
      BY <3>1, <3>3 DEF Trusted, Valid, IsDir
  <2> QED
    BY <2>1, <2>2
<1> QED
  BY <1>4, <1>6, <1>8, <1>11, <1>12 DEF IInv

LEMMA ReserveKeeps ==
  ASSUME IInv, NEW p \in Procs, NEW n \in Names, Reserve(p, n) PROVE IInv'
<1> USE DEF Reserve, trash, sizing, Start
<1>0. Types /\ Records /\ Mine(p) /\ lock = Nobody
  BY DEF IInv
<1>1. puts' = puts + 1 /\ puts \in 0..MaxPuts /\ puts' \in 1..MaxPuts /\ puts' \notin 1..puts
      /\ 1..puts \subseteq 1..puts'
  BY <1>0, BoundAssumption DEF Types
<1>2. now' \in Nat /\ now' \in 0..MaxSeconds
  BY <1>0, BoundAssumption DEF Types
<1>3. record' = [record EXCEPT ![n] = [item |-> puts', at |-> now']]
  OBVIOUS
<1>4. record' \in [Names -> [item : 0..MaxPuts, at : 0..MaxSeconds]]
  BY <1>0, <1>1, <1>2, <1>3 DEF Types, TypeOK
<1>5. TypeOK'
  BY <1>0, <1>4, <1>3 DEF Types, TypeOK
<1>6. /\ job' \in [Procs -> {"none", "put", "sizes", "purge", "take", "empty"}]
      /\ stage' \in [Procs -> {"idle", "move", "look", "walk", "write", "size", "payload", "line"}]
      /\ names' \in [Procs -> SUBSET Names]
      /\ job'[p] = "put" /\ stage'[p] = "move" /\ names'[p] = {n}
  BY <1>0 DEF Types
<1>7. Types'
  BY <1>0, <1>1, <1>2, <1>5, <1>6 DEF Types
<1>8. record'[n].item = puts' /\ record'[n] # NoRecord /\ \A m \in Names \ {n} : record'[m] = record[m]
  BY <1>0, <1>1, <1>3 DEF Types, TypeOK, NoRecord, Nothing
<1>9. Records'
  <2>1. \A m \in Names : record'[m] # NoRecord => record'[m].item \in 1..puts'
    BY <1>0, <1>1, <1>8 DEF Records
  <2>2. \A m \in Names : record[m].item # puts'
    BY <1>0, <1>1 DEF Records, NoRecord, Nothing
  <2>3. \A m, k \in Names : record'[m] # NoRecord /\ record'[m].item = record'[k].item => m = k
    BY <1>0, <1>8, <2>2 DEF Records
  <2> QED
    BY <2>1, <2>3 DEF Records
<1>10. Local(p) /\ Locks(p)
  BY <1>0 DEF Types, Local, Only, Locks
<1>11. \A m \in Names : Entry(m)
  BY <1>1, <1>8 DEF Entry
<1>12. ASSUME NEW m \in Names, TooSoon(m)' PROVE TooSoon(m) \/ record'[m].item \notin 1..puts
  <2>1. PICK q \in Procs : stage'[q] = "move" /\ m \in names'[q]
    BY <1>12 DEF TooSoon
  <2>2. CASE q = p
    BY <2>1, <2>2, <1>1, <1>6, <1>8
  <2>3. CASE q # p
    BY <2>1, <2>3, <1>10 DEF TooSoon, Local, Only
  <2> QED
    BY <2>2, <2>3
<1>13. ASSUME NEW m \in Names \ fooled PROVE LineTrue(m)' /\ (m = n => lines[m] = NoLine)
  <2>1. \A q \in Procs : ~Drops(q, m)
    BY <1>0, ProcAssumption DEF IInv, Mine, Place, Locked, Drops
  <2>2. LineTrue(m)
    BY DEF IInv
  <2>3. CASE m = n
    BY <2>1, <2>2, <2>3 DEF LineTrue
  <2>4. CASE m # n
    BY <1>8, <2>1, <2>2, <2>4 DEF LineTrue, LineOf
  <2> QED
    BY <2>3, <2>4
<1>14. Mine(p)'
  <2>1. Place(p)' /\ Keeps(p)' /\ Sized(p)'
    BY <1>6 DEF Place, Keeps, Locked, Single, Sized
  <2>2. Moving(p)'
    BY <1>0, <1>1, <1>6, <1>8, <1>13 DEF Moving, Types
  <2>3. Walked(p)'
    BY <1>0, <1>6 DEF Mine, Place, Walked, Walking
  <2> QED
    BY <2>1, <2>2, <2>3 DEF Mine
<1>15. ASSUME NEW q \in Procs PROVE Mine(q)'
  <2>1. puts' \in Nat /\ puts' >= puts
    BY <1>1
  <2> QED
    BY <1>10, <1>11, <1>12, <1>14, <2>1, Bystanders
<1>16. PutsMeasured'
  <2> SUFFICES ASSUME NEW m \in Names \ fooled, IsDir(m), record'[m].item \in measured
               PROVE  Trusted(m)'
    BY DEF PutsMeasured, IsDir
  <2>1. m # n /\ record'[m] = record[m]
    BY <1>8 DEF IsDir
  <2>2. Trusted(m)
    BY <2>1 DEF IInv, PutsMeasured
  <2> QED
    BY <1>8, <2>1, <2>2 DEF Trusted, Valid, IsDir
<1> QED
  BY <1>7, <1>9, <1>13, <1>15, <1>16 DEF IInv

LEMMA MoveKeeps ==
  ASSUME IInv, NEW p \in Procs, Move(p) PROVE IInv'
<1> USE DEF Move, sizing
<1>0. Types /\ Records /\ Mine(p)
  BY DEF IInv
<1>1. PICK n \in Names : names[p] = {n}
  BY <1>0 DEF Mine, Place, Single
<1>2. payload' = [payload EXCEPT ![n] = record[n].item] /\ lock = p /\ job[p] = "put"
  BY <1>0, <1>1 DEF Mine, Place, Locked
<1>3. /\ record[n] # NoRecord /\ payload[n] = Nothing /\ record[n].item \notin measured
      /\ n \notin fooled => lines[n] = NoLine
  BY <1>0, <1>1 DEF Mine, Moving
<1>4. TypeOK'
  <2>1. record[n].item \in 0..2 * MaxPuts
    BY <1>0, BoundAssumption DEF Types, TypeOK
  <2>2. payload' \in [Names -> 0..2 * MaxPuts]
    BY <1>0, <1>2, <2>1 DEF Types, TypeOK
  <2>3. \A m \in Names : payload'[m] = IF m = n THEN record[n].item ELSE payload[m]
    BY <1>0, <1>2 DEF Types, TypeOK
  <2>4. \A m \in Names : payload'[m] # Nothing =>
          /\ record[m] # NoRecord
          /\ \/ payload'[m] = record[m].item
             \/ record[m].item \notin Files /\ payload'[m] = Part(record[m].item)
    BY <1>0, <1>3, <2>3 DEF Types, TypeOK
  <2>5. UNCHANGED <<record, lines>> /\ lock' \in Procs \cup {Nobody}
    OBVIOUS
  <2> QED
    BY <1>0, <2>2, <2>4, <2>5 DEF Types, TypeOK
<1>5. Local(p) /\ stage'[p] \in {"idle", "look"} /\ Mine(p)' /\ Types'
  <2>1. CASE Finish(p)
    BY <1>0, <1>4, <2>1, Finished, ProcAssumption DEF Types
  <2>2. CASE Go(p, "look") /\ UNCHANGED <<names, kept, look, sizing>>
    <3> USE <2>2 DEF Go
    <3>1. Local(p) /\ Types' /\ stage'[p] = "look"
      BY <1>0, <1>4 DEF Types, Local, Only
    <3>2. Mine(p)'
      BY <1>0, <1>1, <1>2, <3>1, ProcAssumption
         DEF Mine, Place, Keeps, Locked, Moving, Sized, Walked, Walking
    <3> QED
      BY <3>1, <3>2
  <2> QED
    BY <2>1, <2>2
<1>6. Records' /\ Locks(p)
  BY <1>0, <1>2 DEF Records, Locks
<1>7. TooSoon(n) /\ \A m \in Names : TooSoon(m)' => TooSoon(m)
  BY <1>1, <1>5 DEF TooSoon, Local, Only
<1>8. \A m \in Names : Entry(m)
  BY <1>0, <1>2, <1>3, <1>7 DEF Entry, Types, TypeOK
<1>9. ASSUME NEW q \in Procs PROVE Mine(q)'
  <2>1. puts' \in Nat /\ puts' >= puts
    BY <1>0, BoundAssumption DEF Types
  <2> QED
    BY <1>5, <1>6, <1>7, <1>8, <2>1, Bystanders
<1>10. \A m \in Names \ {n} : payload'[m] = payload[m]
  BY <1>0, <1>2 DEF Types, TypeOK
<1>11. ASSUME NEW m \in Names \ fooled' PROVE LineTrue(m)'
  <2>1. LineTrue(m)
    BY DEF IInv
  <2>2. \A q \in Procs : Drops(q, m) => Drops(q, m)'
    BY <1>2, <1>5 DEF Drops, Local, Only
  <2> QED
    BY <1>3, <1>10, <2>1, <2>2 DEF LineTrue, LineOf
<1>12. PutsMeasured'
  <2> SUFFICES ASSUME NEW m \in Names \ fooled, IsDir(m)', record'[m].item \in measured
               PROVE  Trusted(m)'
    BY DEF PutsMeasured
  <2>1. m # n
    BY <1>0, <1>2, <1>3 DEF Types, TypeOK
  <2> QED
    BY <1>10, <2>1 DEF IInv, PutsMeasured, Trusted, Valid, IsDir
<1> QED
  BY <1>5, <1>6, <1>9, <1>11, <1>12 DEF IInv

-----------------------------------------------------------------------------
(* Sizes                                                                   *)
LEMMA LoadKeeps ==
  ASSUME IInv, NEW p \in Procs, NEW j \in {"sizes", "purge"}, Load(p, j) PROVE IInv'
<1> USE DEF Load, trash, Start
<1>0. Types /\ Records /\ Mine(p)
  BY DEF IInv
<1>1. Listed \subseteq Names /\ [item |-> puts, at |-> now] \in [item : 0..MaxPuts, at : Nat]
  BY <1>0 DEF Types, Listed
<1>2. Types'
  <2>1. loaded' \in [Procs -> Lines]
    BY <1>0 DEF Types, TypeOK, Lines
  <2>2. look' \in [Procs -> [item : 0..MaxPuts, at : Nat]]
    BY <1>0, <1>1 DEF Types
  <2>3. lock' \in Procs \cup {Nobody}
    BY <1>0 DEF Types, TypeOK
  <2> QED
    BY <1>0, <1>1, <2>1, <2>2, <2>3 DEF Types, TypeOK
<1>3. job'[p] = j /\ stage'[p] = "size" /\ walked'[p] = walked[p] /\ misses'[p] = misses[p]
  BY <1>0 DEF Types
<1>4. Local(p) /\ Locks(p) /\ \A n \in Names : ~Drops(p, n)
  BY <1>0 DEF Types, Local, Only, Locks, Drops, Mine, Place
<1>5. Mine(p)'
  <2>1. Place(p)'
    <3>1. lock # p
      BY <1>0 DEF Mine, Place, Locked
    <3> QED
      BY <1>3, <3>1 DEF Place, Locked
  <2>2. Walked(p)'
    BY <1>0, <1>3 DEF Mine, Place, Walked, Walking
  <2> QED
    BY <1>3, <2>1, <2>2 DEF Mine, Keeps, Moving, Sized
<1> QED
  BY <1>2, <1>3, <1>4, <1>5, QuietKeeps

LEMMA PayloadBytesKeeps ==
  ASSUME IInv, NEW p \in Procs, NEW n \in Names, PayloadBytes(p, n) PROVE IInv'
<1> USE DEF PayloadBytes, trash
<1>0. Types /\ Records /\ Mine(p)
  BY DEF IInv
<1>1. Types'
  <2>1. walked' \in [Procs -> [Names -> 0..2 * MaxPuts]]
    <3>1. walked' = walked \/ walked' = [walked EXCEPT ![p][n] = payload[n]]
      OBVIOUS
    <3>2. payload[n] \in 0..2 * MaxPuts /\ walked \in [Procs -> [Names -> 0..2 * MaxPuts]]
      BY <1>0 DEF Types, TypeOK
    <3> HIDE DEF PayloadBytes, trash
    <3>3. CASE walked' = [walked EXCEPT ![p][n] = payload[n]]
      BY <3>2, <3>3
    <3> QED
      BY <3>1, <3>2, <3>3
  <2>2. names' \in [Procs -> SUBSET Names]
    <3>1. UNCHANGED names \/ names' = [names EXCEPT ![p] = @ \ {n}]
      OBVIOUS
    <3> HIDE DEF PayloadBytes, trash
    <3> QED
      BY <1>0, <3>1 DEF Types
  <2>3. TypeOK' /\ UNCHANGED <<now, puts, job, stage, kept, look, loaded, misses, measured>>
    BY <1>0 DEF Types, TypeOK
  <2> QED
    BY <1>0, <2>1, <2>2, <2>3 DEF Types
<1>2. /\ job'[p] = job[p] /\ stage'[p] = "size" /\ misses'[p] = misses[p]
      /\ \A m \in Names : walked'[p][m] = walked[p][m] \/ (m = n /\ walked'[p][m] = payload[m])
  BY <1>0 DEF Types
<1>3. Local(p) /\ Locks(p) /\ \A m \in Names : ~Drops(p, m)
  BY <1>0 DEF Types, Local, Only, Locks, Drops, Mine, Place
<1>4. Mine(p)'
  <2>1. Place(p)'
    BY <1>0, <1>2 DEF Mine, Place, Locked
  <2>2. Walked(p)'
    BY <1>0, <1>2 DEF Mine, Place, Walked, Walking, LineOf
  <2> QED
    BY <1>2, <2>1, <2>2 DEF Mine, Keeps, Moving, Sized
<1> QED
  BY <1>1, <1>2, <1>3, <1>4, QuietKeeps

LEMMA RememberKeeps ==
  ASSUME IInv, NEW p \in Procs, NEW n \in Names, Remember(p, n) PROVE IInv'
<1> USE DEF Remember, trash
<1>0. Types /\ Records /\ Mine(p)
  BY DEF IInv
<1>1. misses' \in [Procs -> Lines]
  <2>1. walked[p][n] \in 0..2 * MaxPuts
    BY <1>0 DEF Types
  <2>2. LineOf(n, walked[p][n]) \in [size : 0..2 * MaxPuts, at : -1..MaxSeconds]
    BY <1>0, <2>1, Entries
  <2>3. misses' = misses \/ misses' = [misses EXCEPT ![p][n] = LineOf(n, walked[p][n])]
    OBVIOUS
  <2> HIDE DEF Remember, trash
  <2>4. CASE misses' = [misses EXCEPT ![p][n] = LineOf(n, walked[p][n])]
    BY <1>0, <2>2, <2>4 DEF Types, Lines
  <2> QED
    BY <1>0, <2>3, <2>4 DEF Types
<1>2. Types'
  <2>1. walked' \in [Procs -> [Names -> 0..2 * MaxPuts]]
    BY <1>0, BoundAssumption DEF Types, Nothing
  <2>2. names' \in [Procs -> SUBSET Names]
    BY <1>0 DEF Types
  <2> QED
    BY <1>0, <1>1, <2>1, <2>2 DEF Types, TypeOK
<1>3. /\ job'[p] = job[p] /\ stage'[p] = "size"
      /\ \A m \in Names : walked'[p][m] = walked[p][m] \/ walked'[p][m] = Nothing
      /\ \A m \in Names : misses'[p][m] = misses[p][m]
           \/ (m = n /\ misses'[p][m] = LineOf(m, walked[p][m]))
  BY <1>0 DEF Types, Lines
<1>4. Local(p) /\ Locks(p) /\ \A m \in Names : ~Drops(p, m)
  BY <1>0 DEF Types, Local, Only, Locks, Drops, Mine, Place
<1>5. Mine(p)'
  <2>1. Place(p)'
    BY <1>0, <1>3 DEF Mine, Place, Locked
  <2>2. Walked(p)'
    BY <1>0, <1>3 DEF Mine, Place, Walked, Walking, LineOf
  <2> QED
    BY <1>3, <2>1, <2>2 DEF Mine, Keeps, Moving, Sized
<1> QED
  BY <1>2, <1>3, <1>4, <1>5, QuietKeeps

(* A step that may change the trash.                                       *)
LEMMA ChangeKeeps ==
  ASSUME IInv, NEW p \in Procs, Local(p), Locks(p), \A n \in Names : Entry(n),
         UNCHANGED puts, stage'[p] # "move", Types', Records', Mine(p)',
         \A n \in Names \ fooled' : LineTrue(n)', PutsMeasured'
  PROVE  IInv'
<1>1. \A n \in Names : TooSoon(n)' => TooSoon(n)
  BY DEF TooSoon, Local, Only
<1>2. puts' \in Nat /\ puts' >= puts
  BY BoundAssumption DEF IInv, Types
<1>3. ASSUME NEW q \in Procs PROVE Mine(q)'
  BY <1>1, <1>2, Bystanders
<1> QED
  BY <1>3 DEF IInv

LEMMA WriteBackKeeps ==
  ASSUME IInv, NEW p \in Procs, WriteBack(p) PROVE IInv'
<1> USE DEF WriteBack, trash
<1>0. Types /\ Records /\ Mine(p) /\ job[p] \in {"sizes", "purge"} /\ Walking(p)
  BY DEF IInv, Mine, Place, Walking
<1>1. ASSUME NEW n \in Names
      PROVE  \/ lines'[n] = misses[p][n] /\ misses[p][n] # NoLine
             \/ lines'[n] = lines[n]
             \/ lines'[n] = NoLine /\ ~IsDir(n)
  BY DEF Merged, WithoutGone
<1>2. lines' \in Lines
  <2>1. lines \in Lines /\ misses[p] \in Lines
    BY <1>0 DEF Types, TypeOK, Lines
  <2>2. Merged(p) \in Lines
    BY <2>1, Constants DEF Lines, Merged, WithoutGone
  <2> QED
    BY <2>1, <2>2
<1>3. /\ Local(p) /\ Mine(p)' /\ stage'[p] # "move"
      /\ \A n \in Names : ~Drops(p, n)
      /\ Types'
  <2>1. \A n \in Names : ~Drops(p, n)
    BY <1>0 DEF Drops
  <2>2. CASE job[p] # "purge"
    <3>1. Finish(p) /\ lock # p
      BY <1>0, <2>2 DEF Mine, Place, Locked
    <3> QED
      BY <1>0, <1>2, <2>1, <3>1, Finished DEF Types, TypeOK, Lines
  <2>3. CASE job[p] = "purge"
    <3> USE <2>3 DEF Go
    <3>1. /\ Forget(p) /\ names' \in [Procs -> SUBSET Names]
          /\ kept' = [kept EXCEPT ![p] = Listed] /\ kept' \in [Procs -> SUBSET Names]
      <4>1. Forget(p) /\ kept' = [kept EXCEPT ![p] = Listed]
        OBVIOUS
      <4>2. PICK victims \in SUBSET Listed : names' = [names EXCEPT ![p] = victims]
        OBVIOUS
      <4>3. Listed \subseteq Names
        BY DEF Listed
      <4> HIDE DEF WriteBack
      <4> QED
        BY <1>0, <4>1, <4>2, <4>3 DEF Types
    <3>2. Local(p) /\ stage'[p] = "payload" /\ job'[p] = "purge" /\ kept'[p] = Listed'
      BY <1>0, <3>1, Forgotten DEF Types, Local, Only, Listed
    <3>3. Types'
      BY <1>0, <1>2, <3>1, Forgotten DEF Types, TypeOK, Lines
    <3>4. Place(p)'
      BY <1>0, <3>2 DEF Mine, Place, Locked
    <3>5. misses'[p] = NoLines /\ \A n \in Names : walked'[p][n] = Nothing
      BY <1>0, <3>1, Forgotten
    <3>6. Mine(p)'
      BY <3>2, <3>4, <3>5 DEF Mine, Keeps, Moving, Sized, Walked, Walking, NoLines
    <3> QED
      BY <2>1, <3>2, <3>3, <3>6
  <2> QED
    BY <2>2, <2>3
<1>4. Locks(p)
  BY DEF Locks
<1>5. Records' /\ \A n \in Names : Entry(n)
  BY <1>0 DEF Records, Entry
<1>6. ASSUME NEW n \in Names \ fooled, misses[p][n] # NoLine
      PROVE  misses[p][n] = LineOf(n, payload[n]) /\ payload[n] # Nothing /\ record[n] # NoRecord
  BY <1>0, <1>6, Entries DEF Mine, Walked
<1>7. ASSUME NEW n \in Names \ fooled' PROVE LineTrue(n)'
  <2>1. LineTrue(n)
    BY DEF IInv
  <2>2. \A q \in Procs : Drops(q, n) => Drops(q, n)'
    BY <1>3 DEF Drops, Local, Only
  <2>3. CASE lines'[n] = misses[p][n] /\ misses[p][n] # NoLine
    BY <1>6, <2>3 DEF LineTrue, LineOf
  <2>4. CASE lines'[n] = lines[n]
    BY <2>1, <2>2, <2>4 DEF LineTrue, LineOf
  <2>5. CASE lines'[n] = NoLine
    BY <2>5 DEF LineTrue
  <2> QED
    BY <1>1, <2>3, <2>4, <2>5
<1>8. PutsMeasured'
  <2> SUFFICES ASSUME NEW n \in Names \ fooled, IsDir(n), record[n].item \in measured
               PROVE  Trusted(n)'
    BY DEF PutsMeasured, IsDir
  <2>1. Trusted(n)
    BY DEF IInv, PutsMeasured
  <2>2. ASSUME misses[p][n] # NoLine PROVE misses[p][n].at = record[n].at
    <3>1. misses[p][n] = LineOf(n, payload[n])
      BY <1>6, <2>2
    <3> QED
      BY <3>1 DEF LineOf
  <2> QED
    BY <1>1, <2>1, <2>2 DEF Trusted, Valid, IsDir
<1> QED
  BY <1>3, <1>4, <1>5, <1>7, <1>8, ChangeKeeps

-----------------------------------------------------------------------------
(* Removals                                                                *)
LEMMA BeginKeeps ==
  ASSUME IInv, NEW p \in Procs,
         \/ \E n \in Names : TakeItem(p, n) \/ RmItem(p, n)
         \/ \E victims \in SUBSET Names : Empty(p, victims)
  PROVE  IInv'
<1> USE DEF trash, sizing, Start, Go
<1>0. Types /\ Records /\ Mine(p)
  BY DEF IInv
<1>1. /\ stage[p] \in {"idle", "size"} /\ lock = Nobody /\ lock' = p
      /\ stage' = [stage EXCEPT ![p] = "payload"]
      /\ UNCHANGED <<now, puts, payload, record, lines, look, loaded, walked, misses, measured, fooled>>
  BY DEF TakeItem, RmItem, Empty
<1>2. PICK j \in {"take", "sizes", "empty"}, S \in SUBSET Names :
        /\ job'[p] = j /\ (job[p] = j \/ job[p] = "none")
        /\ job' \in [Procs -> {"none", "put", "sizes", "purge", "take", "empty"}] /\ Only(job, p)
        /\ names' = [names EXCEPT ![p] = S]
        /\ j # "empty" => Single(S) /\ UNCHANGED kept
        /\ j = "empty" => kept' = [kept EXCEPT ![p] = Listed \ S]
  <2>1. ASSUME NEW n \in Names, TakeItem(p, n)
        PROVE  /\ job[p] = "none" /\ names' = [names EXCEPT ![p] = {n}] /\ Single({n}) /\ UNCHANGED kept
               /\ job' = [job EXCEPT ![p] = "take"]
    BY <1>0, <2>1 DEF TakeItem, Single, Mine, Place
  <2>2. ASSUME NEW n \in Names, RmItem(p, n)
        PROVE  /\ job[p] = "sizes" /\ names' = [names EXCEPT ![p] = {n}] /\ Single({n}) /\ UNCHANGED kept
               /\ job' = [job EXCEPT ![p] = "sizes"]
    BY <1>0, <2>2 DEF RmItem, Single, Types
  <2>3. ASSUME NEW victims \in SUBSET Names, Empty(p, victims)
        PROVE  /\ job[p] = "none" /\ names' = [names EXCEPT ![p] = victims]
               /\ kept' = [kept EXCEPT ![p] = Listed \ victims]
               /\ job' = [job EXCEPT ![p] = "empty"]
    BY <1>0, <2>3 DEF Empty, Mine, Place
  <2>4. ASSUME NEW j \in {"take", "sizes", "empty"}, job' = [job EXCEPT ![p] = j]
        PROVE  /\ job' \in [Procs -> {"none", "put", "sizes", "purge", "take", "empty"}]
               /\ Only(job, p) /\ job'[p] = j
    BY <1>0, <2>4 DEF Types, Only
  <2>5. \A n \in Names : {n} \in SUBSET Names
    OBVIOUS
  <2> QED
    BY <2>1, <2>2, <2>3, <2>4, <2>5
<1>3. Types' /\ Local(p) /\ Locks(p) /\ stage'[p] = "payload" /\ names'[p] = S
  <2>1. kept' \in [Procs -> SUBSET Names] /\ Only(kept, p)
    BY <1>0, <1>2 DEF Types, Only, Listed
  <2> QED
    BY <1>0, <1>1, <1>2, <2>1 DEF Types, TypeOK, Local, Only, Locks
<1>4. \A n \in Names : ~Drops(p, n)
  BY <1>1 DEF Drops
<1>5. Mine(p)'
  <2>1. Place(p)'
    BY <1>1, <1>2, <1>3 DEF Place, Locked
  <2>2. Walked(p)'
    BY <1>0, <1>1, <1>2, <1>3 DEF Mine, Walked, Walking, LineOf
  <2>3. Keeps(p)'
    <3>1. j = "empty" => kept'[p] = Listed \ S /\ kept'[p] \subseteq Listed'
      BY <1>0, <1>1, <1>2 DEF Types, Listed
    <3> QED
      BY <1>2, <1>3, <3>1 DEF Keeps
  <2> QED
    BY <1>3, <2>1, <2>2, <2>3 DEF Mine, Moving, Sized
<1> QED
  BY <1>1, <1>3, <1>4, <1>5, QuietKeeps

LEMMA TakePayloadKeeps ==
  ASSUME IInv, NEW p \in Procs, NEW n \in Names, TakePayload(p, n) PROVE IInv'
<1> USE DEF TakePayload, trash, sizing
<1>0. Types /\ Records /\ Mine(p) /\ lock = p
  BY DEF IInv, Mine, Place, Locked
<1>1. payload' = [payload EXCEPT ![n] = Nothing]
  OBVIOUS
<1>2. payload' \in [Names -> 0..2 * MaxPuts] /\ payload'[n] = Nothing
      /\ \A m \in Names \ {n} : payload'[m] = payload[m]
  BY <1>0, BoundAssumption DEF Types, TypeOK, Nothing
<1>3. Types'
  BY <1>0, <1>2 DEF Types, TypeOK
<1>4. Local(p) /\ Locks(p) /\ stage'[p] = "payload"
  BY <1>0 DEF Local, Only, Locks
<1>5. Records' /\ \A m \in Names : Entry(m)
  BY <1>0, <1>2 DEF Records, Entry
<1>6. Mine(p)'
  <2>1. ASSUME job[p] = "sizes", NEW m \in Names \ fooled'
        PROVE  /\ walked[p][m] # Nothing => walked[p][m] = payload'[m]
               /\ misses[p][m] # NoLine => misses[p][m] = LineOf(m, payload[m])' /\ payload'[m] # Nothing
    <3>1. CASE m = n
      BY <2>1, <3>1 DEF Overtakes
    <3>2. CASE m # n
      BY <1>0, <1>2, <2>1, <3>2 DEF Mine, Walked, Walking, LineOf
    <3> QED
      BY <3>1, <3>2
  <2>2. Walked(p)'
    BY <1>0, <1>4, <2>1 DEF Mine, Walked, Walking
  <2>3. Place(p)' /\ Keeps(p)'
    BY <1>0 DEF Mine, Place, Keeps, Listed, Locked
  <2> QED
    BY <1>4, <2>2, <2>3 DEF Mine, Moving, Sized
<1>7. ASSUME NEW m \in Names \ fooled' PROVE LineTrue(m)'
  <2>1. LineTrue(m)
    BY DEF IInv
  <2>2. \A q \in Procs : Drops(q, m) => Drops(q, m)'
    BY DEF Drops
  <2> QED
    BY <1>2, <2>1, <2>2 DEF LineTrue, LineOf
<1>8. PutsMeasured'
  BY <1>2 DEF IInv, PutsMeasured, Trusted, Valid, IsDir
<1> QED
  BY <1>3, <1>4, <1>5, <1>6, <1>7, <1>8, ChangeKeeps

LEMMA TakeRecordKeeps ==
  ASSUME IInv, NEW p \in Procs, NEW n \in Names, TakeRecord(p, n) PROVE IInv'
<1> USE DEF TakeRecord, trash, sizing, Go
<1>0. Types /\ Records /\ Mine(p) /\ lock = p
  BY DEF IInv, Mine, Place, Locked
<1>1. \/ record' = [record EXCEPT ![n] = NoRecord]
      \/ job[p] = "take" /\ UNCHANGED record
  OBVIOUS
<1>2. /\ record' \in [Names -> [item : 0..MaxPuts, at : 0..MaxSeconds]]
      /\ record'[n] = NoRecord \/ (job[p] = "take" /\ record'[n] = record[n])
      /\ \A m \in Names \ {n} : record'[m] = record[m]
  <2> HIDE DEF TakeRecord
  <2>1. record \in [Names -> [item : 0..MaxPuts, at : 0..MaxSeconds]]
    BY <1>0 DEF Types, TypeOK
  <2>2. CASE record' = [record EXCEPT ![n] = NoRecord]
    BY <2>1, <2>2, Constants
  <2>3. CASE job[p] = "take" /\ UNCHANGED record
    BY <2>1, <2>3
  <2> QED
    BY <1>1, <2>2, <2>3
<1>3. TypeOK'
  <2>1. payload[n] = Nothing /\ UNCHANGED <<payload, lines, lock>>
    OBVIOUS
  <2>2. \A m \in Names : payload[m] # Nothing => record'[m] = record[m]
    BY <1>2, <2>1
  <2> HIDE DEF TakeRecord
  <2> QED
    BY <1>0, <1>2, <2>1, <2>2 DEF Types, TypeOK
<1>4. Types' /\ Local(p) /\ Locks(p)
  <2>1. stage' \in [Procs -> {"idle", "move", "look", "walk", "write", "size", "payload", "line"}]
        /\ names' \in [Procs -> SUBSET Names] /\ UNCHANGED job
    <3>1. CASE job[p] \in {"take", "sizes"}
      BY <1>0, <3>1 DEF Types
    <3>2. CASE job[p] \notin {"take", "sizes"}
      <4>1. names' = [names EXCEPT ![p] = @ \ {n}] /\ UNCHANGED <<job, stage>>
        BY <3>2
      <4> HIDE DEF TakeRecord
      <4> QED
        BY <1>0, <4>1 DEF Types
    <3> QED
      BY <3>1, <3>2
  <2>2. Types'
    BY <1>0, <1>3, <2>1 DEF Types
  <2>3. Local(p) /\ Locks(p)
    BY <1>0 DEF Types, Local, Only, Locks
  <2> QED
    BY <2>2, <2>3
<1>5. \/ job[p] \in {"take", "sizes"} /\ stage'[p] = "line" /\ UNCHANGED names
      \/ job[p] \in {"empty", "purge"} /\ stage'[p] = "payload" /\ names'[p] = names[p] \ {n}
  BY <1>0 DEF Types, Mine, Place
<1>6. NoRecord.item \notin 1..puts /\ NoRecord.item = 0
  BY DEF NoRecord, Nothing
<1>7. Records'
  BY <1>0, <1>2, <1>6 DEF Records
<1>8. \A m \in Names : Entry(m)
  BY <1>2, <1>6 DEF Entry
<1>9. ASSUME NEW m \in Names \ fooled PROVE LineTrue(m)'
  <2>1. LineTrue(m)
    BY DEF IInv
  <2>2. \A q \in Procs : m # n /\ Drops(q, m) => Drops(q, m)'
    BY <1>4, <1>5 DEF Drops, Local, Only
  <2>3. record[n] # NoRecord => Drops(p, n)'
    BY <1>0, <1>5 DEF Drops, Mine, Keeps, Listed
  <2>4. \A q \in Procs : Drops(q, n) => Drops(q, n)'
    BY <1>4, <1>5 DEF Drops, Local, Only
  <2> QED
    BY <1>2, <2>1, <2>2, <2>3, <2>4 DEF LineTrue, LineOf
<1>10. Mine(p)'
  <2>1. Place(p)' /\ Keeps(p)'
    <3>1. Place(p)'
      BY <1>0, <1>5 DEF Mine, Place, Locked, Single
    <3>2. Keeps(p)'
      BY <1>0, <1>2, <1>5 DEF Mine, Keeps, Listed
    <3> QED
      BY <3>1, <3>2
  <2>2. Walked(p)'
    <3>1. stage'[p] = "line" => names[p] = {n}
      BY <1>0, <1>5 DEF Mine, Place, Single
    <3>2. ASSUME job[p] = "sizes", NEW m \in Names \ fooled
          PROVE  /\ walked[p][m] # Nothing => walked[p][m] = payload[m]
                 /\ misses[p][m] # NoLine => misses[p][m] = LineOf(m, payload[m])' /\ payload[m] # Nothing
      BY <1>0, <1>2, <3>2 DEF Mine, Walked, Walking, LineOf
    <3> QED
      BY <1>0, <1>2, <1>5, <3>1, <3>2 DEF Mine, Walked, Walking
  <2> QED
    BY <1>5, <2>1, <2>2 DEF Mine, Moving, Sized
<1>11. PutsMeasured'
  <2> SUFFICES ASSUME NEW m \in Names \ fooled, IsDir(m), record'[m].item \in measured
               PROVE  Trusted(m)'
    BY DEF PutsMeasured, IsDir
  <2>1. m # n
    BY DEF IsDir
  <2> QED
    BY <1>2, <2>1 DEF IInv, PutsMeasured, Trusted, Valid, IsDir
<1> QED
  BY <1>4, <1>5, <1>7, <1>8, <1>9, <1>10, <1>11, ChangeKeeps

(* One item of rm, or of a restore or the picker, is done with.            *)
LEMMA Left ==
  ASSUME Types, NEW p \in Procs, Mine(p), lock = p, Leave(p),
         job[p] \in {"take", "sizes"}, stage[p] \in {"payload", "line"},
         UNCHANGED record, fooled \subseteq fooled',
         \A n \in Names \ fooled' : \/ payload'[n] = payload[n]
                                    \/ walked[p][n] = Nothing /\ misses[p][n] = NoLine
  PROVE  /\ job' \in [Procs -> {"none", "put", "sizes", "purge", "take", "empty"}]
         /\ stage' \in [Procs -> {"idle", "move", "look", "walk", "write", "size", "payload", "line"}]
         /\ names' \in [Procs -> SUBSET Names] /\ kept' \in [Procs -> SUBSET Names]
         /\ look' \in [Procs -> [item : 0..MaxPuts, at : Nat]]
         /\ loaded' \in [Procs -> Lines] /\ misses' \in [Procs -> Lines]
         /\ walked' \in [Procs -> [Names -> 0..2 * MaxPuts]]
         /\ Local(p) /\ stage'[p] \in {"idle", "size"} /\ Mine(p)'
<1>1. CASE job[p] = "sizes"
  <2>0. UNCHANGED <<job, kept, look, loaded, walked, misses>>
    BY <1>1 DEF Leave, Go, sizing
  <2>1. /\ stage' = [stage EXCEPT ![p] = "size"] /\ names' = [names EXCEPT ![p] = {}]
        /\ lock' = Nobody
    BY <1>1 DEF Leave, Go
  <2>2. Local(p) /\ stage'[p] = "size"
        /\ stage' \in [Procs -> {"idle", "move", "look", "walk", "write", "size", "payload", "line"}]
        /\ names' \in [Procs -> SUBSET Names]
    BY <2>0, <2>1 DEF Types, Local, Only
  <2>3. Place(p)' /\ Keeps(p)'
    BY <1>1, <2>0, <2>1, <2>2, ProcAssumption DEF Mine, Place, Keeps, Locked
  <2>4. Walked(p)'
    <3>1. ASSUME NEW n \in Names \ fooled'
          PROVE  /\ walked[p][n] # Nothing => walked[p][n] = payload'[n]
                 /\ misses[p][n] # NoLine =>
                      misses[p][n] = LineOf(n, payload[n])' /\ payload'[n] # Nothing
      BY <1>1, <3>1 DEF Mine, Walked, Walking, LineOf
    <3> QED
      BY <1>1, <2>0, <2>2, <3>1 DEF Walked, Walking
  <2> QED
    BY <2>0, <2>2, <2>3, <2>4 DEF Mine, Moving, Sized, Types
<1>2. CASE job[p] = "take"
  <2>1. Finish(p) /\ lock' = Nobody
    BY <1>2 DEF Leave
  <2> QED
    BY <2>1, Finished, ProcAssumption
<1> QED
  BY <1>1, <1>2

LEMMA TakeFailsKeeps ==
  ASSUME IInv, NEW p \in Procs, NEW n \in Names, TakeFails(p, n) PROVE IInv'
<1>0. Types /\ Records /\ Mine(p) /\ lock = p /\ stage[p] = "payload"
      /\ UNCHANGED <<now, puts, record, lines, measured>>
  BY DEF IInv, Mine, Place, Locked, TakeFails
<1>1. fooled \subseteq fooled' /\ Locks(p)
  BY <1>0, ProcAssumption DEF TakeFails, Locks, Leave
<1>2. \A m \in Names : \/ payload'[m] = payload[m]
                       \/ /\ m = n /\ IsDir(m) /\ payload'[m] = Part(record[m].item)
                          /\ Remembered(m) => m \in fooled'
  BY <1>0 DEF TakeFails, Types, TypeOK
<1>3. ASSUME NEW m \in Names, IsDir(m) PROVE record[m] # NoRecord /\ record[m].item \notin Files
                                            /\ Part(record[m].item) \in 0..2 * MaxPuts
                                            /\ Part(record[m].item) \notin Files \cup {Nothing}
  <2>1. record[m] # NoRecord /\ payload[m] # Nothing
    BY <1>0, <1>3 DEF IsDir, Types, TypeOK
  <2>2. record[m].item \in 1..MaxPuts
    BY <1>0, <2>1, BoundAssumption DEF Records, Types
  <2>3. record[m].item \notin Files
    BY <1>0, <1>3, <2>1 DEF IsDir, Types, TypeOK
  <2> QED
    BY <2>1, <2>2, <2>3, BoundAssumption DEF Part, Nothing
<1>4. TypeOK'
  <2>1. payload' \in [Names -> 0..2 * MaxPuts]
    <3>1. UNCHANGED payload \/ (IsDir(n) /\ payload' = [payload EXCEPT ![n] = Part(record[n].item)])
      BY DEF TakeFails
    <3> QED
      BY <1>0, <1>3, <3>1 DEF Types, TypeOK
  <2>2. lock' \in Procs \cup {Nobody}
    BY <1>0, <1>1 DEF Locks
  <2>3. ASSUME NEW m \in Names, payload'[m] # Nothing
        PROVE  /\ record[m] # NoRecord
               /\ \/ payload'[m] = record[m].item
                  \/ record[m].item \notin Files /\ payload'[m] = Part(record[m].item)
    BY <1>0, <1>2, <1>3, <2>3 DEF Types, TypeOK
  <2>4. /\ record' = record /\ lines' = lines
        /\ record \in [Names -> [item : 0..MaxPuts, at : 0..MaxSeconds]]
        /\ lines \in [Names -> [size : 0..2 * MaxPuts, at : -1..MaxSeconds]]
    BY <1>0 DEF Types, TypeOK
  <2>5. \A m \in Names : payload'[m] # Nothing =>
          /\ record'[m] # NoRecord
          /\ \/ payload'[m] = record'[m].item
             \/ record'[m].item \notin Files /\ payload'[m] = Part(record'[m].item)
    BY <2>3, <2>4
  <2> QED
    BY <2>1, <2>2, <2>4, <2>5 DEF TypeOK, Part
<1>5. Records' /\ \A m \in Names : Entry(m)
  BY <1>0, <1>2 DEF Records, Entry, IsDir
<1>6. ASSUME NEW m \in Names \ fooled'
      PROVE  payload'[m] = payload[m] \/ (walked[p][m] = Nothing /\ misses[p][m] = NoLine)
  BY <1>2 DEF Remembered
<1>7. Local(p) /\ Types' /\ Mine(p)' /\ stage'[p] # "move"
      /\ \A m \in Names : Drops(p, m) => Drops(p, m)'
  <2>1. CASE job[p] \in {"take", "sizes"}
    <3>1. Leave(p)
      BY <2>1 DEF TakeFails
    <3>2. Local(p) /\ Types' /\ Mine(p)' /\ stage'[p] \in {"idle", "size"}
      BY <1>0, <1>1, <1>4, <1>6, <2>1, <3>1, Left DEF Types
    <3> QED
      BY <1>0, <2>1, <3>2 DEF Drops
  <2>2. CASE job[p] \notin {"take", "sizes"}
    <3>1. /\ names' = [names EXCEPT ![p] = @ \ {n}]
          /\ UNCHANGED <<lock, job, stage, kept, look, loaded, walked, misses>>
      BY <2>2 DEF TakeFails, sizing
    <3>2. names' \in [Procs -> SUBSET Names] /\ Local(p) /\ names'[p] = names[p] \ {n}
      BY <1>0, <3>1 DEF Types, Local, Only
    <3>3. Types'
      BY <1>0, <1>4, <3>1, <3>2 DEF Types
    <3>4. job[p] \in {"empty", "purge"}
      BY <1>0, <2>2 DEF Types, Mine, Place
    <3>5. Place(p)' /\ Keeps(p)'
      BY <1>0, <3>1, <3>2, <3>4 DEF Mine, Place, Keeps, Listed, Locked
    <3>6. Walked(p)'
      BY <1>0, <3>1, <3>4 DEF Mine, Walked, Walking
    <3> QED
      BY <1>0, <3>1, <3>2, <3>3, <3>5, <3>6 DEF Mine, Moving, Sized, Drops
  <2> QED
    BY <2>1, <2>2
<1>8. ASSUME NEW m \in Names \ fooled' PROVE LineTrue(m)'
  <2>1. LineTrue(m)
    BY <1>1 DEF IInv
  <2>2. \A q \in Procs : Drops(q, m) => Drops(q, m)'
    BY <1>7 DEF Drops, Local, Only
  <2>3. CASE payload'[m] = payload[m]
    BY <1>0, <2>1, <2>2, <2>3 DEF LineTrue, LineOf
  <2>4. CASE IsDir(m) /\ ~Remembered(m)
    <3>1. record[m] # NoRecord /\ payload[m] # Nothing
      BY <1>3, <2>4 DEF IsDir
    <3>2. lines[m] = NoLine
      BY <2>1, <2>4, <3>1 DEF Remembered, Trusted, Valid, LineTrue, LineOf
    <3> QED
      BY <1>0, <3>2 DEF LineTrue
  <2> QED
    BY <1>2, <2>3, <2>4
<1>9. PutsMeasured'
  <2>1. \A m \in Names : IsDir(m)' <=> IsDir(m)
    BY <1>2, <1>3 DEF IsDir
  <2> QED
    BY <1>0, <1>1, <2>1 DEF IInv, PutsMeasured, Trusted, Valid
<1> QED
  BY <1>0, <1>1, <1>5, <1>7, <1>8, <1>9, ChangeKeeps

LEMMA DropLineKeeps ==
  ASSUME IInv, NEW p \in Procs, DropLine(p) PROVE IInv'
<1>0. Types /\ Records /\ Mine(p) /\ lock = p /\ stage[p] = "line" /\ Leave(p)
      /\ UNCHANGED <<now, puts, payload, record, measured, fooled>>
  BY DEF IInv, Mine, Place, Locked, DropLine, trash
<1>1. PICK n \in Names : names[p] = {n}
  BY <1>0 DEF Mine, Place, Single
<1>2. lines' = [lines EXCEPT ![n] = NoLine] /\ payload[n] = Nothing
  BY <1>0, <1>1 DEF Mine, Walked, Dropped, DropLine
<1>3. lines' \in Lines /\ lines'[n] = NoLine /\ \A m \in Names \ {n} : lines'[m] = lines[m]
  BY <1>0, <1>2, Constants DEF Types, TypeOK, Lines
<1>4. TypeOK' /\ Locks(p)
  BY <1>0, <1>3 DEF Types, TypeOK, Lines, Locks, Leave
<1>5. Local(p) /\ Types' /\ Mine(p)' /\ stage'[p] # "move"
  <2>1. job[p] \in {"take", "sizes"}
    BY <1>0 DEF Mine, Place
  <2> QED
    BY <1>0, <1>4, <2>1, Left DEF Types
<1>6. Records' /\ \A m \in Names : Entry(m)
  BY <1>0 DEF Records, Entry
<1>7. ASSUME NEW m \in Names \ fooled PROVE LineTrue(m)'
  <2>1. CASE m = n
    BY <1>3, <2>1 DEF LineTrue
  <2>2. CASE m # n
    <3>1. LineTrue(m) /\ ~Drops(p, m)
      BY <1>0, <1>1, <2>2 DEF IInv, Drops
    <3>2. \A q \in Procs : Drops(q, m) => Drops(q, m)'
      BY <1>5, <3>1 DEF Drops, Local, Only
    <3> QED
      BY <1>0, <1>3, <2>2, <3>1, <3>2 DEF LineTrue, LineOf
  <2> QED
    BY <2>1, <2>2
<1>8. PutsMeasured'
  BY <1>0, <1>2, <1>3 DEF IInv, PutsMeasured, Trusted, Valid, IsDir
<1> QED
  BY <1>0, <1>4, <1>5, <1>6, <1>7, <1>8, ChangeKeeps

LEMMA PruneKeeps ==
  ASSUME IInv, NEW p \in Procs, Prune(p) PROVE IInv'
<1>0. Types /\ Records /\ Mine(p) /\ lock = p /\ Finish(p) /\ stage[p] = "payload"
      /\ job[p] \in {"empty", "purge"} /\ UNCHANGED <<now, puts, payload, record, fooled>>
      /\ lock' = Nobody
  BY DEF IInv, Mine, Place, Locked, Prune, trash
<1>1. \/ job[p] = "empty" /\ PruneLines(p)
      \/ job[p] = "purge" /\ Listed = kept[p] /\ UNCHANGED <<lines, measured>>
      \/ lines' = WithoutGone(lines) /\ UNCHANGED measured
  BY DEF Prune
<1>2. \A n \in Names : lines'[n] \in {lines[n], NoLine}
  BY <1>1 DEF PruneLines, WithoutGone
<1>3. ASSUME NEW n \in Names, record[n] = NoRecord
      PROVE  lines'[n] = NoLine \/ (lines'[n] = lines[n] /\ ~Drops(p, n))
  <2>1. ~IsDir(n) /\ n \notin Listed
    BY <1>0, <1>3, Entries DEF IsDir, Listed
  <2> QED
    BY <1>0, <1>1, <2>1 DEF PruneLines, WithoutGone, Drops, Mine, Keeps
<1>4. lines' \in Lines /\ measured' \subseteq measured
  <2>1. lines \in Lines
    BY <1>0 DEF Types, TypeOK, Lines
  <2>2. /\ [n \in Names |-> IF n \in kept[p] THEN lines[n] ELSE NoLine] \in Lines
        /\ WithoutGone(lines) \in Lines
    BY <2>1, Constants DEF Lines, WithoutGone
  <2> QED
    BY <1>1, <2>1, <2>2 DEF PruneLines
<1>5. Types' /\ Local(p) /\ Mine(p)' /\ stage'[p] # "move" /\ job'[p] = "none"
  BY <1>0, <1>4, Finished, ProcAssumption DEF Types, TypeOK, Lines
<1>6. Locks(p) /\ Records' /\ \A n \in Names : Entry(n)
  BY <1>0 DEF Locks, Records, Entry
<1>7. ASSUME NEW n \in Names \ fooled PROVE LineTrue(n)'
  <2>1. LineTrue(n)
    BY DEF IInv
  <2>2. \A q \in Procs \ {p} : Drops(q, n) => Drops(q, n)'
    BY <1>5 DEF Drops, Local, Only
  <2> QED
    BY <1>0, <1>2, <1>3, <2>1, <2>2 DEF LineTrue, LineOf
<1>8. PutsMeasured'
  <2> SUFFICES ASSUME NEW n \in Names \ fooled, IsDir(n), record[n].item \in measured'
               PROVE  Trusted(n)'
    BY <1>0 DEF PutsMeasured, IsDir
  <2>1. Trusted(n)
    BY <1>4 DEF IInv, PutsMeasured
  <2>2. lines'[n] = lines[n]
    <3>1. record[n] # NoRecord
      BY <1>0, Entries DEF IsDir
    <3>2. CASE PruneLines(p)
      <4>1. n \in kept[p]
        BY <3>1, <3>2 DEF PruneLines, Listed
      <4> QED
        BY <3>2, <4>1 DEF PruneLines
    <3> QED
      BY <1>1, <3>2 DEF WithoutGone
  <2> QED
    BY <1>0, <2>1, <2>2 DEF Trusted, Valid, IsDir
<1> QED
  BY <1>0, <1>5, <1>6, <1>7, <1>8, ChangeKeeps

LEMMA KillKeeps ==
  ASSUME IInv, NEW p \in Procs, Kill(p) PROVE IInv'
<1> USE DEF Kill, trash
<1>0. Types /\ Records /\ Mine(p) /\ Finish(p)
  BY DEF IInv
<1>1. Types' /\ Local(p) /\ Mine(p)' /\ stage'[p] # "move"
  BY <1>0, Finished, ProcAssumption DEF Types, TypeOK
<1>2. Locks(p) /\ Records' /\ \A n \in Names : Entry(n)
  BY <1>0 DEF Locks, Records, Entry
<1>3. ASSUME NEW n \in Names \ fooled' PROVE LineTrue(n)'
  <2>1. LineTrue(n)
    BY DEF IInv
  <2>2. record[n] = NoRecord => lines[n] = NoLine
    BY DEF Listed
  <2> QED
    BY <2>1, <2>2 DEF LineTrue, LineOf
<1>4. PutsMeasured'
  BY DEF IInv, PutsMeasured, Trusted, Valid, IsDir
<1> QED
  BY <1>1, <1>2, <1>3, <1>4, ChangeKeeps

-----------------------------------------------------------------------------
LEMMA NextKeeps == IInv /\ [Next]_vars => IInv'
<1> SUFFICES ASSUME IInv, [Next]_vars PROVE IInv'
  OBVIOUS
<1>1. CASE UNCHANGED vars
  <2> USE <1>1 DEF vars
  <2>1. Types' /\ Records' /\ PutsMeasured'
    BY DEF IInv, Types, TypeOK, Records, PutsMeasured, Trusted, Valid, IsDir
  <2>2. \A n \in Names \ fooled : LineTrue(n)'
    BY DEF IInv, LineTrue, LineOf, Drops
  <2>3. ASSUME NEW p \in Procs PROVE Mine(p)'
    BY DEF IInv, Mine, Place, Keeps, Listed, Locked, Moving, Sized, TooSoon, Walked, Walking, LineOf
  <2> QED
    BY <2>1, <2>2, <2>3 DEF IInv
<1>2. ASSUME NEW p \in Procs, PutStep(p) \/ SizeStep(p) \/ TakeStep(p) PROVE IInv'
  <2>1. PutStep(p) => IInv'
    BY ReserveKeeps, MoveKeeps, LookKeeps, WalkKeeps, UpsertKeeps DEF PutStep
  <2>2. SizeStep(p) => IInv'
    BY LoadKeeps, PayloadBytesKeeps, RememberKeeps, WriteBackKeeps DEF SizeStep
  <2>3. TakeStep(p) => IInv'
    BY BeginKeeps, TakePayloadKeeps, TakeRecordKeeps, TakeFailsKeeps, DropLineKeeps, PruneKeeps,
       KillKeeps
       DEF TakeStep
  <2> QED
    BY <1>2, <2>1, <2>2, <2>3
<1> QED
  BY <1>1, <1>2 DEF Next

LEMMA IInvRight == IInv => TypeOK /\ SizesTrue /\ PutsMeasured
<1> SUFFICES ASSUME IInv PROVE TypeOK /\ SizesTrue /\ PutsMeasured
  OBVIOUS
<1>1. ASSUME NEW n \in Names \ fooled, Trusted(n) PROVE lines[n].size = payload[n]
  <2>1. payload[n] # Nothing /\ lines[n] # NoLine
    BY <1>1 DEF Trusted, Valid, IsDir
  <2>2. lines[n] = LineOf(n, payload[n])
    BY <2>1 DEF IInv, LineTrue
  <2> QED
    BY <2>2 DEF LineOf
<1> QED
  BY <1>1 DEF IInv, Types, SizesTrue

LEMMA Invariance == Spec => []IInv
BY InitHolds, NextKeeps, PTL DEF Spec

(* Every line is of a name and a second there can be, and each payload is  *)
(* the item of its record, in whole or in part.                            *)
THEOREM DirSizesTyped == Spec => []TypeOK
BY Invariance, IInvRight, PTL

(* A line that is trusted is the size of the directory there now, not of   *)
(* an item that had the name before within the same second, nor of what a  *)
(* failing removal has left of it, under any name but those in `fooled`.   *)
THEOREM TrustedSizes == Spec => []SizesTrue
BY Invariance, IInvRight, PTL

(* No command's write loses the line a put wrote, and no failing removal,  *)
(* but that of an empty by age.                                            *)
THEOREM MeasuredStays == Spec => []PutsMeasured
BY Invariance, IInvRight, PTL
=============================================================================
