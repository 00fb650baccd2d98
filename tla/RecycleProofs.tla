--------------------------- MODULE RecycleProofs ---------------------------
(***************************************************************************)
(* For any commands, paths, items and faults: the bin loses no file,       *)
(* leaves no payload without its record, and implements TrashStore, with   *)
(* no lock.                                                                *)
(***************************************************************************)
EXTENDS Recycle, TLAPS

Row == [id : 1..MaxPuts, from : Paths, at : 0..MaxTick]
Ops == {"none", "put", "rm", "empty", "oldest", "wsl", "restore", "fix"}
PutPlaces == {"send", "note", "trim", "end"}
WslPlaces == {"wsl_payload", "wsl_record"}
MovePlaces == {"clear", "move", "open", "copy", "drop", "unlink"}
Places == {"idle", "purge", "recheck", "wsl", "plan", "next", "fix"}
            \cup PutPlaces \cup WslPlaces \cup MovePlaces

DiskTypes ==
  /\ file \in [Paths -> Files \cup {None, Part}]
  /\ payload \in [Ids -> Files \cup {None, Debris}]
  /\ DOMAIN record = Ids
  /\ \A i \in Ids : record[i] \in {NoRecord, Bad, Stray} \/
       (HasRecord(i) /\ record[i].from \in Paths /\ record[i].at \in 0..MaxTick)
  /\ now \in 0..MaxTick /\ stamp \in 0..MaxPuts /\ created \in 0..MaxFiles
  /\ gone \subseteq Files /\ clobbered \subseteq Files
LocalTypes ==
  /\ op \in [Procs -> Ops] /\ pc \in [Procs -> Places]
  /\ rows \in [Procs -> SUBSET (Row \cup [id : Ids])]
  /\ cur \in [Procs -> Row \cup {NoRow}]
  /\ DOMAIN dest = Procs /\ policy \in [Procs -> {"refuse", "overwrite", "rename"}]
  /\ DOMAIN since = Procs /\ src \in [Procs -> Paths \cup {"none"}]
  /\ mine \in [Procs -> 0..MaxPuts] /\ fresh \in [Procs -> BOOLEAN]
  /\ seen \in [Procs -> SUBSET (1..MaxPuts)]
  /\ carry \in [Procs -> Files \cup {None}]
Types == DiskTypes /\ LocalTypes

(* The places of each command.                                             *)
Command(p) ==
  /\ pc[p] = "idle" <=> op[p] = "none"
  /\ pc[p] \in PutPlaces => op[p] = "put"
  /\ pc[p] = "recheck" => op[p] \in {"rm", "empty"}
  /\ pc[p] = "purge" => op[p] \in {"put", "rm", "empty", "oldest"}
  /\ pc[p] \in {"wsl"} \cup WslPlaces <=> op[p] = "wsl"
  /\ pc[p] \in {"plan", "next"} \cup MovePlaces <=> op[p] = "restore"
  /\ pc[p] = "fix" <=> op[p] = "fix"

(* An id is known once its put has brought the item or has failed: no      *)
(* payload comes to it again, and its record stays as it was until it goes. *)
Known == ((1..stamp) \ Pending) \cup Junk
Unused ==
  \A i \in 1..MaxPuts : i \notin Known => payload[i] = None /\ record[i] = NoRecord
Sound ==
  /\ \A i \in 1..MaxPuts : payload[i] \in Files \cup {None}
  /\ \A i \in Junk : HasRecord(i) => payload[i] = None

(* What a command has listed is of a known id, and as listed if it is there. *)
AsListed(r) == r \in Row /\ r.id \in Known /\ (HasRecord(r.id) => RowOf(r.id) = r)
Listing0 == {"idle", "fix"} \cup PutPlaces
RowsKnown(p) ==
  /\ pc[p] \in Listing0 => seen[p] = {}
  /\ pc[p] \in {"idle"} \cup PutPlaces => rows[p] = {}
  /\ op[p] # "fix" => \A r \in rows[p] : AsListed(r) /\ r.id \in seen[p]
  /\ op[p] = "fix" => \A r \in rows[p] : /\ r \in [id : Ids] /\ r.id \in Known
                                         /\ r.id \in Junk \/ payload[r.id] = None
CurKnown(p) ==
  /\ pc[p] \in WslPlaces \cup MovePlaces => AsListed(cur[p]) /\ cur[p].id \in seen[p]
  /\ pc[p] \in {"wsl_record", "unlink"} => payload[cur[p].id] = None

(* Where a restore puts its rows, and the copy it has begun.               *)
To(p) == dest[p][cur[p].id]
Planned(p) ==
  /\ op[p] = "restore" /\ pc[p] # "plan" => \A r \in rows[p] : dest[p][r.id] \in Paths
  /\ pc[p] \in MovePlaces => To(p) \in Paths
  /\ pc[p] = "copy" => file[To(p)] = Part

(* A put's operand and its id.                                             *)
Putting(p) ==
  /\ pc[p] = "send" => mine[p] \in 1..stamp
  /\ pc[p] \in {"send", "note", "trim"} => src[p] \in Paths

Mine(p) == Command(p) /\ RowsKnown(p) /\ CurKnown(p) /\ Planned(p) /\ Putting(p)

(* No two puts have one id, no two copies one destination, and no two      *)
(* restores have taken one item.                                           *)
Apart(p, q) ==
  /\ pc[p] = "send" /\ pc[q] = "send" => mine[p] # mine[q]
  /\ pc[p] = "copy" /\ pc[q] = "copy" => To(p) # To(q)
  /\ pc[p] = "unlink" /\ pc[q] = "unlink" => cur[p].id # cur[q].id

(* A file is somewhere else than in a payload about to go.                 *)
Dropping == {cur[p].id : p \in {q \in Procs : pc[q] = "drop"}}
Somewhere(f) ==
  \/ \E x \in Paths : file[x] = f
  \/ \E i \in Ids \ Dropping : payload[i] = f
  \/ f \in gone \cup clobbered

IInv ==
  /\ Types /\ Unused /\ Sound
  /\ \A p \in Procs : Mine(p)
  /\ \A p, q \in Procs : p # q => Apart(p, q)
  /\ RecordBeside
  /\ \A f \in 1..created : Somewhere(f)

LEMMA Values ==
  /\ None = 0 /\ None \notin Files /\ Part \notin Files /\ Part # None
  /\ Debris \notin Files /\ Debris # None /\ Files \subseteq Nat
  /\ NoRecord.what = "none" /\ Bad.what = "bad" /\ NoRecord # Bad
  /\ Stray.what = "stray" /\ Stray # NoRecord /\ Stray # Bad
  /\ NoRow.id = 0 /\ 0 \notin 1..MaxPuts
  /\ \A x, t : LET r == RecordOf(x, t) IN r.what = "record" /\ r.from = x /\ r.at = t
BY BoundAssumption DEF None, Files, Part, Debris, NoRecord, Bad, Stray, NoRow, RecordOf

LEMMA Stamped ==
  ASSUME Types
  PROVE  stamp \in Nat /\ 1..stamp \subseteq 1..MaxPuts /\ 1..stamp \subseteq Ids /\ Known \subseteq Ids
<1>1. stamp \in Nat /\ MaxPuts \in Nat /\ stamp <= MaxPuts
  BY BoundAssumption DEF Types, DiskTypes
<1>2. 1..stamp \subseteq 1..MaxPuts
  BY <1>1
<1> QED
  BY <1>1, <1>2 DEF Ids, Known

(* A step of p changes locals of p.                                        *)
Only(f, p) == \A q \in Procs \ {p} : f'[q] = f[q]
Local(p) ==
  /\ Only(op, p) /\ Only(pc, p) /\ Only(rows, p) /\ Only(cur, p)
  /\ Only(dest, p) /\ Only(src, p) /\ Only(mine, p) /\ Only(seen, p)

(* What it leaves of the disk for the others: records of known ids only    *)
(* go, no payload comes to them, and no one touches another's copy.        *)
LeavesBin ==
  /\ stamp <= stamp' /\ stamp' \in Nat
  /\ Known \subseteq Known'
  /\ \A i \in Known : /\ record'[i] = record[i] \/ record'[i] = NoRecord
                      /\ payload[i] = None => payload'[i] = None
Leaves(p) ==
  /\ LeavesBin
  /\ \A q \in Procs \ {p} : pc[q] = "copy" => file'[To(q)] = file[To(q)]

Stays(q) ==
  /\ op'[q] = op[q] /\ pc'[q] = pc[q] /\ rows'[q] = rows[q] /\ cur'[q] = cur[q]
  /\ dest'[q] = dest[q] /\ src'[q] = src[q] /\ mine'[q] = mine[q] /\ seen'[q] = seen[q]

LEMMA Bystander ==
  ASSUME IInv, NEW q \in Procs, Stays(q), LeavesBin,
         pc[q] = "copy" => file'[To(q)] = file[To(q)]
  PROVE  Mine(q)'
<1>0. Types /\ Mine(q)
  BY DEF IInv
<1>1. /\ op'[q] = op[q] /\ pc'[q] = pc[q] /\ rows'[q] = rows[q] /\ cur'[q] = cur[q]
      /\ dest'[q] = dest[q] /\ src'[q] = src[q] /\ mine'[q] = mine[q] /\ seen'[q] = seen[q]
  BY DEF Stays
<1>2. stamp \in Nat
  BY <1>0, BoundAssumption DEF Types, DiskTypes
<1>3. ASSUME NEW r, AsListed(r) PROVE AsListed(r)'
  BY <1>3, Values DEF AsListed, LeavesBin, HasRecord, RowOf
<1>4. Command(q)'
  BY <1>0, <1>1 DEF Mine, Command
<1>5. RowsKnown(q)'
  BY <1>0, <1>1, <1>3 DEF Mine, RowsKnown, LeavesBin
<1>6. CurKnown(q)'
  <2>1. \A c : cur[q] = c /\ AsListed(c) => AsListed(cur[q])'
    BY <1>1, Values DEF AsListed, LeavesBin, HasRecord, RowOf
  <2>2. pc[q] \in WslPlaces \cup MovePlaces => AsListed(cur[q])' /\ cur[q].id \in seen[q]
    BY <1>0, <2>1 DEF Mine, CurKnown
  <2>3. pc[q] \in {"wsl_record", "unlink"} => payload'[cur[q].id] = None
    BY <1>0 DEF Mine, CurKnown, AsListed, LeavesBin, WslPlaces, MovePlaces
  <2> QED
    BY <1>1, <2>2, <2>3 DEF CurKnown
<1>7. Planned(q)'
  BY <1>0, <1>1 DEF Mine, Planned, LeavesBin, To
<1>8. Putting(q)'
  BY <1>0, <1>1, <1>2, Values DEF Mine, Putting, LeavesBin, HasRecord
<1> QED
  BY <1>4, <1>5, <1>6, <1>7, <1>8 DEF Mine

LEMMA Bystanders ==
  ASSUME IInv, NEW p \in Procs, Local(p), Leaves(p), NEW q \in Procs, q # p
  PROVE  Mine(q)'
<1>1. Stays(q)
  BY DEF Local, Only, Stays
<1> QED
  BY <1>1, Bystander DEF Leaves

(* It does not enter a place where two must not meet.                      *)
Meets(p, q) ==
  \/ pc'[p] = "send" /\ pc[q] = "send" /\ mine'[p] = mine[q]
  \/ pc'[p] = "copy" /\ pc[q] = "copy" /\ dest'[p][cur'[p].id] = To(q)
  \/ pc'[p] = "unlink" /\ pc[q] = "unlink" /\ cur'[p].id = cur[q].id

LEMMA StaysApart ==
  ASSUME IInv, NEW p \in Procs, Local(p), \A q \in Procs \ {p} : ~Meets(p, q),
         NEW a \in Procs, NEW b \in Procs, a # b
  PROVE  Apart(a, b)'
<1>1. Apart(a, b)
  BY DEF IInv
<1>2. ASSUME NEW q \in Procs \ {p} PROVE Apart(p, q)' /\ Apart(q, p)'
  BY <1>2 DEF Apart, Meets, Local, Only, To
<1>3. a # p /\ b # p => Apart(a, b)'
  BY <1>1 DEF Apart, Local, Only, To
<1> QED
  BY <1>2, <1>3

LEMMA StepKeeps ==
  ASSUME IInv, NEW p \in Procs, Local(p), Leaves(p),
         \A q \in Procs \ {p} : ~Meets(p, q), Mine(p)',
         Types', Unused', Sound', RecordBeside', \A f \in 1..created' : Somewhere(f)'
  PROVE  IInv'
<1>1. \A q \in Procs : Mine(q)'
  BY Bystanders
<1>2. \A a, b \in Procs : a # b => Apart(a, b)'
  BY StaysApart
<1> QED
  BY <1>1, <1>2 DEF IInv

-----------------------------------------------------------------------------
(* Steps that leave the disk alone.                                        *)
LEMMA KnownStays ==
  ASSUME Types, NEW p \in Procs, Local(p), stamp' = stamp, pc'[p] # "send"
  PROVE  /\ Pending' \subseteq Pending /\ Known \subseteq Known'
         /\ pc[p] # "send" => Pending' = Pending /\ Known' = Known
BY DEF Pending, Known, Local, Only

LEMMA DroppingStays ==
  ASSUME Types, NEW p \in Procs, Local(p), pc'[p] # "drop"
  PROVE  Dropping' \subseteq Dropping
BY DEF Dropping, Local, Only

LEMMA QuietKeeps ==
  ASSUME IInv, NEW p \in Procs, Local(p), pc'[p] \notin {"send", "copy", "unlink", "drop"},
         UNCHANGED <<disk, stamp, created, history>>, Types', Mine(p)'
  PROVE  IInv'
<1> USE DEF disk, history
<1>0. Types
  BY DEF IInv
<1>1. Known \subseteq Known' /\ Dropping' \subseteq Dropping
  BY <1>0, KnownStays, DroppingStays
<1>2. stamp \in Nat
  BY <1>0, BoundAssumption DEF Types, DiskTypes
<1>3. Leaves(p)
  BY <1>1, <1>2 DEF Leaves, LeavesBin
<1>4. \A q \in Procs \ {p} : ~Meets(p, q)
  BY DEF Meets
<1>5. Unused' /\ Sound' /\ RecordBeside'
  BY <1>1 DEF IInv, Unused, Sound, RecordBeside, HasRecord
<1>6. \A f \in 1..created' : Somewhere(f)'
  BY <1>1 DEF IInv, Somewhere
<1> QED
  BY <1>3, <1>4, <1>5, <1>6, StepKeeps

(* What a command lists is there, known, and as it reads it.               *)
LEMMA ListedKnown ==
  ASSUME IInv, NEW r \in Listing
  PROVE  /\ AsListed(r) /\ r = RowOf(r.id) /\ r.id \in 1..MaxPuts
         /\ HasRecord(r.id) /\ payload[r.id] # None
<1>1. PICK j \in Ids : HasRecord(j) /\ payload[j] # None /\ r = RowOf(j)
  BY DEF Listing
<1>2. r.id = j
  BY <1>1 DEF RowOf
<1>3. j \in 1..MaxPuts /\ j \in Known
  BY <1>1, Values DEF IInv, Sound, Unused, Ids
<1>4. r \in Row
  BY <1>1, <1>3, Values DEF IInv, Types, DiskTypes, Row, RowOf, HasRecord
<1> QED
  BY <1>1, <1>2, <1>3, <1>4 DEF AsListed

LEMMA ListsKeep ==
  ASSUME IInv, NEW p \in Procs, NEW o \in Ops \ {"none", "put", "fix"}, NEW l, NEW S \in SUBSET Listing,
         Lists(p, o, l, S), dest' = dest, policy' \in [Procs -> {"refuse", "overwrite", "rename"}],
         \/ o \in {"rm", "empty"} /\ l = "recheck"
         \/ o = "oldest" /\ l = "purge"
         \/ o = "wsl" /\ l = "wsl"
         \/ o = "restore" /\ l = "plan"
  PROVE  IInv'
<1> USE DEF Lists, Begin, Goto, disk, history, putting
<1>0. Types /\ Mine(p)
  BY DEF IInv
<1>1. \A r \in S : AsListed(r) /\ r \in Row /\ r.id \in 1..MaxPuts
  BY ListedKnown DEF AsListed
<1>2. op'[p] = o /\ pc'[p] = l /\ rows'[p] = S /\ seen'[p] = {r.id : r \in S}
  BY <1>0 DEF Types, LocalTypes
<1>3. Local(p) /\ l \in Places
  BY <1>0 DEF Types, LocalTypes, Local, Only, Places
<1>4. Types'
  <2>1. DiskTypes'
    BY <1>0 DEF Types, DiskTypes, HasRecord
  <2>2. LocalTypes'
    BY <1>0, <1>1, <1>3 DEF Types, LocalTypes
  <2> QED
    BY <2>1, <2>2 DEF Types
<1>5. Known' = Known
  BY <1>0, <1>2, <1>3, KnownStays DEF Places
<1>6. Mine(p)'
  <2>1. Command(p)'
    BY <1>2 DEF Command, PutPlaces, WslPlaces, MovePlaces
  <2>2. RowsKnown(p)'
    <3>1. \A r \in S : AsListed(r)'
      BY <1>1, <1>5 DEF AsListed, HasRecord, RowOf
    <3> QED
      BY <1>2, <3>1 DEF RowsKnown, Listing0, PutPlaces, AsListed, HasRecord, RowOf
  <2>3. CurKnown(p)' /\ Planned(p)' /\ Putting(p)'
    BY <1>2 DEF CurKnown, Planned, Putting, WslPlaces, MovePlaces
  <2> QED
    BY <2>1, <2>2, <2>3 DEF Mine
<1> QED
  BY <1>2, <1>3, <1>4, <1>6, QuietKeeps

LEMMA DiskTypesStay ==
  ASSUME Types, UNCHANGED <<disk, stamp, created, history>>, now' \in 0..MaxTick
  PROVE  DiskTypes'
BY DEF Types, DiskTypes, HasRecord, disk, history

(* The bin only loses.                                                     *)
Removes ==
  \A i \in Ids : payload'[i] \in {payload[i], None} /\ record'[i] \in {record[i], NoRecord}

(* The rows and the row in hand, when fewer are left.                      *)
LEMMA FewerRows ==
  ASSUME IInv, NEW p \in Procs, Known' = Known, Removes,
         op'[p] = op[p], seen'[p] = seen[p], rows'[p] \subseteq rows[p],
         pc'[p] \in Listing0 => pc[p] \in Listing0,
         pc'[p] \in {"idle"} \cup PutPlaces => rows'[p] = {}
  PROVE  RowsKnown(p)'
<1>1. RowsKnown(p)
  BY DEF IInv, Mine
<1>3. Known \subseteq Ids
  BY Stamped DEF IInv
<1>4. ASSUME NEW r, AsListed(r) PROVE AsListed(r)'
  BY <1>3, <1>4, Values DEF AsListed, HasRecord, RowOf, Removes
<1> QED
  BY <1>1, <1>3, <1>4 DEF RowsKnown, Removes

LEMMA SameRow ==
  ASSUME Types, Known' = Known, Removes,
         NEW p \in Procs, NEW r, cur'[p] = r, AsListed(r)
  PROVE  AsListed(cur[p])'
BY Values DEF AsListed, HasRecord, RowOf, Removes, Row, Ids

LEMMA ResetKeeps ==
  ASSUME IInv, NEW p \in Procs, Reset(p) PROVE IInv'
<1> USE DEF Reset, Goto, counters
<1>0. Types
  BY DEF IInv
<1>1. /\ op'[p] = "none" /\ pc'[p] = "idle" /\ rows'[p] = {} /\ seen'[p] = {}
      /\ Local(p)
  BY <1>0 DEF Types, LocalTypes, Local, Only
<1>2. LocalTypes'
  BY <1>0, BoundAssumption DEF Types, LocalTypes, Ops, Places, None
<1>3. Types'
  BY <1>0, <1>2, DiskTypesStay DEF Types, DiskTypes
<1>4. Mine(p)'
  BY <1>1 DEF Mine, Command, RowsKnown, CurKnown, Planned, Putting, PutPlaces, WslPlaces,
     MovePlaces
<1> QED
  BY <1>1, <1>3, <1>4, QuietKeeps

LEMMA SendFailsKeeps ==
  ASSUME IInv, NEW p \in Procs, SendFails(p) PROVE IInv'
<1> USE DEF SendFails, Goto, counters, locals, history, work, plan, putting
<1>0. Types /\ Mine(p)
  BY DEF IInv
<1>1. pc'[p] = "end" /\ Local(p)
  BY <1>0 DEF Types, LocalTypes, Local, Only
<1>2. Types'
  BY <1>0, DiskTypesStay DEF Types, DiskTypes, LocalTypes, Places, PutPlaces
<1>3. Mine(p)'
  BY <1>0, <1>1 DEF Mine, Command, RowsKnown, CurKnown, Planned, Putting, PutPlaces, WslPlaces,
     MovePlaces, Listing0
<1> QED
  BY <1>1, <1>2, <1>3, QuietKeeps

LEMMA WriteLastPutKeeps ==
  ASSUME IInv, NEW p \in Procs, WriteLastPut(p) PROVE IInv'
<1> USE DEF WriteLastPut, Goto, counters, locals, history, work, plan, putting
<1>0. Types /\ Mine(p)
  BY DEF IInv
<1>1. pc'[p] = "trim" /\ Local(p)
  BY <1>0 DEF Types, LocalTypes, Local, Only
<1>2. Types'
  BY <1>0, DiskTypesStay DEF Types, DiskTypes, LocalTypes, Places, PutPlaces
<1>3. Known' = Known
  BY <1>0, <1>1, KnownStays
<1>4. Mine(p)'
  BY <1>0, <1>1, <1>3 DEF Mine, Command, RowsKnown, CurKnown, Planned, Putting, PutPlaces,
     WslPlaces, MovePlaces, Listing0, HasRecord, disk
<1> QED
  BY <1>1, <1>2, <1>4, QuietKeeps

(* What a put trims is listed.                                             *)
LEMMA TrimsListed ==
  ASSUME NEW own, NEW S \in TrimPicks(own)
  PROVE  S \subseteq Listing
BY DEF TrimPicks, Oldest, kSubset

LEMMA PruneAfterPutKeeps ==
  ASSUME IInv, NEW p \in Procs, PruneAfterPut(p) PROVE IInv'
<1> USE DEF PruneAfterPut, Goto, counters, history, plan, putting
<1>0. Types /\ Mine(p)
  BY DEF IInv
<1>1. PICK own \in SUBSET SamePath(p) : \E S \in TrimPicks(own) :
        /\ rows' = [rows EXCEPT ![p] = S]
        /\ seen' = [seen EXCEPT ![p] = {r.id : r \in S}]
  OBVIOUS
<1> PICK S \in TrimPicks(own) : /\ rows' = [rows EXCEPT ![p] = S]
                                /\ seen' = [seen EXCEPT ![p] = {r.id : r \in S}]
  BY <1>1
<1>2. \A r \in S : AsListed(r) /\ r \in Row /\ r.id \in 1..MaxPuts /\ HasRecord(r.id)
  BY TrimsListed, ListedKnown DEF AsListed, RowOf
<1>3. op[p] = "put" /\ pc'[p] = "purge" /\ rows'[p] = S /\ seen'[p] = {r.id : r \in S} /\ Local(p)
  BY <1>0, <1>1 DEF Types, LocalTypes, Local, Only, Mine, Command, PutPlaces
<1>4. Types'
  <2>1. LocalTypes'
    BY <1>0, <1>1, <1>2 DEF Types, LocalTypes, Places
  <2> QED
    BY <1>0, <2>1, DiskTypesStay DEF Types, DiskTypes
<1>5. Known' = Known
  BY <1>0, <1>3, KnownStays
<1>6. RowsKnown(p)'
  <2>1. \A r \in S : AsListed(r)'
    BY <1>2, <1>5 DEF AsListed, HasRecord, RowOf, disk
  <2> QED
    BY <1>3, <2>1 DEF RowsKnown, Listing0, PutPlaces, AsListed, HasRecord, RowOf
<1>7. Putting(p)'
  BY <1>0, <1>1, <1>2, <1>3 DEF Mine, Putting
<1>8. Mine(p)'
  BY <1>3, <1>6, <1>7 DEF Mine, Command, CurKnown, Planned, PutPlaces, WslPlaces, MovePlaces
<1> QED
  BY <1>3, <1>4, <1>8, QuietKeeps

LEMMA RecheckKeeps ==
  ASSUME IInv, NEW p \in Procs, Recheck(p) PROVE IInv'
<1> USE DEF Recheck, Goto, counters, history, plan, putting
<1>0. Types /\ Mine(p)
  BY DEF IInv
<1>1. pc'[p] = "purge" /\ rows'[p] \subseteq rows[p] /\ Local(p)
  BY <1>0 DEF Types, LocalTypes, Local, Only
<1>2. Types'
  <2>1. LocalTypes'
    BY <1>0 DEF Types, LocalTypes, Places
  <2> QED
    BY <1>0, <2>1, DiskTypesStay DEF Types, DiskTypes
<1>3. Known' = Known
  BY <1>0, <1>1, KnownStays
<1>4. RowsKnown(p)'
  BY <1>1, <1>3, FewerRows DEF disk, Removes, Listing0, PutPlaces
<1>5. Mine(p)'
  BY <1>0, <1>1, <1>4 DEF Mine, Command, CurKnown, Planned, Putting, PutPlaces, WslPlaces, MovePlaces
<1> QED
  BY <1>1, <1>2, <1>5, QuietKeeps

(* A row that passes is taken in hand.                                     *)
LEMMA TakeKeeps ==
  ASSUME IInv, NEW p \in Procs, NEW r \in rows[p], NEW l, Take(p, r, l),
         \/ pc[p] = "wsl" /\ l \in {"wsl", "wsl_payload"}
         \/ pc[p] = "next" /\ l \in {"next", "clear"},
         UNCHANGED <<disk, counters, lastPut, op, plan, putting, fresh, seen, carry, history>>
  PROVE  IInv'
<1> USE DEF Take, Goto, counters, history, plan, putting
<1>0. Types /\ Mine(p)
  BY DEF IInv
<1>1. /\ pc'[p] = l /\ rows'[p] = rows[p] \ {r} /\ cur'[p] = r /\ Local(p)
      /\ op'[p] = op[p] /\ seen'[p] = seen[p] /\ dest'[p] = dest[p]
  BY <1>0 DEF Types, LocalTypes, Local, Only
<1>2. AsListed(r) /\ r \in Row /\ r.id \in seen[p]
  BY <1>0 DEF Mine, RowsKnown, Command, AsListed
<1>3. Types'
  <2>1. LocalTypes'
    BY <1>0, <1>2 DEF Types, LocalTypes, Places, WslPlaces, MovePlaces
  <2> QED
    BY <1>0, <2>1, DiskTypesStay DEF Types, DiskTypes
<1>4. Known' = Known
  BY <1>0, <1>1, KnownStays
<1>5. RowsKnown(p)'
  BY <1>1, <1>4, FewerRows DEF disk, Removes, Listing0, PutPlaces
<1>6. CurKnown(p)'
  BY <1>0, <1>1, <1>2, <1>4, SameRow DEF CurKnown, disk, Removes
<1>7. Planned(p)'
  BY <1>0, <1>1 DEF Mine, Command, Planned, To, MovePlaces
<1>8. Putting(p)' /\ Command(p)'
  BY <1>0, <1>1 DEF Mine, Command, Putting, PutPlaces, WslPlaces, MovePlaces
<1> QED
  BY <1>1, <1>3, <1>5, <1>6, <1>7, <1>8, QuietKeeps DEF Mine

LEMMA RestorePlanKeeps ==
  ASSUME IInv, NEW p \in Procs, RestorePlan(p) PROVE IInv'
<1> USE DEF RestorePlan, Goto, counters, history, putting
<1>0. Types /\ Mine(p)
  BY DEF IInv
<1> DEFINE S == {r \in rows[p] : Goes(p, r)}
<1>1. /\ pc'[p] = "next" /\ rows'[p] = S /\ Local(p)
      /\ dest'[p] = [i \in {r.id : r \in S} |-> Target(p, CHOOSE r \in S : r.id = i)]
  BY <1>0 DEF Types, LocalTypes, Local, Only
<1>2. Types'
  <2>1. LocalTypes'
    BY <1>0 DEF Types, LocalTypes, Places
  <2> QED
    BY <1>0, <2>1, DiskTypesStay DEF Types, DiskTypes
<1>3. Known' = Known
  BY <1>0, <1>1, KnownStays
<1>4. RowsKnown(p)'
  BY <1>1, <1>3, FewerRows DEF disk, Removes, Listing0, PutPlaces
<1>5. Planned(p)'
  <2>1. ASSUME NEW r \in S PROVE dest'[p][r.id] \in Paths
    <3>1. \A s \in S : s.from \in Paths
      BY <1>0 DEF Mine, Command, RowsKnown, AsListed, Row
    <3>2. (CHOOSE s \in S : s.id = r.id) \in S
      OBVIOUS
    <3>3. \A s \in S : Target(p, s) \in Paths
      BY <3>1, PathAssumption DEF Target
    <3> QED
      BY <1>1, <3>2, <3>3
  <2> QED
    BY <1>1, <2>1 DEF Planned, MovePlaces
<1>6. Mine(p)'
  BY <1>0, <1>1, <1>4, <1>5 DEF Mine, Command, CurKnown, Putting, PutPlaces, WslPlaces, MovePlaces
<1> QED
  BY <1>1, <1>2, <1>6, QuietKeeps

(* The row in hand is given up, and the disk left as it is.                *)
LEMMA DropKeeps ==
  ASSUME IInv, NEW p \in Procs, NEW l, Drop(p, l),
         \/ op[p] = "wsl" /\ l = "wsl"
         \/ pc[p] \in MovePlaces /\ l = "next",
         UNCHANGED <<disk, counters, op, rows, plan, putting, fresh, seen, carry, history>>
  PROVE  IInv'
<1> USE DEF Drop, Goto, counters, history, plan, putting
<1>0. Types /\ Mine(p)
  BY DEF IInv
<1>1. /\ pc'[p] = l /\ Local(p)
      /\ op'[p] = op[p] /\ seen'[p] = seen[p] /\ dest'[p] = dest[p] /\ rows'[p] = rows[p]
  BY <1>0 DEF Types, LocalTypes, Local, Only
<1>2. Types'
  <2>1. LocalTypes'
    BY <1>0 DEF Types, LocalTypes, Places
  <2> QED
    BY <1>0, <2>1, DiskTypesStay DEF Types, DiskTypes
<1>3. pc[p] # "send" /\ l \in {"wsl", "next"} /\ pc[p] # "plan"
  BY <1>0 DEF Mine, Command, MovePlaces, PutPlaces
<1>4. Known' = Known
  BY <1>0, <1>1, <1>3, KnownStays
<1>5. RowsKnown(p)'
  BY <1>1, <1>3, <1>4, FewerRows DEF disk, Removes, Listing0, PutPlaces
<1>6. Mine(p)'
  BY <1>0, <1>1, <1>3, <1>5 DEF Mine, Command, CurKnown, Planned, Putting, PutPlaces, WslPlaces,
     MovePlaces
<1> QED
  BY <1>1, <1>2, <1>3, <1>6, QuietKeeps

LEMMA FixFinds ==
  ASSUME IInv, NEW i \in FixTargets
  PROVE  i \in Ids /\ i \in Known /\ (i \in Junk \/ payload[i] = None)
<1>1. i \in Ids /\ (record[i].what = "bad" \/ (HasRecord(i) /\ payload[i] = None))
  <2>1. PICK q \in Problems : q.kind \in {"dangling", "bad"} /\ q.id = i
    BY DEF FixTargets
  <2> QED
    BY <2>1, Values DEF Problems, Problem
<1>2. i \in Known
  BY <1>1, Values DEF IInv, Unused, Ids, Known, HasRecord
<1>3. i \in Junk \/ i \in 1..stamp
  BY <1>2 DEF Known
<1> QED
  BY <1>1, <1>2, <1>3 DEF IInv, RecordBeside, HasRecord

LEMMA CheckBinsKeeps ==
  ASSUME IInv, NEW p \in Procs, CheckBins(p) PROVE IInv'
<1> USE DEF CheckBins, Begin, Goto, history, putting, plan
<1>0. Types /\ Mine(p)
  BY DEF IInv
<1> DEFINE S == {[id |-> i] : i \in FixTargets}
<1>1. \A r \in S : r \in [id : Ids] /\ r.id \in Known /\ (r.id \in Junk \/ payload[r.id] = None)
  BY FixFinds
<1>2. op'[p] = "fix" /\ pc'[p] = "fix" /\ rows'[p] = S /\ seen'[p] = seen[p] /\ Local(p)
  BY <1>0 DEF Types, LocalTypes, Local, Only
<1>3. Types'
  <2>1. LocalTypes'
    BY <1>0, <1>1 DEF Types, LocalTypes, Places, Ops
  <2> QED
    BY <1>0, <2>1, DiskTypesStay DEF Types, DiskTypes
<1>4. Known' = Known
  BY <1>0, <1>2, KnownStays
<1>5. RowsKnown(p)'
  BY <1>0, <1>1, <1>2, <1>4 DEF Mine, RowsKnown, Listing0, PutPlaces, disk
<1>6. Mine(p)'
  BY <1>2, <1>5 DEF Mine, Command, CurKnown, Planned, Putting, PutPlaces, WslPlaces, MovePlaces
<1> QED
  BY <1>2, <1>3, <1>6, QuietKeeps

-----------------------------------------------------------------------------
(* put                                                                     *)
LEMMA PutLookKeeps ==
  ASSUME IInv, NEW p \in Procs, NEW x \in Paths, PutLook(p, x) PROVE IInv'
<1> USE DEF PutLook, Begin, Goto, history, work, plan
<1>0. Types /\ Mine(p)
  BY DEF IInv
<1>1. stamp \in Nat /\ stamp' = stamp + 1 /\ stamp' \in 1..MaxPuts
  BY <1>0, BoundAssumption DEF Types, DiskTypes
<1>2. /\ op'[p] = "put" /\ pc'[p] = "send" /\ mine'[p] = stamp' /\ src'[p] = x /\ Local(p)
      /\ rows' = rows /\ seen' = seen /\ rows[p] = {} /\ seen[p] = {}
  BY <1>0 DEF Types, LocalTypes, Local, Only, Mine, RowsKnown, Listing0
<1>3. Types'
  <2>1. LocalTypes'
    BY <1>0, <1>1 DEF Types, LocalTypes, Places, PutPlaces, Ops
  <2>2. DiskTypes'
    BY <1>0, <1>1 DEF Types, DiskTypes, HasRecord, disk
  <2> QED
    BY <2>1, <2>2 DEF Types
<1>4. \A q \in Procs : pc[q] = "send" => mine[q] \in 1..stamp
  BY DEF IInv, Mine, Putting
<1>5. Pending' = Pending \cup {stamp'}
  BY <1>2 DEF Pending, Local, Only
<1>6. Known' = Known
  <2>1. 1..stamp' = 1..stamp \cup {stamp'} /\ stamp' \notin 1..stamp
    BY <1>1
  <2> QED
    BY <1>5, <2>1 DEF Known
<1>7. Mine(p)'
  BY <1>1, <1>2 DEF Mine, Command, RowsKnown, CurKnown, Planned, Putting, PutPlaces, WslPlaces,
     MovePlaces, Listing0
<1>8. Leaves(p)
  BY <1>1, <1>6 DEF Leaves, LeavesBin, disk
<1>9. \A q \in Procs \ {p} : ~Meets(p, q)
  BY <1>1, <1>2, <1>4 DEF Meets
<1>10. Unused' /\ Sound'
  BY <1>6 DEF IInv, Unused, Sound, HasRecord, disk
<1>11. RecordBeside'
  <2>1. stamp' \notin Known
    BY <1>1, <1>5, <1>6, JunkAssumption DEF Known
  <2>2. payload[stamp'] = None
    BY <1>1, <2>1 DEF IInv, Unused
  <2> QED
    BY <1>1, <2>2 DEF IInv, RecordBeside, HasRecord, disk
<1>12. Dropping' \subseteq Dropping
  BY <1>0, <1>2, DroppingStays
<1>13. \A f \in 1..created' : Somewhere(f)'
  BY <1>12 DEF IInv, Somewhere, disk
<1> QED
  BY <1>2, <1>3, <1>7, <1>8, <1>9, <1>10, <1>11, <1>13, StepKeeps

LEMMA ShellTakesKeeps ==
  ASSUME IInv, NEW p \in Procs, ShellTakes(p) PROVE IInv'
<1> USE DEF ShellTakes, Goto, counters, history, work, plan, putting, locals
<1>0. Types /\ Mine(p)
  BY DEF IInv
<1> DEFINE i == mine[p]
<1>1. i \in 1..stamp /\ i \in 1..MaxPuts /\ i \in Ids /\ i \in Pending /\ i \notin Known
      /\ src[p] \in Paths
  BY <1>0, Stamped, JunkAssumption DEF Mine, Putting, Ids, Pending, Known
<1>2. stamp \in Nat /\ stamp' = stamp /\ now \in 0..MaxTick
  BY <1>0, BoundAssumption DEF Types, DiskTypes
<1>3. /\ payload' = [payload EXCEPT ![i] = file[src[p]]] /\ file[src[p]] \in Files
      /\ record' = [record EXCEPT ![i] = RecordOf(src[p], now)]
      /\ file' = [file EXCEPT ![src[p]] = None]
  OBVIOUS
<1>4. /\ payload'[i] = file[src[p]] /\ record'[i] = RecordOf(src[p], now)
      /\ \A j \in Ids \ {i} : payload'[j] = payload[j] /\ record'[j] = record[j]
      /\ file'[src[p]] = None /\ \A x \in Paths \ {src[p]} : file'[x] = file[x]
  BY <1>0, <1>1 DEF Types, DiskTypes
<1>5. HasRecord(i)' /\ \A j \in Ids \ {i} : HasRecord(j)' <=> HasRecord(j)
  BY <1>4, Values DEF HasRecord
<1>6. DiskTypes'
  <2>1. file' \in [Paths -> Files \cup {None, Part}] /\ payload' \in [Ids -> Files \cup {None, Debris}]
        /\ DOMAIN record' = Ids
    BY <1>0, <1>1, <1>3 DEF Types, DiskTypes
  <2>2. ASSUME NEW j \in Ids
        PROVE  record'[j] \in {NoRecord, Bad, Stray} \/
                 (HasRecord(j)' /\ record'[j].from \in Paths /\ record'[j].at \in 0..MaxTick)
    BY <1>0, <1>1, <1>2, <1>4, <1>5, Values DEF Types, DiskTypes
  <2> QED
    BY <1>0, <2>1, <2>2 DEF Types, DiskTypes
<1>7. Types' /\ Local(p) /\ pc'[p] = "note"
  BY <1>0, <1>6 DEF Types, LocalTypes, Places, PutPlaces, Local, Only
<1>8. Known' = Known \cup {i}
  <2>1. Pending' = Pending \ {i}
    <3>1. \A q \in Procs \ {p} : pc[q] = "send" => mine[q] # i
      BY <1>0, <1>1 DEF IInv, Apart
    <3> QED
      BY <1>0, <1>7, <3>1 DEF Pending, Local, Only
  <2> QED
    BY <1>1, <1>2, <2>1 DEF Known
<1>9. Known \subseteq Ids
  BY <1>0, Stamped
<1>10. ASSUME NEW q \in Procs \ {p}, pc[q] = "copy" PROVE file'[To(q)] = file[To(q)]
  <2>1. To(q) \in Paths /\ file[To(q)] = Part
    BY <1>10 DEF IInv, Mine, Planned, MovePlaces
  <2>2. To(q) # src[p]
    BY <1>3, <2>1, Values
  <2> QED
    BY <1>4, <2>1, <2>2
<1>11. Leaves(p)
  BY <1>1, <1>2, <1>4, <1>8, <1>9, <1>10 DEF Leaves, LeavesBin
<1>12. Mine(p)'
  <2>1. Command(p)' /\ RowsKnown(p)' /\ CurKnown(p)' /\ Planned(p)'
    BY <1>0, <1>7 DEF Mine, Command, RowsKnown, CurKnown, Planned, PutPlaces,
       WslPlaces, MovePlaces, Listing0
  <2>2. Putting(p)'
    BY <1>0, <1>1, <1>4, <1>7, <1>8, Values DEF Mine, RowsKnown, PutPlaces, Putting
  <2> QED
    BY <2>1, <2>2 DEF Mine
<1>13. \A q \in Procs \ {p} : ~Meets(p, q)
  BY <1>7 DEF Meets
<1>14. Unused' /\ Sound' /\ RecordBeside'
  <2>1. Unused'
    BY <1>4, <1>8 DEF IInv, Unused, Ids
  <2>2. Sound'
    BY <1>1, <1>3, <1>4, <1>5, JunkAssumption DEF IInv, Sound, Ids
  <2>3. RecordBeside'
    BY <1>0, <1>2, <1>4, <1>5, Stamped DEF IInv, RecordBeside
  <2> QED
    BY <2>1, <2>2, <2>3
<1>15. ASSUME NEW f \in 1..created PROVE Somewhere(f)'
  <2>1. Somewhere(f) /\ Dropping' \subseteq Dropping
    BY <1>0, <1>7, DroppingStays DEF IInv
  <2>2. i \notin Dropping
    <3>1. \A q \in Procs : pc[q] = "drop" => cur[q].id \in Known
      BY DEF IInv, Mine, CurKnown, AsListed, MovePlaces
    <3> QED
      BY <1>1, <3>1 DEF Dropping
  <2>3. CASE file[src[p]] = f
    BY <1>1, <1>4, <2>1, <2>2, <2>3 DEF Somewhere
  <2>4. CASE \E x \in Paths \ {src[p]} : file[x] = f
    BY <1>4, <2>4 DEF Somewhere
  <2>5. CASE \E j \in Ids \ Dropping : payload[j] = f
    <3>1. payload[i] = None
      BY <1>1 DEF IInv, Unused
    <3>2. f # None
      BY Values
    <3> QED
      BY <1>4, <2>1, <2>5, <3>1, <3>2 DEF Somewhere
  <2> QED
    BY <2>1, <2>3, <2>4, <2>5 DEF Somewhere
<1> QED
  BY <1>7, <1>11, <1>12, <1>13, <1>14, <1>15, StepKeeps
-----------------------------------------------------------------------------
(* Steps that take something out of the bin, or change a path.             *)
LEMMA RemovalTypes ==
  ASSUME Types, Removes, UNCHANGED <<now, stamp, created>>,
         DOMAIN payload' = Ids, DOMAIN record' = Ids, payload' = [i \in Ids |-> payload'[i]],
         file' \in [Paths -> Files \cup {None, Part}], gone' \subseteq Files,
         clobbered' \subseteq Files
  PROVE  DiskTypes'
<1>1. payload' \in [Ids -> Files \cup {None, Debris}]
  BY DEF Types, DiskTypes, Removes
<1>2. ASSUME NEW i \in Ids
      PROVE  record'[i] \in {NoRecord, Bad, Stray} \/
               (HasRecord(i)' /\ record'[i].from \in Paths /\ record'[i].at \in 0..MaxTick)
  BY DEF Types, DiskTypes, Removes, HasRecord
<1> QED
  BY <1>1, <1>2 DEF Types, DiskTypes

(* Where a record goes, no payload of a put is left.                       *)
RecordLast == \A i \in 1..MaxPuts : payload'[i] # None => record'[i] = record[i]
SparesCopies(p) == \A q \in Procs \ {p} : pc[q] = "copy" => file'[To(q)] = file[To(q)]

LEMMA RemovalKeeps ==
  ASSUME IInv, NEW p \in Procs, Local(p), Removes, UNCHANGED <<stamp, created>>,
         pc[p] # "send", pc'[p] # "send", RecordLast, SparesCopies(p),
         \A q \in Procs \ {p} : ~Meets(p, q), Types', Mine(p)',
         \A f \in 1..created : Somewhere(f) => Somewhere(f)'
  PROVE  IInv'
<1>0. Types
  BY DEF IInv
<1>1. Known' = Known /\ Known \subseteq Ids /\ stamp \in Nat /\ 1..stamp \subseteq 1..MaxPuts
  BY <1>0, KnownStays, Stamped
<1>2. Leaves(p)
  BY <1>1, Values DEF Leaves, LeavesBin, Removes, SparesCopies
<1>3. Unused'
  BY <1>1, Values DEF IInv, Unused, Removes, Ids
<1>4. Sound'
  BY Values DEF IInv, Sound, Removes, Ids, HasRecord
<1>5. RecordBeside'
  BY <1>1, Values DEF IInv, RecordBeside, Removes, RecordLast, Ids, HasRecord
<1>6. \A f \in 1..created' : Somewhere(f)'
  BY DEF IInv
<1> QED
  BY <1>2, <1>3, <1>4, <1>5, <1>6, StepKeeps

(* A row listed is of a put, and what it holds is a file.                  *)
LEMMA RowHolds ==
  ASSUME IInv, NEW r, AsListed(r)
  PROVE  r.id \in 1..MaxPuts /\ r.id \in Ids /\ payload[r.id] \in Files \cup {None}
BY DEF AsListed, Row, IInv, Sound, Ids

LEMMA ShellPurgesKeeps ==
  ASSUME IInv, NEW p \in Procs, NEW r \in rows[p], ShellPurges(p, r) PROVE IInv'
<1>0. Types /\ Mine(p)
  BY DEF IInv
<1>1. /\ pc[p] = "purge" /\ rows' = [rows EXCEPT ![p] = @ \ {r}]
      /\ UNCHANGED <<file, now, stamp, created, op, pc, cur, plan, putting, fresh, seen, carry, clobbered>>
      /\ \/ payload[r.id] = None /\ UNCHANGED <<payload, record, gone>>
         \/ /\ payload[r.id] # None /\ gone' = gone \cup {payload[r.id]}
            /\ payload' = [payload EXCEPT ![r.id] = None]
            /\ record' = [record EXCEPT ![r.id] = NoRecord]
  BY DEF ShellPurges, disk, counters
<1>2. op[p] # "fix" /\ AsListed(r) /\ op[p] # "restore" /\ op[p] # "wsl"
  BY <1>0, <1>1 DEF Mine, Command, RowsKnown
<1>3. r.id \in 1..MaxPuts /\ r.id \in Ids /\ payload[r.id] \in Files \cup {None}
  BY <1>2, RowHolds
<1>4. Local(p) /\ rows'[p] = rows[p] \ {r}
  BY <1>0, <1>1 DEF Types, LocalTypes, Local, Only, plan, putting
<1>5. /\ \A i \in Ids \ {r.id} : payload'[i] = payload[i] /\ record'[i] = record[i]
      /\ payload'[r.id] = None
      /\ payload[r.id] # None => record'[r.id] = NoRecord /\ payload[r.id] \in gone'
      /\ payload[r.id] = None => record'[r.id] = record[r.id]
      /\ gone \subseteq gone'
  BY <1>0, <1>1, <1>3 DEF Types, DiskTypes
<1>6. Removes /\ RecordLast
  BY <1>3, <1>5 DEF Removes, RecordLast, Ids
<1>7. Types'
  <2>1. DiskTypes'
    BY <1>0, <1>1, <1>3, <1>6, RemovalTypes DEF Types, DiskTypes
  <2>2. LocalTypes'
    BY <1>0, <1>1 DEF Types, LocalTypes, plan, putting
  <2> QED
    BY <2>1, <2>2 DEF Types
<1>8. Known' = Known
  BY <1>0, <1>1, <1>4, KnownStays
<1>9. RowsKnown(p)'
  BY <1>1, <1>4, <1>6, <1>8, FewerRows DEF Listing0, PutPlaces
<1>10. Mine(p)'
  BY <1>0, <1>1, <1>2, <1>4, <1>9 DEF Mine, Command, CurKnown, Planned, Putting, PutPlaces, WslPlaces,
     MovePlaces, plan, putting
<1>11. ASSUME NEW f \in 1..created, Somewhere(f) PROVE Somewhere(f)'
  BY <1>1, <1>3, <1>5, <1>11 DEF Somewhere, Dropping
<1>12. \A q \in Procs \ {p} : ~Meets(p, q)
  BY <1>1 DEF Meets
<1>13. SparesCopies(p)
  BY <1>1 DEF SparesCopies
<1> QED
  BY <1>1, <1>4, <1>6, <1>7, <1>10, <1>11, <1>12, <1>13, RemovalKeeps
LEMMA RemoveEntryKeeps ==
  ASSUME IInv, NEW p \in Procs, RemoveEntry(p) PROVE IInv'
<1> DEFINE i == cur[p].id
<1>0. Types /\ Mine(p)
  BY DEF IInv
<1>1. CASE Drop(p, "wsl") /\ UNCHANGED <<payload, gone>>
  <2>1. op[p] = "wsl"
    BY <1>0 DEF RemoveEntry, Mine, Command, WslPlaces
  <2> QED
    BY <1>1, <2>1, DropKeeps DEF RemoveEntry, disk, history
<1>2. CASE /\ payload[i] # None /\ gone' = gone \cup {payload[i]}
           /\ payload' = [payload EXCEPT ![i] = None]
           /\ Goto(p, "wsl_record") /\ UNCHANGED cur
  <2>1. /\ pc[p] = "wsl_payload" /\ pc' = [pc EXCEPT ![p] = "wsl_record"]
        /\ UNCHANGED <<file, record, now, stamp, created, op, rows, cur, plan, putting, fresh, seen,
                       carry, clobbered>>
    BY <1>2 DEF RemoveEntry, Goto, counters
  <2>2. AsListed(cur[p]) /\ cur[p].id \in seen[p] /\ op[p] = "wsl"
    BY <1>0, <2>1 DEF Mine, CurKnown, Command, WslPlaces
  <2>3. i \in 1..MaxPuts /\ i \in Ids /\ payload[i] \in Files \cup {None}
    BY <2>2, RowHolds
  <2>4. Local(p) /\ pc'[p] = "wsl_record"
    BY <1>0, <2>1 DEF Types, LocalTypes, Local, Only, plan, putting
  <2>5. /\ \A j \in Ids \ {i} : payload'[j] = payload[j]
        /\ payload'[i] = None /\ payload[i] \in gone' /\ gone \subseteq gone'
    BY <1>0, <1>2, <2>3 DEF Types, DiskTypes
  <2>6. Removes /\ RecordLast
    BY <2>1, <2>3, <2>5 DEF Removes, RecordLast, Ids
  <2>7. Types'
    <3>1. DiskTypes'
      BY <1>0, <1>2, <2>1, <2>3, <2>6, RemovalTypes DEF Types, DiskTypes
    <3>2. LocalTypes'
      BY <1>0, <2>1 DEF Types, LocalTypes, plan, putting, Places, WslPlaces
    <3> QED
      BY <3>1, <3>2 DEF Types
  <2>8. Known' = Known
    BY <1>0, <2>1, <2>4, KnownStays
  <2>9. RowsKnown(p)'
    BY <2>1, <2>4, <2>6, <2>8, FewerRows DEF Listing0, PutPlaces
  <2>10. CurKnown(p)'
    BY <1>0, <2>1, <2>2, <2>5, <2>6, <2>8, SameRow DEF CurKnown
  <2>11. Mine(p)'
    BY <1>0, <2>1, <2>2, <2>4, <2>9, <2>10 DEF Mine, Command, Planned, Putting, PutPlaces, WslPlaces,
       MovePlaces
  <2>12. ASSUME NEW f \in 1..created, Somewhere(f) PROVE Somewhere(f)'
    <3>1. Dropping' \subseteq Dropping
      BY <1>0, <2>1, <2>4, DroppingStays
    <3> QED
      BY <2>1, <2>3, <2>5, <2>12, <3>1 DEF Somewhere
  <2>13. (\A q \in Procs \ {p} : ~Meets(p, q)) /\ SparesCopies(p)
    BY <2>1, <2>4 DEF Meets, SparesCopies
  <2> QED
    BY <2>1, <2>4, <2>6, <2>7, <2>11, <2>12, <2>13, RemovalKeeps
<1> QED
  BY <1>1, <1>2 DEF RemoveEntry

(* The record of the row in hand goes, when its payload has gone, or stays. *)
LEMMA RecordGoesKeeps ==
  ASSUME IInv, NEW p \in Procs, NEW l, RecordGoes(cur[p].id),
         Drop(p, l), <<pc[p], l>> \in {<<"wsl_record", "wsl">>, <<"unlink", "next">>},
         carry' \in [Procs -> Files \cup {None}],
         UNCHANGED <<file, payload, counters, op, rows, plan, putting, fresh, seen, history>>
  PROVE  IInv'
<1> DEFINE i == cur[p].id
<1>0. Types /\ Mine(p)
  BY DEF IInv
<1>1. /\ pc' = [pc EXCEPT ![p] = l] /\ cur' = [cur EXCEPT ![p] = NoRow]
      /\ UNCHANGED <<file, payload, now, stamp, created, op, rows, plan, putting, fresh, seen,
                     gone, clobbered>>
  BY DEF Drop, Goto, counters, history
<1>2. /\ AsListed(cur[p]) /\ payload[i] = None /\ l \in {"wsl", "next"}
      /\ l = "wsl" <=> op[p] = "wsl"
      /\ l = "next" <=> op[p] = "restore"
  BY <1>0 DEF Mine, CurKnown, Command, WslPlaces, MovePlaces
<1>3. i \in 1..MaxPuts /\ i \in Ids
  BY <1>2, RowHolds
<1>4. Local(p) /\ pc'[p] = l
  BY <1>0, <1>1 DEF Types, LocalTypes, Local, Only, plan, putting
<1>5. /\ \A j \in Ids \ {i} : record'[j] = record[j]
      /\ record'[i] \in {NoRecord, record[i]} /\ DOMAIN record' = Ids
  BY <1>0, <1>3 DEF RecordGoes, Types, DiskTypes
<1>6. Removes /\ RecordLast
  BY <1>1, <1>2, <1>3, <1>5 DEF Removes, RecordLast, Ids
<1>7. Types'
  <2>1. DiskTypes'
    BY <1>0, <1>1, <1>3, <1>5, <1>6, RemovalTypes DEF Types, DiskTypes
  <2>2. LocalTypes'
    BY <1>0, <1>1, <1>2 DEF Types, LocalTypes, plan, putting, Places
  <2> QED
    BY <2>1, <2>2 DEF Types
<1>8. Known' = Known
  BY <1>0, <1>1, <1>2, <1>4, KnownStays
<1>9. RowsKnown(p)'
  BY <1>1, <1>2, <1>4, <1>6, <1>8, FewerRows DEF Listing0, PutPlaces
<1>10. Mine(p)'
  BY <1>0, <1>1, <1>2, <1>4, <1>9 DEF Mine, Command, CurKnown, Planned, Putting, PutPlaces, WslPlaces,
     MovePlaces, plan, putting
<1>11. ASSUME NEW f \in 1..created, Somewhere(f) PROVE Somewhere(f)'
  <2>1. Dropping' \subseteq Dropping
    BY <1>0, <1>2, <1>4, DroppingStays
  <2> QED
    BY <1>1, <1>11, <2>1 DEF Somewhere
<1>12. (\A q \in Procs \ {p} : ~Meets(p, q)) /\ SparesCopies(p)
  BY <1>1, <1>2, <1>4 DEF Meets, SparesCopies
<1> QED
  BY <1>1, <1>2, <1>4, <1>6, <1>7, <1>10, <1>11, <1>12, RemovalKeeps

LEMMA RemoveEntryRecordKeeps ==
  ASSUME IInv, NEW p \in Procs, RemoveEntryRecord(p) PROVE IInv'
<1>0. Types
  BY DEF IInv
<1>1. /\ pc[p] = "wsl_record" /\ Drop(p, "wsl")
      /\ RecordGoes(cur[p].id)
      /\ UNCHANGED <<file, payload, counters, op, rows, plan, putting, fresh, seen, history>>
      /\ carry' = carry
  BY DEF RemoveEntryRecord
<1>2. carry' \in [Procs -> Files \cup {None}]
  BY <1>0, <1>1 DEF Types, LocalTypes
<1> QED
  BY <1>1, <1>2, RecordGoesKeeps

LEMMA RestoreUnlinkKeeps ==
  ASSUME IInv, NEW p \in Procs, RestoreUnlink(p) PROVE IInv'
<1>0. Types
  BY DEF IInv
<1>1. /\ pc[p] = "unlink" /\ Drop(p, "next")
      /\ RecordGoes(cur[p].id)
      /\ UNCHANGED <<file, payload, counters, op, rows, plan, putting, fresh, seen, history>>
      /\ carry' \in [Procs -> Files \cup {None}]
  BY <1>0 DEF RestoreUnlink, Types, LocalTypes
<1> QED
  BY <1>1, RecordGoesKeeps

LEMMA FixRemoveKeeps ==
  ASSUME IInv, NEW p \in Procs, NEW r \in rows[p], FixRemove(p, r) PROVE IInv'
<1>0. Types /\ Mine(p)
  BY DEF IInv
<1>1. /\ pc[p] = "fix" /\ rows' = [rows EXCEPT ![p] = @ \ {r}]
      /\ RecordGoes(r.id)
      /\ UNCHANGED <<file, payload, now, stamp, created, op, pc, cur, plan, putting, fresh, seen, carry,
                     gone, clobbered>>
  BY DEF FixRemove, counters, history
<1>2. op[p] = "fix" /\ r.id \in Ids /\ (r.id \in Junk \/ payload[r.id] = None)
  BY <1>0, <1>1 DEF Mine, Command, RowsKnown
<1>3. Local(p) /\ rows'[p] = rows[p] \ {r}
  BY <1>0, <1>1 DEF Types, LocalTypes, Local, Only, plan, putting
<1>4. /\ record'[r.id] \in {NoRecord, record[r.id]} /\ DOMAIN record' = Ids
      /\ \A j \in Ids \ {r.id} : record'[j] = record[j]
  BY <1>0, <1>1, <1>2 DEF RecordGoes, Types, DiskTypes
<1>5. Removes
  BY <1>1, <1>4 DEF Removes
<1>6. RecordLast
  BY <1>1, <1>2, <1>4, JunkAssumption DEF RecordLast, Ids
<1>7. Types'
  <2>1. DiskTypes'
    BY <1>0, <1>1, <1>4, <1>5, RemovalTypes DEF Types, DiskTypes
  <2>2. LocalTypes'
    BY <1>0, <1>1 DEF Types, LocalTypes, plan, putting
  <2> QED
    BY <2>1, <2>2 DEF Types
<1>8. Known' = Known
  BY <1>0, <1>1, <1>3, KnownStays
<1>9. RowsKnown(p)'
  BY <1>1, <1>3, <1>5, <1>8, FewerRows DEF Listing0, PutPlaces
<1>10. Mine(p)'
  BY <1>0, <1>1, <1>2, <1>3, <1>9 DEF Mine, Command, CurKnown, Planned, Putting, PutPlaces, WslPlaces,
     MovePlaces, plan, putting
<1>11. ASSUME NEW f \in 1..created, Somewhere(f) PROVE Somewhere(f)'
  BY <1>1, <1>11 DEF Somewhere, Dropping
<1>12. (\A q \in Procs \ {p} : ~Meets(p, q)) /\ SparesCopies(p)
  BY <1>1 DEF Meets, SparesCopies
<1> QED
  BY <1>1, <1>3, <1>5, <1>6, <1>7, <1>10, <1>11, <1>12, RemovalKeeps
-----------------------------------------------------------------------------
(* restore                                                                 *)
LEMMA MoveMine ==
  ASSUME IInv, NEW p \in Procs, pc[p] \in MovePlaces, Known' = Known, Removes,
         op'[p] = op[p], seen'[p] = seen[p], rows'[p] = rows[p], dest'[p] = dest[p],
         \/ pc'[p] = "next"
         \/ /\ pc'[p] \in MovePlaces /\ cur'[p] = cur[p]
            /\ pc'[p] = "copy" => file'[To(p)] = Part
            /\ pc'[p] = "unlink" => payload'[cur[p].id] = None
  PROVE  Mine(p)'
<1>0. Types /\ Mine(p)
  BY DEF IInv
<1>1. op[p] = "restore" /\ pc'[p] \in {"next"} \cup MovePlaces
  BY <1>0 DEF Mine, Command
<1>2. Command(p)' /\ Putting(p)'
  BY <1>1 DEF Command, Putting, PutPlaces, WslPlaces, MovePlaces
<1>3. RowsKnown(p)'
  BY <1>1, FewerRows DEF Listing0, PutPlaces, MovePlaces
<1>4. CurKnown(p)'
  <2>1. CASE pc'[p] = "next"
    BY <2>1 DEF CurKnown, WslPlaces, MovePlaces
  <2>2. CASE pc'[p] \in MovePlaces
    <3>1. cur'[p] = cur[p] /\ AsListed(cur[p]) /\ cur[p].id \in seen[p]
      BY <1>0, <2>2 DEF Mine, CurKnown, MovePlaces
    <3>2. AsListed(cur[p])'
      BY <1>0, <3>1, SameRow
    <3> QED
      BY <2>2, <3>1, <3>2 DEF CurKnown, MovePlaces
  <2> QED
    BY <1>1, <2>1, <2>2
<1>5. Planned(p)'
  <2>1. (\A r \in rows[p] : dest[p][r.id] \in Paths) /\ To(p) \in Paths
    BY <1>0, <1>1 DEF Mine, Planned, MovePlaces
  <2>2. CASE pc'[p] = "next"
    BY <2>1, <2>2 DEF Planned, MovePlaces
  <2>3. CASE pc'[p] \in MovePlaces
    <3>1. To(p)' = To(p)
      BY <2>3 DEF To, MovePlaces
    <3> QED
      BY <2>1, <2>3, <3>1 DEF Planned, MovePlaces
  <2> QED
    BY <1>1, <2>2, <2>3
<1> QED
  BY <1>2, <1>3, <1>4, <1>5 DEF Mine

(* What a step of a restore knows before it.                               *)
LEMMA Moving ==
  ASSUME IInv, NEW p \in Procs, pc[p] \in MovePlaces
  PROVE  /\ AsListed(cur[p]) /\ cur[p].id \in 1..MaxPuts /\ cur[p].id \in Ids
         /\ payload[cur[p].id] \in Files \cup {None} /\ To(p) \in Paths
         /\ op[p] = "restore" /\ pc[p] # "send"
BY RowHolds DEF IInv, Mine, CurKnown, Command, Planned, MovePlaces

(* A path no copy is at is not where one writes.                           *)
LEMMA NotBusy ==
  ASSUME NEW x, ~Busy(x), NEW p, file' \in [Paths -> Files \cup {None, Part}],
         \A y \in Paths \ {x} : file'[y] = file[y], IInv
  PROVE  SparesCopies(p) /\ \A q \in Procs : pc[q] = "copy" => To(q) # x
<1>1. \A q \in Procs : pc[q] = "copy" => To(q) # x /\ To(q) \in Paths
  BY DEF Busy, To, IInv, Mine, Planned, MovePlaces
<1> QED
  BY <1>1 DEF SparesCopies

LEMMA RestoreClearKeeps ==
  ASSUME IInv, NEW p \in Procs, RestoreClear(p) PROVE IInv'
<1> DEFINE x == To(p)
<1>0. Types /\ pc[p] = "clear" /\ pc[p] \in MovePlaces
  BY DEF IInv, RestoreClear, MovePlaces
<1>1. x \in Paths /\ op[p] = "restore"
  BY <1>0, Moving
<1>2. UNCHANGED <<payload, record, now, stamp, created, op, rows, plan, putting, fresh, seen, carry,
                  clobbered>>
  BY DEF RestoreClear, counters
<1>3. CASE Drop(p, "next") /\ UNCHANGED <<file, gone>>
  BY <1>0, <1>3, DropKeeps DEF RestoreClear, disk, history
<1>4. CASE /\ Goto(p, "move") /\ UNCHANGED cur
           /\ \/ UNCHANGED <<file, gone>>
              \/ /\ ~Busy(x) /\ There(x) /\ file' = [file EXCEPT ![x] = None]
                 /\ gone' = gone \cup ({file[x]} \ {Part})
  <2>1. pc' = [pc EXCEPT ![p] = "move"] /\ cur' = cur
    BY <1>4 DEF Goto
  <2>2. Local(p) /\ pc'[p] = "move" /\ dest'[p] = dest[p] /\ seen'[p] = seen[p]
    BY <1>0, <1>2, <2>1 DEF Types, LocalTypes, Local, Only, plan, putting
  <2>3. /\ file' \in [Paths -> Files \cup {None, Part}] /\ gone' \subseteq Files
        /\ \A y \in Paths \ {x} : file'[y] = file[y]
        /\ gone \subseteq gone'
        /\ \A f \in Files : file[x] = f => file'[x] = f \/ f \in gone'
    BY <1>0, <1>1, <1>4, Values DEF Types, DiskTypes, There
  <2>4. Removes /\ RecordLast
    BY <1>2 DEF Removes, RecordLast
  <2>5. Types'
    <3>1. DiskTypes'
      BY <1>0, <1>2, <2>3, <2>4, RemovalTypes DEF Types, DiskTypes
    <3>2. LocalTypes'
      BY <1>0, <1>2, <2>1 DEF Types, LocalTypes, plan, putting, Places, MovePlaces
    <3> QED
      BY <3>1, <3>2 DEF Types
  <2>6. Known' = Known
    BY <1>0, <1>2, <2>2, KnownStays
  <2>7. Mine(p)'
    BY <1>0, <1>2, <2>1, <2>2, <2>4, <2>6, MoveMine DEF MovePlaces
  <2>8. SparesCopies(p)
    <3>1. CASE UNCHANGED file
      BY <3>1 DEF SparesCopies
    <3>2. CASE ~Busy(x)
      BY <2>3, <3>2, NotBusy
    <3> QED
      BY <1>4, <3>1, <3>2
  <2>9. ASSUME NEW f \in 1..created, Somewhere(f) PROVE Somewhere(f)'
    <3>1. Dropping' \subseteq Dropping /\ f \in Files
      BY <1>0, <2>2, DroppingStays, BoundAssumption DEF Types, DiskTypes, Files
    <3> QED
      BY <1>2, <2>3, <2>9, <3>1 DEF Somewhere
  <2>10. \A q \in Procs \ {p} : ~Meets(p, q)
    BY <2>2 DEF Meets
  <2> QED
    BY <1>0, <1>2, <2>2, <2>4, <2>5, <2>7, <2>8, <2>9, <2>10, RemovalKeeps
<1> QED
  BY <1>3, <1>4 DEF RestoreClear, To

LEMMA RestoreFailsKeeps ==
  ASSUME IInv, NEW p \in Procs, RestoreFails(p) PROVE IInv'
BY DropKeeps DEF RestoreFails, MovePlaces

LEMMA RestoreMoveKeeps ==
  ASSUME IInv, NEW p \in Procs, RestoreMove(p) PROVE IInv'
<1> DEFINE x == To(p)
           i == cur[p].id
<1>0. Types /\ pc[p] = "move" /\ pc[p] \in MovePlaces
  BY DEF IInv, RestoreMove, MovePlaces
<1>1. x \in Paths /\ i \in 1..MaxPuts /\ i \in Ids /\ payload[i] \in Files \cup {None} /\ op[p] = "restore"
  BY <1>0, Moving
<1>2. /\ UNCHANGED <<record, now, stamp, created, op, rows, cur, plan, putting, fresh, seen, gone>>
      /\ payload[i] # None /\ ~Busy(x)
      /\ file' = [file EXCEPT ![x] = payload[i]]
      /\ clobbered' = clobbered \cup Replaced(x)
      /\ payload' = [payload EXCEPT ![i] = None]
      /\ carry' = [carry EXCEPT ![p] = payload[i]]
      /\ pc' = [pc EXCEPT ![p] = "unlink"]
  BY DEF RestoreMove, counters, Goto, To, work
<1>3. Local(p) /\ pc'[p] = "unlink" /\ dest'[p] = dest[p] /\ seen'[p] = seen[p] /\ cur'[p] = cur[p]
  BY <1>0, <1>2 DEF Types, LocalTypes, Local, Only, plan, putting
<1>4. /\ file' \in [Paths -> Files \cup {None, Part}] /\ clobbered' \subseteq Files
      /\ file'[x] = payload[i] /\ \A y \in Paths \ {x} : file'[y] = file[y]
      /\ clobbered \subseteq clobbered'
      /\ \A f \in Files : file[x] = f => f \in clobbered'
  <2>1. file \in [Paths -> Files \cup {None, Part}] /\ clobbered \subseteq Files
    BY <1>0 DEF Types, DiskTypes
  <2>2. payload[i] \in Files \cup {None, Part}
    BY <1>1
  <2>3. file' \in [Paths -> Files \cup {None, Part}] /\ file'[x] = payload[i]
        /\ \A y \in Paths \ {x} : file'[y] = file[y]
    BY <1>1, <1>2, <2>1, <2>2
  <2>4. Replaced(x) \subseteq Files /\ \A f \in Files : file[x] = f => f \in Replaced(x)
    <3>1. file[x] \in Files \cup {None, Part}
      BY <1>1, <2>1
    <3> QED
      BY <3>1, Values DEF Replaced
  <2> QED
    BY <1>2, <2>1, <2>3, <2>4
<1>5. payload'[i] = None /\ \A j \in Ids \ {i} : payload'[j] = payload[j]
  BY <1>0, <1>1, <1>2 DEF Types, DiskTypes
<1>6. Removes /\ RecordLast
  BY <1>1, <1>2, <1>5 DEF Removes, RecordLast
<1>7. Types'
  <2>1. DiskTypes'
    BY <1>0, <1>1, <1>2, <1>4, <1>6, RemovalTypes DEF Types, DiskTypes
  <2>2. carry' \in [Procs -> Files \cup {None}] /\ pc' \in [Procs -> Places]
    BY <1>0, <1>1, <1>2 DEF Types, LocalTypes, Places, MovePlaces
  <2>3. LocalTypes'
    BY <1>0, <1>2, <2>2 DEF Types, LocalTypes, plan, putting
  <2> QED
    BY <2>1, <2>3 DEF Types
<1>8. Known' = Known
  BY <1>0, <1>2, <1>3, KnownStays
<1>9. Mine(p)'
  BY <1>0, <1>2, <1>3, <1>5, <1>6, <1>8, MoveMine DEF MovePlaces
<1>10. SparesCopies(p)
  BY <1>2, <1>4, NotBusy
<1>11. ASSUME NEW f \in 1..created, Somewhere(f) PROVE Somewhere(f)'
  <2>1. Dropping' \subseteq Dropping /\ f \in Files
    BY <1>0, <1>3, DroppingStays, BoundAssumption DEF Types, DiskTypes, Files
  <2> QED
    BY <1>1, <1>2, <1>4, <1>5, <1>11, <2>1 DEF Somewhere
<1>12. \A q \in Procs \ {p} : ~Meets(p, q)
  <2>1. \A q \in Procs : pc[q] = "unlink" => payload[cur[q].id] = None
    BY DEF IInv, Mine, CurKnown
  <2> QED
    BY <1>2, <1>3, <2>1 DEF Meets
<1> QED
  BY <1>0, <1>2, <1>3, <1>6, <1>7, <1>9, <1>10, <1>11, <1>12, RemovalKeeps

(* The look at a copy's destination changes nothing but what it has seen.  *)
LEMMA CopyLookKeeps ==
  ASSUME IInv, NEW p \in Procs, CopyLook(p) PROVE IInv'
<1>0. Types /\ pc[p] = "move" /\ pc[p] \in MovePlaces
  BY DEF IInv, CopyLook, MovePlaces
<1>1. /\ UNCHANGED <<disk, now, stamp, created, op, rows, cur, plan, putting, seen, carry, history>>
      /\ pc' = [pc EXCEPT ![p] = "open"]
      /\ fresh' = [fresh EXCEPT ![p] = fresh'[p]] /\ fresh'[p] \in BOOLEAN
  BY <1>0 DEF CopyLook, counters, Goto, work, There, Types, LocalTypes
<1>2. Local(p) /\ pc'[p] = "open" /\ dest'[p] = dest[p] /\ seen'[p] = seen[p]
      /\ cur'[p] = cur[p] /\ rows'[p] = rows[p] /\ op'[p] = op[p]
  BY <1>0, <1>1 DEF Types, LocalTypes, Local, Only, plan, putting
<1>3. Types'
  <2>1. DiskTypes'
    BY <1>0, <1>1, DiskTypesStay DEF Types, DiskTypes, disk, history
  <2>2. pc' \in [Procs -> Places] /\ fresh' \in [Procs -> BOOLEAN]
    BY <1>0, <1>1 DEF Types, LocalTypes, Places, MovePlaces
  <2>3. LocalTypes'
    BY <1>0, <1>1, <2>2 DEF Types, LocalTypes, plan, putting
  <2> QED
    BY <2>1, <2>3 DEF Types
<1>4. Known' = Known
  BY <1>0, <1>1, <1>2, KnownStays
<1>5. Removes
  BY <1>1 DEF Removes, disk
<1>6. Mine(p)'
  BY <1>0, <1>2, <1>4, <1>5, MoveMine DEF MovePlaces
<1> QED
  BY <1>1, <1>2, <1>3, <1>6, QuietKeeps DEF history

LEMMA CopyStartKeeps ==
  ASSUME IInv, NEW p \in Procs, CopyStart(p) PROVE IInv'
<1> DEFINE x == To(p)
<1>0. Types /\ pc[p] = "open" /\ pc[p] \in MovePlaces
  BY DEF IInv, CopyStart, MovePlaces
<1>1. x \in Paths /\ op[p] = "restore"
  BY <1>0, Moving
<1>2. /\ UNCHANGED <<payload, record, now, stamp, created, op, rows, cur, plan, putting, fresh, seen, carry,
                     gone>>
      /\ ~Busy(x)
      /\ file' = [file EXCEPT ![x] = Part]
      /\ clobbered' = clobbered \cup Replaced(x)
      /\ pc' = [pc EXCEPT ![p] = "copy"]
  BY DEF CopyStart, counters, Goto, To, locals, work
<1>3. Local(p) /\ pc'[p] = "copy" /\ dest'[p] = dest[p] /\ seen'[p] = seen[p] /\ cur'[p] = cur[p]
  BY <1>0, <1>2 DEF Types, LocalTypes, Local, Only, plan, putting
<1>4. /\ file' \in [Paths -> Files \cup {None, Part}] /\ clobbered' \subseteq Files
      /\ file'[x] = Part /\ \A y \in Paths \ {x} : file'[y] = file[y]
      /\ clobbered \subseteq clobbered'
      /\ \A f \in Files : file[x] = f => f \in clobbered'
  <2>1. file \in [Paths -> Files \cup {None, Part}] /\ clobbered \subseteq Files
    BY <1>0 DEF Types, DiskTypes
  <2>2. Part \in Files \cup {None, Part}
    OBVIOUS
  <2>3. file' \in [Paths -> Files \cup {None, Part}] /\ file'[x] = Part
        /\ \A y \in Paths \ {x} : file'[y] = file[y]
    BY <1>1, <1>2, <2>1, <2>2
  <2>4. Replaced(x) \subseteq Files /\ \A f \in Files : file[x] = f => f \in Replaced(x)
    <3>1. file[x] \in Files \cup {None, Part}
      BY <1>1, <2>1
    <3> QED
      BY <3>1, Values DEF Replaced
  <2> QED
    BY <1>2, <2>1, <2>3, <2>4
<1>5. Removes /\ RecordLast
  BY <1>2 DEF Removes, RecordLast
<1>6. Types'
  <2>1. DiskTypes'
    BY <1>0, <1>2, <1>4, <1>5, RemovalTypes DEF Types, DiskTypes
  <2>2. pc' \in [Procs -> Places]
    BY <1>0, <1>2 DEF Types, LocalTypes, Places, MovePlaces
  <2>3. LocalTypes'
    BY <1>0, <1>2, <2>2 DEF Types, LocalTypes, plan, putting
  <2> QED
    BY <2>1, <2>3 DEF Types
<1>7. Known' = Known
  BY <1>0, <1>2, <1>3, KnownStays
<1>8. Mine(p)'
  BY <1>0, <1>2, <1>3, <1>4, <1>5, <1>7, MoveMine DEF MovePlaces
<1>9. SparesCopies(p) /\ \A q \in Procs : pc[q] = "copy" => To(q) # x
  BY <1>2, <1>4, NotBusy
<1>10. ASSUME NEW f \in 1..created, Somewhere(f) PROVE Somewhere(f)'
  <2>1. Dropping' \subseteq Dropping /\ f \in Files
    BY <1>0, <1>3, DroppingStays, BoundAssumption DEF Types, DiskTypes, Files
  <2> QED
    BY <1>2, <1>4, <1>10, <2>1 DEF Somewhere
<1>11. \A q \in Procs \ {p} : ~Meets(p, q)
  <2>1. dest'[p][cur'[p].id] = x
    BY <1>3 DEF To
  <2> QED
    BY <1>3, <1>9, <2>1 DEF Meets
<1> QED
  BY <1>0, <1>2, <1>3, <1>5, <1>6, <1>8, <1>9, <1>10, <1>11, RemovalKeeps

(* A copy at its end, done or failed: nothing else is at its destination.  *)
LEMMA Copied ==
  ASSUME IInv, NEW p \in Procs, pc[p] = "copy",
         file' \in [Paths -> Files \cup {None, Part}],
         \A y \in Paths \ {To(p)} : file'[y] = file[y]
  PROVE  /\ SparesCopies(p)
         /\ \A f \in 1..created : \A y \in Paths : file[y] = f => file'[y] = f
<1>1. \A q \in Procs : pc[q] = "copy" => To(q) \in Paths /\ file[To(q)] = Part
  BY DEF IInv, Mine, Planned, MovePlaces
<1>2. \A q \in Procs \ {p} : pc[q] = "copy" => To(q) # To(p)
  BY DEF IInv, Apart
<1>3. \A f \in 1..created : f # Part
  BY BoundAssumption DEF IInv, Types, DiskTypes, Part
<1> QED
  BY <1>1, <1>2, <1>3 DEF SparesCopies

LEMMA CopyDoneKeeps ==
  ASSUME IInv, NEW p \in Procs, CopyDone(p) PROVE IInv'
<1> DEFINE x == To(p)
           i == cur[p].id
<1>0. Types /\ pc[p] = "copy" /\ pc[p] \in MovePlaces
  BY DEF IInv, CopyDone, MovePlaces
<1>1. x \in Paths /\ i \in Ids /\ payload[i] \in Files \cup {None} /\ op[p] = "restore"
  BY <1>0, Moving
<1>2. /\ UNCHANGED <<payload, record, now, stamp, created, op, rows, cur, plan, putting, fresh, seen, carry,
                     gone, clobbered>>
      /\ payload[i] # None
      /\ file' = [file EXCEPT ![x] = payload[i]]
      /\ pc' = [pc EXCEPT ![p] = "drop"]
  BY DEF CopyDone, counters, Goto, To, locals, history, work
<1>3. Local(p) /\ pc'[p] = "drop" /\ dest'[p] = dest[p] /\ seen'[p] = seen[p] /\ cur'[p] = cur[p]
  BY <1>0, <1>2 DEF Types, LocalTypes, Local, Only, plan, putting
<1>4. /\ file' \in [Paths -> Files \cup {None, Part}]
      /\ file'[x] = payload[i] /\ \A y \in Paths \ {x} : file'[y] = file[y]
  BY <1>0, <1>1, <1>2 DEF Types, DiskTypes
<1>5. Removes /\ RecordLast
  BY <1>2 DEF Removes, RecordLast
<1>6. Types'
  <2>1. DiskTypes'
    BY <1>0, <1>2, <1>4, <1>5, RemovalTypes DEF Types, DiskTypes
  <2>2. LocalTypes'
    BY <1>0, <1>2 DEF Types, LocalTypes, plan, putting, Places, MovePlaces
  <2> QED
    BY <2>1, <2>2 DEF Types
<1>7. Known' = Known
  BY <1>0, <1>2, <1>3, KnownStays
<1>8. Mine(p)'
  BY <1>0, <1>2, <1>3, <1>5, <1>7, MoveMine DEF MovePlaces
<1>9. SparesCopies(p) /\ \A f \in 1..created : \A y \in Paths : file[y] = f => file'[y] = f
  BY <1>0, <1>4, Copied
<1>10. ASSUME NEW f \in 1..created, Somewhere(f) PROVE Somewhere(f)'
  <2>1. Dropping' \subseteq Dropping \cup {i}
    BY <1>3 DEF Dropping, Local, Only
  <2>2. CASE \E j \in Ids \ Dropping : payload[j] = f
    <3>1. PICK j \in Ids \ Dropping : payload[j] = f
      BY <2>2
    <3>2. CASE j = i
      BY <1>1, <1>4, <3>1, <3>2 DEF Somewhere
    <3>3. CASE j # i
      BY <1>2, <2>1, <3>1, <3>3 DEF Somewhere
    <3> QED
      BY <3>2, <3>3
  <2> QED
    BY <1>2, <1>9, <1>10, <2>2 DEF Somewhere
<1>11. \A q \in Procs \ {p} : ~Meets(p, q)
  BY <1>3 DEF Meets
<1> QED
  BY <1>0, <1>2, <1>3, <1>5, <1>6, <1>8, <1>9, <1>10, <1>11, RemovalKeeps

(* A copy that fails changes at most its destination, where no other copy  *)
(* is, and what it removes there is counted.                               *)
LEMMA TakenBack ==
  ASSUME IInv, NEW p \in Procs, pc[p] \in {"open", "copy"}, TakesBack(p)
  PROVE  /\ file' \in [Paths -> Files \cup {None, Part}] /\ clobbered' \subseteq Files
         /\ SparesCopies(p) /\ clobbered \subseteq clobbered'
         /\ \A f \in 1..created : \A y \in Paths :
              file[y] = f => file'[y] = f \/ f \in clobbered'
<1> DEFINE x == To(p)
<1>0. Types /\ x \in Paths /\ pc[p] \in MovePlaces
  BY Moving DEF IInv, MovePlaces
<1>1. file \in [Paths -> Files \cup {None, Part}] /\ clobbered \subseteq Files
  BY <1>0 DEF Types, DiskTypes
<1>2. \A f \in 1..created : f \in Files
  BY <1>0, BoundAssumption DEF Types, DiskTypes, Files
<1>3. CASE UNCHANGED <<file, clobbered>>
  BY <1>1, <1>3 DEF SparesCopies
<1>4. CASE /\ pc[p] = "copy" \/ ~Busy(x)
           /\ file' = [file EXCEPT ![x] = None]
           /\ clobbered' = clobbered \cup Replaced(x)
  <2>1. /\ file' \in [Paths -> Files \cup {None, Part}]
        /\ \A y \in Paths \ {x} : file'[y] = file[y]
    BY <1>0, <1>1, <1>4
  <2>2. SparesCopies(p)
    BY <1>4, <2>1, NotBusy, Copied
  <2>3. file[x] \in Files \cup {None, Part}
    BY <1>0, <1>1
  <2>4. Replaced(x) \subseteq Files /\ \A f \in Files : file[x] = f => f \in Replaced(x)
    BY <2>3, Values DEF Replaced
  <2> QED
    BY <1>1, <1>2, <1>4, <2>1, <2>2, <2>4
<1> QED
  BY <1>3, <1>4 DEF TakesBack, To

LEMMA CopyFailsKeeps ==
  ASSUME IInv, NEW p \in Procs, CopyFails(p) PROVE IInv'
<1>0. Types /\ pc[p] \in {"open", "copy"} /\ pc[p] \in MovePlaces /\ TakesBack(p)
  BY DEF IInv, CopyFails, CopyStops, MovePlaces
<1>1. op[p] = "restore" /\ pc[p] # "send"
  BY <1>0, Moving
<1>2. /\ UNCHANGED <<payload, record, now, stamp, created, op, rows, plan, putting, fresh, seen, carry,
                     gone>>
      /\ pc' = [pc EXCEPT ![p] = "next"] /\ cur' = [cur EXCEPT ![p] = NoRow]
  BY DEF CopyFails, counters, Goto, Drop
<1>3. Local(p) /\ pc'[p] = "next" /\ dest'[p] = dest[p] /\ seen'[p] = seen[p]
  BY <1>0, <1>2 DEF Types, LocalTypes, Local, Only, plan, putting
<1>4. /\ file' \in [Paths -> Files \cup {None, Part}] /\ clobbered' \subseteq Files
      /\ SparesCopies(p) /\ clobbered \subseteq clobbered'
      /\ \A f \in 1..created : \A y \in Paths :
           file[y] = f => file'[y] = f \/ f \in clobbered'
  BY <1>0, TakenBack
<1>5. Removes /\ RecordLast
  BY <1>2 DEF Removes, RecordLast
<1>6. Types'
  <2>1. DiskTypes'
    BY <1>0, <1>2, <1>4, <1>5, RemovalTypes DEF Types, DiskTypes
  <2>2. LocalTypes'
    BY <1>0, <1>2 DEF Types, LocalTypes, plan, putting, Places
  <2> QED
    BY <2>1, <2>2 DEF Types
<1>7. Known' = Known
  BY <1>0, <1>2, <1>3, KnownStays
<1>8. Mine(p)'
  BY <1>0, <1>2, <1>3, <1>5, <1>7, MoveMine
<1>9. ASSUME NEW f \in 1..created, Somewhere(f) PROVE Somewhere(f)'
  <2>1. Dropping' \subseteq Dropping
    BY <1>0, <1>3, DroppingStays
  <2> QED
    BY <1>2, <1>4, <1>9, <2>1 DEF Somewhere
<1>10. \A q \in Procs \ {p} : ~Meets(p, q)
  BY <1>3 DEF Meets
<1> QED
  BY <1>1, <1>2, <1>3, <1>4, <1>5, <1>6, <1>8, <1>9, <1>10, RemovalKeeps

LEMMA RestoreDropKeeps ==
  ASSUME IInv, NEW p \in Procs, RestoreDrop(p) PROVE IInv'
<1> DEFINE i == cur[p].id
<1>0. Types /\ pc[p] = "drop" /\ pc[p] \in MovePlaces
  BY DEF IInv, RestoreDrop, MovePlaces
<1>1. i \in 1..MaxPuts /\ i \in Ids /\ payload[i] \in Files \cup {None} /\ op[p] = "restore"
  BY <1>0, Moving
<1>2. CASE Drop(p, "next") /\ UNCHANGED <<payload, carry>>
  BY <1>0, <1>2, DropKeeps DEF RestoreDrop, disk, history
<1>3. CASE /\ payload[i] # None
           /\ payload' = [payload EXCEPT ![i] = None]
           /\ carry' = [carry EXCEPT ![p] = payload[i]]
           /\ Goto(p, "unlink") /\ UNCHANGED cur
  <2>1. /\ UNCHANGED <<file, record, now, stamp, created, op, rows, cur, plan, putting, fresh, seen, gone,
                       clobbered>>
        /\ pc' = [pc EXCEPT ![p] = "unlink"]
    BY <1>3 DEF RestoreDrop, counters, Goto, history
  <2>2. Local(p) /\ pc'[p] = "unlink" /\ dest'[p] = dest[p] /\ seen'[p] = seen[p] /\ cur'[p] = cur[p]
    BY <1>0, <2>1 DEF Types, LocalTypes, Local, Only, plan, putting
  <2>3. payload'[i] = None /\ \A j \in Ids \ {i} : payload'[j] = payload[j]
    BY <1>0, <1>1, <1>3 DEF Types, DiskTypes
  <2>4. Removes /\ RecordLast
    BY <1>1, <2>1, <2>3 DEF Removes, RecordLast
  <2>5. Types'
    <3>1. DiskTypes'
      BY <1>0, <1>1, <1>3, <2>1, <2>4, RemovalTypes DEF Types, DiskTypes
    <3>2. carry' \in [Procs -> Files \cup {None}] /\ pc' \in [Procs -> Places]
      BY <1>0, <1>1, <1>3, <2>1 DEF Types, LocalTypes, Places, MovePlaces
    <3>3. LocalTypes'
      BY <1>0, <2>1, <3>2 DEF Types, LocalTypes, plan, putting
    <3> QED
      BY <3>1, <3>3 DEF Types
  <2>6. Known' = Known
    BY <1>0, <2>1, <2>2, KnownStays
  <2>7. Mine(p)'
    BY <1>0, <2>1, <2>2, <2>3, <2>4, <2>6, MoveMine DEF MovePlaces
  <2>8. SparesCopies(p)
    BY <2>1 DEF SparesCopies
  <2>9. ASSUME NEW f \in 1..created, Somewhere(f) PROVE Somewhere(f)'
    <3>1. Dropping' \subseteq Dropping /\ i \in Dropping
      BY <1>0, <2>2, DroppingStays DEF Dropping
    <3> QED
      BY <2>1, <2>3, <2>9, <3>1 DEF Somewhere
  <2>10. \A q \in Procs \ {p} : ~Meets(p, q)
    <3>1. \A q \in Procs : pc[q] = "unlink" => payload[cur[q].id] = None
      BY DEF IInv, Mine, CurKnown
    <3> QED
      BY <1>3, <2>2, <3>1 DEF Meets
  <2> QED
    BY <1>0, <2>1, <2>2, <2>4, <2>5, <2>7, <2>8, <2>9, <2>10, RemovalKeeps
<1> QED
  BY <1>2, <1>3 DEF RestoreDrop
-----------------------------------------------------------------------------
(* The user and the clock.                                                 *)
LEMMA WorldKeeps ==
  ASSUME IInv, UNCHANGED <<payload, record, op, pc, locals, history, stamp>>,
         \A q \in Procs : pc[q] = "copy" => file'[To(q)] = file[To(q)],
         DiskTypes', \A f \in 1..created' : Somewhere(f)'
  PROVE  IInv'
<1> USE DEF locals, history, work, plan, putting
<1>0. Types
  BY DEF IInv
<1>1. Types'
  BY <1>0 DEF Types, LocalTypes
<1>2. Known' = Known /\ stamp \in Nat
  BY <1>0, Stamped DEF Known, Pending
<1>3. ASSUME NEW q \in Procs PROVE Mine(q)'
  <2>1. Stays(q)
    BY DEF Stays
  <2>2. LeavesBin
    BY <1>2 DEF LeavesBin
  <2> QED
    BY <2>1, <2>2, Bystander
<1>4. Unused' /\ Sound' /\ RecordBeside'
  BY <1>2 DEF IInv, Unused, Sound, RecordBeside, HasRecord
<1>5. ASSUME NEW p \in Procs, NEW q \in Procs, p # q PROVE Apart(p, q)'
  <2>1. Apart(p, q)
    BY <1>5 DEF IInv
  <2> QED
    BY <2>1 DEF Apart, To
<1> QED
  BY <1>1, <1>3, <1>4, <1>5 DEF IInv

LEMMA NewFileKeeps ==
  ASSUME IInv, NEW x \in Paths, NewFile(x) PROVE IInv'
<1>0. Types
  BY DEF IInv
<1>1. /\ file[x] = None /\ created \in Nat /\ created' = created + 1 /\ created' \in 1..MaxFiles
      /\ file' = [file EXCEPT ![x] = created']
      /\ UNCHANGED <<payload, record, now, stamp, op, pc, locals, gone, clobbered>>
  BY <1>0, BoundAssumption DEF NewFile, Types, DiskTypes, history
<1>2. /\ file' \in [Paths -> Files \cup {None, Part}] /\ file'[x] = created'
      /\ \A y \in Paths \ {x} : file'[y] = file[y]
  BY <1>0, <1>1 DEF Types, DiskTypes, Files
<1>3. DiskTypes'
  BY <1>0, <1>1, <1>2 DEF Types, DiskTypes, HasRecord
<1>4. \A q \in Procs : pc[q] = "copy" => file'[To(q)] = file[To(q)]
  BY <1>1, <1>2, Values DEF IInv, Mine, Planned, MovePlaces
<1>5. ASSUME NEW f \in 1..created' PROVE Somewhere(f)'
  <2>1. CASE f = created'
    BY <1>2, <2>1 DEF Somewhere
  <2>2. CASE f # created'
    <3>1. f \in 1..created /\ f # None
      BY <1>1, <2>2, Values
    <3>2. Somewhere(f) /\ Dropping' = Dropping
      BY <1>1, <3>1 DEF IInv, Dropping, locals, work
    <3> QED
      BY <1>1, <1>2, <3>1, <3>2 DEF Somewhere
  <2> QED
    BY <2>1, <2>2
<1> QED
  BY <1>1, <1>3, <1>4, <1>5, WorldKeeps DEF history

LEMMA TickKeeps ==
  ASSUME IInv, Tick PROVE IInv'
<1>0. Types
  BY DEF IInv
<1>1. /\ now' \in 0..MaxTick
      /\ UNCHANGED <<disk, stamp, created, op, pc, locals, history>>
  BY <1>0, BoundAssumption DEF Tick, Types, DiskTypes
<1>2. DiskTypes'
  BY <1>0, <1>1, DiskTypesStay
<1>3. \A f \in 1..created' : Somewhere(f)'
  BY <1>1 DEF IInv, Somewhere, Dropping, disk, locals, work, history
<1> QED
  BY <1>1, <1>2, <1>3, WorldKeeps DEF disk

-----------------------------------------------------------------------------
LEMMA PutKeeps ==
  ASSUME IInv, NEW p \in Procs, Put(p) PROVE IInv'
BY PutLookKeeps, ShellTakesKeeps, SendFailsKeeps, WriteLastPutKeeps, PruneAfterPutKeeps DEF Put

LEMMA OldestListed ==
  ASSUME NEW S \in Oldest(Listing, 1) PROVE S \in SUBSET Listing
BY DEF Oldest, kSubset

LEMMA PurgeKeeps ==
  ASSUME IInv, NEW p \in Procs, Purge(p) PROVE IInv'
<1>0. Types /\ (policy' = policy => policy' \in [Procs -> {"refuse", "overwrite", "rename"}])
  BY DEF IInv, Types, LocalTypes
<1>1. ASSUME NEW S \in SUBSET Listing, RmList(p, S) PROVE IInv'
  BY <1>0, <1>1, ListsKeep DEF RmList, Ops
<1>2. ASSUME NEW S \in SUBSET Listing, WslList(p, S) PROVE IInv'
  BY <1>0, <1>2, ListsKeep DEF WslList, Ops
<1>3. ASSUME EmptyList(p) PROVE IInv'
  BY <1>0, <1>3, ListsKeep DEF EmptyList, Ops
<1>4. ASSUME PurgeOldestOn(p) PROVE IInv'
  <2>1. PICK S \in Oldest(Listing, 1) : Lists(p, "oldest", "purge", S)
    BY <1>4 DEF PurgeOldestOn
  <2> QED
    BY <1>0, <1>4, <2>1, OldestListed, ListsKeep DEF PurgeOldestOn, Ops
<1>5. ASSUME NEW r \in rows[p], WslRecheck(p, r) PROVE IInv'
  <2>1. Take(p, r, "wsl") \/ Take(p, r, "wsl_payload")
    BY <1>5 DEF WslRecheck
  <2> QED
    BY <1>5, <2>1, TakeKeeps DEF WslRecheck
<1> QED
  BY <1>1, <1>2, <1>3, <1>4, <1>5, RecheckKeeps, ShellPurgesKeeps, RemoveEntryKeeps,
     RemoveEntryRecordKeeps DEF Purge

LEMMA RestoreKeepsInv ==
  ASSUME IInv, NEW p \in Procs, Restore(p) PROVE IInv'
<1>0. Types
  BY DEF IInv
<1>1. ASSUME NEW S \in SUBSET Listing, RestoreList(p, S) PROVE IInv'
  <2>1. policy' \in [Procs -> {"refuse", "overwrite", "rename"}]
    BY <1>0, <1>1 DEF RestoreList, Types, LocalTypes
  <2> QED
    BY <1>1, <2>1, ListsKeep DEF RestoreList, Ops
<1>2. ASSUME NEW r \in rows[p], RestoreRecheck(p, r) PROVE IInv'
  <2>1. Take(p, r, "next") \/ Take(p, r, "clear")
    BY <1>2 DEF RestoreRecheck
  <2> QED
    BY <1>2, <2>1, TakeKeeps DEF RestoreRecheck
<1> QED
  BY <1>1, <1>2, RestorePlanKeeps, RestoreClearKeeps, RestoreMoveKeeps, RestoreFailsKeeps,
     CopyLookKeeps, CopyStartKeeps, CopyDoneKeeps, CopyFailsKeeps, RestoreDropKeeps, RestoreUnlinkKeeps
     DEF Restore

LEMMA NextKeeps ==
  ASSUME IInv, [Next]_vars PROVE IInv'
<1>1. ASSUME UNCHANGED vars PROVE IInv'
  <2>1. UNCHANGED <<file, payload, record, op, pc, locals, history, stamp, now, created>>
    BY <1>1 DEF vars, disk, counters
  <2>2. DiskTypes'
    BY <2>1 DEF IInv, Types, DiskTypes, HasRecord, history
  <2>3. \A f \in 1..created' : Somewhere(f)'
    BY <2>1 DEF IInv, Somewhere, Dropping, locals, work, history
  <2> QED
    BY <2>1, <2>2, <2>3, WorldKeeps
<1> QED
  BY <1>1, PutKeeps, PurgeKeeps, RestoreKeepsInv, CheckBinsKeeps, FixRemoveKeeps, ResetKeeps,
     NewFileKeeps, TickKeeps DEF Next, Fix, End, Kill

LEMMA InitHolds ==
  ASSUME Init PROVE IInv
<1>1. PICK j \in [Junk -> JunkKinds] :
        /\ payload = [i \in Ids |->
             IF i \in Junk /\ j[i] \in {"orphan", "spoilt"} THEN Debris ELSE None]
        /\ record = [i \in Ids |-> IF i \in Junk THEN JunkRecord[j[i]] ELSE NoRecord]
  BY DEF Init
<1>2. (CHOOSE x \in Paths : TRUE) \in Paths
  BY PathAssumption
<1>3. ASSUME NEW i \in Junk
      PROVE  \/ j[i] \in {"orphan", "spoilt"} /\ record[i] \in {NoRecord, Bad} /\ payload[i] = Debris
             \/ j[i] = "stray" /\ record[i] = Stray /\ payload[i] = None
             \/ /\ j[i] = "dangling" /\ payload[i] = None
                /\ record[i] = RecordOf(CHOOSE x \in Paths : TRUE, 0)
  <2>1. /\ i \in Ids /\ j[i] \in JunkKinds /\ record[i] = JunkRecord[j[i]]
        /\ payload[i] = IF j[i] \in {"orphan", "spoilt"} THEN Debris ELSE None
    BY <1>1 DEF Ids
  <2> QED
    BY <2>1 DEF JunkKinds, JunkRecord
<1>4. \A i \in 1..MaxPuts : payload[i] = None /\ record[i] = NoRecord
  BY <1>1, JunkAssumption DEF Ids
<1>5. DiskTypes
  <2>1. ASSUME NEW i \in Ids
        PROVE  record[i] \in {NoRecord, Bad, Stray} \/
                 (HasRecord(i) /\ record[i].from \in Paths /\ record[i].at \in 0..MaxTick)
    <3>1. \A t, x : RecordOf(x, t).what = "record" /\ RecordOf(x, t).from = x /\ RecordOf(x, t).at = t
      BY Values
    <3>2. 0 \in 0..MaxTick
      BY BoundAssumption
    <3>3. CASE i \in Junk
      BY <1>2, <1>3, <3>1, <3>2, <3>3 DEF HasRecord
    <3> QED
      BY <1>4, <3>3 DEF Ids
  <2>2. payload \in [Ids -> Files \cup {None, Debris}] /\ DOMAIN record = Ids
    BY <1>1
  <2> QED
    BY <2>1, <2>2, BoundAssumption DEF Init, DiskTypes
<1>6. LocalTypes
  BY BoundAssumption DEF Init, LocalTypes, Ops, Places, None
<1>7. Unused /\ Sound /\ RecordBeside
  <2>1. stamp = 0 /\ 1..stamp = {}
    BY DEF Init
  <2> QED
    BY <1>3, <1>4, <2>1, Values DEF Unused, Sound, RecordBeside, HasRecord
<1>8. \A p \in Procs : Mine(p)
  BY DEF Init, Mine, Command, RowsKnown, CurKnown, Planned, Putting, PutPlaces, WslPlaces, MovePlaces,
     Listing0
<1>9. \A p, q \in Procs : Apart(p, q)
  BY DEF Init, Apart
<1>10. 1..created = {}
  BY DEF Init
<1> QED
  BY <1>5, <1>6, <1>7, <1>8, <1>9, <1>10 DEF IInv, Types

LEMMA IInvRight == IInv => TypeOK /\ NothingLost /\ RecordBeside
<1> SUFFICES ASSUME IInv PROVE TypeOK /\ NothingLost /\ RecordBeside
  OBVIOUS
<1>1. \A p \in Procs : op[p] \notin {"none", "fix"} => {r.id : r \in rows[p]} \subseteq seen[p]
  BY DEF IInv, Mine, RowsKnown
<1>2. TypeOK
  BY <1>1 DEF IInv, Types, DiskTypes, TypeOK
<1>3. NothingLost
  BY DEF IInv, Somewhere, NothingLost
<1> QED
  BY <1>2, <1>3 DEF IInv

(* The invariant holds of every state.                                     *)
LEMMA Invariant == Spec => []IInv
<1>1. Init => IInv
  BY InitHolds
<1>2. IInv /\ [Next]_vars => IInv'
  BY NextKeeps
<1> QED
  BY <1>1, <1>2, PTL DEF Spec

(* Every variable has the values the code gives it.                        *)
THEOREM RecycleTyped == Spec => []TypeOK
BY Invariant, IInvRight, PTL

(* No command loses a file: each is at a path, or whole in the bin, or was *)
(* deleted or replaced (restore_payload copies whole before it removes),   *)
(* or went with the destination of a restore whose copy failed.            *)
THEOREM RecycleLosesNothing == Spec => []NothingLost
BY Invariant, IInvRight, PTL

(* No payload is left without its record: the WSL view and restore remove  *)
(* the payload first, and `--check --fix` only a record with no payload.   *)
THEOREM PayloadHasRecord == Spec => []RecordBeside
BY Invariant, IInvRight, PTL
-----------------------------------------------------------------------------
(* The bin implements TrashStore: what each step does to the four views.   *)
StoreStep == [Store!Next]_(Store!vars)
Shows(i) == HasRecord(i) /\ payload[i] # None
InHand(p) == [item |-> cur[p].id, path |-> cur[p].from, file |-> carry[p]]

LEMMA ListedIs ==
  /\ \A e : e \in Listed <=> \E i \in Ids : Shows(i) /\ e = ItemAt(i)
  /\ \A e : e \in Listed' <=> \E i \in Ids : Shows(i)' /\ e = ItemAt(i)'
<1>1. \A i \in Ids : RowOf(i).id = i /\ RowOf(i)'.id = i
  BY DEF RowOf
<1>2. /\ \A r : r \in Listing <=> \E i \in Ids : Shows(i) /\ r = RowOf(i)
      /\ \A r : r \in Listing' <=> \E i \in Ids : Shows(i)' /\ r = RowOf(i)'
  BY DEF Listing, Shows
<1>3. /\ \A e : e \in Listed <=> \E r \in Listing : e = ItemAt(r.id)
      /\ \A e : e \in Listed' <=> \E r \in Listing' : e = ItemAt(r.id)'
  BY DEF Listed, ItemAt
<1> QED
  BY <1>1, <1>2, <1>3

(* An id whose item is the same, or that no list shows.                    *)
Unseen(i) ==
  \/ payload'[i] = payload[i] /\ record'[i] = record[i]
  \/ ~Shows(i) /\ ~Shows(i)'

LEMMA ListedSame ==
  ASSUME \A i \in Ids : Unseen(i) PROVE Listed' = Listed
<1>1. \A i \in Ids : /\ Shows(i)' <=> Shows(i)
                     /\ Shows(i) => ItemAt(i)' = ItemAt(i)
  BY DEF Unseen, Shows, HasRecord, ItemAt
<1> QED
  BY <1>1, ListedIs

LEMMA ListedGoes ==
  ASSUME NEW i \in Ids, Shows(i), ~Shows(i)', \A j \in Ids \ {i} : Unseen(j)
  PROVE  ItemAt(i) \in Listed /\ Listed' = Listed \ {ItemAt(i)}
<1>1. \A j \in Ids \ {i} : /\ Shows(j)' <=> Shows(j)
                           /\ Shows(j) => ItemAt(j)' = ItemAt(j)
  BY DEF Unseen, Shows, HasRecord, ItemAt
<1>2. \A j \in Ids : ItemAt(j) = ItemAt(i) => j = i
  BY DEF ItemAt
<1> QED
  BY <1>1, <1>2, ListedIs

LEMMA ListedComes ==
  ASSUME NEW i \in Ids, ~Shows(i), Shows(i)', \A j \in Ids \ {i} : Unseen(j)
  PROVE  Listed' = Listed \cup {ItemAt(i)'}
<1>1. \A j \in Ids \ {i} : /\ Shows(j)' <=> Shows(j)
                           /\ Shows(j) => ItemAt(j)' = ItemAt(j)
  BY DEF Unseen, Shows, HasRecord, ItemAt
<1> QED
  BY <1>1, ListedIs

LEMMA PendingSame ==
  ASSUME NEW p \in Procs, Local(p), pc[p] # "send", pc'[p] # "send"
  PROVE  Pending' = Pending
BY DEF Pending, Local, Only

LEMMA AwaySame ==
  ASSUME NEW p \in Procs, Local(p), Only(carry, p), pc[p] # "unlink", pc'[p] # "unlink"
  PROVE  Away' = Away
<1>1. \A q \in Procs : /\ pc'[q] = "unlink" <=> pc[q] = "unlink"
                       /\ pc[q] = "unlink" => InHand(q)' = InHand(q)
  BY DEF Local, Only, InHand
<1>2. /\ Away = {InHand(q) : q \in {r \in Procs : pc[r] = "unlink"}}
      /\ Away' = {InHand(q)' : q \in {r \in Procs : pc'[r] = "unlink"}}
  BY DEF Away, InHand
<1> QED
  BY <1>1, <1>2

LEMMA AwayComes ==
  ASSUME NEW p \in Procs, Local(p), Only(carry, p), pc[p] # "unlink", pc'[p] = "unlink"
  PROVE  Away' = Away \cup {InHand(p)'}
<1>1. \A q \in Procs \ {p} : /\ pc'[q] = "unlink" <=> pc[q] = "unlink"
                             /\ pc[q] = "unlink" => InHand(q)' = InHand(q)
  BY DEF Local, Only, InHand
<1>2. /\ Away = {InHand(q) : q \in {r \in Procs : pc[r] = "unlink"}}
      /\ Away' = {InHand(q)' : q \in {r \in Procs : pc'[r] = "unlink"}}
  BY DEF Away, InHand
<1> QED
  BY <1>1, <1>2

(* No two restores have one item away.                                     *)
LEMMA AwayGoes ==
  ASSUME IInv, NEW p \in Procs, Local(p), Only(carry, p), pc[p] = "unlink", pc'[p] # "unlink"
  PROVE  InHand(p) \in Away /\ Away' = Away \ {InHand(p)}
<1>1. \A q \in Procs \ {p} : /\ pc'[q] = "unlink" <=> pc[q] = "unlink"
                             /\ pc[q] = "unlink" => InHand(q)' = InHand(q)
  BY DEF Local, Only, InHand
<1>2. /\ Away = {InHand(q) : q \in {r \in Procs : pc[r] = "unlink"}}
      /\ Away' = {InHand(q)' : q \in {r \in Procs : pc'[r] = "unlink"}}
  BY DEF Away, InHand
<1>3. \A q \in Procs \ {p} : pc[q] = "unlink" => InHand(q) # InHand(p)
  BY DEF IInv, Apart, InHand
<1> QED
  BY <1>1, <1>2, <1>3

LEMMA ShownNat == ASSUME IInv' PROVE Shown' \in SUBSET Nat
<1>1. 1..MaxPuts \subseteq Nat
  OBVIOUS
<1> QED
  BY <1>1 DEF IInv, Types, LocalTypes, Shown

LEMMA ShownSame ==
  ASSUME NEW p \in Procs, Local(p), op'[p] = op[p], seen'[p] = seen[p]
  PROVE  Shown' = Shown
<1>1. \A q \in Procs : op'[q] = op[q] /\ seen'[q] = seen[q]
  BY DEF Local, Only
<1>2. /\ Shown = UNION {seen[q] : q \in {r \in Procs : op[r] \notin {"none", "restore"}}}
      /\ Shown' = UNION {seen'[q] : q \in {r \in Procs : op'[r] \notin {"none", "restore"}}}
  BY DEF Shown
<1> QED
  BY <1>1, <1>2

(* Nothing, or only what deletions show, has changed.                      *)
LEMMA QuietStep ==
  ASSUME UNCHANGED <<stamp, Pending, Listed, Away>>, Shown' \in SUBSET Nat
  PROVE  StoreStep
BY DEF StoreStep, Store!Next, Store!Show

LEMMA AbortStep ==
  ASSUME NEW i \in Pending, Pending' = Pending \ {i}, UNCHANGED <<stamp, Listed, Away, Shown>>
  PROVE  StoreStep
BY DEF StoreStep, Store!Next, Store!Abort

LEMMA EnterStep ==
  ASSUME NEW e \in [item : Pending, path : Paths, file : Files],
         Pending' = Pending \ {e.item}, Listed' = Listed \cup {e}, UNCHANGED <<stamp, Away, Shown>>
  PROVE  StoreStep
BY DEF StoreStep, Store!Next, Store!Enter

LEMMA TakeStep ==
  ASSUME NEW e \in Listed, Listed' = Listed \ {e}, Away' = Away \cup {e},
         UNCHANGED <<stamp, Pending, Shown>>
  PROVE  StoreStep
BY DEF StoreStep, Store!Next, Store!Take

LEMMA DeleteStep ==
  ASSUME NEW e \in Listed, e.item \in Shown, Listed' = Listed \ {e},
         UNCHANGED <<stamp, Pending, Away, Shown>>
  PROVE  StoreStep
BY DEF StoreStep, Store!Next, Store!Delete

LEMMA KeepStep ==
  ASSUME NEW e \in Away, Away' = Away \ {e}, UNCHANGED <<stamp, Pending, Listed, Shown>>
  PROVE  StoreStep
BY DEF StoreStep, Store!Next, Store!Keep

(* A step of one command that the store does not see, or sees as a Show.   *)
LEMMA StoreQuiet ==
  ASSUME IInv', NEW p \in Procs, Local(p), Only(carry, p), stamp' = stamp,
         pc[p] \notin {"send", "unlink"}, pc'[p] \notin {"send", "unlink"},
         \A i \in Ids : Unseen(i)
  PROVE  StoreStep
<1>1. Pending' = Pending /\ Away' = Away /\ Listed' = Listed
  BY PendingSame, AwaySame, ListedSame
<1>2. Shown' \in SUBSET Nat
  BY ShownNat
<1> QED
  BY <1>1, <1>2, QuietStep
(* Such a step that leaves the disk alone, and is at no put or restore.    *)
LEMMA StoreStill ==
  ASSUME IInv', NEW p \in Procs, Local(p), Only(carry, p), UNCHANGED <<disk, stamp>>,
         pc[p] \notin {"send", "unlink"}, pc'[p] \notin {"send", "unlink"}
  PROVE  StoreStep
<1>1. \A i \in Ids : Unseen(i)
  BY DEF Unseen, disk
<1> QED
  BY <1>1, StoreQuiet

LEMMA ListsRefine ==
  ASSUME IInv, IInv', NEW p \in Procs, NEW o, NEW l \in {"recheck", "purge", "wsl", "plan"}, NEW S,
         Lists(p, o, l, S), dest' = dest
  PROVE  StoreStep
<1>0. Types
  BY DEF IInv
<1>1. Local(p) /\ Only(carry, p) /\ pc[p] = "idle" /\ pc'[p] = l
  BY <1>0 DEF Types, LocalTypes, Local, Only, Lists, Begin, Goto, putting
<1> QED
  BY <1>1, StoreStill DEF Lists

LEMMA TakeRefines ==
  ASSUME IInv, IInv', NEW p \in Procs, NEW r, NEW l \in {"wsl", "wsl_payload", "next", "clear"},
         Take(p, r, l), pc[p] \in {"wsl", "next"},
         UNCHANGED <<disk, stamp, op, plan, putting, seen, carry>>
  PROVE  StoreStep
<1>0. Types
  BY DEF IInv
<1>1. Local(p) /\ Only(carry, p) /\ pc'[p] = l
  BY <1>0 DEF Types, LocalTypes, Local, Only, Take, Goto, putting, plan
<1> QED
  BY <1>1, StoreStill

LEMMA DropRefines ==
  ASSUME IInv, IInv', NEW p \in Procs, NEW l \in {"wsl", "next"}, Drop(p, l),
         pc[p] \in {"wsl_payload", "clear", "move", "drop"},
         UNCHANGED <<disk, stamp, op, rows, plan, putting, seen, carry>>
  PROVE  StoreStep
<1>0. Types
  BY DEF IInv
<1>1. Local(p) /\ Only(carry, p) /\ pc'[p] = l
  BY <1>0 DEF Types, LocalTypes, Local, Only, Drop, Goto, putting, plan
<1> QED
  BY <1>1, StoreStill

LEMMA StillRefines ==
  ASSUME IInv, IInv', NEW p \in Procs,
         WriteLastPut(p) \/ PruneAfterPut(p) \/ Recheck(p) \/ RestorePlan(p) \/ CheckBins(p)
  PROVE  StoreStep
<1>0. Types
  BY DEF IInv
<1> USE DEF Goto, locals, work, plan, putting, counters, history
<1>1. CASE WriteLastPut(p)
  <2>1. Local(p) /\ Only(carry, p) /\ pc[p] = "note" /\ pc'[p] = "trim"
    BY <1>0, <1>1 DEF Types, LocalTypes, Local, Only, WriteLastPut
  <2> QED
    BY <1>1, <2>1, StoreStill DEF WriteLastPut
<1>2. CASE PruneAfterPut(p)
  <2>1. Local(p) /\ Only(carry, p) /\ pc[p] = "trim" /\ pc'[p] = "purge"
    BY <1>0, <1>2 DEF Types, LocalTypes, Local, Only, PruneAfterPut
  <2> QED
    BY <1>2, <2>1, StoreStill DEF PruneAfterPut
<1>3. CASE Recheck(p)
  <2>1. Local(p) /\ Only(carry, p) /\ pc[p] = "recheck" /\ pc'[p] = "purge"
    BY <1>0, <1>3 DEF Types, LocalTypes, Local, Only, Recheck
  <2> QED
    BY <1>3, <2>1, StoreStill DEF Recheck
<1>4. CASE RestorePlan(p)
  <2>1. Local(p) /\ Only(carry, p) /\ pc[p] = "plan" /\ pc'[p] = "next"
    BY <1>0, <1>4 DEF Types, LocalTypes, Local, Only, RestorePlan
  <2> QED
    BY <1>4, <2>1, StoreStill DEF RestorePlan
<1>5. CASE CheckBins(p)
  <2>1. Local(p) /\ Only(carry, p) /\ pc[p] = "idle" /\ pc'[p] = "fix"
    BY <1>0, <1>5 DEF Types, LocalTypes, Local, Only, CheckBins, Begin
  <2> QED
    BY <1>5, <2>1, StoreStill DEF CheckBins
<1> QED
  BY <1>1, <1>2, <1>3, <1>4, <1>5

(* A put draws an id, and gives it up if the shell will not take the item. *)
LEMMA PutLookRefines ==
  ASSUME IInv, NEW p \in Procs, NEW x \in Paths, PutLook(p, x) PROVE StoreStep
<1>0. Types /\ Mine(p)
  BY DEF IInv
<1>1. /\ pc[p] = "idle" /\ pc'[p] = "send" /\ mine'[p] = stamp' /\ stamp' = stamp + 1
      /\ op[p] = "none" /\ op'[p] = "put" /\ seen[p] = {} /\ seen' = seen
      /\ Local(p) /\ Only(carry, p) /\ UNCHANGED disk
  BY <1>0 DEF Types, LocalTypes, Local, Only, PutLook, Begin, Goto, work, plan, Mine, Command,
     RowsKnown, Listing0
<1>2. Pending' = Pending \cup {stamp'}
  BY <1>1 DEF Pending, Local, Only
<1>3. Listed' = Listed
  BY <1>1, ListedSame DEF Unseen, disk
<1>4. Away' = Away
  BY <1>1, AwaySame
<1>5. Shown' = Shown
  BY <1>1 DEF Shown, Local, Only
<1> QED
  BY <1>1, <1>2, <1>3, <1>4, <1>5 DEF StoreStep, Store!Next, Store!Begin

(* A put that is no longer at the shell: its id is its own.                *)
LEMMA PendingGoes ==
  ASSUME IInv, NEW p \in Procs, Local(p), pc[p] = "send", pc'[p] # "send"
  PROVE  mine[p] \in Pending /\ Pending' = Pending \ {mine[p]}
<1>1. \A q \in Procs \ {p} : pc[q] = "send" => mine[q] # mine[p]
  BY DEF IInv, Apart
<1> QED
  BY <1>1 DEF Pending, Local, Only

LEMMA SendFailsRefines ==
  ASSUME IInv, NEW p \in Procs, SendFails(p) PROVE StoreStep
<1>0. Types
  BY DEF IInv
<1>1. /\ pc[p] = "send" /\ pc'[p] = "end" /\ op' = op /\ seen' = seen /\ stamp' = stamp
      /\ Local(p) /\ Only(carry, p) /\ UNCHANGED disk
  BY <1>0 DEF Types, LocalTypes, Local, Only, SendFails, Goto, locals, work, plan, putting, counters
<1>2. Listed' = Listed
  BY <1>1, ListedSame DEF Unseen, disk
<1>3. Away' = Away /\ Shown' = Shown
  BY <1>1, AwaySame, ShownSame
<1> QED
  BY <1>1, <1>2, <1>3, PendingGoes, AbortStep

(* The shell's step is the item's entry, whole and with its path.          *)
LEMMA ShellTakesRefines ==
  ASSUME IInv, NEW p \in Procs, ShellTakes(p) PROVE StoreStep
<1>i. PICK i : i = mine[p]
  OBVIOUS
<1> DEFINE e == [item |-> i, path |-> src[p], file |-> file[src[p]]]
<1>0. Types /\ Mine(p)
  BY DEF IInv
<1>1. /\ pc[p] = "send" /\ pc'[p] = "note" /\ op' = op /\ seen' = seen /\ stamp' = stamp
      /\ Local(p) /\ Only(carry, p)
  BY <1>0 DEF Types, LocalTypes, Local, Only, ShellTakes, Goto, locals, work, plan, putting, counters
<1>2. i \in 1..stamp /\ i \in 1..MaxPuts /\ i \in Ids /\ i \notin Known /\ src[p] \in Paths
  BY <1>i, <1>0, <1>1, Stamped, JunkAssumption DEF Mine, Putting, Ids, Pending, Known
<1>3. /\ payload'[i] = file[src[p]] /\ record'[i] = RecordOf(src[p], now)
      /\ \A j \in Ids \ {i} : payload'[j] = payload[j] /\ record'[j] = record[j]
      /\ file[src[p]] \in Files
  BY <1>i, <1>0, <1>2 DEF ShellTakes, Types, DiskTypes
<1>4. ~Shows(i)
  BY <1>2 DEF IInv, Unused, Shows
<1>5. Shows(i)' /\ ItemAt(i)' = e
  BY <1>3, Values DEF Shows, HasRecord, ItemAt
<1>6. Listed' = Listed \cup {e}
  BY <1>2, <1>3, <1>4, <1>5, ListedComes DEF Unseen
<1>7. i \in Pending /\ Pending' = Pending \ {i}
  BY <1>i, <1>1, PendingGoes
<1>8. e \in [item : Pending, path : Paths, file : Files] /\ e.item = i
  BY <1>2, <1>3, <1>7
<1>9. Away' = Away /\ Shown' = Shown
  BY <1>1, AwaySame, ShownSame
<1> QED
  BY <1>1, <1>6, <1>7, <1>8, <1>9, EnterStep
(* A row whose payload is there is an item of the store, as it was listed. *)
LEMMA RowShows ==
  ASSUME IInv, NEW r, AsListed(r), payload[r.id] # None
  PROVE  /\ r.id \in Ids /\ Shows(r.id)
         /\ ItemAt(r.id) = [item |-> r.id, path |-> r.from, file |-> payload[r.id]]
<1>1. r.id \in 1..MaxPuts /\ r.id \in Ids /\ r.id \in Known
  BY RowHolds DEF AsListed
<1>2. r.id \in 1..stamp
  BY <1>1, JunkAssumption DEF Known
<1>3. HasRecord(r.id) /\ RowOf(r.id) = r
  BY <1>2 DEF IInv, RecordBeside, AsListed
<1>4. record[r.id].from = r.from
  BY <1>3 DEF RowOf
<1> QED
  BY <1>1, <1>3, <1>4 DEF Shows, ItemAt

(* A deletion takes out of the store an item that it has listed.           *)
LEMMA DeleteRefines ==
  ASSUME IInv, NEW p \in Procs, NEW r, AsListed(r), r.id \in seen[p], op[p] \notin {"none", "restore"},
         payload[r.id] # None, payload'[r.id] = None,
         \A j \in Ids \ {r.id} : payload'[j] = payload[j] /\ record'[j] = record[j],
         Local(p), Only(carry, p), stamp' = stamp, op'[p] = op[p], seen'[p] = seen[p],
         pc[p] \notin {"send", "unlink"}, pc'[p] \notin {"send", "unlink"}
  PROVE  StoreStep
<1>1. r.id \in Ids /\ Shows(r.id) /\ ~Shows(r.id)' /\ ItemAt(r.id).item = r.id
  BY RowShows DEF Shows, ItemAt
<1>2. ItemAt(r.id) \in Listed /\ Listed' = Listed \ {ItemAt(r.id)}
  BY <1>1, ListedGoes DEF Unseen
<1>3. r.id \in Shown
  BY DEF Shown
<1>4. Pending' = Pending /\ Away' = Away /\ Shown' = Shown
  BY PendingSame, AwaySame, ShownSame
<1> QED
  BY <1>1, <1>2, <1>3, <1>4, DeleteStep

LEMMA ShellPurgesRefines ==
  ASSUME IInv, IInv', NEW p \in Procs, NEW r \in rows[p], ShellPurges(p, r) PROVE StoreStep
<1>0. Types /\ Mine(p)
  BY DEF IInv
<1>1. /\ pc[p] = "purge" /\ pc' = pc /\ op' = op /\ seen' = seen /\ stamp' = stamp
      /\ Local(p) /\ Only(carry, p)
  BY <1>0 DEF Types, LocalTypes, Local, Only, ShellPurges, plan, putting, counters
<1>2. op[p] \notin {"none", "restore", "fix"} /\ AsListed(r) /\ r.id \in seen[p]
  BY <1>0, <1>1 DEF Mine, Command, RowsKnown
<1>3. CASE payload[r.id] = None
  BY <1>1, <1>3, StoreStill DEF ShellPurges
<1>4. CASE payload[r.id] # None
  <2>1. r.id \in Ids
    BY <1>2, RowHolds
  <2>2. /\ payload'[r.id] = None
        /\ \A j \in Ids \ {r.id} : payload'[j] = payload[j] /\ record'[j] = record[j]
    BY <1>0, <1>4, <2>1 DEF ShellPurges, Types, DiskTypes
  <2> QED
    BY <1>1, <1>2, <1>4, <2>2, DeleteRefines
<1> QED
  BY <1>3, <1>4

LEMMA RemoveEntryRefines ==
  ASSUME IInv, IInv', NEW p \in Procs, RemoveEntry(p) PROVE StoreStep
<1>0. Types /\ Mine(p)
  BY DEF IInv
<1>1. PICK r : r = cur[p]
  OBVIOUS
<1>2. pc[p] = "wsl_payload" /\ UNCHANGED <<file, record, stamp, op, rows, plan, putting, seen, carry>>
  BY DEF RemoveEntry, counters
<1>3. op[p] = "wsl" /\ AsListed(r) /\ r.id \in seen[p]
  BY <1>0, <1>1, <1>2 DEF Mine, Command, CurKnown, WslPlaces
<1>4. CASE Drop(p, "wsl") /\ UNCHANGED payload
  BY <1>2, <1>4, DropRefines DEF disk
<1>5. CASE /\ payload[r.id] # None /\ payload' = [payload EXCEPT ![r.id] = None]
           /\ Goto(p, "wsl_record") /\ UNCHANGED cur
  <2>1. r.id \in Ids
    BY <1>3, RowHolds
  <2>2. /\ payload'[r.id] = None
        /\ \A j \in Ids \ {r.id} : payload'[j] = payload[j] /\ record'[j] = record[j]
    BY <1>0, <1>2, <1>5, <2>1 DEF Types, DiskTypes
  <2>3. Local(p) /\ Only(carry, p) /\ pc'[p] = "wsl_record"
    BY <1>0, <1>2, <1>5 DEF Types, LocalTypes, Local, Only, Goto, plan, putting
  <2> QED
    BY <1>2, <1>3, <1>5, <2>2, <2>3, DeleteRefines
<1> QED
  BY <1>1, <1>4, <1>5 DEF RemoveEntry

(* A record without its payload goes unseen.                               *)
LEMMA RemoveEntryRecordRefines ==
  ASSUME IInv, IInv', NEW p \in Procs, RemoveEntryRecord(p) PROVE StoreStep
<1>0. Types /\ Mine(p)
  BY DEF IInv
<1>1. PICK i : i = cur[p].id
  OBVIOUS
<1>2. /\ pc[p] = "wsl_record" /\ pc'[p] = "wsl" /\ payload' = payload /\ stamp' = stamp
      /\ RecordGoes(i) /\ Local(p) /\ Only(carry, p)
  BY <1>0, <1>1 DEF Types, LocalTypes, Local, Only, RemoveEntryRecord, Drop, Goto, plan, putting, counters
<1>3. payload[i] = None
  BY <1>0, <1>1, <1>2 DEF Mine, CurKnown
<1>4. \A j \in Ids : Unseen(j)
  BY <1>0, <1>2, <1>3 DEF RecordGoes, Unseen, Shows, Types, DiskTypes
<1> QED
  BY <1>2, <1>4, StoreQuiet

LEMMA FixRemoveRefines ==
  ASSUME IInv, IInv', NEW p \in Procs, NEW r \in rows[p], FixRemove(p, r) PROVE StoreStep
<1>0. Types /\ Mine(p)
  BY DEF IInv
<1>1. /\ pc[p] = "fix" /\ pc' = pc /\ payload' = payload /\ stamp' = stamp
      /\ RecordGoes(r.id) /\ Local(p) /\ Only(carry, p)
  BY <1>0 DEF Types, LocalTypes, Local, Only, FixRemove, plan, putting, counters
<1>2. r.id \in Ids /\ (r.id \in Junk \/ payload[r.id] = None)
  BY <1>0, <1>1 DEF Mine, Command, RowsKnown
<1>3. ~Shows(r.id) /\ ~Shows(r.id)'
  BY <1>0, <1>1, <1>2, Values DEF IInv, RecordGoes, Sound, Shows, HasRecord, Types, DiskTypes
<1>4. \A j \in Ids : Unseen(j)
  BY <1>0, <1>1, <1>3 DEF RecordGoes, Unseen, Types, DiskTypes
<1> QED
  BY <1>1, <1>4, StoreQuiet

(* A restore's step that changes paths only.                               *)
LEMMA PathsRefine ==
  ASSUME IInv, IInv', NEW p \in Procs, NEW l \in {"move", "open", "copy", "drop", "next"},
         pc[p] \in {"clear", "move", "open", "copy"}, pc' = [pc EXCEPT ![p] = l],
         UNCHANGED <<payload, record, stamp, op, rows, plan, putting, seen, carry>>,
         Only(cur, p)
  PROVE  StoreStep
<1>0. Types
  BY DEF IInv
<1>1. Local(p) /\ Only(carry, p) /\ pc'[p] = l
  BY <1>0 DEF Types, LocalTypes, Local, Only, plan, putting
<1>2. \A i \in Ids : Unseen(i)
  BY DEF Unseen
<1> QED
  BY <1>1, <1>2, StoreQuiet
(* A restore takes its item out of the store when the payload leaves.      *)
LEMMA TakesAway ==
  ASSUME IInv, NEW p \in Procs, NEW r, r = cur[p], AsListed(r), payload[r.id] # None,
         payload' = [payload EXCEPT ![r.id] = None], carry' = [carry EXCEPT ![p] = payload[r.id]],
         UNCHANGED <<record, stamp, op, rows, cur, plan, putting, seen>>,
         pc[p] \in MovePlaces \ {"unlink"}, pc' = [pc EXCEPT ![p] = "unlink"]
  PROVE  StoreStep
<1>0. Types
  BY DEF IInv
<1>1. /\ Local(p) /\ Only(carry, p) /\ pc'[p] = "unlink" /\ carry'[p] = payload[r.id] /\ cur'[p] = r
      /\ pc[p] # "send" /\ pc[p] # "unlink"
  BY <1>0 DEF Types, LocalTypes, Local, Only, plan, putting, MovePlaces
<1>2. /\ r.id \in Ids /\ Shows(r.id)
      /\ ItemAt(r.id) = [item |-> r.id, path |-> r.from, file |-> payload[r.id]]
  BY RowShows
<1>3. payload'[r.id] = None /\ \A j \in Ids \ {r.id} : payload'[j] = payload[j]
  BY <1>0, <1>2 DEF Types, DiskTypes
<1>4. ItemAt(r.id) \in Listed /\ Listed' = Listed \ {ItemAt(r.id)}
  BY <1>2, <1>3, ListedGoes DEF Unseen, Shows
<1>5. Away' = Away \cup {ItemAt(r.id)}
  <2>1. InHand(p)' = ItemAt(r.id)
    BY <1>1, <1>2 DEF InHand
  <2> QED
    BY <1>1, <2>1, AwayComes
<1>6. Pending' = Pending /\ Shown' = Shown
  BY <1>1, PendingSame, ShownSame
<1> QED
  BY <1>4, <1>5, <1>6, TakeStep

LEMMA RestoreMoveRefines ==
  ASSUME IInv, NEW p \in Procs, RestoreMove(p) PROVE StoreStep
<1>1. PICK r : r = cur[p]
  OBVIOUS
<1>2. pc[p] = "move" /\ pc[p] \in MovePlaces \ {"unlink"}
  BY DEF RestoreMove, MovePlaces
<1>3. AsListed(r)
  BY <1>1, <1>2, Moving
<1>4. /\ payload[r.id] # None /\ payload' = [payload EXCEPT ![r.id] = None]
      /\ carry' = [carry EXCEPT ![p] = payload[r.id]] /\ pc' = [pc EXCEPT ![p] = "unlink"]
      /\ UNCHANGED <<record, stamp, op, rows, cur, plan, putting, seen>>
  BY <1>1 DEF RestoreMove, Goto, counters, work
<1> QED
  BY <1>1, <1>2, <1>3, <1>4, TakesAway

LEMMA RestoreDropRefines ==
  ASSUME IInv, IInv', NEW p \in Procs, RestoreDrop(p) PROVE StoreStep
<1>1. PICK r : r = cur[p]
  OBVIOUS
<1>2. pc[p] = "drop" /\ pc[p] \in MovePlaces \ {"unlink"}
  BY DEF RestoreDrop, MovePlaces
<1>3. AsListed(r)
  BY <1>1, <1>2, Moving
<1>4. UNCHANGED <<file, record, stamp, op, rows, plan, putting, seen>>
  BY DEF RestoreDrop, counters
<1>5. CASE Drop(p, "next") /\ UNCHANGED <<payload, carry>>
  BY <1>2, <1>4, <1>5, DropRefines DEF disk
<1>6. CASE /\ payload[r.id] # None /\ payload' = [payload EXCEPT ![r.id] = None]
           /\ carry' = [carry EXCEPT ![p] = payload[r.id]]
           /\ Goto(p, "unlink") /\ UNCHANGED cur
  BY <1>1, <1>2, <1>3, <1>4, <1>6, TakesAway DEF Goto
<1> QED
  BY <1>1, <1>5, <1>6 DEF RestoreDrop

(* A restore ends with its item, whole or killed after the payload left.   *)
LEMMA KeepsAway ==
  ASSUME IInv, NEW p \in Procs, pc[p] = "unlink", pc'[p] # "unlink", pc'[p] # "send",
         Local(p), Only(carry, p), stamp' = stamp, \A i \in Ids : Unseen(i), Shown' = Shown
  PROVE  StoreStep
<1>1. InHand(p) \in Away /\ Away' = Away \ {InHand(p)}
  BY AwayGoes
<1>2. Pending' = Pending /\ Listed' = Listed
  BY PendingSame, ListedSame
<1> QED
  BY <1>1, <1>2, KeepStep

LEMMA RestoreUnlinkRefines ==
  ASSUME IInv, NEW p \in Procs, RestoreUnlink(p) PROVE StoreStep
<1>0. Types /\ Mine(p)
  BY DEF IInv
<1>1. PICK i : i = cur[p].id
  OBVIOUS
<1>2. /\ pc[p] = "unlink" /\ pc'[p] = "next" /\ payload' = payload /\ stamp' = stamp
      /\ op' = op /\ seen' = seen
      /\ RecordGoes(i) /\ Local(p) /\ Only(carry, p)
  BY <1>0, <1>1 DEF Types, LocalTypes, Local, Only, RestoreUnlink, Drop, Goto, plan, putting, counters
<1>3. payload[i] = None
  BY <1>0, <1>1, <1>2 DEF Mine, CurKnown
<1>4. \A j \in Ids : Unseen(j)
  BY <1>0, <1>2, <1>3 DEF RecordGoes, Unseen, Shows, Types, DiskTypes
<1>5. Shown' = Shown
  BY <1>2, ShownSame
<1> QED
  BY <1>2, <1>4, <1>5, KeepsAway

(* The end of a command, or its kill, at any place.                        *)
LEMMA ResetRefines ==
  ASSUME IInv, IInv', NEW p \in Procs, Reset(p) PROVE StoreStep
<1>0. Types /\ Mine(p)
  BY DEF IInv
<1>1. /\ pc'[p] = "idle" /\ op'[p] = "none" /\ seen'[p] = {} /\ stamp' = stamp
      /\ Local(p) /\ Only(carry, p) /\ UNCHANGED disk
  BY <1>0 DEF Types, LocalTypes, Local, Only, Reset, Goto, counters
<1>2. \A i \in Ids : Unseen(i)
  BY <1>1 DEF Unseen, disk
<1>3. ASSUME op[p] = "restore" \/ seen[p] = {} PROVE Shown' = Shown
  BY <1>1, <1>3 DEF Shown, Local, Only
<1>4. CASE pc[p] = "send"
  <2>1. seen[p] = {}
    BY <1>0, <1>4 DEF Mine, RowsKnown, Listing0, PutPlaces
  <2>2. Listed' = Listed /\ Away' = Away /\ Shown' = Shown
    BY <1>1, <1>2, <1>3, <1>4, <2>1, ListedSame, AwaySame
  <2> QED
    BY <1>1, <1>4, <2>2, PendingGoes, AbortStep
<1>5. CASE pc[p] = "unlink"
  <2>1. op[p] = "restore"
    BY <1>0, <1>5 DEF Mine, Command, MovePlaces
  <2> QED
    BY <1>1, <1>2, <1>3, <1>5, <2>1, KeepsAway
<1>6. CASE pc[p] \notin {"send", "unlink"}
  BY <1>1, <1>2, <1>6, StoreQuiet
<1> QED
  BY <1>4, <1>5, <1>6

LEMMA WorldRefines ==
  ASSUME IInv', UNCHANGED <<payload, record, stamp, op, pc, locals>> PROVE StoreStep
<1>1. Pending' = Pending /\ Away' = Away
  BY DEF Pending, Away, locals, work, putting
<1>2. Listed' = Listed
  BY ListedSame DEF Unseen
<1> QED
  BY <1>1, <1>2, ShownNat, QuietStep

LEMMA PurgeRefines ==
  ASSUME IInv, IInv', NEW p \in Procs, Purge(p) PROVE StoreStep
<1>1. ASSUME NEW S, RmList(p, S) \/ WslList(p, S) PROVE StoreStep
  BY <1>1, ListsRefine DEF RmList, WslList
<1>2. ASSUME EmptyList(p) PROVE StoreStep
  BY <1>2, ListsRefine DEF EmptyList
<1>3. ASSUME PurgeOldestOn(p) PROVE StoreStep
  BY <1>3, ListsRefine DEF PurgeOldestOn
<1>4. ASSUME NEW r \in rows[p], WslRecheck(p, r) PROVE StoreStep
  <2>1. Take(p, r, "wsl") \/ Take(p, r, "wsl_payload")
    BY <1>4 DEF WslRecheck
  <2>2. pc[p] = "wsl" /\ UNCHANGED <<disk, stamp, op, plan, putting, seen, carry>>
    BY <1>4 DEF WslRecheck, counters
  <2> QED
    BY <2>1, <2>2, TakeRefines
<1> QED
  BY <1>1, <1>2, <1>3, <1>4, StillRefines, ShellPurgesRefines, RemoveEntryRefines,
     RemoveEntryRecordRefines DEF Purge

LEMMA RestoreRefines ==
  ASSUME IInv, IInv', NEW p \in Procs, Restore(p) PROVE StoreStep
<1>0. Types
  BY DEF IInv
<1>1. ASSUME NEW S, RestoreList(p, S) PROVE StoreStep
  BY <1>1, ListsRefine DEF RestoreList
<1>2. ASSUME NEW r \in rows[p], RestoreRecheck(p, r) PROVE StoreStep
  <2>1. Take(p, r, "next") \/ Take(p, r, "clear")
    BY <1>2 DEF RestoreRecheck
  <2>2. pc[p] = "next" /\ UNCHANGED <<disk, stamp, op, plan, putting, seen, carry>>
    BY <1>2 DEF RestoreRecheck, counters
  <2> QED
    BY <2>1, <2>2, TakeRefines
<1>3. ASSUME RestoreClear(p) PROVE StoreStep
  <2>1. /\ pc[p] = "clear"
        /\ UNCHANGED <<payload, record, stamp, op, rows, plan, putting, seen, carry>>
        /\ \/ pc' = [pc EXCEPT ![p] = "move"] /\ cur' = cur
           \/ pc' = [pc EXCEPT ![p] = "next"] /\ cur' = [cur EXCEPT ![p] = NoRow]
    BY <1>3 DEF RestoreClear, Goto, Drop, counters
  <2>2. Only(cur, p)
    BY <1>0, <2>1 DEF Types, LocalTypes, Only
  <2> QED
    BY <2>1, <2>2, PathsRefine
<1>4. ASSUME \/ CopyLook(p) \/ CopyStart(p) \/ CopyDone(p) \/ CopyFails(p)
             \/ RestoreFails(p)
      PROVE  StoreStep
  <2>1. /\ pc[p] \in {"move", "open", "copy"}
        /\ UNCHANGED <<payload, record, stamp, op, rows, plan, putting, seen, carry>>
        /\ \/ pc' = [pc EXCEPT ![p] = "open"] /\ cur' = cur
           \/ pc' = [pc EXCEPT ![p] = "copy"] /\ cur' = cur
           \/ pc' = [pc EXCEPT ![p] = "drop"] /\ cur' = cur
           \/ pc' = [pc EXCEPT ![p] = "next"] /\ cur' = [cur EXCEPT ![p] = NoRow]
    BY <1>4 DEF CopyLook, CopyStart, CopyDone, CopyStops, CopyFails, RestoreFails, Goto, Drop,
       counters, disk, work, locals
  <2>2. Only(cur, p)
    BY <1>0, <2>1 DEF Types, LocalTypes, Only
  <2> QED
    BY <2>1, <2>2, PathsRefine
<1> QED
  BY <1>1, <1>2, <1>3, <1>4, StillRefines, RestoreMoveRefines, RestoreDropRefines,
     RestoreUnlinkRefines DEF Restore

LEMMA StepRefines == IInv /\ IInv' /\ [Next]_vars => StoreStep
<1> SUFFICES ASSUME IInv, IInv', [Next]_vars PROVE StoreStep
  OBVIOUS
<1>1. CASE UNCHANGED vars
  BY <1>1, WorldRefines DEF vars, disk, counters
<1>2. ASSUME NEW x \in Paths, NewFile(x) PROVE StoreStep
  BY <1>2, WorldRefines DEF NewFile
<1>3. ASSUME Tick PROVE StoreStep
  BY <1>3, WorldRefines DEF Tick, disk
<1>4. ASSUME NEW p \in Procs, Put(p) PROVE StoreStep
  BY <1>4, PutLookRefines, ShellTakesRefines, SendFailsRefines, StillRefines DEF Put
<1>5. ASSUME NEW p \in Procs, Fix(p) PROVE StoreStep
  BY <1>5, StillRefines, FixRemoveRefines DEF Fix
<1>6. ASSUME NEW p \in Procs, End(p) \/ Kill(p) PROVE StoreStep
  BY <1>6, ResetRefines DEF End, Kill
<1> QED
  BY <1>1, <1>2, <1>3, <1>4, <1>5, <1>6, PurgeRefines, RestoreRefines DEF Next

LEMMA InitRefines == Init => Store!Init
<1> SUFFICES ASSUME Init PROVE Store!Init
  OBVIOUS
<1>1. IInv
  BY InitHolds
<1>2. \A i \in Ids : ~Shows(i)
  <2>1. \A i \in 1..MaxPuts : payload[i] = None
    BY JunkAssumption DEF Init, Ids
  <2>2. \A i \in Junk : ~Shows(i)
    BY <1>1 DEF IInv, Sound, Shows
  <2> QED
    BY <2>1, <2>2 DEF Shows, Ids
<1>3. Listed = {}
  BY <1>2, ListedIs
<1>4. stamp = 0 /\ Pending = {} /\ Away = {} /\ Shown = {}
  BY DEF Init, Pending, Away, Shown
<1> QED
  BY <1>3, <1>4 DEF Store!Init

(* The Recycle Bin, with no lock and every command at once, killed or held *)
(* at any instant, is the simple store of the home trash: an item enters   *)
(* once and whole, and leaves by a restore or by a deletion that listed it *)
(* (recheck_bin_item), never by another command's stale row.               *)
THEOREM RecycleIsStore == Spec => ImplementsStore
<1>1. Init => Store!Init
  BY InitRefines
<1>2. IInv /\ IInv' /\ [Next]_vars => [Store!Next]_(Store!vars)
  BY StepRefines DEF StoreStep
<1> QED
  BY <1>1, <1>2, Invariant, PTL DEF Spec, ImplementsStore, Store!Spec
=============================================================================
