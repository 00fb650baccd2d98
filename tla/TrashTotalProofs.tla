-------------------------- MODULE TrashTotalProofs --------------------------
(***************************************************************************)
(* For any commands, names, window and faults: a total that is trusted is  *)
(* the size of the trash, and a command that had a current total leaves    *)
(* one.                                                                    *)
(***************************************************************************)
EXTENDS TrashTotal, FiniteSetTheorems, TLAPS

Holding == {"put_record", "put_move", "put_total", "rm_payload", "rm_forget",
            "rm_record", "rm_store", "re_move", "re_read", "re_record",
            "re_store", "purge", "wipe_total", "repair"}
Places == Holding \cup {"idle", "log", "measure", "store"}

(* No stamp is ahead of the mtime it was read from, nor that of the clock. *)
Types ==
  /\ TypeOK /\ pc \in [Procs -> Places]
  /\ total # NoTotal => total.stamp <= mtime
  /\ \A p \in Procs : pc[p] \in {"measure", "store"} => before[p] # NoTotal
Locked == \A p \in Procs : lock = p <=> pc[p] \in Holding

(* Where the item in hand is, in each section.                             *)
InHand(p) ==
  /\ pc[p] = "put_record" => item[p] \in Item \ (payloads \cup records)
  /\ pc[p] = "put_move" => item[p] \in records \ payloads
  /\ pc[p] = "put_total" => item[p] \in records \cap payloads
  /\ pc[p] \in {"rm_payload", "rm_forget"} => item[p] \in Item
  /\ pc[p] \in {"rm_record", "re_move", "re_read", "re_record"} =>
       item[p] \in records
  /\ pc[p] = "purge" => todo[p] \subseteq records
  /\ pc[p] = "wipe_total" => payloads = records

(* What a total says of a trash in which one item is on its way.           *)
Fresh == total # NoTotal /\ total.stamp = mtime
Before(i) ==
  [pays |-> (payloads \cap records) \ {i}, recs |-> records \ {i},
   items |-> Cardinality(records \ {i})]
ButFor(t, i) ==
  /\ t.pays \ {i} = (payloads \cap records) \ {i} /\ t.pays \subseteq records
  /\ t.recs = records /\ t.items = Cardinality(records)

(* What the file holds while p is in its section, if it is not stale: the  *)
(* size of the trash before the section began, or nothing.                 *)
Told(p) ==
  /\ pc[p] \in {"put_record", "rm_payload", "re_move", "repair"} /\ Fresh =>
       total.amount = Measure
  /\ pc[p] = "put_move" /\ Fresh => total.amount = Before(item[p])
  /\ pc[p] \in {"rm_forget", "re_read"} /\ Fresh => ButFor(total.amount, item[p])
  /\ pc[p] \in {"rm_record", "rm_store"} => total = NoTotal

(* What p carries over its change, if it carries a total at all.           *)
Carried(p) ==
  before[p] # NoTotal =>
    /\ pc[p] \in {"put_record", "purge", "repair"} => before[p] = Measure
    /\ pc[p] \in {"put_move", "put_total"} => before[p] = Before(item[p])
    /\ pc[p] \in {"rm_record", "re_record"} => ButFor(before[p], item[p])
    /\ pc[p] \in {"rm_store", "re_store"} => Less(before[p], item[p]) = Measure

TotalInv ==
  /\ lock = NoProc /\ Fresh => total.amount = Measure
  /\ \A p \in Procs : lock = p => Told(p) /\ Carried(p)

IInv ==
  /\ Types /\ Locked /\ (\A p \in Procs : InHand(p))
  /\ ~hurt => TotalInv

-----------------------------------------------------------------------------
(* Names are counted right.                                                *)
LEMMA Names ==
  ASSUME NEW S \in SUBSET Item
  PROVE  /\ IsFiniteSet(S) /\ Cardinality(S) \in 0..Cardinality(Item) /\ Cardinality(Item) \in Nat
         /\ \A i \in S : Cardinality(S \ {i}) = Cardinality(S) - 1 /\ Cardinality(S) # 0
         /\ \A i \in Item \ S : /\ Cardinality(S \cup {i}) = Cardinality(S) + 1
                               /\ Cardinality(S) # Cardinality(Item)
<1>1. IsFiniteSet(S) /\ Cardinality(S) \in Nat /\ Cardinality(Item) \in Nat
      /\ Cardinality(S) <= Cardinality(Item)
  BY ItemAssumption, FS_Subset, FS_CardinalityType
<1>2. ASSUME NEW i \in S PROVE Cardinality(S \ {i}) = Cardinality(S) - 1 /\ Cardinality(S) # 0
  BY <1>1, FS_RemoveElement, FS_EmptySet
<1>3. ASSUME NEW i \in Item \ S
      PROVE  Cardinality(S \cup {i}) = Cardinality(S) + 1 /\ Cardinality(S) # Cardinality(Item)
  <2>1. Cardinality(S \cup {i}) = Cardinality(S) + 1
    BY <1>1, FS_AddElement
  <2>2. Cardinality(S \cup {i}) <= Cardinality(Item)
    BY ItemAssumption, FS_Subset
  <2> QED
    BY <1>1, <2>1, <2>2
<1> QED
  BY <1>1, <1>2, <1>3

(* A total is never taken for none.                                        *)
LEMMA SomeTotal == NoTotal \notin Amount /\ NoTotal \notin Total
<1>1. DOMAIN NoTotal = {"none"}
  BY DEF NoTotal
<1>2. \A t \in Amount : "pays" \in DOMAIN t
  BY DEF Amount
<1>3. \A t \in Total : "stamp" \in DOMAIN t
  BY DEF Total
<1> QED
  BY <1>1, <1>2, <1>3

LEMMA Amounts ==
  ASSUME TypeOK
  PROVE  /\ Measure \in Amount /\ Empty \in Amount
         /\ Cached \in Amount \cup {NoTotal}
         /\ \A t \in Amount : \A i : Less(t, i) \in Amount /\ More(t, i) \in Amount
<1>1. Cardinality(Item) \in Nat /\ Cardinality(records) \in 0..Cardinality(Item)
  BY Names DEF TypeOK
<1>2. Measure \in Amount /\ Empty \in Amount
  BY <1>1 DEF TypeOK, Measure, Empty, Amount
<1>3. Cached \in Amount \cup {NoTotal}
  BY DEF TypeOK, Cached, Current, Total
<1>4. ASSUME NEW t \in Amount, NEW i PROVE Less(t, i) \in Amount /\ More(t, i) \in Amount
  BY <1>1, <1>4 DEF TypeOK, Less, More, Amount
<1> QED
  BY <1>2, <1>3, <1>4

(* What an item takes off and adds is what it is in the trash.             *)
LEMMA Sums ==
  ASSUME TypeOK, NEW i \in records
  PROVE  /\ i \in payloads => More(Before(i), i) = Measure
         /\ \A t : ButFor(t, i) => Less(t, i) = Before(i)
         /\ ButFor(Measure, i)
<1>1. /\ Cardinality(records \ {i}) + 1 = Cardinality(records) /\ Cardinality(records) \in Nat
      /\ Cardinality(records) # 0 /\ Cardinality(Item) \in Nat /\ i \in Item
  BY Names DEF TypeOK
<1>2. Cardinality(records \ {i}) # Cardinality(Item) /\ Cardinality(records \ {i}) \in Nat
  BY <1>1, Names DEF TypeOK
<1>3. i \in payloads => More(Before(i), i) = Measure
  <2>1. i \in payloads =>
          /\ ((payloads \cap records) \ {i}) \cup ({i} \cap payloads) = payloads \cap records
          /\ (records \ {i}) \cup ({i} \cap records) = records
    OBVIOUS
  <2> QED
    BY <1>1, <1>2, <2>1 DEF More, Before, Measure
<1>4. ASSUME NEW t, ButFor(t, i) PROVE Less(t, i) = Before(i)
  <2>1. /\ t.pays \ {i} = (payloads \cap records) \ {i} /\ t.recs \ {i} = records \ {i}
        /\ (IF t.items = 0 THEN 0 ELSE t.items - 1) = Cardinality(records \ {i})
    BY <1>1, <1>2, <1>4 DEF ButFor
  <2> QED
    BY <2>1 DEF Less, Before
<1>5. ButFor(Measure, i)
  BY DEF ButFor, Measure
<1> QED
  BY <1>3, <1>4, <1>5

LEMMA Stored ==
  ASSUME TypeOK, NEW t \in Amount
  PROVE  /\ [amount |-> t, stamp |-> mtime] \in Total
         /\ [amount |-> t, stamp |-> now] \in Total
         /\ [amount |-> t, stamp |-> mtime] # NoTotal
         /\ [amount |-> t, stamp |-> now] # NoTotal
<1>1. mtime \in 0..MaxTick /\ now \in 0..MaxTick
  BY WindowAssumption DEF TypeOK
<1> QED
  BY <1>1, SomeTotal DEF Total

-----------------------------------------------------------------------------
(* Steps into, within and out of a section.                                *)
Section(p, l) ==
  /\ pc' \in [Procs -> Places] /\ pc'[p] = l /\ lock' \in Procs \cup {NoProc} /\ Locked'
  /\ \A q \in Procs \ {p} : pc'[q] = pc[q]

LEMMA Sections ==
  ASSUME IInv, NEW p \in Procs, NEW l
  PROVE  /\ l \in Holding /\ Acquire(p, l) => lock = NoProc /\ lock' = p /\ Section(p, l)
         /\ l \in Holding /\ pc[p] \in Holding /\ Hold(p, l) => lock = p /\ lock' = p /\ Section(p, l)
         /\ l \notin Holding /\ l \in Places /\ pc[p] \in Holding /\ Free(p, l) =>
              lock = p /\ lock' = NoProc /\ Section(p, l)
         /\ l \notin Holding /\ l \in Places /\ pc[p] \notin Holding /\ Hold(p, l) =>
              lock # p /\ lock' = lock /\ Section(p, l)
<1>0. pc \in [Procs -> Places] /\ Locked /\ lock \in Procs \cup {NoProc}
  BY DEF IInv, Types, TypeOK
<1>1. ASSUME l \in Holding, Acquire(p, l) PROVE lock = NoProc /\ lock' = p /\ Section(p, l)
  BY <1>0, <1>1, ProcAssumption DEF Acquire, Goto, Section, Locked, Places
<1>2. ASSUME l \in Holding, pc[p] \in Holding, Hold(p, l)
      PROVE  lock = p /\ lock' = p /\ Section(p, l)
  BY <1>0, <1>2 DEF Hold, Goto, Section, Locked, Places
<1>3. ASSUME l \notin Holding, l \in Places, pc[p] \in Holding, Free(p, l)
      PROVE  lock = p /\ lock' = NoProc /\ Section(p, l)
  BY <1>0, <1>3, ProcAssumption DEF Free, Goto, Section, Locked
<1>4. ASSUME l \notin Holding, l \in Places, pc[p] \notin Holding, Hold(p, l)
      PROVE  lock # p /\ lock' = lock /\ Section(p, l)
  BY <1>0, <1>4 DEF Hold, Goto, Section, Locked
<1> QED
  BY <1>1, <1>2, <1>3, <1>4

LEMMA Within ==
  ASSUME IInv, NEW p \in Procs, NEW l \in Holding, pc[p] = l, UNCHANGED <<pc, lock>>
  PROVE  lock = p /\ lock' = p /\ Section(p, l)
BY DEF IInv, Types, TypeOK, Section, Locked

(* While p has the lock, or just had it, no other process is in a section. *)
LEMMA Holder ==
  ASSUME IInv, NEW p \in Procs, NEW l, Section(p, l), lock' \in {p, NoProc},
         TypeOK', total' # NoTotal => total'.stamp <= mtime',
         \A q \in Procs \ {p} : before'[q] = before[q],
         l \notin {"measure", "store"}, InHand(p)',
         ~hurt' => /\ lock' = p => Told(p)' /\ Carried(p)'
                   /\ lock' = NoProc /\ Fresh' => total'.amount = Measure'
  PROVE  IInv'
<1>1. Types'
  BY DEF IInv, Types, Section
<1>2. ASSUME NEW q \in Procs PROVE InHand(q)'
  <2>1. CASE q = p
    BY <2>1
  <2>2. CASE q # p
    <3>1. pc'[q] \notin Holding
      BY <2>2, ProcAssumption DEF Section, Locked
    <3> QED
      BY <3>1 DEF InHand, Holding
  <2> QED
    BY <2>1, <2>2
<1>3. ~hurt' => TotalInv'
  BY ProcAssumption DEF TotalInv
<1> QED
  BY <1>1, <1>2, <1>3 DEF IInv, Section

(* A step of p outside of every section that leaves the trash and the      *)
(* total alone.                                                            *)
LEMMA Outsider ==
  ASSUME IInv, NEW p \in Procs, pc[p] \notin Holding, pc'[p] \notin Holding, NEW l, Section(p, l),
         UNCHANGED <<Trash, now, Book, lock, item, todo>>,
         before' \in [Procs -> Amount \cup {NoTotal}],
         \A q \in Procs \ {p} : before'[q] = before[q],
         l \in {"measure", "store"} => before'[p] # NoTotal
  PROVE  IInv'
<1>1. Types'
  BY DEF IInv, Types, TypeOK, Section, Trash, Book
<1>2. ASSUME NEW q \in Procs PROVE InHand(q)'
  <2>1. CASE q = p
    BY <2>1 DEF InHand, Holding
  <2>2. CASE q # p
    BY <2>2 DEF Section, IInv, InHand, Trash, Book
  <2> QED
    BY <2>1, <2>2
<1>3. ASSUME ~hurt' PROVE TotalInv'
  <2>1. TotalInv /\ (Fresh' <=> Fresh) /\ Measure' = Measure
    BY <1>3 DEF IInv, Trash, Book, Fresh, Measure
  <2>2. ASSUME NEW q \in Procs, lock' = q PROVE Told(q)' /\ Carried(q)'
    <3>1. q # p /\ Told(q) /\ Carried(q) /\ pc'[q] = pc[q] /\ before'[q] = before[q]
      BY <2>1, <2>2 DEF TotalInv, IInv, Locked, Section
    <3>2. Told(q)'
      BY <2>1, <3>1 DEF Told, ButFor, Before, Trash, Book
    <3>3. Carried(q)'
      BY <2>1, <3>1 DEF Carried, ButFor, Before, Less, Trash, Book
    <3> QED
      BY <3>2, <3>3
  <2> QED
    BY <2>1, <2>2 DEF TotalInv, Trash, Book
<1> QED
  BY <1>1, <1>2, <1>3 DEF IInv, Section

(* What is known of a section before its step.                             *)
LEMMA Known ==
  ASSUME IInv, NEW p \in Procs
  PROVE  /\ TypeOK /\ InHand(p) /\ pc[p] \in Places /\ mtime <= now
         /\ total # NoTotal => total.stamp \in Nat /\ total.stamp <= mtime
         /\ Fresh /\ mtime \in Nat /\ now \in Nat
              => total # NoTotal /\ total.stamp = mtime
         /\ mtime \in Nat /\ now \in Nat /\ MaxTick \in Nat
         /\ ~hurt /\ lock = p => Told(p) /\ Carried(p)
         /\ ~hurt /\ lock = NoProc => (Fresh => total.amount = Measure)
         /\ ~hurt /\ lock = NoProc => Cached \in {Measure, NoTotal}
<1>1. TypeOK /\ InHand(p) /\ pc[p] \in Places
  BY DEF IInv, Types
<1>2. mtime \in Nat /\ now \in Nat /\ MaxTick \in Nat /\ mtime <= now
  BY <1>1, WindowAssumption DEF TypeOK
<1>3. total # NoTotal => total.stamp \in Nat /\ total.stamp <= mtime
  BY <1>2, WindowAssumption DEF IInv, Types, TypeOK, Total
<1>4. ~hurt => TotalInv
  BY DEF IInv
<1>5. ~hurt /\ lock = NoProc => Cached \in {Measure, NoTotal}
  BY <1>4 DEF TotalInv, Cached, Current, Fresh
<1> QED
  BY <1>1, <1>2, <1>3, <1>4, <1>5 DEF TotalInv, Fresh

(* A put: the record comes before the payload, the total after both.       *)
LEMMA PutKeeps ==
  ASSUME IInv, NEW p \in Procs, Put(p) PROVE IInv'
<1>0. TypeOK /\ mtime \in Nat /\ now \in Nat /\ mtime <= now
  BY Known
<1>1. CASE PutLock(p)
  <2>1. pc[p] = "idle" /\ Acquire(p, "put_record") /\ UNCHANGED <<payloads, records, mtime, now, total, hurt, todo>>
    BY <1>1 DEF PutLock, Trash, Book
  <2>2. lock = NoProc /\ lock' = p /\ Section(p, "put_record")
    BY <2>1, Sections DEF Holding
  <2>3. before' = [before EXCEPT ![p] = Cached] /\ before'[p] = Cached
    BY <1>0, <1>1 DEF PutLock, TypeOK
  <2>4. PICK i \in Item \ (payloads \cup records) : item' = [item EXCEPT ![p] = i]
    BY <1>1 DEF PutLock
  <2>5. TypeOK'
    BY <1>0, <2>1, <2>2, <2>3, <2>4, Amounts DEF TypeOK, Section
  <2>6. InHand(p)'
    BY <1>0, <2>1, <2>2, <2>4 DEF TypeOK, InHand, Section
  <2>7. ~hurt => Told(p)' /\ Carried(p)'
    BY <2>1, <2>2, <2>3, Known DEF Told, Carried, Section, Fresh, Measure
  <2> QED
    BY <1>0, <2>1, <2>2, <2>3, <2>5, <2>6, <2>7, Holder, Known, ProcAssumption DEF TypeOK
<1>2. CASE PutRecord(p)
  <2>1. pc[p] = "put_record" /\ Hold(p, "put_move") /\ UNCHANGED <<payloads, now, total, hurt, item, todo, before>>
        /\ records' = records \cup {item[p]} /\ mtime' = now
    BY <1>2 DEF PutRecord, SetRecords, Book, Mine
  <2>2. lock = p /\ lock' = p /\ Section(p, "put_move")
    BY <2>1, Sections DEF Holding
  <2>3. item[p] \in Item \ (payloads \cup records)
    BY <2>1, Known DEF InHand
  <2>4. TypeOK'
    BY <1>0, <2>1, <2>2, <2>3 DEF TypeOK, Section
  <2>5. InHand(p)'
    BY <2>1, <2>2, <2>3 DEF InHand, Section
  <2>6. Measure = Before(item[p])'
    BY <2>1, <2>3 DEF Measure, Before
  <2>7. Fresh' => Fresh
    BY <1>0, <2>1, Known DEF Fresh
  <2>8. ~hurt => Told(p)' /\ Carried(p)'
    BY <2>1, <2>2, <2>6, <2>7, Known DEF Told, Carried, Section
  <2> QED
    BY <1>0, <2>1, <2>2, <2>4, <2>5, <2>8, Holder, Known, ProcAssumption
<1>3. CASE PutMove(p)
  <2>1. pc[p] = "put_move" /\ Hold(p, "put_total") /\ UNCHANGED <<records, mtime, now, total, hurt, item, todo, before>>
        /\ payloads' = payloads \cup {item[p]}
    BY <1>3 DEF PutMove, Book, Mine
  <2>2. lock = p /\ lock' = p /\ Section(p, "put_total")
    BY <2>1, Sections DEF Holding
  <2>3. item[p] \in records \ payloads
    BY <2>1, Known DEF InHand
  <2>4. TypeOK'
    BY <1>0, <2>1, <2>2, <2>3 DEF TypeOK, Section
  <2>5. InHand(p)'
    BY <2>1, <2>2, <2>3 DEF InHand, Section
  <2>6. Before(item[p]) = Before(item[p])'
    BY <2>1, <2>3 DEF Before
  <2>8. ~hurt => Told(p)' /\ Carried(p)'
    BY <2>1, <2>2, <2>6, Known DEF Told, Carried, Section
  <2> QED
    BY <1>0, <2>1, <2>2, <2>4, <2>5, <2>8, Holder, Known, ProcAssumption
<1>4. CASE PutMoveFails(p)
  <2>1. pc[p] = "put_move" /\ Free(p, "idle") /\ UNCHANGED <<payloads, now, total, hurt, item, todo, before>>
        /\ records' = records \ {item[p]} /\ mtime' = now
    BY <1>4 DEF PutMoveFails, SetRecords, Book, Mine
  <2>2. lock = p /\ lock' = NoProc /\ Section(p, "idle")
    BY <2>1, Sections DEF Holding, Places
  <2>3. item[p] \in records \ payloads
    BY <2>1, Known DEF InHand
  <2>4. TypeOK'
    BY <1>0, <2>1, <2>2, <2>3 DEF TypeOK, Section
  <2>5. InHand(p)'
    BY <2>2 DEF InHand, Section
  <2>6. Before(item[p]) = Measure'
    BY <2>1, <2>3 DEF Before, Measure
  <2>7. Fresh' => Fresh
    BY <1>0, <2>1, Known DEF Fresh
  <2>8. ~hurt => (Fresh' => total'.amount = Measure')
    BY <2>1, <2>2, <2>6, <2>7, Known DEF Told
  <2> QED
    BY <1>0, <2>1, <2>2, <2>4, <2>5, <2>8, Holder, Known, ProcAssumption
<1>5. CASE PutSourceLeft(p)
  <2>1. pc[p] = "put_move" /\ Free(p, "idle") /\ UNCHANGED <<records, mtime, now, total, item, todo, before>>
        /\ payloads' = payloads \cup {item[p]} /\ hurt' = (hurt \/ Fresh')
    BY <1>5 DEF PutSourceLeft, Unseen, Mine, Fresh
  <2>2. lock = p /\ lock' = NoProc /\ Section(p, "idle")
    BY <2>1, Sections DEF Holding, Places
  <2>3. item[p] \in records \ payloads
    BY <2>1, Known DEF InHand
  <2>4. TypeOK'
    BY <1>0, <2>1, <2>2, <2>3 DEF TypeOK, Section, Fresh
  <2>5. InHand(p)'
    BY <2>2 DEF InHand, Section
  <2> QED
    BY <1>0, <2>1, <2>2, <2>4, <2>5, Holder, Known, ProcAssumption
<1>6. CASE PutTotal(p)
  <2>0. pc[p] = "put_total" /\ Free(p, "log") /\ UNCHANGED <<payloads, records, mtime, now, item, todo, before>>
    BY <1>6 DEF PutTotal, Trash, Mine
  <2>1. /\ before[p] = NoTotal => total' = NoTotal /\ hurt' = FALSE
        /\ before[p] # NoTotal => /\ total' = [amount |-> More(before[p], item[p]), stamp |-> mtime]
                                  /\ hurt' = hurt
    <3>1. before[p] # NoTotal => before[p] \in Amount
      BY <1>0 DEF TypeOK
    <3> QED
      BY <1>0, <1>6, <3>1, Amounts, SomeTotal DEF PutTotal, Carry, Forget, Store
  <2>2. lock = p /\ lock' = NoProc /\ Section(p, "log")
    BY <2>0, Sections DEF Holding, Places
  <2>3. item[p] \in records \cap payloads
    BY <2>0, Known DEF InHand
  <2>4. TypeOK'
    <3>1. total' \in Total \cup {NoTotal} /\ hurt' \in BOOLEAN
      BY <1>0, <2>1, Amounts, Stored DEF TypeOK
    <3> QED
      BY <1>0, <2>0, <2>2, <3>1 DEF TypeOK, Section
  <2>5. InHand(p)'
    BY <2>2 DEF InHand, Section
  <2>6. More(Before(item[p]), item[p]) = Measure'
    BY <1>0, <2>0, <2>3, Sums DEF Measure
  <2>7. ~hurt' /\ total' # NoTotal => total'.amount = Measure'
    BY <2>0, <2>1, <2>2, <2>6, Known DEF Carried
  <2> QED
    BY <1>0, <2>0, <2>1, <2>2, <2>4, <2>5, <2>7, Holder, Known, ProcAssumption DEF Fresh
<1> QED
  BY <1>1, <1>2, <1>3, <1>4, <1>5, <1>6 DEF Put

(* An rm: the total is dropped before the record goes.                     *)
LEMMA RmKeeps ==
  ASSUME IInv, NEW p \in Procs, Rm(p) PROVE IInv'
<1>0. TypeOK /\ mtime \in Nat /\ now \in Nat /\ mtime <= now
  BY Known
<1>1. CASE RmLock(p)
  <2>1. pc[p] = "idle" /\ Acquire(p, "rm_payload")
        /\ UNCHANGED <<payloads, records, mtime, now, total, hurt, todo, before>>
    BY <1>1 DEF RmLock, Trash, Book
  <2>2. lock = NoProc /\ lock' = p /\ Section(p, "rm_payload")
    BY <2>1, Sections DEF Holding
  <2>3. PICK i \in payloads \cup records : item' = [item EXCEPT ![p] = i]
    BY <1>1 DEF RmLock
  <2>4. TypeOK'
    BY <1>0, <2>1, <2>2, <2>3 DEF TypeOK, Section
  <2>5. InHand(p)'
    BY <1>0, <2>2, <2>3 DEF TypeOK, InHand, Section
  <2>6. ~hurt => Told(p)' /\ Carried(p)'
    BY <2>1, <2>2, Known DEF Told, Carried, Section, Fresh, Measure
  <2> QED
    BY <1>0, <2>1, <2>2, <2>4, <2>5, <2>6, Holder, Known, ProcAssumption
<1>2. CASE RmPayload(p)
  <2>1. pc[p] = "rm_payload" /\ Hold(p, "rm_forget") /\ payloads' = payloads \ {item[p]}
        /\ UNCHANGED <<records, mtime, now, total, hurt, item, todo, before>>
    BY <1>2 DEF RmPayload, Book, Mine
  <2>2. lock = p /\ lock' = p /\ Section(p, "rm_forget")
    BY <2>1, Sections DEF Holding
  <2>3. item[p] \in Item
    BY <2>1, Known DEF InHand
  <2>4. TypeOK'
    BY <1>0, <2>1, <2>2 DEF TypeOK, Section
  <2>5. InHand(p)'
    BY <2>1, <2>2, <2>3 DEF InHand, Section
  <2>6. ASSUME total.amount = Measure PROVE ButFor(total.amount, item[p])'
    BY <2>1, <2>6 DEF ButFor, Measure
  <2>7. ~hurt => Told(p)' /\ Carried(p)'
    BY <2>1, <2>2, <2>6, Known DEF Told, Carried, Section, Fresh
  <2> QED
    BY <1>0, <2>1, <2>2, <2>4, <2>5, <2>7, Holder, Known, ProcAssumption
<1>3. CASE RmStuck(p) \/ RmOrphan(p)
  <2>1. \E l \in {"idle", "log"} : Free(p, l)
    BY <1>3 DEF RmStuck, RmOrphan
  <2>2. PICK l \in {"idle", "log"} : lock = p /\ lock' = NoProc /\ Section(p, l)
    BY <1>3, <2>1, Sections DEF RmStuck, RmOrphan, Holding, Places
  <2>3. /\ UNCHANGED <<payloads, records, mtime, now, total, hurt, item, todo, before>>
        /\ pc[p] = "rm_payload" \/ (pc[p] = "rm_forget" /\ item[p] \notin records)
    BY <1>3 DEF RmStuck, RmOrphan, Trash, Book, Mine
  <2>4. TypeOK'
    BY <1>0, <2>2, <2>3 DEF TypeOK, Section
  <2>5. InHand(p)'
    BY <2>2 DEF InHand, Section
  <2>6. ASSUME ~hurt, Fresh PROVE total.amount = Measure
    <3>1. CASE pc[p] = "rm_payload"
      BY <2>2, <2>6, <3>1, Known DEF Told
    <3>2. CASE pc[p] = "rm_forget" /\ item[p] \notin records
      <4>1. ButFor(total.amount, item[p]) /\ total.amount \in Amount
        BY <1>0, <2>2, <2>6, <3>2, Known DEF Told, Fresh, TypeOK, Total
      <4>2. total.amount.pays = payloads \cap records
        BY <3>2, <4>1 DEF ButFor
      <4> QED
        BY <4>1, <4>2 DEF ButFor, Amount, Measure
    <3> QED
      BY <2>3, <3>1, <3>2
  <2>7. ~hurt => (Fresh' => total'.amount = Measure')
    BY <2>3, <2>6 DEF Fresh, Measure
  <2> QED
    BY <1>0, <2>2, <2>3, <2>4, <2>5, <2>7, Holder, Known, ProcAssumption
<1>4. CASE RmForget(p)
  <2>1. /\ pc[p] = "rm_forget" /\ Hold(p, "rm_record") /\ item[p] \in records
        /\ UNCHANGED <<payloads, records, mtime, now, item, todo>>
        /\ total' = NoTotal /\ hurt' = (hurt /\ Current)
    BY <1>4 DEF RmForget, Trash
  <2>2. lock = p /\ lock' = p /\ Section(p, "rm_record")
    BY <2>1, Sections DEF Holding
  <2>3. before' = [before EXCEPT ![p] = Cached] /\ before'[p] = Cached
    BY <1>0, <1>4 DEF RmForget, TypeOK
  <2>4. TypeOK'
    BY <1>0, <2>1, <2>2, <2>3, Amounts DEF TypeOK, Section
  <2>5. InHand(p)'
    BY <2>1, <2>2 DEF InHand, Section
  <2>6. ASSUME ~hurt', before'[p] # NoTotal PROVE ButFor(before[p], item[p])'
    <3>1. ~hurt /\ Fresh /\ before'[p] = total.amount
      BY <2>1, <2>3, <2>6 DEF Cached, Current, Fresh
    <3>2. ButFor(total.amount, item[p])
      BY <2>1, <2>2, <3>1, Known DEF Told
    <3> QED
      BY <2>1, <3>1, <3>2 DEF ButFor
  <2>7. ~hurt' => Told(p)' /\ Carried(p)'
    BY <2>1, <2>2, <2>6 DEF Told, Carried, Section
  <2> QED
    BY <1>0, <2>1, <2>2, <2>3, <2>4, <2>5, <2>7, Holder, Known, ProcAssumption DEF TypeOK
<1>5. CASE RmRecord(p)
  <2>1. pc[p] = "rm_record" /\ Hold(p, "rm_store") /\ records' = records \ {item[p]} /\ mtime' = now
        /\ UNCHANGED <<payloads, now, total, hurt, item, todo, before>>
    BY <1>5 DEF RmRecord, SetRecords, Book, Mine
  <2>2. lock = p /\ lock' = p /\ Section(p, "rm_store")
    BY <2>1, Sections DEF Holding
  <2>3. item[p] \in records
    BY <2>1, Known DEF InHand
  <2>4. TypeOK'
    BY <1>0, <2>1, <2>2 DEF TypeOK, Section
  <2>5. InHand(p)'
    BY <2>2 DEF InHand, Section
  <2>6. Before(item[p]) = Measure' /\ \A t : ButFor(t, item[p]) => Less(t, item[p]) = Before(item[p])
    BY <1>0, <2>1, <2>3, Sums DEF Before, Measure
  <2>7. ~hurt => Told(p)' /\ Carried(p)'
    <3>1. ~hurt => total' = NoTotal
      BY <2>1, <2>2, Known DEF Told
    <3>2. ~hurt /\ before[p] # NoTotal => Less(before[p], item[p])' = Measure'
      BY <2>1, <2>2, <2>6, Known DEF Carried, Less
    <3> QED
      BY <2>1, <2>2, <3>1, <3>2 DEF Told, Carried, Section
  <2> QED
    BY <1>0, <2>1, <2>2, <2>4, <2>5, <2>7, Holder, Known, ProcAssumption
<1>6. CASE RmRecordStuck(p)
  <2>1. pc[p] = "rm_record" /\ Free(p, "log")
        /\ UNCHANGED <<payloads, records, mtime, now, total, hurt, item, todo, before>>
    BY <1>6 DEF RmRecordStuck, Trash, Book, Mine
  <2>2. lock = p /\ lock' = NoProc /\ Section(p, "log")
    BY <2>1, Sections DEF Holding, Places
  <2>4. TypeOK'
    BY <1>0, <2>1, <2>2 DEF TypeOK, Section
  <2>5. InHand(p)'
    BY <2>2 DEF InHand, Section
  <2>7. ~hurt => total' = NoTotal
    BY <2>1, <2>2, Known DEF Told
  <2> QED
    BY <1>0, <2>1, <2>2, <2>4, <2>5, <2>7, Holder, Known, ProcAssumption DEF Fresh
<1>7. CASE RmStore(p)
  <2>1. pc[p] = "rm_store" /\ Free(p, "log")
        /\ UNCHANGED <<payloads, records, mtime, now, hurt, item, todo, before>>
        /\ (before[p] = NoTotal => total' = total)
        /\ (before[p] # NoTotal => total' = [amount |-> Less(before[p], item[p]), stamp |-> mtime])
    BY <1>7 DEF RmStore, Trash, Book, Mine, Store
  <2>2. lock = p /\ lock' = NoProc /\ Section(p, "log")
    BY <2>1, Sections DEF Holding, Places
  <2>3. before[p] # NoTotal => Less(before[p], item[p]) \in Amount
    BY <1>0, Amounts DEF TypeOK
  <2>4. TypeOK'
    <3>1. total' \in Total \cup {NoTotal}
      BY <1>0, <2>1, <2>3, Stored DEF TypeOK
    <3> QED
      BY <1>0, <2>1, <2>2, <3>1 DEF TypeOK, Section
  <2>5. InHand(p)'
    BY <2>2 DEF InHand, Section
  <2>6. total' # NoTotal => total'.stamp <= mtime'
    BY <1>0, <2>1, <2>3, Known
  <2>8. Measure' = Measure
    BY <2>1 DEF Measure
  <2>7. ~hurt /\ total' # NoTotal => total'.amount = Measure'
    <3>1. ~hurt => total = NoTotal
      BY <2>1, <2>2, Known DEF Told
    <3>2. ~hurt /\ before[p] # NoTotal => Less(before[p], item[p]) = Measure
      BY <2>1, <2>2, Known DEF Carried
    <3> QED
      BY <2>1, <2>8, <3>1, <3>2
  <2> QED
    BY <1>0, <2>1, <2>2, <2>4, <2>5, <2>6, <2>7, Holder, Known, ProcAssumption DEF Fresh
<1> QED
  BY <1>1, <1>2, <1>3, <1>4, <1>5, <1>6, <1>7 DEF Rm

(* A restore: the total is read after the payload left.                    *)
LEMMA RestoreKeeps ==
  ASSUME IInv, NEW p \in Procs, Restore(p) PROVE IInv'
<1>0. TypeOK /\ mtime \in Nat /\ now \in Nat /\ mtime <= now
  BY Known
<1>1. CASE RestoreLock(p)
  <2>1. pc[p] = "idle" /\ Acquire(p, "re_move")
        /\ UNCHANGED <<payloads, records, mtime, now, total, hurt, todo, before>>
    BY <1>1 DEF RestoreLock, Trash, Book
  <2>2. lock = NoProc /\ lock' = p /\ Section(p, "re_move")
    BY <2>1, Sections DEF Holding
  <2>3. PICK i \in payloads \cap records : item' = [item EXCEPT ![p] = i]
    BY <1>1 DEF RestoreLock
  <2>4. TypeOK'
    BY <1>0, <2>1, <2>2, <2>3 DEF TypeOK, Section
  <2>5. InHand(p)'
    BY <1>0, <2>1, <2>2, <2>3 DEF TypeOK, InHand, Section
  <2>6. ~hurt => Told(p)' /\ Carried(p)'
    BY <2>1, <2>2, Known DEF Told, Carried, Section, Fresh, Measure
  <2> QED
    BY <1>0, <2>1, <2>2, <2>4, <2>5, <2>6, Holder, Known, ProcAssumption
<1>2. CASE RestoreFails(p)
  <2>1. pc[p] = "re_move" /\ Free(p, "idle")
        /\ UNCHANGED <<payloads, records, mtime, now, total, hurt, item, todo, before>>
    BY <1>2 DEF RestoreFails, Trash, Book, Mine
  <2>2. lock = p /\ lock' = NoProc /\ Section(p, "idle")
    BY <2>1, Sections DEF Holding, Places
  <2>4. TypeOK'
    BY <1>0, <2>1, <2>2 DEF TypeOK, Section
  <2>5. InHand(p)'
    BY <2>2 DEF InHand, Section
  <2>7. ~hurt => (Fresh' => total'.amount = Measure')
    BY <2>1, <2>2, Known DEF Told, Fresh, Measure
  <2> QED
    BY <1>0, <2>1, <2>2, <2>4, <2>5, <2>7, Holder, Known, ProcAssumption
<1>3. CASE RestoreMove(p)
  <2>1. pc[p] = "re_move" /\ Hold(p, "re_read") /\ payloads' \in {payloads, payloads \ {item[p]}}
        /\ UNCHANGED <<records, mtime, now, total, hurt, item, todo, before>>
    BY <1>3 DEF RestoreMove, Book, Mine
  <2>2. lock = p /\ lock' = p /\ Section(p, "re_read")
    BY <2>1, Sections DEF Holding
  <2>3. item[p] \in records
    BY <2>1, Known DEF InHand
  <2>4. TypeOK'
    BY <1>0, <2>1, <2>2 DEF TypeOK, Section
  <2>5. InHand(p)'
    BY <2>1, <2>2, <2>3 DEF InHand, Section
  <2>6. ASSUME total.amount = Measure PROVE ButFor(total.amount, item[p])'
    BY <2>1, <2>6 DEF ButFor, Measure
  <2>7. ~hurt => Told(p)' /\ Carried(p)'
    BY <2>1, <2>2, <2>6, Known DEF Told, Carried, Section, Fresh
  <2> QED
    BY <1>0, <2>1, <2>2, <2>4, <2>5, <2>7, Holder, Known, ProcAssumption
<1>4. CASE RestoreRead(p)
  <2>1. pc[p] = "re_read" /\ Hold(p, "re_record")
        /\ UNCHANGED <<payloads, records, mtime, now, total, hurt, item, todo>>
    BY <1>4 DEF RestoreRead, Trash, Book
  <2>2. lock = p /\ lock' = p /\ Section(p, "re_record")
    BY <2>1, Sections DEF Holding
  <2>3. before' = [before EXCEPT ![p] = Cached] /\ before'[p] = Cached
    BY <1>0, <1>4 DEF RestoreRead, TypeOK
  <2>4. TypeOK'
    BY <1>0, <2>1, <2>2, <2>3, Amounts DEF TypeOK, Section
  <2>5. InHand(p)'
    BY <2>1, <2>2, Known DEF InHand, Section
  <2>6. ASSUME ~hurt, before'[p] # NoTotal PROVE ButFor(before[p], item[p])'
    <3>1. Fresh /\ before'[p] = total.amount
      BY <2>1, <2>3, <2>6 DEF Cached, Current, Fresh
    <3>2. ButFor(total.amount, item[p])
      BY <2>1, <2>2, <2>6, <3>1, Known DEF Told
    <3> QED
      BY <2>1, <3>1, <3>2 DEF ButFor
  <2>7. ~hurt => Told(p)' /\ Carried(p)'
    BY <2>1, <2>2, <2>6 DEF Told, Carried, Section
  <2> QED
    BY <1>0, <2>1, <2>2, <2>3, <2>4, <2>5, <2>7, Holder, Known, ProcAssumption DEF TypeOK
<1>5. CASE RestoreRecord(p)
  <2>1. pc[p] = "re_record" /\ Hold(p, "re_store") /\ records' = records \ {item[p]} /\ mtime' = now
        /\ UNCHANGED <<payloads, now, total, hurt, item, todo, before>>
    BY <1>5 DEF RestoreRecord, SetRecords, Book, Mine
  <2>2. lock = p /\ lock' = p /\ Section(p, "re_store")
    BY <2>1, Sections DEF Holding
  <2>3. item[p] \in records
    BY <2>1, Known DEF InHand
  <2>4. TypeOK'
    BY <1>0, <2>1, <2>2 DEF TypeOK, Section
  <2>5. InHand(p)'
    BY <2>2 DEF InHand, Section
  <2>6. Before(item[p]) = Measure' /\ \A t : ButFor(t, item[p]) => Less(t, item[p]) = Before(item[p])
    BY <1>0, <2>1, <2>3, Sums DEF Before, Measure
  <2>7. ~hurt => Told(p)' /\ Carried(p)'
    <3>2. ~hurt /\ before[p] # NoTotal => Less(before[p], item[p])' = Measure'
      BY <2>1, <2>2, <2>6, Known DEF Carried, Less
    <3> QED
      BY <2>1, <2>2, <3>2 DEF Told, Carried, Section
  <2> QED
    BY <1>0, <2>1, <2>2, <2>4, <2>5, <2>7, Holder, Known, ProcAssumption
<1>6. CASE RestoreRecordStuck(p)
  <2>1. pc[p] = "re_record" /\ Free(p, "log") /\ hurt' = (hurt \/ Fresh')
        /\ UNCHANGED <<payloads, records, mtime, now, total, item, todo, before>>
    BY <1>6 DEF RestoreRecordStuck, Trash, Unseen, Mine, Fresh
  <2>2. lock = p /\ lock' = NoProc /\ Section(p, "log")
    BY <2>1, Sections DEF Holding, Places
  <2>4. TypeOK'
    BY <1>0, <2>1, <2>2 DEF TypeOK, Section, Fresh
  <2>5. InHand(p)'
    BY <2>2 DEF InHand, Section
  <2> QED
    BY <1>0, <2>1, <2>2, <2>4, <2>5, Holder, Known, ProcAssumption
<1>7. CASE RestoreStore(p)
  <2>0. pc[p] = "re_store" /\ Free(p, "log") /\ UNCHANGED <<payloads, records, mtime, now, item, todo, before>>
    BY <1>7 DEF RestoreStore, Trash, Mine
  <2>3. before[p] # NoTotal => Less(before[p], item[p]) \in Amount
    BY <1>0, Amounts DEF TypeOK
  <2>1. \/ total' = NoTotal /\ hurt' = FALSE
        \/ /\ before[p] # NoTotal /\ hurt' = hurt
           /\ total' = [amount |-> Less(before[p], item[p]), stamp |-> mtime]
    BY <1>7, <2>3, SomeTotal DEF RestoreStore, Carry, Forget, Store
  <2>2. lock = p /\ lock' = NoProc /\ Section(p, "log")
    BY <2>0, Sections DEF Holding, Places
  <2>4. TypeOK'
    <3>1. total' \in Total \cup {NoTotal} /\ hurt' \in BOOLEAN
      BY <1>0, <2>1, <2>3, Stored DEF TypeOK
    <3> QED
      BY <1>0, <2>0, <2>2, <3>1 DEF TypeOK, Section
  <2>5. InHand(p)'
    BY <2>2 DEF InHand, Section
  <2>6. Measure' = Measure
    BY <2>0 DEF Measure
  <2>7. ~hurt' /\ total' # NoTotal => total'.amount = Measure'
    <3>1. ~hurt /\ before[p] # NoTotal => Less(before[p], item[p]) = Measure
      BY <2>0, <2>2, Known DEF Carried
    <3> QED
      BY <2>1, <2>6, <3>1
  <2> QED
    BY <1>0, <2>0, <2>1, <2>2, <2>4, <2>5, <2>7, Holder, Known, ProcAssumption DEF Fresh
<1> QED
  BY <1>1, <1>2, <1>3, <1>4, <1>5, <1>6, <1>7 DEF Restore

(* An empty of old items or a prune carries its total item by item; an     *)
(* empty of everything writes that nothing is left, or drops the total.    *)
LEMMA PurgeKeeps ==
  ASSUME IInv, NEW p \in Procs, Purge(p) PROVE IInv'
<1>0. TypeOK /\ mtime \in Nat /\ now \in Nat /\ mtime <= now
  BY Known
<1>1. CASE PurgeLock(p)
  <2>1. pc[p] = "idle" /\ Acquire(p, "purge") /\ UNCHANGED <<payloads, records, mtime, now, total, item>>
    BY <1>1 DEF PurgeLock, Trash
  <2>2. lock = NoProc /\ lock' = p /\ Section(p, "purge")
    BY <2>1, Sections DEF Holding
  <2>3. /\ todo' \in [Procs -> SUBSET Item] /\ todo'[p] \subseteq records
        /\ before' \in [Procs -> Amount \cup {NoTotal}] /\ hurt' \in BOOLEAN
        /\ \A q \in Procs \ {p} : before'[q] = before[q]
        /\ \/ before'[p] = Cached /\ hurt' = hurt
           \/ before'[p] = Measure
    BY <1>0, <1>1, Amounts DEF PurgeLock, TypeOK
  <2>4. TypeOK'
    BY <1>0, <2>1, <2>2, <2>3 DEF TypeOK, Section
  <2>5. InHand(p)'
    BY <2>1, <2>2, <2>3 DEF InHand, Section
  <2>6. Measure' = Measure
    BY <2>1 DEF Measure
  <2>7. ~hurt' => Told(p)' /\ Carried(p)'
    <3>1. ~hurt' => before'[p] \in {Measure, NoTotal}
      BY <2>2, <2>3, Known
    <3> QED
      BY <2>2, <2>6, <3>1 DEF Told, Carried, Section
  <2> QED
    BY <1>0, <2>1, <2>2, <2>3, <2>4, <2>5, <2>7, Holder, Known, ProcAssumption
<1>2. ASSUME NEW i \in Item, PurgeItem(p, i) PROVE IInv'
  <2>1. /\ pc[p] = "purge" /\ i \in todo[p] /\ UNCHANGED <<pc, lock, now, total, hurt, item>>
        /\ payloads' = payloads \ {i} /\ records' = records \ {i} /\ mtime' = now
        /\ todo' = [todo EXCEPT ![p] = todo[p] \ {i}]
        /\ before' = [before EXCEPT ![p] =
                        IF before[p] = NoTotal THEN before[p] ELSE Less(before[p], i)]
    BY <1>2 DEF PurgeItem, SetRecords, Book
  <2>2. lock = p /\ lock' = p /\ Section(p, "purge")
    BY <2>1, Within DEF Holding
  <2>3. i \in records /\ todo'[p] \subseteq records'
    BY <1>0, <2>1, Known DEF InHand, TypeOK
  <2>4. TypeOK'
    <3>1. before' \in [Procs -> Amount \cup {NoTotal}]
      BY <1>0, <2>1, Amounts DEF TypeOK
    <3> QED
      BY <1>0, <2>1, <2>2, <3>1 DEF TypeOK, Section
  <2>5. InHand(p)'
    BY <2>2, <2>3 DEF InHand, Section
  <2>6. Less(Measure, i) = Measure'
    BY <1>0, <2>1, <2>3, Sums DEF Before, Measure
  <2>7. ~hurt => Told(p)' /\ Carried(p)'
    <3>1. ~hurt /\ before[p] # NoTotal => before[p] = Measure
      BY <2>1, <2>2, Known DEF Carried
    <3>2. ~hurt /\ before'[p] # NoTotal => before'[p] = Measure'
      BY <1>0, <2>1, <2>6, <3>1 DEF TypeOK
    <3> QED
      BY <2>2, <3>2 DEF Told, Carried, Section
  <2> QED
    BY <1>0, <2>1, <2>2, <2>4, <2>5, <2>7, Holder, Known, ProcAssumption DEF TypeOK
<1>3. ASSUME NEW i \in Item, PurgeStuck(p, i) PROVE IInv'
  <2>1. /\ pc[p] = "purge"
        /\ UNCHANGED <<pc, lock, payloads, records, mtime, now, total, hurt, item, before>>
        /\ todo' = [todo EXCEPT ![p] = todo[p] \ {i}]
    BY <1>3 DEF PurgeStuck, Trash, Book
  <2>2. lock = p /\ lock' = p /\ Section(p, "purge")
    BY <2>1, Within DEF Holding
  <2>4. TypeOK'
    BY <1>0, <2>1, <2>2 DEF TypeOK, Section
  <2>5. InHand(p)'
    BY <1>0, <2>1, <2>2, Known DEF InHand, Section, TypeOK
  <2>7. ~hurt => Told(p)' /\ Carried(p)'
    BY <2>1, <2>2, Known DEF Told, Carried, Section, Measure
  <2> QED
    BY <1>0, <2>1, <2>2, <2>4, <2>5, <2>7, Holder, Known, ProcAssumption
<1>4. ASSUME NEW i \in Item, PurgeRecordStuck(p, i) PROVE IInv'
  <2>1. /\ pc[p] = "purge" /\ hurt' = TRUE
        /\ UNCHANGED <<pc, lock, records, mtime, now, total, item>>
        /\ payloads' = payloads \ {i}
        /\ todo' = [todo EXCEPT ![p] = todo[p] \ {i}]
        /\ \A q \in Procs \ {p} : before'[q] = before[q]
    BY <1>0, <1>4 DEF PurgeRecordStuck, TypeOK
  <2>2. lock = p /\ lock' = p /\ Section(p, "purge")
    BY <2>1, Within DEF Holding
  <2>4. TypeOK'
    <3>1. before' \in [Procs -> Amount \cup {NoTotal}]
      BY <1>0, <1>4, Amounts DEF PurgeRecordStuck, TypeOK
    <3> QED
      BY <1>0, <2>1, <2>2, <3>1 DEF TypeOK, Section
  <2>5. InHand(p)'
    BY <1>0, <2>1, <2>2, Known DEF InHand, Section, TypeOK
  <2> QED
    BY <1>0, <2>1, <2>2, <2>4, <2>5, Holder, Known, ProcAssumption
<1>5. CASE PurgeTotal(p)
  <2>0. /\ pc[p] = "purge" /\ Free(p, "log") /\ todo' = [todo EXCEPT ![p] = {}]
        /\ UNCHANGED <<payloads, records, mtime, now, item, before>>
    BY <1>5 DEF PurgeTotal, Trash
  <2>1. \/ total' = NoTotal /\ hurt' = FALSE
        \/ /\ before[p] # NoTotal /\ hurt' = hurt
           /\ total' = [amount |-> before[p], stamp |-> mtime]
    BY <1>5 DEF PurgeTotal, Carry, Forget, Store
  <2>2. lock = p /\ lock' = NoProc /\ Section(p, "log")
    BY <2>0, Sections DEF Holding, Places
  <2>3. before[p] # NoTotal => before[p] \in Amount
    BY <1>0 DEF TypeOK
  <2>4. TypeOK'
    <3>1. total' \in Total \cup {NoTotal} /\ hurt' \in BOOLEAN
      BY <1>0, <2>1, <2>3, Stored DEF TypeOK
    <3> QED
      BY <1>0, <2>0, <2>2, <3>1 DEF TypeOK, Section
  <2>5. InHand(p)'
    BY <2>2 DEF InHand, Section
  <2>6. Measure' = Measure
    BY <2>0 DEF Measure
  <2>7. ~hurt' /\ total' # NoTotal => total'.amount = Measure'
    <3>1. ~hurt /\ before[p] # NoTotal => before[p] = Measure
      BY <2>0, <2>2, Known DEF Carried
    <3> QED
      BY <2>1, <2>6, <3>1
  <2> QED
    BY <1>0, <2>0, <2>1, <2>2, <2>4, <2>5, <2>7, Holder, Known, ProcAssumption DEF Fresh
<1>6. CASE Wipe(p)
  <2>1. /\ pc[p] = "idle" /\ Acquire(p, "wipe_total")
        /\ payloads' = records' /\ records' \subseteq records /\ mtime' \in {mtime, now}
        /\ UNCHANGED <<now, total, hurt, item, todo, before>>
    BY <1>6 DEF Wipe, Book, Mine
  <2>2. lock = NoProc /\ lock' = p /\ Section(p, "wipe_total")
    BY <2>1, Sections DEF Holding
  <2>4. TypeOK'
    BY <1>0, <2>1, <2>2 DEF TypeOK, Section
  <2>5. InHand(p)'
    BY <2>1, <2>2 DEF InHand, Section
  <2>6. total' # NoTotal => total'.stamp <= mtime'
    BY <1>0, <2>1, Known
  <2>7. Told(p)' /\ Carried(p)'
    BY <2>2 DEF Told, Carried, Section
  <2> QED
    BY <1>0, <2>1, <2>2, <2>4, <2>5, <2>6, <2>7, Holder, ProcAssumption
<1>7. CASE WipeTotal(p)
  <2>0. pc[p] = "wipe_total" /\ Free(p, "log") /\ UNCHANGED <<payloads, records, mtime, now, item, todo, before>>
    BY <1>7 DEF WipeTotal, Trash, Mine
  <2>1. /\ hurt' = FALSE
        /\ \/ total' = NoTotal
           \/ payloads = {} /\ total' = [amount |-> Empty, stamp |-> mtime]
    BY <1>7 DEF WipeTotal, Forget, Store
  <2>2. lock = p /\ lock' = NoProc /\ Section(p, "log")
    BY <2>0, Sections DEF Holding, Places
  <2>3. payloads = records
    BY <2>0, Known DEF InHand
  <2>4. TypeOK'
    <3>1. total' \in Total \cup {NoTotal}
      BY <1>0, <2>1, Stored, Amounts
    <3> QED
      BY <1>0, <2>0, <2>1, <2>2, <3>1 DEF TypeOK, Section
  <2>5. InHand(p)'
    BY <2>2 DEF InHand, Section
  <2>6. payloads = {} => Measure' = Empty
    BY <2>0, <2>3, FS_EmptySet DEF Measure, Empty
  <2>7. total' # NoTotal => total'.amount = Measure'
    BY <2>1, <2>6
  <2> QED
    BY <1>0, <2>0, <2>1, <2>2, <2>4, <2>5, <2>7, Holder, Known, ProcAssumption DEF Fresh
<1> QED
  BY <1>1, <1>2, <1>3, <1>4, <1>5, <1>6, <1>7 DEF Purge

(* A repair carries the total over each record it removes.                 *)
LEMMA RepairKeeps ==
  ASSUME IInv, NEW p \in Procs, Repair(p) PROVE IInv'
<1>0. TypeOK /\ mtime \in Nat /\ now \in Nat /\ mtime <= now
  BY Known
<1>1. CASE RepairLock(p)
  <2>1. pc[p] = "idle" /\ Acquire(p, "repair")
        /\ UNCHANGED <<payloads, records, mtime, now, total, hurt, item, todo>>
    BY <1>1 DEF RepairLock, Trash, Book
  <2>2. lock = NoProc /\ lock' = p /\ Section(p, "repair")
    BY <2>1, Sections DEF Holding
  <2>3. /\ before' \in [Procs -> Amount \cup {NoTotal}] /\ before'[p] \in {Cached, NoTotal}
        /\ \A q \in Procs \ {p} : before'[q] = before[q]
    BY <1>0, <1>1, Amounts DEF RepairLock, TypeOK
  <2>4. TypeOK'
    BY <1>0, <2>1, <2>2, <2>3 DEF TypeOK, Section
  <2>5. InHand(p)'
    BY <2>2 DEF InHand, Section
  <2>6. Measure' = Measure
    BY <2>1 DEF Measure
  <2>7. ~hurt' => Told(p)' /\ Carried(p)'
    BY <2>1, <2>2, <2>3, <2>6, Known DEF Told, Carried, Section, Fresh
  <2> QED
    BY <1>0, <2>1, <2>2, <2>3, <2>4, <2>5, <2>7, Holder, Known, ProcAssumption
<1>2. ASSUME NEW i \in Item, RepairRecord(p, i) PROVE IInv'
  <2> DEFINE t == IF before[p] = NoTotal THEN NoTotal ELSE Less(before[p], i)
  <2>1. /\ pc[p] = "repair" /\ i \in records \ payloads /\ UNCHANGED <<pc, lock, payloads, now, item, todo>>
        /\ records' = records \ {i} /\ mtime' = now
        /\ before' = [before EXCEPT ![p] = t]
        /\ t = NoTotal => total' = NoTotal /\ hurt' = FALSE
        /\ t # NoTotal => total' = [amount |-> t, stamp |-> now] /\ hurt' = hurt
    BY <1>2 DEF RepairRecord, SetRecords, Forget
  <2>2. lock = p /\ lock' = p /\ Section(p, "repair")
    BY <2>1, Within DEF Holding
  <2>3. t \in Amount \cup {NoTotal} /\ before'[p] = t /\ (t # NoTotal => before[p] # NoTotal)
    BY <1>0, <2>1, Amounts DEF TypeOK
  <2>4. TypeOK'
    <3>1. total' \in Total \cup {NoTotal} /\ hurt' \in BOOLEAN
      BY <1>0, <2>1, <2>3, Stored DEF TypeOK
    <3> QED
      BY <1>0, <2>1, <2>2, <2>3, <3>1 DEF TypeOK, Section
  <2>5. InHand(p)'
    BY <2>2 DEF InHand, Section
  <2>6. Less(Measure, i) = Measure'
    BY <1>0, <2>1, Sums DEF Before, Measure
  <2>7. ~hurt' => Told(p)' /\ Carried(p)'
    <3>1. ~hurt' /\ t # NoTotal => t = Measure'
      BY <2>1, <2>2, <2>3, <2>6, Known DEF Carried
    <3>2. ~hurt' /\ total' # NoTotal => total'.amount = Measure'
      BY <2>1, <2>3, <3>1
    <3> QED
      BY <2>2, <2>3, <3>1, <3>2 DEF Told, Carried, Section, Fresh
  <2>8. total' # NoTotal => total'.stamp <= mtime'
    BY <1>0, <2>1
  <2> QED
    BY <1>0, <2>1, <2>2, <2>4, <2>5, <2>7, <2>8, Holder, ProcAssumption DEF TypeOK
<1>3. CASE RepairDone(p)
  <2>1. pc[p] = "repair" /\ Free(p, "log")
        /\ UNCHANGED <<payloads, records, mtime, now, total, hurt, item, todo, before>>
    BY <1>3 DEF RepairDone, Trash, Book, Mine
  <2>2. lock = p /\ lock' = NoProc /\ Section(p, "log")
    BY <2>1, Sections DEF Holding, Places
  <2>4. TypeOK'
    BY <1>0, <2>1, <2>2 DEF TypeOK, Section
  <2>5. InHand(p)'
    BY <2>2 DEF InHand, Section
  <2>7. ~hurt => (Fresh' => total'.amount = Measure')
    BY <2>1, <2>2, Known DEF Told, Fresh, Measure
  <2> QED
    BY <1>0, <2>1, <2>2, <2>4, <2>5, <2>7, Holder, Known, ProcAssumption
<1> QED
  BY <1>1, <1>2, <1>3 DEF Repair

(* A step that leaves the trash and the sections alone and stores a total. *)
LEMMA StoreKeeps ==
  ASSUME IInv, NEW p \in Procs, NEW l, Section(p, l), pc[p] \notin Holding, l \notin Holding,
         UNCHANGED <<Trash, now, lock, item, todo>>,
         before' \in [Procs -> Amount \cup {NoTotal}],
         \A q \in Procs \ {p} : before'[q] = before[q],
         l \in {"measure", "store"} => before'[p] # NoTotal,
         NEW t \in Amount, Store(t), hurt' \in BOOLEAN,
         ~hurt' => lock = NoProc /\ t = Measure
  PROVE  IInv'
<1>0. TypeOK /\ mtime \in Nat /\ now \in Nat /\ mtime <= now
  BY Known
<1>1. total' \in Total /\ total'.stamp = mtime /\ total'.amount = t
  BY <1>0, Stored DEF Store
<1>2. Types'
  <2>1. TypeOK'
    BY <1>0, <1>1 DEF TypeOK, Trash
  <2>2. \A q \in Procs : pc'[q] \in {"measure", "store"} => before'[q] # NoTotal
    BY DEF IInv, Types, Section
  <2> QED
    BY <1>0, <1>1, <2>1, <2>2 DEF Types, Section, Trash
<1>3. ASSUME NEW q \in Procs PROVE InHand(q)'
  <2>1. CASE q = p
    BY <2>1 DEF Section, InHand, Holding
  <2>2. CASE q # p
    BY <2>2 DEF Section, IInv, InHand, Trash
  <2> QED
    BY <2>1, <2>2
<1>4. ~hurt' => TotalInv'
  BY <1>1, ProcAssumption DEF TotalInv, Measure, Trash
<1> QED
  BY <1>2, <1>3, <1>4 DEF IInv, Section

(* A check of the total: it measures and stores under the lock, and stores *)
(* again without it.                                                       *)
LEMMA LogKeeps ==
  ASSUME IInv, NEW p \in Procs, Log(p) PROVE IInv'
<1>0. TypeOK /\ mtime \in Nat /\ now \in Nat /\ mtime <= now
  BY Known
<1>1. CASE Ask(p)
  <2>1. pc[p] = "idle" /\ Hold(p, "log") /\ UNCHANGED <<Trash, now, Book, item, todo, before>>
    BY <1>1 DEF Ask, Mine
  <2>2. lock' = lock /\ Section(p, "log")
    BY <2>1, Sections DEF Holding, Places
  <2> QED
    BY <1>0, <2>1, <2>2, Outsider DEF TypeOK, Section, Holding
<1>2. CASE LogCached(p)
  <2>1. pc[p] = "log" /\ Hold(p, "idle") /\ UNCHANGED <<Trash, now, Book, item, todo, before>>
    BY <1>2 DEF LogCached, Mine
  <2>2. lock' = lock /\ Section(p, "idle")
    BY <2>1, Sections DEF Holding, Places
  <2> QED
    BY <1>0, <2>1, <2>2, Outsider DEF TypeOK, Section, Holding
<1>3. CASE LogCount(p)
  <2> DEFINE counted == [pays |-> {}, recs |-> {}, items |-> Cardinality(records)]
  <2>1. pc[p] = "log" /\ Hold(p, "measure") /\ UNCHANGED <<Trash, now, Book, item, todo>>
        /\ before' = [before EXCEPT ![p] = counted]
    BY <1>3 DEF LogCount
  <2>2. lock' = lock /\ Section(p, "measure")
    BY <2>1, Sections DEF Holding, Places
  <2>3. counted \in Amount /\ counted # NoTotal
    BY <1>0, Names, SomeTotal DEF Amount, TypeOK
  <2>4. /\ before' \in [Procs -> Amount \cup {NoTotal}] /\ before'[p] # NoTotal
        /\ \A q \in Procs \ {p} : before'[q] = before[q]
    BY <1>0, <2>1, <2>3 DEF TypeOK
  <2> QED
    BY <2>1, <2>2, <2>4, Outsider DEF Section, Holding
<1>4. CASE LogMeasure(p)
  <2> DEFINE read == [Measure EXCEPT !.items = before[p].items]
  <2>1. pc[p] = "measure" /\ lock = NoProc /\ Hold(p, "store")
        /\ UNCHANGED <<Trash, now, item, todo>> /\ Store(Measure) /\ hurt' = FALSE
        /\ before' = [before EXCEPT ![p] = read]
    BY <1>4 DEF LogMeasure
  <2>2. lock' = lock /\ Section(p, "store")
    BY <2>1, Sections DEF Holding, Places
  <2>3. read \in Amount /\ read # NoTotal
    <3>1. before[p] \in Amount
      BY <1>0, <2>1 DEF IInv, Types, TypeOK
    <3>2. Measure \in Amount
      BY <1>0, Amounts
    <3> QED
      BY <3>1, <3>2, SomeTotal DEF Amount
  <2>4. /\ before' \in [Procs -> Amount \cup {NoTotal}] /\ before'[p] # NoTotal
        /\ \A q \in Procs \ {p} : before'[q] = before[q]
    BY <1>0, <2>1, <2>3 DEF TypeOK
  <2>5. Measure \in Amount /\ pc[p] \notin Holding /\ "store" \notin Holding
    BY <1>0, <2>1, Amounts DEF Holding
  <2> QED
    BY <2>1, <2>2, <2>4, <2>5, StoreKeeps
<1>5. CASE LogTimeout(p)
  <2>1. pc[p] = "measure" /\ Hold(p, "store") /\ UNCHANGED <<Trash, now, Book, item, todo, before>>
    BY <1>5 DEF LogTimeout, Mine
  <2>2. lock' = lock /\ Section(p, "store") /\ before[p] # NoTotal
    BY <2>1, Sections DEF Holding, Places, IInv, Types
  <2> QED
    BY <1>0, <2>1, <2>2, Outsider DEF TypeOK, Section, Holding
<1>6. CASE LogStore(p)
  <2>1. pc[p] = "store" /\ Hold(p, "idle") /\ UNCHANGED <<Trash, now, item, todo, before>>
        /\ Store(before[p]) /\ hurt' = (before[p] # Measure \/ lock # NoProc)
    BY <1>6 DEF LogStore, Mine
  <2>2. lock' = lock /\ Section(p, "idle")
    BY <2>1, Sections DEF Holding, Places
  <2>3. before[p] \in Amount
    BY <1>0, <2>1 DEF IInv, Types, TypeOK
  <2>4. before' \in [Procs -> Amount \cup {NoTotal}] /\ (\A q \in Procs \ {p} : before'[q] = before[q])
    BY <1>0, <2>1 DEF TypeOK
  <2>5. "idle" \notin Holding /\ pc[p] \notin Holding /\ "idle" \notin {"measure", "store"}
    BY <2>1 DEF Holding
  <2>6. hurt' \in BOOLEAN /\ (~hurt' => lock = NoProc /\ before[p] = Measure)
    BY <2>1
  <2> QED
    BY <2>1, <2>2, <2>3, <2>4, <2>5, <2>6, StoreKeeps
<1> QED
  BY <1>1, <1>2, <1>3, <1>4, <1>5, <1>6 DEF Log

(* Another tool works while no command does, and a change its stamp cannot *)
(* tell is known to hurt.                                                  *)
LEMMA ForeignKeeps ==
  ASSUME IInv, Foreign PROVE IInv'
<1>0. TypeOK /\ Types /\ Locked /\ \A p \in Procs : pc[p] \notin Holding
  BY ProcAssumption DEF IInv, Types, Foreign, Locked
<1>1. mtime \in Nat /\ now \in Nat /\ mtime <= now /\ MaxTick \in Nat
  BY <1>0, WindowAssumption DEF TypeOK
<1>2. /\ payloads' \subseteq Item /\ records' \subseteq Item /\ mtime' = now
      /\ UNCHANGED <<now, total, lock, pc, item, todo, before>>
      /\ lock = NoProc /\ hurt' = (hurt \/ Fresh')
  BY <1>0 DEF Foreign, SetRecords, Mine, Unseen, Fresh, TypeOK
<1>3. Types'
  BY <1>0, <1>1, <1>2, WindowAssumption DEF Types, TypeOK, Total, Fresh
<1>4. \A p \in Procs : InHand(p)'
  BY <1>0, <1>2 DEF InHand, Holding
<1>5. ~hurt' => TotalInv'
  BY <1>2, ProcAssumption DEF TotalInv
<1> QED
  BY <1>0, <1>2, <1>3, <1>4, <1>5 DEF IInv, Locked

LEMMA TickKeeps ==
  ASSUME IInv, Tick PROVE IInv'
<1>1. UNCHANGED <<payloads, records, mtime, total, hurt, lock, pc, item, todo, before>>
  BY DEF Tick, Trash, Book, Mine
<1>2. Types'
  <2>1. now' \in 0..MaxTick /\ mtime' \in 0..now'
    BY <1>1, WindowAssumption DEF Tick, IInv, Types, TypeOK
  <2> QED
    BY <1>1, <2>1 DEF IInv, Types, TypeOK
<1>3. Locked' /\ \A p \in Procs : InHand(p)'
  BY <1>1 DEF IInv, Locked, InHand
<1>4. ~hurt' => TotalInv'
  BY <1>1 DEF IInv, TotalInv, Told, Carried, Fresh, Measure, Before, ButFor, Less
<1> QED
  BY <1>2, <1>3, <1>4 DEF IInv

LEMMA StillKeeps ==
  ASSUME IInv, UNCHANGED vars PROVE IInv'
BY DEF IInv, vars, Types, TypeOK, Locked, InHand, TotalInv, Told, Carried, Fresh, Measure, Before,
       ButFor, Less

-----------------------------------------------------------------------------
(* The invariant holds in every reachable state.                           *)
THEOREM Invariant == Spec => []IInv
<1>1. Init => IInv
  <2> SUFFICES ASSUME Init PROVE IInv
    OBVIOUS
  <2>1. Types
    <3>1. TypeOK
      <4>1. now \in 0..MaxTick /\ mtime \in 0..now
        BY WindowAssumption DEF Init
      <4>2. item \in [Procs -> Item \cup {NoItem}] /\ before \in [Procs -> Amount \cup {NoTotal}]
        BY DEF Init
      <4> QED
        BY <4>1, <4>2 DEF Init, TypeOK
    <3> QED
      BY <3>1 DEF Init, Types, Places
  <2>2. Locked /\ \A p \in Procs : InHand(p)
    BY ProcAssumption DEF Init, Locked, InHand, Holding
  <2>3. TotalInv
    BY ProcAssumption DEF Init, TotalInv, Fresh
  <2> QED
    BY <2>1, <2>2, <2>3 DEF IInv
<1>2. IInv /\ [Next]_vars => IInv'
  BY PutKeeps, RmKeeps, RestoreKeeps, PurgeKeeps, RepairKeeps, LogKeeps, ForeignKeeps, TickKeeps,
     StillKeeps DEF Next
<1> QED
  BY <1>1, <1>2, PTL DEF Spec

(* Names, ticks, totals and locals keep their types.                       *)
THEOREM TotalTyped == Spec => []TypeOK
<1>1. IInv => TypeOK
  BY DEF IInv, Types
<1> QED
  BY <1>1, Invariant, PTL

(* No command that carries a total past its change leaves one that is      *)
(* trusted and wrong.                                                      *)
THEOREM TotalIsTrue == Spec => []TotalTrue
<1>1. IInv => TotalTrue
  BY DEF IInv, TotalInv, TotalTrue, Current, Fresh
<1> QED
  BY <1>1, Invariant, PTL

-----------------------------------------------------------------------------
(* Each command that stores what it carried.                               *)
StoresCarried(p) ==
  \/ PutTotal(p) /\ before[p] # NoTotal
  \/ RmStore(p) /\ before[p] # NoTotal
  \/ RestoreStore(p) /\ before[p] # NoTotal /\ item[p] \notin payloads
  \/ PurgeTotal(p) /\ before[p] # NoTotal

(* What is stored is the size of the trash, with the stamp of its info/.   *)
LEMMA StoredIsCurrent ==
  ASSUME IInv, NEW p \in Procs, StoresCarried(p), ~hurt PROVE Current'
<1>0. TypeOK /\ mtime \in Nat /\ now \in Nat /\ mtime <= now
  BY Known
<1>1. pc[p] \in {"put_total", "rm_store", "re_store", "purge"} /\ before[p] # NoTotal
  BY DEF StoresCarried, PutTotal, RmStore, RestoreStore, PurgeTotal
<1>2. lock = p /\ Carried(p) /\ InHand(p)
  BY <1>1, Known DEF IInv, Locked, Holding
<1>3. before[p] \in Amount
  BY <1>0, <1>1 DEF TypeOK
<1>4. Less(before[p], item[p]) \in Amount /\ More(before[p], item[p]) \in Amount
  BY <1>0, <1>3, Amounts
<1>5. UNCHANGED <<payloads, records, mtime, now>>
  BY DEF StoresCarried, PutTotal, RmStore, RestoreStore, PurgeTotal, Trash
<1>6. total' = [amount |-> Measure, stamp |-> mtime]
  <2>1. CASE PutTotal(p)
    <3>1. More(before[p], item[p]) = Measure
      BY <1>0, <1>1, <1>2, <2>1, Sums DEF PutTotal, Carried, InHand
    <3> QED
      BY <1>1, <1>4, <2>1, <3>1, SomeTotal DEF PutTotal, Carry, Store
  <2>2. CASE RmStore(p)
    BY <1>1, <1>2, <2>2 DEF RmStore, Store, Carried
  <2>3. CASE RestoreStore(p) /\ item[p] \notin payloads
    BY <1>1, <1>2, <1>4, <2>3, SomeTotal DEF RestoreStore, Carry, Store, Carried
  <2>4. CASE PurgeTotal(p)
    BY <1>1, <1>2, <2>4 DEF PurgeTotal, Carry, Store, Carried
  <2> QED
    BY <2>1, <2>2, <2>3, <2>4 DEF StoresCarried
<1>7. total' # NoTotal /\ total'.stamp = mtime /\ total'.amount.items = Cardinality(records)
  BY <1>0, <1>6, Amounts, Stored DEF Measure
<1> QED
  BY <1>5, <1>7 DEF Current

(* A command that had a current total leaves a current one.                *)
THEOREM TotalCarried == Spec => Carries
<1> DEFINE Ends(p) == /\ pc[p] \in {"put_total", "rm_store", "re_store", "purge"}
                      /\ pc'[p] = "log" /\ before[p] # NoTotal /\ ~hurt
                      /\ pc[p] = "re_store" => item[p] \notin payloads
<1>1. ASSUME IInv, [Next]_vars, NEW p \in Procs, Ends(p) PROVE Current'
  <2>0. TypeOK /\ pc \in [Procs -> Places]
    BY <1>1 DEF IInv, Types
  <2>1. pc' # pc
    BY <1>1
  <2>2. PICK q \in Procs : Put(q) \/ Rm(q) \/ Restore(q) \/ Purge(q) \/ Repair(q) \/ Log(q)
    BY <1>1, <2>1 DEF Next, Foreign, Tick, vars
  <2>3. q = p
    BY <1>1, <2>0, <2>2 DEF Put, PutLock, PutRecord, PutMove, PutMoveFails, PutSourceLeft, PutTotal,
       Rm, RmLock, RmPayload, RmStuck, RmOrphan, RmForget, RmRecord, RmRecordStuck, RmStore,
       Restore, RestoreLock, RestoreFails, RestoreMove, RestoreRead, RestoreRecord,
       RestoreRecordStuck, RestoreStore, Purge, PurgeLock, PurgeItem, PurgeStuck, PurgeRecordStuck,
       PurgeTotal, Wipe, WipeTotal, Repair, RepairLock, RepairRecord, RepairDone,
       Log, Ask, LogCached, LogCount, LogMeasure, LogTimeout, LogStore,
       Goto, Hold, Acquire, Free
  <2>4. StoresCarried(p)
    BY <1>1, <2>0, <2>2, <2>3 DEF StoresCarried,
       Put, PutLock, PutRecord, PutMove, PutMoveFails, PutSourceLeft,
       Rm, RmLock, RmPayload, RmStuck, RmOrphan, RmForget, RmRecord, RmRecordStuck,
       Restore, RestoreLock, RestoreFails, RestoreMove, RestoreRead, RestoreRecord,
       RestoreRecordStuck, Purge, PurgeLock, PurgeItem, PurgeStuck, PurgeRecordStuck,
       PutTotal, RmStore, RestoreStore, PurgeTotal,
       Wipe, WipeTotal, Repair, RepairLock, RepairRecord, RepairDone,
       Log, Ask, LogCached, LogCount, LogMeasure, LogTimeout, LogStore,
       Goto, Hold, Acquire, Free
  <2> QED
    BY <1>1, <2>4, StoredIsCurrent
<1>2. IInv /\ [Next]_vars => \A p \in Procs : Ends(p) => Current'
  BY <1>1
<1>3. (\A p \in Procs : Ends(p) => Current') =>
        \A p \in Procs :
           /\ pc[p] \in {"put_total", "rm_store", "re_store", "purge"}
           /\ pc'[p] = "log" /\ before[p] # NoTotal /\ ~hurt
           /\ pc[p] = "re_store" => item[p] \notin payloads
           => Current'
  OBVIOUS
<1> QED
  BY <1>2, <1>3, Invariant, PTL DEF Spec, Carries
=============================================================================
