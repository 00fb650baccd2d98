----------------------------- MODULE TrashTotal -----------------------------
(***************************************************************************)
(* The running total of one trash root: `rtrash-total`, its stamp of the   *)
(* mtime of info/, and every command that carries it over a change, drops  *)
(* it or measures it.  Bytes are kept apart by where they come from: a     *)
(* total is the set of payloads and the set of records it counts, and the  *)
(* number of records.                                                      *)
(***************************************************************************)
EXTENDS Naturals, FiniteSets

CONSTANTS
  Procs,
  Item,     \* trash names
  Window,   \* the two seconds of a fresh stamp, in ticks of the mtime clock
  MaxTick,  \* bound on the clock
  Faults    \* what may go wrong: "move", "source", "payload", "record",
            \* "timeout" and "foreign" (another tool changes the trash)

ASSUME WindowAssumption == Window \in Nat /\ MaxTick \in Nat
ASSUME ItemAssumption == IsFiniteSet(Item)

NoProc == "nobody"

ASSUME ProcAssumption == NoProc \notin Procs

VARIABLES
  payloads, records,  \* the names in files/ and in info/
  mtime,    \* of info/
  now,
  total,    \* what rtrash-total holds, or NoTotal
  lock,     \* the holder of the trash lock, or NoProc
  pc, item, todo,
  before,   \* the total a process carries, or has measured
  hurt      \* history: a known flaw left a total that is wrong

vars == <<payloads, records, mtime, now, total, lock, pc, item, todo, before,
          hurt>>

NoTotal == [none |-> TRUE]
NoItem == "no item"

Amount == [pays : SUBSET Item, recs : SUBSET Item, items : 0..Cardinality(Item)]
Total == [amount : Amount, stamp : 0..MaxTick]

-----------------------------------------------------------------------------
(* The trash measured as `list::collect` and entry_bytes have it: records, *)
(* and payloads that have one.                                             *)
Measure ==
  [pays |-> payloads \cap records, recs |-> records,
   items |-> Cardinality(records)]

Empty == [pays |-> {}, recs |-> {}, items |-> 0]

(* is_current, then cached.                                                *)
Current ==
  /\ total # NoTotal /\ total.stamp = mtime
  /\ \/ now - total.stamp >= Window
     \/ Cardinality(records) = total.amount.items
Cached == IF Current THEN total.amount ELSE NoTotal

(* What an item takes off a total, or adds to it.                          *)
Less(t, i) ==
  [pays |-> t.pays \ {i}, recs |-> t.recs \ {i},
   items |-> IF t.items = 0 THEN 0 ELSE t.items - 1]
More(t, i) ==
  [pays |-> t.pays \cup ({i} \cap payloads), recs |-> t.recs \cup ({i} \cap records),
   items |-> IF t.items = Cardinality(Item) THEN t.items ELSE t.items + 1]

Forget == total' = NoTotal /\ hurt' = FALSE
Store(t) == total' = [amount |-> t, stamp |-> mtime]
Carry(t) == IF t = NoTotal THEN Forget ELSE Store(t) /\ UNCHANGED hurt

(* A change that no command accounts for hurts when the stamp cannot tell. *)
Unseen == hurt' = (hurt \/ (total # NoTotal /\ total.stamp = mtime'))

Trash == <<payloads, records, mtime>>
Book == <<total, hurt>>
Mine == <<item, todo, before>>

SetRecords(r) == records' = r /\ mtime' = now

Goto(p, l) == pc' = [pc EXCEPT ![p] = l]
Hold(p, l) == Goto(p, l) /\ UNCHANGED lock
Acquire(p, l) == lock = NoProc /\ lock' = p /\ Goto(p, l)
Free(p, l) == lock' = NoProc /\ Goto(p, l)

Init ==
  /\ payloads = {} /\ records = {} /\ mtime = 0 /\ now = 0
  /\ total = NoTotal /\ lock = NoProc /\ hurt = FALSE
  /\ pc = [p \in Procs |-> "idle"] /\ item = [p \in Procs |-> NoItem]
  /\ todo = [p \in Procs |-> {}] /\ before = [p \in Procs |-> NoTotal]

-----------------------------------------------------------------------------
(* put: trash_move, under the lock.                                        *)
PutLock(p) ==
  /\ pc[p] = "idle" /\ Acquire(p, "put_record")
  /\ \E i \in Item \ (payloads \cup records) : item' = [item EXCEPT ![p] = i]
  /\ before' = [before EXCEPT ![p] = Cached]
  /\ UNCHANGED <<Trash, now, Book, todo>>

PutRecord(p) ==
  /\ pc[p] = "put_record" /\ Hold(p, "put_move")
  /\ SetRecords(records \cup {item[p]})
  /\ UNCHANGED <<payloads, now, Book, Mine>>

PutMove(p) ==
  /\ pc[p] = "put_move" /\ Hold(p, "put_total")
  /\ payloads' = payloads \cup {item[p]}
  /\ UNCHANGED <<records, mtime, now, Book, Mine>>

PutMoveFails(p) ==
  /\ "move" \in Faults /\ pc[p] = "put_move" /\ Free(p, "idle")
  /\ SetRecords(records \ {item[p]})
  /\ UNCHANGED <<payloads, now, Book, Mine>>

(* The operand could not all be removed: the item stays, and trash_move    *)
(* returns before it looks at the total.                                   *)
PutSourceLeft(p) ==
  /\ "source" \in Faults /\ pc[p] = "put_move" /\ Free(p, "idle")
  /\ payloads' = payloads \cup {item[p]}
  /\ UNCHANGED <<records, mtime, now, total, Mine>> /\ Unseen

(* Mutant: the bytes of the item are added, its one count is not.          *)
PutTotalUncounted(p) ==
  /\ pc[p] = "put_total" /\ Free(p, "log")
  /\ Carry(IF before[p] = NoTotal THEN NoTotal
           ELSE [More(before[p], item[p]) EXCEPT !.items = before[p].items])
  /\ UNCHANGED <<Trash, now, Mine>>

PutTotal(p) ==
  /\ pc[p] = "put_total" /\ Free(p, "log")
  /\ Carry(IF before[p] = NoTotal THEN NoTotal ELSE More(before[p], item[p]))
  /\ UNCHANGED <<Trash, now, Mine>>

-----------------------------------------------------------------------------
(* rm, of an item, an orphan or a record alone.                            *)
RmLock(p) ==
  /\ pc[p] = "idle" /\ Acquire(p, "rm_payload")
  /\ \E i \in payloads \cup records : item' = [item EXCEPT ![p] = i]
  /\ UNCHANGED <<Trash, now, Book, todo, before>>

RmPayload(p) ==
  /\ pc[p] = "rm_payload" /\ Hold(p, "rm_forget")
  /\ payloads' = payloads \ {item[p]}
  /\ UNCHANGED <<records, mtime, now, Book, Mine>>

RmStuck(p) ==
  /\ "payload" \in Faults /\ pc[p] = "rm_payload" /\ Free(p, "idle")
  /\ UNCHANGED <<Trash, now, Book, Mine>>

RmOrphan(p) ==
  /\ pc[p] = "rm_forget" /\ item[p] \notin records /\ Free(p, "log")
  /\ UNCHANGED <<Trash, now, Book, Mine>>

RmForget(p) ==
  /\ pc[p] = "rm_forget" /\ item[p] \in records /\ Hold(p, "rm_record")
  /\ before' = [before EXCEPT ![p] = Cached]
  /\ total' = NoTotal /\ hurt' = (hurt /\ Current)
  /\ UNCHANGED <<Trash, now, item, todo>>

RmRecord(p) ==
  /\ pc[p] = "rm_record" /\ Hold(p, "rm_store")
  /\ SetRecords(records \ {item[p]})
  /\ UNCHANGED <<payloads, now, Book, Mine>>

RmRecordStuck(p) ==
  /\ "record" \in Faults /\ pc[p] = "rm_record" /\ Free(p, "log")
  /\ UNCHANGED <<Trash, now, Book, Mine>>

RmStore(p) ==
  /\ pc[p] = "rm_store" /\ Free(p, "log")
  /\ IF before[p] = NoTotal THEN UNCHANGED Book
     ELSE Store(Less(before[p], item[p])) /\ UNCHANGED hurt
  /\ UNCHANGED <<Trash, now, Mine>>

-----------------------------------------------------------------------------
(* restore: the total is read after the payload left, and the record goes. *)
RestoreLock(p) ==
  /\ pc[p] = "idle" /\ Acquire(p, "re_move")
  /\ \E i \in payloads \cap records : item' = [item EXCEPT ![p] = i]
  /\ UNCHANGED <<Trash, now, Book, todo, before>>

RestoreFails(p) ==
  /\ "move" \in Faults /\ pc[p] = "re_move" /\ Free(p, "idle")
  /\ UNCHANGED <<Trash, now, Book, Mine>>

(* With a source left, part of the payload stays behind.                   *)
RestoreMove(p) ==
  /\ pc[p] = "re_move" /\ Hold(p, "re_read")
  /\ \/ payloads' = payloads \ {item[p]}
     \/ "source" \in Faults /\ UNCHANGED payloads
  /\ UNCHANGED <<records, mtime, now, Book, Mine>>

RestoreRead(p) ==
  /\ pc[p] = "re_read" /\ Hold(p, "re_record")
  /\ before' = [before EXCEPT ![p] = Cached]
  /\ UNCHANGED <<Trash, now, Book, item, todo>>

RestoreRecord(p) ==
  /\ pc[p] = "re_record" /\ Hold(p, "re_store")
  /\ SetRecords(records \ {item[p]})
  /\ UNCHANGED <<payloads, now, Book, Mine>>

(* The record stays, which is a warning; the total is neither carried nor  *)
(* dropped.                                                                *)
RestoreRecordStuck(p) ==
  /\ "record" \in Faults /\ pc[p] = "re_record" /\ Free(p, "log")
  /\ UNCHANGED <<Trash, now, total, Mine>> /\ Unseen

RestoreStore(p) ==
  /\ pc[p] = "re_store" /\ Free(p, "log")
  /\ Carry(IF before[p] = NoTotal \/ item[p] \in payloads THEN NoTotal
           ELSE Less(before[p], item[p]))
  /\ UNCHANGED <<Trash, now, Mine>>

-----------------------------------------------------------------------------
(* empty DAYS, which carries a current total, and a prune, which measures  *)
(* the trash itself: some of the items go.                                 *)
PurgeLock(p) ==
  /\ pc[p] = "idle" /\ Acquire(p, "purge")
  /\ \E v \in SUBSET records : todo' = [todo EXCEPT ![p] = v]
  /\ \/ before' = [before EXCEPT ![p] = Cached] /\ UNCHANGED hurt
     \/ before' = [before EXCEPT ![p] = Measure] /\ hurt' = FALSE
  /\ UNCHANGED <<Trash, now, total, item>>

PurgeItem(p, i) ==
  /\ pc[p] = "purge" /\ i \in todo[p]
  /\ todo' = [todo EXCEPT ![p] = @ \ {i}]
  /\ payloads' = payloads \ {i} /\ SetRecords(records \ {i})
  /\ before' = [before EXCEPT ![p] = IF @ = NoTotal THEN @ ELSE Less(@, i)]
  /\ UNCHANGED <<now, Book, lock, pc, item>>

(* Mutant: a payload that cannot go is taken off the total all the same.   *)
PurgeStuckGone(p, i) ==
  /\ "payload" \in Faults /\ pc[p] = "purge" /\ i \in todo[p] \cap payloads
  /\ todo' = [todo EXCEPT ![p] = @ \ {i}]
  /\ before' = [before EXCEPT ![p] = IF @ = NoTotal THEN @ ELSE Less(@, i)]
  /\ UNCHANGED <<Trash, now, Book, lock, pc, item>>

PurgeStuck(p, i) ==
  /\ "payload" \in Faults /\ pc[p] = "purge" /\ i \in todo[p] \cap payloads
  /\ todo' = [todo EXCEPT ![p] = @ \ {i}]
  /\ UNCHANGED <<Trash, now, Book, lock, pc, item, before>>

(* The payload goes and the record stays: the age pass takes the whole     *)
(* item off its total, a prune nothing, and both store what they have.     *)
PurgeRecordStuck(p, i) ==
  /\ "record" \in Faults /\ pc[p] = "purge" /\ i \in todo[p]
  /\ todo' = [todo EXCEPT ![p] = @ \ {i}]
  /\ payloads' = payloads \ {i}
  /\ \E t \in {before[p], IF before[p] = NoTotal THEN NoTotal ELSE Less(before[p], i)} :
       before' = [before EXCEPT ![p] = t]
  /\ hurt' = TRUE
  /\ UNCHANGED <<records, mtime, now, total, lock, pc, item>>

(* After a Ctrl-C the rest of todo stays.                                  *)
PurgeTotal(p) ==
  /\ pc[p] = "purge" /\ Free(p, "log")
  /\ Carry(before[p])
  /\ todo' = [todo EXCEPT ![p] = {}]
  /\ UNCHANGED <<Trash, now, item, before>>

(* empty: the wipe of everything, but payloads that cannot go, came after  *)
(* the count or were not reached before a Ctrl-C.                          *)
Wipe(p) ==
  /\ pc[p] = "idle" /\ Acquire(p, "wipe_total")
  /\ \E kept \in SUBSET (payloads \cap records) :
       /\ payloads' = kept /\ records' = kept
       /\ mtime' = IF records' = records THEN mtime ELSE now
  /\ UNCHANGED <<now, Book, Mine>>

WipeTotal(p) ==
  /\ pc[p] = "wipe_total" /\ Free(p, "log")
  /\ IF payloads = {} THEN Store(Empty) /\ hurt' = FALSE ELSE Forget
  /\ UNCHANGED <<Trash, now, Mine>>

(* empty --dangling carries the total past each record it removes; status  *)
(* --fix drops it.                                                         *)
RepairLock(p) ==
  /\ pc[p] = "idle" /\ Acquire(p, "repair")
  /\ \E t \in {Cached, NoTotal} : before' = [before EXCEPT ![p] = t]
  /\ UNCHANGED <<Trash, now, Book, item, todo>>

RepairRecord(p, i) ==
  /\ pc[p] = "repair" /\ i \in records \ payloads
  /\ SetRecords(records \ {i})
  /\ LET t == IF before[p] = NoTotal THEN NoTotal ELSE Less(before[p], i)
     IN  /\ before' = [before EXCEPT ![p] = t]
         /\ IF t = NoTotal THEN Forget
            ELSE total' = [amount |-> t, stamp |-> now] /\ UNCHANGED hurt
  /\ UNCHANGED <<payloads, now, lock, pc, item, todo>>

RepairDone(p) ==
  /\ pc[p] = "repair" /\ Free(p, "log")
  /\ UNCHANGED <<Trash, now, Book, Mine>>

-----------------------------------------------------------------------------
(* log_touched after a command, and status: bytes() counts the records     *)
(* without the lock, measures and stores under it, and stores again after  *)
(* it, with the count of before and the stamp of now.                      *)
Ask(p) ==
  /\ pc[p] = "idle" /\ Hold(p, "log")
  /\ UNCHANGED <<Trash, now, Book, Mine>>

LogCached(p) ==
  /\ pc[p] = "log" /\ Current /\ Hold(p, "idle")
  /\ UNCHANGED <<Trash, now, Book, Mine>>

LogCount(p) ==
  /\ pc[p] = "log" /\ ~Current /\ Hold(p, "measure")
  /\ before' = [before EXCEPT ![p] =
                  [pays |-> {}, recs |-> {}, items |-> Cardinality(records)]]
  /\ UNCHANGED <<Trash, now, Book, item, todo>>

LogMeasure(p) ==
  /\ pc[p] = "measure" /\ lock = NoProc /\ Hold(p, "store")
  /\ before' = [before EXCEPT ![p] = [Measure EXCEPT !.items = before[p].items]]
  /\ Store(Measure) /\ hurt' = FALSE
  /\ UNCHANGED <<Trash, now, item, todo>>

(* The lock is not had in time: the prune has measured nothing.            *)
LogTimeout(p) ==
  /\ "timeout" \in Faults /\ pc[p] = "measure" /\ lock # NoProc
  /\ Hold(p, "store")
  /\ UNCHANGED <<Trash, now, Book, Mine>>

LogStore(p) ==
  /\ pc[p] = "store" /\ Hold(p, "idle")
  /\ Store(before[p]) /\ hurt' = (before[p] # Measure \/ lock # NoProc)
  /\ UNCHANGED <<Trash, now, Mine>>

-----------------------------------------------------------------------------
(* Another tool adds or removes an item between the commands.              *)
Foreign ==
  /\ "foreign" \in Faults /\ lock = NoProc
  /\ \E i \in Item :
       \/ i \notin payloads \cup records
            /\ payloads' = payloads \cup {i} /\ SetRecords(records \cup {i})
       \/ i \in records /\ payloads' = payloads \ {i} /\ SetRecords(records \ {i})
  /\ UNCHANGED <<now, total, lock, pc, Mine>> /\ Unseen

Tick ==
  /\ now < MaxTick /\ now' = now + 1
  /\ UNCHANGED <<Trash, Book, lock, pc, Mine>>

Put(p) == PutLock(p) \/ PutRecord(p) \/ PutMove(p) \/ PutMoveFails(p)
          \/ PutSourceLeft(p) \/ PutTotal(p)
Rm(p) == RmLock(p) \/ RmPayload(p) \/ RmStuck(p) \/ RmOrphan(p) \/ RmForget(p)
         \/ RmRecord(p) \/ RmRecordStuck(p) \/ RmStore(p)
Restore(p) == RestoreLock(p) \/ RestoreFails(p) \/ RestoreMove(p)
              \/ RestoreRead(p) \/ RestoreRecord(p) \/ RestoreRecordStuck(p)
              \/ RestoreStore(p)
Purge(p) == PurgeLock(p) \/ PurgeTotal(p) \/ Wipe(p) \/ WipeTotal(p)
            \/ \E i \in Item : 
                 PurgeItem(p, i) \/ PurgeStuck(p, i) \/ PurgeRecordStuck(p, i)
Repair(p) == RepairLock(p) \/ RepairDone(p) \/ \E i \in Item : RepairRecord(p, i)
Log(p) == Ask(p) \/ LogCached(p) \/ LogCount(p) \/ LogMeasure(p)
          \/ LogTimeout(p) \/ LogStore(p)

Next ==
  \/ \E p \in Procs : Put(p) \/ Rm(p) \/ Restore(p) \/ Purge(p) \/ Repair(p) \/ Log(p)
  \/ Foreign \/ Tick

Spec == Init /\ [][Next]_vars

-----------------------------------------------------------------------------
(* Names, ticks, totals and locals have their types; no stamp is ahead of  *)
(* the clock.                                                              *)
TypeOK ==
  /\ payloads \subseteq Item /\ records \subseteq Item
  /\ now \in 0..MaxTick /\ mtime \in 0..now
  /\ total \in Total \cup {NoTotal}
  /\ lock \in Procs \cup {NoProc} /\ hurt \in BOOLEAN
  /\ item \in [Procs -> Item \cup {NoItem}] /\ todo \in [Procs -> SUBSET Item]
  /\ before \in [Procs -> Amount \cup {NoTotal}]

(* A total that is trusted is the size of the trash: every command that    *)
(* changes the trash carries its total exactly or drops it, through        *)
(* orphans, records alone, stuck payloads and Ctrl-C, in a coarse tick or  *)
(* after it, unless one of the flaws `hurt` records has struck.            *)
TotalTrue == lock = NoProc /\ Current /\ ~hurt => total.amount = Measure

(* trash_total.rs:7: "a stale total is never trusted; the next reader      *)
(* measures the trash once and stores a fresh one".  `bytes` counts,       *)
(* measures and stores in three steps, with the lock in hand in the second *)
(* alone, and stores under the stamp that info/ has by the third.          *)
StaleNeverTrusted == lock = NoProc /\ Current => total.amount = Measure

(* A command that had a current total leaves a current one, so that a      *)
(* check after a put costs a file read and never a pass over the trash.    *)
Carries ==
  [][\A p \in Procs :
       /\ pc[p] \in {"put_total", "rm_store", "re_store", "purge"}
       /\ pc'[p] = "log" /\ before[p] # NoTotal /\ ~hurt
       /\ pc[p] = "re_store" => item[p] \notin payloads
       => Current']_vars
=============================================================================
