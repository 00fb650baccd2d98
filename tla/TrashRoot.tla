----------------------------- MODULE TrashRoot -----------------------------
(***************************************************************************)
(* The state of one trash root (files/, info/, .rtrash.lock), of the       *)
(* user's tree beside it, and of the processes that work on both: puts,    *)
(* restores, rm, empties and repairs (empty --dangling, status --check     *)
(* --fix).  The actions are in Put, Restore, Remove, Empty and Repair;     *)
(* TrashSystem composes them.                                              *)
(*                                                                         *)
(* Every process looks at the trash without the lock, then takes the       *)
(* root's flock, looks again and acts.  All the user's paths share one     *)
(* base name, so puts compete for the same trash names: name 1 is `base`,  *)
(* name k is `base.k`.  A file's bytes are a number; a record is the path  *)
(* it came from and the batch id of its put.  Sizes, dates, prompts,       *)
(* messages and policy refusals (which change nothing) are left out.       *)
(***************************************************************************)
EXTENDS Naturals, FiniteSets

CONSTANTS
  Putters, Restorers, Removers, Emptiers,  \* processes, by command
  Fixers,      \* processes running `status --check --fix`
  Danglers,    \* processes running `empty --dangling`
  Path,        \* places in the user's tree
  NumNames,    \* trash names tried for one item (NAME_TRIES + 1)
  MaxFiles,    \* bound: files the user ever makes
  MaxStamp,    \* bound: puts and restores that may start
  HardLinks,   \* whether info/ is on a file system with hard links
  CrossDevice, \* whether the user's tree is on another file system
  Faults       \* what may go wrong, see FaultKinds

Deleters == Removers \cup Emptiers
Repairers == Fixers \cup Danglers
Procs == Putters \cup Restorers \cup Deleters \cup Repairers

(* kill: SIGKILL or power loss between two system calls; write: a record   *)
(* or a move fails; source: a copied source cannot all be removed;         *)
(* payload, record: a payload or a record cannot be removed; place: a      *)
(* restored file cannot be placed; stop: Ctrl-C during an empty.           *)
FaultKinds == {"kill", "write", "source", "payload", "record", "place", "stop"}

Names == 1..NumNames
File == 1..MaxFiles
Nothing == 0
Debris == MaxFiles + 1   \* part of a file: its whole copy is elsewhere

ASSUME ProcAssumption ==
  /\ Putters \cap (Restorers \cup Deleters \cup Repairers) = {}
  /\ Restorers \cap (Deleters \cup Repairers) = {}
  /\ Removers \cap Emptiers = {}
  /\ Deleters \cap Repairers = {}
  /\ Fixers \cap Danglers = {}
  /\ "free" \notin Procs
ASSUME BoundAssumption ==
  NumNames \in Nat \ {0} /\ MaxFiles \in Nat /\ MaxStamp \in Nat
ASSUME ModeAssumption ==
  /\ HardLinks \in BOOLEAN /\ CrossDevice \in BOOLEAN
  /\ Faults \subseteq FaultKinds
  /\ Path # {}

VARIABLES
  live,      \* what each of the user's paths holds
  staged,    \* files at a .rtrash-restore-PID-NAME beside a destination
  files,     \* files/: the payload under each name
  info,      \* info/: the record under each name
  temps,     \* info/: the .rtrash-put.PID.N temporaries, by batch
  lock,      \* who holds the flock on .rtrash.lock
  pc,
  name,      \* put, restore, rm: the trash name in hand
  at,        \* put: the operand
  batch,     \* put: this run's batch id
  rec,       \* restore, rm: the record as the unlocked scan read it
  force,     \* restore: -f
  blocked,   \* restore: the destination existed when it was looked at
  carry,     \* restore: the file at the staging path
  seen,      \* empty: Seen.files, the payload ids counted
  seenInfo,  \* empty: Seen.info, the names counted there
  found,     \* repair: the records found broken
  seenTemps, \* empty, repair: the temporaries the unlocked look met
  cut,       \* empty: 0 for all, else the newest batch that is old enough
  todo,      \* empty: victims not started.  repair: records to remove
  midway,    \* empty: victims whose payload is gone and record is not yet
  stamp,     \* history: the last batch or payload id given out
  created,   \* history: how many files the user has made
  counted,   \* history: items the deleter's unlocked look covered
  removed,   \* history: items whose whole payload the deleter deleted
  discarded, \* history: files deleted for good because someone asked
  clobbered  \* history: files destroyed that nobody asked to destroy

putLocals == <<at, batch>>
resLocals == <<force, blocked, carry>>
empLocals == <<seen, seenInfo, cut, midway>>
scanLocals == <<seenTemps, todo>>
asked == <<counted, removed>>
lost == <<discarded, clobbered>>
vars == <<live, staged, files, info, temps, lock, pc, name, at, batch, rec,
          force, blocked, carry, seen, seenInfo, found, seenTemps, cut, todo,
          midway, stamp, created, counted, removed, discarded, clobbered>>

(* A payload is its bytes, the put that brought it (item) and its identity *)
(* (id: device, inode and ctime, so every arrival in files/ has a new      *)
(* one).  A record is whole once its body is written.                      *)
Payload == [file : 0..Debris, item : Nat, id : Nat]
Record == [path : Path, batch : Nat, whole : BOOLEAN]
NoPayload == [file |-> Nothing, item |-> 0, id |-> 0]
NoRecord == [path |-> CHOOSE x \in Path : TRUE, batch |-> 0, whole |-> FALSE]

HasPayload(n) == files[n].id # 0
HasRecord(n) == info[n].batch # 0

-----------------------------------------------------------------------------
(* Control.                                                                *)

Waiting == {"put_lock", "res_lock", "rm_lock", "emp_lock", "fix_lock"}
Holding == {"put_temp", "put_claim", "put_untemp", "put_inplace", "put_write",
            "put_move", "put_copy", "put_unlink",
            "res_verify", "res_stage", "res_unlink", "res_swap", "res_place",
            "res_record", "rm_verify", "rm_payload", "rm_record",
            "emp_start", "emp_wipe", "emp_stop", "fix_verify", "fix_remove"}
Labels == {"idle", "res_check", "emp_count"} \cup Waiting \cup Holding

Step(p, from, to) == pc[p] = from /\ pc' = [pc EXCEPT ![p] = to]

(* A bug to catch: the lock is taken without looking at who has it.        *)
AcquireAnyway(p, from, to) == Step(p, from, to) /\ lock' = p

(* TrashLock::acquire polls flock(LOCK_NB) until it has the lock.          *)
Acquire(p, from, to) == Step(p, from, to) /\ lock = "free" /\ lock' = p

(* The TrashLock is dropped and the command moves on to nothing else.      *)
Release(p, from) == Step(p, from, "idle") /\ lock' = "free"

(* A bug to catch: a wait for the lock that nothing ends.                  *)
WaitForever(p) == FALSE /\ UNCHANGED vars

(* The wait for the lock ran out, or Ctrl-C ended it: nothing is changed.  *)
TimeOut(p) ==
  /\ pc[p] \in Waiting /\ lock # "free"
  /\ pc' = [pc EXCEPT ![p] = "idle"]
  /\ UNCHANGED <<live, staged, files, info, temps, lock, name, putLocals, rec,
                 resLocals, empLocals, found, scanLocals, stamp, created, asked,
                 lost>>

(* A killed process leaves every file as it is; the kernel drops its lock. *)
Kill(p) ==
  /\ "kill" \in Faults /\ pc[p] # "idle"
  /\ pc' = [pc EXCEPT ![p] = "idle"]
  /\ lock' = IF lock = p THEN "free" ELSE lock
  /\ UNCHANGED <<live, staged, files, info, temps, name, putLocals, rec,
                 resLocals, empLocals, found, scanLocals, stamp, created, asked,
                 lost>>

(* The user makes a file where there is none, or deletes one.              *)
UserCreate(x) ==
  /\ live[x] = Nothing /\ created < MaxFiles
  /\ created' = created + 1
  /\ live' = [live EXCEPT ![x] = created']
  /\ UNCHANGED <<staged, files, info, temps, lock, pc, name, putLocals, rec,
                 resLocals, empLocals, found, scanLocals, stamp, asked, lost>>

UserUnlink(x) ==
  /\ live[x] # Nothing
  /\ live' = [live EXCEPT ![x] = Nothing]
  /\ discarded' = discarded \cup {live[x]}
  /\ UNCHANGED <<staged, files, info, temps, lock, pc, name, putLocals, rec,
                 resLocals, empLocals, found, scanLocals, stamp, created, asked,
                 clobbered>>

Init ==
  /\ live = [x \in Path |-> Nothing]
  /\ staged = {}
  /\ files = [n \in Names |-> NoPayload]
  /\ info = [n \in Names |-> NoRecord]
  /\ temps = {}
  /\ lock = "free"
  /\ pc = [p \in Procs |-> "idle"]
  /\ name = [p \in Procs |-> 1]
  /\ at = [p \in Putters |-> NoRecord.path]
  /\ batch = [p \in Putters |-> 0]
  /\ rec = [p \in Restorers \cup Removers |-> NoRecord]
  /\ force = [p \in Restorers |-> FALSE]
  /\ blocked = [p \in Restorers |-> FALSE]
  /\ carry = [p \in Restorers |-> Nothing]
  /\ seen = [p \in Emptiers |-> [n \in Names |-> 0]]
  /\ seenInfo = [p \in Emptiers |-> {}]
  /\ found = [p \in Repairers |-> [n \in Names |-> NoRecord]]
  /\ seenTemps = [p \in Emptiers \cup Repairers |-> {}]
  /\ cut = [p \in Emptiers |-> 0]
  /\ todo = [p \in Emptiers \cup Repairers |-> {}]
  /\ midway = [p \in Emptiers |-> {}]
  /\ stamp = 0
  /\ created = 0
  /\ counted = [p \in Deleters |-> {}]
  /\ removed = [p \in Deleters |-> {}]
  /\ discarded = {}
  /\ clobbered = {}

(* Every variable stays in its range: in particular, only a file that is   *)
(* there is ever staged.                                                   *)
TypeOK ==
  /\ live \in [Path -> 0..Debris]
  /\ staged \subseteq 1..Debris
  /\ files \in [Names -> Payload]
  /\ info \in [Names -> Record]
  /\ temps \subseteq Nat
  /\ lock \in Procs \cup {"free"}
  /\ pc \in [Procs -> Labels]
  /\ name \in [Procs -> Names]
  /\ at \in [Putters -> Path]
  /\ batch \in [Putters -> Nat]
  /\ rec \in [Restorers \cup Removers -> Record]
  /\ force \in [Restorers -> BOOLEAN]
  /\ blocked \in [Restorers -> BOOLEAN]
  /\ carry \in [Restorers -> 0..Debris]
  /\ seen \in [Emptiers -> [Names -> Nat]]
  /\ seenInfo \in [Emptiers -> SUBSET Names]
  /\ found \in [Repairers -> [Names -> Record]]
  /\ seenTemps \in [Emptiers \cup Repairers -> SUBSET Nat]
  /\ cut \in [Emptiers -> Nat]
  /\ todo \in [Emptiers \cup Repairers -> SUBSET Names]
  /\ midway \in [Emptiers -> SUBSET Names]
  /\ stamp \in Nat /\ created \in 0..MaxFiles
  /\ counted \in [Deleters -> SUBSET Nat]
  /\ removed \in [Deleters -> SUBSET Nat]
  /\ discarded \subseteq 1..Debris
  /\ clobbered \subseteq 1..Debris
=============================================================================
