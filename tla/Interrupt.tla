----------------------------- MODULE Interrupt -----------------------------
(***************************************************************************)
(* Ctrl-C: the handler, the sections that must not end halfway, and the    *)
(* batch runs that stop first and quit next.  Threads work through items,  *)
(* each inside a section; the handler runs on any of them, at any of their *)
(* steps, and knows only the atomics.  critical(), the drop of a section   *)
(* and stop_then_quit hold the mutex STATE; the handler takes nothing.     *)
(***************************************************************************)
EXTENDS Naturals, FiniteSets

CONSTANTS
  Threads, Main,
  MaxPress,   \* bound on the presses
  MaxItems    \* items each thread has to do

NoThread == "nobody"

ASSUME ThreadAssumption == IsFiniteSet(Threads) /\ NoThread \notin Threads
ASSUME MainAssumption == Main \in Threads
ASSUME LimitAssumption == MaxPress \in Nat /\ MaxItems \in Nat

VARIABLES
  presses, critical, deferred, stopFirst,   \* the atomics
  saved, bySection,     \* STATE: the disposition ours replaced, or "none"
  mutex,                \* who holds STATE, or NoThread
  disp,                 \* the SIGINT disposition: "default", "ignored", "ours"
  original,             \* the disposition the process began with
  alive,
  pc, items,
  handler,              \* what the handler on a thread is about to do
  nth,                  \* the number of the press it handles
  armed,                \* history: a batch run began with no press before it
  raced,                \* history: a section opened after a handler that
                        \* quits had looked
  lost                  \* history: a press was deferred to no section

atomics == <<presses, critical, deferred, stopFirst>>
state == <<saved, bySection>>
history == <<armed, raced, lost>>
vars == <<atomics, state, mutex, disp, original, alive, pc, items, handler,
          nth, history>>

Init ==
  /\ presses = 0 /\ critical = 0 /\ deferred = FALSE /\ stopFirst = FALSE
  /\ saved = "none" /\ bySection = FALSE /\ mutex = NoThread
  /\ original \in {"default", "ignored"} /\ disp = original
  /\ alive = TRUE
  /\ pc = [t \in Threads |-> "idle"] /\ items = [t \in Threads |-> MaxItems]
  /\ handler = [t \in Threads |-> "none"] /\ nth = [t \in Threads |-> 0]
  /\ armed = FALSE /\ raced = FALSE /\ lost = FALSE

(* A thread takes a step unless the handler has interrupted it.            *)
At(t, l) == alive /\ handler[t] = "none" /\ pc[t] = l
Goto(t, l) == pc' = [pc EXCEPT ![t] = l]
Enter(t) == mutex = NoThread /\ mutex' = t
Leave == mutex' = NoThread

(* install: a process that ignores SIGINT keeps ignoring it.               *)
Install ==
  IF disp = "ignored" THEN UNCHANGED <<saved, disp>>
  ELSE saved' = disp /\ disp' = "ours"

-----------------------------------------------------------------------------
(* stop_then_quit, before the items.                                       *)
Batch(t) ==
  /\ t = Main /\ At(t, "idle") /\ ~stopFirst /\ Enter(t)
  /\ \A u \in Threads : pc[u] = "idle"
  /\ stopFirst' = TRUE /\ Goto(t, "batch")
  /\ UNCHANGED <<presses, critical, deferred, state, disp, original, alive,
                 items, handler, nth, history>>

BatchInstall(t) ==
  /\ At(t, "batch") /\ Leave /\ Goto(t, "idle")
  /\ IF saved = "none" THEN Install ELSE UNCHANGED <<saved, disp>>
  /\ bySection' = FALSE
  /\ armed' = (presses = 0)
  /\ UNCHANGED <<atomics, original, alive, items, handler, nth, raced, lost>>

(* A batch run looks at `requested` before each item.                      *)
Item(t) ==
  /\ At(t, "idle") /\ items[t] > 0 /\ \A u \in Threads : pc[u] # "batch"
  /\ ~(stopFirst /\ presses > 0)
  /\ items' = [items EXCEPT ![t] = @ - 1] /\ Goto(t, "item")
  /\ UNCHANGED <<atomics, state, mutex, disp, original, alive, handler, nth,
                 history>>

-----------------------------------------------------------------------------
(* critical()                                                              *)
Open(t) ==
  /\ At(t, "item") /\ Enter(t) /\ Goto(t, "open")
  /\ UNCHANGED <<atomics, state, disp, original, alive, items, handler, nth,
                 history>>

OpenCount(t) ==
  /\ At(t, "open") /\ critical' = critical + 1
  /\ IF critical = 0 /\ saved = "none"
       THEN Goto(t, "install") /\ UNCHANGED mutex
       ELSE Goto(t, "inside") /\ Leave
  /\ raced' = (raced \/ \E u \in Threads : handler[u] = "quit")
  /\ UNCHANGED <<presses, deferred, stopFirst, state, disp, original, alive,
                 items, handler, nth, armed, lost>>

OpenInstall(t) ==
  /\ At(t, "install") /\ Leave /\ Goto(t, "inside")
  /\ Install /\ bySection' = (saved' # "none")
  /\ UNCHANGED <<atomics, original, alive, items, handler, nth, history>>

(* Inside, one of two changes is made; the section ends with the other.    *)
Finish(t) ==
  /\ At(t, "inside") /\ Goto(t, "finished")
  /\ UNCHANGED <<atomics, state, mutex, disp, original, alive, items, handler,
                 nth, history>>

(* Drop for Critical                                                       *)
Close(t) ==
  /\ At(t, "finished") /\ Enter(t) /\ Goto(t, "close")
  /\ UNCHANGED <<atomics, state, disp, original, alive, items, handler, nth,
                 history>>

(* Mutant: the first section to end takes the handler out.                 *)
CloseAny(t) ==
  /\ At(t, "close") /\ critical' = critical - 1
  /\ Goto(t, "swap")
  /\ UNCHANGED <<presses, deferred, stopFirst, state, mutex, disp, original,
                 alive, items, handler, nth, history>>

CloseCount(t) ==
  /\ At(t, "close") /\ critical' = critical - 1
  /\ IF critical = 1 THEN Goto(t, "swap") /\ UNCHANGED mutex
     ELSE Goto(t, "idle") /\ Leave
  /\ UNCHANGED <<presses, deferred, stopFirst, state, disp, original, alive,
                 items, handler, nth, history>>

(* Mutant: any deferred press quits.                                       *)
QuitsAlways == TRUE

QuitsAtSectionEnd == ~stopFirst \/ presses >= 2

(* Mutant: the deferred press is cleared and not acted on.                 *)
CloseForgets(t) ==
  /\ At(t, "swap") /\ Goto(t, "restore")
  /\ deferred' = FALSE
  /\ UNCHANGED <<presses, critical, stopFirst, state, mutex, disp, original,
                 alive, items, handler, nth, history>>

CloseSwap(t) ==
  /\ At(t, "swap") /\ Goto(t, "restore")
  /\ deferred' = FALSE
  /\ alive' = ~(deferred /\ QuitsAtSectionEnd)
  /\ UNCHANGED <<presses, critical, stopFirst, state, mutex, disp, original,
                 items, handler, nth, history>>

CloseRestore(t) ==
  /\ At(t, "restore") /\ Leave /\ Goto(t, "idle")
  /\ IF bySection THEN disp' = saved /\ saved' = "none" /\ bySection' = FALSE
     ELSE UNCHANGED <<disp, state>>
  /\ UNCHANGED <<atomics, original, alive, items, handler, nth, history>>

-----------------------------------------------------------------------------
(* A press, on any thread that is not in the handler already.  Ours counts *)
(* it, then looks, then acts, while the other threads go on.               *)
Press(t) ==
  /\ alive /\ handler[t] = "none" /\ presses < MaxPress /\ disp # "ignored"
  /\ IF disp = "default" THEN alive' = FALSE /\ UNCHANGED <<presses, handler, nth>>
     ELSE /\ presses' = presses + 1
          /\ handler' = [handler EXCEPT ![t] = "look"]
          /\ nth' = [nth EXCEPT ![t] = presses']
          /\ UNCHANGED alive
  /\ UNCHANGED <<critical, deferred, stopFirst, state, mutex, disp, original,
                 pc, items, history>>

(* Mutant: the handler does not look at the sections.                      *)
OnPressNow(t) == IF stopFirst /\ nth[t] = 1 THEN "none" ELSE "quit"

OnPress(t) ==
  IF critical > 0 THEN "defer"
  ELSE IF stopFirst /\ nth[t] = 1 THEN "none" ELSE "quit"

HandlerLook(t) ==
  /\ alive /\ handler[t] = "look"
  /\ handler' = [handler EXCEPT ![t] = OnPress(t)]
  /\ UNCHANGED <<atomics, state, mutex, disp, original, alive, pc, items, nth,
                 history>>

HandlerDefer(t) ==
  /\ alive /\ handler[t] = "defer"
  /\ deferred' = TRUE
  /\ handler' = [handler EXCEPT ![t] = "none"]
  /\ lost' = (lost \/ (critical = 0 /\ \A u \in Threads : pc[u] # "swap"))
  /\ UNCHANGED <<presses, critical, stopFirst, state, mutex, disp, original,
                 alive, pc, items, nth, armed, raced>>

HandlerQuit(t) ==
  /\ alive /\ handler[t] = "quit"
  /\ alive' = FALSE
  /\ UNCHANGED <<atomics, state, mutex, disp, original, pc, items, handler, nth,
                 history>>

Step(t) ==
  \/ Item(t) \/ BatchInstall(t)
  \/ Open(t) \/ OpenCount(t) \/ OpenInstall(t) \/ Finish(t)
  \/ Close(t) \/ CloseCount(t) \/ CloseSwap(t) \/ CloseRestore(t)
  \/ HandlerLook(t) \/ HandlerDefer(t) \/ HandlerQuit(t)

Next == \E t \in Threads : Batch(t) \/ Step(t) \/ Press(t)

Spec == Init /\ [][Next]_vars

(* The kernel runs every thread, in its handler or not.                    *)
FairSpec == Spec /\ \A t \in Threads : WF_vars(Step(t))

-----------------------------------------------------------------------------
Places == {"idle", "batch", "item", "open", "install", "inside", "finished",
           "close", "swap", "restore"}

(* The counters, dispositions and program counters stay in their ranges.   *)
TypeOK ==
  /\ presses \in 0..MaxPress /\ critical \in 0..Cardinality(Threads)
  /\ saved \in {"none", "default"} /\ disp \in {"default", "ignored", "ours"}
  /\ {deferred, stopFirst, bySection, alive, armed, raced, lost} \subseteq BOOLEAN
  /\ mutex \in Threads \cup {NoThread}
  /\ pc \in [Threads -> Places] /\ items \in [Threads -> 0..MaxItems]
  /\ handler \in [Threads -> {"none", "look", "defer", "quit"}]

(* Our handler is in place exactly while a section is open or a batch run  *)
(* is on, and otherwise SIGINT does what it did before: after any number   *)
(* of sections on any threads, and under nohup always.                     *)
DispositionRight ==
  alive /\ mutex = NoThread =>
    disp = IF original = "ignored" THEN "ignored"
           ELSE IF critical > 0 \/ stopFirst THEN "ours" ELSE original

(* The first press of a batch run never ends the process, in a section or  *)
(* outside, however late it is handled.                                    *)
FirstStops == armed /\ presses <= 1 => alive

(* No section ends halfway: a process that dies has all its sections       *)
(* whole, except for one that opened after the handler had looked.         *)
SectionWhole ==
  ~alive /\ (\E t \in Threads : pc[t] = "inside") => raced

(* Every press has its effect: it ends the process, after the section it   *)
(* came in, or stops the batch run with each thread between items.  None   *)
(* is forgotten but one deferred just as the last section ended.           *)
Stopped == stopFirst /\ \A t \in Threads : pc[t] = "idle"
PressActs == presses > 0 ~> ~alive \/ lost \/ Stopped

(* interrupt.rs:17: a section "never ends halfway: a Ctrl-C inside it      *)
(* waits until the record and the payload agree, then acts."  The handler  *)
(* looks for a section in one step and acts in another: one may have       *)
(* opened in between, on another thread, or have ended.                    *)
SectionNeverCut == ~alive => \A t \in Threads : pc[t] # "inside"
DeferredActs == presses > 0 ~> ~alive \/ Stopped
=============================================================================
