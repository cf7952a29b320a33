-------------------------------- MODULE Join --------------------------------
(***************************************************************************)
(* Join handles and shutdown: the oneshot slot with its mutex and condition *)
(* variable, the places a flow can be in while nobody runs it, the worker  *)
(* and timer threads, and who still holds the runtime's Arc<Shared>.  One  *)
(* action is one critical section or one atomic access.  Waits on the      *)
(* workers' condition variable time out after 50 ms, so their              *)
(* notifications only shorten them and are left out.                       *)
(***************************************************************************)
EXTENDS Naturals, FiniteSets

CONSTANTS
    Flows, Workers, Joiners,
    Target,     \* the flow whose handle a joining thread uses
    Nobody

ASSUME JoinAssumption ==
    /\ Target \in [Joiners -> Flows]
    /\ Nobody \notin Flows
    /\ Workers \cap {"unborn", "injector", "timer", "mailbox", "held",
                     "dropping", "gone"} = {}

VARIABLES
    slot,       \* Inner.slot of each flow's oneshot
    caller,     \* a joining thread: "away", "asleep", "awake", "late", or its answer
    moved,      \* flows whose handle a join has consumed
    place,      \* where the flow is: "unborn", "injector", "timer", "mailbox",
                \*   a worker (its local deque), "held" by a thread, "dropping", "gone"
    worker,     \* per worker thread: what it does, and the flow it holds
    timer,      \* the timer thread: "top", "checked", "idle", "waits", "ended"
    stop,       \* Shared.shutdown
    timerStop,  \* TimerWheel.shutdown
    host,       \* the thread that owns the Runtime
    spawner,    \* whether a RuntimeSpawner (a Supervisor has one) is alive
    shared,     \* whether Shared is
    owed        \* flows whose slot was written and whose notify_one is still to come

vars == <<slot, caller, moved, place, worker, timer, stop, timerStop, host,
          spawner, shared, owed>>
joinVars == <<slot, caller, moved, owed>>
threadVars == <<worker, timer>>
hostVars == <<stop, timerStop, host, spawner, shared>>

Answers == {"outcome", "already", "abandoned", "timeout"}
NoFlow == [at |-> "top", f |-> Nobody]

Init ==
    /\ slot = [f \in Flows |-> "pending"]
    /\ caller = [j \in Joiners |-> "away"]
    /\ moved = {}
    /\ place = [f \in Flows |-> "unborn"]
    /\ worker = [w \in Workers |-> NoFlow]
    /\ timer = "top"
    /\ stop = FALSE /\ timerStop = FALSE
    /\ host = "up"
    /\ spawner = TRUE
    /\ shared = TRUE
    /\ owed = {}

-----------------------------------------------------------------------------
(* The receiving side.                                                     *)

(* collect: what the slot answers.  A thread whose deadline has passed     *)
(* gives up on a pending slot; any other goes to sleep, which releases the *)
(* mutex.                                                                  *)
Collected(j, late) ==
    CASE slot[Target[j]] = "ready" -> "outcome"
      [] slot[Target[j]] = "taken" -> "already"
      [] slot[Target[j]] = "abandoned" -> "abandoned"
      [] OTHER -> IF late THEN "timeout" ELSE "asleep"

(* One turn of the loop in join_deadline and wait_forever. *)
(* Mutant: the deadline is looked at before the slot. *)
TurnDeadlineFirst(j, late) ==
    /\ caller' = [caller EXCEPT ![j] = IF late THEN "timeout" ELSE Collected(j, late)]
    /\ slot' = [slot EXCEPT ![Target[j]] = IF caller'[j] = "outcome" THEN "taken" ELSE @]
    /\ UNCHANGED <<owed, place, threadVars, hostVars>>
Turn(j, late) ==
    /\ caller' = [caller EXCEPT ![j] = Collected(j, late)]
    /\ slot' = [slot EXCEPT ![Target[j]] = IF caller'[j] = "outcome" THEN "taken" ELSE @]
    /\ UNCHANGED <<owed, place, threadVars, hostVars>>

(* A flow's handle exists once spawn_on has returned it, until join takes it. *)
HasHandle(f) == place[f] # "unborn" /\ f \notin moved
InCall(j) == caller[j] \in {"asleep", "awake", "late"}

(* join_timeout and join_deadline; try_join is a deadline that is now. *)
Poll(j) ==
    /\ ~InCall(j) /\ HasHandle(Target[j])
    /\ \E late \in BOOLEAN : Turn(j, late)
    /\ UNCHANGED moved

(* join: wait_forever with the handle to itself. *)
JoinNow(j) ==
    /\ HasHandle(Target[j])
    /\ \A i \in Joiners : Target[i] = Target[j] => ~InCall(i)
    /\ moved' = moved \cup {Target[j]}
    /\ Turn(j, FALSE)

(* A thread that has left the condition variable takes the mutex again. *)
Collect(j) ==
    /\ \/ caller[j] = "awake" /\ Turn(j, FALSE)
       \/ caller[j] = "late" /\ Turn(j, TRUE)
    /\ UNCHANGED moved

(* The condition variable returns without a notification. *)
Spurious(j) ==
    /\ caller[j] = "asleep"
    /\ caller' = [caller EXCEPT ![j] = "awake"]
    /\ UNCHANGED <<slot, moved, owed, place, threadVars, hostVars>>

(* The deadline passes; a join has none. *)
Expire(j) ==
    /\ Target[j] \notin moved
    /\ caller[j] = "asleep"
    /\ caller' = [caller EXCEPT ![j] = "late"]
    /\ UNCHANGED <<slot, moved, owed, place, threadVars, hostVars>>

(* notify_one, after the mutex is released: at most one sleeper wakes.     *)
Notify(f) ==
    /\ f \in owed
    /\ owed' = owed \ {f}
    /\ LET asleep == {j \in Joiners : Target[j] = f /\ caller[j] = "asleep"} IN
       \/ asleep = {} /\ UNCHANGED caller
       \/ \E j \in asleep : caller' = [caller EXCEPT ![j] = "awake"]
    /\ UNCHANGED <<slot, moved, place, threadVars, hostVars>>

(* Drop for Sender: only a slot that still waits becomes abandoned. *)
DropSender(f) ==
    /\ place[f] = "dropping"
    /\ place' = [place EXCEPT ![f] = "gone"]
    /\ slot' = [slot EXCEPT ![f] = IF @ = "pending" THEN "abandoned" ELSE @]
    /\ owed' = owed \cup {f}
    /\ UNCHANGED <<caller, moved, threadVars, hostVars>>

-----------------------------------------------------------------------------
(* Worker threads.                                                         *)

Does(w, at) == worker' = [worker EXCEPT ![w] = [@ EXCEPT !.at = at]]
(* Mutant: the worker still refers to the flow it let go. *)
LetsGoKeeps(w, to) == Does(w, "top") /\ place' = [place EXCEPT ![worker[w].f] = to]
LetsGo(w, to) ==
    /\ worker' = [worker EXCEPT ![w] = NoFlow]
    /\ place' = [place EXCEPT ![worker[w].f] = to]

(* run_worker's loop: its condition, then find_work in the own deque, the  *)
(* injector and everybody's deque.  With nothing to do, wait_for_work      *)
(* returns by itself.                                                      *)
FindWork(w) ==
    LET from == IF \E f \in Flows : place[f] = w THEN {w}
                ELSE IF \E f \in Flows : place[f] = "injector" THEN {"injector"}
                ELSE Workers
    IN
    /\ worker[w].at = "top"
    /\ \/ /\ stop
          /\ Does(w, "ended") /\ UNCHANGED place
       \/ /\ ~stop
          /\ \E f \in {g \in Flows : place[g] \in from} :
                /\ place' = [place EXCEPT ![f] = "held"]
                /\ worker' = [worker EXCEPT ![w] = [at |-> "drive", f |-> f]]
    /\ UNCHANGED <<joinVars, timer, hostVars>>

(* drive_process: on shutdown the flow goes back to the local deque. *)
DriveTop(w) ==
    /\ worker[w].at = "drive"
    /\ IF stop THEN LetsGo(w, w) ELSE Does(w, "quantum") /\ UNCHANGED place
    /\ UNCHANGED <<joinVars, timer, hostVars>>

(* A quantum ends in a value, a trap or a panic (finalize_flow completes   *)
(* the oneshot), a yield, a sleep, a wait in the flow's own mailbox, or an *)
(* effect the worker serves at once.                                       *)
(* Mutant: a flow that has finished is queued again. *)
CompletesAndQueues(w) ==
    /\ worker[w].at = "quantum"
    /\ LetsGo(w, w)
    /\ slot' = [slot EXCEPT ![worker[w].f] = "ready"]
    /\ owed' = owed \cup {worker[w].f}
    /\ UNCHANGED <<caller, moved, timer, hostVars>>
Completes(w) ==
    /\ worker[w].at = "quantum"
    /\ LetsGo(w, "gone")
    /\ slot' = [slot EXCEPT ![worker[w].f] = "ready"]
    /\ owed' = owed \cup {worker[w].f}
    /\ UNCHANGED <<caller, moved, timer, hostVars>>

Suspends(w, to) ==
    /\ worker[w].at = "quantum"
    /\ to = "timer" => timer # "checked"    \* TimerWheel::push needs the heap's mutex
    /\ LetsGo(w, to)
    /\ timer' = IF to = "timer" /\ timer \in {"idle", "waits"} THEN "top" ELSE timer
    /\ UNCHANGED <<joinVars, hostVars>>

Continues(w) ==
    /\ worker[w].at = "quantum"
    /\ Does(w, "drive")
    /\ UNCHANGED <<joinVars, place, timer, hostVars>>

(* A hop or a kill takes a parked flow off its mailbox: another flow's      *)
(* worker, or the host through Runtime::send.                              *)
WakeParked(f) ==
    /\ place[f] = "mailbox"
    /\ host = "up" \/ \E w \in Workers : worker[w].at = "quantum"
    /\ place' = [place EXCEPT ![f] = "injector"]
    /\ UNCHANGED <<joinVars, threadVars, hostVars>>

-----------------------------------------------------------------------------
(* The timer thread.                                                       *)

(* The heap is locked, and the flag read under its own mutex. *)
TimerTop ==
    /\ timer = "top"
    /\ timer' = IF timerStop THEN "ended" ELSE "checked"
    /\ UNCHANGED <<joinVars, place, worker, hostVars>>

(* Still under the heap's mutex: fire the entry that is due, or wait.  A   *)
(* flow in its mailbox may have a deadline in the heap as well.            *)
TimerActs ==
    /\ timer = "checked"
    /\ \/ /\ timer' = "top"
          /\ \E f \in Flows : /\ place[f] \in {"timer", "mailbox"}
                              /\ place' = [place EXCEPT ![f] = "injector"]
       \/ /\ timer' = IF \E f \in Flows : place[f] = "timer" THEN "waits" ELSE "idle"
          /\ UNCHANGED place
    /\ UNCHANGED <<joinVars, worker, hostVars>>

(* wait_timeout returns: 250 ms on an empty heap, else at the top deadline. *)
(* Mutant: an idle timer waits for a push or for shutdown. *)
TimerTimeoutOnlyBusy ==
    /\ timer = "waits"
    /\ timer' = "top"
    /\ UNCHANGED <<joinVars, place, worker, hostVars>>
TimerTimeout ==
    /\ timer \in {"idle", "waits"}
    /\ timer' = "top"
    /\ UNCHANGED <<joinVars, place, worker, hostVars>>

-----------------------------------------------------------------------------
(* The embedder.                                                           *)

(* spawn_on through the Runtime or a RuntimeSpawner, before or after the   *)
(* runtime was told to stop.                                               *)
Spawn(f) ==
    /\ place[f] = "unborn"
    /\ host = "up" \/ spawner
    /\ place' = [place EXCEPT ![f] = "injector"]
    /\ UNCHANGED <<joinVars, threadVars, hostVars>>

(* request_shutdown: Shared.shutdown; the timer's flag; its notify_all,    *)
(* sent without the heap's mutex; then shutdown joins the threads, while   *)
(* Drop lets go of Shared at once.                                         *)
RequestShutdown ==
    /\ host = "up"
    /\ stop' = TRUE
    /\ host' \in {"shutdown", "drop"}
    /\ UNCHANGED <<joinVars, place, threadVars, timerStop, spawner, shared>>

FlagTimer ==
    /\ host \in {"shutdown", "drop"} /\ ~timerStop
    /\ timerStop' = TRUE
    /\ UNCHANGED <<joinVars, place, threadVars, stop, host, spawner, shared>>

NotifyTimer ==
    /\ host \in {"shutdown", "drop"} /\ timerStop
    /\ timer' = IF timer \in {"idle", "waits"} THEN "top" ELSE timer
    /\ host' = IF host = "shutdown" THEN "joining" ELSE "away"
    /\ UNCHANGED <<joinVars, place, worker, stop, timerStop, spawner, shared>>

JoinThreads ==
    /\ host = "joining"
    /\ timer = "ended" /\ \A w \in Workers : worker[w].at = "ended"
    /\ host' = "away"
    /\ UNCHANGED <<joinVars, place, threadVars, stop, timerStop, spawner, shared>>

DropSpawner ==
    /\ spawner
    /\ spawner' = FALSE
    /\ UNCHANGED <<joinVars, place, threadVars, stop, timerStop, host, shared>>

(* The last Arc<Shared> goes, and with it the injector, the deques and the *)
(* timer's heap.  A flow parked in its mailbox holds the Arc<Mailbox> that *)
(* holds it, and stays.                                                    *)
(* Mutant: the deques outlive Shared. *)
QueuedButDeques(f) == place[f] \in {"injector", "timer"}
Queued(f) == place[f] \in {"injector", "timer"} \cup Workers
DropShared ==
    /\ shared
    /\ host = "away" /\ ~spawner
    /\ timer = "ended" /\ \A w \in Workers : worker[w].at = "ended"
    /\ shared' = FALSE
    /\ place' = [f \in Flows |-> IF Queued(f) THEN "dropping" ELSE place[f]]
    /\ UNCHANGED <<joinVars, threadVars, stop, timerStop, host, spawner>>

-----------------------------------------------------------------------------
WorkerStep(w) ==
    \/ FindWork(w) \/ DriveTop(w) \/ Completes(w) \/ Continues(w)
    \/ \E to \in {w, "timer", "mailbox"} : Suspends(w, to)
TimerStep == TimerTop \/ TimerActs \/ TimerTimeout
HostStep == FlagTimer \/ NotifyTimer \/ JoinThreads \/ DropShared

Next ==
    \/ \E j \in Joiners : Poll(j) \/ JoinNow(j) \/ Collect(j) \/ Spurious(j) \/ Expire(j)
    \/ \E f \in Flows : Notify(f) \/ DropSender(f) \/ WakeParked(f) \/ Spawn(f)
    \/ \E w \in Workers : WorkerStep(w)
    \/ TimerStep \/ HostStep \/ RequestShutdown \/ DropSpawner

(* Threads run; waits with a bound end; the thread that shuts down goes on *)
(* to do so.  Nothing obliges the embedder to shut down, to let go of a    *)
(* spawner, or a flow to finish.                                           *)
Fairness ==
    /\ \A j \in Joiners : WF_vars(Collect(j)) /\ WF_vars(Expire(j))
    /\ \A f \in Flows : WF_vars(Notify(f)) /\ WF_vars(DropSender(f))
    /\ \A w \in Workers : WF_vars(WorkerStep(w))
    /\ WF_vars(TimerStep) /\ WF_vars(HostStep)

Spec == Init /\ [][Next]_vars /\ Fairness

-----------------------------------------------------------------------------
(* Types: every slot, thread and flow is in a state the code has, and a    *)
(* worker has a flow in its hands exactly while it drives one.             *)
TypeOK ==
    /\ slot \in [Flows -> {"pending", "ready", "taken", "abandoned"}]
    /\ caller \in [Joiners -> {"away", "asleep", "awake", "late"} \cup Answers]
    /\ place \in [Flows -> {"unborn", "injector", "timer", "mailbox", "held",
                             "dropping", "gone"} \cup Workers]
    /\ worker \in [Workers -> [at : {"top", "drive", "quantum", "ended"},
                               f : Flows \cup {Nobody}]]
    /\ \A w \in Workers : (worker[w].f = Nobody) <=> (worker[w].at \in {"top", "ended"})
    /\ timer \in {"top", "checked", "idle", "waits", "ended"}
    /\ host \in {"up", "shutdown", "drop", "joining", "away"}
    /\ {stop, timerStop, spawner, shared} \subseteq BOOLEAN
    /\ owed \subseteq Flows /\ moved \subseteq Flows

(* The contract does not tell asleep from awake. *)
View == [j \in Joiners |-> IF ~InCall(j) THEN caller[j]
                           ELSE IF Target[j] \in moved THEN "joining" ELSE "waiting"]
Contract == INSTANCE Handle WITH outcome <- slot, caller <- View

(* The slot, its mutex and its condition variable keep the promise of a    *)
(* FlowHandle, answers to every waiting caller of a settled flow included. *)
KeepsContract == Contract!HandleSpec

(* Once the last Arc<Shared> is gone, whoever waits for a flow that was in *)
(* the injector, a deque or the timer's heap is answered: with the queues  *)
(* goes every such flow's Sender.                                          *)
JoinerAnswered ==
    \A j \in Joiners :
        InCall(j) /\ ~shared ~> ~InCall(j) \/ place[Target[j]] = "mailbox"

(* Runtime::shutdown returns, although the timer can miss the notification *)
(* that is sent to it.                                                     *)
ShutdownReturns == host = "shutdown" ~> host = "away"

(* A flow is in one place: a queue, a thread's hands, or settled; what has *)
(* settled is never run again, and what is dropped had not settled.        *)
HeldBy(f) == {w \in Workers : worker[w].f = f}
RunsOnce ==
    \A f \in Flows :
        /\ (place[f] = "held") <=> (HeldBy(f) # {})
        /\ Cardinality(HeldBy(f)) <= 1
        /\ (place[f] = "gone") <=> (slot[f] # "pending")

-----------------------------------------------------------------------------
(* What the repository says and the code does not do.                      *)

(* A flow that the runtime's end destroys, parked in its mailbox included, *)
(* answers its joiner: no join blocks on a value that can no longer        *)
(* arrive.  Violated: a parked flow is held by its mailbox and holds it    *)
(* (Flow.mailbox), so that its Sender is never dropped and join waits on.  *)
JoinEnds == \A j \in Joiners : InCall(j) /\ ~shared ~> ~InCall(j)

=============================================================================
