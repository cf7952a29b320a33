----------------------------- MODULE Supervisor -----------------------------
(***************************************************************************)
(* The host supervisor (scheduler/supervisor.rs) and the name registry it  *)
(* binds its children in (registry.rs).  Three kinds of threads act: the   *)
(* embedder's, which calls start_child; the supervisor's own (drive),      *)
(* which handles exits; and the workers, which run children and finalize   *)
(* them.  Each action is one critical section of the child table, the      *)
(* event queue, the directory or the registry.                             *)
(*                                                                         *)
(* Only the drive thread uses the cascade slot and the restart window, so  *)
(* their critical sections are part of the action around them.  A flow is  *)
(* one incarnation of a child; FlowIds are never reused.                   *)
(***************************************************************************)
EXTENDS Integers, Sequences, SequencesExt, FiniteSets

CONSTANTS
    NumSpecs,       \* children the embedder starts, in this order
    Named,          \* those with a name
    Policy,         \* their RestartPolicy
    Strategies,     \* what RestartStrategy the embedder may configure
    MaxRestarts,    \* SupervisorConfig::max_restarts
    MaxStarted,     \* bound: children started, by strategy
    MaxFlows,       \* bound: incarnations
    MaxExits        \* bound: exits that no kill asked for

Specs == 1 .. NumSpecs
Flows == 1 .. MaxFlows

ASSUME SupervisorAssumption ==
    /\ NumSpecs \in Nat
    /\ Named \subseteq Specs
    /\ Policy \in [Specs -> {"Always", "OnFailure", "Never"}]
    /\ Strategies \subseteq {"OneForOne", "OneForAll", "RestForOne"}
    /\ MaxRestarts \in Nat
    /\ MaxStarted \in [Strategies -> 0 .. NumSpecs]
    /\ MaxFlows \in Nat
    /\ MaxExits \in Nat

VARIABLES
    strategy,       \* SupervisorConfig::strategy
    started,        \* specs the embedder has passed to start_child
    state,          \* where each incarnation is between spawn and notify
    spec,           \* the child it is an incarnation of
    outcome,        \* its FlowOutcome
    signals,        \* KillSignals: flows that are to die at a quantum
    exits,          \* exits so far that no kill asked for
    names,          \* Registry::by_name
    events,         \* Inner::events
    rows,           \* ChildTable::order
    expected,       \* rows with expected_shutdown
    cascade,        \* Inner::cascade
    recent,         \* restart_times within the window
    exceeded,       \* intensity_exceeded
    stopped,        \* Inner::shutdown
    drive,          \* where the drive thread is
    spawning,       \* spawn_child, by the thread that runs it
    reaping,        \* the flow each thread finalizes inside request_kill
    refused,        \* history: incarnations whose name was taken
    retired,        \* history: children that are not to come back
    overwritten     \* history: children of a cascade that was overwritten

flowVars == <<state, spec, outcome, signals, exits>>
tableVars == <<rows, expected>>
windowVars == <<recent, exceeded>>
spawnVars == <<started, spawning>>
historyVars == <<refused, retired, overwritten>>
vars == <<strategy, flowVars, names, events, tableVars, cascade, windowVars,
          stopped, drive, spawnVars, reaping, historyVars>>

Threads == {"drive", "host"}

NoFlow == 0
NoCascade == [waiting |-> {}, specs |-> <<>>]
Resting == [pc |-> "idle", later |-> <<>>, specs |-> <<>>]
NotSpawning == [pc |-> "none", flow |-> NoFlow]

\* finalize_one as the supervisor can see it: the directory, then the
\* registry, then the notice.
FlowStates == {"unborn", "live", "dying", "unregistered", "nameless", "ended"}

\* Types of the child table, the event queue, the cascade and the restart window;
\* a restart is counted before it is compared, so the window never holds more.
TypeOK ==
    /\ strategy \in Strategies
    /\ started \in 0 .. NumSpecs
    /\ state \in [Flows -> FlowStates]
    /\ spec \in [Flows -> Specs \cup {0}]
    /\ outcome \in [Flows -> {"Completed", "Failed"}]
    /\ signals \subseteq Flows
    /\ exits \in 0 .. MaxExits
    /\ names \in [Specs -> Flows \cup {NoFlow}]
    /\ events \in Seq(Flows)
    /\ rows \in Seq(Flows)
    /\ expected \subseteq Flows
    /\ cascade \in [waiting : SUBSET Flows, specs : Seq(Specs)]
    /\ exceeded \in BOOLEAN
    /\ recent \in 0 .. (IF exceeded THEN MaxRestarts + 1 ELSE MaxRestarts)
    /\ stopped \in BOOLEAN
    /\ drive \in [pc : {"idle", "kill", "spawn"}, later : Seq(Flows), specs : Seq(Specs)]
    /\ spawning \in [Threads -> [pc : {"none", "register", "insert", "refuse", "leave"},
                                 flow : Flows \cup {NoFlow}]]
    /\ \A k \in Threads : spawning[k].pc # "none" =>
                            spawning[k].flow \in Flows /\ spec[spawning[k].flow] # 0
    /\ \A f \in Flows : state[f] # "unborn" => spec[f] \in Specs
    /\ reaping \in [Threads -> Flows \cup {NoFlow}]
    /\ refused \subseteq Flows
    /\ retired \subseteq Specs
    /\ overwritten \subseteq Specs

Init ==
    /\ strategy \in Strategies
    /\ started = 0
    /\ state = [f \in Flows |-> "unborn"]
    /\ spec = [f \in Flows |-> 0]
    /\ outcome = [f \in Flows |-> "Completed"]
    /\ signals = {}
    /\ exits = 0
    /\ names = [c \in Specs |-> NoFlow]
    /\ events = <<>>
    /\ rows = <<>>
    /\ expected = {}
    /\ cascade = NoCascade
    /\ recent = 0
    /\ exceeded = FALSE
    /\ stopped = FALSE
    /\ drive = Resting
    /\ spawning = [k \in Threads |-> NotSpawning]
    /\ reaping = [k \in Threads |-> NoFlow]
    /\ refused = {}
    /\ retired = {}
    /\ overwritten = {}

-----------------------------------------------------------------------------
(* Children                                                                *)

Registered(f) == state[f] \in {"live", "dying"}

\* finalize_flow is entered, and drops the signal; the rest of it follows
\* step by step.
BeginEnd(f, result) ==
    /\ state' = [state EXCEPT ![f] = "dying"]
    /\ outcome' = [outcome EXCEPT ![f] = result]
    /\ signals' = signals \ {f}

\* The child returns or fails by itself.
Exit(f) ==
    /\ state[f] = "live"
    /\ exits < MaxExits
    /\ exits' = exits + 1
    /\ \E result \in {"Completed", "Failed"} : BeginEnd(f, result)
    /\ UNCHANGED <<strategy, spec, names, events, tableVars, cascade, windowVars,
                   stopped, drive, spawnVars, reaping, historyVars>>

\* A quantum finds the signal.
Die(f) ==
    /\ state[f] = "live"
    /\ f \in signals
    /\ BeginEnd(f, "Failed")
    /\ UNCHANGED <<strategy, spec, exits, names, events, tableVars, cascade, windowVars,
                   stopped, drive, spawnVars, reaping, historyVars>>

\* Directory::unregister
Unregister(f) ==
    /\ state[f] = "dying"
    /\ state' = [state EXCEPT ![f] = "unregistered"]
    /\ UNCHANGED <<strategy, spec, outcome, signals, exits, names, events, tableVars,
                   cascade, windowVars, stopped, drive, spawnVars, reaping, historyVars>>

\* Registry::unregister_flow
UnregisterFlow(f) ==
    /\ state[f] = "unregistered"
    /\ state' = [state EXCEPT ![f] = "nameless"]
    /\ names' = [c \in Specs |-> IF names[c] = f THEN NoFlow ELSE names[c]]
    /\ UNCHANGED <<strategy, spec, outcome, signals, exits, events, tableVars, cascade,
                   windowVars, stopped, drive, spawnVars, reaping, historyVars>>

\* SupervisorLink::notify, the end of finalize_flow.
Notify(f) ==
    /\ state[f] = "nameless"
    /\ state' = [state EXCEPT ![f] = "ended"]
    /\ events' = Append(events, f)
    /\ reaping' = [k \in Threads |-> IF reaping[k] = f THEN NoFlow ELSE reaping[k]]
    /\ UNCHANGED <<strategy, spec, outcome, signals, exits, names, tableVars, cascade,
                   windowVars, stopped, drive, spawnVars, historyVars>>

(***************************************************************************)
(* request_kill by thread k: a parked child is finalized by k itself,      *)
(* which goes on when that is done; any other gets a signal.  A child that *)
(* has left the directory is left alone, one that is ending is past the    *)
(* point where it would read a signal.                                     *)
(***************************************************************************)
RequestKill(k, f) ==
    \/ /\ state[f] = "live"
       /\ BeginEnd(f, "Failed")
       /\ reaping' = [reaping EXCEPT ![k] = f]
    \/ /\ state[f] = "live"
       /\ signals' = signals \cup {f}
       /\ UNCHANGED <<state, outcome, reaping>>
    \/ /\ state[f] # "live"
       /\ UNCHANGED <<state, outcome, signals, reaping>>

\* The thread is not inside finalize_flow.
Free(k) == reaping[k] = NoFlow

-----------------------------------------------------------------------------
(* spawn_child                                                             *)

\* Mutant: the child table is not locked across the spawn.
TableUnguarded == TRUE

\* The child table's mutex: spawn_child holds it from end to end.
TableFree == \A k \in Threads : spawning[k].pc = "none"

\* Lock the table and spawn; the child can run from here on.
Spawn(k, c) ==
    /\ TableFree
    /\ Free(k)
    /\ \E f \in Flows :
         /\ state[f] = "unborn"
         /\ \A g \in Flows : state[g] = "unborn" => f <= g
         /\ state' = [state EXCEPT ![f] = "live"]
         /\ spec' = [spec EXCEPT ![f] = c]
         /\ spawning' = [spawning EXCEPT ![k] =
                           [pc |-> IF c \in Named THEN "register" ELSE "insert",
                            flow |-> f]]
    /\ UNCHANGED <<strategy, outcome, signals, exits, names, events, tableVars,
                   cascade, windowVars, stopped, reaping, historyVars>>

\* register_child_name: whatever has become of the child since.
RegisterName(k) ==
    LET f == spawning[k].flow
    IN  /\ spawning[k].pc = "register"
        /\ IF names[spec[f]] = NoFlow
           THEN /\ names' = [names EXCEPT ![spec[f]] = f]
                /\ spawning' = [spawning EXCEPT ![k].pc = "insert"]
           ELSE /\ spawning' = [spawning EXCEPT ![k].pc = "refuse"]
                /\ UNCHANGED names
        /\ UNCHANGED <<strategy, flowVars, events, tableVars, cascade, windowVars,
                       stopped, drive, started, reaping, historyVars>>

InsertRow(k) ==
    /\ spawning[k].pc = "insert"
    /\ rows' = Append(rows, spawning[k].flow)
    /\ spawning' = [spawning EXCEPT ![k] = NotSpawning]
    /\ UNCHANGED <<strategy, flowVars, names, events, expected, cascade, windowVars,
                   stopped, drive, started, reaping, historyVars>>

\* The name is taken: the new flow is killed and gets no row.
RefuseChild(k) ==
    /\ spawning[k].pc = "refuse"
    /\ RequestKill(k, spawning[k].flow)
    /\ spawning' = [spawning EXCEPT ![k].pc = "leave"]
    /\ refused' = refused \cup {spawning[k].flow}
    /\ UNCHANGED <<strategy, spec, exits, names, events, tableVars, cascade,
                   windowVars, stopped, drive, started, retired, overwritten>>

\* The table is unlocked when the kill is done.
LeaveRefused(k) ==
    /\ spawning[k].pc = "leave"
    /\ Free(k)
    /\ spawning' = [spawning EXCEPT ![k] = NotSpawning]
    /\ UNCHANGED <<strategy, flowVars, names, events, tableVars, cascade, windowVars,
                   stopped, drive, started, reaping, historyVars>>

\* Supervisor::start_child
StartChild ==
    /\ started < MaxStarted[strategy]
    /\ started' = started + 1
    /\ Spawn("host", started + 1)
    /\ UNCHANGED drive

-----------------------------------------------------------------------------
(* The drive thread                                                        *)

ShouldRestart(policy, result) ==
    \/ policy = "Always"
    \/ policy = "OnFailure" /\ result = "Failed"

SpecsOf(flows) == [i \in DOMAIN flows |-> spec[flows[i]]]

\* handle_exit begins: the oldest exit, with the table locked.
Handling(f) ==
    /\ drive.pc = "idle"
    /\ ~stopped
    /\ events # <<>>
    /\ f = Head(events)
    /\ events' = Tail(events)
    /\ TableFree

\* ChildTable::remove on the order of the rows: every place f has in it, and
\* f has one at most (RowsAreDistinct in SupervisorProofs).
RemoveRow(f) == \E i \in DOMAIN rows : rows[i] = f /\ rows' = RemoveAt(rows, i)

DropRow(f) ==
    /\ RemoveRow(f)
    /\ expected' = expected \ {f}

\* An incarnation without a row: its name was taken.
IgnoreExit(f) ==
    /\ Handling(f)
    /\ f \notin ToSet(rows)
    /\ UNCHANGED <<strategy, flowVars, names, tableVars, cascade, windowVars, stopped,
                   drive, spawnVars, reaping, historyVars>>

\* Mutant: the restarts of a cascade do not ask for the limit.
BeginRestartsUnlimited(specs) ==
    /\ drive' = [pc |-> "spawn", later |-> <<>>, specs |-> specs]
    /\ UNCHANGED retired

\* finish_cascade: the whole list, or none of it past the limit.
BeginRestarts(specs) ==
    IF exceeded
    THEN /\ drive' = Resting
         /\ retired' = retired \cup ToSet(specs)
    ELSE /\ drive' = [pc |-> "spawn", later |-> <<>>, specs |-> specs]
         /\ UNCHANGED retired

\* Mutant: only a cascade with nobody to wait for is finished.
StillWaitingAny(waiting) == drive.later = <<>> /\ cascade.waiting # {}

StillWaiting(waiting) == waiting # {}

\* What is left of the cascade once it waits for `waiting` only.
CascadeTo(waiting) ==
    IF StillWaiting(waiting)
    THEN /\ cascade' = [cascade EXCEPT !.waiting = waiting]
         /\ drive' = Resting
         /\ UNCHANGED retired
    ELSE /\ cascade' = NoCascade
         /\ BeginRestarts(cascade.specs)

\* on_cascade_progress: the exit of a sibling the cascade has killed.
ExpectedExit(f) ==
    /\ Handling(f)
    /\ f \in ToSet(rows) \cap expected
    /\ DropRow(f)
    /\ IF cascade = NoCascade
       THEN UNCHANGED <<cascade, drive, retired>>
       ELSE CascadeTo(cascade.waiting \ {f})
    /\ UNCHANGED <<strategy, flowVars, names, windowVars, stopped, spawnVars, reaping,
                   refused, overwritten>>

\* The row goes; f is not among those a cascade expects.
Unexpected(f) ==
    /\ Handling(f)
    /\ f \in ToSet(rows) \ expected
    /\ RemoveRow(f)
    /\ UNCHANGED <<strategy, flowVars, names, stopped, spawnVars, reaping, refused>>

\* The policy says no, or the limit was exceeded before.
FinalExit(f) ==
    /\ Unexpected(f)
    /\ exceeded \/ ~ShouldRestart(Policy[spec[f]], outcome[f])
    /\ retired' = retired \cup {spec[f]}
    /\ UNCHANGED <<expected, cascade, windowVars, drive, overwritten>>

Restarting(f) ==
    /\ Unexpected(f)
    /\ ~exceeded
    /\ ShouldRestart(Policy[spec[f]], outcome[f])
    /\ recent' = recent + 1

\* Mutant: one restart more than max_restarts is allowed.
OverLimitByOne(restarts) == restarts > MaxRestarts + 1

OverLimit(restarts) == restarts > MaxRestarts

\* intensity_hit: one restart too many within the window.
TooManyRestarts(f) ==
    /\ Restarting(f)
    /\ OverLimit(recent + 1)
    /\ exceeded' = TRUE
    /\ retired' = retired \cup {spec[f]}
    /\ UNCHANGED <<expected, cascade, drive, overwritten>>

RestartOne(f) ==
    /\ Restarting(f)
    /\ ~OverLimit(recent + 1)
    /\ strategy = "OneForOne"
    /\ drive' = [pc |-> "spawn", later |-> <<>>, specs |-> <<spec[f]>>]
    /\ UNCHANGED <<expected, cascade, exceeded, retired, overwritten>>

\* Mutant: the whole set without the child that failed.
SpecsOfAllButFailed(i, c, later) == SpecsOf(later)

\* OneForAll: the whole set, the failed child at its old place.
SpecsOfAll(i, c, later) == InsertAt(SpecsOf(later), i, c)

(***************************************************************************)
(* start_cascade: the other rows (or those after f) are to be killed, and  *)
(* to come back with f's child.  The slot is written whatever it holds.    *)
(***************************************************************************)
StartCascade(f) ==
    \E i \in DOMAIN rows :
        LET later == IF strategy = "OneForAll"
                     THEN RemoveAt(rows, i)
                     ELSE SubSeq(rows, i + 1, Len(rows))
        IN  /\ Restarting(f)
            /\ ~OverLimit(recent + 1)
            /\ strategy \in {"OneForAll", "RestForOne"}
            /\ rows[i] = f
            /\ expected' = expected \cup ToSet(later)
            /\ cascade' = [waiting |-> ToSet(later),
                           specs |-> IF strategy = "OneForAll"
                                     THEN SpecsOfAll(i, spec[f], later)
                                     ELSE <<spec[f]>> \o SpecsOf(later)]
            /\ overwritten' = overwritten \cup ToSet(cascade.specs)
            /\ drive' = [pc |-> "kill", later |-> later, specs |-> <<>>]
            /\ UNCHANGED <<exceeded, retired>>

KillNext ==
    /\ drive.pc = "kill"
    /\ drive.later # <<>>
    /\ Free("drive")
    /\ RequestKill("drive", Head(drive.later))
    /\ drive' = [drive EXCEPT !.later = Tail(@)]
    /\ UNCHANGED <<strategy, spec, exits, names, events, tableVars, cascade, windowVars,
                   stopped, spawnVars, historyVars>>

\* Those who have left the directory by now need not be waited for.
Prune ==
    /\ drive.pc = "kill"
    /\ drive.later = <<>>
    /\ Free("drive")
    /\ CascadeTo({f \in cascade.waiting : Registered(f)})
    /\ UNCHANGED <<strategy, flowVars, names, events, tableVars, windowVars, stopped,
                   spawnVars, reaping, refused, overwritten>>

RestartNext ==
    /\ drive.pc = "spawn"
    /\ drive.specs # <<>>
    /\ Spawn("drive", Head(drive.specs))
    /\ drive' = [drive EXCEPT !.specs = Tail(@)]
    /\ UNCHANGED started

EndRestarts ==
    /\ drive.pc = "spawn"
    /\ drive.specs = <<>>
    /\ spawning["drive"].pc = "none"
    /\ Free("drive")
    /\ drive' = Resting
    /\ UNCHANGED <<strategy, flowVars, names, events, tableVars, cascade, windowVars,
                   stopped, spawnVars, reaping, historyVars>>

\* Time passes: the oldest restart leaves the window.
LeaveWindow ==
    /\ recent > 0
    /\ recent' = recent - 1
    /\ UNCHANGED <<strategy, flowVars, names, events, tableVars, cascade, exceeded,
                   stopped, drive, spawnVars, reaping, historyVars>>

\* Supervisor::shutdown: the drive thread stops before the next exit.
Shutdown ==
    /\ ~stopped
    /\ stopped' = TRUE
    /\ UNCHANGED <<strategy, flowVars, names, events, tableVars, cascade, windowVars,
                   drive, spawnVars, reaping, historyVars>>

-----------------------------------------------------------------------------

HandleExit(f) ==
    \/ IgnoreExit(f) \/ ExpectedExit(f) \/ FinalExit(f) \/ TooManyRestarts(f)
    \/ RestartOne(f) \/ StartCascade(f)

Next ==
    \/ \E f \in Flows : \/ Exit(f) \/ Die(f) \/ Unregister(f) \/ UnregisterFlow(f)
                        \/ Notify(f) \/ HandleExit(f)
    \/ \E k \in Threads : \/ RegisterName(k) \/ InsertRow(k)
                          \/ RefuseChild(k) \/ LeaveRefused(k)
    \/ StartChild
    \/ KillNext \/ Prune \/ RestartNext \/ EndRestarts
    \/ LeaveWindow
    \/ Shutdown

Spec == Init /\ [][Next]_vars

-----------------------------------------------------------------------------
(* Properties                                                              *)

Handled(f) == state[f] = "ended" /\ f \notin ToSet(events)

BeingSpawned(f) == \E k \in Threads : spawning[k].pc # "none" /\ spawning[k].flow = f

(***************************************************************************)
(* The child table and the children agree: an incarnation has a row from   *)
(* the end of spawn_child until its exit has been handled, and not longer. *)
(* An exit handled before the row exists would leave a row for ever and a  *)
(* child that is never restarted (spawn_child: "a child that faults in its *)
(* first quantum cannot notify us before its row exists").                 *)
(***************************************************************************)
RowsAreUnhandled ==
    \A f \in Flows :
        state[f] # "unborn" /\ ~BeingSpawned(f) /\ f \notin refused
          => (f \in ToSet(rows) <=> ~Handled(f))

(***************************************************************************)
(* A cascade can end: while the drive thread rests and a cascade is under  *)
(* way, it waits for somebody whose exit is still to be handled.  Siblings *)
(* leave the directory at any moment around the kill, the prune and the    *)
(* notice (start_cascade, on_cascade_progress).                            *)
(***************************************************************************)
CascadeCanEnd ==
    cascade # NoCascade /\ drive.pc = "idle"
      => \E f \in cascade.waiting : f \in ToSet(rows) \cap expected /\ ~Handled(f)

\* Somebody still answers for child c.
Accounted(c) ==
    \/ \E f \in ToSet(rows) : spec[f] = c
    \/ \E f \in Flows : BeingSpawned(f) /\ spec[f] = c
    \/ c \in ToSet(cascade.specs) \cup ToSet(drive.specs)
    \/ c \in retired

TurnedAway(c) == \E f \in refused : spec[f] = c

(***************************************************************************)
(* A child is dropped for a reason: one that was started has an            *)
(* incarnation in the table, is about to get one, or is not to come back   *)
(* by its policy or the restart limit.  Two defects alone break this, a    *)
(* name that is still taken (spawn_child's result is ignored) and a        *)
(* cascade that another one overwrites (start_cascade), both the subject   *)
(* of SuffixComesBack: no other interleaving of exits, kills, prunes and   *)
(* restarts loses a child.                                                 *)
(***************************************************************************)
DroppedForAReason ==
    \A c \in 1 .. started : Accounted(c) \/ TurnedAway(c) \/ c \in overwritten

(***************************************************************************)
(* "Hitting this cap sets intensity_exceeded and further restarts are      *)
(* refused" (SupervisorConfig), those of a cascade that was under way when *)
(* the limit was hit included.                                             *)
(***************************************************************************)
LimitIsFinal ==
    [][exceeded => \A f \in Flows :
         state[f] = "unborn" /\ state'[f] # "unborn" => spawning'["host"].flow = f]_vars

(***************************************************************************)
(* What RestartStrategy says of RestForOne: "that suffix (failed + later)  *)
(* is started again in start order", and ChildSpec of a named child: its   *)
(* name is "swept on exit, re-bound on restart".  If either held, no two   *)
(* children that are to come back would be lost, the one that failed       *)
(* because another cascade began before its own was done and the later one *)
(* because its name is taken.                                              *)
(***************************************************************************)
SuffixComesBack ==
    strategy = "RestForOne" =>
        \A c, d \in 1 .. started : c < d => Accounted(c) \/ Accounted(d)

(***************************************************************************)
(* What RestartStrategy says of OneForAll: "Every sibling is shut down,    *)
(* then the whole set is started again in original start order".  If so,   *)
(* the restarts a cascade has planned, and those the drive thread is       *)
(* making, name each child once.  Violated: a row that a finished cascade  *)
(* pruned, its exit not handled yet, is collected beside the new one's.    *)
(***************************************************************************)
SetIsStartedOnce ==
    strategy = "OneForAll" =>
        IsInjective(cascade.specs) /\ IsInjective(drive.specs)
=============================================================================
