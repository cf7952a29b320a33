-------------------------- MODULE SupervisorProofs --------------------------
(***************************************************************************)
(* Machine-checked proofs about Supervisor, for every value of its         *)
(* constants.                                                              *)
(***************************************************************************)
EXTENDS Supervisor, DataLemmas

-----------------------------------------------------------------------------
(* The inductive invariant                                                 *)

Spawning(k) == spawning[k].pc # "none"

\* No FlowId is in the child table, or in the event queue, twice.
RowsAreDistinct == IsInjective(rows) /\ IsInjective(events)

\* Only an exit that has been announced is waiting to be handled, and only a
\* flow that was spawned, and whose name was free, has a row.
TableInv ==
    /\ RowsAreDistinct
    /\ \A f \in ToSet(events) : state[f] = "ended"
    /\ \A f \in ToSet(rows) : state[f] # "unborn" /\ f \notin refused
    /\ \A f \in refused : state[f] # "unborn"

\* One thread holds the table, and what it spawns has no row and no handled
\* exit yet, whatever has become of it.
SpawnInv ==
    /\ \A j, k \in Threads : Spawning(j) /\ Spawning(k) => j = k
    /\ \A k \in Threads : Spawning(k) =>
         /\ state[spawning[k].flow] # "unborn"
         /\ spawning[k].flow \notin ToSet(rows)
         /\ ~Handled(spawning[k].flow)
         /\ spawning[k].flow \in refused <=> spawning[k].pc = "leave"

\* The cascade waits for rows it has marked, and there is one to wait for
\* unless the kills are still going on.
CascadeInv ==
    /\ expected \subseteq ToSet(rows)
    /\ cascade.waiting \subseteq expected
    /\ cascade = NoCascade \/ drive.pc = "kill" \/ cascade.waiting # {}
    /\ drive.pc # "spawn" => drive.specs = <<>>
    /\ drive.pc = "spawn" => ~exceeded

\* Who answers for child c: an incarnation that no cascade has condemned, one
\* being spawned, or a list of children to be restarted.
AnsweredFor(c) ==
    \/ \E f \in ToSet(rows) \ expected : spec[f] = c
    \/ \E k \in Threads : Spawning(k) /\ spec[spawning[k].flow] = c
    \/ c \in ToSet(cascade.specs) \cup ToSet(drive.specs)
    \/ c \in retired \cup overwritten
    \/ TurnedAway(c)

ChildrenInv == \A c \in 1 .. started : AnsweredFor(c)

SupInv == TypeOK /\ TableInv /\ SpawnInv /\ RowsAreUnhandled /\ CascadeInv /\ ChildrenInv

-----------------------------------------------------------------------------
(* What the operators do                                                   *)

(* handle_exit takes the oldest exit off the queue. *)
LEMMA HandlingProperties ==
    ASSUME TypeOK, RowsAreDistinct, NEW f, Handling(f)
    PROVE  /\ f \in Flows
           /\ f \in ToSet(events)
           /\ events' \in Seq(Flows)
           /\ ToSet(events') = ToSet(events) \ {f}
           /\ IsInjective(events')
           /\ \A k \in Threads : ~Spawning(k)
  <1>1. events \in Seq(Flows) /\ events # <<>> /\ IsInjective(events)
    BY DEF TypeOK, RowsAreDistinct, Handling
  <1>2. /\ Tail(events) \in Seq(Flows)
        /\ Head(events) \in ToSet(events)
        /\ ToSet(events) = {Head(events)} \cup ToSet(Tail(events))
        /\ IsInjective(Tail(events)) /\ Head(events) \notin ToSet(Tail(events))
    BY <1>1, HeadTailToSet
  <1>3. ToSet(events) \subseteq Flows
    BY <1>1, ToSetMember
  <1>4. f = Head(events) /\ events' = Tail(events) /\ \A k \in Threads : ~Spawning(k)
    BY DEF Handling, TableFree, Spawning
  <1> QED  BY <1>2, <1>3, <1>4

(* ChildTable::remove takes the one row of the flow. *)
LEMMA RemoveRowProperties ==
    ASSUME TypeOK, RowsAreDistinct, NEW f, RemoveRow(f)
    PROVE  /\ rows' \in Seq(Flows)
           /\ ToSet(rows') = ToSet(rows) \ {f}
           /\ IsInjective(rows')
  <1>1. rows \in Seq(Flows) /\ IsInjective(rows)
    BY DEF TypeOK, RowsAreDistinct
  <1>2. PICK i \in DOMAIN rows : rows[i] = f /\ rows' = RemoveAt(rows, i)
    BY DEF RemoveRow
  <1>3. /\ RemoveAt(rows, i) \in Seq(Flows)
        /\ ToSet(RemoveAt(rows, i)) = ToSet(rows) \ {rows[i]}
        /\ IsInjective(RemoveAt(rows, i))
    BY <1>1, RemoveAtToSet
  <1> QED  BY <1>2, <1>3

(* The specs of a list of rows. *)
LEMMA SpecsOfProperties ==
    ASSUME NEW q \in Seq(Flows), \A g \in ToSet(q) : spec[g] \in Specs
    PROVE  /\ SpecsOf(q) \in Seq(Specs)
           /\ Len(SpecsOf(q)) = Len(q)
           /\ \A g \in ToSet(q) : spec[g] \in ToSet(SpecsOf(q))
  <1>1. /\ Len(q) \in Nat
        /\ DOMAIN q = 1 .. Len(q)
        /\ \A x : x \in ToSet(q) <=> \E i \in 1 .. Len(q) : q[i] = x
    BY ToSetMember
  <1>2. SpecsOf(q) = [i \in 1 .. Len(q) |-> spec[q[i]]]
    BY <1>1 DEF SpecsOf
  <1>3. \A i \in 1 .. Len(q) : spec[q[i]] \in Specs
    BY <1>1
  <1>4. SpecsOf(q) \in Seq(Specs) /\ Len(SpecsOf(q)) = Len(q)
    BY <1>1, <1>2, <1>3
  <1>5. \A x : x \in ToSet(SpecsOf(q)) <=> \E i \in 1 .. Len(q) : SpecsOf(q)[i] = x
    BY <1>4, ToSetMember
  <1>6. ASSUME NEW g \in ToSet(q) PROVE spec[g] \in ToSet(SpecsOf(q))
    BY <1>1, <1>2, <1>5
  <1> QED  BY <1>4, <1>6

\* The rows that a cascade started by the exit of rows[i] kills.
Condemned(i) ==
    IF strategy = "OneForAll" THEN RemoveAt(rows, i) ELSE SubSeq(rows, i + 1, Len(rows))

\* The children it is to bring back.
ToRestart(i, later) ==
    IF strategy = "OneForAll" THEN SpecsOfAll(i, spec[rows[i]], later)
                              ELSE <<spec[rows[i]]>> \o SpecsOf(later)

(* A cascade kills other rows than the failed child's, and brings back the *)
(* children of those rows and the failed one.                              *)
LEMMA CascadeProperties ==
    ASSUME TypeOK, TableInv, NEW i \in DOMAIN rows
    PROVE  /\ Condemned(i) \in Seq(Flows)
           /\ ToSet(Condemned(i)) \subseteq ToSet(rows) \ {rows[i]}
           /\ ToRestart(i, Condemned(i)) \in Seq(Specs)
           /\ spec[rows[i]] \in ToSet(ToRestart(i, Condemned(i)))
           /\ \A g \in ToSet(Condemned(i)) : spec[g] \in ToSet(ToRestart(i, Condemned(i)))
  <1> DEFINE later == Condemned(i)
             c == spec[rows[i]]
  <1>1. /\ rows \in Seq(Flows)
        /\ IsInjective(rows)
        /\ ToSet(rows) \subseteq Flows
        /\ Len(rows) \in Nat
        /\ DOMAIN rows = 1 .. Len(rows)
        /\ \A x : x \in ToSet(rows) <=> \E j \in 1 .. Len(rows) : rows[j] = x
    BY ToSetMember DEF TypeOK, TableInv, RowsAreDistinct
  <1>2. \A j \in 1 .. Len(rows) : rows[j] = rows[i] => j = i
    BY <1>1 DEF IsInjective
  <1>3. /\ RemoveAt(rows, i) \in Seq(Flows)
        /\ ToSet(RemoveAt(rows, i)) = ToSet(rows) \ {rows[i]}
    BY <1>1, RemoveAtToSet
  <1>4. Len(RemoveAt(rows, i)) = Len(rows) - 1
    <2>1. i \in 1 .. Len(rows)
      BY <1>1
    <2> QED  BY <2>1, <1>1, RemoveAtProperties
  <1>5. /\ SubSeq(rows, i + 1, Len(rows)) \in Seq(Flows)
        /\ ToSet(SubSeq(rows, i + 1, Len(rows))) \subseteq ToSet(rows) \ {rows[i]}
    <2>1. i + 1 \in Int /\ Len(rows) \in Int /\ 1 <= i + 1 /\ Len(rows) <= Len(rows)
      BY <1>1
    <2>2. /\ SubSeq(rows, i + 1, Len(rows)) \in Seq(Flows)
          /\ \A x : x \in ToSet(SubSeq(rows, i + 1, Len(rows)))
                     <=> \E j \in i + 1 .. Len(rows) : rows[j] = x
      BY <2>1, <1>1, SubSeqToSet
    <2>3. \A j \in i + 1 .. Len(rows) : j \in 1 .. Len(rows) /\ j # i
      BY <1>1
    <2> QED  BY <2>2, <2>3, <1>1, <1>2
  <1>6. later \in Seq(Flows) /\ ToSet(later) \subseteq ToSet(rows) \ {rows[i]}
    BY <1>3, <1>5 DEF Condemned
  <1>7. \A g \in ToSet(rows) : spec[g] \in Specs
    BY <1>1 DEF TypeOK, TableInv
  <1>8. c \in Specs
    BY <1>1, <1>7
  <1>9. strategy = "OneForAll" => Len(later) = Len(rows) - 1
    BY <1>4 DEF Condemned
  <1> HIDE DEF later
  <1>10. /\ SpecsOf(later) \in Seq(Specs)
         /\ Len(SpecsOf(later)) = Len(later)
         /\ \A g \in ToSet(later) : spec[g] \in ToSet(SpecsOf(later))
    <2>1. \A g \in ToSet(later) : spec[g] \in Specs
      BY <1>6, <1>7
    <2> QED  BY <2>1, <1>6, SpecsOfProperties
  <1> HIDE DEF c
  <1>11. CASE strategy = "OneForAll"
    <2>1. i \in 1 .. Len(SpecsOf(later)) + 1
      BY <1>11, <1>1, <1>9, <1>10
    <2>2. /\ InsertAt(SpecsOf(later), i, c) \in Seq(Specs)
          /\ ToSet(InsertAt(SpecsOf(later), i, c)) = ToSet(SpecsOf(later)) \cup {c}
      BY <2>1, <1>8, <1>10, InsertAtToSet
    <2>3. ToRestart(i, later) = InsertAt(SpecsOf(later), i, c)
      BY <1>11 DEF ToRestart, SpecsOfAll, c
    <2> QED  BY <2>2, <2>3, <1>6, <1>10 DEF later, c
  <1>12. CASE strategy # "OneForAll"
    <2> DEFINE one == <<c>>
    <2>1. one \in Seq(Specs) /\ ToSet(one) = {c}
      BY <1>8, ToSetSingle
    <2>2. ToRestart(i, later) = one \o SpecsOf(later)
      BY <1>12 DEF ToRestart, c
    <2> HIDE DEF one
    <2>3. /\ one \o SpecsOf(later) \in Seq(Specs)
          /\ ToSet(one \o SpecsOf(later)) = ToSet(one) \cup ToSet(SpecsOf(later))
      BY <2>1, <1>10, ConcatToSet
    <2> QED  BY <2>1, <2>2, <2>3, <1>6, <1>10 DEF later, c
  <1> QED  BY <1>11, <1>12

(* start_cascade, read with the two definitions above. *)
LEMMA StartCascadeSteps ==
    ASSUME NEW f, StartCascade(f)
    PROVE  \E i \in DOMAIN rows :
             /\ Restarting(f)
             /\ ~OverLimit(recent + 1)
             /\ rows[i] = f
             /\ expected' = expected \cup ToSet(Condemned(i))
             /\ cascade' = [waiting |-> ToSet(Condemned(i)),
                            specs |-> ToRestart(i, Condemned(i))]
             /\ overwritten' = overwritten \cup ToSet(cascade.specs)
             /\ drive' = [pc |-> "kill", later |-> Condemned(i), specs |-> <<>>]
             /\ UNCHANGED <<exceeded, retired>>
  BY Zenon DEF StartCascade, Condemned, ToRestart

\* What the child table can tell apart of the flows' states: who was spawned
\* and whose exit was announced.
SameToTheTable ==
    \A g \in Flows : /\ state'[g] = "unborn" <=> state[g] = "unborn"
                     /\ state'[g] = "ended" <=> state[g] = "ended"

(* A child that begins to end is neither new nor announced. *)
LEMMA BeginEndProperties ==
    ASSUME TypeOK, NEW f \in Flows, state[f] = "live",
           NEW result \in {"Completed", "Failed"}, BeginEnd(f, result)
    PROVE  /\ state' \in [Flows -> FlowStates]
           /\ SameToTheTable
           /\ outcome' \in [Flows -> {"Completed", "Failed"}]
           /\ signals' \subseteq Flows
  BY DEF TypeOK, FlowStates, BeginEnd, SameToTheTable

(* Nor is a child that is asked to die, parked or not. *)
LEMMA RequestKillProperties ==
    ASSUME TypeOK, NEW k \in Threads, NEW f \in Flows, RequestKill(k, f)
    PROVE  /\ state' \in [Flows -> FlowStates]
           /\ SameToTheTable
           /\ outcome' \in [Flows -> {"Completed", "Failed"}]
           /\ signals' \subseteq Flows
           /\ reaping' \in [Threads -> Flows \cup {NoFlow}]
  <1>0. /\ state \in [Flows -> FlowStates]
        /\ outcome \in [Flows -> {"Completed", "Failed"}]
        /\ signals \subseteq Flows
        /\ reaping \in [Threads -> Flows \cup {NoFlow}]
    BY DEF TypeOK
  <1>1. CASE state[f] = "live" /\ BeginEnd(f, "Failed") /\ reaping' = [reaping EXCEPT ![k] = f]
    <2>1. reaping' \in [Threads -> Flows \cup {NoFlow}]
      BY <1>0, <1>1
    <2> QED  BY <2>1, <1>1, BeginEndProperties
  <1>2. CASE signals' = signals \cup {f} /\ UNCHANGED <<state, outcome, reaping>>
    BY <1>0, <1>2 DEF SameToTheTable
  <1>3. CASE UNCHANGED <<state, outcome, signals, reaping>>
    BY <1>0, <1>3 DEF SameToTheTable
  <1> QED  BY <1>1, <1>2, <1>3 DEF RequestKill

\* The types of the flows and of the threads that spawn.
FlowTypes ==
    /\ state \in [Flows -> FlowStates]
    /\ spec \in [Flows -> Specs \cup {0}]
    /\ spawning \in [Threads -> [pc : {"none", "register", "insert", "refuse", "leave"},
                                 flow : Flows \cup {NoFlow}]]
    /\ \A k \in Threads : spawning[k].pc # "none" =>
                            spawning[k].flow \in Flows /\ spec[spawning[k].flow] # 0
    /\ \A f \in Flows : state[f] # "unborn" => spec[f] \in Specs

-----------------------------------------------------------------------------
(* The invariant holds at the start                                        *)

(* Nothing is spawned, in the table or expected before the first           *)
(* start_child.                                                            *)
LEMMA SupInvInit ==
    ASSUME Init PROVE SupInv
  <1>1. /\ ToSet(events) = {} /\ IsInjective(events)
        /\ ToSet(rows) = {} /\ IsInjective(rows)
    BY ToSetEmpty DEF Init
  <1>2. TypeOK
    <2>1. /\ strategy \in Strategies
          /\ started \in 0 .. NumSpecs
          /\ exits \in 0 .. MaxExits
          /\ recent \in 0 .. MaxRestarts
      BY SupervisorAssumption DEF Init
    <2>5. exceeded \in BOOLEAN /\ ~exceeded /\ stopped \in BOOLEAN
      BY DEF Init
    <2>6. recent \in 0 .. (IF exceeded THEN MaxRestarts + 1 ELSE MaxRestarts)
      BY <2>1, <2>5, Zenon
    <2>2. /\ FlowTypes
          /\ outcome \in [Flows -> {"Completed", "Failed"}]
      <3>1. /\ state = [f \in Flows |-> "unborn"]
            /\ spec = [f \in Flows |-> 0]
            /\ outcome = [f \in Flows |-> "Completed"]
            /\ spawning = [k \in Threads |-> [pc |-> "none", flow |-> NoFlow]]
        BY DEF Init, NotSpawning
      <3> QED  BY <3>1 DEF FlowTypes, FlowStates
    <2>3. /\ signals \subseteq Flows
          /\ names \in [Specs -> Flows \cup {NoFlow}]
          /\ reaping \in [Threads -> Flows \cup {NoFlow}]
          /\ expected \subseteq Flows /\ refused \subseteq Flows
          /\ retired \subseteq Specs /\ overwritten \subseteq Specs
      BY DEF Init
    <2>4. /\ events \in Seq(Flows) /\ rows \in Seq(Flows)
          /\ cascade \in [waiting : SUBSET Flows, specs : Seq(Specs)]
          /\ drive \in [pc : {"idle", "kill", "spawn"}, later : Seq(Flows), specs : Seq(Specs)]
      BY ToSetEmpty DEF Init, NoCascade, Resting
    <2> QED  BY <2>1, <2>2, <2>3, <2>4, <2>5, <2>6, Zenon DEF TypeOK, FlowTypes
  <1>3. TableInv /\ SpawnInv /\ RowsAreUnhandled
    BY <1>1 DEF Init, TableInv, RowsAreDistinct, SpawnInv, Spawning, NotSpawning,
                RowsAreUnhandled
  <1>4. CascadeInv
    BY <1>1 DEF Init, CascadeInv, NoCascade, Resting
  <1>5. ChildrenInv
    BY DEF Init, ChildrenInv
  <1> QED  BY <1>2, <1>3, <1>4, <1>5 DEF SupInv

-----------------------------------------------------------------------------
(* Types                                                                   *)

(* One step of spawn_child. *)
LEMMA SpawnProperties ==
    ASSUME TypeOK, NEW k \in Threads, NEW c \in Specs, Spawn(k, c)
    PROVE  \E f \in Flows :
             /\ state[f] = "unborn"
             /\ state' = [state EXCEPT ![f] = "live"]
             /\ spec' = [spec EXCEPT ![f] = c]
             /\ \A j \in Threads : ~Spawning(j)
             /\ spawning'[k].pc \in {"register", "insert"}
             /\ spawning'[k].flow = f
             /\ \A j \in Threads \ {k} : spawning'[j] = spawning[j]
             /\ spawning' \in [Threads -> [pc : {"none", "register", "insert", "refuse", "leave"},
                                           flow : Flows \cup {NoFlow}]]
             /\ UNCHANGED <<strategy, outcome, signals, exits, names, events, tableVars,
                            cascade, windowVars, stopped, reaping, historyVars>>
  <1>1. PICK f \in Flows :
          /\ state[f] = "unborn"
          /\ state' = [state EXCEPT ![f] = "live"]
          /\ spec' = [spec EXCEPT ![f] = c]
          /\ spawning' = [spawning EXCEPT ![k] =
                            [pc |-> IF c \in Named THEN "register" ELSE "insert",
                             flow |-> f]]
    BY DEF Spawn
  <1>2. spawning \in [Threads -> [pc : {"none", "register", "insert", "refuse", "leave"},
                                  flow : Flows \cup {NoFlow}]]
    BY DEF TypeOK
  <1>3. /\ spawning'[k].pc \in {"register", "insert"}
        /\ spawning'[k].flow = f
        /\ \A j \in Threads \ {k} : spawning'[j] = spawning[j]
        /\ spawning' \in [Threads -> [pc : {"none", "register", "insert", "refuse", "leave"},
                                      flow : Flows \cup {NoFlow}]]
    BY <1>1, <1>2
  <1>4. \A j \in Threads : ~Spawning(j)
    BY DEF Spawn, TableFree, Spawning
  <1>5. UNCHANGED <<strategy, outcome, signals, exits, names, events, tableVars,
                    cascade, windowVars, stopped, reaping, historyVars>>
    BY DEF Spawn
  <1> QED  BY <1>1, <1>3, <1>4, <1>5

-----------------------------------------------------------------------------
(* The steps, by what they do to the flows and the table                   *)

\* The step of a child or of the drive thread that neither the table, nor the
\* event queue, nor spawn_child sees.
Quiet ==
    /\ state' \in [Flows -> FlowStates]
    /\ SameToTheTable
    /\ UNCHANGED <<spec, spawning, rows, events, refused>>

(* Which steps are quiet; the others are the notice, handle_exit and the   *)
(* steps of spawn_child.                                                   *)
LEMMA StepKinds ==
    ASSUME TypeOK, [Next]_vars
    PROVE  \/ Quiet
           \/ \E f \in Flows : Notify(f) \/ HandleExit(f)
           \/ \E k \in Threads : \/ RegisterName(k) \/ InsertRow(k)
                                 \/ RefuseChild(k) \/ LeaveRefused(k)
           \/ StartChild \/ RestartNext
  <1>0. /\ state \in [Flows -> FlowStates]
        /\ drive \in [pc : {"idle", "kill", "spawn"}, later : Seq(Flows), specs : Seq(Specs)]
    BY DEF TypeOK
  <1>1. ASSUME NEW f \in Flows, Exit(f) PROVE Quiet
    <2>1. PICK result \in {"Completed", "Failed"} : BeginEnd(f, result)
      BY <1>1 DEF Exit
    <2>2. state[f] = "live"
      BY <1>1 DEF Exit
    <2>3. state' \in [Flows -> FlowStates] /\ SameToTheTable
      BY <2>1, <2>2, BeginEndProperties
    <2> QED  BY <2>3, <1>1 DEF Exit, Quiet, tableVars, spawnVars, historyVars
  <1>2. ASSUME NEW f \in Flows, Die(f) PROVE Quiet
    <2>1. state[f] = "live" /\ BeginEnd(f, "Failed")
      BY <1>2 DEF Die
    <2>2. state' \in [Flows -> FlowStates] /\ SameToTheTable
      BY <2>1, BeginEndProperties
    <2> QED  BY <2>2, <1>2 DEF Die, Quiet, tableVars, spawnVars, historyVars
  <1>3. ASSUME NEW f \in Flows, Unregister(f) \/ UnregisterFlow(f) PROVE Quiet
    <2>1. state' \in [Flows -> FlowStates] /\ SameToTheTable
      BY <1>0, <1>3 DEF Unregister, UnregisterFlow, SameToTheTable, FlowStates
    <2> QED  BY <2>1, <1>3
             DEF Unregister, UnregisterFlow, Quiet, tableVars, spawnVars, historyVars
  <1>4. CASE KillNext
    <2>1. drive.later \in Seq(Flows) /\ drive.later # <<>>
      BY <1>0, <1>4 DEF KillNext
    <2>2. Head(drive.later) \in Flows
      BY <2>1, HeadTailProperties
    <2>3. RequestKill("drive", Head(drive.later)) /\ "drive" \in Threads
      BY <1>4 DEF KillNext, Threads
    <2>4. state' \in [Flows -> FlowStates] /\ SameToTheTable
      BY <2>2, <2>3, RequestKillProperties
    <2> QED  BY <2>4, <1>4 DEF KillNext, Quiet, tableVars, spawnVars, historyVars
  <1>5. ASSUME UNCHANGED <<state, spec, spawning, rows, events, refused>> PROVE Quiet
    BY <1>0, <1>5 DEF Quiet, SameToTheTable
  <1>6. CASE Prune
    BY <1>5, <1>6 DEF Prune, flowVars, tableVars, spawnVars
  <1>7. CASE EndRestarts \/ LeaveWindow \/ Shutdown
    BY <1>5, <1>7 DEF EndRestarts, LeaveWindow, Shutdown, flowVars, tableVars, spawnVars,
                      historyVars
  <1>8. CASE UNCHANGED vars
    BY <1>5, <1>8 DEF vars, flowVars, tableVars, spawnVars, historyVars
  <1> QED  BY <1>1, <1>2, <1>3, <1>4, <1>6, <1>7, <1>8, Zenon DEF Next

(* handle_exit on the flows and the table: one exit is taken, and its row  *)
(* with it when it has one.                                                *)
LEMMA HandleExitProperties ==
    ASSUME TypeOK, RowsAreDistinct, NEW f, HandleExit(f)
    PROVE  /\ Handling(f)
           /\ UNCHANGED <<state, spec, spawning, refused>>
           /\ rows' \in Seq(Flows)
           /\ ToSet(rows') = ToSet(rows) \ {f}
           /\ IsInjective(rows')
  <1>1. CASE IgnoreExit(f)
    <2>1. rows \in Seq(Flows) /\ IsInjective(rows)
      BY DEF TypeOK, RowsAreDistinct
    <2>2. rows' = rows /\ f \notin ToSet(rows)
      BY <1>1 DEF IgnoreExit, tableVars
    <2>3. Handling(f) /\ UNCHANGED <<state, spec, spawning, refused>>
      BY <1>1 DEF IgnoreExit, flowVars, spawnVars, historyVars
    <2> QED  BY <2>1, <2>2, <2>3
  <1>2. CASE ExpectedExit(f)
    <2>1. RemoveRow(f) /\ Handling(f)
      BY <1>2 DEF ExpectedExit, DropRow
    <2>2. UNCHANGED <<state, spec, spawning, refused>>
      BY <1>2 DEF ExpectedExit, flowVars, spawnVars
    <2> QED  BY <2>1, <2>2, RemoveRowProperties
  <1>3. CASE Unexpected(f)
    <2>1. RemoveRow(f) /\ Handling(f)
      BY <1>3 DEF Unexpected
    <2>2. UNCHANGED <<state, spec, spawning, refused>>
      BY <1>3 DEF Unexpected, flowVars, spawnVars
    <2> QED  BY <2>1, <2>2, RemoveRowProperties
  <1>4. \/ IgnoreExit(f) \/ ExpectedExit(f) \/ Unexpected(f)
    BY Zenon DEF HandleExit, FinalExit, TooManyRestarts, RestartOne, StartCascade, Restarting
  <1> QED  BY <1>1, <1>2, <1>3, <1>4

(* start_child and the restarts are spawn_child by one of the two threads. *)
LEMMA SpawnSteps ==
    ASSUME TypeOK, StartChild \/ RestartNext
    PROVE  \E k \in Threads : \E c \in Specs : Spawn(k, c)
  <1>1. CASE StartChild
    <2>1. Spawn("host", started + 1) /\ "host" \in Threads
      BY <1>1 DEF StartChild, Threads
    <2>2. started + 1 \in Specs
      <3>1. strategy \in Strategies /\ started \in 0 .. NumSpecs
        BY DEF TypeOK
      <3>2. MaxStarted[strategy] \in 0 .. NumSpecs /\ NumSpecs \in Nat
        BY <3>1, SupervisorAssumption
      <3>3. started < MaxStarted[strategy]
        BY <1>1 DEF StartChild
      <3> QED  BY <3>1, <3>2, <3>3 DEF Specs
    <2> QED  BY <2>1, <2>2
  <1>2. CASE RestartNext
    <2>1. Spawn("drive", Head(drive.specs)) /\ "drive" \in Threads /\ drive.specs # <<>>
      BY <1>2 DEF RestartNext, Threads
    <2>2. drive.specs \in Seq(Specs)
      BY DEF TypeOK
    <2>3. Head(drive.specs) \in Specs
      BY <2>1, <2>2, HeadTailProperties
    <2> QED  BY <2>1, <2>3
  <1> QED  BY <1>1, <1>2

(* One step of a thread inside spawn_child, after the spawn. *)
LEMMA SpawningProperties ==
    ASSUME TypeOK, NEW k \in Threads,
           RegisterName(k) \/ InsertRow(k) \/ RefuseChild(k) \/ LeaveRefused(k)
    PROVE  /\ Spawning(k)
           /\ spawning[k].flow \in Flows
           /\ spawning' \in [Threads -> [pc : {"none", "register", "insert", "refuse", "leave"},
                                         flow : Flows \cup {NoFlow}]]
           /\ \A j \in Threads \ {k} : spawning'[j] = spawning[j]
           /\ state' \in [Flows -> FlowStates]
           /\ SameToTheTable
           /\ UNCHANGED <<spec, events>>
           /\ \/ /\ RegisterName(k)
                 /\ spawning[k].pc = "register"
                 /\ spawning'[k].pc \in {"insert", "refuse"}
                 /\ spawning'[k].flow = spawning[k].flow
                 /\ UNCHANGED <<rows, refused>>
              \/ /\ InsertRow(k)
                 /\ spawning[k].pc = "insert"
                 /\ spawning'[k].pc = "none"
                 /\ rows' = Append(rows, spawning[k].flow)
                 /\ UNCHANGED refused
              \/ /\ RefuseChild(k)
                 /\ spawning[k].pc = "refuse"
                 /\ spawning'[k].pc = "leave"
                 /\ spawning'[k].flow = spawning[k].flow
                 /\ refused' = refused \cup {spawning[k].flow}
                 /\ UNCHANGED rows
              \/ /\ LeaveRefused(k)
                 /\ spawning[k].pc = "leave"
                 /\ spawning'[k].pc = "none"
                 /\ UNCHANGED <<rows, refused>>
  <1>0. /\ state \in [Flows -> FlowStates]
        /\ spawning \in [Threads -> [pc : {"none", "register", "insert", "refuse", "leave"},
                                     flow : Flows \cup {NoFlow}]]
        /\ spawning[k].pc # "none" => spawning[k].flow \in Flows
    BY DEF TypeOK
  <1>1. CASE RegisterName(k)
    <2>1. /\ spawning[k].pc = "register"
          /\ \E p \in {"insert", "refuse"} : spawning' = [spawning EXCEPT ![k].pc = p]
          /\ UNCHANGED <<state, spec, events, rows, refused>>
      BY <1>1 DEF RegisterName, flowVars, tableVars, historyVars
    <2> QED  BY <2>1, <1>0, <1>1 DEF Spawning, SameToTheTable
  <1>2. CASE InsertRow(k)
    <2>1. /\ spawning[k].pc = "insert"
          /\ spawning' = [spawning EXCEPT ![k] = [pc |-> "none", flow |-> NoFlow]]
          /\ rows' = Append(rows, spawning[k].flow)
          /\ UNCHANGED <<state, spec, events, refused>>
      BY <1>2 DEF InsertRow, NotSpawning, flowVars, historyVars
    <2> QED  BY <2>1, <1>0, <1>2 DEF Spawning, SameToTheTable
  <1>3. CASE RefuseChild(k)
    <2>1. /\ spawning[k].pc = "refuse"
          /\ spawning' = [spawning EXCEPT ![k].pc = "leave"]
          /\ refused' = refused \cup {spawning[k].flow}
          /\ RequestKill(k, spawning[k].flow)
          /\ UNCHANGED <<spec, events, rows>>
      BY <1>3 DEF RefuseChild, tableVars
    <2>2. state' \in [Flows -> FlowStates] /\ SameToTheTable
      BY <2>1, <1>0, RequestKillProperties
    <2> QED  BY <2>1, <2>2, <1>0, <1>3 DEF Spawning
  <1>4. CASE LeaveRefused(k)
    <2>1. /\ spawning[k].pc = "leave"
          /\ spawning' = [spawning EXCEPT ![k] = [pc |-> "none", flow |-> NoFlow]]
          /\ UNCHANGED <<state, spec, events, rows, refused>>
      BY <1>4 DEF LeaveRefused, NotSpawning, flowVars, tableVars, historyVars
    <2> QED  BY <2>1, <1>0, <1>4 DEF Spawning, SameToTheTable
  <1> QED  BY <1>1, <1>2, <1>3, <1>4

-----------------------------------------------------------------------------
(* The table                                                               *)

\* What the child table, the event queue and spawn_child keep together.
BookInv == TableInv /\ SpawnInv /\ RowsAreUnhandled

(* The child table and the children agree after every step: while a child  *)
(* is spawned the table is locked, so that its exit is handled only when   *)
(* its row exists.                                                         *)
LEMMA BookStep ==
    ASSUME TypeOK, BookInv, [Next]_vars
    PROVE  FlowTypes' /\ BookInv'
  <1> USE DEF BookInv
  <1>0. /\ FlowTypes
        /\ events \in Seq(Flows) /\ rows \in Seq(Flows)
        /\ RowsAreDistinct
        /\ refused \subseteq Flows
    BY DEF TypeOK, FlowTypes, TableInv
  <1>1. ToSet(events) \subseteq Flows /\ ToSet(rows) \subseteq Flows
    BY <1>0, ToSetMember
  <1>2. CASE Quiet
    <2>1. FlowTypes'
      BY <1>0, <1>2 DEF Quiet, SameToTheTable, FlowTypes
    <2>2. TableInv'
      BY <1>0, <1>1, <1>2 DEF Quiet, SameToTheTable, TableInv, RowsAreDistinct
    <2>3. SpawnInv'
      BY <1>0, <1>1, <1>2 DEF Quiet, SameToTheTable, SpawnInv, Spawning, Handled, FlowTypes
    <2>4. RowsAreUnhandled'
      BY <1>0, <1>1, <1>2 DEF Quiet, SameToTheTable, RowsAreUnhandled, BeingSpawned, Handled
    <2> QED  BY <2>1, <2>2, <2>3, <2>4
  <1>3. ASSUME NEW f \in Flows, Notify(f) PROVE FlowTypes' /\ BookInv'
    <2>1. /\ state[f] = "nameless"
          /\ state' = [state EXCEPT ![f] = "ended"]
          /\ events' = Append(events, f)
          /\ UNCHANGED <<spec, spawning, rows, refused>>
      BY <1>3 DEF Notify, tableVars, spawnVars, historyVars
    <2>2. f \notin ToSet(events)
      BY <2>1 DEF TableInv
    <2>3. /\ ToSet(events') = ToSet(events) \cup {f}
          /\ IsInjective(events')
      BY <2>1, <2>2, <1>0, AppendToSet DEF RowsAreDistinct
    <2>4. /\ state' \in [Flows -> FlowStates]
          /\ \A g \in Flows : g # f => state'[g] = state[g]
          /\ state'[f] = "ended"
      BY <2>1, <1>0 DEF FlowTypes, FlowStates
    <2>5. \A g \in Flows : state'[g] = "unborn" <=> state[g] = "unborn"
      BY <2>1, <2>4
    <2>6. \A g \in Flows : Handled(g)' <=> Handled(g)
      BY <2>1, <2>3, <2>4 DEF Handled
    <2>7. FlowTypes'
      BY <1>0, <2>1, <2>4, <2>5 DEF FlowTypes
    <2>8. TableInv'
      BY <1>0, <1>1, <2>1, <2>3, <2>4, <2>5 DEF TableInv, RowsAreDistinct
    <2>9. SpawnInv'
      BY <1>0, <1>1, <2>1, <2>5, <2>6 DEF SpawnInv, Spawning, FlowTypes
    <2>10. RowsAreUnhandled'
      BY <1>0, <1>1, <2>1, <2>5, <2>6 DEF RowsAreUnhandled, BeingSpawned
    <2> QED  BY <2>7, <2>8, <2>9, <2>10
  <1>4. ASSUME NEW f \in Flows, HandleExit(f) PROVE FlowTypes' /\ BookInv'
    <2>1. /\ Handling(f)
          /\ UNCHANGED <<state, spec, spawning, refused>>
          /\ ToSet(rows') = ToSet(rows) \ {f}
          /\ IsInjective(rows')
      BY <1>0, <1>4, HandleExitProperties
    <2>2. /\ f \in ToSet(events)
          /\ ToSet(events') = ToSet(events) \ {f}
          /\ IsInjective(events')
          /\ \A k \in Threads : ~Spawning(k)
      BY <1>0, <2>1, HandlingProperties
    <2>3. FlowTypes'
      BY <1>0, <2>1 DEF FlowTypes
    <2>4. TableInv'
      BY <1>0, <1>1, <2>1, <2>2 DEF TableInv, RowsAreDistinct
    <2>5. SpawnInv'
      BY <2>1, <2>2 DEF SpawnInv, Spawning
    <2>6. state[f] = "ended"
      BY <2>2 DEF TableInv
    <2>7. RowsAreUnhandled'
      BY <1>1, <2>1, <2>2, <2>6 DEF RowsAreUnhandled, BeingSpawned, Handled, Spawning
    <2> QED  BY <2>3, <2>4, <2>5, <2>7
  <1>5. ASSUME NEW k \in Threads, NEW c \in Specs, Spawn(k, c) PROVE FlowTypes' /\ BookInv'
    <2>1. PICK f \in Flows :
             /\ state[f] = "unborn"
             /\ state' = [state EXCEPT ![f] = "live"]
             /\ spec' = [spec EXCEPT ![f] = c]
             /\ \A j \in Threads : ~Spawning(j)
             /\ spawning'[k].pc \in {"register", "insert"}
             /\ spawning'[k].flow = f
             /\ \A j \in Threads \ {k} : spawning'[j] = spawning[j]
             /\ spawning' \in [Threads -> [pc : {"none", "register", "insert", "refuse", "leave"},
                                           flow : Flows \cup {NoFlow}]]
             /\ UNCHANGED <<events, tableVars, historyVars>>
      BY <1>5, SpawnProperties
    <2>2. UNCHANGED <<events, rows, refused>>
      BY <2>1 DEF tableVars, historyVars
    <2>3. /\ state' \in [Flows -> FlowStates]
          /\ spec' \in [Flows -> Specs \cup {0}]
          /\ state'[f] = "live" /\ spec'[f] = c /\ c # 0
          /\ \A g \in Flows : g # f => state'[g] = state[g] /\ spec'[g] = spec[g]
      BY <2>1, <1>0, SupervisorAssumption DEF FlowTypes, FlowStates, Specs
    <2>4. \A j \in Threads : spawning'[j].pc # "none" <=> j = k
      BY <2>1 DEF Spawning
    <2>5. f \notin ToSet(rows) /\ f \notin refused /\ f \notin ToSet(events)
      BY <2>1 DEF TableInv
    <2>6. FlowTypes'
      BY <1>0, <2>1, <2>3, <2>4 DEF FlowTypes
    <2>7. TableInv'
      BY <1>0, <1>1, <2>2, <2>3, <2>5 DEF TableInv, RowsAreDistinct
    <2>8. SpawnInv'
      BY <2>1, <2>2, <2>3, <2>4, <2>5 DEF SpawnInv, Spawning, Handled
    <2>9. ASSUME NEW g \in Flows, state'[g] # "unborn", ~BeingSpawned(g)', g \notin refused'
          PROVE  g \in ToSet(rows') <=> ~Handled(g)'
      <3>1. g # f
        BY <2>1, <2>4, <2>9 DEF BeingSpawned
      <3>2. state[g] # "unborn" /\ ~BeingSpawned(g) /\ g \notin refused
        BY <3>1, <2>1, <2>2, <2>3, <2>9 DEF BeingSpawned, Spawning
      <3>3. Handled(g)' <=> Handled(g)
        BY <3>1, <2>2, <2>3 DEF Handled
      <3> QED  BY <3>2, <3>3, <2>2 DEF RowsAreUnhandled
    <2>10. RowsAreUnhandled'
      BY <2>9 DEF RowsAreUnhandled
    <2> QED  BY <2>6, <2>7, <2>8, <2>10
  <1>6. ASSUME NEW k \in Threads,
               RegisterName(k) \/ InsertRow(k) \/ RefuseChild(k) \/ LeaveRefused(k)
        PROVE  FlowTypes' /\ BookInv'
    <2> DEFINE f == spawning[k].flow
    <2>1. /\ Spawning(k)
          /\ f \in Flows
          /\ spawning' \in [Threads -> [pc : {"none", "register", "insert", "refuse", "leave"},
                                        flow : Flows \cup {NoFlow}]]
          /\ \A j \in Threads \ {k} : spawning'[j] = spawning[j]
          /\ state' \in [Flows -> FlowStates]
          /\ SameToTheTable
          /\ UNCHANGED <<spec, events>>
          /\ \/ /\ spawning[k].pc = "register"
                /\ spawning'[k].pc \in {"insert", "refuse"}
                /\ spawning'[k].flow = f
                /\ UNCHANGED <<rows, refused>>
             \/ /\ spawning[k].pc = "insert"
                /\ spawning'[k].pc = "none"
                /\ rows' = Append(rows, f)
                /\ UNCHANGED refused
             \/ /\ spawning[k].pc = "refuse"
                /\ spawning'[k].pc = "leave"
                /\ spawning'[k].flow = f
                /\ refused' = refused \cup {f}
                /\ UNCHANGED rows
             \/ /\ spawning[k].pc = "leave"
                /\ spawning'[k].pc = "none"
                /\ UNCHANGED <<rows, refused>>
      BY <1>6, SpawningProperties
    <2>2. /\ state[f] # "unborn" /\ f \notin ToSet(rows) /\ ~Handled(f)
          /\ f \in refused <=> spawning[k].pc = "leave"
      BY <2>1 DEF SpawnInv
    <2>3. \A j \in Threads : spawning[j].pc # "none" <=> j = k
      BY <2>1 DEF SpawnInv, Spawning
    <2> HIDE DEF f
    <2>4. \A g \in Flows : /\ Handled(g)' <=> Handled(g)
                           /\ state'[g] = "unborn" <=> state[g] = "unborn"
      BY <2>1 DEF SameToTheTable, Handled
    <2>5. FlowTypes'
      BY <1>0, <2>1, <2>2, <2>3, <2>4 DEF FlowTypes, f
    <2>6. \/ rows' = rows
          \/ /\ spawning[k].pc = "insert"
             /\ ToSet(rows') = ToSet(rows) \cup {f}
             /\ IsInjective(rows')
      <3>1. ToSet(Append(rows, f)) = ToSet(rows) \cup {f} /\ IsInjective(Append(rows, f))
        BY <1>0, <2>1, <2>2, AppendToSet DEF RowsAreDistinct
      <3> QED  BY <3>1, <2>1
    <2>7. TableInv'
      <3>1. RowsAreDistinct'
        BY <1>0, <2>1, <2>6 DEF RowsAreDistinct
      <3>2. \A g \in ToSet(events') : state'[g] = "ended"
        BY <1>1, <2>1 DEF TableInv, SameToTheTable
      <3>3. \A g \in refused' : state'[g] # "unborn"
        BY <1>0, <2>1, <2>2, <2>4 DEF TableInv
      <3>4. \A g \in ToSet(rows') : state'[g] # "unborn" /\ g \notin refused'
        BY <1>1, <2>1, <2>2, <2>4, <2>6 DEF TableInv
      <3> QED  BY <3>1, <3>2, <3>3, <3>4 DEF TableInv
    <2>8. SpawnInv'
      <3>1. ASSUME NEW j \in Threads, Spawning(j)' PROVE j = k
        BY <3>1, <2>1, <2>3 DEF Spawning
      <3>2. Spawning(k)' => spawning'[k].flow = f /\ rows' = rows
        BY <2>1, <2>6 DEF Spawning
      <3>3. Spawning(k)' => (f \in refused' <=> spawning'[k].pc = "leave")
        BY <2>1, <2>2 DEF Spawning
      <3> QED  BY <3>1, <3>2, <3>3, <2>1, <2>2, <2>4 DEF SpawnInv
    <2>9. ASSUME NEW g \in Flows, state'[g] # "unborn", ~BeingSpawned(g)', g \notin refused'
          PROVE  g \in ToSet(rows') <=> ~Handled(g)'
      <3>1. CASE g = f
        <4>1. spawning[k].pc = "insert"
          BY <3>1, <2>1, <2>2, <2>9 DEF BeingSpawned
        <4>2. f \in ToSet(rows')
          <5>1. rows' = Append(rows, f)
            BY <4>1, <2>1
          <5> QED  BY <5>1, <1>0, <2>1, AppendToSet
        <4> QED  BY <3>1, <4>2, <2>2, <2>4
      <3>2. CASE g # f
        <4>1. state[g] # "unborn" /\ g \notin refused
          BY <2>1, <2>4, <2>9
        <4>2. ~BeingSpawned(g)
          BY <3>2, <2>3 DEF BeingSpawned, f
        <4>3. g \in ToSet(rows') <=> g \in ToSet(rows)
          BY <3>2, <2>6
        <4> QED  BY <4>1, <4>2, <4>3, <2>4 DEF RowsAreUnhandled
      <3> QED  BY <3>1, <3>2
    <2>10. RowsAreUnhandled'
      BY <2>9 DEF RowsAreUnhandled
    <2> QED  BY <2>5, <2>7, <2>8, <2>10
  <1>7. CASE StartChild \/ RestartNext
    <2>1. PICK k \in Threads, c \in Specs : Spawn(k, c)
      BY <1>7, SpawnSteps
    <2> QED  BY <2>1, <1>5
  <1> QED  BY <1>2, <1>3, <1>4, <1>6, <1>7, StepKinds, Zenon

-----------------------------------------------------------------------------
(* The drive thread                                                        *)

\* Types of what the drive thread works on.
DriveTypes ==
    /\ rows \in Seq(Flows) /\ events \in Seq(Flows)
    /\ expected \subseteq Flows
    /\ cascade \in [waiting : SUBSET Flows, specs : Seq(Specs)]
    /\ drive \in [pc : {"idle", "kill", "spawn"}, later : Seq(Flows), specs : Seq(Specs)]
    /\ refused \subseteq Flows
    /\ retired \subseteq Specs
    /\ overwritten \subseteq Specs

\* The children in a list to be restarted, and those let go.
Listed == ToSet(cascade.specs) \cup ToSet(drive.specs) \cup retired \cup overwritten

\* No child is lost from the lists, and a row that is taken or condemned
\* leaves its child in one.
Kept ==
    /\ Listed \subseteq Listed'
    /\ \A f \in ToSet(rows) \ expected :
         f \in ToSet(rows') \ expected' \/ spec[f] \in Listed'

(* finish_cascade and its early return. *)
LEMMA CascadeToProperties ==
    ASSUME DriveTypes, CascadeInv, NEW waiting \in SUBSET cascade.waiting,
           drive.pc # "spawn", UNCHANGED <<overwritten, exceeded>>, CascadeTo(waiting)
    PROVE  /\ cascade' \in [waiting : SUBSET Flows, specs : Seq(Specs)]
           /\ drive' \in [pc : {"idle", "kill", "spawn"}, later : Seq(Flows), specs : Seq(Specs)]
           /\ retired' \subseteq Specs
           /\ cascade'.waiting \subseteq waiting
           /\ cascade' = NoCascade \/ cascade'.waiting # {}
           /\ drive'.pc # "spawn" => drive'.specs = <<>>
           /\ drive'.pc = "spawn" => ~exceeded'
           /\ Listed \subseteq Listed'
  <1>0. /\ drive.specs = <<>>
        /\ cascade \in [waiting : SUBSET Flows, specs : Seq(Specs)]
        /\ retired \subseteq Specs
        /\ ToSet(cascade.specs) \subseteq Specs
        /\ ToSet(<<>>) = {}
        /\ <<>> \in Seq(Specs) /\ <<>> \in Seq(Flows)
    BY ToSetMember, ToSetEmpty DEF DriveTypes, CascadeInv
  <1>1. CASE waiting # {}
    <2>1. /\ cascade' = [cascade EXCEPT !.waiting = waiting]
          /\ drive' = [pc |-> "idle", later |-> <<>>, specs |-> <<>>]
          /\ retired' = retired
      BY <1>1 DEF CascadeTo, StillWaiting, Resting
    <2>2. /\ cascade'.specs = cascade.specs /\ cascade'.waiting = waiting
          /\ cascade' \in [waiting : SUBSET Flows, specs : Seq(Specs)]
      BY <1>0, <2>1
    <2>3. drive'.pc = "idle" /\ drive'.specs = <<>>
      BY <2>1
    <2>4. drive' \in [pc : {"idle", "kill", "spawn"}, later : Seq(Flows), specs : Seq(Specs)]
      BY <1>0, <2>1
    <2>5. Listed \subseteq Listed'
      BY <1>0, <2>1, <2>2 DEF Listed
    <2> QED  BY <1>0, <1>1, <2>1, <2>2, <2>3, <2>4, <2>5
  <1>2. CASE waiting = {}
    <2>1. cascade' = [waiting |-> {}, specs |-> <<>>] /\ BeginRestarts(cascade.specs)
      BY <1>2 DEF CascadeTo, StillWaiting, NoCascade
    <2>2. CASE exceeded
      <3>1. /\ drive' = [pc |-> "idle", later |-> <<>>, specs |-> <<>>]
            /\ retired' = retired \cup ToSet(cascade.specs)
        BY <2>1, <2>2 DEF BeginRestarts, Resting
      <3>2. Listed \subseteq Listed'
        BY <1>0, <3>1 DEF Listed
      <3> QED  BY <1>0, <2>1, <3>1, <3>2 DEF NoCascade
    <2>3. CASE ~exceeded
      <3>1. /\ drive' = [pc |-> "spawn", later |-> <<>>, specs |-> cascade.specs]
            /\ retired' = retired
        BY <2>1, <2>3 DEF BeginRestarts
      <3>2. Listed \subseteq Listed'
        BY <1>0, <3>1 DEF Listed
      <3>3. exceeded' = exceeded
        OBVIOUS
      <3> QED  BY <1>0, <2>1, <2>3, <3>1, <3>2, <3>3 DEF NoCascade
    <2> QED  BY <2>2, <2>3
  <1> QED  BY <1>1, <1>2

(* The steps that leave the drive thread's state alone. *)
LEMMA DriveIdle ==
    ASSUME DriveTypes, CascadeInv,
           UNCHANGED <<rows, expected, cascade, drive, exceeded, retired, overwritten>>
    PROVE  CascadeInv' /\ Kept
  BY DEF CascadeInv, Kept, Listed

(* An exit that a cascade has brought about. *)
LEMMA ExpectedExitStep ==
    ASSUME TypeOK, TableInv, CascadeInv, NEW f \in Flows, ExpectedExit(f)
    PROVE  DriveTypes' /\ CascadeInv' /\ Kept
  <1>0. DriveTypes /\ RowsAreDistinct
    BY DEF TypeOK, DriveTypes, TableInv
  <1>1. /\ Handling(f) /\ RemoveRow(f)
        /\ f \in expected
        /\ expected' = expected \ {f}
        /\ drive.pc = "idle"
        /\ UNCHANGED <<exceeded, refused, overwritten>>
    BY DEF ExpectedExit, DropRow, Handling, windowVars
  <1>2. rows' \in Seq(Flows) /\ ToSet(rows') = ToSet(rows) \ {f}
    BY <1>0, <1>1, RemoveRowProperties
  <1>3. events' \in Seq(Flows)
    BY <1>0, <1>1, HandlingProperties
  <1>4. \A g \in ToSet(rows) \ expected : g \in ToSet(rows') \ expected'
    BY <1>1, <1>2
  <1>5. CASE cascade = NoCascade
    <2>1. UNCHANGED <<cascade, drive, retired>>
      BY <1>5 DEF ExpectedExit
    <2>2. cascade.waiting = {}
      BY <1>5 DEF NoCascade
    <2> QED  BY <1>0, <1>1, <1>2, <1>3, <1>4, <2>1, <2>2
             DEF DriveTypes, CascadeInv, Kept, Listed
  <1>6. CASE cascade # NoCascade
    <2>1. CascadeTo(cascade.waiting \ {f})
      BY <1>6 DEF ExpectedExit
    <2>2. cascade.waiting \ {f} \in SUBSET cascade.waiting
      OBVIOUS
    <2>3. /\ cascade' \in [waiting : SUBSET Flows, specs : Seq(Specs)]
          /\ drive' \in [pc : {"idle", "kill", "spawn"}, later : Seq(Flows), specs : Seq(Specs)]
          /\ retired' \subseteq Specs
          /\ cascade'.waiting \subseteq cascade.waiting \ {f}
          /\ cascade' = NoCascade \/ cascade'.waiting # {}
          /\ drive'.pc # "spawn" => drive'.specs = <<>>
          /\ drive'.pc = "spawn" => ~exceeded'
          /\ Listed \subseteq Listed'
      BY <1>0, <1>1, <2>1, <2>2, CascadeToProperties
    <2>4. expected' \subseteq ToSet(rows') /\ cascade'.waiting \subseteq expected'
      BY <1>1, <1>2, <2>3 DEF CascadeInv
    <2>5. CascadeInv'
      BY <2>3, <2>4 DEF CascadeInv, NoCascade
    <2> QED  BY <1>0, <1>1, <1>2, <1>3, <1>4, <2>3, <2>5 DEF DriveTypes, Kept
  <1> QED  BY <1>5, <1>6

(* An exit that nobody asked for: the child is let go, restarted, or       *)
(* restarted with its siblings.                                            *)
LEMMA UnexpectedStep ==
    ASSUME TypeOK, TableInv, CascadeInv, NEW f \in Flows,
           FinalExit(f) \/ TooManyRestarts(f) \/ RestartOne(f) \/ StartCascade(f)
    PROVE  DriveTypes' /\ CascadeInv' /\ Kept
  <1>0. DriveTypes /\ RowsAreDistinct
    BY DEF TypeOK, DriveTypes, TableInv
  <1>u. Unexpected(f)
    BY Zenon DEF FinalExit, TooManyRestarts, RestartOne, StartCascade, Restarting
  <1>1. /\ Handling(f) /\ RemoveRow(f)
        /\ f \in ToSet(rows) \ expected
        /\ drive.pc = "idle"
        /\ UNCHANGED refused
    BY <1>u DEF Unexpected, Handling
  <1>2. rows' \in Seq(Flows) /\ ToSet(rows') = ToSet(rows) \ {f}
    BY <1>0, <1>1, RemoveRowProperties
  <1>3. events' \in Seq(Flows)
    BY <1>0, <1>1, HandlingProperties
  <1>4. /\ drive.specs = <<>> /\ ToSet(<<>>) = {}
        /\ <<>> \in Seq(Specs) /\ <<>> \in Seq(Flows)
    BY <1>1, ToSetEmpty DEF CascadeInv
  <1>5. spec[f] \in Specs
    BY <1>1 DEF TypeOK, TableInv
  <1>6. expected \subseteq ToSet(rows')
    BY <1>1, <1>2 DEF CascadeInv
  <1>7. CASE FinalExit(f) \/ TooManyRestarts(f)
    <2>1. /\ retired' = retired \cup {spec[f]}
          /\ UNCHANGED <<expected, cascade, drive, overwritten>>
      BY <1>7 DEF FinalExit, TooManyRestarts
    <2>2. DriveTypes'
      BY <1>0, <1>1, <1>2, <1>3, <1>5, <2>1 DEF DriveTypes
    <2>3. CascadeInv'
      BY <1>1, <1>6, <2>1 DEF CascadeInv
    <2>4. Kept
      BY <1>2, <2>1 DEF Kept, Listed
    <2> QED  BY <2>2, <2>3, <2>4
  <1>8. CASE RestartOne(f)
    <2> DEFINE one == <<spec[f]>>
    <2>1. /\ drive' = [pc |-> "spawn", later |-> <<>>, specs |-> one]
          /\ UNCHANGED <<expected, cascade, exceeded, retired, overwritten>>
          /\ ~exceeded
      BY <1>8 DEF RestartOne, Restarting
    <2>2. one \in Seq(Specs) /\ ToSet(one) = {spec[f]}
      BY <1>5, ToSetSingle
    <2> HIDE DEF one
    <2>3. DriveTypes'
      BY <1>0, <1>1, <1>2, <1>3, <1>4, <2>1, <2>2 DEF DriveTypes
    <2>4. CascadeInv'
      <3>1. ~exceeded'
        BY <2>1
      <3>2. cascade = NoCascade \/ cascade.waiting # {}
        BY <1>1 DEF CascadeInv
      <3> QED  BY <1>6, <2>1, <3>1, <3>2 DEF CascadeInv, NoCascade
    <2>5. Kept
      BY <1>2, <1>4, <2>1, <2>2 DEF Kept, Listed
    <2> QED  BY <2>3, <2>4, <2>5
  <1>9. CASE StartCascade(f)
    <2>1. PICK i \in DOMAIN rows :
             /\ rows[i] = f
             /\ expected' = expected \cup ToSet(Condemned(i))
             /\ cascade' = [waiting |-> ToSet(Condemned(i)),
                            specs |-> ToRestart(i, Condemned(i))]
             /\ overwritten' = overwritten \cup ToSet(cascade.specs)
             /\ drive' = [pc |-> "kill", later |-> Condemned(i), specs |-> <<>>]
             /\ UNCHANGED <<exceeded, retired>>
      BY <1>9, StartCascadeSteps
    <2> DEFINE later == Condemned(i)
               specs == ToRestart(i, Condemned(i))
    <2>2. /\ later \in Seq(Flows)
          /\ ToSet(later) \subseteq ToSet(rows) \ {f}
          /\ specs \in Seq(Specs)
          /\ spec[f] \in ToSet(specs)
          /\ \A g \in ToSet(later) : spec[g] \in ToSet(specs)
      BY <2>1, CascadeProperties
    <2>3. /\ expected' = expected \cup ToSet(later)
          /\ cascade' = [waiting |-> ToSet(later), specs |-> specs]
          /\ drive' = [pc |-> "kill", later |-> later, specs |-> <<>>]
      BY <2>1
    <2> HIDE DEF later, specs
    <2>4. ToSet(rows) \subseteq Flows /\ ToSet(cascade.specs) \subseteq Specs
      BY <1>0, ToSetMember DEF DriveTypes
    <2>5. DriveTypes'
      BY <1>0, <1>1, <1>2, <1>3, <1>4, <2>1, <2>2, <2>3, <2>4 DEF DriveTypes
    <2>6. CascadeInv'
      BY <1>2, <1>6, <2>2, <2>3 DEF CascadeInv
    <2>7. Listed \subseteq Listed'
      BY <1>4, <2>1, <2>3 DEF Listed
    <2>8. ASSUME NEW g \in ToSet(rows) \ expected
          PROVE  g \in ToSet(rows') \ expected' \/ spec[g] \in Listed'
      <3>1. ToSet(specs) \subseteq Listed'
        BY <2>3 DEF Listed
      <3> QED  BY <1>2, <2>2, <2>3, <3>1
    <2> QED  BY <2>5, <2>6, <2>7, <2>8 DEF Kept
  <1> QED  BY <1>7, <1>8, <1>9

(* The drive thread keeps its books after every step: but for the restart  *)
(* it begins, which leaves the list for spawn_child.                       *)
LEMMA DriveStep ==
    ASSUME TypeOK, BookInv, CascadeInv, [Next]_vars
    PROVE  /\ DriveTypes' /\ CascadeInv'
           /\ \/ Kept
              \/ /\ RestartNext
                 /\ Listed \subseteq Listed' \cup {Head(drive.specs)}
                 /\ UNCHANGED tableVars
  <1>0. DriveTypes /\ TableInv /\ SpawnInv /\ RowsAreDistinct
    BY DEF TypeOK, DriveTypes, BookInv, TableInv
  <1> DEFINE Goal == DriveTypes' /\ CascadeInv' /\ Kept
  <1>1. ASSUME UNCHANGED <<rows, events, expected, cascade, drive, exceeded, refused,
                           retired, overwritten>>
        PROVE  Goal
    BY <1>0, <1>1, DriveIdle DEF DriveTypes
  <1>2. ASSUME NEW f \in Flows,
               Exit(f) \/ Die(f) \/ Unregister(f) \/ UnregisterFlow(f)
        PROVE  Goal
    BY <1>1, <1>2 DEF Exit, Die, Unregister, UnregisterFlow, tableVars, windowVars,
                      historyVars
  <1>3. CASE StartChild
    BY <1>1, <1>3 DEF StartChild, Spawn, tableVars, windowVars, historyVars
  <1>4. CASE LeaveWindow \/ Shutdown \/ UNCHANGED vars
    BY <1>1, <1>4 DEF LeaveWindow, Shutdown, vars, tableVars, windowVars, historyVars
  <1>5. ASSUME NEW f \in Flows, Notify(f) PROVE Goal
    <2>1. /\ events' = Append(events, f)
          /\ UNCHANGED <<rows, expected, cascade, drive, exceeded, refused, retired,
                         overwritten>>
      BY <1>5 DEF Notify, tableVars, windowVars, historyVars
    <2>2. events' \in Seq(Flows)
      BY <1>0, <2>1, AppendToSet DEF DriveTypes
    <2> QED  BY <1>0, <2>1, <2>2, DriveIdle DEF DriveTypes
  <1>6. ASSUME NEW f \in Flows, IgnoreExit(f) PROVE Goal
    <2>1. /\ Handling(f)
          /\ UNCHANGED <<rows, expected, cascade, drive, exceeded, refused, retired,
                         overwritten>>
      BY <1>6 DEF IgnoreExit, tableVars, windowVars, historyVars
    <2>2. events' \in Seq(Flows)
      BY <1>0, <2>1, HandlingProperties
    <2> QED  BY <1>0, <2>1, <2>2, DriveIdle DEF DriveTypes
  <1>7. ASSUME NEW f \in Flows, HandleExit(f) PROVE Goal
    <2>1. CASE ExpectedExit(f)
      BY <1>0, <2>1, ExpectedExitStep
    <2>2. CASE FinalExit(f) \/ TooManyRestarts(f) \/ RestartOne(f) \/ StartCascade(f)
      BY <1>0, <2>2, UnexpectedStep
    <2> QED  BY <1>6, <1>7, <2>1, <2>2 DEF HandleExit
  <1>8. ASSUME NEW k \in Threads, RegisterName(k) \/ LeaveRefused(k) PROVE Goal
    BY <1>1, <1>8 DEF RegisterName, LeaveRefused, tableVars, windowVars, historyVars
  <1>9. ASSUME NEW k \in Threads, RefuseChild(k) PROVE Goal
    <2>1. /\ refused' = refused \cup {spawning[k].flow}
          /\ UNCHANGED <<rows, events, expected, cascade, drive, exceeded, retired,
                         overwritten>>
      BY <1>9 DEF RefuseChild, tableVars, windowVars
    <2>2. spawning[k].flow \in Flows
      BY <1>9, SpawningProperties
    <2> QED  BY <1>0, <2>1, <2>2, DriveIdle DEF DriveTypes
  <1>10. ASSUME NEW k \in Threads, InsertRow(k) PROVE Goal
    <2>1. /\ rows' = Append(rows, spawning[k].flow)
          /\ UNCHANGED <<events, expected, cascade, drive, exceeded, refused, retired,
                         overwritten>>
      BY <1>10 DEF InsertRow, windowVars, historyVars
    <2>2. spawning[k].flow \in Flows
      BY <1>10, SpawningProperties
    <2>3. rows' \in Seq(Flows) /\ ToSet(rows') = ToSet(rows) \cup {spawning[k].flow}
      BY <1>0, <2>1, <2>2, AppendToSet DEF DriveTypes
    <2>4. DriveTypes'
      BY <1>0, <2>1, <2>3 DEF DriveTypes
    <2>5. CascadeInv'
      BY <2>1, <2>3 DEF CascadeInv
    <2>6. Kept
      BY <2>1, <2>3 DEF Kept, Listed
    <2> QED  BY <2>4, <2>5, <2>6
  <1>11. CASE KillNext
    <2>1. /\ drive' = [drive EXCEPT !.later = Tail(@)]
          /\ drive.later # <<>>
          /\ UNCHANGED <<rows, events, expected, cascade, exceeded, refused, retired,
                         overwritten>>
      BY <1>11 DEF KillNext, tableVars, windowVars, historyVars
    <2>2. drive.later \in Seq(Flows)
      BY <1>0 DEF DriveTypes
    <2>3. Tail(drive.later) \in Seq(Flows)
      BY <2>1, <2>2, HeadTailToSet
    <2>4. /\ drive'.pc = drive.pc /\ drive'.specs = drive.specs
          /\ drive' \in [pc : {"idle", "kill", "spawn"}, later : Seq(Flows), specs : Seq(Specs)]
      BY <1>0, <2>1, <2>3 DEF DriveTypes
    <2>5. DriveTypes'
      BY <1>0, <2>1, <2>4 DEF DriveTypes
    <2>6. CascadeInv'
      BY <2>1, <2>4 DEF CascadeInv
    <2>7. Kept
      BY <2>1, <2>4 DEF Kept, Listed
    <2> QED  BY <2>5, <2>6, <2>7
  <1>12. CASE Prune
    <2> DEFINE waiting == {f \in cascade.waiting : Registered(f)}
    <2>1. /\ CascadeTo(waiting)
          /\ drive.pc # "spawn"
          /\ UNCHANGED <<rows, events, expected, exceeded, refused, overwritten>>
      BY <1>12 DEF Prune, tableVars, windowVars
    <2>2. waiting \in SUBSET cascade.waiting
      OBVIOUS
    <2> HIDE DEF waiting
    <2>3. /\ cascade' \in [waiting : SUBSET Flows, specs : Seq(Specs)]
          /\ drive' \in [pc : {"idle", "kill", "spawn"}, later : Seq(Flows), specs : Seq(Specs)]
          /\ retired' \subseteq Specs
          /\ cascade'.waiting \subseteq waiting
          /\ cascade' = NoCascade \/ cascade'.waiting # {}
          /\ drive'.pc # "spawn" => drive'.specs = <<>>
          /\ drive'.pc = "spawn" => ~exceeded'
          /\ Listed \subseteq Listed'
      BY <1>0, <2>1, <2>2, CascadeToProperties
    <2>4. DriveTypes'
      BY <1>0, <2>1, <2>3 DEF DriveTypes
    <2>5. CascadeInv'
      BY <2>1, <2>2, <2>3 DEF CascadeInv, NoCascade
    <2>6. Kept
      BY <2>1, <2>3 DEF Kept
    <2> QED  BY <2>4, <2>5, <2>6
  <1>13. CASE EndRestarts
    <2>1. /\ drive.specs = <<>>
          /\ drive' = [pc |-> "idle", later |-> <<>>, specs |-> <<>>]
          /\ drive.pc = "spawn"
          /\ UNCHANGED <<rows, events, expected, cascade, exceeded, refused, retired,
                         overwritten>>
      BY <1>13 DEF EndRestarts, Resting, tableVars, windowVars, historyVars
    <2>2. <<>> \in Seq(Flows) /\ <<>> \in Seq(Specs)
      BY ToSetEmpty
    <2>3. DriveTypes'
      BY <1>0, <2>1, <2>2 DEF DriveTypes
    <2>4. CascadeInv'
      BY <2>1 DEF CascadeInv, NoCascade
    <2>5. Kept
      BY <2>1 DEF Kept, Listed
    <2> QED  BY <2>3, <2>4, <2>5
  <1>14. CASE RestartNext
    <2>1. /\ drive.pc = "spawn" /\ drive.specs # <<>>
          /\ drive' = [drive EXCEPT !.specs = Tail(@)]
          /\ UNCHANGED <<rows, events, expected, cascade, exceeded, refused, retired,
                         overwritten>>
      BY <1>14 DEF RestartNext, Spawn, tableVars, windowVars, historyVars
    <2>2. drive.specs \in Seq(Specs)
      BY <1>0 DEF DriveTypes
    <2>3. /\ Tail(drive.specs) \in Seq(Specs)
          /\ ToSet(drive.specs) = {Head(drive.specs)} \cup ToSet(Tail(drive.specs))
      BY <2>1, <2>2, HeadTailToSet
    <2>4. /\ drive'.pc = drive.pc /\ drive'.specs = Tail(drive.specs)
          /\ drive' \in [pc : {"idle", "kill", "spawn"}, later : Seq(Flows), specs : Seq(Specs)]
      BY <1>0, <2>1, <2>3 DEF DriveTypes
    <2>5. DriveTypes'
      BY <1>0, <2>1, <2>4 DEF DriveTypes
    <2>6. CascadeInv'
      BY <2>1, <2>4 DEF CascadeInv, NoCascade
    <2>7. Listed \subseteq Listed' \cup {Head(drive.specs)}
      BY <2>1, <2>3, <2>4 DEF Listed
    <2> QED  BY <1>14, <2>1, <2>5, <2>6, <2>7 DEF tableVars
  <1> QED
    BY <1>2, <1>3, <1>4, <1>5, <1>7, <1>8, <1>9, <1>10, <1>11, <1>12, <1>13, <1>14, Zenon
       DEF Next

-----------------------------------------------------------------------------
(* The children                                                            *)

(* The incarnation that answers for a child is neither lost nor taken for  *)
(* another's: a spec is written for a flow that is new.                    *)
LEMMA SpecStaysProperties ==
    ASSUME TypeOK, TableInv, SpawnInv, [Next]_vars
    PROVE  \A f \in Flows : state[f] # "unborn" => spec'[f] = spec[f]
  <1>1. CASE StartChild \/ RestartNext
    <2>1. PICK k \in Threads, c \in Specs : Spawn(k, c)
      BY <1>1, SpawnSteps
    <2>2. PICK f \in Flows : state[f] = "unborn" /\ spec' = [spec EXCEPT ![f] = c]
      BY <2>1, SpawnProperties
    <2> QED  BY <2>2 DEF TypeOK
  <1>2. CASE \E k \in Threads : \/ RegisterName(k) \/ InsertRow(k)
                                \/ RefuseChild(k) \/ LeaveRefused(k)
    BY <1>2, SpawningProperties
  <1>3. CASE \E f \in Flows : Notify(f) \/ HandleExit(f)
    <2>1. PICK f \in Flows : Notify(f) \/ HandleExit(f)
      BY <1>3
    <2>2. spec' = spec
      BY <2>1, HandleExitProperties DEF Notify, TableInv
    <2> QED  BY <2>2
  <1>4. CASE Quiet
    BY <1>4 DEF Quiet
  <1> QED  BY <1>1, <1>2, <1>3, <1>4, StepKinds, Zenon

(* A child that was started stays answered for. *)
LEMMA ChildrenStep ==
    ASSUME TypeOK, BookInv, CascadeInv, ChildrenInv, [Next]_vars
    PROVE  ChildrenInv'
  <1> USE DEF BookInv
  <1>0. /\ TableInv /\ SpawnInv /\ RowsAreDistinct
        /\ refused \subseteq Flows
        /\ rows \in Seq(Flows)
    BY DEF TypeOK, TableInv
  <1>1. ToSet(rows) \subseteq Flows
    BY <1>0, ToSetMember
  <1>2. \A f \in Flows : state[f] # "unborn" => spec'[f] = spec[f]
    BY <1>0, SpecStaysProperties
  <1>3. refused \subseteq refused'
    <2>1. CASE StartChild \/ RestartNext
      BY <2>1 DEF StartChild, RestartNext, Spawn, historyVars
    <2>2. CASE \E k \in Threads : \/ RegisterName(k) \/ InsertRow(k)
                                  \/ RefuseChild(k) \/ LeaveRefused(k)
      BY <2>2, SpawningProperties
    <2>3. CASE \E f \in Flows : Notify(f) \/ HandleExit(f)
      BY <2>3, <1>0, HandleExitProperties DEF Notify, historyVars
    <2>4. CASE Quiet
      BY <2>4 DEF Quiet
    <2> QED  BY <2>1, <2>2, <2>3, <2>4, StepKinds, Zenon
  <1>4. ASSUME NEW c, TurnedAway(c) PROVE TurnedAway(c)'
    BY <1>0, <1>2, <1>3, <1>4 DEF TurnedAway, TableInv
  <1>5. ASSUME NEW k \in Threads, NEW f \in Flows, NEW c \in Specs,
               Spawning(k), spawning[k].flow = f, spec[f] = c
        PROVE  AnsweredFor(c)'
    <2>1. /\ state[f] # "unborn"
          /\ f \notin ToSet(rows)
          /\ f \in refused <=> spawning[k].pc = "leave"
      BY <1>5 DEF SpawnInv
    <2>2. spec'[f] = c
      BY <2>1, <1>2, <1>5
    <2>3. ASSUME spawning'[k].pc # "none", spawning'[k].flow = f
          PROVE  AnsweredFor(c)'
      BY <2>2, <2>3 DEF AnsweredFor, Spawning
    <2>4. CASE spawning' = spawning
      BY <1>5, <2>3, <2>4 DEF Spawning
    <2>5. ASSUME NEW j \in Threads,
                 RegisterName(j) \/ InsertRow(j) \/ RefuseChild(j) \/ LeaveRefused(j)
          PROVE  AnsweredFor(c)'
      <3>1. j = k
        <4>1. Spawning(j)
          BY <2>5, SpawningProperties
        <4> QED  BY <4>1, <1>5 DEF SpawnInv
      <3>2. CASE RegisterName(k) \/ RefuseChild(k)
        <4>1. spawning \in [Threads -> [pc : {"none", "register", "insert", "refuse", "leave"},
                                        flow : Flows \cup {NoFlow}]]
          BY DEF TypeOK
        <4>2. \E p \in {"insert", "refuse", "leave"} : spawning' = [spawning EXCEPT ![k].pc = p]
          BY <3>2 DEF RegisterName, RefuseChild
        <4>3. spawning'[k].pc \in {"insert", "refuse", "leave"} /\ spawning'[k].flow = f
          BY <4>1, <4>2, <1>5
        <4> QED  BY <4>3, <2>3
      <3>3. CASE InsertRow(k)
        <4>1. rows' = Append(rows, f) /\ expected' = expected
          BY <3>3, <1>5 DEF InsertRow
        <4>2. ToSet(rows') = ToSet(rows) \cup {f}
          BY <4>1, <1>0, AppendToSet
        <4>3. f \in ToSet(rows') \ expected'
          BY <4>1, <4>2, <2>1 DEF CascadeInv
        <4> QED  BY <4>3, <2>2 DEF AnsweredFor
      <3>4. CASE LeaveRefused(k)
        <4>1. f \in refused
          BY <3>4, <2>1 DEF LeaveRefused
        <4>2. TurnedAway(c)'
          BY <4>1, <1>3, <2>2 DEF TurnedAway
        <4> QED  BY <4>2 DEF AnsweredFor
      <3> QED  BY <2>5, <3>1, <3>2, <3>3, <3>4
    <2>6. CASE StartChild \/ RestartNext
      BY <1>5, <2>6 DEF StartChild, RestartNext, Spawn, TableFree, Spawning
    <2>7. CASE \E g \in Flows : Notify(g) \/ HandleExit(g)
      <3>1. spawning' = spawning
        BY <2>7, <1>0, HandleExitProperties DEF Notify, spawnVars
      <3> QED  BY <2>4, <3>1
    <2>8. CASE Quiet
      BY <2>4, <2>8 DEF Quiet
    <2> QED  BY <2>5, <2>6, <2>7, <2>8, StepKinds, Zenon
  <1>6. ASSUME NEW k \in Threads, NEW c \in Specs, Spawn(k, c) PROVE AnsweredFor(c)'
    <2>1. PICK f \in Flows : /\ spec' = [spec EXCEPT ![f] = c]
                             /\ spawning'[k].pc \in {"register", "insert"}
                             /\ spawning'[k].flow = f
      BY <1>6, SpawnProperties
    <2>2. spec'[f] = c
      BY <2>1 DEF TypeOK
    <2> QED  BY <2>1, <2>2 DEF AnsweredFor, Spawning
  <1>7. \/ Kept
        \/ /\ RestartNext
           /\ Listed \subseteq Listed' \cup {Head(drive.specs)}
           /\ UNCHANGED tableVars
    BY DriveStep
  <1>8. ASSUME NEW c \in Listed PROVE AnsweredFor(c)'
    <2>1. CASE c \in Listed'
      BY <2>1 DEF Listed, AnsweredFor
    <2>2. CASE RestartNext /\ c = Head(drive.specs)
      <3>1. /\ Spawn("drive", Head(drive.specs)) /\ "drive" \in Threads
            /\ drive.specs # <<>> /\ drive.specs \in Seq(Specs)
        BY <2>2 DEF RestartNext, Threads, TypeOK
      <3>2. c \in Specs
        BY <2>2, <3>1, HeadTailProperties
      <3> QED  BY <2>2, <3>1, <3>2, <1>6
    <2> QED  BY <2>1, <2>2, <1>7 DEF Kept
  <1>9. ASSUME NEW f \in ToSet(rows) \ expected, NEW c, spec[f] = c PROVE AnsweredFor(c)'
    <2>1. f \in Flows /\ spec'[f] = c
      BY <1>1, <1>2, <1>9 DEF TableInv
    <2>2. CASE f \in ToSet(rows') \ expected'
      BY <2>1, <2>2 DEF AnsweredFor
    <2>3. CASE c \in Listed'
      BY <2>3 DEF Listed, AnsweredFor
    <2> QED  BY <2>2, <2>3, <1>7, <1>9 DEF Kept, tableVars
  <1>10. ASSUME NEW c \in Specs, AnsweredFor(c) PROVE AnsweredFor(c)'
    <2>1. CASE \E f \in ToSet(rows) \ expected : spec[f] = c
      BY <2>1, <1>9
    <2>2. CASE \E k \in Threads : Spawning(k) /\ spec[spawning[k].flow] = c
      <3>1. PICK k \in Threads : Spawning(k) /\ spec[spawning[k].flow] = c
        BY <2>2
      <3>2. spawning[k].flow \in Flows
        BY <3>1 DEF TypeOK, Spawning
      <3> QED  BY <3>1, <3>2, <1>5
    <2>3. CASE c \in Listed
      BY <2>3, <1>8
    <2>4. CASE TurnedAway(c)
      <3>1. TurnedAway(c)'
        BY <2>4, <1>4
      <3> QED  BY <3>1 DEF AnsweredFor
    <2> QED  BY <1>10, <2>1, <2>2, <2>3, <2>4 DEF AnsweredFor, Listed
  <1>11. started \in 0 .. NumSpecs /\ NumSpecs \in Nat
    BY SupervisorAssumption DEF TypeOK
  <1>12. CASE started' = started
    <2>1. 1 .. started \subseteq Specs
      BY <1>11 DEF Specs
    <2> QED  BY <1>10, <1>12, <2>1 DEF ChildrenInv
  <1>13. CASE StartChild
    <2>1. PICK k \in Threads, c \in Specs : Spawn(k, c) /\ c = started + 1
      <3>1. Spawn("host", started + 1) /\ "host" \in Threads /\ started < MaxStarted[strategy]
        BY <1>13 DEF StartChild, Threads
      <3>2. MaxStarted[strategy] \in 0 .. NumSpecs
        BY SupervisorAssumption DEF TypeOK
      <3>3. started + 1 \in Specs
        BY <3>1, <3>2, <1>11 DEF Specs
      <3> QED  BY <3>1, <3>3
    <2>2. started' = started + 1
      BY <1>13 DEF StartChild
    <2>3. ASSUME NEW d \in 1 .. started' PROVE AnsweredFor(d)'
      <3>1. CASE d = started + 1
        BY <2>1, <3>1, <1>6
      <3>2. CASE d # started + 1
        <4>1. d \in 1 .. started /\ d \in Specs
          BY <2>2, <3>2, <1>11 DEF Specs
        <4> QED  BY <4>1, <1>10 DEF ChildrenInv
      <3> QED  BY <3>1, <3>2
    <2> QED  BY <2>3 DEF ChildrenInv
  <1>14. started' = started \/ StartChild
    <2>1. ASSUME NEW f \in Flows, Exit(f) \/ Die(f) \/ Unregister(f) \/ UnregisterFlow(f)
                                   \/ Notify(f) \/ IgnoreExit(f) \/ ExpectedExit(f)
                                   \/ Unexpected(f)
          PROVE  started' = started
      BY <2>1 DEF Exit, Die, Unregister, UnregisterFlow, Notify, IgnoreExit, ExpectedExit,
                  Unexpected, spawnVars
    <2>2. ASSUME NEW f \in Flows, HandleExit(f)
          PROVE  IgnoreExit(f) \/ ExpectedExit(f) \/ Unexpected(f)
      BY <2>2, Zenon DEF HandleExit, FinalExit, TooManyRestarts, RestartOne, StartCascade,
                         Restarting
    <2>3. ASSUME NEW k \in Threads,
                 RegisterName(k) \/ InsertRow(k) \/ RefuseChild(k) \/ LeaveRefused(k)
          PROVE  started' = started
      BY <2>3 DEF RegisterName, InsertRow, RefuseChild, LeaveRefused
    <2>4. CASE KillNext \/ Prune \/ RestartNext \/ EndRestarts \/ LeaveWindow \/ Shutdown
      BY <2>4 DEF KillNext, Prune, RestartNext, EndRestarts, LeaveWindow, Shutdown, spawnVars
    <2>5. CASE UNCHANGED vars
      BY <2>5 DEF vars, spawnVars
    <2> QED  BY <2>1, <2>2, <2>3, <2>4, <2>5, Zenon DEF Next
  <1> QED  BY <1>12, <1>13, <1>14

-----------------------------------------------------------------------------
(* The counters and the rest                                               *)

\* Types of the state that nothing above speaks of.
RestTypes ==
    /\ strategy \in Strategies
    /\ started \in 0 .. NumSpecs
    /\ outcome \in [Flows -> {"Completed", "Failed"}]
    /\ signals \subseteq Flows
    /\ exits \in 0 .. MaxExits
    /\ names \in [Specs -> Flows \cup {NoFlow}]
    /\ stopped \in BOOLEAN
    /\ reaping \in [Threads -> Flows \cup {NoFlow}]

\* The restart window: the limit is checked on every restart it counts.
WindowTypes ==
    /\ exceeded \in BOOLEAN
    /\ exceeded => recent \in 0 .. MaxRestarts + 1
    /\ ~exceeded => recent \in 0 .. MaxRestarts

(* The three groups of types make up TypeOK. *)
LEMMA TypeParts ==
    TypeOK <=> FlowTypes /\ DriveTypes /\ RestTypes /\ WindowTypes
  <1>1. (recent \in 0 .. (IF exceeded THEN MaxRestarts + 1 ELSE MaxRestarts))
          <=> /\ exceeded => recent \in 0 .. MaxRestarts + 1
              /\ ~exceeded => recent \in 0 .. MaxRestarts
    BY Zenon
  <1> QED  BY <1>1, Zenon DEF TypeOK, FlowTypes, DriveTypes, RestTypes, WindowTypes

(* The restart window holds max_restarts at most, and the one restart more *)
(* that exceeds it.                                                        *)
LEMMA WindowStep ==
    ASSUME TypeOK, [Next]_vars
    PROVE  WindowTypes'
  <1>0. WindowTypes /\ MaxRestarts \in Nat
    BY TypeParts, SupervisorAssumption
  <1>1. ASSUME UNCHANGED <<recent, exceeded>> PROVE WindowTypes'
    BY <1>0, <1>1 DEF WindowTypes
  <1>2. ASSUME NEW f \in Flows, Exit(f) \/ Die(f) \/ Unregister(f) \/ UnregisterFlow(f)
                                \/ Notify(f) \/ IgnoreExit(f) \/ ExpectedExit(f)
                                \/ FinalExit(f)
        PROVE  WindowTypes'
    BY <1>1, <1>2 DEF Exit, Die, Unregister, UnregisterFlow, Notify, IgnoreExit,
                      ExpectedExit, FinalExit, windowVars
  <1>3. ASSUME NEW k \in Threads,
               RegisterName(k) \/ InsertRow(k) \/ RefuseChild(k) \/ LeaveRefused(k)
        PROVE  WindowTypes'
    BY <1>1, <1>3 DEF RegisterName, InsertRow, RefuseChild, LeaveRefused, windowVars
  <1>4. CASE StartChild \/ KillNext \/ Prune \/ RestartNext \/ EndRestarts \/ Shutdown
    BY <1>1, <1>4 DEF StartChild, KillNext, Prune, RestartNext, EndRestarts, Shutdown, Spawn,
                      windowVars
  <1>5. CASE UNCHANGED vars
    BY <1>1, <1>5 DEF vars, windowVars
  <1>6. CASE LeaveWindow
    <2>1. recent > 0 /\ recent' = recent - 1 /\ exceeded' = exceeded
      BY <1>6 DEF LeaveWindow
    <2>2. CASE exceeded
      <3>1. recent' \in 0 .. MaxRestarts + 1
        BY <1>0, <2>1, <2>2 DEF WindowTypes
      <3> QED  BY <1>0, <2>1, <2>2, <3>1 DEF WindowTypes
    <2>3. CASE ~exceeded
      <3>1. recent' \in 0 .. MaxRestarts
        BY <1>0, <2>1, <2>3 DEF WindowTypes
      <3> QED  BY <1>0, <2>1, <2>3, <3>1 DEF WindowTypes
    <2> QED  BY <2>2, <2>3
  <1>7. ASSUME NEW f \in Flows, TooManyRestarts(f) PROVE WindowTypes'
    <2>1. ~exceeded /\ recent' = recent + 1 /\ exceeded' = TRUE
      BY <1>7 DEF TooManyRestarts, Restarting
    <2>2. recent' \in 0 .. MaxRestarts + 1
      BY <1>0, <2>1 DEF WindowTypes
    <2> QED  BY <2>1, <2>2 DEF WindowTypes
  <1>8. ASSUME NEW f \in Flows, RestartOne(f) \/ StartCascade(f) PROVE WindowTypes'
    <2>1. /\ ~exceeded /\ recent' = recent + 1 /\ exceeded' = exceeded
          /\ ~(recent + 1 > MaxRestarts)
      BY <1>8, Zenon DEF RestartOne, StartCascade, Restarting, OverLimit
    <2>2. recent' \in 0 .. MaxRestarts
      BY <1>0, <2>1 DEF WindowTypes
    <2> QED  BY <1>0, <2>1, <2>2 DEF WindowTypes
  <1> QED  BY <1>2, <1>3, <1>4, <1>5, <1>6, <1>7, <1>8, Zenon DEF Next, HandleExit

(* The remaining types. *)
LEMMA RestStep ==
    ASSUME TypeOK, [Next]_vars
    PROVE  RestTypes'
  <1>0. RestTypes /\ FlowTypes
    BY TypeParts
  <1>1. ASSUME UNCHANGED <<strategy, started, outcome, signals, exits, names, stopped, reaping>>
        PROVE  RestTypes'
    BY <1>0, <1>1 DEF RestTypes
  <1>2. ASSUME NEW f \in Flows, Exit(f) PROVE RestTypes'
    <2>1. PICK result \in {"Completed", "Failed"} : BeginEnd(f, result)
      BY <1>2 DEF Exit
    <2>2. outcome' \in [Flows -> {"Completed", "Failed"}] /\ signals' \subseteq Flows
      BY <2>1, <1>2, BeginEndProperties DEF Exit
    <2>3. exits' \in 0 .. MaxExits
      BY <1>0, <1>2, SupervisorAssumption DEF Exit, RestTypes
    <2> QED  BY <1>0, <1>2, <2>2, <2>3 DEF Exit, RestTypes, spawnVars
  <1>3. ASSUME NEW f \in Flows, Die(f) PROVE RestTypes'
    <2>1. outcome' \in [Flows -> {"Completed", "Failed"}] /\ signals' \subseteq Flows
      BY <1>3, BeginEndProperties DEF Die
    <2> QED  BY <1>0, <1>3, <2>1 DEF Die, RestTypes, spawnVars
  <1>4. ASSUME NEW f \in Flows, Unregister(f) \/ IgnoreExit(f) \/ ExpectedExit(f)
                                \/ Unexpected(f)
        PROVE  RestTypes'
    BY <1>1, <1>4 DEF Unregister, IgnoreExit, ExpectedExit, Unexpected, flowVars, spawnVars
  <1>5. ASSUME NEW f \in Flows, UnregisterFlow(f) PROVE RestTypes'
    <2>1. names' \in [Specs -> Flows \cup {NoFlow}]
      BY <1>0, <1>5 DEF UnregisterFlow, RestTypes
    <2> QED  BY <1>0, <1>5, <2>1 DEF UnregisterFlow, RestTypes, spawnVars
  <1>6. ASSUME NEW f \in Flows, Notify(f) PROVE RestTypes'
    <2>1. reaping' \in [Threads -> Flows \cup {NoFlow}]
      BY <1>0, <1>6 DEF Notify, RestTypes
    <2> QED  BY <1>0, <1>6, <2>1 DEF Notify, RestTypes, spawnVars
  <1>7. ASSUME NEW k \in Threads, InsertRow(k) \/ LeaveRefused(k) PROVE RestTypes'
    BY <1>1, <1>7 DEF InsertRow, LeaveRefused, flowVars
  <1>8. ASSUME NEW k \in Threads, RegisterName(k) PROVE RestTypes'
    <2>1. names' \in [Specs -> Flows \cup {NoFlow}]
      <3>1. spawning[k].flow \in Flows
        BY <1>8, SpawningProperties
      <3> QED  BY <1>0, <1>8, <3>1 DEF RegisterName, RestTypes
    <2> QED  BY <1>0, <1>8, <2>1 DEF RegisterName, RestTypes, flowVars
  <1>9. ASSUME NEW k \in Threads, RefuseChild(k) PROVE RestTypes'
    <2>1. spawning[k].flow \in Flows /\ RequestKill(k, spawning[k].flow)
      BY <1>9, SpawningProperties DEF RefuseChild
    <2>2. /\ outcome' \in [Flows -> {"Completed", "Failed"}]
          /\ signals' \subseteq Flows
          /\ reaping' \in [Threads -> Flows \cup {NoFlow}]
      BY <2>1, RequestKillProperties
    <2> QED  BY <1>0, <1>9, <2>2 DEF RefuseChild, RestTypes
  <1>10. CASE KillNext
    <2>1. /\ drive.later \in Seq(Flows) /\ drive.later # <<>>
          /\ RequestKill("drive", Head(drive.later)) /\ "drive" \in Threads
      BY <1>10 DEF TypeOK, KillNext, Threads
    <2>2. Head(drive.later) \in Flows
      BY <2>1, HeadTailProperties
    <2>3. /\ outcome' \in [Flows -> {"Completed", "Failed"}]
          /\ signals' \subseteq Flows
          /\ reaping' \in [Threads -> Flows \cup {NoFlow}]
      BY <2>1, <2>2, RequestKillProperties
    <2> QED  BY <1>0, <1>10, <2>3 DEF KillNext, RestTypes, spawnVars
  <1>11. CASE StartChild
    <2>1. MaxStarted[strategy] \in 0 .. NumSpecs /\ NumSpecs \in Nat
      BY <1>0, SupervisorAssumption DEF RestTypes
    <2>2. started' \in 0 .. NumSpecs
      BY <1>0, <1>11, <2>1 DEF StartChild, RestTypes
    <2> QED  BY <1>0, <1>11, <2>2 DEF StartChild, Spawn, RestTypes
  <1>12. CASE Prune \/ RestartNext \/ EndRestarts \/ LeaveWindow
    BY <1>1, <1>12 DEF Prune, RestartNext, EndRestarts, LeaveWindow, Spawn, flowVars, spawnVars
  <1>13. CASE Shutdown
    <2>1. /\ stopped' = TRUE
          /\ UNCHANGED <<strategy, started, outcome, signals, exits, names, reaping>>
      BY <1>13 DEF Shutdown, flowVars, spawnVars
    <2> QED  BY <1>0, <2>1 DEF RestTypes
  <1>14. CASE UNCHANGED vars
    BY <1>1, <1>14 DEF vars, flowVars, spawnVars
  <1>15. ASSUME NEW f \in Flows, HandleExit(f)
         PROVE  IgnoreExit(f) \/ ExpectedExit(f) \/ Unexpected(f)
    BY <1>15, Zenon DEF HandleExit, FinalExit, TooManyRestarts, RestartOne, StartCascade,
                        Restarting
  <1> QED
    BY <1>2, <1>3, <1>4, <1>5, <1>6, <1>7, <1>8, <1>9, <1>10, <1>11, <1>12, <1>13, <1>14,
       <1>15, Zenon DEF Next

-----------------------------------------------------------------------------
(* The theorems                                                            *)

(* The inductive invariant: the table and the children agree, a cascade    *)
(* waits for rows it has marked, and every child started is answered for.  *)
THEOREM SupInvariant == Spec => []SupInv
  <1>1. Init => SupInv
    BY SupInvInit
  <1>2. SupInv /\ [Next]_vars => SupInv'
    <2> SUFFICES ASSUME SupInv, [Next]_vars PROVE SupInv'
      OBVIOUS
    <2>1. TypeOK /\ BookInv /\ CascadeInv /\ ChildrenInv
      BY DEF SupInv, BookInv
    <2>2. FlowTypes' /\ BookInv'
      BY <2>1, BookStep
    <2>3. DriveTypes' /\ CascadeInv'
      BY <2>1, DriveStep
    <2>4. ChildrenInv'
      BY <2>1, ChildrenStep
    <2>5. RestTypes' /\ WindowTypes'
      BY <2>1, RestStep, WindowStep
    <2>6. TypeOK'
      <3>1. recent' \in 0 .. (IF exceeded' THEN MaxRestarts + 1 ELSE MaxRestarts)
        BY <2>5, Zenon DEF WindowTypes
      <3> QED  BY <2>2, <2>3, <2>5, <3>1, Zenon
               DEF TypeOK, FlowTypes, DriveTypes, RestTypes, WindowTypes
    <2> QED  BY <2>2, <2>3, <2>4, <2>6 DEF SupInv, BookInv
  <1> QED  BY <1>1, <1>2, PTL DEF Spec

(* The child table, the event queue, the cascade and the restart window    *)
(* keep their types; the window never holds more than max_restarts unless  *)
(* intensity_exceeded is set.                                              *)
THEOREM TypeCorrect == Spec => []TypeOK
  <1>1. SupInv => TypeOK
    BY DEF SupInv
  <1> QED  BY <1>1, SupInvariant, PTL

(* An incarnation has its row from the end of spawn_child until its exit   *)
(* has been handled, and not longer.                                       *)
THEOREM TableAgrees == Spec => []RowsAreUnhandled
  <1>1. SupInv => RowsAreUnhandled
    BY DEF SupInv
  <1> QED  BY <1>1, SupInvariant, PTL

(* While the drive thread rests, a cascade under way waits for somebody    *)
(* whose exit is still to be handled.                                      *)
THEOREM CascadesCanEnd == Spec => []CascadeCanEnd
  <1>1. SupInv => CascadeCanEnd
    <2> SUFFICES ASSUME SupInv, cascade # NoCascade, drive.pc = "idle"
                 PROVE  \E f \in cascade.waiting : f \in ToSet(rows) \cap expected /\ ~Handled(f)
      BY DEF CascadeCanEnd
    <2>1. TypeOK /\ TableInv /\ SpawnInv /\ RowsAreUnhandled /\ CascadeInv
      BY DEF SupInv
    <2>2. PICK f \in cascade.waiting : f \in ToSet(rows) \cap expected
      BY <2>1 DEF CascadeInv
    <2>3. f \in Flows
      BY <2>1 DEF TypeOK
    <2>4. state[f] # "unborn" /\ f \notin refused
      BY <2>1, <2>2 DEF TableInv
    <2>5. ~BeingSpawned(f)
      BY <2>1, <2>2 DEF SpawnInv, BeingSpawned, Spawning
    <2>6. ~Handled(f)
      BY <2>1, <2>2, <2>3, <2>4, <2>5 DEF RowsAreUnhandled
    <2> QED  BY <2>2, <2>6
  <1> QED  BY <1>1, SupInvariant, PTL

(* A child that was started is in the table, about to be, not to come back *)
(* by its policy or the limit, or dropped for one of the two reasons: its  *)
(* name was taken, or its cascade was overwritten.                         *)
THEOREM ChildrenAreAccountedFor == Spec => []DroppedForAReason
  <1>1. SupInv => DroppedForAReason
    <2> SUFFICES ASSUME SupInv, NEW c \in 1 .. started
                 PROVE  Accounted(c) \/ TurnedAway(c) \/ c \in overwritten
      BY DEF DroppedForAReason
    <2>1. AnsweredFor(c) /\ TypeOK
      BY DEF SupInv, ChildrenInv
    <2>2. ASSUME NEW k \in Threads, Spawning(k), spec[spawning[k].flow] = c
          PROVE  \E f \in Flows : BeingSpawned(f) /\ spec[f] = c
      BY <2>1, <2>2 DEF TypeOK, Spawning, BeingSpawned
    <2> QED  BY <2>1, <2>2 DEF AnsweredFor, Accounted
  <1> QED  BY <1>1, SupInvariant, PTL

(* Once intensity_exceeded is set nobody is spawned but by start_child,    *)
(* the children of a cascade that was under way included.                  *)
THEOREM NoRestartPastTheLimit == Spec => LimitIsFinal
  <1> DEFINE A == exceeded => \A f \in Flows :
                    state[f] = "unborn" /\ state'[f] # "unborn" => spawning'["host"].flow = f
  <1>1. SupInv /\ [Next]_vars => [A]_vars
    <2> SUFFICES ASSUME SupInv, [Next]_vars, exceeded, NEW f \in Flows,
                        state[f] = "unborn", state'[f] # "unborn"
                 PROVE  spawning'["host"].flow = f
      OBVIOUS
    <2>1. TypeOK /\ RowsAreDistinct /\ CascadeInv
      BY DEF SupInv, TableInv
    <2>2. ~Quiet
      BY DEF Quiet, SameToTheTable
    <2>3. ASSUME NEW g \in Flows, Notify(g) \/ HandleExit(g) PROVE FALSE
      <3>1. CASE Notify(g)
        BY <2>1, <3>1 DEF Notify, TypeOK
      <3>2. CASE HandleExit(g)
        BY <2>1, <3>2, HandleExitProperties
      <3> QED  BY <2>3, <3>1, <3>2
    <2>4. ASSUME NEW k \in Threads,
                 RegisterName(k) \/ InsertRow(k) \/ RefuseChild(k) \/ LeaveRefused(k)
          PROVE  FALSE
      BY <2>1, <2>4, SpawningProperties DEF SameToTheTable
    <2>5. ~RestartNext
      BY <2>1 DEF RestartNext, CascadeInv
    <2>6. StartChild
      BY <2>1, <2>2, <2>3, <2>4, <2>5, StepKinds, Zenon
    <2>7. Spawn("host", started + 1) /\ "host" \in Threads /\ started + 1 \in Specs
      <3>1. MaxStarted[strategy] \in 0 .. NumSpecs /\ started \in 0 .. NumSpecs /\ NumSpecs \in Nat
        BY <2>1, SupervisorAssumption DEF TypeOK
      <3> QED  BY <2>6, <3>1 DEF StartChild, Threads, Specs
    <2>8. PICK g \in Flows : state' = [state EXCEPT ![g] = "live"] /\ spawning'["host"].flow = g
      BY <2>1, <2>7, SpawnProperties
    <2>9. f = g
      BY <2>1, <2>8 DEF TypeOK
    <2> QED  BY <2>8, <2>9
  <1>2. [][A]_vars => LimitIsFinal
    BY PTL DEF LimitIsFinal
  <1> QED  BY <1>1, <1>2, SupInvariant, PTL DEF Spec
=============================================================================
