----------------------------- MODULE JoinProofs -----------------------------
(***************************************************************************)
(* Machine-checked proofs about Join, for every number of flows, workers   *)
(* and joining threads: its types, that a flow is run and settled once,    *)
(* and that it implements the safety part of Handle.                       *)
(***************************************************************************)
EXTENDS Join, TLAPS, FiniteSetTheorems

(* A thread whose deadline has passed was not inside join, which has none: *)
(* a handle that join_deadline borrows is not moved meanwhile.             *)
LateHasDeadline ==
    \A j \in Joiners : caller[j] = "late" => Target[j] \notin moved

(* What a queue, a thread and a slot say of the same flow, in the form     *)
(* that an induction needs: no two threads hold one flow.                  *)
HeldOnce ==
    /\ \A f \in Flows : (place[f] = "held") <=> (\E w \in Workers : worker[w].f = f)
    /\ \A v, w \in Workers :
           worker[v].f \in Flows /\ worker[v].f = worker[w].f => v = w
    /\ \A f \in Flows : (place[f] = "gone") <=> (slot[f] # "pending")

JoinInv == TypeOK /\ HeldOnce /\ LateHasDeadline

-----------------------------------------------------------------------------
(* One turn of a joining thread's loop only touches its own state and its  *)
(* flow's slot, and takes an outcome that is there.                        *)
LEMMA TurnEffect ==
    ASSUME TypeOK, NEW j \in Joiners, NEW late \in BOOLEAN, Turn(j, late)
    PROVE  /\ Target[j] \in Flows
           /\ caller' = [caller EXCEPT ![j] = caller'[j]]
           /\ \/ /\ slot[Target[j]] = "ready" /\ caller'[j] = "outcome"
                 /\ slot' = [slot EXCEPT ![Target[j]] = "taken"]
              \/ /\ slot[Target[j]] = "taken" /\ caller'[j] = "already"
                 /\ slot' = slot
              \/ /\ slot[Target[j]] = "abandoned" /\ caller'[j] = "abandoned"
                 /\ slot' = slot
              \/ /\ slot[Target[j]] = "pending"
                 /\ caller'[j] = IF late THEN "timeout" ELSE "asleep"
                 /\ slot' = slot
           /\ UNCHANGED <<owed, place, threadVars, hostVars>>
  <1>1. Target[j] \in Flows
    BY JoinAssumption
  <1>2. slot[Target[j]] \in {"pending", "ready", "taken", "abandoned"}
    BY <1>1 DEF TypeOK
  <1>3. caller' = [caller EXCEPT ![j] = Collected(j, late)]
        /\ caller'[j] = Collected(j, late)
    BY DEF Turn, TypeOK
  <1>4. UNCHANGED <<owed, place, threadVars, hostVars>>
    BY DEF Turn
  <1>5. slot' = [slot EXCEPT ![Target[j]] =
                   IF caller'[j] = "outcome" THEN "taken" ELSE slot[Target[j]]]
    BY DEF Turn
  <1>6. slot = [slot EXCEPT ![Target[j]] = slot[Target[j]]]
    BY DEF TypeOK
  <1>7. CASE slot[Target[j]] = "ready"
    BY <1>1, <1>3, <1>4, <1>5, <1>7 DEF Collected
  <1>8. CASE slot[Target[j]] = "taken"
    BY <1>1, <1>3, <1>4, <1>5, <1>6, <1>8 DEF Collected
  <1>9. CASE slot[Target[j]] = "abandoned"
    BY <1>1, <1>3, <1>4, <1>5, <1>6, <1>9 DEF Collected
  <1>10. CASE slot[Target[j]] = "pending"
    <2>1. Collected(j, late) = IF late THEN "timeout" ELSE "asleep"
      BY <1>10 DEF Collected
    <2> QED  BY <1>1, <1>3, <1>4, <1>5, <1>6, <1>10, <2>1
  <1> QED  BY <1>2, <1>7, <1>8, <1>9, <1>10

(* The worker that lets a flow go is the one that held it. *)
LEMMA LetsGoEffect ==
    ASSUME TypeOK, HeldOnce, NEW w \in Workers, worker[w].at \in {"drive", "quantum"}
    PROVE  /\ worker[w].f \in Flows
           /\ place[worker[w].f] = "held"
           /\ slot[worker[w].f] = "pending"
  <1>1. worker[w].f \in Flows
    BY DEF TypeOK
  <1> QED  BY <1>1 DEF HeldOnce

(* TypeOK is inductive together with HeldOnce: every flow in a thread's    *)
(* hands is one of the flows.                                              *)
LEMMA TypeStep ==
    ASSUME JoinInv, [Next]_vars
    PROVE  TypeOK'
  <1> USE DEF JoinInv, joinVars, threadVars, hostVars
  <1>1. ASSUME NEW j \in Joiners, NEW late \in BOOLEAN, Turn(j, late),
               moved' \subseteq Flows
        PROVE  TypeOK'
    BY <1>1, TurnEffect DEF TypeOK, Answers
  <1>2. ASSUME NEW j \in Joiners, Poll(j) \/ JoinNow(j) \/ Collect(j)
        PROVE  TypeOK'
    <2>1. \E late \in BOOLEAN : Turn(j, late)
      BY <1>2, Zenon DEF Poll, JoinNow, Collect
    <2>2. Target[j] \in Flows /\ moved \subseteq Flows
      BY JoinAssumption DEF TypeOK
    <2>3. moved' = moved \/ moved' = moved \cup {Target[j]}
      BY <1>2, Zenon DEF Poll, JoinNow, Collect
    <2> QED  BY <1>1, <2>1, <2>2, <2>3
  <1>3. ASSUME NEW j \in Joiners, Spurious(j) \/ Expire(j)
        PROVE  TypeOK'
    BY <1>3 DEF Spurious, Expire, TypeOK
  <1>4. ASSUME NEW f \in Flows, Notify(f)
        PROVE  TypeOK'
    BY <1>4 DEF Notify, TypeOK
  <1>5. ASSUME NEW f \in Flows, DropSender(f) \/ WakeParked(f) \/ Spawn(f)
        PROVE  TypeOK'
    BY <1>5 DEF DropSender, WakeParked, Spawn, TypeOK
  <1>6. ASSUME NEW w \in Workers, WorkerStep(w)
        PROVE  TypeOK'
    <2>1. CASE FindWork(w)
      BY <2>1, JoinAssumption DEF FindWork, Does, TypeOK
    <2>2. CASE DriveTop(w) \/ Completes(w) \/ Continues(w)
      BY <2>2, LetsGoEffect DEF DriveTop, Completes, Continues, LetsGo, NoFlow, Does, TypeOK
    <2>3. ASSUME NEW to \in {w, "timer", "mailbox"}, Suspends(w, to)
          PROVE  TypeOK'
      BY <2>3, LetsGoEffect DEF Suspends, LetsGo, NoFlow, TypeOK
    <2> QED  BY <1>6, <2>1, <2>2, <2>3 DEF WorkerStep
  <1>7. CASE TimerStep
    BY <1>7 DEF TimerStep, TimerTop, TimerActs, TimerTimeout, TypeOK
  <1>8. CASE HostStep \/ RequestShutdown \/ DropSpawner
    BY <1>8 DEF HostStep, FlagTimer, NotifyTimer, JoinThreads, DropShared, RequestShutdown,
                DropSpawner, TypeOK
  <1>9. CASE UNCHANGED vars
    BY <1>9 DEF vars, TypeOK
  <1> QED
    BY <1>2, <1>3, <1>4, <1>5, <1>6, <1>7, <1>8, <1>9 DEF Next

(* Nobody holds a flow that another thread holds, queues or has settled.   *)
LEMMA HeldStep ==
    ASSUME JoinInv, TypeOK', [Next]_vars
    PROVE  HeldOnce'
  <1> USE DEF JoinInv, joinVars, threadVars, hostVars
  <1>1. ASSUME NEW j \in Joiners, NEW late \in BOOLEAN, Turn(j, late)
        PROVE  HeldOnce'
    BY <1>1, TurnEffect DEF TypeOK, HeldOnce
  <1>2. ASSUME NEW j \in Joiners, Poll(j) \/ JoinNow(j) \/ Collect(j)
        PROVE  HeldOnce'
    BY <1>1, <1>2, Zenon DEF Poll, JoinNow, Collect
  <1>3. ASSUME UNCHANGED <<place, worker, slot>>
        PROVE  HeldOnce'
    BY <1>3 DEF HeldOnce
  <1>4. ASSUME NEW j \in Joiners, Spurious(j) \/ Expire(j)
        PROVE  HeldOnce'
    BY <1>3, <1>4 DEF Spurious, Expire
  <1>5. ASSUME NEW f \in Flows, Notify(f)
        PROVE  HeldOnce'
    BY <1>3, <1>5 DEF Notify
  <1>6. ASSUME NEW f \in Flows, DropSender(f) \/ WakeParked(f) \/ Spawn(f)
        PROVE  HeldOnce'
    BY <1>6 DEF DropSender, WakeParked, Spawn, HeldOnce, TypeOK
  <1>7. ASSUME NEW w \in Workers, WorkerStep(w)
        PROVE  HeldOnce'
    <2>1. CASE FindWork(w)
      <3>1. UNCHANGED slot /\ worker[w].at = "top"
        BY <2>1 DEF FindWork
      <3>2. CASE stop
        <4>1. worker' = [worker EXCEPT ![w] = [worker[w] EXCEPT !.at = "ended"]]
              /\ UNCHANGED place
          BY <2>1, <3>2 DEF FindWork, Does
        <4> QED  BY <3>1, <4>1 DEF TypeOK, HeldOnce
      <3>3. CASE ~stop
        <4>1. PICK f \in Flows :
                 /\ place[f] \in {"injector"} \cup Workers
                 /\ place' = [place EXCEPT ![f] = "held"]
                 /\ worker' = [worker EXCEPT ![w] = [at |-> "drive", f |-> f]]
          BY <2>1, <3>3 DEF FindWork
        <4>2. place[f] # "held" /\ place[f] # "gone"
          BY <4>1, JoinAssumption
        <4>3. \A v \in Workers : worker[v].f # f
          BY <4>2 DEF HeldOnce
        <4>4. worker[w].f = Nobody
          BY <3>1 DEF TypeOK
        <4> QED  BY <3>1, <4>1, <4>2, <4>3, <4>4, JoinAssumption DEF TypeOK, HeldOnce
      <3> QED  BY <3>2, <3>3
    <2>2. CASE Continues(w) \/ (DriveTop(w) /\ ~stop)
      <3>1. PICK a : /\ worker' = [worker EXCEPT ![w] = [worker[w] EXCEPT !.at = a]]
                     /\ UNCHANGED <<place, slot>>
        BY <2>2 DEF Continues, DriveTop, Does, joinVars
      <3>2. \A v \in Workers : worker'[v].f = worker[v].f
        BY <3>1 DEF TypeOK
      <3> QED  BY <3>1, <3>2 DEF HeldOnce
    <2>3. ASSUME NEW to \in {w, "timer", "mailbox"}, LetsGo(w, to), UNCHANGED slot,
                 worker[w].at \in {"drive", "quantum"}
          PROVE  HeldOnce'
      BY <2>3, LetsGoEffect, JoinAssumption DEF LetsGo, NoFlow, TypeOK, HeldOnce
    <2>4. CASE Completes(w)
      BY <2>4, LetsGoEffect, JoinAssumption DEF Completes, LetsGo, NoFlow, TypeOK, HeldOnce
    <2>5. CASE DriveTop(w) /\ stop
      BY <2>3, <2>5 DEF DriveTop
    <2>6. ASSUME NEW to \in {w, "timer", "mailbox"}, Suspends(w, to)
          PROVE  HeldOnce'
      BY <2>3, <2>6 DEF Suspends
    <2> QED  BY <1>7, <2>1, <2>2, <2>4, <2>5, <2>6 DEF WorkerStep
  <1>8. CASE TimerTop \/ TimerTimeout
    BY <1>3, <1>8 DEF TimerTop, TimerTimeout
  <1>9. CASE TimerActs
    BY <1>9 DEF TimerActs, HeldOnce, TypeOK
  <1>10. CASE FlagTimer \/ NotifyTimer \/ JoinThreads \/ RequestShutdown \/ DropSpawner
    BY <1>3, <1>10 DEF FlagTimer, NotifyTimer, JoinThreads, RequestShutdown, DropSpawner
  <1>11. CASE DropShared
    BY <1>11, JoinAssumption DEF DropShared, Queued, HeldOnce, TypeOK
  <1>12. CASE UNCHANGED vars
    BY <1>3, <1>12 DEF vars
  <1> QED
    BY <1>2, <1>4, <1>5, <1>6, <1>7, <1>8, <1>9, <1>10, <1>11, <1>12
       DEF Next, TimerStep, HostStep

(* A deadline can only pass for a thread that has one, and a handle with a *)
(* thread inside join_deadline is not moved.                               *)
LEMMA LateStep ==
    ASSUME JoinInv, [Next]_vars
    PROVE  LateHasDeadline'
  <1> USE DEF JoinInv
  <1>1. ASSUME NEW j \in Joiners, NEW late \in BOOLEAN, Turn(j, late)
        PROVE  caller'[j] # "late" /\ \A i \in Joiners : i # j => caller'[i] = caller[i]
    BY <1>1, TurnEffect DEF TypeOK
  <1>2. ASSUME NEW j \in Joiners, Poll(j) \/ Collect(j)
        PROVE  LateHasDeadline'
    <2>1. (\E late \in BOOLEAN : Turn(j, late)) /\ UNCHANGED moved
      BY <1>2, Zenon DEF Poll, Collect
    <2> QED  BY <1>1, <2>1 DEF LateHasDeadline
  <1>3. ASSUME NEW j \in Joiners, JoinNow(j)
        PROVE  LateHasDeadline'
    <2>1. /\ caller'[j] # "late"
          /\ \A i \in Joiners : i # j => caller'[i] = caller[i]
      BY <1>1, <1>3 DEF JoinNow
    <2>2. /\ moved' = moved \cup {Target[j]}
          /\ \A i \in Joiners : Target[i] = Target[j] => caller[i] # "late"
      BY <1>3 DEF JoinNow, InCall
    <2> QED  BY <2>1, <2>2 DEF LateHasDeadline
  <1>4. ASSUME NEW j \in Joiners, Spurious(j) \/ Expire(j)
        PROVE  LateHasDeadline'
    BY <1>4 DEF Spurious, Expire, LateHasDeadline, TypeOK
  <1>5. ASSUME NEW f \in Flows, Notify(f)
        PROVE  LateHasDeadline'
    BY <1>5 DEF Notify, LateHasDeadline, TypeOK
  <1>6. ASSUME UNCHANGED <<caller, moved>>
        PROVE  LateHasDeadline'
    BY <1>6 DEF LateHasDeadline
  <1>7. ASSUME NEW f \in Flows, DropSender(f) \/ WakeParked(f) \/ Spawn(f)
        PROVE  LateHasDeadline'
    BY <1>6, <1>7 DEF DropSender, WakeParked, Spawn, joinVars
  <1>8. ASSUME NEW w \in Workers, WorkerStep(w)
        PROVE  LateHasDeadline'
    BY <1>6, <1>8 DEF WorkerStep, FindWork, DriveTop, Completes, Continues, Suspends, joinVars
  <1>9. CASE TimerStep \/ HostStep \/ RequestShutdown \/ DropSpawner
    BY <1>6, <1>9 DEF TimerStep, TimerTop, TimerActs, TimerTimeout, HostStep, FlagTimer,
                      NotifyTimer, JoinThreads, DropShared, RequestShutdown, DropSpawner,
                      joinVars
  <1>10. CASE UNCHANGED vars
    BY <1>6, <1>10 DEF vars
  <1> QED
    BY <1>2, <1>3, <1>4, <1>5, <1>7, <1>8, <1>9, <1>10 DEF Next

(* The inductive invariant of Join holds in every reachable state. *)
THEOREM JoinInvariant == Spec => []JoinInv
  <1>1. ASSUME Init
        PROVE  JoinInv
    <2>1. TypeOK
      BY <1>1 DEF Init, TypeOK, NoFlow, Answers
    <2>2. HeldOnce
      BY <1>1, JoinAssumption DEF Init, HeldOnce, NoFlow
    <2>3. LateHasDeadline
      BY <1>1 DEF Init, LateHasDeadline
    <2> QED  BY <2>1, <2>2, <2>3 DEF JoinInv
  <1>2. JoinInv /\ [Next]_vars => JoinInv'
    BY TypeStep, HeldStep, LateStep DEF JoinInv
  <1> QED  BY <1>1, <1>2, PTL DEF Spec

(* Every slot, thread and flow of Join stays in a state the code has. *)
THEOREM TypeCorrect == Spec => []TypeOK
  <1>1. JoinInv => TypeOK
    BY DEF JoinInv
  <1> QED  BY <1>1, JoinInvariant, PTL

(* A flow is in one place: at most one worker thread has it, it is queued  *)
(* nowhere meanwhile, and once it has settled no thread runs it again.     *)
THEOREM FlowsRunOnce == Spec => []RunsOnce
  <1>1. ASSUME HeldOnce, NEW f \in Flows
        PROVE  Cardinality(HeldBy(f)) <= 1
    <2>1. CASE HeldBy(f) = {}
      BY <2>1, FS_EmptySet
    <2>2. CASE HeldBy(f) # {}
      <3>1. PICK w : w \in HeldBy(f)
        BY <2>2
      <3>2. HeldBy(f) = {w}
        BY <1>1, <3>1 DEF HeldBy, HeldOnce
      <3>3. Cardinality({w}) = 1
        BY FS_Singleton
      <3> QED  BY <3>2, <3>3
    <2> QED  BY <2>1, <2>2
  <1>2. JoinInv => RunsOnce
    BY <1>1 DEF JoinInv, HeldOnce, RunsOnce, HeldBy
  <1> QED  BY <1>2, JoinInvariant, PTL

-----------------------------------------------------------------------------
(* The refinement.                                                         *)

(* A caller that is in a call looks the same asleep, awake or late. *)
LEMMA ViewOf ==
    ASSUME TypeOK, NEW j \in Joiners
    PROVE  /\ View[j] = IF ~InCall(j) THEN caller[j]
                        ELSE IF Target[j] \in moved THEN "joining" ELSE "waiting"
           /\ Contract!InCall(j) <=> InCall(j)
  <1>1. View[j] = IF ~InCall(j) THEN caller[j]
                  ELSE IF Target[j] \in moved THEN "joining" ELSE "waiting"
    BY DEF View
  <1>2. caller[j] \in {"away", "asleep", "awake", "late"} \cup Answers
    BY DEF TypeOK
  <1>3. ~InCall(j) => View[j] \notin {"waiting", "joining"}
    BY <1>1, <1>2 DEF InCall, Answers
  <1> QED  BY <1>1, <1>3 DEF Contract!InCall

(* Where the callers that are in a call stay in it, the contract sees nothing. *)
LEMMA ViewStutters ==
    ASSUME UNCHANGED <<slot, moved>>,
           \A j \in Joiners : \/ caller'[j] = caller[j]
                              \/ InCall(j) /\ InCall(j)'
    PROVE  UNCHANGED <<slot, moved, View>>
  <1>1. \A j \in Joiners : InCall(j)' <=> InCall(j)
    BY DEF InCall
  <1> QED  BY <1>1 DEF View

(* A thread's own turn changes what the contract sees of that thread only. *)
LEMMA ViewTurns ==
    ASSUME TypeOK, NEW j \in Joiners, NEW late \in BOOLEAN, Turn(j, late),
           \/ moved' = moved
           \/ /\ moved' = moved \cup {Target[j]}
              /\ \A i \in Joiners : Target[i] = Target[j] => ~InCall(i)
    PROVE  View' = [View EXCEPT ![j] =
                      IF caller'[j] = "asleep"
                      THEN IF Target[j] \in moved' THEN "joining" ELSE "waiting"
                      ELSE caller'[j]]
  <1>1. caller' = [caller EXCEPT ![j] = caller'[j]]
        /\ caller'[j] \in {"asleep"} \cup Answers
    BY TurnEffect DEF Answers
  <1>2. InCall(j)' <=> caller'[j] = "asleep"
    BY <1>1 DEF InCall, Answers
  <1>3. \A i \in Joiners : i # j => caller'[i] = caller[i] /\ (InCall(i)' <=> InCall(i))
    BY <1>1 DEF TypeOK, InCall
  <1>4. \A i \in Joiners : i # j /\ InCall(i) => (Target[i] \in moved' <=> Target[i] \in moved)
    OBVIOUS
  <1> QED  BY <1>2, <1>3, <1>4 DEF View

(* Every step of Join is a step of Handle, or one that Handle does not see. *)
LEMMA RefinementStep ==
    ASSUME JoinInv, [Next]_vars
    PROVE  [Contract!HandleNext]_(Contract!hvars)
  <1> USE DEF JoinInv
  <1>1. ASSUME UNCHANGED <<slot, moved, View>>
        PROVE  UNCHANGED Contract!hvars
    BY <1>1 DEF Contract!hvars
  <1>2. ASSUME UNCHANGED <<slot, moved, caller>>
        PROVE  UNCHANGED Contract!hvars
    BY <1>1, <1>2, ViewStutters
  <1>3. ASSUME NEW j \in Joiners, Poll(j)
        PROVE  Contract!Poll(j)
    <2>1. PICK late \in BOOLEAN : Turn(j, late)
      BY <1>3 DEF Poll
    <2>2. ~InCall(j) /\ Target[j] \notin moved /\ moved' = moved
      BY <1>3 DEF Poll, HasHandle
    <2>3. View' = [View EXCEPT ![j] = IF caller'[j] = "asleep" THEN "waiting"
                                      ELSE caller'[j]]
      BY <2>1, <2>2, ViewTurns
    <2>4. ~Contract!InCall(j)
      BY <2>2, ViewOf
    <2> QED  BY <2>1, <2>2, <2>3, <2>4, TurnEffect DEF Contract!Poll, Contract!Respond
  <1>4. ASSUME NEW j \in Joiners, JoinNow(j)
        PROVE  Contract!JoinNow(j)
    <2>1. /\ Target[j] \notin moved
          /\ \A i \in Joiners : Target[i] = Target[j] => ~InCall(i)
          /\ moved' = moved \cup {Target[j]}
          /\ Turn(j, FALSE)
      BY <1>4 DEF JoinNow, HasHandle
    <2>2. View' = [View EXCEPT ![j] = IF caller'[j] = "asleep" THEN "joining"
                                      ELSE caller'[j]]
      BY <2>1, ViewTurns
    <2>3. \A i \in Joiners : Target[i] = Target[j] => ~Contract!InCall(i)
      BY <2>1, ViewOf
    <2> QED  BY <2>1, <2>2, <2>3, TurnEffect DEF Contract!JoinNow, Contract!Respond
  <1>5. ASSUME NEW j \in Joiners, Collect(j)
        PROVE  \/ Contract!Answer(j) \/ Contract!GiveUp(j)
               \/ UNCHANGED Contract!hvars
    <2>1. moved' = moved /\ InCall(j)
      BY <1>5 DEF Collect, InCall
    <2>2. PICK late \in BOOLEAN : Turn(j, late) /\ (late => caller[j] = "late")
      BY <1>5 DEF Collect
    <2>3. View' = [View EXCEPT ![j] =
                      IF caller'[j] = "asleep"
                      THEN IF Target[j] \in moved THEN "joining" ELSE "waiting"
                      ELSE caller'[j]]
      BY <2>1, <2>2, ViewTurns
    <2>4. Contract!InCall(j)
      BY <2>1, ViewOf
    <2>5. CASE slot[Target[j]] # "pending"
      <3>1. Contract!Respond(j)
        BY <2>2, <2>3, <2>5, TurnEffect DEF Contract!Respond
      <3> QED  BY <2>1, <2>4, <3>1 DEF Contract!Answer
    <2>6. CASE slot[Target[j]] = "pending" /\ late
      <3>1. caller'[j] = "timeout" /\ slot' = slot
        BY <2>2, <2>6, TurnEffect
      <3>2. View[j] = "waiting"
        BY <2>1, <2>2, <2>6, ViewOf DEF LateHasDeadline
      <3> QED  BY <2>1, <2>3, <2>6, <3>1, <3>2 DEF Contract!GiveUp
    <2>7. CASE slot[Target[j]] = "pending" /\ ~late
      <3>1. caller'[j] = "asleep" /\ slot' = slot
            /\ caller' = [caller EXCEPT ![j] = caller'[j]]
        BY <2>2, <2>7, TurnEffect
      <3>2. \A i \in Joiners : caller'[i] = caller[i] \/ (InCall(i) /\ InCall(i)')
        BY <2>1, <3>1 DEF InCall, TypeOK
      <3> QED  BY <1>1, <2>1, <3>1, <3>2, ViewStutters
    <2> QED  BY <2>5, <2>6, <2>7
  <1>6. ASSUME NEW j \in Joiners, Spurious(j) \/ Expire(j)
        PROVE  UNCHANGED Contract!hvars
    <2>1. \A i \in Joiners : caller'[i] = caller[i] \/ (InCall(i) /\ InCall(i)')
      BY <1>6 DEF Spurious, Expire, InCall, TypeOK
    <2>2. UNCHANGED <<slot, moved>>
      BY <1>6 DEF Spurious, Expire
    <2> QED  BY <1>1, <2>1, <2>2, ViewStutters
  <1>7. ASSUME NEW f \in Flows, Notify(f)
        PROVE  UNCHANGED Contract!hvars
    <2>1. \A i \in Joiners : caller'[i] = caller[i] \/ (InCall(i) /\ InCall(i)')
      BY <1>7 DEF Notify, InCall, TypeOK
    <2>2. UNCHANGED <<slot, moved>>
      BY <1>7 DEF Notify
    <2> QED  BY <1>1, <2>1, <2>2, ViewStutters
  <1>8. ASSUME UNCHANGED <<moved, caller>>
        PROVE  UNCHANGED <<moved, View>>
    BY <1>8 DEF View, InCall
  <1>9. ASSUME NEW f \in Flows, DropSender(f)
        PROVE  Contract!Settle(f, "abandoned")
    <2>1. slot[f] = "pending" /\ slot' = [slot EXCEPT ![f] = "abandoned"]
      BY <1>9 DEF DropSender, HeldOnce
    <2>2. UNCHANGED <<moved, View>>
      BY <1>8, <1>9 DEF DropSender
    <2> QED  BY <2>1, <2>2 DEF Contract!Settle
  <1>10. ASSUME NEW w \in Workers, Completes(w)
         PROVE  worker[w].f \in Flows /\ Contract!Settle(worker[w].f, "ready")
    <2>1. worker[w].f \in Flows /\ slot[worker[w].f] = "pending"
      BY <1>10, LetsGoEffect DEF Completes
    <2>2. slot' = [slot EXCEPT ![worker[w].f] = "ready"] /\ UNCHANGED <<moved, View>>
      BY <1>8, <1>10 DEF Completes
    <2> QED  BY <2>1, <2>2 DEF Contract!Settle
  <1>11. ASSUME NEW w \in Workers, WorkerStep(w), ~Completes(w)
         PROVE  UNCHANGED Contract!hvars
    BY <1>2, <1>11 DEF WorkerStep, FindWork, DriveTop, Continues, Suspends, joinVars
  <1>12. ASSUME NEW f \in Flows, WakeParked(f) \/ Spawn(f)
         PROVE  UNCHANGED Contract!hvars
    BY <1>2, <1>12 DEF WakeParked, Spawn, joinVars
  <1>13. CASE TimerStep \/ HostStep \/ RequestShutdown \/ DropSpawner
    BY <1>2, <1>13 DEF TimerStep, TimerTop, TimerActs, TimerTimeout, HostStep, FlagTimer,
                       NotifyTimer, JoinThreads, DropShared, RequestShutdown, DropSpawner,
                       joinVars
  <1>14. CASE UNCHANGED vars
    BY <1>2, <1>14 DEF vars
  <1> QED
    BY <1>3, <1>4, <1>5, <1>6, <1>7, <1>9, <1>10, <1>11, <1>12, <1>13, <1>14
       DEF Next, Contract!HandleNext

(* The oneshot slot, its mutex and its condition variable implement what a *)
(* FlowHandle promises: a flow settles once, its outcome is handed out     *)
(* once, and only a caller with a deadline gives up.                       *)
THEOREM ImplementsHandle == Spec => Contract!HandleSafety
  <1>1. Init => Contract!HandleInit
    BY DEF Init, Contract!HandleInit, View, InCall
  <1>2. JoinInv /\ [Next]_vars => [Contract!HandleNext]_(Contract!hvars)
    BY RefinementStep
  <1> QED  BY <1>1, <1>2, JoinInvariant, PTL DEF Spec, Contract!HandleSafety
=============================================================================
