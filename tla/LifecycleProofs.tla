-------------------------- MODULE LifecycleProofs ---------------------------
(***************************************************************************)
(* Machine-checked proofs about Lifecycle, for every value of its          *)
(* constants.                                                              *)
(***************************************************************************)
EXTENDS Lifecycle, DataLemmas

-----------------------------------------------------------------------------
(* The inductive invariant                                                 *)

\* Where the worker needs the operands it resolved, they are there; and no
\* program sends a DOWN.
OpInv ==
    \A f \in Flows :
        /\ \/ cpu[f] \in {"tryReply", "index", "parkAsk", "monitor", "link"}
           \/ cpu[f] = "deliver" /\ op[f].hop.tag = "request"
           => op[f].to \in Flows
        /\ op[f].hop.tag # "down"

\* Finalization in its order: Caps, then the directory, then the notices; and
\* only a finalizer that has collected its links kills.
FinInv ==
    /\ \A f \in Flows :
         /\ fin[f].pc = "none" => fin[f].work = <<>>
         /\ fin[f].pc = "down" => fin[f].rest \subseteq Monitors
         /\ fin[f].pc \in {"unregister", "owned", "notify", "down", "peers"} => f \in revoked
         /\ fin[f].pc \in {"owned", "notify", "down", "peers"} => f \notin registered
         /\ f \notin registered =>
              \/ fin[f].pc \in {"owned", "notify", "down", "peers"}
              \/ outcome[f] # NotYet
    /\ \A k \in Flows : extract[k].pc # "idle" => fin[k].pc = "peers"

\* A flow is on one work list at most, and there once.
WorkInv ==
    /\ \A f \in Flows : IsInjective(fin[f].work)
    /\ \A f, g \in Flows : f # g => ToSet(fin[f].work) \cap ToSet(fin[g].work) = {}

\* Exactly one of seven.
ExactlyOne(r, c, p, s, e, q, o) ==
    /\ r \/ c \/ p \/ s \/ e \/ q \/ o
    /\ r => ~c /\ ~p /\ ~s /\ ~e /\ ~q /\ ~o
    /\ c => ~p /\ ~s /\ ~e /\ ~q /\ ~o
    /\ p => ~s /\ ~e /\ ~q /\ ~o
    /\ s => ~e /\ ~q /\ ~o
    /\ e => ~q /\ ~o
    /\ q => ~o

\* OnePlace, without counting.
PlaceInv ==
    \A f \in Flows :
        ExactlyOne(f \in ready, cpu[f] # "none", f \in parked, f \in sleeping,
                   fin[f].pc # "none", f \in Queued, outcome[f] # NotYet)

\* f has collected its links; and it ended, or is ending, abnormally.
LinksTaken(f) == fin[f].pc = "peers" \/ outcome[f] # NotYet
Abnormal(f) ==
    \/ fin[f].pc = "peers" /\ IsAbnormal(fin[f].reason)
    \/ outcome[f] # NotYet /\ IsAbnormal(outcome[f])

\* p has ended, is ending or will, or f's finalizer is yet to see to it.
Doomed(f, p) ==
    \/ Gone(p)
    \/ signals[p] # NoSignal
    \/ /\ fin[f].pc = "peers"
       /\ p \in fin[f].rest \/ (extract[f].pc = "set" /\ extract[f].target = p)

\* A link that is neither in the table nor withdrawn was taken by a side that
\* ended, and an abnormal end is on its way to the other.
LinkInv ==
    \A f, p \in Flows :
        f # p /\ {f, p} \in tied \ links =>
            /\ LinksTaken(f) \/ LinksTaken(p)
            /\ LinksTaken(f) /\ Abnormal(f) => Doomed(f, p)

LifeInv ==
    /\ TypeOK /\ OpInv /\ FinInv /\ WorkInv /\ PlaceInv
    /\ DownAfterGone /\ LinkInv

-----------------------------------------------------------------------------
(* What the operators do                                                   *)

Filters == [kind : {"Any", "Reply"}, rid : Nat, sender : Flows \cup {NoFlow}]
Operands == [to : Flows \cup {NoFlow}, hop : Hops, timed : BOOLEAN]

\* The hops f holds: the one its program has, and those in its inbox.
HeldBy(f) == {resumed[f]} \cup ToSet(inbox[f])

\* Types of the mailboxes, and of what their owners have received.
MailTypes ==
    /\ parked \subseteq Flows
    /\ wait \in [Flows -> Filters]
    /\ epoch \in [Flows -> Nat]
    /\ inbox \in [Flows -> Seq(Hops)]
    /\ resumed \in [Flows -> Hops]
    /\ todo \in [Flows -> SUBSET Hops]

(* Vm::resume_with changes one flow's registers. *)
LEMMA ResumeProperties ==
    ASSUME resumed \in [Flows -> Hops], todo \in [Flows -> SUBSET Hops],
           NEW f \in Flows, NEW h \in Hops, Resume(f, h)
    PROVE  /\ resumed' \in [Flows -> Hops]
           /\ todo' \in [Flows -> SUBSET Hops]
           /\ resumed'[f] = h
           /\ \A g \in Flows : g # f => resumed'[g] = resumed[g]
  <1>1. /\ resumed' = [resumed EXCEPT ![f] = h]
        /\ todo' = [todo EXCEPT ![f] = @ \cup {h}] \/ todo' = todo
    BY DEF Resume
  <1> QED  BY <1>1

(* A hop that is popped was held before. *)
LEMMA PopMatchProperties ==
    ASSUME MailTypes, NEW f \in Flows, NEW w, PopMatch(f, w)
    PROVE  /\ wait' \in [Flows -> Filters]
           /\ inbox' \in [Flows -> Seq(Hops)]
           /\ resumed' \in [Flows -> Hops]
           /\ todo' \in [Flows -> SUBSET Hops]
           /\ \A g \in Flows : HeldBy(g)' \subseteq HeldBy(g)
  <1>1. PICK i \in DOMAIN inbox[f] :
          /\ inbox' = [inbox EXCEPT ![f] = RemoveAt(@, i)]
          /\ wait' = [wait EXCEPT ![f] = AnyHop]
          /\ Resume(f, inbox[f][i])
    BY DEF PopMatch
  <1> DEFINE q == inbox[f]
             h == q[i]
             r == RemoveAt(q, i)
  <1>2. q \in Seq(Hops)
    BY DEF MailTypes
  <1>3. /\ Len(q) \in Nat /\ DOMAIN q = 1 .. Len(q)
        /\ \A x : x \in ToSet(q) <=> \E j \in 1 .. Len(q) : q[j] = x
        /\ ToSet(q) \subseteq Hops
    BY <1>2, ToSetMember
  <1>4. h \in ToSet(q) /\ h \in Hops
    BY <1>3
  <1>5. /\ r \in Seq(Hops)
        /\ ToSet(r) \subseteq ToSet(q)
    <2>1. i \in 1 .. Len(q)
      BY <1>3
    <2>2. /\ r \in Seq(Hops)
          /\ Len(r) = Len(q) - 1
          /\ \A j \in 1 .. (Len(q) - 1) : r[j] = IF j < i THEN q[j] ELSE q[j + 1]
      BY <1>2, <2>1, RemoveAtProperties
    <2>3. \A x : x \in ToSet(r) <=> \E j \in 1 .. Len(r) : r[j] = x
      BY <2>2, ToSetMember
    <2>4. \A j \in 1 .. Len(r) : j \in 1 .. Len(q) /\ j + 1 \in 1 .. Len(q)
      BY <1>3, <2>2
    <2> HIDE DEF q, r
    <2>5. \A j \in 1 .. Len(r) : r[j] = q[j] \/ r[j] = q[j + 1]
      BY <2>2
    <2> QED  BY <1>3, <2>2, <2>3, <2>4, <2>5
  <1>6. /\ resumed' \in [Flows -> Hops]
        /\ todo' \in [Flows -> SUBSET Hops]
        /\ resumed'[f] = h
        /\ \A g \in Flows : g # f => resumed'[g] = resumed[g]
    BY <1>1, <1>4, ResumeProperties DEF MailTypes
  <1>7. inbox' = [inbox EXCEPT ![f] = r]
    BY <1>1
  <1> HIDE DEF r, h, q
  <1>8. /\ inbox' \in [Flows -> Seq(Hops)]
        /\ inbox'[f] = r
        /\ \A g \in Flows : g # f => inbox'[g] = inbox[g]
    BY <1>5, <1>7 DEF MailTypes
  <1>9. wait' \in [Flows -> Filters]
    BY <1>1 DEF MailTypes, Filters, AnyHop
  <1>10. \A g \in Flows : HeldBy(g)' \subseteq HeldBy(g)
    BY <1>4, <1>5, <1>6, <1>8 DEF HeldBy, q
  <1> QED  BY <1>6, <1>8, <1>9, <1>10

(* Taking a flow out of its mailbox. *)
LEMMA TakeParkedProperties ==
    ASSUME MailTypes, NEW t, TakeParked(t)
    PROVE  /\ t \in Flows
           /\ parked' \subseteq Flows
           /\ wait' \in [Flows -> Filters]
  BY DEF MailTypes, TakeParked, Filters, AnyHop

(* A push hands the hop to a flow that is parked for it, or queues it. *)
LEMMA PushToProperties ==
    ASSUME MailTypes, NEW t \in Flows, NEW h \in Hops,
           NEW cpu0 \in [Flows -> CpuStates], PushTo(t, h, cpu0)
    PROVE  /\ parked' \subseteq Flows
           /\ wait' \in [Flows -> Filters]
           /\ inbox' \in [Flows -> Seq(Hops)]
           /\ resumed' \in [Flows -> Hops]
           /\ todo' \in [Flows -> SUBSET Hops]
           /\ cpu' \in [Flows -> CpuStates]
           /\ \A g \in Flows : HeldBy(g)' \subseteq HeldBy(g) \cup {h}
           /\ \/ t \in parked /\ parked' = parked \ {t} /\ cpu' = [cpu0 EXCEPT ![t] = "unindex"]
              \/ parked' = parked /\ cpu' = cpu0
  <1>1. CASE /\ TakeParked(t) /\ Resume(t, h)
             /\ cpu' = [cpu0 EXCEPT ![t] = "unindex"]
             /\ inbox' = inbox
    <2>1. /\ resumed' \in [Flows -> Hops]
          /\ todo' \in [Flows -> SUBSET Hops]
          /\ resumed'[t] = h
          /\ \A g \in Flows : g # t => resumed'[g] = resumed[g]
      BY <1>1, ResumeProperties DEF MailTypes
    <2>2. cpu' \in [Flows -> CpuStates]
      BY <1>1 DEF CpuStates
    <2>3. \A g \in Flows : HeldBy(g)' \subseteq HeldBy(g) \cup {h}
      BY <1>1, <2>1 DEF HeldBy
    <2>4. t \in parked /\ parked' = parked \ {t} /\ wait' \in [Flows -> Filters]
      BY <1>1, TakeParkedProperties DEF TakeParked
    <2> QED  BY <1>1, <2>1, <2>2, <2>3, <2>4 DEF MailTypes
  <1>2. CASE /\ inbox' = [inbox EXCEPT ![t] = Append(@, h)]
             /\ cpu' = cpu0
             /\ UNCHANGED <<parked, wait, resumed, todo>>
    <2>1. inbox[t] \in Seq(Hops)
      BY DEF MailTypes
    <2>2. /\ Append(inbox[t], h) \in Seq(Hops)
          /\ ToSet(Append(inbox[t], h)) = ToSet(inbox[t]) \cup {h}
      BY <2>1, AppendToSet
    <2>3. /\ inbox' \in [Flows -> Seq(Hops)]
          /\ inbox'[t] = Append(inbox[t], h)
          /\ \A g \in Flows : g # t => inbox'[g] = inbox[g]
      BY <1>2, <2>2 DEF MailTypes
    <2>4. \A g \in Flows : HeldBy(g)' \subseteq HeldBy(g) \cup {h}
      BY <1>2, <2>2, <2>3 DEF HeldBy
    <2> QED  BY <1>2, <2>3, <2>4 DEF MailTypes
  <1> QED  BY <1>1, <1>2 DEF PushTo

(* An operation on a Cap goes on, or ends the flow. *)
LEMMA PresentProperties ==
    ASSUME NEW f, NEW t, NEW next, NEW operands, Present(f, t, next, operands)
    PROVE  \/ Finish(f, "Fault") /\ op' = op /\ t \in revoked
           \/ /\ t \notin revoked
              /\ cpu' = [cpu EXCEPT ![f] = next]
              /\ op' = [op EXCEPT ![f] = operands]
              /\ fin' = fin
  BY DEF Present

-----------------------------------------------------------------------------
(* The invariant holds at the start                                        *)

(* Every flow waits for its first quantum, in a run queue. *)
LEMMA LifeInvInit ==
    ASSUME Init PROVE LifeInv
  <1>0. /\ ToSet(<<>>) = {} /\ IsInjective(<<>>)
        /\ <<>> \in Seq(Flows) /\ <<>> \in Seq(Hops)
    BY ToSetEmpty
  <1>1. fin = [f \in Flows |-> [pc |-> "none", reason |-> "Normal", rest |-> {}, work |-> <<>>]]
    BY DEF Init, NotEnding
  <1>2. fin \in [Flows -> [pc : FinPcs \cup {"none"}, reason : Reasons,
                           rest : SUBSET (Flows \cup Monitors), work : Seq(Flows)]]
    BY <1>0, <1>1 DEF Reasons
  <1>3. op \in [Flows -> [to : Flows \cup {NoFlow}, hop : Hops, timed : BOOLEAN]]
    <2>1. [tag |-> "none", rid |-> 0, sender |-> NoFlow] \in Hops
      BY DEF Hops, HopTags
    <2>2. op = [f \in Flows |-> [to |-> NoFlow, timed |-> FALSE,
                                 hop |-> [tag |-> "none", rid |-> 0, sender |-> NoFlow]]]
      BY DEF Init, Nothing, Hop
    <2> QED  BY <2>1, <2>2
  <1>4. /\ resumed \in [Flows -> Hops]
        /\ inbox \in [Flows -> Seq(Hops)]
        /\ wait \in [Flows -> [kind : {"Any", "Reply"}, rid : Nat, sender : Flows \cup {NoFlow}]]
    BY <1>0 DEF Init, Hop, Hops, HopTags, AnyHop
  <1>5. /\ signals \in [Flows -> Reasons \cup {NoSignal}]
        /\ extract \in [Threads -> [pc : {"idle", "set", "take"}, target : Flows \cup {NoFlow}]]
        /\ outcome \in [Flows -> Reasons \cup {NotYet}]
        /\ cpu \in [Flows -> CpuStates]
    BY DEF Init, Idle, CpuStates
  <1>6. /\ asks \in [Flows -> 0 .. MaxAsks]
        /\ nextMonitor \in Nat
        /\ epoch \in [Flows -> Nat]
    BY LifecycleAssumption DEF Init
  <1>7. /\ askWaits \in [Flows -> Flows \cup {NoFlow}]
        /\ todo \in [Flows -> SUBSET Hops]
        /\ ready \subseteq Flows /\ parked \subseteq Flows /\ sleeping \subseteq Flows
        /\ checks \subseteq [asker : Flows, target : Flows, epoch : Nat,
                             timed : BOOLEAN, gone : BOOLEAN]
        /\ deadlines \subseteq [asker : Flows, epoch : Nat]
        /\ spared \subseteq Killable /\ registered \subseteq Flows /\ revoked \subseteq Flows
        /\ monitors \subseteq Monitors /\ links \subseteq SUBSET Flows
        /\ settled \subseteq Nat /\ tied \subseteq SUBSET Flows
    BY DEF Init
  <1>8. TypeOK
    BY <1>2, <1>3, <1>4, <1>5, <1>6, <1>7, Zenon DEF TypeOK
  <1>9. OpInv
    BY DEF Init, OpInv, Nothing, Hop
  <1>10. FinInv
    BY <1>1 DEF Init, FinInv, Threads, Idle
  <1>11. WorkInv /\ Queued = {}
    BY <1>0, <1>1 DEF WorkInv, Queued
  <1>12. PlaceInv
    BY <1>1, <1>11 DEF Init, PlaceInv, ExactlyOne
  <1>13. DownAfterGone
    BY <1>0 DEF Init, DownAfterGone, Hop
  <1>14. LinkInv
    BY DEF Init, LinkInv
  <1> QED  BY <1>8, <1>9, <1>10, <1>11, <1>12, <1>13, <1>14 DEF LifeInv

-----------------------------------------------------------------------------
(* The mailboxes                                                           *)

\* A hop that is new in f's hands is no DOWN, unless its sender is at the step
\* that sends them.
NewsInOrder ==
    \A g \in Flows : \A h \in HeldBy(g)' :
        \/ h \in HeldBy(g)
        \/ h.tag # "down"
        \/ h.sender \in Flows /\ fin[h.sender].pc = "down"

(* The mailboxes keep their types, and only deliver_down makes a DOWN. *)
LEMMA MailStep ==
    ASSUME TypeOK, OpInv, FinInv, [Next]_vars
    PROVE  MailTypes' /\ NewsInOrder
  <1>0. /\ MailTypes
        /\ cpu \in [Flows -> CpuStates]
        /\ op \in [Flows -> Operands]
        /\ registered \subseteq Flows
        /\ checks \subseteq [asker : Flows, target : Flows, epoch : Nat,
                             timed : BOOLEAN, gone : BOOLEAN]
        /\ deadlines \subseteq [asker : Flows, epoch : Nat]
        /\ asks \in [Flows -> 0 .. MaxAsks]
        /\ fin \in [Flows -> [pc : FinPcs \cup {"none"}, reason : Reasons,
                              rest : SUBSET (Flows \cup Monitors), work : Seq(Flows)]]
    BY DEF TypeOK, MailTypes, Operands, Filters
  <1> DEFINE Goal == MailTypes' /\ NewsInOrder
  <1>1. ASSUME UNCHANGED <<parked, wait, epoch, inbox, resumed, todo>> PROVE Goal
    BY <1>0, <1>1 DEF MailTypes, NewsInOrder, HeldBy
  <1>2. ASSUME UNCHANGED <<inbox, resumed>> PROVE NewsInOrder
    BY <1>2 DEF NewsInOrder, HeldBy
  <1>3. ASSUME NEW f \in Flows, NEW w, PopMatch(f, w), UNCHANGED <<parked, epoch>> PROVE Goal
    <2>1. /\ wait' \in [Flows -> Filters]
          /\ inbox' \in [Flows -> Seq(Hops)]
          /\ resumed' \in [Flows -> Hops]
          /\ todo' \in [Flows -> SUBSET Hops]
          /\ \A g \in Flows : HeldBy(g)' \subseteq HeldBy(g)
      BY <1>0, <1>3, PopMatchProperties
    <2> QED  BY <1>0, <1>3, <2>1 DEF MailTypes, NewsInOrder
  <1>4. ASSUME NEW t, NEW h \in Hops, h.tag # "down", TakeParked(t), Resume(t, h),
               UNCHANGED <<epoch, inbox>>
        PROVE  Goal
    <2>1. t \in Flows /\ parked' \subseteq Flows /\ wait' \in [Flows -> Filters]
      BY <1>0, <1>4, TakeParkedProperties
    <2>2. /\ resumed' \in [Flows -> Hops]
          /\ todo' \in [Flows -> SUBSET Hops]
          /\ resumed'[t] = h
          /\ \A g \in Flows : g # t => resumed'[g] = resumed[g]
      BY <1>0, <1>4, <2>1, ResumeProperties DEF MailTypes
    <2>3. NewsInOrder
      BY <1>4, <2>2 DEF NewsInOrder, HeldBy
    <2> QED  BY <1>0, <1>4, <2>1, <2>2, <2>3 DEF MailTypes
  <1>5. \A g \in Flows : /\ Hop("exit", 0, g) \in Hops /\ Hop("exit", 0, g).tag # "down"
                         /\ Hop("timeout", 0, NoFlow) \in Hops
                         /\ Hop("timeout", 0, NoFlow).tag # "down"
    BY DEF Hop, Hops, HopTags
  <1>6. ASSUME NEW f \in Flows,
               \/ RunQuantum(f) \/ Yield(f) \/ Sleep(f) \/ WakeSleeper(f) \/ Complete(f)
               \/ Unindex(f) \/ IndexAsk(f) \/ CreateMonitor(f) \/ Demonitor(f)
               \/ CreateLink(f)
        PROVE  Goal
    BY <1>1, <1>6 DEF RunQuantum, Yield, Sleep, WakeSleeper, Complete, Unindex, IndexAsk,
                      CreateMonitor, Demonitor, CreateLink, mailVars
  <1>7. ASSUME NEW f \in Flows,
               \/ FinSignal(f) \/ FinAsker(f) \/ FinOrphans(f) \/ FinRevoke(f)
               \/ FinUnregister(f) \/ FinOwned(f) \/ FinNotify(f) \/ FinLinks(f)
               \/ FinPeer(f) \/ FinComplete(f)
        PROVE  Goal
    BY <1>1, <1>7 DEF FinSignal, FinAsker, FinOrphans, FinRevoke, FinUnregister, FinOwned,
                      FinNotify, FinLinks, FinPeer, FinComplete, mailVars, runVars
  <1>8. ASSUME NEW f \in Flows, NEW t, Monitor(f, t) \/ Link(f, t) PROVE Goal
    BY <1>1, <1>8 DEF Monitor, Link, Relate, mailVars
  <1>9. ASSUME NEW f \in Flows, NEW pair, Unlink(f, pair) PROVE Goal
    BY <1>1, <1>9 DEF Unlink, mailVars
  <1>10. ASSUME NEW c, CheckTarget(c) PROVE Goal
    BY <1>1, <1>10 DEF CheckTarget, runVars, mailVars
  <1>11. ASSUME NEW p, Kill(p) \/ SetSignal(p) PROVE Goal
    BY <1>1, <1>11 DEF Kill, SetSignal, runVars, mailVars
  <1>12. CASE UNCHANGED vars
    BY <1>1, <1>12 DEF vars, runVars, mailVars
  <1>13. ASSUME NEW f \in Flows, Receive(f) PROVE Goal
    <2>1. CASE PopMatch(f, AnyHop)
      BY <1>3, <1>13, <2>1 DEF Receive
    <2>2. CASE UNCHANGED <<wait, inbox, resumed, todo>>
      BY <1>1, <1>13, <2>2 DEF Receive
    <2> QED  BY <1>13, <2>1, <2>2 DEF Receive
  <1>14. ASSUME NEW f \in Flows, TryReply(f) PROVE Goal
    <2>1. CASE PopMatch(f, wait[f])
      BY <1>3, <1>14, <2>1 DEF TryReply
    <2>2. CASE UNCHANGED <<wait, inbox, resumed, todo>>
      BY <1>1, <1>14, <2>2 DEF TryReply
    <2> QED  BY <1>14, <2>1, <2>2 DEF TryReply
  <1>15. ASSUME NEW f \in Flows, ParkReceive(f) \/ ParkAsk(f) PROVE Goal
    <2>1. CASE PopMatch(f, wait[f]) /\ UNCHANGED <<parked, epoch>>
      BY <1>3, <2>1
    <2>2. CASE /\ parked' = parked \cup {f}
               /\ epoch' = [epoch EXCEPT ![f] = @ + 1]
               /\ UNCHANGED <<wait, inbox, resumed, todo>>
      <3>1. parked' \subseteq Flows /\ epoch' \in [Flows -> Nat]
        BY <1>0, <2>2 DEF MailTypes
      <3> QED  BY <1>0, <1>2, <2>2, <3>1 DEF MailTypes
    <2> QED  BY <1>15, <2>1, <2>2 DEF ParkReceive, ParkAsk
  <1>16. ASSUME NEW f \in Flows, NEW t \in Flows, NEW timed, Ask(f, t, timed) PROVE Goal
    <2>1. /\ UNCHANGED <<parked, epoch, inbox, resumed, todo>>
          /\ wait' = wait \/ wait' = [wait EXCEPT ![f] = ReplyTo(asks[f] + 1, t)]
      BY <1>16 DEF Ask
    <2>2. ReplyTo(asks[f] + 1, t) \in Filters
      BY <1>0, LifecycleAssumption DEF ReplyTo, Filters
    <2>3. wait' \in [Flows -> Filters]
      BY <1>0, <2>1, <2>2 DEF MailTypes
    <2> QED  BY <1>0, <1>2, <2>1, <2>3 DEF MailTypes
  <1>17. ASSUME NEW f \in Flows, NEW r \in todo[f], Answer(f, r) PROVE Goal
    <2>1. /\ UNCHANGED <<parked, wait, epoch, inbox, resumed>>
          /\ todo' = [todo EXCEPT ![f] = @ \ {r}]
      BY <1>17 DEF Answer, mailVars
    <2>2. todo' \in [Flows -> SUBSET Hops]
      BY <1>0, <2>1 DEF MailTypes
    <2> QED  BY <1>0, <1>2, <2>1, <2>2 DEF MailTypes
  <1>18. ASSUME NEW f \in Flows, Deliver(f) PROVE Goal
    <2> DEFINE h == op[f].hop
               after == [cpu EXCEPT ![f] = IF h.tag = "request" THEN "tryReply" ELSE "run"]
    <2>1. CASE op[f].to \in registered
      <3>1. PushTo(op[f].to, h, after) /\ epoch' = epoch
        BY <1>18, <2>1 DEF Deliver
      <3>2. h \in Hops /\ h.tag # "down" /\ after \in [Flows -> CpuStates]
        BY <1>0 DEF Operands, OpInv, CpuStates
      <3> HIDE DEF h, after
      <3>3. /\ parked' \subseteq Flows
            /\ wait' \in [Flows -> Filters]
            /\ inbox' \in [Flows -> Seq(Hops)]
            /\ resumed' \in [Flows -> Hops]
            /\ todo' \in [Flows -> SUBSET Hops]
            /\ \A g \in Flows : HeldBy(g)' \subseteq HeldBy(g) \cup {h}
        BY <1>0, <2>1, <3>1, <3>2, PushToProperties
      <3> QED  BY <1>0, <3>1, <3>2, <3>3 DEF MailTypes, NewsInOrder
    <2>2. CASE op[f].to \notin registered
      BY <1>1, <1>18, <2>2 DEF Deliver
    <2> QED  BY <2>1, <2>2
  <1>19. ASSUME NEW c \in checks, WakeSelf(c) PROVE Goal
    <2>1. c.target \in Flows
      BY <1>0
    <2>2. CASE TakeParked(c.asker) /\ Resume(c.asker, Hop("exit", 0, c.target))
      BY <1>4, <1>5, <1>19, <2>1, <2>2 DEF WakeSelf
    <2>3. CASE UNCHANGED <<parked, wait, resumed, todo, cpu>>
      BY <1>1, <1>19, <2>3 DEF WakeSelf
    <2> QED  BY <1>19, <2>2, <2>3 DEF WakeSelf
  <1>20. ASSUME NEW d \in deadlines, FireDeadline(d) PROVE Goal
    <2>1. CASE TakeParked(d.asker) /\ Resume(d.asker, Hop("timeout", 0, NoFlow))
      <3>1. d.asker \in Flows
        BY <1>0
      <3> QED  BY <1>4, <1>5, <1>20, <2>1, <3>1 DEF FireDeadline
    <2>2. CASE UNCHANGED <<parked, wait, resumed, todo, cpu>>
      BY <1>1, <1>20, <2>2 DEF FireDeadline
    <2> QED  BY <1>20, <2>1, <2>2 DEF FireDeadline
  <1>21. ASSUME NEW k \in Threads, Extract(k) PROVE Goal
    <2>1. UNCHANGED <<todo, epoch, inbox, resumed>>
      BY <1>21 DEF Extract, runVars
    <2>2. CASE TakeParked(extract[k].target)
      BY <1>0, <1>2, <2>1, <2>2, TakeParkedProperties DEF MailTypes
    <2>3. CASE UNCHANGED <<parked, wait, fin>>
      BY <1>1, <2>1, <2>3
    <2> QED  BY <1>21, <2>2, <2>3 DEF Extract
  <1>22. ASSUME NEW f \in Flows, FinWake(f) PROVE Goal
    <2>1. PICK a \in fin[f].rest :
             \/ /\ TakeParked(a)
                /\ Resume(a, Hop("exit", 0, f))
             \/ UNCHANGED <<parked, wait, resumed, todo, ready>>
      BY <1>22 DEF FinWake
    <2>2. UNCHANGED <<epoch, inbox>>
      BY <1>22 DEF FinWake
    <2> QED  BY <1>1, <1>4, <1>5, <2>1, <2>2
  <1>23. ASSUME NEW f \in Flows, FinDown(f) PROVE Goal
    <2>1. PICK m \in fin[f].rest :
             \/ m.owner \in registered /\ PushTo(m.owner, Hop("down", m.ref, f), cpu)
             \/ UNCHANGED <<parked, wait, inbox, resumed, todo, cpu, settled>>
      BY <1>23 DEF FinDown
    <2>2. fin[f].pc = "down" /\ epoch' = epoch
      BY <1>23 DEF FinDown
    <2>3. m \in Monitors
      BY <2>2 DEF FinInv
    <2> DEFINE h == Hop("down", m.ref, f)
    <2>4. h \in Hops /\ h.sender = f
      BY <2>3 DEF Hop, Hops, HopTags, Monitors
    <2> HIDE DEF h
    <2>5. CASE m.owner \in registered /\ PushTo(m.owner, h, cpu)
      <3>1. /\ parked' \subseteq Flows
            /\ wait' \in [Flows -> Filters]
            /\ inbox' \in [Flows -> Seq(Hops)]
            /\ resumed' \in [Flows -> Hops]
            /\ todo' \in [Flows -> SUBSET Hops]
            /\ \A g \in Flows : HeldBy(g)' \subseteq HeldBy(g) \cup {h}
        BY <1>0, <2>4, <2>5, PushToProperties
      <3> QED  BY <1>0, <2>2, <2>4, <3>1 DEF MailTypes, NewsInOrder
    <2>6. CASE UNCHANGED <<parked, wait, inbox, resumed, todo, cpu, settled>>
      BY <1>1, <2>2, <2>6
    <2> QED  BY <2>1, <2>5, <2>6 DEF h
  <1> HIDE DEF Goal
  <1>24. ASSUME NEW f \in Flows, Drive(f) \/ Program(f) \/ Finalize(f) \/ WakeSleeper(f)
         PROVE  Goal
    <2>1. CASE Drive(f)
      BY <2>1, <1>6, <1>14, <1>15, <1>18 DEF Drive
    <2>2. CASE Program(f)
      BY <2>2, <1>6, <1>8, <1>9, <1>13, <1>16, <1>17, Zenon DEF Program
    <2>3. CASE Finalize(f)
      BY <2>3, <1>7, <1>22, <1>23 DEF Finalize
    <2> QED  BY <1>24, <2>1, <2>2, <2>3, <1>6
  <1> QED
    BY <1>10, <1>11, <1>12, <1>19, <1>20, <1>21, <1>24, Zenon DEF Next, Goal

-----------------------------------------------------------------------------
(* The places of a flow                                                    *)

FinRecords == [pc : FinPcs \cup {"none"}, reason : Reasons,
               rest : SUBSET (Flows \cup Monitors), work : Seq(Flows)]

\* Types of the containers of flows.
PlaceTypes ==
    /\ ready \subseteq Flows
    /\ cpu \in [Flows -> CpuStates]
    /\ sleeping \subseteq Flows
    /\ fin \in [Flows -> FinRecords]
    /\ outcome \in [Flows -> Reasons \cup {NotYet}]

\* One step of f's finalization, its work list and reason unchanged.
Advances(f) ==
    /\ fin' \in [Flows -> FinRecords]
    /\ \A g \in Flows : g # f => fin'[g] = fin[g]
    /\ fin[f].pc # "none"
    /\ fin'[f].pc # "none"
    /\ fin'[f].work = fin[f].work
    /\ fin'[f].reason = fin[f].reason

\* f's finalization begins, with nothing else to do after it.
Begins(f) ==
    /\ fin' \in [Flows -> FinRecords]
    /\ \A g \in Flows : g # f => fin'[g] = fin[g]
    /\ fin[f].pc = "none"
    /\ fin'[f].pc = "signal"
    /\ fin'[f].work = <<>>

(* The steps of finalize_one but the last. *)
LEMMA FinalizeAdvances ==
    ASSUME TypeOK, NEW f \in Flows,
           \/ FinSignal(f) \/ FinAsker(f) \/ FinOrphans(f) \/ FinWake(f) \/ FinRevoke(f)
           \/ FinUnregister(f) \/ FinOwned(f) \/ FinNotify(f) \/ FinDown(f) \/ FinLinks(f)
           \/ FinPeer(f)
    PROVE  Advances(f) /\ outcome' = outcome
  <1>0. /\ fin \in [Flows -> FinRecords]
        /\ monitors \subseteq Monitors
    BY DEF TypeOK, FinRecords
  <1>1. ASSUME NEW pc \in FinPcs, NEW next \in FinPcs, FinStep(f, pc, next)
        PROVE  Advances(f)
    BY <1>0, <1>1 DEF FinStep, Advances, FinRecords, FinPcs
  <1>2. CASE \/ FinSignal(f) \/ FinAsker(f) \/ FinRevoke(f) \/ FinUnregister(f) \/ FinOwned(f)
    <2>1. \E pc, next \in FinPcs : FinStep(f, pc, next)
      BY <1>2 DEF FinSignal, FinAsker, FinRevoke, FinUnregister, FinOwned, FinPcs
    <2>2. outcome' = outcome
      BY <1>2 DEF FinSignal, FinAsker, FinRevoke, FinUnregister, FinOwned
    <2> QED  BY <1>1, <2>1, <2>2
  <1>3. CASE FinOrphans(f)
    BY <1>0, <1>3 DEF FinOrphans, Advances, FinRecords, FinPcs
  <1>4. CASE FinNotify(f)
    BY <1>0, <1>4 DEF FinNotify, Advances, FinRecords, FinPcs
  <1>5. CASE FinLinks(f)
    <2>1. Peers(f) \subseteq Flows
      BY DEF Peers
    <2> QED  BY <1>0, <1>5, <2>1 DEF FinLinks, Advances, FinRecords, FinPcs
  <1>6. CASE FinWake(f) \/ FinDown(f) \/ FinPeer(f)
    <2>1. /\ fin[f].pc \in {"wake", "down", "peers"}
          /\ \E x : fin' = [fin EXCEPT ![f].rest = @ \ {x}]
          /\ outcome' = outcome
      BY <1>6 DEF FinWake, FinDown, FinPeer
    <2> QED  BY <1>0, <2>1 DEF Advances, FinRecords, FinPcs
  <1> QED  BY <1>2, <1>3, <1>4, <1>5, <1>6

(* finalize_flow is entered. *)
LEMMA BeginFinalizeBegins ==
    ASSUME TypeOK, NEW f \in Flows, NEW reason \in Reasons,
           fin[f].pc = "none", BeginFinalize(f, reason, <<>>)
    PROVE  Begins(f)
  <1>1. <<>> \in Seq(Flows)
    BY ToSetEmpty
  <1> QED  BY <1>1 DEF TypeOK, BeginFinalize, Begins, FinRecords, FinPcs

\* The finalizers' work lists, and who is in their hands, stay the same.
FinKeeps ==
    /\ fin' \in [Flows -> FinRecords]
    /\ outcome' = outcome
    /\ WorkInv'
    /\ Queued' = Queued
    /\ \A g \in Flows : fin'[g].pc # "none" <=> fin[g].pc # "none"

\* They stay the same, but for f's finalizer.
FinAdds(f) ==
    /\ fin' \in [Flows -> FinRecords]
    /\ outcome' = outcome
    /\ WorkInv'
    /\ Queued' = Queued
    /\ fin'[f].pc # "none"
    /\ \A g \in Flows : g # f => (fin'[g].pc # "none" <=> fin[g].pc # "none")

(* Work lists that do not change keep their elements. *)
LEMMA SameWork ==
    ASSUME WorkInv, \A g \in Flows : fin'[g].work = fin[g].work
    PROVE  WorkInv' /\ Queued' = Queued
  <1>1. WorkInv'
    BY DEF WorkInv
  <1>2. Queued' = Queued
    BY DEF Queued
  <1> QED  BY <1>1, <1>2

(* A finalization that goes on, or begins, leaves the work lists alone. *)
LEMMA FinKinds ==
    ASSUME TypeOK, FinInv, WorkInv, outcome' = outcome
    PROVE  /\ fin' = fin => FinKeeps
           /\ \A f \in Flows : Advances(f) => FinKeeps
           /\ \A f \in Flows : Begins(f) => FinAdds(f)
  <1>0. fin \in [Flows -> FinRecords]
    BY DEF TypeOK, FinRecords
  <1>1. ASSUME fin' = fin PROVE FinKeeps
    <2>1. WorkInv' /\ Queued' = Queued
      BY <1>1, SameWork
    <2> QED  BY <1>0, <1>1, <2>1 DEF FinKeeps
  <1>2. ASSUME NEW f \in Flows, Advances(f) PROVE FinKeeps
    <2>1. \A g \in Flows : fin'[g].work = fin[g].work
      BY <1>2 DEF Advances
    <2>2. WorkInv' /\ Queued' = Queued
      BY <2>1, SameWork
    <2>3. \A g \in Flows : fin'[g].pc # "none" <=> fin[g].pc # "none"
      BY <1>2 DEF Advances
    <2> QED  BY <1>2, <2>2, <2>3 DEF FinKeeps, Advances
  <1>3. ASSUME NEW f \in Flows, Begins(f) PROVE FinAdds(f)
    <2>1. \A g \in Flows : fin'[g].work = fin[g].work
      BY <1>3 DEF Begins, FinInv
    <2>2. WorkInv' /\ Queued' = Queued
      BY <2>1, SameWork
    <2> QED  BY <1>3, <2>2 DEF FinAdds, Begins
  <1> QED  BY <1>1, <1>2, <1>3

\* f is in cpu'[f]'s hands exactly if it was.
CpuKeeps(f) == cpu'[f] # "none" <=> cpu[f] # "none"

(***************************************************************************)
(* The ways a flow goes from place to place.                               *)
(***************************************************************************)

(* Nobody moves. *)
LEMMA NobodyMoves ==
    ASSUME PlaceTypes, PlaceInv, FinKeeps,
           cpu' \in [Flows -> CpuStates], \A g \in Flows : CpuKeeps(g),
           UNCHANGED <<ready, parked, sleeping>>
    PROVE  PlaceTypes' /\ WorkInv' /\ PlaceInv'
  BY DEF PlaceTypes, PlaceInv, ExactlyOne, FinKeeps, CpuKeeps

(* A worker lets go of f: to a run queue, its mailbox or the timer heap. *)
LEMMA WorkerReleases ==
    ASSUME PlaceTypes, PlaceInv, FinKeeps, NEW f \in Flows, cpu[f] # "none",
           cpu' = [cpu EXCEPT ![f] = "none"],
           \/ ready' = ready \cup {f} /\ UNCHANGED <<parked, sleeping>>
           \/ parked' = parked \cup {f} /\ UNCHANGED <<ready, sleeping>>
           \/ sleeping' = sleeping \cup {f} /\ UNCHANGED <<ready, parked>>
    PROVE  PlaceTypes' /\ WorkInv' /\ PlaceInv'
  <1>1. PlaceTypes'
    BY DEF PlaceTypes, FinKeeps, CpuStates
  <1>2. PlaceInv'
    BY DEF PlaceTypes, PlaceInv, ExactlyOne, FinKeeps
  <1> QED  BY <1>1, <1>2 DEF FinKeeps

(* A flow is taken out of its mailbox by somebody who will run it on. *)
LEMMA ParkedIsTaken ==
    ASSUME PlaceTypes, PlaceInv, FinKeeps, NEW t \in Flows, t \in parked,
           parked' = parked \ {t}, cpu' \in [Flows -> CpuStates],
           \A g \in Flows : g # t => CpuKeeps(g),
           \/ cpu'[t] # "none" /\ ready' = ready
           \/ CpuKeeps(t) /\ ready' = ready \cup {t},
           sleeping' = sleeping
    PROVE  PlaceTypes' /\ WorkInv' /\ PlaceInv'
  <1>1. PlaceTypes'
    BY DEF PlaceTypes, FinKeeps
  <1>2. PlaceInv'
    BY DEF PlaceTypes, PlaceInv, ExactlyOne, FinKeeps, CpuKeeps
  <1> QED  BY <1>1, <1>2 DEF FinKeeps

(* A flow's finalization begins where it was: at a worker, in a run queue  *)
(* or in its mailbox.                                                      *)
LEMMA EndBegins ==
    ASSUME PlaceTypes, PlaceInv, NEW f \in Flows, FinAdds(f),
           cpu' = [cpu EXCEPT ![f] = "none"] \/ cpu' = cpu,
           ready' = ready \ {f} \/ ready' = ready,
           parked' = parked \ {f} \/ parked' = parked,
           sleeping' = sleeping,
           \/ cpu[f] # "none" /\ cpu'[f] = "none"
           \/ f \in ready /\ f \notin ready'
           \/ f \in parked /\ f \notin parked'
    PROVE  PlaceTypes' /\ WorkInv' /\ PlaceInv'
  <1>1. PlaceTypes'
    BY DEF PlaceTypes, FinAdds, CpuStates
  <1>2. PlaceInv'
    BY DEF PlaceTypes, PlaceInv, ExactlyOne, FinAdds
  <1> QED  BY <1>1, <1>2 DEF FinAdds

(* A finalizer that kills a parked flow puts it on its own work list. *)
LEMMA ParkedIsQueued ==
    ASSUME PlaceTypes, FinInv, WorkInv, PlaceInv, NEW k \in Flows, NEW p \in Flows,
           fin[k].pc = "peers", p \in parked, parked' = parked \ {p},
           fin' = [fin EXCEPT ![k].work = Append(@, p)],
           UNCHANGED <<ready, cpu, sleeping, outcome>>
    PROVE  /\ PlaceTypes' /\ WorkInv' /\ PlaceInv'
           /\ Queued' = Queued \cup {p}
           /\ \A g \in Flows : /\ fin'[g].pc = fin[g].pc
                               /\ fin'[g].rest = fin[g].rest
                               /\ fin'[g].reason = fin[g].reason
  <1>1. p \notin Queued
    BY DEF PlaceInv, ExactlyOne
  <1>2. \A g \in Flows : p \notin ToSet(fin[g].work)
    BY <1>1 DEF Queued
  <1>3. fin[k].work \in Seq(Flows) /\ fin \in [Flows -> FinRecords]
    BY DEF PlaceTypes, FinRecords
  <1> DEFINE w == Append(fin[k].work, p)
  <1>4. w \in Seq(Flows) /\ ToSet(w) = ToSet(fin[k].work) \cup {p} /\ IsInjective(w)
    BY <1>2, <1>3, AppendToSet DEF WorkInv
  <1>5. fin' = [fin EXCEPT ![k].work = w]
    OBVIOUS
  <1> HIDE DEF w
  <1>6. /\ fin' \in [Flows -> FinRecords]
        /\ \A g \in Flows : g # k => fin'[g] = fin[g]
        /\ fin'[k].work = w
        /\ \A g \in Flows : /\ fin'[g].pc = fin[g].pc
                            /\ fin'[g].rest = fin[g].rest
                            /\ fin'[g].reason = fin[g].reason
    <2> DEFINE rec == [fin[k] EXCEPT !.work = w]
    <2>1. /\ rec \in FinRecords /\ rec.work = w
          /\ rec.pc = fin[k].pc /\ rec.rest = fin[k].rest /\ rec.reason = fin[k].reason
      BY <1>3, <1>4 DEF FinRecords
    <2>2. fin' = [fin EXCEPT ![k] = rec]
      BY <1>3, <1>5
    <2> HIDE DEF rec
    <2>3. /\ fin' \in [Flows -> FinRecords] /\ fin'[k] = rec
          /\ \A g \in Flows : g # k => fin'[g] = fin[g]
      BY <1>3, <2>1, <2>2
    <2> QED  BY <2>1, <2>3
  <1>7. PlaceTypes'
    BY <1>6 DEF PlaceTypes
  <1>8. WorkInv'
    <2>1. \A g \in Flows : IsInjective(fin'[g].work)
      BY <1>4, <1>6 DEF WorkInv
    <2>2. \A g \in Flows : g # k => ToSet(fin'[g].work) = ToSet(fin[g].work)
      BY <1>6
    <2>3. ToSet(fin'[k].work) = ToSet(fin[k].work) \cup {p}
      BY <1>4, <1>6
    <2>4. ASSUME NEW g \in Flows, NEW h \in Flows, g # h
          PROVE  ToSet(fin'[g].work) \cap ToSet(fin'[h].work) = {}
      BY <1>2, <2>2, <2>3, <2>4 DEF WorkInv
    <2> QED  BY <2>1, <2>4 DEF WorkInv
  <1>9. Queued' = Queued \cup {p}
    <2>1. \A g \in Flows : g # k => ToSet(fin'[g].work) = ToSet(fin[g].work)
      BY <1>6
    <2>2. ToSet(fin'[k].work) = ToSet(fin[k].work) \cup {p}
      BY <1>4, <1>6
    <2>3. \A x : x \in Queued' <=> \E g \in Flows : x \in ToSet(fin'[g].work)
      BY DEF Queued
    <2>4. \A x : x \in Queued <=> \E g \in Flows : x \in ToSet(fin[g].work)
      BY DEF Queued
    <2>5. ASSUME NEW x PROVE x \in Queued' <=> x \in Queued \cup {p}
      BY <2>1, <2>2, <2>3, <2>4
    <2> QED  BY <2>5
  <1>10. PlaceInv'
    BY <1>6, <1>9 DEF PlaceTypes, PlaceInv, ExactlyOne
  <1> QED  BY <1>6, <1>7, <1>8, <1>9, <1>10

(* A finalizer that has ended f goes on with the last flow of its work     *)
(* list, and the rest of the list goes with it.                            *)
LEMMA CompleteProperties ==
    ASSUME PlaceTypes, FinInv, WorkInv, PlaceInv, NEW f \in Flows, FinComplete(f)
    PROVE  /\ PlaceTypes' /\ WorkInv' /\ PlaceInv'
           /\ fin'[f].pc = "none" /\ fin'[f].work = <<>>
           /\ \A g \in Flows : g # f => outcome'[g] = outcome[g]
           /\ outcome'[f] = fin[f].reason
           /\ \A g \in Flows : Gone(g) => Gone(g)'
           /\ \A g \in Flows : g # f =>
                \/ fin'[g] = fin[g]
                \/ /\ g \in Queued /\ fin[g].pc = "none"
                   /\ fin'[g].pc = "signal" /\ fin'[g].rest = {}
  <1>0. /\ fin \in [Flows -> FinRecords]
        /\ fin[f].pc = "peers"
        /\ fin[f].reason \in Reasons /\ fin[f].reason # NotYet
        /\ outcome' = [outcome EXCEPT ![f] = fin[f].reason]
        /\ UNCHANGED <<ready, cpu, parked, sleeping>>
    BY DEF FinComplete, PlaceTypes, runVars, mailVars, Reasons, NotYet, FinRecords
  <1>1. /\ outcome' \in [Flows -> Reasons \cup {NotYet}]
        /\ outcome'[f] = fin[f].reason
        /\ \A g \in Flows : g # f => outcome'[g] = outcome[g]
    BY <1>0 DEF PlaceTypes
  <1>2. /\ f \notin Queued /\ outcome[f] = NotYet
        /\ f \notin ready /\ cpu[f] = "none" /\ f \notin parked /\ f \notin sleeping
    BY <1>0 DEF PlaceInv, ExactlyOne
  <1>3. \A x : x \in Queued' <=> \E g \in Flows : x \in ToSet(fin'[g].work)
    BY DEF Queued
  <1>4. \A x : x \in Queued <=> \E g \in Flows : x \in ToSet(fin[g].work)
    BY DEF Queued
  <1>5. /\ ToSet(<<>>) = {} /\ IsInjective(<<>>)
        /\ NotEnding \in FinRecords /\ NotEnding.pc = "none" /\ NotEnding.work = <<>>
    BY ToSetEmpty DEF NotEnding, FinRecords, Reasons
  <1>6. CASE fin[f].work = <<>>
    <2>1. fin' = [fin EXCEPT ![f] = NotEnding]
      BY <1>6 DEF FinComplete
    <2>2. /\ fin' \in [Flows -> FinRecords]
          /\ \A g \in Flows : g # f => fin'[g] = fin[g]
          /\ fin'[f] = NotEnding
      BY <1>0, <1>5, <2>1
    <2>3. \A g \in Flows : fin'[g].work = fin[g].work
      BY <1>5, <1>6, <2>2
    <2>4. WorkInv' /\ Queued' = Queued
      BY <2>3, SameWork
    <2>5. PlaceTypes'
      BY <1>0, <1>1, <2>2 DEF PlaceTypes
    <2>6. PlaceInv'
      BY <1>0, <1>1, <1>2, <1>5, <2>2, <2>4 DEF PlaceInv, ExactlyOne
    <2>7. \A g \in Flows : Gone(g) => Gone(g)'
      BY <1>0, <1>1, <2>2, <2>4 DEF Gone, Ending
    <2> QED  BY <1>1, <1>5, <2>2, <2>4, <2>5, <2>6, <2>7
  <1>7. CASE fin[f].work # <<>>
    <2> DEFINE w == fin[f].work
               q == Last(w)
               front == Front(w)
               rec == [pc |-> "signal", reason |-> "Link", rest |-> {}, work |-> front]
    <2>1. fin' = [fin EXCEPT ![f] = NotEnding, ![q] = rec]
      BY <1>7 DEF FinComplete
    <2>2. w \in Seq(Flows) /\ w # <<>> /\ IsInjective(w)
      BY <1>0, <1>7 DEF FinRecords, WorkInv
    <2>3. /\ front \in Seq(Flows) /\ q \in ToSet(w) /\ ToSet(front) = ToSet(w) \ {q}
          /\ IsInjective(front)
      BY <2>2, FrontLastToSet
    <2>4. ToSet(w) \subseteq Flows
      BY <2>2, ToSetMember
    <2>5. q \in Flows /\ q \in Queued /\ q # f
      BY <1>2, <1>4, <2>3, <2>4
    <2>6. /\ fin[q].pc = "none" /\ outcome[q] = NotYet
          /\ q \notin ready /\ cpu[q] = "none" /\ q \notin parked /\ q \notin sleeping
      BY <2>5 DEF PlaceInv, ExactlyOne
    <2>7. fin[q].work = <<>>
      BY <2>5, <2>6 DEF FinInv
    <2>8. rec \in FinRecords /\ rec.pc = "signal" /\ rec.work = front /\ rec.rest = {}
      BY <2>3 DEF FinRecords, FinPcs, Reasons
    <2> HIDE DEF w, q, front, rec
    <2>9. /\ fin' \in [Flows -> FinRecords]
          /\ \A g \in Flows : g # f /\ g # q => fin'[g] = fin[g]
          /\ fin'[f] = NotEnding
          /\ fin'[q] = rec
      BY <1>0, <1>5, <2>1, <2>5, <2>8
    <2>10. /\ ToSet(fin'[f].work) = {} /\ IsInjective(fin'[f].work)
           /\ ToSet(fin'[q].work) = ToSet(fin[f].work) \ {q} /\ IsInjective(fin'[q].work)
           /\ ToSet(fin[q].work) = {}
           /\ \A g \in Flows : g # f /\ g # q => fin'[g].work = fin[g].work
      BY <1>5, <2>3, <2>7, <2>8, <2>9 DEF w
    <2>11. WorkInv'
      <3>1. \A g \in Flows : IsInjective(fin'[g].work)
        BY <2>10 DEF WorkInv
      <3>2. ASSUME NEW g \in Flows, NEW h \in Flows, g # h
            PROVE  ToSet(fin'[g].work) \cap ToSet(fin'[h].work) = {}
        BY <2>10, <3>2 DEF WorkInv
      <3> QED  BY <3>1, <3>2 DEF WorkInv
    <2>12. \A g \in Flows : g # f => q \notin ToSet(fin[g].work)
      BY <2>3 DEF WorkInv, w
    <2>13. Queued' = Queued \ {q}
      <3>1. ASSUME NEW x \in Queued' PROVE x \in Queued \ {q}
        <4>1. PICK g \in Flows : x \in ToSet(fin'[g].work)
          BY <1>3, <3>1
        <4> QED  BY <1>4, <2>10, <2>12, <4>1
      <3>2. ASSUME NEW x \in Queued \ {q} PROVE x \in Queued'
        <4>1. PICK g \in Flows : x \in ToSet(fin[g].work)
          BY <1>4, <3>2
        <4> QED  BY <1>3, <2>5, <2>10, <3>2, <4>1
      <3> QED  BY <3>1, <3>2
    <2>14. PlaceTypes'
      BY <1>0, <1>1, <2>9 DEF PlaceTypes
    <2>15. ASSUME NEW g \in Flows
           PROVE  ExactlyOne(g \in ready, cpu[g] # "none", g \in parked, g \in sleeping,
                             fin'[g].pc # "none", g \in Queued', outcome'[g] # NotYet)
      <3>1. ExactlyOne(g \in ready, cpu[g] # "none", g \in parked, g \in sleeping,
                       fin[g].pc # "none", g \in Queued, outcome[g] # NotYet)
        BY DEF PlaceInv
      <3>2. CASE g = f
        BY <1>0, <1>1, <1>2, <1>5, <2>9, <2>13, <3>2 DEF ExactlyOne
      <3>3. CASE g = q
        BY <1>1, <2>5, <2>6, <2>8, <2>9, <2>13, <3>3 DEF ExactlyOne
      <3>4. CASE g # f /\ g # q
        BY <1>1, <2>9, <2>13, <3>1, <3>4 DEF ExactlyOne
      <3> QED  BY <3>2, <3>3, <3>4
    <2>16. PlaceInv'
      BY <1>0, <2>15 DEF PlaceInv
    <2>17. \A g \in Flows : Gone(g) => Gone(g)'
      <3>1. Gone(f)'
        BY <1>0, <1>1 DEF Gone
      <3>2. ASSUME NEW g \in Flows, g # f, Gone(g) PROVE Gone(g)'
        <4>1. CASE g = q
          BY <2>8, <2>9, <4>1 DEF Gone, Ending
        <4>2. CASE g # q
          BY <1>1, <2>9, <2>13, <3>2, <4>2 DEF Gone, Ending
        <4> QED  BY <4>1, <4>2
      <3> QED  BY <3>1, <3>2
    <2> QED  BY <1>1, <1>5, <2>5, <2>6, <2>8, <2>9, <2>11, <2>14, <2>16, <2>17
  <1> QED  BY <1>6, <1>7

(* A worker takes a flow from a run queue, or the timer puts one there. *)
LEMMA ReadyMoves ==
    ASSUME PlaceTypes, PlaceInv, FinKeeps, NEW f \in Flows, parked' = parked,
           \/ /\ f \in ready /\ ready' = ready \ {f}
              /\ cpu' = [cpu EXCEPT ![f] = "run"]
              /\ sleeping' = sleeping
           \/ /\ f \in sleeping /\ sleeping' = sleeping \ {f}
              /\ ready' = ready \cup {f}
              /\ cpu' = cpu
    PROVE  PlaceTypes' /\ WorkInv' /\ PlaceInv'
  <1>1. PlaceTypes'
    BY DEF PlaceTypes, FinKeeps, CpuStates
  <1>2. PlaceInv'
    BY DEF PlaceTypes, PlaceInv, ExactlyOne, FinKeeps
  <1> QED  BY <1>1, <1>2 DEF FinKeeps

\* A flow that is ending or has ended does not come back.
GoneStays == \A g \in Flows : Gone(g) => Gone(g)'

(* Each step moves at most one flow, from one place to another. *)
LEMMA PlaceStep ==
    ASSUME TypeOK, FinInv, WorkInv, PlaceInv, [Next]_vars
    PROVE  PlaceTypes' /\ WorkInv' /\ PlaceInv' /\ GoneStays
  <1>0. /\ PlaceTypes
        /\ parked \subseteq Flows /\ registered \subseteq Flows
        /\ signals \in [Flows -> Reasons \cup {NoSignal}]
        /\ extract \in [Threads -> [pc : {"idle", "set", "take"},
                                    target : Flows \cup {NoFlow}]]
    BY DEF TypeOK, PlaceTypes, FinRecords
  <1> DEFINE Goal == PlaceTypes' /\ WorkInv' /\ PlaceInv' /\ GoneStays
  <1>1. /\ FinKeeps => GoneStays
        /\ \A f \in Flows : FinAdds(f) => GoneStays
    BY DEF FinKeeps, FinAdds, GoneStays, Gone, Ending
  <1>2. ASSUME UNCHANGED endVars PROVE FinKeeps /\ GoneStays
    BY <1>1, <1>2, FinKinds DEF endVars
  <1>3. ASSUME UNCHANGED <<ready, cpu, parked, sleeping>>, FinKeeps PROVE Goal
    BY <1>0, <1>1, <1>3, NobodyMoves DEF PlaceTypes, CpuKeeps
  <1>4. ASSUME NEW f \in Flows, NEW next \in CpuStates, next # "none", cpu[f] # "none",
               cpu' = [cpu EXCEPT ![f] = next],
               UNCHANGED <<ready, parked, sleeping, fin, outcome>>
        PROVE  Goal
    <2>1. cpu' \in [Flows -> CpuStates] /\ \A g \in Flows : CpuKeeps(g)
      BY <1>0, <1>4 DEF PlaceTypes, CpuKeeps
    <2> QED  BY <1>0, <1>2, <1>4, <2>1, NobodyMoves DEF endVars
  <1>5. ASSUME NEW f \in Flows, cpu[f] # "none", cpu' = [cpu EXCEPT ![f] = "none"],
               \/ ready' = ready \cup {f} /\ UNCHANGED <<parked, sleeping>>
               \/ parked' = parked \cup {f} /\ UNCHANGED <<ready, sleeping>>
               \/ sleeping' = sleeping \cup {f} /\ UNCHANGED <<ready, parked>>,
               UNCHANGED endVars
        PROVE  Goal
    BY <1>0, <1>2, <1>5, WorkerReleases
  <1>6. ASSUME NEW f \in Flows, NEW reason \in Reasons, cpu[f] # "none", Finish(f, reason),
               UNCHANGED <<ready, parked, sleeping, outcome>>
        PROVE  Goal
    <2>1. fin[f].pc = "none"
      BY <1>6 DEF PlaceInv, ExactlyOne
    <2>2. FinAdds(f)
      BY <1>6, <2>1, BeginFinalizeBegins, FinKinds DEF Finish
    <2>3. cpu' = [cpu EXCEPT ![f] = "none"] /\ cpu'[f] = "none"
      BY <1>0, <1>6 DEF Finish, PlaceTypes
    <2> QED  BY <1>0, <1>1, <1>6, <2>2, <2>3, EndBegins
  <1>7. ASSUME NEW f \in Flows, NEW t, NEW next \in CpuStates, NEW operands,
               cpu[f] # "none", next # "none", Present(f, t, next, operands),
               UNCHANGED <<ready, parked, sleeping, outcome>>
        PROVE  Goal
    <2>1. \/ Finish(f, "Fault")
          \/ cpu' = [cpu EXCEPT ![f] = next] /\ fin' = fin
      BY <1>7, PresentProperties
    <2> QED  BY <1>4, <1>6, <1>7, <2>1 DEF Reasons
  <1>8. ASSUME NEW t, TakeParked(t), NEW cpu0 \in [Flows -> CpuStates],
               \A g \in Flows : cpu0[g] # "none" <=> cpu[g] # "none",
               cpu' = [cpu0 EXCEPT ![t] = "unindex"],
               FinKeeps, UNCHANGED <<ready, sleeping>>
        PROVE  Goal
    <2>1. t \in Flows /\ t \in parked /\ parked' = parked \ {t}
      BY <1>0, <1>8 DEF TakeParked
    <2>2. /\ cpu' \in [Flows -> CpuStates] /\ cpu'[t] # "none"
          /\ \A g \in Flows : g # t => CpuKeeps(g)
      BY <1>8, <2>1 DEF CpuStates, CpuKeeps
    <2> QED  BY <1>0, <1>1, <1>8, <2>1, <2>2, ParkedIsTaken
  <1>9. ASSUME NEW t, NEW h, NEW cpu0 \in [Flows -> CpuStates], PushTo(t, h, cpu0),
               \A g \in Flows : cpu0[g] # "none" <=> cpu[g] # "none",
               FinKeeps, UNCHANGED <<ready, sleeping>>
        PROVE  Goal
    <2>1. CASE TakeParked(t) /\ cpu' = [cpu0 EXCEPT ![t] = "unindex"]
      BY <1>8, <1>9, <2>1
    <2>2. CASE cpu' = cpu0 /\ parked' = parked
      BY <1>0, <1>1, <1>9, <2>2, NobodyMoves DEF CpuKeeps
    <2> QED  BY <1>9, <2>1, <2>2 DEF PushTo
  <1>10. "run" \in CpuStates /\ "run" # "none" /\ "Fault" \in Reasons /\ "Normal" \in Reasons
    BY DEF CpuStates, Reasons
  (* The actions *)
  <1>11. ASSUME NEW f \in Flows, RunQuantum(f) PROVE Goal
    <2>1. /\ f \in ready /\ ready' = ready \ {f}
          /\ UNCHANGED <<parked, sleeping, outcome>>
      BY <1>11 DEF RunQuantum, mailVars
    <2>2. CASE signals[f] = NoSignal
      <3>1. cpu' = [cpu EXCEPT ![f] = "run"] /\ fin' = fin
        BY <1>11, <2>2 DEF RunQuantum
      <3> QED  BY <1>0, <1>2, <2>1, <3>1, ReadyMoves DEF endVars
    <2>3. CASE signals[f] # NoSignal
      <3>1. BeginFinalize(f, signals[f], <<>>) /\ cpu' = cpu
        BY <1>11, <2>3 DEF RunQuantum
      <3>2. fin[f].pc = "none" /\ signals[f] \in Reasons
        BY <1>0, <2>1, <2>3 DEF PlaceInv, ExactlyOne
      <3>3. FinAdds(f)
        BY <2>1, <3>1, <3>2, BeginFinalizeBegins, FinKinds
      <3> QED  BY <1>0, <1>1, <2>1, <3>1, <3>3, EndBegins
    <2> QED  BY <2>2, <2>3
  <1>12. ASSUME NEW f \in Flows, Yield(f) \/ Sleep(f) \/ Unindex(f) PROVE Goal
    BY <1>5, <1>12 DEF Yield, Sleep, Unindex, mailVars
  <1>13. ASSUME NEW f \in Flows, WakeSleeper(f) PROVE Goal
    BY <1>0, <1>2, <1>13, ReadyMoves DEF WakeSleeper, mailVars
  <1>14. ASSUME NEW f \in Flows, Complete(f) PROVE Goal
    BY <1>6, <1>10, <1>14 DEF Complete, mailVars
  <1>15. ASSUME NEW f \in Flows, Receive(f) \/ TryReply(f) \/ CreateMonitor(f) PROVE Goal
    <2>1. /\ cpu[f] # "none"
          /\ cpu' = cpu \/ \E next \in CpuStates : /\ next # "none"
                                                   /\ cpu' = [cpu EXCEPT ![f] = next]
          /\ UNCHANGED <<ready, parked, sleeping, fin, outcome>>
      BY <1>15 DEF Receive, TryReply, CreateMonitor, CpuStates, endVars, mailVars
    <2> QED  BY <1>2, <1>3, <1>4, <2>1 DEF endVars
  <1>16. ASSUME NEW f \in Flows, ParkReceive(f) PROVE Goal
    <2>1. /\ cpu[f] # "none" /\ cpu' = [cpu EXCEPT ![f] = "none"]
          /\ \/ ready' = ready \cup {f} /\ parked' = parked
             \/ parked' = parked \cup {f} /\ ready' = ready
          /\ sleeping' = sleeping /\ UNCHANGED endVars
      BY <1>16 DEF ParkReceive
    <2> QED  BY <1>5, <2>1
  <1>17. ASSUME NEW f \in Flows, ParkAsk(f) PROVE Goal
    <2>1. /\ cpu[f] # "none"
          /\ \/ cpu' = [cpu EXCEPT ![f] = "unindex"] /\ parked' = parked
             \/ cpu' = [cpu EXCEPT ![f] = "none"] /\ parked' = parked \cup {f}
          /\ UNCHANGED <<ready, sleeping, fin, outcome>>
      BY <1>17 DEF ParkAsk, endVars
    <2> QED  BY <1>4, <1>5, <2>1 DEF endVars, CpuStates
  <1>18. ASSUME NEW f \in Flows, IndexAsk(f) \/ CreateLink(f) \/ Demonitor(f) PROVE Goal
    <2>1. /\ cpu[f] # "none"
          /\ \/ Finish(f, "Fault")
             \/ /\ cpu' = cpu \/ \E next \in CpuStates : /\ next # "none"
                                                         /\ cpu' = [cpu EXCEPT ![f] = next]
                /\ fin' = fin
          /\ UNCHANGED <<ready, parked, sleeping, outcome>>
      BY <1>18 DEF IndexAsk, CreateLink, Demonitor, CpuStates, mailVars
    <2> QED  BY <1>2, <1>3, <1>4, <1>6, <1>10, <2>1 DEF endVars
  <1>19. ASSUME NEW f \in Flows, NEW pair, Unlink(f, pair) PROVE Goal
    <2>1. /\ cpu[f] # "none"
          /\ Finish(f, "Fault") \/ (cpu' = cpu /\ fin' = fin)
          /\ UNCHANGED <<ready, parked, sleeping, outcome>>
      BY <1>19 DEF Unlink, mailVars
    <2> QED  BY <1>2, <1>3, <1>6, <1>10, <2>1 DEF endVars
  <1>20. ASSUME NEW f \in Flows, NEW t \in Flows, NEW timed, Ask(f, t, timed) PROVE Goal
    BY <1>7, <1>20 DEF Ask, CpuStates
  <1>21. ASSUME NEW f \in Flows, NEW r, Answer(f, r) PROVE Goal
    BY <1>7, <1>21 DEF Answer, CpuStates, mailVars
  <1>22. ASSUME NEW f \in Flows, NEW t, Monitor(f, t) \/ Link(f, t) PROVE Goal
    BY <1>7, <1>22 DEF Monitor, Link, Relate, CpuStates, mailVars
  <1>23. ASSUME NEW f \in Flows, Deliver(f) PROVE Goal
    <2> DEFINE h == op[f].hop
               after == [cpu EXCEPT ![f] = IF h.tag = "request" THEN "tryReply" ELSE "run"]
    <2>1. /\ cpu[f] = "deliver"
          /\ PushTo(op[f].to, h, after) \/ (cpu' = after /\ parked' = parked)
          /\ UNCHANGED <<ready, sleeping, fin, outcome>>
      BY <1>23 DEF Deliver, endVars
    <2>2. /\ after \in [Flows -> CpuStates]
          /\ \A g \in Flows : after[g] # "none" <=> cpu[g] # "none"
      BY <1>0, <2>1 DEF PlaceTypes, CpuStates
    <2> HIDE DEF h, after
    <2>3. FinKeeps /\ GoneStays
      BY <1>2, <2>1 DEF endVars
    <2>4. CASE PushTo(op[f].to, h, after)
      BY <1>9, <2>1, <2>2, <2>3, <2>4
    <2>5. CASE cpu' = after /\ parked' = parked
      BY <1>0, <2>1, <2>2, <2>3, <2>5, NobodyMoves DEF CpuKeeps
    <2> QED  BY <2>1, <2>4, <2>5
  <1>24. ASSUME NEW c, WakeSelf(c) PROVE Goal
    <2>1. UNCHANGED <<ready, sleeping, fin, outcome>> /\ FinKeeps
      BY <1>2, <1>24 DEF WakeSelf, endVars
    <2>2. CASE TakeParked(c.asker) /\ cpu' = [cpu EXCEPT ![c.asker] = "unindex"]
      BY <1>0, <1>8, <2>1, <2>2 DEF PlaceTypes
    <2>3. CASE UNCHANGED <<parked, wait, resumed, todo, cpu>>
      BY <1>3, <2>1, <2>3
    <2> QED  BY <1>24, <2>2, <2>3 DEF WakeSelf
  <1>25. ASSUME NEW d, FireDeadline(d) PROVE Goal
    <2>1. UNCHANGED <<ready, sleeping, fin, outcome>> /\ FinKeeps
      BY <1>2, <1>25 DEF FireDeadline, endVars
    <2>2. CASE TakeParked(d.asker) /\ cpu' = [cpu EXCEPT ![d.asker] = "unindex"]
      BY <1>0, <1>8, <2>1, <2>2 DEF PlaceTypes
    <2>3. CASE UNCHANGED <<parked, wait, resumed, todo, cpu>>
      BY <1>3, <2>1, <2>3
    <2> QED  BY <1>25, <2>2, <2>3 DEF FireDeadline
  <1>26. ASSUME NEW k \in Threads, Extract(k) PROVE Goal
    <2> DEFINE p == extract[k].target
    <2>1. /\ extract[k].pc = "take"
          /\ UNCHANGED <<ready, cpu, sleeping, outcome>>
          /\ \/ /\ TakeParked(p)
                /\ IF k = Host
                   THEN BeginFinalize(p, "Killed", <<>>)
                   ELSE fin' = [fin EXCEPT ![k].work = Append(@, p)]
             \/ parked' = parked /\ fin' = fin
      BY <1>26 DEF Extract, runVars
    <2>2. CASE parked' = parked /\ fin' = fin
      BY <1>2, <1>3, <2>1, <2>2 DEF endVars
    <2>3. CASE TakeParked(p) /\ k = Host /\ BeginFinalize(p, "Killed", <<>>)
      <3>1. p \in Flows /\ p \in parked /\ parked' = parked \ {p}
        BY <1>0, <2>3 DEF TakeParked
      <3>2. fin[p].pc = "none"
        BY <3>1 DEF PlaceInv, ExactlyOne
      <3> HIDE DEF p
      <3>3. FinAdds(p)
        BY <2>1, <2>3, <3>1, <3>2, BeginFinalizeBegins, FinKinds DEF Reasons
      <3> QED  BY <1>0, <1>1, <2>1, <3>1, <3>3, EndBegins
    <2>4. CASE TakeParked(p) /\ k # Host /\ fin' = [fin EXCEPT ![k].work = Append(@, p)]
      <3>1. p \in Flows /\ p \in parked /\ parked' = parked \ {p}
        BY <1>0, <2>4 DEF TakeParked
      <3>2. k \in Flows /\ fin[k].pc = "peers"
        BY <2>1, <2>4 DEF FinInv, Threads
      <3> HIDE DEF p
      <3>3. /\ PlaceTypes' /\ WorkInv' /\ PlaceInv'
            /\ Queued' = Queued \cup {p}
            /\ \A g \in Flows : fin'[g].pc = fin[g].pc
        BY <1>0, <2>1, <2>4, <3>1, <3>2, ParkedIsQueued
      <3>4. GoneStays
        BY <2>1, <3>3 DEF GoneStays, Gone, Ending
      <3> QED  BY <3>3, <3>4
    <2> QED  BY <2>1, <2>2, <2>3, <2>4
  <1>27. ASSUME NEW f \in Flows,
               \/ FinSignal(f) \/ FinAsker(f) \/ FinOrphans(f) \/ FinRevoke(f)
               \/ FinUnregister(f) \/ FinOwned(f) \/ FinNotify(f) \/ FinLinks(f)
               \/ FinPeer(f)
        PROVE  Goal
    <2>1. FinKeeps
      BY <1>27, FinalizeAdvances, FinKinds
    <2>2. UNCHANGED <<ready, cpu, parked, sleeping>>
      BY <1>27 DEF FinSignal, FinAsker, FinOrphans, FinRevoke, FinUnregister, FinOwned,
                   FinNotify, FinLinks, FinPeer, mailVars, runVars
    <2> QED  BY <1>3, <2>1, <2>2
  <1>28. ASSUME NEW f \in Flows, FinWake(f) PROVE Goal
    <2>1. FinKeeps
      BY <1>28, FinalizeAdvances, FinKinds
    <2>2. PICK a : \/ TakeParked(a) /\ ready' = ready \cup {a}
                   \/ UNCHANGED <<parked, ready>>
      BY <1>28 DEF FinWake
    <2>3. UNCHANGED <<cpu, sleeping>>
      BY <1>28 DEF FinWake
    <2>4. CASE TakeParked(a) /\ ready' = ready \cup {a}
      <3>1. a \in Flows /\ a \in parked /\ parked' = parked \ {a}
        BY <1>0, <2>4 DEF TakeParked
      <3>2. cpu' \in [Flows -> CpuStates] /\ \A g \in Flows : CpuKeeps(g)
        BY <1>0, <2>3 DEF PlaceTypes, CpuKeeps
      <3> QED  BY <1>0, <1>1, <2>1, <2>3, <2>4, <3>1, <3>2, ParkedIsTaken
    <2>5. CASE UNCHANGED <<parked, ready>>
      BY <1>3, <2>1, <2>3, <2>5
    <2> QED  BY <2>2, <2>4, <2>5
  <1>29. ASSUME NEW f \in Flows, FinDown(f) PROVE Goal
    <2>1. FinKeeps
      BY <1>29, FinalizeAdvances, FinKinds
    <2>2. PICK m : \/ PushTo(m.owner, Hop("down", m.ref, f), cpu)
                   \/ UNCHANGED <<parked, cpu>>
      BY <1>29 DEF FinDown
    <2>3. UNCHANGED <<ready, sleeping>>
      BY <1>29 DEF FinDown
    <2>4. CASE PushTo(m.owner, Hop("down", m.ref, f), cpu)
      BY <1>0, <1>9, <2>1, <2>3, <2>4 DEF PlaceTypes
    <2>5. CASE UNCHANGED <<parked, cpu>>
      BY <1>3, <2>1, <2>3, <2>5
    <2> QED  BY <2>2, <2>4, <2>5
  <1>30. ASSUME NEW f \in Flows, FinComplete(f) PROVE Goal
    BY <1>0, <1>30, CompleteProperties DEF GoneStays
  <1>31. ASSUME NEW x, CheckTarget(x) \/ Kill(x) \/ SetSignal(x) PROVE Goal
    BY <1>2, <1>3, <1>31 DEF CheckTarget, Kill, SetSignal, runVars, mailVars
  <1>32. CASE UNCHANGED vars
    BY <1>2, <1>3, <1>32 DEF vars, runVars, mailVars
  <1> HIDE DEF Goal
  <1>33. ASSUME NEW f \in Flows, Drive(f) \/ Program(f) \/ Finalize(f) \/ WakeSleeper(f)
         PROVE  Goal
    <2>1. CASE Drive(f)
      BY <2>1, <1>11, <1>12, <1>15, <1>16, <1>17, <1>18, <1>23 DEF Drive
    <2>2. CASE Program(f)
      BY <2>2, <1>12, <1>14, <1>15, <1>18, <1>19, <1>20, <1>21, <1>22, Zenon DEF Program
    <2>3. CASE Finalize(f)
      BY <2>3, <1>27, <1>28, <1>29, <1>30 DEF Finalize
    <2> QED  BY <1>33, <2>1, <2>2, <2>3, <1>13
  <1> QED
    BY <1>24, <1>25, <1>26, <1>31, <1>32, <1>33, Zenon DEF Next, Goal

-----------------------------------------------------------------------------
(* The operands, the Asks and the relations                                *)

\* What OpInv says of operands o in the hands of a worker at c.
OperandsFit(o, c) ==
    /\ \/ c \in {"tryReply", "index", "parkAsk", "monitor", "link"}
       \/ c = "deliver" /\ o.hop.tag = "request"
       => o.to \in Flows
    /\ o.hop.tag # "down"

(* A worker has the operands its next step needs. *)
LEMMA OpStep ==
    ASSUME TypeOK, OpInv, [Next]_vars
    PROVE  op' \in [Flows -> Operands] /\ OpInv'
  <1>0. /\ cpu \in [Flows -> CpuStates]
        /\ op \in [Flows -> Operands]
        /\ todo \in [Flows -> SUBSET Hops]
        /\ asks \in [Flows -> 0 .. MaxAsks]
        /\ \A g \in Flows : OperandsFit(op[g], cpu[g])
    BY DEF TypeOK, OpInv, OperandsFit, Operands
  <1> DEFINE Goal == op' \in [Flows -> Operands] /\ OpInv'
  <1>1. OpInv' <=> \A g \in Flows : OperandsFit(op'[g], cpu'[g])
    BY DEF OpInv, OperandsFit
  <1>2. ASSUME op' = op, \A g \in Flows : cpu'[g] = cpu[g] \/ cpu'[g] \in {"none", "unindex"}
        PROVE  Goal
    BY <1>0, <1>1, <1>2 DEF OperandsFit
  <1>3. ASSUME NEW f \in Flows, NEW c, NEW o \in Operands, OperandsFit(o, c),
               cpu' = [cpu EXCEPT ![f] = c], op' = [op EXCEPT ![f] = o]
        PROVE  Goal
    <2>1. /\ op' \in [Flows -> Operands]
          /\ op'[f] = o /\ cpu'[f] = c
          /\ \A g \in Flows : g # f => op'[g] = op[g] /\ cpu'[g] = cpu[g]
      BY <1>0, <1>3
    <2> QED  BY <1>0, <1>1, <1>3, <2>1
  <1>4. /\ Nothing \in Operands
        /\ \A c \in {"none", "run", "unindex"} : OperandsFit(Nothing, c)
    BY DEF Nothing, Operands, OperandsFit, Hop, Hops, HopTags
  <1>5. ASSUME NEW f \in Flows, NEW reason, Finish(f, reason), op' = op PROVE Goal
    BY <1>0, <1>2, <1>5 DEF Finish
  <1>6. ASSUME NEW f \in Flows, NEW c \in {"none", "run", "unindex"},
               cpu' = [cpu EXCEPT ![f] = c], Done(f)
        PROVE  Goal
    BY <1>3, <1>4, <1>6 DEF Done
  <1>7. ASSUME NEW f \in Flows, NEW t, NEW next, NEW operands \in Operands,
               OperandsFit(operands, next), Present(f, t, next, operands)
        PROVE  Goal
    BY <1>3, <1>5, <1>7, PresentProperties
  <1>8. ASSUME NEW f \in Flows, NEW c, cpu' = [cpu EXCEPT ![f] = c], op' = op,
               OperandsFit(op[f], c)
        PROVE  Goal
    <2>1. \A g \in Flows : cpu'[g] = IF g = f THEN c ELSE cpu[g]
      BY <1>0, <1>8
    <2> QED  BY <1>0, <1>1, <1>8, <2>1
  (* The actions *)
  <1>9. ASSUME NEW f \in Flows,
               \/ RunQuantum(f) \/ Yield(f) \/ Sleep(f) \/ Receive(f) \/ ParkReceive(f)
        PROVE  Goal
    <2>1. /\ op' = op
          /\ cpu' = cpu \/ \E c \in {"run", "none", "parkReceive"} : cpu' = [cpu EXCEPT ![f] = c]
      BY <1>9 DEF RunQuantum, Yield, Sleep, Receive, ParkReceive
    <2>2. \A c \in {"run", "none", "parkReceive"} : OperandsFit(op[f], c)
      BY <1>0 DEF OperandsFit
    <2> QED  BY <1>2, <1>8, <2>1, <2>2
  <1>10. ASSUME NEW f \in Flows, Complete(f) \/ Demonitor(f) PROVE Goal
    <2>1. op' = op /\ (cpu' = cpu \/ \E reason : Finish(f, reason))
      BY <1>10 DEF Complete, Demonitor
    <2> QED  BY <1>2, <1>5, <2>1
  <1>11. ASSUME NEW f \in Flows, NEW pair, Unlink(f, pair) PROVE Goal
    <2>1. op' = op /\ (cpu' = cpu \/ Finish(f, "Fault"))
      BY <1>11 DEF Unlink
    <2> QED  BY <1>2, <1>5, <2>1
  <1>12. ASSUME NEW f \in Flows, Unindex(f) \/ CreateMonitor(f) \/ ParkAsk(f) PROVE Goal
    <2>1. /\ Done(f)
          /\ \E c \in {"none", "run", "unindex"} : cpu' = [cpu EXCEPT ![f] = c]
      BY <1>12 DEF Unindex, CreateMonitor, ParkAsk
    <2> QED  BY <1>6, <2>1
  <1>13. ASSUME NEW f \in Flows, CreateLink(f) PROVE Goal
    <2>1. /\ Done(f)
          /\ \E c \in {"none", "run", "unindex"} : cpu' = [cpu EXCEPT ![f] = c]
      BY <1>13 DEF CreateLink, Finish
    <2> QED  BY <1>6, <2>1
  <1>14. ASSUME NEW f \in Flows, IndexAsk(f) PROVE Goal
    <2>1. CASE /\ cpu' = [cpu EXCEPT ![f] = "parkAsk"] /\ op' = op
      <3>1. OperandsFit(op[f], "parkAsk")
        BY <1>0, <1>14 DEF IndexAsk, OperandsFit
      <3> QED  BY <1>8, <2>1, <3>1
    <2>2. CASE Finish(f, "Fault") /\ Done(f)
      BY <1>6, <2>2 DEF Finish
    <2> QED  BY <1>14, <2>1, <2>2 DEF IndexAsk
  <1>15. ASSUME NEW f \in Flows, TryReply(f) PROVE Goal
    <2>1. CASE cpu' = [cpu EXCEPT ![f] = "run"] /\ Done(f)
      BY <1>6, <2>1
    <2>2. CASE cpu' = [cpu EXCEPT ![f] = "index"] /\ op' = op
      <3>1. OperandsFit(op[f], "index")
        BY <1>0, <1>15 DEF TryReply, OperandsFit
      <3> QED  BY <1>8, <2>2, <3>1
    <2> QED  BY <1>15, <2>1, <2>2 DEF TryReply
  <1>16. ASSUME NEW f \in Flows, NEW t \in Flows, NEW timed \in BOOLEAN, Ask(f, t, timed)
         PROVE  Goal
    <2> DEFINE h == [tag |-> "request", rid |-> asks[f] + 1, sender |-> f]
               o == [to |-> t, hop |-> h, timed |-> timed]
    <2>1. h \in Hops /\ h.tag = "request"
      BY <1>0, LifecycleAssumption DEF Hops, HopTags
    <2>2. Present(f, t, "deliver", o)
      BY <1>16 DEF Ask, Hop
    <2> HIDE DEF h
    <2>3. o \in Operands /\ OperandsFit(o, "deliver")
      BY <2>1 DEF Operands, OperandsFit
    <2> QED  BY <1>7, <2>2, <2>3
  <1>17. ASSUME NEW f \in Flows, NEW r \in todo[f], Answer(f, r) PROVE Goal
    <2> DEFINE h == [tag |-> "reply", rid |-> r.rid, sender |-> f]
               o == [to |-> r.sender, hop |-> h, timed |-> FALSE]
    <2>1. r \in Hops
      BY <1>0
    <2>2. h \in Hops /\ h.tag = "reply" /\ r.sender \in Flows \cup {NoFlow}
      BY <2>1 DEF Hops, HopTags
    <2>3. Present(f, r.sender, "deliver", o)
      BY <1>17 DEF Answer, Hop
    <2> HIDE DEF h
    <2>4. o \in Operands /\ OperandsFit(o, "deliver")
      BY <2>2 DEF Operands, OperandsFit
    <2> QED  BY <1>7, <2>3, <2>4
  <1>18. ASSUME NEW f \in Flows, NEW t \in Flows, Monitor(f, t) \/ Link(f, t) PROVE Goal
    <2> DEFINE o == [Nothing EXCEPT !.to = t]
    <2>1. o \in Operands /\ o.to = t /\ o.hop = Nothing.hop
      BY <1>4 DEF Operands, Nothing
    <2>2. \A c \in {"monitor", "link"} : OperandsFit(o, c)
      BY <1>4, <2>1 DEF OperandsFit
    <2>3. \E next \in {"monitor", "link"} : Present(f, t, next, o)
      BY <1>18 DEF Monitor, Link, Relate
    <2> HIDE DEF o
    <2> QED  BY <1>7, <2>1, <2>2, <2>3
  <1>19. ASSUME NEW f \in Flows, Deliver(f) PROVE Goal
    <2> DEFINE next == IF op[f].hop.tag = "request" THEN "tryReply" ELSE "run"
               after == [cpu EXCEPT ![f] = next]
    <2>1. /\ cpu[f] = "deliver"
          /\ IF op[f].hop.tag = "request" THEN op' = op ELSE op' = [op EXCEPT ![f] = Nothing]
          /\ cpu' = after \/ \E t : cpu' = [after EXCEPT ![t] = "unindex"]
      BY <1>19 DEF Deliver, Done, PushTo
    <2>2. op' \in [Flows -> Operands] /\ \A g \in Flows : g # f => op'[g] = op[g]
      BY <1>0, <1>4, <2>1
    <2>3. OperandsFit(op'[f], next)
      <3>1. CASE op[f].hop.tag = "request"
        BY <1>0, <2>1, <3>1 DEF OperandsFit
      <3>2. CASE op[f].hop.tag # "request"
        BY <1>0, <1>4, <2>1, <3>2
      <3> QED  BY <3>1, <3>2
    <2>4. \A g \in Flows : after[g] = IF g = f THEN next ELSE cpu[g]
      BY <1>0
    <2>5. /\ DOMAIN after = Flows
          /\ \A g \in Flows : OperandsFit(op'[g], after[g])
      BY <1>0, <2>2, <2>3, <2>4
    <2> HIDE DEF next, after
    <2>6. \A g \in Flows : cpu'[g] = after[g] \/ cpu'[g] = "unindex"
      BY <2>1, <2>5
    <2>7. \A g \in Flows : OperandsFit(op'[g], cpu'[g])
      BY <2>5, <2>6 DEF OperandsFit
    <2> QED  BY <1>1, <2>2, <2>7
  <1>20. ASSUME NEW c, WakeSelf(c) \/ FireDeadline(c) PROVE Goal
    <2>1. /\ op' = op
          /\ cpu' = cpu \/ cpu' = [cpu EXCEPT ![c.asker] = "unindex"]
      BY <1>20 DEF WakeSelf, FireDeadline
    <2> QED  BY <1>0, <1>2, <2>1
  <1>21. ASSUME NEW f, FinDown(f) PROVE Goal
    <2>1. /\ op' = op
          /\ cpu' = cpu \/ \E t : cpu' = [cpu EXCEPT ![t] = "unindex"]
      BY <1>21 DEF FinDown, PushTo
    <2> QED  BY <1>0, <1>2, <2>1
  <1>22. ASSUME NEW f,
               \/ FinSignal(f) \/ FinAsker(f) \/ FinOrphans(f) \/ FinWake(f) \/ FinRevoke(f)
               \/ FinUnregister(f) \/ FinOwned(f) \/ FinNotify(f) \/ FinLinks(f)
               \/ FinPeer(f) \/ FinComplete(f) \/ WakeSleeper(f)
        PROVE  Goal
    BY <1>2, <1>22 DEF FinSignal, FinAsker, FinOrphans, FinWake, FinRevoke, FinUnregister,
                       FinOwned, FinNotify, FinLinks, FinPeer, FinComplete, WakeSleeper, runVars
  <1>23. ASSUME NEW x, CheckTarget(x) \/ Kill(x) \/ SetSignal(x) \/ Extract(x) PROVE Goal
    BY <1>2, <1>23 DEF CheckTarget, Kill, SetSignal, Extract, runVars
  <1>24. CASE UNCHANGED vars
    BY <1>2, <1>24 DEF vars, runVars
  <1> HIDE DEF Goal
  <1>25. ASSUME NEW f \in Flows, Drive(f) \/ Program(f) \/ Finalize(f) \/ WakeSleeper(f)
         PROVE  Goal
    <2>1. CASE Drive(f)
      BY <2>1, <1>9, <1>12, <1>13, <1>14, <1>15, <1>19 DEF Drive
    <2>2. CASE Program(f)
      <3>1. Timeouts \subseteq BOOLEAN
        BY LifecycleAssumption
      <3>2. ASSUME NEW t \in Flows, NEW timed \in Timeouts, Ask(f, t, timed) PROVE Goal
        BY <1>16, <3>1, <3>2
      <3> QED  BY <2>2, <1>9, <1>10, <1>11, <1>17, <1>18, <3>2, Zenon DEF Program
    <2>3. CASE Finalize(f)
      BY <2>3, <1>21, <1>22 DEF Finalize
    <2> QED  BY <1>25, <2>1, <2>2, <2>3, <1>22
  <1> QED
    BY <1>20, <1>23, <1>24, <1>25, Zenon DEF Next, Goal

Checks == [asker : Flows, target : Flows, epoch : Nat, timed : BOOLEAN, gone : BOOLEAN]

\* Types of the Asks under way, and of the deadlines of those that are parked.
AskTypes ==
    /\ askWaits \in [Flows -> Flows \cup {NoFlow}]
    /\ checks \subseteq Checks
    /\ deadlines \subseteq [asker : Flows, epoch : Nat]
    /\ asks \in [Flows -> 0 .. MaxAsks]

(* Only a flow with an Ask in hand is indexed or checked on. *)
LEMMA AskStep ==
    ASSUME TypeOK, OpInv, [Next]_vars
    PROVE  AskTypes'
  <1>0. /\ AskTypes
        /\ op \in [Flows -> Operands]
        /\ epoch \in [Flows -> Nat]
    BY DEF TypeOK, AskTypes, Checks, Operands
  <1>1. ASSUME UNCHANGED <<askVars, asks>> PROVE AskTypes'
    BY <1>0, <1>1 DEF AskTypes, askVars
  <1>2. ASSUME NEW f \in Flows,
               \/ RunQuantum(f) \/ Yield(f) \/ Sleep(f) \/ WakeSleeper(f) \/ Complete(f)
               \/ Receive(f) \/ ParkReceive(f) \/ Deliver(f) \/ TryReply(f)
               \/ CreateMonitor(f) \/ Demonitor(f) \/ CreateLink(f)
        PROVE  AskTypes'
    BY <1>1, <1>2 DEF RunQuantum, Yield, Sleep, WakeSleeper, Complete, Receive, ParkReceive,
                      Deliver, TryReply, CreateMonitor, Demonitor, CreateLink
  <1>3. ASSUME NEW f \in Flows,
               \/ FinSignal(f) \/ FinWake(f) \/ FinRevoke(f)
               \/ FinUnregister(f) \/ FinOwned(f) \/ FinNotify(f) \/ FinDown(f)
               \/ FinLinks(f) \/ FinPeer(f) \/ FinComplete(f)
        PROVE  AskTypes'
    BY <1>1, <1>3 DEF FinSignal, FinWake, FinRevoke, FinUnregister, FinOwned, FinNotify,
                      FinDown, FinLinks, FinPeer, FinComplete, runVars
  <1>4. ASSUME NEW f, NEW t, Monitor(f, t) \/ Link(f, t) \/ Answer(f, t) \/ Unlink(f, t)
        PROVE  AskTypes'
    BY <1>1, <1>4 DEF Monitor, Link, Relate, Answer, Unlink
  <1>5. ASSUME NEW x, Kill(x) \/ SetSignal(x) \/ Extract(x) PROVE AskTypes'
    BY <1>1, <1>5 DEF Kill, SetSignal, Extract, runVars
  <1>6. CASE UNCHANGED vars
    BY <1>1, <1>6 DEF vars, runVars
  <1>7. ASSUME NEW f \in Flows, Unindex(f) \/ FinAsker(f) \/ FinOrphans(f) PROVE AskTypes'
    <2>1. /\ UNCHANGED <<checks, deadlines, asks>>
          /\ \/ askWaits' = [askWaits EXCEPT ![f] = NoFlow]
             \/ askWaits' = [a \in Flows |-> IF askWaits[a] = f THEN NoFlow ELSE askWaits[a]]
      BY <1>7 DEF Unindex, FinAsker, FinOrphans, runVars
    <2> QED  BY <1>0, <2>1 DEF AskTypes
  <1>8. ASSUME NEW f \in Flows, IndexAsk(f) PROVE AskTypes'
    <2>1. /\ UNCHANGED <<checks, deadlines, asks>>
          /\ askWaits' = askWaits \/ askWaits' = [askWaits EXCEPT ![f] = op[f].to]
      BY <1>8 DEF IndexAsk
    <2>2. op[f].to \in Flows \cup {NoFlow}
      BY <1>0 DEF Operands
    <2> QED  BY <1>0, <2>1, <2>2 DEF AskTypes
  <1>9. ASSUME NEW f \in Flows, ParkAsk(f) PROVE AskTypes'
    <2> DEFINE c == [asker |-> f, target |-> op[f].to, epoch |-> epoch[f] + 1,
                     timed |-> op[f].timed, gone |-> FALSE]
    <2>1. /\ UNCHANGED <<askWaits, deadlines, asks>>
          /\ checks' = checks \/ checks' = checks \cup {c}
      BY <1>9 DEF ParkAsk
    <2>2. op[f].to \in Flows /\ op[f].timed \in BOOLEAN
      BY <1>0, <1>9 DEF ParkAsk, OpInv, Operands
    <2>3. c \in Checks
      BY <1>0, <2>2 DEF Checks
    <2> HIDE DEF c
    <2> QED  BY <1>0, <2>1, <2>3 DEF AskTypes
  <1>10. ASSUME NEW f \in Flows, NEW t, NEW timed, Ask(f, t, timed) PROVE AskTypes'
    <2>1. /\ UNCHANGED askVars /\ asks[f] < MaxAsks
          /\ asks' = [asks EXCEPT ![f] = @ + 1]
      BY <1>10 DEF Ask
    <2>2. asks[f] \in 0 .. MaxAsks /\ asks[f] + 1 \in 0 .. MaxAsks
      BY <1>0, <2>1, LifecycleAssumption DEF AskTypes
    <2>3. asks' \in [Flows -> 0 .. MaxAsks]
      BY <1>0, <2>1, <2>2 DEF AskTypes
    <2> QED  BY <1>0, <2>1, <2>3 DEF AskTypes, askVars
  <1>11. ASSUME NEW c \in checks, CheckTarget(c) PROVE AskTypes'
    <2>1. /\ UNCHANGED <<askWaits, asks>>
          /\ checks' \subseteq checks \cup {[c EXCEPT !.gone = TRUE]}
          /\ deadlines' \subseteq deadlines \cup {[asker |-> c.asker, epoch |-> c.epoch]}
      BY <1>11 DEF CheckTarget, runVars
    <2>2. [c EXCEPT !.gone = TRUE] \in Checks /\ c.asker \in Flows /\ c.epoch \in Nat
      BY <1>0 DEF AskTypes, Checks
    <2>3. [asker |-> c.asker, epoch |-> c.epoch] \in [asker : Flows, epoch : Nat]
      BY <2>2
    <2>4. checks' \subseteq Checks /\ deadlines' \subseteq [asker : Flows, epoch : Nat]
      BY <1>0, <2>1, <2>2, <2>3, Zenon DEF AskTypes
    <2> QED  BY <1>0, <2>1, <2>4 DEF AskTypes
  <1>12. ASSUME NEW c, WakeSelf(c) \/ FireDeadline(c) PROVE AskTypes'
    BY <1>0, <1>12 DEF WakeSelf, FireDeadline, AskTypes
  <1>13. ASSUME NEW f \in Flows, Drive(f) \/ Program(f) \/ Finalize(f) \/ WakeSleeper(f)
         PROVE  AskTypes'
    <2>1. CASE Drive(f)
      BY <2>1, <1>2, <1>7, <1>8, <1>9 DEF Drive
    <2>2. CASE Program(f)
      BY <2>2, <1>2, <1>4, <1>10, Zenon DEF Program
    <2>3. CASE Finalize(f)
      BY <2>3, <1>3, <1>7 DEF Finalize
    <2> QED  BY <1>13, <2>1, <2>2, <2>3, <1>2
  <1> QED
    BY <1>5, <1>6, <1>11, <1>12, <1>13, Zenon DEF Next

\* Types of the monitors and links.
RelTypes ==
    /\ monitors \subseteq Monitors
    /\ nextMonitor \in Nat
    /\ links \subseteq SUBSET Flows
    /\ settled \subseteq Nat
    /\ tied \subseteq SUBSET Flows

(* Monitors and links are between flows. *)
LEMMA RelStep ==
    ASSUME TypeOK, OpInv, FinInv, [Next]_vars
    PROVE  RelTypes'
  <1>0. RelTypes /\ op \in [Flows -> Operands]
    BY DEF TypeOK, RelTypes, Operands
  <1>1. ASSUME UNCHANGED relVars PROVE RelTypes'
    BY <1>0, <1>1 DEF RelTypes, relVars
  <1>2. ASSUME NEW f \in Flows,
               \/ RunQuantum(f) \/ Yield(f) \/ Sleep(f) \/ WakeSleeper(f) \/ Complete(f)
               \/ Receive(f) \/ ParkReceive(f) \/ Deliver(f) \/ TryReply(f) \/ Unindex(f)
               \/ IndexAsk(f) \/ ParkAsk(f)
        PROVE  RelTypes'
    BY <1>1, <1>2 DEF RunQuantum, Yield, Sleep, WakeSleeper, Complete, Receive, ParkReceive,
                      Deliver, TryReply, Unindex, IndexAsk, ParkAsk
  <1>3. ASSUME NEW f \in Flows,
               \/ FinSignal(f) \/ FinAsker(f) \/ FinOrphans(f) \/ FinWake(f) \/ FinRevoke(f)
               \/ FinUnregister(f) \/ FinPeer(f) \/ FinComplete(f)
        PROVE  RelTypes'
    BY <1>1, <1>3 DEF FinSignal, FinAsker, FinOrphans, FinWake, FinRevoke, FinUnregister,
                      FinPeer, FinComplete
  <1>4. ASSUME NEW f, NEW t, Monitor(f, t) \/ Link(f, t) \/ Answer(f, t) PROVE RelTypes'
    BY <1>1, <1>4 DEF Monitor, Link, Relate, Answer
  <1>5. ASSUME NEW f, NEW t, NEW timed, Ask(f, t, timed) PROVE RelTypes'
    BY <1>1, <1>5 DEF Ask
  <1>6. ASSUME NEW x, \/ Kill(x) \/ SetSignal(x) \/ Extract(x) \/ CheckTarget(x)
                      \/ WakeSelf(x) \/ FireDeadline(x)
        PROVE  RelTypes'
    BY <1>1, <1>6 DEF Kill, SetSignal, Extract, CheckTarget, WakeSelf, FireDeadline
  <1>7. CASE UNCHANGED vars
    BY <1>1, <1>7 DEF vars
  <1>8. ASSUME NEW f \in Flows, CreateMonitor(f) PROVE RelTypes'
    <2> DEFINE m == [ref |-> nextMonitor, owner |-> f, target |-> op[f].to]
    <2>1. /\ monitors' = monitors \cup {m}
          /\ nextMonitor' = nextMonitor + 1
          /\ UNCHANGED <<links, settled, tied>>
      BY <1>8 DEF CreateMonitor
    <2>2. m \in Monitors
      BY <1>0, <1>8 DEF CreateMonitor, OpInv, Monitors, RelTypes
    <2> HIDE DEF m
    <2> QED  BY <1>0, <2>1, <2>2 DEF RelTypes
  <1>9. ASSUME NEW f \in Flows, Demonitor(f) PROVE RelTypes'
    <2>1. /\ monitors' \subseteq monitors
          /\ \E ref \in Nat : settled' \subseteq settled \cup {ref}
          /\ UNCHANGED <<nextMonitor, links, tied>>
      BY <1>0, <1>9 DEF Demonitor, RelTypes
    <2> QED  BY <1>0, <2>1 DEF RelTypes
  <1>10. ASSUME NEW f \in Flows, CreateLink(f) PROVE RelTypes'
    <2>1. op[f].to \in Flows
      BY <1>10 DEF CreateLink, OpInv
    <2>2. /\ links' \subseteq links \cup {{f, op[f].to}}
          /\ tied' \subseteq tied \cup {{f, op[f].to}}
          /\ UNCHANGED <<monitors, nextMonitor, settled>>
      BY <1>10 DEF CreateLink
    <2> QED  BY <1>0, <2>1, <2>2 DEF RelTypes
  <1>11. ASSUME NEW f, NEW pair, Unlink(f, pair) PROVE RelTypes'
    <2>1. /\ links' \subseteq links
          /\ tied' \subseteq tied
          /\ UNCHANGED <<monitors, nextMonitor, settled>>
      BY <1>11 DEF Unlink
    <2> QED  BY <1>0, <2>1 DEF RelTypes
  <1>12. ASSUME NEW f, FinOwned(f) \/ FinNotify(f) \/ FinLinks(f) PROVE RelTypes'
    <2>1. /\ monitors' \subseteq monitors
          /\ links' \subseteq links
          /\ UNCHANGED <<nextMonitor, settled, tied>>
      BY <1>12 DEF FinOwned, FinNotify, FinLinks
    <2> QED  BY <1>0, <2>1 DEF RelTypes
  <1>13. ASSUME NEW f \in Flows, FinDown(f) PROVE RelTypes'
    <2>1. /\ \E m \in fin[f].rest : settled' \subseteq settled \cup {m.ref}
          /\ fin[f].pc = "down"
          /\ UNCHANGED <<monitors, nextMonitor, links, tied>>
      BY <1>13 DEF FinDown
    <2>2. \A m \in fin[f].rest : m.ref \in Nat
      BY <2>1 DEF FinInv, Monitors
    <2> QED  BY <1>0, <2>1, <2>2 DEF RelTypes
  <1>14. ASSUME NEW f \in Flows, Drive(f) \/ Program(f) \/ Finalize(f) \/ WakeSleeper(f)
         PROVE  RelTypes'
    <2>1. CASE Drive(f)
      BY <2>1, <1>2, <1>8, <1>10 DEF Drive
    <2>2. CASE Program(f)
      BY <2>2, <1>2, <1>4, <1>5, <1>9, <1>11, Zenon DEF Program
    <2>3. CASE Finalize(f)
      BY <2>3, <1>3, <1>12, <1>13 DEF Finalize
    <2> QED  BY <1>14, <2>1, <2>2, <2>3, <1>2
  <1> QED
    BY <1>6, <1>7, <1>14, Zenon DEF Next

-----------------------------------------------------------------------------
(* Kill signals and finalization                                           *)

\* Types of the kill signals and of their senders, and of what is alive.
KillTypes ==
    /\ signals \in [Flows -> Reasons \cup {NoSignal}]
    /\ extract \in [Threads -> [pc : {"idle", "set", "take"}, target : Flows \cup {NoFlow}]]
    /\ spared \subseteq Killable
    /\ registered \subseteq Flows
    /\ revoked \subseteq Flows

(* Kill signals are reasons, and killers have flows for targets. *)
LEMMA KillStep ==
    ASSUME TypeOK, [Next]_vars
    PROVE  KillTypes'
  <1>0. KillTypes
    BY DEF TypeOK, KillTypes
  <1>1. ASSUME UNCHANGED <<killVars, liveVars>> PROVE KillTypes'
    BY <1>0, <1>1 DEF KillTypes, killVars, liveVars
  <1>2. ASSUME NEW f \in Flows,
               \/ Yield(f) \/ Sleep(f) \/ WakeSleeper(f) \/ Complete(f)
               \/ Receive(f) \/ ParkReceive(f) \/ Deliver(f) \/ TryReply(f) \/ Unindex(f)
               \/ IndexAsk(f) \/ ParkAsk(f) \/ CreateMonitor(f) \/ Demonitor(f)
               \/ CreateLink(f)
        PROVE  KillTypes'
    BY <1>1, <1>2 DEF Yield, Sleep, WakeSleeper, Complete, Receive, ParkReceive,
                      Deliver, TryReply, Unindex, IndexAsk, ParkAsk, CreateMonitor, Demonitor,
                      CreateLink
  <1>3. ASSUME NEW f \in Flows,
               \/ FinAsker(f) \/ FinOrphans(f) \/ FinWake(f)
               \/ FinOwned(f) \/ FinNotify(f) \/ FinDown(f) \/ FinLinks(f) \/ FinComplete(f)
        PROVE  KillTypes'
    BY <1>1, <1>3 DEF FinAsker, FinOrphans, FinWake, FinOwned, FinNotify, FinDown, FinLinks,
                      FinComplete
  <1>4. ASSUME NEW f, NEW t, Monitor(f, t) \/ Link(f, t) \/ Answer(f, t) \/ Unlink(f, t)
        PROVE  KillTypes'
    BY <1>1, <1>4 DEF Monitor, Link, Relate, Answer, Unlink
  <1>5. ASSUME NEW f, NEW t, NEW timed, Ask(f, t, timed) PROVE KillTypes'
    BY <1>1, <1>5 DEF Ask
  <1>6. ASSUME NEW x, CheckTarget(x) \/ WakeSelf(x) \/ FireDeadline(x) PROVE KillTypes'
    BY <1>1, <1>6 DEF CheckTarget, WakeSelf, FireDeadline
  <1>7. CASE UNCHANGED vars
    BY <1>1, <1>7 DEF vars
  <1>8. ASSUME NEW f \in Flows, RunQuantum(f) \/ FinSignal(f) PROVE KillTypes'
    <2>1. /\ signals' = [signals EXCEPT ![f] = NoSignal]
          /\ UNCHANGED <<extract, spared, liveVars>>
      BY <1>8 DEF RunQuantum, FinSignal
    <2> QED  BY <1>0, <2>1 DEF KillTypes, liveVars
  <1>9. ASSUME NEW f \in Flows, FinRevoke(f) \/ FinUnregister(f) PROVE KillTypes'
    <2>1. /\ revoked' \subseteq revoked \cup {f}
          /\ registered' \subseteq registered
          /\ UNCHANGED killVars
      BY <1>9 DEF FinRevoke, FinUnregister
    <2> QED  BY <1>0, <2>1 DEF KillTypes, killVars
  <1>10. ASSUME NEW k \in Threads, NEW p \in Flows, NEW s \in {"idle", "set", "take"},
               extract' = [extract EXCEPT ![k] = [pc |-> s, target |-> p]]
         PROVE  extract' \in [Threads -> [pc : {"idle", "set", "take"},
                                          target : Flows \cup {NoFlow}]]
    BY <1>0, <1>10 DEF KillTypes
  <1>11. ASSUME NEW p \in Flows, Kill(p) PROVE KillTypes'
    <2>1. Host \in Threads
      BY DEF Threads
    <2>2. /\ extract' = [extract EXCEPT ![Host] = [pc |-> "set", target |-> p]]
          /\ spared' \subseteq spared
          /\ UNCHANGED <<signals, registered, revoked>>
      BY <1>11 DEF Kill, liveVars
    <2> QED  BY <1>0, <1>10, <2>1, <2>2 DEF KillTypes
  <1>12. ASSUME NEW f \in Flows, FinPeer(f) PROVE KillTypes'
    <2>1. f \in Threads
      BY DEF Threads
    <2>2. PICK p : extract' = IF p \in registered
                              THEN [extract EXCEPT ![f] = [pc |-> "set", target |-> p]]
                              ELSE extract
      BY <1>12 DEF FinPeer
    <2>3. UNCHANGED <<signals, spared, registered, revoked>>
      BY <1>12 DEF FinPeer, liveVars
    <2>4. CASE p \in registered
      <3>1. p \in Flows
        BY <1>0, <2>4 DEF KillTypes
      <3>2. extract' \in [Threads -> [pc : {"idle", "set", "take"},
                                      target : Flows \cup {NoFlow}]]
        BY <1>10, <2>1, <2>2, <2>4, <3>1
      <3> QED  BY <1>0, <2>3, <3>2 DEF KillTypes
    <2>5. CASE p \notin registered
      BY <1>0, <2>2, <2>3, <2>5 DEF KillTypes
    <2> QED  BY <2>4, <2>5
  <1>13. ASSUME NEW k \in Threads, SetSignal(k) PROVE KillTypes'
    <2>1. /\ \E r \in {"Killed", "Link"} :
               signals' = [signals EXCEPT ![extract[k].target] = r]
          /\ extract' = [extract EXCEPT ![k].pc = "take"]
          /\ UNCHANGED <<spared, registered, revoked>>
      BY <1>13 DEF SetSignal, liveVars
    <2>2. signals' \in [Flows -> Reasons \cup {NoSignal}]
      BY <1>0, <2>1 DEF KillTypes, Reasons
    <2>3. extract' \in [Threads -> [pc : {"idle", "set", "take"},
                                    target : Flows \cup {NoFlow}]]
      BY <1>0, <2>1 DEF KillTypes
    <2> QED  BY <1>0, <2>1, <2>2, <2>3 DEF KillTypes
  <1>14. ASSUME NEW k \in Threads, Extract(k) PROVE KillTypes'
    <2>1. /\ extract' = [extract EXCEPT ![k] = Idle]
          /\ UNCHANGED <<signals, spared, registered, revoked>>
      BY <1>14 DEF Extract, liveVars
    <2> QED  BY <1>0, <2>1 DEF KillTypes, Idle
  <1>15. ASSUME NEW f \in Flows, Drive(f) \/ Program(f) \/ Finalize(f) \/ WakeSleeper(f)
         PROVE  KillTypes'
    <2>1. CASE Drive(f)
      BY <2>1, <1>2, <1>8 DEF Drive
    <2>2. CASE Program(f)
      BY <2>2, <1>2, <1>4, <1>5, Zenon DEF Program
    <2>3. CASE Finalize(f)
      BY <2>3, <1>3, <1>8, <1>9, <1>12 DEF Finalize
    <2> QED  BY <1>15, <2>1, <2>2, <2>3, <1>2
  <1> QED
    BY <1>6, <1>7, <1>11, <1>13, <1>14, <1>15, Zenon DEF Next

\* A finalizer takes a parked peer, to end it after its own flow.
TakesPeer ==
    /\ \A g \in Flows : /\ fin'[g].pc = fin[g].pc
                        /\ fin'[g].rest = fin[g].rest
                        /\ fin'[g].reason = fin[g].reason
                        /\ fin'[g].work # fin[g].work => fin[g].pc = "peers"

\* What a step does to the finalizations when it is not a step of one.
EndsOnly ==
    /\ outcome' = outcome
    /\ UNCHANGED liveVars
    /\ \A k \in Flows : extract'[k].pc # "idle" => extract[k].pc # "idle"
    /\ fin' = fin \/ (\E f \in Flows : Begins(f)) \/ TakesPeer

(* A step that is not a finalizer's begins one finalization at most, and   *)
(* leaves the directory and the Caps alone.                                *)
LEMMA EndStep ==
    ASSUME TypeOK, FinInv, PlaceInv, [Next]_vars
    PROVE  (\E f \in Flows : Finalize(f)) \/ EndsOnly
  <1>0. /\ fin \in [Flows -> FinRecords]
        /\ cpu \in [Flows -> CpuStates]
        /\ signals \in [Flows -> Reasons \cup {NoSignal}]
        /\ extract \in [Threads -> [pc : {"idle", "set", "take"},
                                    target : Flows \cup {NoFlow}]]
        /\ parked \subseteq Flows
    BY DEF TypeOK, FinRecords
  <1>1. ASSUME UNCHANGED <<liveVars, endVars, extract>> PROVE EndsOnly
    BY <1>1 DEF EndsOnly, endVars
  <1>2. ASSUME NEW f \in Flows, NEW reason \in Reasons, cpu[f] # "none" \/ f \in ready,
               BeginFinalize(f, reason, <<>>), UNCHANGED <<liveVars, outcome, extract>>
        PROVE  EndsOnly
    <2>1. fin[f].pc = "none"
      BY <1>2 DEF PlaceInv, ExactlyOne
    <2>2. Begins(f)
      BY <1>2, <2>1, BeginFinalizeBegins
    <2> QED  BY <1>2, <2>2 DEF EndsOnly
  <1>3. ASSUME NEW f \in Flows,
               \/ Yield(f) \/ Sleep(f) \/ WakeSleeper(f) \/ Receive(f) \/ ParkReceive(f)
               \/ Deliver(f) \/ TryReply(f) \/ Unindex(f) \/ ParkAsk(f) \/ CreateMonitor(f)
        PROVE  EndsOnly
    BY <1>1, <1>3 DEF Yield, Sleep, WakeSleeper, Receive, ParkReceive, Deliver, TryReply,
                      Unindex, ParkAsk, CreateMonitor, killVars
  <1>4. ASSUME NEW f \in Flows, NEW reason \in Reasons, cpu[f] # "none", Finish(f, reason),
               UNCHANGED <<liveVars, outcome, extract>>
        PROVE  EndsOnly
    BY <1>2, <1>4 DEF Finish
  <1>5. "Fault" \in Reasons /\ "Normal" \in Reasons
    BY DEF Reasons
  <1>6. ASSUME NEW f \in Flows, Complete(f) \/ IndexAsk(f) \/ Demonitor(f) \/ CreateLink(f)
        PROVE  EndsOnly
    <2>1. /\ cpu[f] # "none" /\ UNCHANGED <<liveVars, outcome, extract>>
          /\ fin' = fin \/ \E reason \in {"Normal", "Fault"} : Finish(f, reason)
      BY <1>6 DEF Complete, IndexAsk, Demonitor, CreateLink, killVars
    <2> QED  BY <1>1, <1>4, <1>5, <2>1 DEF endVars
  <1>7. ASSUME NEW f \in Flows, NEW t, NEW next, NEW operands, Present(f, t, next, operands),
               cpu[f] = "run", UNCHANGED <<liveVars, outcome, extract>>
        PROVE  EndsOnly
    BY <1>1, <1>4, <1>5, <1>7, PresentProperties DEF endVars
  <1>8. ASSUME NEW f \in Flows, NEW t, Monitor(f, t) \/ Link(f, t) \/ Answer(f, t)
        PROVE  EndsOnly
    <2>1. /\ cpu[f] = "run" /\ UNCHANGED <<liveVars, outcome, extract>>
          /\ \E x, next, operands : Present(f, x, next, operands)
      BY <1>8 DEF Monitor, Link, Relate, Answer, killVars
    <2> QED  BY <1>7, <2>1
  <1>9. ASSUME NEW f \in Flows, NEW t, NEW timed, Ask(f, t, timed) PROVE EndsOnly
    <2>1. /\ cpu[f] = "run" /\ UNCHANGED <<liveVars, outcome, extract>>
          /\ \E next, operands : Present(f, t, next, operands)
      BY <1>9 DEF Ask, killVars
    <2> QED  BY <1>7, <2>1
  <1>10. ASSUME NEW f \in Flows, NEW pair, Unlink(f, pair) PROVE EndsOnly
    <2>1. /\ cpu[f] # "none" /\ UNCHANGED <<liveVars, outcome, extract>>
          /\ fin' = fin \/ Finish(f, "Fault")
      BY <1>10 DEF Unlink, killVars
    <2> QED  BY <1>1, <1>4, <1>5, <2>1 DEF endVars
  <1>11. ASSUME NEW f \in Flows, RunQuantum(f) PROVE EndsOnly
    <2>1. /\ f \in ready /\ UNCHANGED <<liveVars, outcome, extract>>
          /\ \/ fin' = fin
             \/ signals[f] # NoSignal /\ BeginFinalize(f, signals[f], <<>>)
      BY <1>11 DEF RunQuantum
    <2>2. CASE fin' = fin
      BY <1>1, <2>1, <2>2 DEF endVars
    <2>3. CASE signals[f] # NoSignal /\ BeginFinalize(f, signals[f], <<>>)
      <3>1. signals[f] \in Reasons
        BY <1>0, <2>3
      <3> QED  BY <1>2, <2>1, <2>3, <3>1
    <2> QED  BY <2>1, <2>2, <2>3
  <1>12. ASSUME NEW x, CheckTarget(x) \/ WakeSelf(x) \/ FireDeadline(x) PROVE EndsOnly
    BY <1>1, <1>12 DEF CheckTarget, WakeSelf, FireDeadline, killVars
  <1>13. CASE UNCHANGED vars
    BY <1>1, <1>13 DEF vars, killVars
  <1>14. \A k \in Flows : k # Host
    BY LifecycleAssumption
  <1>15. ASSUME NEW p, Kill(p) PROVE EndsOnly
    <2>1. /\ UNCHANGED <<liveVars, endVars>>
          /\ extract' = [extract EXCEPT ![Host] = [pc |-> "set", target |-> p]]
      BY <1>15 DEF Kill
    <2>2. \A k \in Flows : extract'[k] = extract[k]
      BY <1>0, <1>14, <2>1 DEF Threads
    <2> QED  BY <2>1, <2>2 DEF EndsOnly, endVars
  <1>16. ASSUME NEW k \in Threads, SetSignal(k) PROVE EndsOnly
    <2>1. /\ UNCHANGED <<liveVars, endVars>>
          /\ extract[k].pc = "set"
          /\ extract' = [extract EXCEPT ![k].pc = "take"]
      BY <1>16 DEF SetSignal
    <2>2. \A j \in Flows : j # k => extract'[j] = extract[j]
      BY <1>0, <2>1 DEF Threads
    <2> QED  BY <2>1, <2>2 DEF EndsOnly, endVars
  <1>17. ASSUME NEW k \in Threads, Extract(k) PROVE EndsOnly
    <2> DEFINE p == extract[k].target
    <2>1. /\ UNCHANGED <<liveVars, outcome>>
          /\ extract[k].pc = "take"
          /\ extract' = [extract EXCEPT ![k] = Idle]
          /\ \/ fin' = fin
             \/ /\ p \in parked
                /\ IF k = Host
                   THEN BeginFinalize(p, "Killed", <<>>)
                   ELSE fin' = [fin EXCEPT ![k].work = Append(@, p)]
      BY <1>17 DEF Extract, TakeParked
    <2>2. \A j \in Flows : extract'[j].pc # "idle" => extract[j].pc # "idle"
      BY <1>0, <2>1 DEF Threads
    <2>3. CASE fin' = fin
      BY <2>1, <2>2, <2>3 DEF EndsOnly
    <2>4. CASE p \in parked /\ BeginFinalize(p, "Killed", <<>>)
      <3>1. p \in Flows /\ fin[p].pc = "none"
        BY <1>0, <2>4 DEF PlaceInv, ExactlyOne
      <3> HIDE DEF p
      <3>2. Begins(p)
        BY <2>4, <3>1, BeginFinalizeBegins DEF Reasons
      <3> QED  BY <2>1, <2>2, <3>1, <3>2 DEF EndsOnly
    <2>5. CASE k # Host /\ fin' = [fin EXCEPT ![k].work = Append(@, p)]
      <3>1. k \in Flows /\ fin[k].pc = "peers"
        BY <2>1, <2>5 DEF FinInv, Threads
      <3> DEFINE w == Append(fin[k].work, p)
                 rec == [fin[k] EXCEPT !.work = w]
      <3>2. fin' = [fin EXCEPT ![k] = rec]
        BY <1>0, <2>5
      <3>3. fin[k] \in FinRecords
        BY <1>0, <3>1
      <3> HIDE DEF w
      <3>4. rec.pc = fin[k].pc /\ rec.rest = fin[k].rest /\ rec.reason = fin[k].reason
        BY <3>3 DEF FinRecords
      <3> HIDE DEF rec
      <3>5. fin'[k] = rec /\ \A g \in Flows : g # k => fin'[g] = fin[g]
        BY <1>0, <3>1, <3>2
      <3>6. TakesPeer
        BY <3>1, <3>4, <3>5 DEF TakesPeer
      <3> QED  BY <2>1, <2>2, <3>6 DEF EndsOnly
    <2> QED  BY <2>1, <2>3, <2>4, <2>5
  <1>18. ASSUME NEW f \in Flows, Drive(f) \/ Program(f) \/ WakeSleeper(f) PROVE EndsOnly
    <2>1. CASE Drive(f)
      BY <2>1, <1>3, <1>6, <1>11 DEF Drive
    <2>2. CASE Program(f)
      BY <2>2, <1>3, <1>6, <1>8, <1>9, <1>10, Zenon DEF Program
    <2> QED  BY <1>18, <2>1, <2>2, <1>3
  <1> QED
    BY <1>12, <1>13, <1>15, <1>16, <1>17, <1>18, Zenon DEF Next

\* Caps stay revoked, and nobody returns to the directory.
LiveShrinks == revoked \subseteq revoked' /\ registered' \subseteq registered

(* Finalization goes through its steps in order. *)
LEMMA FinStepInv ==
    ASSUME TypeOK, FinInv, WorkInv, PlaceInv, [Next]_vars
    PROVE  FinInv' /\ LiveShrinks
  <1>0. /\ fin \in [Flows -> FinRecords]
        /\ monitors \subseteq Monitors
        /\ extract \in [Threads -> [pc : {"idle", "set", "take"},
                                    target : Flows \cup {NoFlow}]]
    BY DEF TypeOK, FinRecords
  <1>1. CASE EndsOnly
    <2>0. /\ outcome' = outcome
          /\ registered' = registered /\ revoked' = revoked
          /\ \A k \in Flows : extract'[k].pc # "idle" => extract[k].pc # "idle"
      BY <1>1 DEF EndsOnly, liveVars
    <2>1. CASE fin' = fin
      BY <2>0, <2>1 DEF FinInv, LiveShrinks
    <2>2. ASSUME NEW f \in Flows, Begins(f) PROVE FinInv' /\ LiveShrinks
      <3>1. /\ fin[f].pc = "none" /\ fin'[f].pc = "signal"
            /\ \A g \in Flows : g # f => fin'[g] = fin[g]
        BY <2>2 DEF Begins
      <3>2. outcome'[f] = NotYet
        BY <3>1, <2>0, PlaceStep DEF PlaceInv, ExactlyOne
      <3>3. f \in registered /\ extract[f].pc = "idle"
        BY <2>0, <3>1, <3>2 DEF FinInv
      <3> QED  BY <2>0, <3>1, <3>3 DEF FinInv, LiveShrinks
    <2>3. CASE TakesPeer
      BY <2>0, <2>3 DEF FinInv, TakesPeer, LiveShrinks
    <2> QED  BY <1>1, <2>1, <2>2, <2>3 DEF EndsOnly
  <1>2. ASSUME NEW f \in Flows, FinSignal(f) \/ FinAsker(f) \/ FinOrphans(f) \/ FinWake(f)
        PROVE  FinInv' /\ LiveShrinks
    <2>1. Advances(f) /\ outcome' = outcome
      BY <1>2, FinalizeAdvances
    <2>2. /\ fin[f].pc \in {"signal", "asker", "orphans", "wake"}
          /\ fin'[f].pc \in {"asker", "orphans", "wake"}
      BY <1>0, <1>2 DEF FinSignal, FinAsker, FinOrphans, FinWake, FinStep, FinRecords
    <2>3. UNCHANGED <<extract, registered, revoked>>
      BY <1>2 DEF FinSignal, FinAsker, FinOrphans, FinWake, liveVars, killVars
    <2> QED  BY <2>1, <2>2, <2>3 DEF FinInv, Advances, LiveShrinks
  <1>3. ASSUME NEW f \in Flows, FinRevoke(f) PROVE FinInv' /\ LiveShrinks
    <2>1. Advances(f) /\ outcome' = outcome
      BY <1>3, FinalizeAdvances
    <2>2. fin[f].pc = "wake" /\ fin'[f].pc = "unregister"
      BY <1>0, <1>3 DEF FinRevoke, FinStep, FinRecords
    <2>3. UNCHANGED <<extract, registered>> /\ revoked' = revoked \cup {f}
      BY <1>3 DEF FinRevoke, killVars
    <2> QED  BY <2>1, <2>2, <2>3 DEF FinInv, Advances, LiveShrinks
  <1>4. ASSUME NEW f \in Flows, FinUnregister(f) PROVE FinInv' /\ LiveShrinks
    <2>1. Advances(f) /\ outcome' = outcome
      BY <1>4, FinalizeAdvances
    <2>2. fin[f].pc = "unregister" /\ fin'[f].pc = "owned"
      BY <1>0, <1>4 DEF FinUnregister, FinStep, FinRecords
    <2>3. UNCHANGED <<extract, revoked>> /\ registered' = registered \ {f}
      BY <1>4 DEF FinUnregister, killVars
    <2> QED  BY <2>1, <2>2, <2>3 DEF FinInv, Advances, LiveShrinks
  <1>5. ASSUME NEW f \in Flows, FinOwned(f) \/ FinNotify(f) \/ FinDown(f) \/ FinLinks(f)
        PROVE  FinInv' /\ LiveShrinks
    <2>1. Advances(f) /\ outcome' = outcome
      BY <1>5, FinalizeAdvances
    <2>2. /\ fin[f].pc \in {"owned", "notify", "down"}
          /\ fin'[f].pc \in {"notify", "down", "peers"}
          /\ fin'[f].pc = "down" => fin'[f].rest \subseteq Monitors
      <3>1. CASE FinOwned(f)
        BY <1>0, <3>1 DEF FinOwned, FinStep, FinRecords
      <3>2. CASE FinNotify(f)
        BY <1>0, <3>2 DEF FinNotify, FinRecords
      <3>3. CASE FinDown(f)
        <4>1. fin[f].pc = "down" /\ fin[f].rest \subseteq Monitors
          BY <3>3 DEF FinDown, FinInv
        <4>2. PICK m : fin' = [fin EXCEPT ![f].rest = @ \ {m}]
          BY <3>3 DEF FinDown
        <4> QED  BY <1>0, <4>1, <4>2 DEF FinRecords
      <3>4. CASE FinLinks(f)
        BY <1>0, <3>4 DEF FinLinks, FinRecords
      <3> QED  BY <1>5, <3>1, <3>2, <3>3, <3>4
    <2>3. UNCHANGED <<extract, registered, revoked>>
      BY <1>5 DEF FinOwned, FinNotify, FinDown, FinLinks, liveVars, killVars
    <2> QED  BY <2>1, <2>2, <2>3 DEF FinInv, Advances, LiveShrinks
  <1>6. ASSUME NEW f \in Flows, FinPeer(f) PROVE FinInv' /\ LiveShrinks
    <2>1. Advances(f) /\ outcome' = outcome
      BY <1>6, FinalizeAdvances
    <2>2. fin[f].pc = "peers" /\ fin'[f].pc = "peers"
      BY <1>0, <1>6 DEF FinPeer, FinRecords
    <2>3. UNCHANGED <<registered, revoked>>
      BY <1>6 DEF FinPeer, liveVars
    <2>4. \A k \in Flows : k # f => extract'[k] = extract[k]
      BY <1>0, <1>6 DEF FinPeer, Threads
    <2> QED  BY <2>1, <2>2, <2>3, <2>4 DEF FinInv, Advances, LiveShrinks
  <1>7. ASSUME NEW f \in Flows, FinComplete(f) PROVE FinInv' /\ LiveShrinks
    <2>0. PlaceTypes
      BY DEF TypeOK, PlaceTypes, FinRecords
    <2>1. /\ fin'[f].pc = "none" /\ fin'[f].work = <<>>
          /\ \A g \in Flows : g # f => outcome'[g] = outcome[g]
          /\ outcome'[f] = fin[f].reason
          /\ \A g \in Flows : g # f =>
                \/ fin'[g] = fin[g]
                \/ /\ g \in Queued /\ fin[g].pc = "none"
                   /\ fin'[g].pc = "signal" /\ fin'[g].rest = {}
      BY <1>7, <2>0, CompleteProperties
    <2>2. /\ extract[f].pc = "idle" /\ fin[f].pc = "peers"
          /\ UNCHANGED <<extract, registered, revoked>>
      BY <1>7 DEF FinComplete, Idle, killVars, liveVars
    <2>3. fin[f].reason # NotYet
      BY <1>0 DEF FinRecords, Reasons, NotYet
    <2>4. \A g \in Flows : g \in Queued => outcome[g] = NotYet
      BY DEF PlaceInv, ExactlyOne
    <2> QED  BY <2>1, <2>2, <2>3, <2>4 DEF FinInv, LiveShrinks
  <1>8. ASSUME NEW f \in Flows, Finalize(f) PROVE FinInv' /\ LiveShrinks
    BY <1>8, <1>2, <1>3, <1>4, <1>5, <1>6, <1>7 DEF Finalize
  <1> QED  BY <1>1, <1>8, EndStep

(* Nobody holds a DOWN of a flow that is still there. *)
LEMMA DownStep ==
    ASSUME TypeOK, OpInv, FinInv, WorkInv, PlaceInv, DownAfterGone, [Next]_vars
    PROVE  DownAfterGone'
  <1>1. NewsInOrder
    BY MailStep
  <1>2. LiveShrinks
    BY FinStepInv
  <1>3. ASSUME NEW g \in Flows, NEW h \in HeldBy(g)', h.tag = "down"
        PROVE  h.sender \in revoked' \ registered'
    <2>1. h.sender \in revoked \ registered
      <3>1. CASE h \in HeldBy(g)
        BY <1>3, <3>1 DEF DownAfterGone, HeldBy
      <3>2. CASE h.sender \in Flows /\ fin[h.sender].pc = "down"
        BY <3>2 DEF FinInv
      <3> QED  BY <1>1, <1>3, <3>1, <3>2 DEF NewsInOrder
    <2> QED  BY <1>2, <2>1 DEF LiveShrinks
  <1> QED  BY <1>3 DEF DownAfterGone, HeldBy

-----------------------------------------------------------------------------
(* Links                                                                   *)

\* A kill signal stays until its flow ends.
SignalsStay == \A p \in Flows : signals[p] # NoSignal => signals'[p] # NoSignal \/ Gone(p)'

\* A finalizer that has a peer to signal does so before anything else.
ExtractsStay ==
    \A f, p \in Flows :
        extract[f].pc = "set" /\ extract[f].target = p =>
            extract'[f] = extract[f] \/ signals'[p] # NoSignal

\* No link leaves the table and stays tied.
LinksStay == tied' \ links' \subseteq tied \ links

(* Only remove_links_of takes a link that no program has withdrawn. *)
LEMMA LinkTables ==
    ASSUME TypeOK, [Next]_vars
    PROVE  /\ SignalsStay /\ ExtractsStay
           /\ LinksStay \/ \E f \in Flows : FinLinks(f)
  <1>0. /\ signals \in [Flows -> Reasons \cup {NoSignal}]
        /\ extract \in [Threads -> [pc : {"idle", "set", "take"},
                                    target : Flows \cup {NoFlow}]]
        /\ fin \in [Flows -> FinRecords]
    BY DEF TypeOK, FinRecords
  <1> DEFINE Goal == SignalsStay /\ ExtractsStay /\ LinksStay
  <1>1. ASSUME UNCHANGED <<signals, extract, links, tied>> PROVE Goal
    BY <1>1 DEF SignalsStay, ExtractsStay, LinksStay
  <1>2. ASSUME NEW f \in Flows,
               \/ Yield(f) \/ Sleep(f) \/ WakeSleeper(f) \/ Complete(f)
               \/ Receive(f) \/ ParkReceive(f) \/ Deliver(f) \/ TryReply(f) \/ Unindex(f)
               \/ IndexAsk(f) \/ ParkAsk(f) \/ CreateMonitor(f) \/ Demonitor(f)
        PROVE  Goal
    BY <1>1, <1>2 DEF Yield, Sleep, WakeSleeper, Complete, Receive, ParkReceive, Deliver,
                      TryReply, Unindex, IndexAsk, ParkAsk, CreateMonitor, Demonitor,
                      killVars, relVars
  <1>3. ASSUME NEW f \in Flows,
               \/ FinAsker(f) \/ FinOrphans(f) \/ FinWake(f) \/ FinRevoke(f)
               \/ FinUnregister(f) \/ FinOwned(f) \/ FinNotify(f) \/ FinDown(f)
               \/ FinComplete(f)
        PROVE  Goal
    BY <1>1, <1>3 DEF FinAsker, FinOrphans, FinWake, FinRevoke, FinUnregister, FinOwned,
                      FinNotify, FinDown, FinComplete, killVars, relVars
  <1>4. ASSUME NEW f, NEW t, Monitor(f, t) \/ Link(f, t) \/ Answer(f, t) PROVE Goal
    BY <1>1, <1>4 DEF Monitor, Link, Relate, Answer, killVars, relVars
  <1>5. ASSUME NEW f, NEW t, NEW timed, Ask(f, t, timed) PROVE Goal
    BY <1>1, <1>5 DEF Ask, killVars, relVars
  <1>6. ASSUME NEW x, CheckTarget(x) \/ WakeSelf(x) \/ FireDeadline(x) PROVE Goal
    BY <1>1, <1>6 DEF CheckTarget, WakeSelf, FireDeadline, killVars, relVars
  <1>7. ASSUME UNCHANGED vars PROVE Goal
    BY <1>1, <1>7 DEF vars, killVars, relVars
  <1>8. ASSUME NEW f, NEW pair, Unlink(f, pair) PROVE Goal
    <2>1. UNCHANGED <<signals, extract>> /\ LinksStay
      BY <1>8 DEF Unlink, LinksStay, killVars
    <2> QED  BY <2>1 DEF SignalsStay, ExtractsStay
  <1>9. ASSUME NEW f, CreateLink(f) PROVE Goal
    <2>1. UNCHANGED <<signals, extract>> /\ LinksStay
      BY <1>9 DEF CreateLink, LinksStay, killVars
    <2> QED  BY <2>1 DEF SignalsStay, ExtractsStay
  <1>10. ASSUME NEW f, FinLinks(f) PROVE SignalsStay /\ ExtractsStay
    BY <1>10 DEF FinLinks, SignalsStay, ExtractsStay, killVars
  <1>11. ASSUME NEW f \in Flows, RunQuantum(f) \/ FinSignal(f) PROVE Goal
    <2>1. /\ signals' = [signals EXCEPT ![f] = NoSignal]
          /\ UNCHANGED <<extract, links, tied>>
          /\ signals[f] # NoSignal => fin'[f].pc \in {"signal", "asker"}
      <3>1. CASE RunQuantum(f)
        BY <1>0, <3>1 DEF RunQuantum, BeginFinalize, relVars
      <3>2. CASE FinSignal(f)
        <4>1. fin'[f].pc = "asker"
          BY <1>0, <3>2 DEF FinSignal, FinStep, FinRecords
        <4> QED  BY <3>2, <4>1 DEF FinSignal, relVars
      <3> QED  BY <1>11, <3>1, <3>2
    <2>2. signals[f] # NoSignal => Gone(f)'
      BY <2>1 DEF Gone, Ending
    <2>3. \A p \in Flows : p # f => signals'[p] = signals[p]
      BY <1>0, <2>1
    <2> QED  BY <2>1, <2>2, <2>3 DEF SignalsStay, ExtractsStay, LinksStay
  <1>12. \A k \in Flows : k # Host
    BY LifecycleAssumption
  <1>13. ASSUME NEW p, Kill(p) PROVE Goal
    <2>1. /\ UNCHANGED <<signals, links, tied>>
          /\ extract' = [extract EXCEPT ![Host] = [pc |-> "set", target |-> p]]
      BY <1>13 DEF Kill, relVars
    <2>2. \A k \in Flows : extract'[k] = extract[k]
      BY <1>0, <1>12, <2>1 DEF Threads
    <2> QED  BY <2>1, <2>2 DEF SignalsStay, ExtractsStay, LinksStay
  <1>14. ASSUME NEW f \in Flows, FinPeer(f) PROVE Goal
    <2>1. /\ UNCHANGED <<signals, links, tied>>
          /\ extract[f].pc = "idle"
      BY <1>14 DEF FinPeer, relVars, Idle
    <2>2. \A k \in Flows : k # f => extract'[k] = extract[k]
      BY <1>0, <1>14 DEF FinPeer, Threads
    <2> QED  BY <2>1, <2>2 DEF SignalsStay, ExtractsStay, LinksStay
  <1>15. ASSUME NEW k \in Threads, SetSignal(k) PROVE Goal
    <2>1. PICK r \in {"Killed", "Link"} : signals' = [signals EXCEPT ![extract[k].target] = r]
      BY <1>15 DEF SetSignal
    <2>2. /\ extract' = [extract EXCEPT ![k].pc = "take"]
          /\ UNCHANGED <<links, tied>>
      BY <1>15 DEF SetSignal, relVars
    <2>3. r # NoSignal
      BY <2>1 DEF NoSignal
    <2>4. \A p \in Flows : signals'[p] = signals[p] \/ signals'[p] = r
      BY <1>0, <2>1
    <2>5. \A p \in Flows : extract[k].target = p => signals'[p] = r
      BY <1>0, <2>1
    <2>6. \A j \in Flows : j # k => extract'[j] = extract[j]
      BY <1>0, <2>2 DEF Threads
    <2> QED  BY <2>2, <2>3, <2>4, <2>5, <2>6 DEF SignalsStay, ExtractsStay, LinksStay
  <1>16. ASSUME NEW k \in Threads, Extract(k) PROVE Goal
    <2>1. /\ extract[k].pc = "take"
          /\ extract' = [extract EXCEPT ![k] = Idle]
          /\ UNCHANGED <<signals, links, tied>>
      BY <1>16 DEF Extract, relVars
    <2>2. \A j \in Flows : j # k => extract'[j] = extract[j]
      BY <1>0, <2>1 DEF Threads
    <2> QED  BY <2>1, <2>2 DEF SignalsStay, ExtractsStay, LinksStay
  <1>17. ASSUME NEW f \in Flows, Finalize(f) PROVE Goal \/ FinLinks(f)
    BY <1>17, <1>3, <1>11, <1>14 DEF Finalize
  <1>18. CASE \E f \in Flows : FinLinks(f)
    BY <1>10, <1>18
  <1> HIDE DEF Goal
  <1>19. ASSUME NEW f \in Flows, Drive(f) \/ Program(f) \/ WakeSleeper(f) PROVE Goal
    <2>1. CASE Drive(f)
      BY <2>1, <1>2, <1>9, <1>11 DEF Drive
    <2>2. CASE Program(f)
      BY <2>2, <1>2, <1>4, <1>5, <1>8, Zenon DEF Program
    <2> QED  BY <1>19, <2>1, <2>2, <1>2
  <1> DEFINE Result == Goal \/ \E f \in Flows : FinLinks(f)
  <1>20. ASSUME NEW f \in Flows, Drive(f) \/ Program(f) \/ Finalize(f) \/ WakeSleeper(f)
         PROVE  Result
    BY <1>17, <1>19, <1>20
  <1>21. Goal => Result
    OBVIOUS
  <1> HIDE DEF Result
  <1>22. Result
    BY <1>6, <1>7, <1>13, <1>15, <1>16, <1>20, <1>21, Zenon DEF Next
  <1> QED  BY <1>18, <1>22 DEF Goal, Result

\* Who has collected its links, and how it ends, does not change.
EndsStay ==
    \A g \in Flows : /\ LinksTaken(g)' <=> LinksTaken(g)
                     /\ LinksTaken(g)' /\ Abnormal(g)' => Abnormal(g)

\* A peer that f's finalizer is yet to see to is not forgotten.
PeersStay ==
    \A f, p \in Flows :
        /\ fin[f].pc = "peers"
        /\ p \in fin[f].rest \/ (extract[f].pc = "set" /\ extract[f].target = p)
        => Doomed(f, p)'

(* Every step but remove_links_of leaves the links' fate as it is. *)
LEMMA PeerStep ==
    ASSUME TypeOK, FinInv, WorkInv, PlaceInv, [Next]_vars, \A f \in Flows : ~FinLinks(f)
    PROVE  EndsStay /\ PeersStay
  <1>0. /\ fin \in [Flows -> FinRecords]
        /\ extract \in [Threads -> [pc : {"idle", "set", "take"},
                                    target : Flows \cup {NoFlow}]]
    BY DEF TypeOK, FinRecords
  <1>1. ExtractsStay
    BY LinkTables
  <1>2. ASSUME \A g \in Flows : fin[g].pc = "peers" => fin'[g].pc = "peers"
                                                    /\ fin'[g].rest = fin[g].rest
        PROVE  PeersStay
    BY <1>1, <1>2 DEF PeersStay, Doomed, ExtractsStay
  <1>3. ASSUME outcome' = outcome,
               \A g \in Flows : /\ fin'[g].pc = "peers" <=> fin[g].pc = "peers"
                                /\ fin'[g].pc = "peers" => fin'[g].reason = fin[g].reason
        PROVE  EndsStay
    BY <1>3 DEF EndsStay, LinksTaken, Abnormal
  <1>4. CASE EndsOnly
    <2>1. outcome' = outcome
      BY <1>4 DEF EndsOnly
    <2>2. \A g \in Flows : /\ fin'[g].pc = "peers" <=> fin[g].pc = "peers"
                           /\ fin'[g].pc = "peers" => /\ fin'[g].reason = fin[g].reason
                                                      /\ fin'[g].rest = fin[g].rest
      BY <1>4 DEF EndsOnly, Begins, TakesPeer
    <2> QED  BY <1>2, <1>3, <2>1, <2>2
  <1>5. ASSUME NEW f \in Flows,
               \/ FinSignal(f) \/ FinAsker(f) \/ FinOrphans(f) \/ FinWake(f) \/ FinRevoke(f)
               \/ FinUnregister(f) \/ FinOwned(f) \/ FinNotify(f) \/ FinDown(f)
        PROVE  EndsStay /\ PeersStay
    <2>1. Advances(f) /\ outcome' = outcome
      BY <1>5, FinalizeAdvances
    <2>2. fin[f].pc # "peers" /\ fin'[f].pc # "peers"
      BY <1>0, <1>5 DEF FinSignal, FinAsker, FinOrphans, FinWake, FinRevoke, FinUnregister,
                        FinOwned, FinNotify, FinDown, FinStep, FinRecords
    <2> QED  BY <1>2, <1>3, <2>1, <2>2 DEF Advances
  <1>6. ASSUME NEW f \in Flows, FinPeer(f) PROVE EndsStay /\ PeersStay
    <2>1. Advances(f) /\ outcome' = outcome
      BY <1>6, FinalizeAdvances
    <2>2. PICK q : /\ fin' = [fin EXCEPT ![f].rest = @ \ {q}]
                   /\ extract' = IF q \in registered
                                 THEN [extract EXCEPT ![f] = [pc |-> "set", target |-> q]]
                                 ELSE extract
      BY <1>6 DEF FinPeer
    <2>3. /\ fin[f].pc = "peers" /\ fin'[f].pc = "peers"
          /\ fin'[f].rest = fin[f].rest \ {q}
      BY <1>0, <1>6, <2>2 DEF FinPeer, FinRecords
    <2>4. extract[f].pc = "idle" /\ f \in Threads
      BY <1>6 DEF FinPeer, Idle, Threads
    <2>5. \A g \in Flows : g # f => fin'[g] = fin[g] /\ extract'[g] = extract[g]
      BY <1>0, <2>1, <2>2 DEF Advances, Threads
    <2>6. EndsStay
      BY <1>3, <2>1, <2>3, <2>5 DEF Advances
    <2>7. ASSUME NEW p \in Flows, p \in fin[f].rest PROVE Doomed(f, p)'
      <3>1. CASE p # q
        BY <2>3, <2>7, <3>1 DEF Doomed
      <3>2. CASE p = q /\ q \in registered
        <4>1. extract'[f] = [pc |-> "set", target |-> q]
          BY <1>0, <2>2, <2>4, <3>2
        <4> QED  BY <2>3, <3>2, <4>1 DEF Doomed
      <3>3. CASE p = q /\ q \notin registered
        <4>1. Gone(p)
          BY <3>3 DEF FinInv, Gone, Ending
        <4>2. Gone(p)'
          BY <4>1, PlaceStep DEF GoneStays
        <4> QED  BY <4>2 DEF Doomed
      <3> QED  BY <3>1, <3>2, <3>3
    <2>8. PeersStay
      BY <2>4, <2>5, <2>7 DEF PeersStay, Doomed
    <2> QED  BY <2>6, <2>8
  <1>7. ASSUME NEW f \in Flows, FinComplete(f) PROVE EndsStay /\ PeersStay
    <2>0. PlaceTypes
      BY DEF TypeOK, PlaceTypes, FinRecords
    <2>1. /\ fin'[f].pc = "none"
          /\ \A g \in Flows : g # f => outcome'[g] = outcome[g]
          /\ outcome'[f] = fin[f].reason
          /\ \A g \in Flows : g # f =>
                \/ fin'[g] = fin[g]
                \/ fin[g].pc = "none" /\ fin'[g].pc = "signal"
      BY <1>7, <2>0, CompleteProperties
    <2>2. /\ extract[f].pc = "idle" /\ fin[f].pc = "peers" /\ fin[f].rest = {}
          /\ extract' = extract
      BY <1>7 DEF FinComplete, Idle, killVars
    <2>3. fin[f].reason # NotYet
      BY <1>0 DEF FinRecords, Reasons, NotYet
    <2>4. EndsStay
      BY <2>1, <2>2, <2>3 DEF EndsStay, LinksTaken, Abnormal
    <2>5. PeersStay
      BY <2>1, <2>2 DEF PeersStay, Doomed
    <2> QED  BY <2>4, <2>5
  <1>8. ASSUME NEW f \in Flows, Finalize(f) PROVE EndsStay /\ PeersStay
    BY <1>8, <1>5, <1>6, <1>7 DEF Finalize
  <1> QED  BY <1>4, <1>8, EndStep

(* A link that is taken is seen to. *)
LEMMA LinkStep ==
    ASSUME TypeOK, FinInv, WorkInv, PlaceInv, LinkInv, [Next]_vars
    PROVE  LinkInv'
  <1>0. /\ SignalsStay /\ ExtractsStay
        /\ LinksStay \/ \E f \in Flows : FinLinks(f)
        /\ GoneStays
    BY LinkTables, PlaceStep
  <1>1. CASE \A f \in Flows : ~FinLinks(f)
    <2>1. EndsStay /\ PeersStay /\ LinksStay
      BY <1>0, <1>1, PeerStep
    <2>2. ASSUME NEW f \in Flows, NEW p \in Flows, Doomed(f, p) PROVE Doomed(f, p)'
      <3>1. CASE Gone(p)
        BY <1>0, <3>1 DEF GoneStays, Doomed
      <3>2. CASE signals[p] # NoSignal
        BY <1>0, <3>2 DEF SignalsStay, Doomed
      <3>3. CASE /\ fin[f].pc = "peers"
                 /\ p \in fin[f].rest \/ (extract[f].pc = "set" /\ extract[f].target = p)
        BY <2>1, <3>3 DEF PeersStay
      <3> QED  BY <2>2, <3>1, <3>2, <3>3 DEF Doomed
    <2>3. ASSUME NEW f \in Flows, NEW p \in Flows, f # p, {f, p} \in tied' \ links'
          PROVE  /\ LinksTaken(f)' \/ LinksTaken(p)'
                 /\ LinksTaken(f)' /\ Abnormal(f)' => Doomed(f, p)'
      <3>1. /\ LinksTaken(f) \/ LinksTaken(p)
            /\ LinksTaken(f) /\ Abnormal(f) => Doomed(f, p)
        BY <2>1, <2>3 DEF LinkInv, LinksStay
      <3> QED  BY <2>1, <2>2, <3>1 DEF EndsStay
    <2> QED  BY <2>3 DEF LinkInv
  <1>2. ASSUME NEW g \in Flows, FinLinks(g) PROVE LinkInv'
    <2>0. fin \in [Flows -> FinRecords]
      BY DEF TypeOK, FinRecords
    <2>1. Advances(g) /\ outcome' = outcome
      BY <1>2, FinalizeAdvances
    <2>2. /\ fin[g].pc = "down" /\ fin'[g].pc = "peers"
          /\ IsAbnormal(fin[g].reason) => fin'[g].rest = Peers(g)
      BY <1>2, <2>0 DEF FinLinks, FinRecords
    <2>3. /\ links' = {pair \in links : g \notin pair}
          /\ tied' = tied
          /\ UNCHANGED <<signals, extract>>
      BY <1>2 DEF FinLinks, killVars
    <2>4. outcome[g] = NotYet /\ Gone(g)' /\ LinksTaken(g)'
      BY <2>2 DEF PlaceInv, ExactlyOne, Gone, Ending, LinksTaken
    <2>5. \A h \in Flows : h # g => /\ fin'[h] = fin[h]
                                    /\ LinksTaken(h)' <=> LinksTaken(h)
                                    /\ Abnormal(h)' <=> Abnormal(h)
      BY <2>1 DEF Advances, LinksTaken, Abnormal
    <2>6. ASSUME NEW f \in Flows, NEW p \in Flows, f # g, Doomed(f, p) PROVE Doomed(f, p)'
      BY <1>0, <2>3, <2>5, <2>6 DEF Doomed, GoneStays
    <2>7. ASSUME NEW f \in Flows, NEW p \in Flows, f # p, {f, p} \in tied' \ links'
          PROVE  /\ LinksTaken(f)' \/ LinksTaken(p)'
                 /\ LinksTaken(f)' /\ Abnormal(f)' => Doomed(f, p)'
      <3>1. CASE {f, p} \in links /\ f = g
        <4>1. p \in Peers(f)
          BY <2>7, <3>1 DEF Peers
        <4>2. Abnormal(f)' => IsAbnormal(fin[f].reason)
          BY <2>1, <2>4, <3>1 DEF Abnormal, Advances
        <4> QED  BY <2>2, <2>4, <3>1, <4>1, <4>2 DEF Doomed
      <3>2. CASE {f, p} \in links /\ f # g
        <4>1. g \in {f, p}
          BY <2>3, <2>7, <3>2
        <4>2. p = g
          BY <3>2, <4>1
        <4> QED  BY <2>4, <4>2 DEF Doomed
      <3>3. CASE {f, p} \notin links
        <4>1. /\ LinksTaken(f) \/ LinksTaken(p)
              /\ LinksTaken(f) /\ Abnormal(f) => Doomed(f, p)
          BY <2>3, <2>7, <3>3 DEF LinkInv
        <4>2. CASE f = g
          <5>1. LinksTaken(p)
            BY <2>2, <2>4, <4>1, <4>2 DEF LinksTaken
          <5>2. Gone(p)
            BY <5>1 DEF LinksTaken, Gone, Ending
          <5>3. Gone(p)'
            BY <1>0, <5>2 DEF GoneStays
          <5> QED  BY <2>4, <4>2, <5>3 DEF Doomed
        <4>3. CASE f # g /\ p = g
          BY <2>4, <4>3 DEF Doomed
        <4>4. CASE f # g /\ p # g
          BY <2>5, <2>6, <4>1, <4>4
        <4> QED  BY <4>2, <4>3, <4>4
      <3> QED  BY <3>1, <3>2, <3>3
    <2> QED  BY <2>7 DEF LinkInv
  <1> QED  BY <1>1, <1>2

-----------------------------------------------------------------------------
(* The theorems                                                            *)

(* The inductive invariant: types, the operands a worker needs, the order  *)
(* of finalization, the work lists, the one place of every flow, the DOWNs *)
(* and the fate of links (worker.rs, finalize.rs, link.rs).                *)
THEOREM LifeInvariant == Spec => []LifeInv
  <1>1. LifeInv /\ [Next]_vars => LifeInv'
    <2> SUFFICES ASSUME LifeInv, [Next]_vars PROVE LifeInv'
      OBVIOUS
    <2>0. /\ TypeOK /\ OpInv /\ FinInv /\ WorkInv /\ PlaceInv
          /\ DownAfterGone /\ LinkInv
      BY DEF LifeInv
    <2>1. MailTypes' /\ PlaceTypes' /\ AskTypes' /\ RelTypes' /\ KillTypes'
      BY <2>0, MailStep, PlaceStep, AskStep, RelStep, KillStep
    <2>2. op' \in [Flows -> Operands] /\ OpInv'
      BY <2>0, OpStep
    <2>3. TypeOK'
      BY <2>1, <2>2 DEF TypeOK, MailTypes, PlaceTypes, AskTypes, RelTypes, KillTypes,
                        Operands, Filters, FinRecords, Checks
    <2>4. FinInv' /\ WorkInv' /\ PlaceInv'
      BY <2>0, FinStepInv, PlaceStep
    <2>5. DownAfterGone'
      BY <2>0, DownStep
    <2>6. LinkInv'
      BY <2>0, LinkStep
    <2> QED  BY <2>2, <2>3, <2>4, <2>5, <2>6 DEF LifeInv
  <1> QED  BY <1>1, LifeInvInit, PTL DEF Spec

(* Type correctness: every container and table holds what its type in the  *)
(* code allows.                                                            *)
THEOREM TypeCorrect == Spec => []TypeOK
  <1>1. LifeInv => TypeOK
    BY DEF LifeInv
  <1> QED  BY <1>1, LifeInvariant, PTL

(* A `Box<Flow>` is in exactly one place, for any number of flows, workers *)
(* and killers: of the five parties that take flows out of mailboxes, no   *)
(* two ever hold the same one.                                             *)
THEOREM FlowsAreInOnePlace == Spec => []OnePlace
  <1>1. LifeInv => OnePlace
    <2> SUFFICES ASSUME PlaceInv, NEW f \in Flows
                 PROVE  LET places == <<f \in ready, cpu[f] # "none", f \in parked,
                                        f \in sleeping, fin[f].pc # "none", f \in Queued,
                                        outcome[f] # NotYet>>
                        IN  Cardinality({i \in DOMAIN places : places[i]}) = 1
      BY DEF LifeInv, OnePlace
    <2> DEFINE r == f \in ready
               c == cpu[f] # "none"
               p == f \in parked
               s == f \in sleeping
               e == fin[f].pc # "none"
               q == f \in Queued
               o == outcome[f] # NotYet
               places == <<r, c, p, s, e, q, o>>
               true == {i \in DOMAIN places : places[i]}
    <2>1. ExactlyOne(r, c, p, s, e, q, o)
      BY DEF PlaceInv
    <2> HIDE DEF r, c, p, s, e, q, o
    <2>2. DOMAIN places = 1 .. 7
      OBVIOUS
    <2>3. \E i \in 1 .. 7 : true = {i}
      <3>1. true = {i \in 1 .. 7 : places[i]}
        BY <2>2
      <3>2. /\ places[1] = r /\ places[2] = c /\ places[3] = p /\ places[4] = s
            /\ places[5] = e /\ places[6] = q /\ places[7] = o
        OBVIOUS
      <3> HIDE DEF places, true
      <3>3. \A i \in 1 .. 7 : i \in {1, 2, 3, 4, 5, 6, 7}
        OBVIOUS
      <3>4. \E i \in 1 .. 7 : /\ places[i]
                              /\ \A j \in 1 .. 7 : places[j] => j = i
        BY <2>1, <3>2, <3>3 DEF ExactlyOne
      <3> QED  BY <3>1, <3>4
    <2>4. Cardinality(true) = 1
      BY <2>3, FS_Singleton
    <2> QED  BY <2>4 DEF r, c, p, s, e, q, o
  <1> QED  BY <1>1, LifeInvariant, PTL

(* A DOWN is news: whoever holds one finds the flow's Caps revoked and its *)
(* directory entry gone (finalize_one, deliver_down).                      *)
THEOREM DownIsNews == Spec => []DownAfterGone
  <1>1. LifeInv => DownAfterGone
    BY DEF LifeInv
  <1> QED  BY <1>1, LifeInvariant, PTL

(* "Abnormal exit of either side kills the peer" (Runtime::link), for any  *)
(* link graph and any interleaving of links, kills and ends.               *)
THEOREM PeersAreKilled == Spec => []LinkedPeerIsKilled
  <1>1. LifeInv => LinkedPeerIsKilled
    <2> SUFFICES ASSUME LifeInv, NEW f \in Flows, NEW p \in Flows,
                        f # p, {f, p} \in tied \ links,
                        outcome[f] # NotYet, IsAbnormal(outcome[f])
                 PROVE  Gone(p) \/ signals[p] # NoSignal
      BY DEF LinkedPeerIsKilled
    <2>1. Doomed(f, p)
      BY DEF LifeInv, LinkInv, LinksTaken, Abnormal
    <2>2. fin[f].pc = "none"
      BY DEF LifeInv, PlaceInv, ExactlyOne
    <2> QED  BY <2>1, <2>2 DEF Doomed
  <1> QED  BY <1>1, LifeInvariant, PTL

(* An end is final: a flow that is ending, or has ended, never runs again, *)
(* its Caps stay revoked and its FlowId never returns to the directory,    *)
(* whoever else is killed, woken or ended in between (finalize.rs).        *)
THEOREM EndIsFinal == Spec => [][GoneStays /\ LiveShrinks]_vars
  <1>1. LifeInv /\ [Next]_vars => [GoneStays /\ LiveShrinks]_vars
    BY PlaceStep, FinStepInv DEF LifeInv
  <1> QED  BY <1>1, LifeInvariant, PTL DEF Spec
=============================================================================
