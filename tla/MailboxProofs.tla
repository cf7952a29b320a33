--------------------------- MODULE MailboxProofs ----------------------------
(* Machine-checked proofs about Mailbox, for every value of its constants. *)
EXTENDS Mailbox, DataLemmas

-----------------------------------------------------------------------------
(* Facts about the queue's operators                                       *)

(* The survivors of an eviction are a suffix of the queue. *)
LEMMA SurvivorsProperties ==
    ASSUME NEW S, queue \in Seq(S), NEW k \in 0 .. Len(queue)
    PROVE  /\ Survivors(k) \in Seq(S)
           /\ Len(Survivors(k)) = Len(queue) - k
           /\ \A j \in 1 .. (Len(queue) - k) : Survivors(k)[j] = queue[j + k]
  <1> DEFINE b == SubSeq(queue, k + 1, Len(queue))
  <1>1. /\ Len(queue) \in Nat
        /\ \A j \in 1 .. Len(queue) : queue[j] \in S
    BY LenProperties, ElementOfSeq
  <1>2. /\ k + 1 \in Int /\ Len(queue) \in Int
        /\ \A j \in (k + 1) .. Len(queue) : queue[j] \in S
    BY <1>1
  <1>3. /\ b \in Seq(S)
        /\ Len(b) = IF k + 1 <= Len(queue) THEN Len(queue) - (k + 1) + 1 ELSE 0
        /\ \A j \in 1 .. (Len(queue) - (k + 1) + 1) : b[j] = queue[k + 1 + j - 1]
    BY <1>2, SubSeqProperties
  <1>4. \A j \in 1 .. (Len(queue) - k) : b[j] = queue[j + k]
    <2> TAKE j \in 1 .. (Len(queue) - k)
    <2>1. j \in 1 .. (Len(queue) - (k + 1) + 1) /\ k + 1 + j - 1 = j + k
      BY <1>1
    <2> QED  BY <2>1, <1>3
  <1>5. Survivors(k) = b
    BY DEF Survivors
  <1> HIDE DEF b
  <1> QED  BY <1>1, <1>3, <1>4, <1>5

(* A refund never drives the byte charge below zero. *)
LEMMA RefundNat ==
    ASSUME NEW b \in Nat, NEW c
    PROVE  Refund(b, c) \in Nat /\ Refund(b, c) <= b
  BY DEF Refund

(***************************************************************************)
(* What a step may do to the queue: drop its k oldest hops, and possibly   *)
(* append one hop behind the rest.                                         *)
(***************************************************************************)
Slid(k) ==
    /\ k \in 0 .. Len(queue)
    /\ queue' \in Seq(Hops)
    /\ Len(queue') = Len(queue) - k
    /\ \A j \in 1 .. (Len(queue) - k) : queue'[j] = queue[j + k]

SlidAppended(k, h) ==
    /\ k \in 0 .. Len(queue)
    /\ queue' \in Seq(Hops)
    /\ Len(queue') = Len(queue) - k + 1
    /\ \A j \in 1 .. (Len(queue) - k) : queue'[j] = queue[j + k]
    /\ queue'[Len(queue) - k + 1] = h

(* Every outcome of MailboxQueue::enqueue, under every policy, is such a   *)
(* step; a refused or discarded hop is not in the queue afterwards.        *)
LEMMA EnqueueEffect ==
    ASSUME queue \in Seq(Hops), bytes \in Nat, NEW h \in Hops, NEW policy,
           NEW effect, Enqueue(h, policy, effect)
    PROVE  /\ bytes' \in Nat
           /\ \/ \E k \in 0 .. Len(queue) : Slid(k)
              \/ /\ effect \notin Refusals
                 /\ \E k \in 0 .. Len(queue) : SlidAppended(k, h)
  <1>0. Len(queue) \in Nat /\ Cost(h) \in Nat
    BY LenProperties, QueueAssumption DEF Hops, Cost
  <1>1. CASE Append1(h, effect)
    <2>1. SlidAppended(0, h)
      BY <1>1, <1>0, AppendProperties DEF Append1, SlidAppended
    <2>2. effect \notin Refusals /\ bytes' \in Nat
      BY <1>1, <1>0 DEF Append1, Refusals
    <2> QED  BY <2>1, <2>2, <1>0
  <1>2. ASSUME UNCHANGED queueVars
        PROVE  Slid(0) /\ bytes' \in Nat
    BY <1>2, <1>0 DEF Slid, queueVars
  <1>3. CASE RejectHop(h, effect) \/ DropNewest(h, effect)
    BY <1>0, <1>2, <1>3 DEF RejectHop, DropNewest
  <1>4. CASE DropOldest(h, effect)
    <2>1. PICK k \in 0 .. Len(queue) :
            \/ /\ queue' = Survivors(k)
               /\ bytes' = ChargeAfter(k)
            \/ /\ effect = IF k > 0 THEN "DroppedOldest" ELSE "Enqueued"
               /\ queue' = QueueBehind(k, h)
               /\ bytes' = ChargeAfter(k) + Cost(h)
      BY <1>4 DEF DropOldest
    <2>2. ChargeAfter(k) \in Nat
      BY RefundNat DEF ChargeAfter
    <2>3. /\ Survivors(k) \in Seq(Hops)
          /\ Len(Survivors(k)) = Len(queue) - k
          /\ \A j \in 1 .. (Len(queue) - k) : Survivors(k)[j] = queue[j + k]
      BY SurvivorsProperties
    <2>4. CASE queue' = Survivors(k) /\ bytes' = ChargeAfter(k)
      BY <2>2, <2>3, <2>4 DEF Slid
    <2>5. CASE /\ effect = IF k > 0 THEN "DroppedOldest" ELSE "Enqueued"
               /\ queue' = QueueBehind(k, h)
               /\ bytes' = ChargeAfter(k) + Cost(h)
      <3>1. SlidAppended(k, h)
        BY <1>0, <2>3, <2>5, AppendProperties DEF QueueBehind, SlidAppended
      <3>2. effect \notin Refusals
        BY <2>5 DEF Refusals
      <3> QED  BY <1>0, <2>2, <2>5, <3>1, <3>2
    <2> QED  BY <2>1, <2>4, <2>5
  <1> QED  BY <1>1, <1>3, <1>4 DEF Enqueue

(* force_push only appends. *)
LEMMA ForcePushEffect ==
    ASSUME queue \in Seq(Hops), bytes \in Nat, NEW h \in Hops, ForcePush(h)
    PROVE  bytes' \in Nat /\ SlidAppended(0, h)
  <1>1. Len(queue) \in Nat /\ Cost(h) \in Nat
    BY LenProperties, QueueAssumption DEF Hops, Cost
  <1> QED  BY <1>1, AppendProperties DEF ForcePush, SlidAppended

(* A pop removes one hop the filter accepts, the oldest such one. *)
TookAt(i) ==
    /\ i \in 1 .. Len(queue)
    /\ queue' \in Seq(Hops)
    /\ Len(queue') = Len(queue) - 1
    /\ \A j \in 1 .. (Len(queue) - 1) :
         queue'[j] = IF j < i THEN queue[j] ELSE queue[j + 1]

LEMMA PopEffect ==
    ASSUME queue \in Seq(Hops), bytes \in Nat, NEW w, PopFor(w)
    PROVE  /\ bytes' \in Nat
           /\ \E i \in 1 .. Len(queue) :
                /\ TookAt(i)
                /\ OldestMatch(w.filter, i)
                /\ queue[i] \in Hops
                /\ Consume(queue[i])
                /\ ResumeWith(w.dest, "hop")
  <1>1. PICK i \in DOMAIN queue :
          /\ OldestMatch(w.filter, i)
          /\ TakeAt(i)
          /\ Consume(queue[i])
          /\ ResumeWith(w.dest, "hop")
    BY DEF PopFor
  <1>2. i \in 1 .. Len(queue) /\ queue[i] \in Hops
    BY LenProperties, ElementOfSeq
  <1>3. TookAt(i)
    BY <1>1, <1>2, RemoveAtProperties DEF TakeAt, TookAt
  <1>4. bytes' \in Nat
    BY <1>1, RefundNat DEF TakeAt
  <1> QED  BY <1>1, <1>2, <1>3, <1>4

LEMMA ConsumeType ==
    ASSUME delivered \in [Sources \X Classes -> Nat], NEW h \in Hops, Consume(h)
    PROVE  delivered' \in [Sources \X Classes -> Nat]
  BY DEF Consume, Hops, Class, Classes

-----------------------------------------------------------------------------
(* Type correctness                                                        *)

\* Whoever the owner asks is one of the flows that send to it.
LEMMA AskedAreSenders == Asked \subseteq Senders
  BY MailboxAssumption DEF Asked

(* Every step keeps every variable in its type: in particular the byte     *)
(* charge is a natural number, epochs come from parking, and the flows in  *)
(* the inbox are senders.                                                  *)
LEMMA TypeStep == TypeOK /\ FlowInOnePlace /\ [Next]_vars => TypeOK'
  <1> SUFFICES ASSUME TypeOK, FlowInOnePlace, [Next]_vars PROVE TypeOK'
    OBVIOUS
  <1> USE DEF TypeOK
  <1>0. ASSUME NEW s \in Sources, NEW x \in SourceStates, hop[s] \in Hops,
               src' = [src EXCEPT ![s] = x], hop' = hop
        PROVE  /\ src' \in [Sources -> SourceStates]
               /\ hop' \in [Sources -> Hops \cup {NoHop}]
               /\ \A r \in Sources : src'[r] \notin {"running", "dead"} =>
                                      hop'[r] \in Hops
    BY <1>0
  <1>1. ASSUME NEW w \in Waits, PopFor(w)
        PROVE  /\ queue' \in Seq(Hops) /\ bytes' \in Nat
               /\ resumed' \in [dest : Dests, kind : Wakes]
               /\ delivered' \in [Sources \X Classes -> Nat]
    <2>1. PICK i \in 1 .. Len(queue) : /\ bytes' \in Nat
                                      /\ TookAt(i)
                                      /\ queue[i] \in Hops
                                      /\ Consume(queue[i])
                                      /\ ResumeWith(w.dest, "hop")
      BY <1>1, PopEffect
    <2>2. delivered' \in [Sources \X Classes -> Nat]
      BY <2>1, ConsumeType
    <2> QED  BY <2>1, <2>2 DEF TookAt, ResumeWith, Waits, Wakes
  <1>2. ASSUME NEW f \in Filters, NEW d \in Dests, NEW b \in BOOLEAN,
               Receive(f, d, b)
        PROVE  TypeOK'
    <2> DEFINE w == [filter |-> f, dest |-> d, timeout |-> b]
    <2>1. w \in Waits
      BY DEF Waits
    <2>2. /\ UNCHANGED <<mailboxVars, registered, timerVars, askVars, sourceVars>>
          /\ wait' = w
          /\ owner' \in {"admitting", "parking"}
          /\ PopFor(w) \/ UNCHANGED <<queueVars, resumed, delivered>>
      BY <1>2 DEF Receive
    <2> HIDE DEF w
    <2>3. /\ queue' \in Seq(Hops) /\ bytes' \in Nat
          /\ resumed' \in [dest : Dests, kind : Wakes]
          /\ delivered' \in [Sources \X Classes -> Nat]
      BY <1>1, <2>1, <2>2 DEF queueVars
    <2> QED
      BY <2>1, <2>2, <2>3
         DEF mailboxVars, timerVars, askVars, sourceVars, OwnerStates
  <1>3. ASSUME NEW f \in ReplyFilters, NEW d \in Dests, NEW b \in BOOLEAN,
               Ask(f, d, b)
        PROVE  TypeOK'
    <2>1. [filter |-> f, dest |-> d, timeout |-> b] \in Waits
      BY DEF Waits
    <2> QED
      BY <1>3, <2>1 DEF Ask, queueVars, mailboxVars, timerVars, askVars, sourceVars,
                        OwnerStates
  <1>19. CASE AwaitReply
    <2>1. /\ wait \in Waits /\ wait.filter \in ReplyFilters /\ wait.filter.sender \in Senders
          /\ UNCHANGED <<mailboxVars, registered, wait, timerVars, tails, ends, sourceVars>>
          /\ owner' \in {"running", "parking", "exiting"}
          /\ PopFor(wait) \/ UNCHANGED <<queueVars, resumed, delivered>>
      BY <1>19, MailboxAssumption DEF AwaitReply
    <2>2. askWaits' \subseteq Senders
      BY <1>19, <2>1 DEF AwaitReply
    <2>3. /\ queue' \in Seq(Hops) /\ bytes' \in Nat
          /\ resumed' \in [dest : Dests, kind : Wakes]
          /\ delivered' \in [Sources \X Classes -> Nat]
      BY <1>1, <2>1 DEF queueVars
    <2> QED
      BY <2>1, <2>2, <2>3 DEF mailboxVars, timerVars, sourceVars, OwnerStates
  <1>4. CASE AdmitWaitingSender
    <2>0. /\ owner' = "running"
          /\ UNCHANGED <<parked, parkedFilter, waitEpoch, overflow, closed,
                         registered, wait, resumed, delivered, timerVars, askVars,
                         hop, sent>>
      BY <1>4 DEF AdmitWaitingSender
    <2>1. CASE MayAdmit
      <3> DEFINE s == Head(waitingSenders)
      <3>1. /\ Enqueue(hop[s], "Reject", "Enqueued")
            /\ waitingSenders' = Tail(waitingSenders)
            /\ src' = [src EXCEPT ![s] = "running"]
        BY <1>4, <2>1 DEF AdmitWaitingSender, PopWaiter
      <3>2. s \in Sources /\ waitingSenders' \in Seq(Senders)
        BY <2>1, <3>1, HeadTailProperties DEF MayAdmit, Sources
      <3>3. hop[s] \in Hops
        <4>1. s \in Senders /\ 1 \in DOMAIN waitingSenders /\ waitingSenders[1] = s
          BY <2>1, HeadTailProperties, LenProperties DEF MayAdmit
        <4>2. src[s] = "waiting"
          BY <4>1 DEF FlowInOnePlace
        <4> QED  BY <4>1, <4>2 DEF Sources
      <3>4. queue' \in Seq(Hops) /\ bytes' \in Nat
        BY <3>1, <3>3, EnqueueEffect DEF Slid, SlidAppended
      <3> QED
        BY <2>0, <3>1, <3>2, <3>4 DEF timerVars, askVars, OwnerStates, SourceStates
    <2>2. CASE ~MayAdmit
      BY <1>4, <2>0, <2>2
         DEF AdmitWaitingSender, queueVars, timerVars, askVars, OwnerStates
    <2> QED  BY <2>1, <2>2
  <1>5. CASE ParkFilter
    <2>0. /\ wait \in Waits
          /\ UNCHANGED <<waitingSenders, overflow, closed, registered, wait,
                         deadlines, ends, sourceVars>>
      BY <1>5 DEF ParkFilter
    <2>1. CASE /\ PopFor(wait)
               /\ owner' = "running"
               /\ askWaits' = IF Asking THEN {} ELSE askWaits
               /\ UNCHANGED <<parked, parkedFilter, waitEpoch, arming, tails>>
      <3>1. /\ queue' \in Seq(Hops) /\ bytes' \in Nat
            /\ resumed' \in [dest : Dests, kind : Wakes]
            /\ delivered' \in [Sources \X Classes -> Nat]
        BY <1>1, <2>0, <2>1
      <3>2. askWaits' \subseteq Senders
        BY <2>1
      <3> QED  BY <2>0, <2>1, <3>1, <3>2 DEF sourceVars, OwnerStates
    <2>2. CASE /\ waitEpoch < MaxParks
               /\ waitEpoch' = waitEpoch + 1
               /\ parkedFilter' = wait.filter
               /\ parked' = TRUE
               /\ owner' = "parked"
               /\ arming' = IF wait.timeout /\ ~Asking
                            THEN arming \cup {[epoch |-> NewEpoch, dest |-> wait.dest]}
                            ELSE arming
               /\ tails' = IF Asking
                           THEN tails \cup {[asked |-> wait.filter.sender,
                                             epoch |-> NewEpoch, dest |-> wait.dest,
                                             timeout |-> wait.timeout]}
                           ELSE tails
               /\ UNCHANGED <<queueVars, resumed, delivered, askWaits>>
      <3>1. waitEpoch' \in 0 .. MaxParks /\ NewEpoch \in 1 .. MaxParks
        BY <2>2, MailboxAssumption DEF NewEpoch
      <3>2. arming' \subseteq Deadlines
        BY <2>0, <2>2, <3>1 DEF Deadlines, Waits
      <3>3. parkedFilter' \in Filters \cup ReplyFilters
        BY <2>0, <2>2 DEF Waits
      <3>4. tails' \subseteq Tails
        <4>1. Asking => wait.filter.sender \in Senders
          BY MailboxAssumption DEF Asking
        <4>2. wait.dest \in Dests /\ wait.timeout \in BOOLEAN
          BY <2>0 DEF Waits
        <4> QED  BY <2>2, <3>1, <4>1, <4>2 DEF Tails
      <3> QED
        BY <2>0, <2>2, <3>1, <3>2, <3>3, <3>4 DEF queueVars, sourceVars, OwnerStates
    <2> QED  BY <1>5, <2>1, <2>2 DEF ParkFilter
  <1>W. ASSUME NEW dest \in Dests, WakeParked(dest)
        PROVE  /\ parked' \in BOOLEAN
               /\ parkedFilter' \in Filters \cup ReplyFilters \cup {AnyHop}
               /\ owner' \in OwnerStates
               /\ owner' = owner \/ owner' = "running"
               /\ resumed' \in [dest : Dests, kind : Wakes]
    <2>1. CASE parked
      <3>1. /\ parked' = FALSE /\ parkedFilter' = AnyHop /\ owner' = "running"
            /\ resumed' = [dest |-> dest, kind |-> "exit"]
        BY <1>W, <2>1 DEF WakeParked, ResumeWith
      <3> QED  BY <3>1 DEF OwnerStates, Wakes
    <2>2. CASE ~parked
      BY <1>W, <2>2 DEF WakeParked
    <2> QED  BY <2>1, <2>2
  <1>20. ASSUME NEW t \in tails, CheckTarget(t)
         PROVE  TypeOK'
    <2>0. /\ t.asked \in Senders /\ t.dest \in Dests /\ t.epoch \in 1 .. MaxParks
          /\ tails' \subseteq Tails
          /\ UNCHANGED <<queueVars, waitEpoch, waitingSenders, overflow, closed,
                         registered, wait, delivered, deadlines, ends, sourceVars>>
      BY <1>20 DEF CheckTarget, Tails
    <2>1. CASE ends[t.asked] = "gone"
      <3>1. WakeParked(t.dest) /\ askWaits' \subseteq Senders /\ UNCHANGED arming
        BY <1>20, <2>1 DEF CheckTarget
      <3> QED  BY <1>W, <2>0, <3>1 DEF queueVars, sourceVars
    <2>2. CASE ends[t.asked] # "gone"
      <3>1. arming' \subseteq Deadlines
        BY <1>20, <2>0, <2>2 DEF CheckTarget, Deadlines
      <3>2. UNCHANGED <<parked, parkedFilter, owner, resumed, askWaits>>
        BY <1>20, <2>2 DEF CheckTarget
      <3> QED  BY <2>0, <3>1, <3>2 DEF queueVars, sourceVars
    <2> QED  BY <2>1, <2>2
  <1>21. ASSUME NEW s \in Senders, WakeOrphan(s)
         PROVE  TypeOK'
    <2>0. /\ ends' \in [Senders -> EndStates]
          /\ WakeParked(wait.dest)
          /\ UNCHANGED <<queueVars, waitEpoch, waitingSenders, overflow, closed,
                         registered, wait, delivered, timerVars, askWaits, tails,
                         sourceVars>>
      BY <1>21 DEF WakeOrphan, EndStates
    <2>1. CASE parked
      <3>1. wait.dest \in Dests
        BY <2>1 DEF FlowInOnePlace, Waits
      <3> QED  BY <1>W, <2>0, <3>1 DEF queueVars, timerVars, sourceVars
    <2>2. CASE ~parked
      BY <2>0, <2>2 DEF WakeParked, queueVars, timerVars, sourceVars
    <2> QED  BY <2>1, <2>2
  <1>22. ASSUME NEW s \in Senders, TakeWaiters(s) \/ LeaveDirectory(s)
         PROVE  TypeOK'
    <2>1. ends' \in [Senders -> EndStates] /\ askWaits' \subseteq Senders
      BY <1>22 DEF TakeWaiters, LeaveDirectory, EndStates
    <2> QED
      BY <1>22, <2>1 DEF TakeWaiters, LeaveDirectory, queueVars, mailboxVars, ownerVars,
                         timerVars, sourceVars
  <1>23. ASSUME NEW s \in Senders, SenderExit(s)
         PROVE  TypeOK'
    BY <1>23 DEF SenderExit, queueVars, mailboxVars, ownerVars, timerVars, askVars,
                 SourceStates, Sources
  <1>6. ASSUME NEW d \in arming, ArmDeadline(d)
        PROVE  TypeOK'
    BY <1>6 DEF ArmDeadline, queueVars, mailboxVars, ownerVars, askVars, sourceVars
  <1>7. ASSUME NEW d \in deadlines, FireDeadline(d)
        PROVE  TypeOK'
    <2>0. /\ deadlines' = deadlines \ {d}
          /\ UNCHANGED <<queueVars, waitEpoch, waitingSenders, overflow, closed,
                         registered, wait, delivered, arming, tails, ends,
                         sourceVars>>
      BY <1>7 DEF FireDeadline
    <2>1. CASE waitEpoch = d.epoch /\ parked
      <3>1. /\ parked' = FALSE /\ parkedFilter' = AnyHop
            /\ resumed' = [dest |-> d.dest, kind |-> "deadline"]
            /\ owner' = "running" /\ askWaits' = {}
        BY <1>7, <2>1 DEF FireDeadline, TakeParkedAt, ResumeWith
      <3>2. d.dest \in Dests
        BY DEF Deadlines
      <3> QED
        BY <2>0, <3>1, <3>2 DEF queueVars, sourceVars, OwnerStates, Wakes
    <2>2. CASE ~(waitEpoch = d.epoch /\ parked)
      <3>1. UNCHANGED <<parked, parkedFilter, resumed, owner, askWaits>>
        BY <1>7, <2>2 DEF FireDeadline, TakeParkedAt
      <3> QED
        BY <2>0, <3>1 DEF queueVars, sourceVars
    <2> QED  BY <2>1, <2>2
  <1>8. ASSUME NEW s \in Sources, NEW b \in Bodies, StartSend(s, b)
        PROVE  TypeOK'
    BY <1>8 DEF StartSend, queueVars, mailboxVars, ownerVars, timerVars, askVars, Hops,
                SourceStates
  <1>H. ASSUME NEW h \in Hops, Handoff(h), UNCHANGED wait
        PROVE  /\ UNCHANGED queueVars
               /\ parked' \in BOOLEAN /\ parkedFilter' = AnyHop
               /\ owner' = "running" /\ askWaits' = {}
               /\ resumed' \in [dest : Dests, kind : Wakes]
               /\ delivered' \in [Sources \X Classes -> Nat]
    <2>1. wait.dest \in Dests
      BY <1>H DEF Handoff, FlowInOnePlace, Waits
    <2> QED  BY <1>H, <2>1, ConsumeType DEF Handoff, ResumeWith, Wakes
  <1>9. ASSUME NEW s \in Sources, Push(s)
        PROVE  TypeOK'
    <2>0. /\ hop[s] \in Hops
          /\ UNCHANGED <<waitEpoch, waitingSenders, overflow, closed, registered,
                         wait, timerVars, tails, ends, hop, sent>>
      BY <1>9 DEF Push
    <2>1. CASE Handoff(hop[s]) /\ src' = [src EXCEPT ![s] = "running"]
      <3>1. "running" \in SourceStates
        BY DEF SourceStates
      <3>2. /\ src' \in [Sources -> SourceStates]
            /\ \A r \in Sources : src'[r] \notin {"running", "dead"} =>
                                   hop'[r] \in Hops
        BY <1>0, <2>0, <2>1, <3>1
      <3> QED
        BY <2>0, <2>1, <3>2, <1>H DEF queueVars, timerVars, OwnerStates
    <2>2. ASSUME NEW effect \in Effects, NoHandoff(hop[s]),
                 Enqueue(hop[s], overflow, effect),
                 src' = [src EXCEPT ![s] = IF effect \in Refusals /\ s # Host
                                           THEN "refused" ELSE "running"]
          PROVE  TypeOK'
      <3>1. queue' \in Seq(Hops) /\ bytes' \in Nat
        BY <2>0, <2>2, EnqueueEffect DEF Slid, SlidAppended
      <3>2. (IF effect \in Refusals /\ s # Host THEN "refused" ELSE "running")
              \in SourceStates
        BY DEF SourceStates
      <3>3. /\ src' \in [Sources -> SourceStates]
            /\ \A r \in Sources : src'[r] \notin {"running", "dead"} =>
                                   hop'[r] \in Hops
        BY <1>0, <2>0, <2>2, <3>2
      <3> QED
        BY <2>0, <2>2, <3>1, <3>3 DEF NoHandoff, timerVars
    <2> QED  BY <1>9, <2>1, <2>2 DEF Push
  <1>10. CASE PushSystem
    <2>0. /\ System \in Sources
          /\ hop[System] \in Hops
          /\ src' = [src EXCEPT ![System] = "running"]
          /\ UNCHANGED <<waitEpoch, waitingSenders, overflow, closed, registered,
                         wait, timerVars, tails, ends, hop, sent>>
      BY <1>10 DEF PushSystem, Sources
    <2>1. /\ src' \in [Sources -> SourceStates]
          /\ \A r \in Sources : src'[r] \notin {"running", "dead"} =>
                                 hop'[r] \in Hops
      <3>1. "running" \in SourceStates
        BY DEF SourceStates
      <3> QED  BY <1>0, <2>0, <3>1
    <2>2. CASE Handoff(hop[System])
      BY <2>0, <2>1, <2>2, <1>H DEF queueVars, timerVars, OwnerStates
    <2>3. CASE NoHandoff(hop[System]) /\ ForcePush(hop[System])
      <3>1. queue' \in Seq(Hops) /\ bytes' \in Nat
        BY <2>0, <2>3, ForcePushEffect DEF SlidAppended
      <3> QED  BY <2>0, <2>1, <2>3, <3>1 DEF NoHandoff, timerVars
    <2> QED  BY <1>10, <2>2, <2>3 DEF PushSystem
  <1>11. ASSUME NEW s \in Senders, ParkLookup(s)
         PROVE  TypeOK'
    BY <1>11 DEF ParkLookup, queueVars, mailboxVars, ownerVars, timerVars, askVars,
                 SourceStates, Sources
  <1>12. ASSUME NEW s \in Senders, ParkSender(s)
         PROVE  TypeOK'
    <2>1. s \in Sources /\ hop[s] \in Hops
      BY <1>12 DEF ParkSender, Sources
    <2>2. Append(waitingSenders, s) \in Seq(Senders)
      BY AppendProperties
    <2>3. /\ UNCHANGED <<queue, bytes, parked, parkedFilter, waitEpoch, overflow,
                         closed, registered, owner, wait, resumed, delivered,
                         arming, deadlines, askWaits, tails, ends, hop, sent>>
          /\ \E st \in SourceStates : src' = [src EXCEPT ![s] = st]
          /\ waitingSenders' \in Seq(Senders)
      BY <1>12, <2>2 DEF ParkSender, queueVars, ownerVars, timerVars, askVars,
                         SourceStates
    <2>4. /\ src' \in [Sources -> SourceStates]
          /\ \A r \in Sources : src'[r] \notin {"running", "dead"} =>
                                 hop'[r] \in Hops
      BY <1>0, <2>1, <2>3
    <2> QED  BY <2>3, <2>4
  <1>13. ASSUME NEW s \in Senders, KillSender(s)
         PROVE  TypeOK'
    <2>1. PICK i \in DOMAIN waitingSenders :
            waitingSenders' = RemoveAt(waitingSenders, i)
      BY <1>13 DEF KillSender
    <2>2. i \in 1 .. Len(waitingSenders)
      BY LenProperties
    <2>3. waitingSenders' \in Seq(Senders)
      BY <2>1, <2>2, RemoveAtProperties
    <2> QED
      BY <1>13, <2>3
         DEF KillSender, queueVars, ownerVars, timerVars, askVars, SourceStates, Sources
  <1>14. CASE KillOwner
    BY <1>14 DEF KillOwner, queueVars, timerVars, askVars, sourceVars, OwnerStates
  <1>15. CASE Exit
    BY <1>15 DEF Exit, queueVars, mailboxVars, timerVars, askVars, sourceVars,
                 OwnerStates
  <1>16. CASE Close
    BY <1>16, EmptySeq DEF Close, queueVars, timerVars, OwnerStates, SourceStates
  <1>17. CASE Unregister
    BY <1>17 DEF Unregister, queueVars, mailboxVars, timerVars, askVars, sourceVars,
                 OwnerStates
  <1>18. CASE UNCHANGED vars
    BY <1>18 DEF vars, queueVars, mailboxVars, ownerVars, timerVars, askVars, sourceVars
  <1> HIDE DEF TypeOK
  <1> QED
    BY <1>2, <1>3, <1>4, <1>5, <1>6, <1>7, <1>8, <1>9, <1>10, <1>11, <1>12,
       <1>13, <1>14, <1>15, <1>16, <1>17, <1>18, <1>19, <1>20, <1>21, <1>22,
       <1>23, AskedAreSenders DEF Next

-----------------------------------------------------------------------------
(* Blocked flows                                                           *)

(* The sender half of FlowInOnePlace, which most steps leave alone.        *)
WaitersInPlace ==
    /\ \A s \in Senders :
         (src[s] = "waiting") <=> \E i \in DOMAIN waitingSenders :
                                     waitingSenders[i] = s
    /\ \A i, j \in DOMAIN waitingSenders :
         waitingSenders[i] = waitingSenders[j] => i = j

(* A step that moves one source between places other than WAITING_SEND     *)
(* leaves the waiters where they are.                                      *)
LEMMA WaitersUntouched ==
    ASSUME TypeOK, WaitersInPlace, UNCHANGED waitingSenders,
           \A r \in Senders : (src'[r] = "waiting") <=> (src[r] = "waiting")
    PROVE  WaitersInPlace'
  BY DEF WaitersInPlace

(* Admission, parking and killing move exactly one waiter.                 *)
LEMMA WaitersStep ==
    ASSUME TypeOK, FlowInOnePlace, [Next]_vars
    PROVE  WaitersInPlace'
  <1>t. waitingSenders \in Seq(Senders) /\ src \in [Sources -> SourceStates]
    BY DEF TypeOK
  <1> USE <1>t
  <1>w. WaitersInPlace
    BY DEF FlowInOnePlace, WaitersInPlace
  <1>l. Len(waitingSenders) \in Nat /\ DOMAIN waitingSenders = 1 .. Len(waitingSenders)
    BY LenProperties
  <1>1. CASE UNCHANGED <<waitingSenders, src>>
    BY <1>1, <1>w, WaitersUntouched
  <1>2. CASE AdmitWaitingSender
    <2>1. CASE MayAdmit
      <3> DEFINE s == Head(waitingSenders)
      <3>1. /\ waitingSenders # <<>>
            /\ waitingSenders' = Tail(waitingSenders)
            /\ src' = [src EXCEPT ![s] = "running"]
        BY <1>2, <2>1 DEF AdmitWaitingSender, PopWaiter, MayAdmit
      <3>2. /\ s \in Senders /\ s = waitingSenders[1] /\ 1 \in DOMAIN waitingSenders
            /\ waitingSenders' \in Seq(Senders)
            /\ Len(waitingSenders') = Len(waitingSenders) - 1
            /\ \A i \in 1 .. Len(waitingSenders') :
                 waitingSenders'[i] = waitingSenders[i + 1]
        BY <3>1, <1>l, HeadTailProperties
      <3>3. DOMAIN waitingSenders' = 1 .. (Len(waitingSenders) - 1)
        BY <3>2, LenProperties
      <3> HIDE DEF s
      <3>4. \A i, j \in DOMAIN waitingSenders' :
              waitingSenders'[i] = waitingSenders'[j] => i = j
        <4> TAKE i, j \in DOMAIN waitingSenders'
        <4>1. i + 1 \in DOMAIN waitingSenders /\ j + 1 \in DOMAIN waitingSenders
          BY <1>l, <3>3
        <4>2. i \in Int /\ j \in Int
          BY <3>3
        <4> QED  BY <4>1, <4>2, <3>2, <3>3, <1>w DEF WaitersInPlace
      <3>5. ASSUME NEW r \in Senders
            PROVE  (src'[r] = "waiting") <=> \E i \in DOMAIN waitingSenders' :
                                               waitingSenders'[i] = r
        <4>1. CASE r = s
          <5>1. src'[r] = "running"
            BY <4>1, <3>1 DEF Sources
          <5>2. \A i \in DOMAIN waitingSenders' : waitingSenders'[i] # r
            <6> TAKE i \in DOMAIN waitingSenders'
            <6>1. i + 1 \in DOMAIN waitingSenders /\ i + 1 # 1
              BY <1>l, <3>3
            <6> QED  BY <6>1, <4>1, <3>2, <3>3, <1>w DEF WaitersInPlace
          <5> QED  BY <5>1, <5>2
        <4>2. CASE r # s
          <5>1. src'[r] = src[r]
            BY <4>2, <3>1 DEF Sources
          <5>2. ASSUME NEW i \in DOMAIN waitingSenders, waitingSenders[i] = r
                PROVE  \E j \in DOMAIN waitingSenders' : waitingSenders'[j] = r
            <6>1. i - 1 \in 1 .. (Len(waitingSenders) - 1) /\ (i - 1) + 1 = i
              BY <5>2, <4>2, <3>2, <1>l
            <6> QED  BY <6>1, <5>2, <3>2, <3>3
          <5>3. ASSUME NEW j \in DOMAIN waitingSenders', waitingSenders'[j] = r
                PROVE  \E i \in DOMAIN waitingSenders : waitingSenders[i] = r
            <6>1. j + 1 \in DOMAIN waitingSenders
              BY <1>l, <3>3
            <6> QED  BY <6>1, <5>3, <3>2, <3>3
          <5> QED  BY <5>1, <5>2, <5>3, <1>w DEF WaitersInPlace
        <4> QED  BY <4>1, <4>2
      <3> QED  BY <3>4, <3>5 DEF WaitersInPlace
    <2>2. CASE ~MayAdmit
      BY <1>2, <2>2, <1>1 DEF AdmitWaitingSender
    <2> QED  BY <2>1, <2>2
  <1>3. ASSUME NEW s \in Sources, NEW x, x # "waiting", src[s] # "waiting",
               src' = [src EXCEPT ![s] = x], UNCHANGED waitingSenders
        PROVE  WaitersInPlace'
    <2>1. \A r \in Senders : (src'[r] = "waiting") <=> (src[r] = "waiting")
      BY <1>3 DEF Sources
    <2> QED  BY <1>3, <2>1, <1>w, WaitersUntouched
  <1>4. ASSUME NEW s \in Sources, NEW b \in Bodies, StartSend(s, b)
        PROVE  WaitersInPlace'
    BY <1>4, <1>3, <1>1 DEF StartSend, mailboxVars
  <1>5. ASSUME NEW s \in Sources, Push(s)
        PROVE  WaitersInPlace'
    <2>1. \E x \in {"running", "refused"} : src' = [src EXCEPT ![s] = x]
      BY <1>5 DEF Push
    <2> QED  BY <1>5, <2>1, <1>3 DEF Push
  <1>6. CASE PushSystem
    BY <1>6, <1>3 DEF PushSystem, Sources
  <1>7. ASSUME NEW s \in Senders, ParkLookup(s)
        PROVE  WaitersInPlace'
    <2>1. \E x \in {"parking", "dead"} : src' = [src EXCEPT ![s] = x]
      BY <1>7 DEF ParkLookup
    <2> QED  BY <1>7, <2>1, <1>3 DEF ParkLookup, Sources, mailboxVars
  <1>8. ASSUME NEW s \in Senders, ParkSender(s)
        PROVE  WaitersInPlace'
    <2>1. CASE closed
      BY <1>8, <2>1, <1>3 DEF ParkSender, Sources
    <2>2. CASE ~closed
      <3>1. /\ src[s] = "parking"
            /\ src' = [src EXCEPT ![s] = "waiting"]
            /\ waitingSenders' = Append(waitingSenders, s)
        BY <1>8, <2>2 DEF ParkSender
      <3>2. /\ waitingSenders' \in Seq(Senders)
            /\ Len(waitingSenders') = Len(waitingSenders) + 1
            /\ \A i \in 1 .. Len(waitingSenders) :
                 waitingSenders'[i] = waitingSenders[i]
            /\ waitingSenders'[Len(waitingSenders) + 1] = s
        BY <3>1, AppendProperties
      <3>3. DOMAIN waitingSenders' = 1 .. (Len(waitingSenders) + 1)
        BY <3>2, LenProperties
      <3>4. \A i \in 1 .. Len(waitingSenders) : waitingSenders[i] # s
        BY <1>l, <3>1, <1>w DEF WaitersInPlace
      <3>5. \A i, j \in DOMAIN waitingSenders' :
              waitingSenders'[i] = waitingSenders'[j] => i = j
        <4> TAKE i, j \in DOMAIN waitingSenders'
        <4>1. /\ i \in 1 .. Len(waitingSenders) \/ i = Len(waitingSenders) + 1
              /\ j \in 1 .. Len(waitingSenders) \/ j = Len(waitingSenders) + 1
          BY <1>l, <3>3
        <4> QED  BY <4>1, <1>l, <3>2, <3>4, <1>w DEF WaitersInPlace
      <3>6. ASSUME NEW r \in Senders
            PROVE  (src'[r] = "waiting") <=> \E i \in DOMAIN waitingSenders' :
                                               waitingSenders'[i] = r
        <4>1. CASE r = s
          <5>1. src'[r] = "waiting"
            BY <4>1, <3>1 DEF Sources
          <5>2. Len(waitingSenders) + 1 \in DOMAIN waitingSenders'
            BY <1>l, <3>3
          <5> QED  BY <4>1, <5>1, <5>2, <3>2
        <4>2. CASE r # s
          <5>1. src'[r] = src[r]
            BY <4>2, <3>1 DEF Sources
          <5>2. \A i \in DOMAIN waitingSenders' :
                  waitingSenders'[i] = r => i \in 1 .. Len(waitingSenders)
            BY <4>2, <1>l, <3>2, <3>3
          <5>3. 1 .. Len(waitingSenders) \subseteq DOMAIN waitingSenders'
            BY <1>l, <3>3
          <5> QED  BY <5>1, <5>2, <5>3, <1>l, <3>2, <1>w DEF WaitersInPlace
        <4> QED  BY <4>1, <4>2
      <3> QED  BY <3>5, <3>6 DEF WaitersInPlace
    <2> QED  BY <2>1, <2>2
  <1>9. ASSUME NEW s \in Senders, KillSender(s)
        PROVE  WaitersInPlace'
    <2>1. PICK k \in DOMAIN waitingSenders :
            /\ waitingSenders[k] = s
            /\ waitingSenders' = RemoveAt(waitingSenders, k)
      BY <1>9 DEF KillSender
    <2>2. src' = [src EXCEPT ![s] = "dead"]
      BY <1>9 DEF KillSender
    <2> DEFINE old(i) == IF i < k THEN i ELSE i + 1
    <2>3. /\ waitingSenders' \in Seq(Senders)
          /\ Len(waitingSenders') = Len(waitingSenders) - 1
          /\ \A i \in 1 .. (Len(waitingSenders) - 1) :
               waitingSenders'[i] = IF i < k THEN waitingSenders[i]
                                    ELSE waitingSenders[i + 1]
      BY <2>1, <1>l, RemoveAtProperties
    <2>4. DOMAIN waitingSenders' = 1 .. (Len(waitingSenders) - 1)
      BY <2>3, LenProperties
    <2>5. ASSUME NEW i \in DOMAIN waitingSenders'
          PROVE  /\ old(i) \in DOMAIN waitingSenders
                 /\ old(i) # k
                 /\ waitingSenders'[i] = waitingSenders[old(i)]
      BY <2>3, <2>4, <1>l
    <2>6. ASSUME NEW i \in DOMAIN waitingSenders', NEW j \in DOMAIN waitingSenders',
                 old(i) = old(j)
          PROVE  i = j
      BY <2>4, <2>6, <1>l
    <2>7. ASSUME NEW i \in DOMAIN waitingSenders, i # k
          PROVE  \E j \in DOMAIN waitingSenders' : old(j) = i
      <3>1. CASE i < k
        BY <3>1, <2>4, <1>l
      <3>2. CASE ~(i < k)
        <4>1. i - 1 \in DOMAIN waitingSenders' /\ old(i - 1) = i
          BY <3>2, <2>7, <2>4, <1>l
        <4> QED  BY <4>1
      <3> QED  BY <3>1, <3>2
    <2> HIDE DEF old
    <2>8. \A i, j \in DOMAIN waitingSenders' :
            waitingSenders'[i] = waitingSenders'[j] => i = j
      BY <2>5, <2>6, <1>w DEF WaitersInPlace
    <2>9. ASSUME NEW r \in Senders
          PROVE  (src'[r] = "waiting") <=> \E i \in DOMAIN waitingSenders' :
                                             waitingSenders'[i] = r
      <3>1. CASE r = s
        <4>1. src'[r] = "dead"
          BY <3>1, <2>2 DEF Sources
        <4>2. \A i \in DOMAIN waitingSenders' : waitingSenders'[i] # r
          BY <3>1, <2>1, <2>5, <1>w DEF WaitersInPlace
        <4> QED  BY <4>1, <4>2
      <3>2. CASE r # s
        <4>1. src'[r] = src[r]
          BY <3>2, <2>2 DEF Sources
        <4>2. (\E i \in DOMAIN waitingSenders : waitingSenders[i] = r) <=>
                \E i \in DOMAIN waitingSenders' : waitingSenders'[i] = r
          <5>1. \A i \in DOMAIN waitingSenders :
                  waitingSenders[i] = r => i # k
            BY <3>2, <2>1
          <5> QED  BY <5>1, <2>5, <2>7
        <4> QED  BY <4>1, <4>2, <1>w DEF WaitersInPlace
      <3> QED  BY <3>1, <3>2
    <2> QED  BY <2>8, <2>9 DEF WaitersInPlace
  <1>10. CASE Close
    <2>1. waitingSenders' = <<>> /\ DOMAIN waitingSenders' = {}
      BY <1>10, EmptySeq DEF Close
    <2>2. \A r \in Senders : src'[r] # "waiting"
      BY <1>10, <1>w DEF Close, WaitersInPlace, Sources
    <2> QED  BY <2>1, <2>2 DEF WaitersInPlace
  <1>11. CASE \/ \E f \in Filters, d \in Dests, b \in BOOLEAN : Receive(f, d, b)
              \/ \E f \in ReplyFilters, d \in Dests, b \in BOOLEAN : Ask(f, d, b)
              \/ AwaitReply \/ ParkFilter
              \/ \E t \in tails : CheckTarget(t)
              \/ \E d \in arming : ArmDeadline(d)
              \/ \E d \in deadlines : FireDeadline(d)
              \/ KillOwner \/ Exit \/ Unregister \/ UNCHANGED vars
    <2>1. UNCHANGED <<waitingSenders, src>>
      BY <1>11 DEF Receive, Ask, AwaitReply, ParkFilter, CheckTarget, ArmDeadline,
                   FireDeadline, KillOwner, Exit, Unregister, vars, mailboxVars,
                   sourceVars
    <2> QED  BY <2>1, <1>1
  <1>12. ASSUME NEW s \in Senders,
                TakeWaiters(s) \/ WakeOrphan(s) \/ LeaveDirectory(s)
         PROVE  WaitersInPlace'
    BY <1>1, <1>12 DEF TakeWaiters, WakeOrphan, LeaveDirectory, mailboxVars, sourceVars
  <1>13. ASSUME NEW s \in Senders, SenderExit(s)
         PROVE  WaitersInPlace'
    BY <1>3, <1>13 DEF SenderExit, Sources, mailboxVars
  <1> QED
    BY <1>12, <1>13, <1>2, <1>4, <1>5, <1>6, <1>7, <1>8, <1>9, <1>10, <1>11, AskedAreSenders DEF Next

(* The owner is in its mailbox exactly while it is parked.                 *)
LEMMA OwnerStep ==
    ASSUME TypeOK, FlowInOnePlace, [Next]_vars
    PROVE  (parked <=> owner = "parked")'
  <1>0. /\ parked \in BOOLEAN
        /\ parked <=> owner = "parked"
    BY DEF TypeOK, FlowInOnePlace
  <1>1. CASE UNCHANGED <<parked, owner>>
    BY <1>0, <1>1
  <1>2. ASSUME NEW h, Handoff(h) \/ NoHandoff(h)
        PROVE  (parked <=> owner = "parked")'
    BY <1>0, <1>2 DEF Handoff, NoHandoff
  <1>3. ASSUME NEW dest, WakeParked(dest)
        PROVE  (parked <=> owner = "parked")'
    BY <1>0, <1>3 DEF WakeParked
  <1>4. CASE \/ \E f \in Filters, d \in Dests, b \in BOOLEAN : Receive(f, d, b)
             \/ \E f \in ReplyFilters, d \in Dests, b \in BOOLEAN : Ask(f, d, b)
             \/ AwaitReply
    <2>1. owner # "parked" /\ owner' # "parked" /\ parked' = parked
      BY <1>4 DEF Receive, Ask, AwaitReply, mailboxVars
    <2> QED  BY <1>0, <2>1
  <1>9. CASE \/ \E t \in tails : CheckTarget(t)
             \/ \E s \in Senders : WakeOrphan(s)
    BY <1>1, <1>3, <1>9 DEF CheckTarget, WakeOrphan
  <1>5. CASE AdmitWaitingSender \/ ParkFilter \/ KillOwner \/ Exit \/ Close \/ Unregister
    BY <1>0, <1>5 DEF AdmitWaitingSender, ParkFilter, KillOwner, Exit, Close,
                      Unregister, mailboxVars
  <1>6. ASSUME NEW d, FireDeadline(d)
        PROVE  (parked <=> owner = "parked")'
    BY <1>0, <1>6 DEF FireDeadline, TakeParkedAt
  <1>7. CASE (\E s \in Sources : Push(s)) \/ PushSystem
    BY <1>2, <1>7 DEF Push, PushSystem
  <1>8. CASE \/ \E d \in arming : ArmDeadline(d)
             \/ \E s \in Sources, b \in Bodies : StartSend(s, b)
             \/ \E s \in Senders : ParkLookup(s) \/ ParkSender(s) \/ KillSender(s)
             \/ \E s \in Senders : SenderExit(s) \/ TakeWaiters(s) \/ LeaveDirectory(s)
             \/ UNCHANGED vars
    BY <1>1, <1>8 DEF ArmDeadline, StartSend, ParkLookup, ParkSender, KillSender,
                      SenderExit, TakeWaiters, LeaveDirectory, vars, mailboxVars,
                      ownerVars
  <1> QED
    BY <1>4, <1>5, <1>6, <1>7, <1>8, <1>9, AskedAreSenders DEF Next

(* Once closed, an inbox takes no waiter.                                  *)
LEMMA ClosedStep ==
    ASSUME TypeOK, FlowInOnePlace, NobodyWaitsOnClosed, [Next]_vars
    PROVE  closed' => waitingSenders' = <<>>
  <1>1. CASE UNCHANGED <<closed, waitingSenders>>
    BY <1>1 DEF NobodyWaitsOnClosed
  <1>2. CASE AdmitWaitingSender
    BY <1>2 DEF AdmitWaitingSender, MayAdmit, NobodyWaitsOnClosed
  <1>3. ASSUME NEW s \in Senders, ParkSender(s)
        PROVE  closed' => waitingSenders' = <<>>
    BY <1>3 DEF ParkSender, NobodyWaitsOnClosed
  <1>4. ASSUME NEW s \in Senders, KillSender(s)
        PROVE  closed' => waitingSenders' = <<>>
    <2>1. ~closed
      BY <1>4, EmptySeq DEF KillSender, NobodyWaitsOnClosed
    <2> QED  BY <1>4, <2>1 DEF KillSender
  <1>5. CASE Close
    BY <1>5 DEF Close
  <1>6. CASE \/ \E f \in Filters, d \in Dests, b \in BOOLEAN : Receive(f, d, b)
             \/ \E f \in ReplyFilters, d \in Dests, b \in BOOLEAN : Ask(f, d, b)
             \/ AwaitReply \/ ParkFilter
             \/ \E t \in tails : CheckTarget(t)
             \/ \E s \in Senders : \/ SenderExit(s) \/ TakeWaiters(s)
                                  \/ WakeOrphan(s) \/ LeaveDirectory(s)
             \/ \E d \in arming : ArmDeadline(d)
             \/ \E d \in deadlines : FireDeadline(d)
             \/ \E s \in Sources, b \in Bodies : StartSend(s, b)
             \/ \E s \in Sources : Push(s)
             \/ \E s \in Senders : ParkLookup(s)
             \/ PushSystem \/ KillOwner \/ Exit \/ Unregister \/ UNCHANGED vars
    <2>1. UNCHANGED <<closed, waitingSenders>>
      BY <1>6 DEF Receive, Ask, AwaitReply, ParkFilter, CheckTarget, SenderExit,
                  TakeWaiters, WakeOrphan, LeaveDirectory, ArmDeadline, FireDeadline,
                  StartSend, Push, ParkLookup, PushSystem, KillOwner, Exit,
                  Unregister, vars, mailboxVars
    <2> QED  BY <2>1, <1>1
  <1> QED
    BY <1>2, <1>3, <1>4, <1>5, <1>6, AskedAreSenders DEF Next


(* The three facts hold together: typing the hop of an admitted waiter     *)
(* needs the waiter to be where it should be.                              *)
PlaceInv == TypeOK /\ FlowInOnePlace /\ NobodyWaitsOnClosed

LEMMA PlaceInit == Init => PlaceInv
  <1> SUFFICES ASSUME Init PROVE PlaceInv
    OBVIOUS
  <1>1. TypeOK
    <2>1. /\ queue \in Seq(Hops) /\ waitingSenders \in Seq(Senders)
          /\ bytes \in Nat /\ waitEpoch \in 0 .. MaxParks
      BY EmptySeq, MailboxAssumption DEF Init, QueueInit
    <2>2. resumed \in [dest : Dests, kind : Wakes] /\ ends \in [Senders -> EndStates]
      BY DEF Init, Wakes, EndStates
    <2>3. /\ src \in [Sources -> SourceStates]
          /\ \A s \in Sources : src[s] = "running"
          /\ hop \in [Sources -> Hops \cup {NoHop}]
          /\ sent \in [Sources -> Nat]
          /\ delivered \in [Sources \X Classes -> Nat]
      BY DEF Init, SourceStates
    <2> QED  BY <2>1, <2>2, <2>3 DEF Init, TypeOK, OwnerStates
  <1>2. DOMAIN waitingSenders = {}
    BY EmptySeq DEF Init
  <1>3. FlowInOnePlace /\ NobodyWaitsOnClosed
    BY <1>2 DEF Init, FlowInOnePlace, NobodyWaitsOnClosed, Sources
  <1> QED  BY <1>1, <1>3 DEF PlaceInv

LEMMA PlaceStep == PlaceInv /\ [Next]_vars => PlaceInv'
  <1> SUFFICES ASSUME TypeOK, FlowInOnePlace, NobodyWaitsOnClosed, [Next]_vars
               PROVE  PlaceInv'
    BY DEF PlaceInv
  <1>1. TypeOK'
    BY TypeStep
  <1>2. FlowInOnePlace'
    BY WaitersStep, OwnerStep DEF WaitersInPlace, FlowInOnePlace
  <1>3. NobodyWaitsOnClosed'
    <2>1. closed' => waitingSenders' = <<>>
      BY ClosedStep
    <2>2. waitingSenders' = <<>> => DOMAIN waitingSenders' = {}
      BY EmptySeq
    <2>3. \A s \in Senders :
            src'[s] = "waiting" => \E k \in DOMAIN waitingSenders' : waitingSenders'[k] = s
      BY <1>2 DEF FlowInOnePlace
    <2> QED  BY <2>1, <2>2, <2>3 DEF NobodyWaitsOnClosed
  <1> QED  BY <1>1, <1>2, <1>3 DEF PlaceInv

(***************************************************************************)
(* Whatever the senders, bounds, filters and overflow policy, all of the   *)
(* mailbox's state keeps its type: charges never go negative, and a hop is *)
(* in hand whenever a delivery is under way.                               *)
(***************************************************************************)
THEOREM TypeCorrect == Spec => []TypeOK
  <1>1. PlaceInv => TypeOK
    BY DEF PlaceInv
  <1> QED  BY <1>1, PlaceInit, PlaceStep, PTL DEF Spec

(***************************************************************************)
(* A blocked `Box<Flow>` is always reachable, and by one party only: the   *)
(* owner in its mailbox, a WAITING_SEND flow in the waiter list.           *)
(***************************************************************************)
THEOREM FlowsInOnePlace == Spec => []FlowInOnePlace
  <1>1. PlaceInv => FlowInOnePlace
    BY DEF PlaceInv
  <1> QED  BY <1>1, PlaceInit, PlaceStep, PTL DEF Spec

(***************************************************************************)
(* However park_sender races with finalization, no flow is left waiting    *)
(* for a closed inbox.                                                     *)
(***************************************************************************)
THEOREM NobodyLeftBehind == Spec => []NobodyWaitsOnClosed
  <1>1. PlaceInv => NobodyWaitsOnClosed
    BY DEF PlaceInv
  <1> QED  BY <1>1, PlaceInit, PlaceStep, PTL DEF Spec

-----------------------------------------------------------------------------
(* Waking                                                                  *)

(* A suffix of a queue without a match has no match, and appending a hop   *)
(* that does not match adds none.                                          *)
LEMMA NoMatchKept ==
    ASSUME queue \in Seq(Hops), NEW f, NoMatch(f), NEW h, ~Matches(f, h),
           \E k \in 0 .. Len(queue) : Slid(k) \/ SlidAppended(k, h)
    PROVE  \A i \in DOMAIN queue' : ~Matches(f, queue'[i])
  <1>1. PICK k \in 0 .. Len(queue) : Slid(k) \/ SlidAppended(k, h)
    OBVIOUS
  <1>2. Len(queue) \in Nat /\ DOMAIN queue = 1 .. Len(queue)
    BY LenProperties
  <1>3. DOMAIN queue' = 1 .. Len(queue')
    BY <1>1, LenProperties DEF Slid, SlidAppended
  <1>4. ASSUME NEW i \in 1 .. (Len(queue) - k)
        PROVE  i + k \in DOMAIN queue
    BY <1>2
  <1>5. CASE Slid(k)
    BY <1>3, <1>4, <1>5 DEF Slid, NoMatch
  <1>6. CASE SlidAppended(k, h)
    <2>1. ASSUME NEW i \in DOMAIN queue'
          PROVE  i \in 1 .. (Len(queue) - k) \/ i = Len(queue) - k + 1
      BY <1>2, <1>3, <1>6 DEF SlidAppended
    <2> QED  BY <1>4, <1>6, <2>1 DEF SlidAppended, NoMatch
  <1> QED  BY <1>1, <1>5, <1>6

LEMMA WakeupStep == PlaceInv /\ NoLostWakeup /\ [Next]_vars => NoLostWakeup'
  <1> SUFFICES ASSUME PlaceInv, NoLostWakeup, [Next]_vars, parked'
               PROVE  \A i \in DOMAIN queue' : ~Matches(parkedFilter', queue'[i])
    BY DEF NoLostWakeup, NoMatch
  <1>0. /\ queue \in Seq(Hops) /\ bytes \in Nat
        /\ \A s \in Sources : src[s] = "pushing" => hop[s] \in Hops
        /\ parked <=> owner = "parked"
    BY DEF PlaceInv, TypeOK, FlowInOnePlace
  <1>1. ASSUME UNCHANGED <<queue, parked, parkedFilter>>
        PROVE  \A i \in DOMAIN queue' : ~Matches(parkedFilter', queue'[i])
    BY <1>1 DEF NoLostWakeup, NoMatch
  <1>2. CASE \/ \E f \in Filters, d \in Dests, b \in BOOLEAN : Receive(f, d, b)
             \/ \E f \in ReplyFilters, d \in Dests, b \in BOOLEAN : Ask(f, d, b)
             \/ AwaitReply \/ AdmitWaitingSender
    <2>1. owner # "parked" /\ parked' = parked
      BY <1>2 DEF Receive, Ask, AwaitReply, AdmitWaitingSender, mailboxVars
    <2> QED  BY <1>0, <2>1
  <1>3. CASE ParkFilter
    BY <1>0, <1>3 DEF ParkFilter, RecheckMisses, NoMatch, queueVars
  <1>4. ASSUME NEW d \in deadlines, FireDeadline(d)
        PROVE  \A i \in DOMAIN queue' : ~Matches(parkedFilter', queue'[i])
    BY <1>1, <1>4 DEF FireDeadline, TakeParkedAt, queueVars
  <1>5. ASSUME NEW s \in Sources, Push(s)
        PROVE  \A i \in DOMAIN queue' : ~Matches(parkedFilter', queue'[i])
    <2>1. hop[s] \in Hops
      BY <1>0, <1>5 DEF Push
    <2>2. NoHandoff(hop[s])
      BY <1>5 DEF Push, Handoff
    <2>3. PICK effect \in Effects : Enqueue(hop[s], overflow, effect)
      BY <1>5 DEF Push, Handoff
    <2>4. \E k \in 0 .. Len(queue) : Slid(k) \/ SlidAppended(k, hop[s])
      BY <1>0, <2>1, <2>3, EnqueueEffect
    <2>5. /\ parked /\ parkedFilter' = parkedFilter
          /\ NoMatch(parkedFilter) /\ ~Matches(parkedFilter, hop[s])
      BY <2>2 DEF NoHandoff, NoLostWakeup
    <2> QED  BY <1>0, <2>4, <2>5, NoMatchKept
  <1>6. CASE PushSystem
    <2>1. hop[System] \in Hops
      BY <1>0, <1>6 DEF PushSystem, Sources
    <2>2. NoHandoff(hop[System]) /\ ForcePush(hop[System])
      BY <1>6 DEF PushSystem, Handoff
    <2>3. SlidAppended(0, hop[System])
      BY <1>0, <2>1, <2>2, ForcePushEffect
    <2>4. \E k \in 0 .. Len(queue) : Slid(k) \/ SlidAppended(k, hop[System])
      BY <2>3 DEF SlidAppended
    <2>5. /\ parked /\ parkedFilter' = parkedFilter
          /\ NoMatch(parkedFilter) /\ ~Matches(parkedFilter, hop[System])
      BY <2>2 DEF NoHandoff, NoLostWakeup
    <2> QED  BY <1>0, <2>4, <2>5, NoMatchKept
  <1>7. CASE KillOwner
    BY <1>7 DEF KillOwner
  <1>8. CASE \/ \E d \in arming : ArmDeadline(d)
             \/ \E s \in Sources, b \in Bodies : StartSend(s, b)
             \/ \E s \in Senders : ParkLookup(s) \/ ParkSender(s) \/ KillSender(s)
             \/ \E s \in Senders : SenderExit(s) \/ TakeWaiters(s) \/ LeaveDirectory(s)
             \/ Exit \/ Close \/ Unregister \/ UNCHANGED vars
    <2>1. UNCHANGED <<queue, parked, parkedFilter>>
      BY <1>8 DEF ArmDeadline, StartSend, ParkLookup, ParkSender, KillSender, SenderExit,
                  TakeWaiters, LeaveDirectory, Exit, Close, Unregister, vars, queueVars,
                  mailboxVars
    <2> QED  BY <1>1, <2>1
  <1>9. CASE \/ \E t \in tails : CheckTarget(t)
             \/ \E s \in Senders : WakeOrphan(s)
    <2>1. UNCHANGED <<queue, parked, parkedFilter>>
      BY <1>9 DEF CheckTarget, WakeOrphan, WakeParked, queueVars
    <2> QED  BY <1>1, <2>1
  <1> QED
    BY <1>9, <1>2, <1>3, <1>4, <1>5, <1>6, <1>7, <1>8, AskedAreSenders DEF Next

(***************************************************************************)
(* A flow never sleeps on a hop it asked for, whatever the interleaving of *)
(* try_pop_filter, park_filter, push, push_system, eviction and deadlines. *)
(***************************************************************************)
THEOREM NoWakeupLost == Spec => []NoLostWakeup
  <1>1. Init => NoLostWakeup
    BY DEF Init, NoLostWakeup
  <1> QED  BY <1>1, PlaceInit, PlaceStep, WakeupStep, PTL DEF Spec


(***************************************************************************)
(* Why a wake fits its wait: the filter in the mailbox is the one the      *)
(* Receive asked for, and every deadline, armed, about to be, or waiting   *)
(* for a look at the target of its Ask, belongs to an epoch that is over   *)
(* or to the wait of the current one.                                      *)
(***************************************************************************)
FilterIntact == parked => parkedFilter = wait.filter

OwnedBy(epoch, dest, timeout) ==
    /\ epoch \in 1 .. waitEpoch
    /\ owner = "parked" /\ epoch = waitEpoch => wait.timeout = timeout /\ dest = wait.dest

DeadlinesOwned ==
    /\ \A d \in arming \cup deadlines : OwnedBy(d.epoch, d.dest, TRUE)
    /\ \A t \in tails : OwnedBy(t.epoch, t.dest, t.timeout)

WakeInv == FilterIntact /\ DeadlinesOwned

LEMMA WakeInvStep == PlaceInv /\ WakeInv /\ [Next]_vars => WakeInv'
  <1> SUFFICES ASSUME PlaceInv, WakeInv, [Next]_vars PROVE WakeInv'
    OBVIOUS
  <1>0. /\ parked <=> owner = "parked"
        /\ parked \in BOOLEAN
        /\ waitEpoch \in Nat
        /\ owner = "parking" => wait \in Waits
        /\ tails \subseteq Tails
    BY MailboxAssumption DEF PlaceInv, TypeOK, FlowInOnePlace
  <1>o. ASSUME NEW epoch, NEW dest, NEW timeout, OwnedBy(epoch, dest, timeout),
               UNCHANGED waitEpoch,
               UNCHANGED <<wait, owner>> \/ owner' # "parked"
        PROVE  OwnedBy(epoch, dest, timeout)'
    BY <1>o DEF OwnedBy
  <1>1. ASSUME UNCHANGED waitEpoch,
               UNCHANGED <<wait, owner>> \/ owner' # "parked",
               UNCHANGED <<wait, parked, parkedFilter>> \/ parked' = FALSE,
               arming' \cup deadlines' \subseteq arming \cup deadlines,
               tails' \subseteq tails
        PROVE  WakeInv'
    <2>1. FilterIntact'
      BY <1>1 DEF WakeInv, FilterIntact
    <2>2. ASSUME NEW d \in arming' \cup deadlines' PROVE OwnedBy(d.epoch, d.dest, TRUE)'
      BY <1>1, <1>o DEF WakeInv, DeadlinesOwned
    <2>3. ASSUME NEW t \in tails' PROVE OwnedBy(t.epoch, t.dest, t.timeout)'
      BY <1>1, <1>o DEF WakeInv, DeadlinesOwned
    <2> QED  BY <2>1, <2>2, <2>3 DEF WakeInv, DeadlinesOwned
  <1>2. CASE \/ \E f \in Filters, d \in Dests, b \in BOOLEAN : Receive(f, d, b)
             \/ \E f \in ReplyFilters, d \in Dests, b \in BOOLEAN : Ask(f, d, b)
             \/ AwaitReply
    <2>1. /\ parked' = FALSE /\ owner' # "parked"
          /\ UNCHANGED <<waitEpoch, arming, deadlines, tails>>
      BY <1>0, <1>2 DEF Receive, Ask, AwaitReply, mailboxVars, timerVars, askVars
    <2> QED  BY <2>1, <1>1
  <1>4. CASE ParkFilter
    <2>1. CASE /\ owner' = "running"
               /\ UNCHANGED <<parked, parkedFilter, waitEpoch, arming, tails>>
      BY <1>1, <1>4, <2>1 DEF ParkFilter
    <2>2. CASE /\ waitEpoch' = waitEpoch + 1
               /\ parkedFilter' = wait.filter
               /\ owner' = "parked"
               /\ arming' = IF wait.timeout /\ ~Asking
                            THEN arming \cup {[epoch |-> NewEpoch, dest |-> wait.dest]}
                            ELSE arming
               /\ tails' = IF Asking
                           THEN tails \cup {[asked |-> wait.filter.sender,
                                             epoch |-> NewEpoch, dest |-> wait.dest,
                                             timeout |-> wait.timeout]}
                           ELSE tails
      <3>1. UNCHANGED <<wait, deadlines>> /\ wait \in Waits
        BY <1>0, <1>4 DEF ParkFilter
      <3>2. FilterIntact'
        BY <2>2, <3>1 DEF FilterIntact
      <3>3. ASSUME NEW epoch, NEW dest, NEW timeout, OwnedBy(epoch, dest, timeout)
            PROVE  OwnedBy(epoch, dest, timeout)'
        BY <3>3, <2>2, <1>0 DEF OwnedBy
      <3>4. ASSUME NEW epoch, NEW dest, NEW timeout,
                   epoch = NewEpoch, dest = wait.dest, timeout = wait.timeout
            PROVE  OwnedBy(epoch, dest, timeout)'
        <4>1. epoch = waitEpoch' /\ waitEpoch' \in 1 .. waitEpoch'
          BY <2>2, <3>4, <1>0 DEF NewEpoch
        <4> QED  BY <3>1, <3>4, <4>1 DEF OwnedBy
      <3>5. ASSUME NEW d \in arming' \cup deadlines' PROVE OwnedBy(d.epoch, d.dest, TRUE)'
        <4>1. CASE d \in arming \cup deadlines
          BY <3>3, <4>1 DEF WakeInv, DeadlinesOwned
        <4>2. CASE wait.timeout /\ d = [epoch |-> NewEpoch, dest |-> wait.dest]
          <5>1. wait.timeout = TRUE
            BY <3>1, <4>2 DEF Waits
          <5> QED  BY <3>4, <4>2, <5>1
        <4> QED  BY <4>1, <4>2, <2>2, <3>1
      <3>6. ASSUME NEW t \in tails' PROVE OwnedBy(t.epoch, t.dest, t.timeout)'
        <4>1. CASE t \in tails
          BY <3>3, <4>1 DEF WakeInv, DeadlinesOwned
        <4>2. CASE t = [asked |-> wait.filter.sender, epoch |-> NewEpoch,
                        dest |-> wait.dest, timeout |-> wait.timeout]
          BY <3>4, <4>2
        <4> QED  BY <4>1, <4>2, <2>2
      <3> QED  BY <3>2, <3>5, <3>6 DEF WakeInv, DeadlinesOwned
    <2> QED  BY <1>4, <2>1, <2>2 DEF ParkFilter
  <1>5. ASSUME NEW d \in arming, ArmDeadline(d)
        PROVE  WakeInv'
    <2>1. /\ arming' \cup deadlines' \subseteq arming \cup deadlines
          /\ UNCHANGED <<parked, parkedFilter, waitEpoch, wait, owner, tails>>
      BY <1>5 DEF ArmDeadline, mailboxVars, ownerVars, askVars
    <2> QED  BY <1>1, <2>1
  <1>6. ASSUME NEW d \in deadlines, FireDeadline(d)
        PROVE  WakeInv'
    <2>1. arming' \cup deadlines' \subseteq arming \cup deadlines
      BY <1>6 DEF FireDeadline
    <2>2. UNCHANGED <<waitEpoch, wait, tails>>
      BY <1>6 DEF FireDeadline
    <2>3. CASE parked /\ ~parked'
      BY <1>1, <1>6, <2>1, <2>2, <2>3 DEF FireDeadline, TakeParkedAt
    <2>4. CASE ~(parked /\ ~parked')
      BY <1>1, <1>6, <2>1, <2>2, <2>4 DEF FireDeadline, TakeParkedAt
    <2> QED  BY <2>3, <2>4
  <1>7. ASSUME NEW h, Handoff(h) \/ NoHandoff(h),
               UNCHANGED <<waitEpoch, wait, timerVars, tails>>
        PROVE  WakeInv'
    BY <1>1, <1>7 DEF Handoff, NoHandoff, timerVars
  <1>8. ASSUME NEW s \in Sources, Push(s)
        PROVE  WakeInv'
    BY <1>7, <1>8 DEF Push
  <1>9. CASE PushSystem
    BY <1>7, <1>9 DEF PushSystem
  <1>10. CASE \/ \E s \in Sources, b \in Bodies : StartSend(s, b)
              \/ \E s \in Senders : ParkLookup(s) \/ ParkSender(s) \/ KillSender(s)
              \/ \E s \in Senders : \/ SenderExit(s) \/ TakeWaiters(s)
                                   \/ WakeOrphan(s) \/ LeaveDirectory(s)
              \/ AdmitWaitingSender \/ KillOwner \/ Exit \/ Close \/ Unregister
              \/ UNCHANGED vars
    <2>1. /\ UNCHANGED <<waitEpoch, wait, arming, deadlines, tails>>
          /\ UNCHANGED owner \/ owner' # "parked"
          /\ UNCHANGED <<parked, parkedFilter>> \/ parked' = FALSE
      BY <1>10 DEF StartSend, ParkLookup, ParkSender, KillSender, AdmitWaitingSender,
                   SenderExit, TakeWaiters, WakeOrphan, WakeParked, LeaveDirectory,
                   KillOwner, Exit, Close, Unregister, vars, mailboxVars, ownerVars,
                   timerVars, askVars
    <2> QED  BY <1>1, <2>1
  <1>11. ASSUME NEW t \in tails, CheckTarget(t)
         PROVE  WakeInv'
    <2>0. UNCHANGED <<waitEpoch, wait, deadlines>> /\ tails' \subseteq tails
      BY <1>11 DEF CheckTarget
    <2>1. CASE ends[t.asked] = "gone"
      BY <1>1, <1>11, <2>0, <2>1 DEF CheckTarget, WakeParked
    <2>2. CASE ends[t.asked] # "gone"
      <3>1. /\ UNCHANGED <<parked, parkedFilter, owner>>
            /\ arming' = IF t.timeout
                         THEN arming \cup {[epoch |-> t.epoch, dest |-> t.dest]}
                         ELSE arming
        BY <1>11, <2>2 DEF CheckTarget
      <3>2. FilterIntact'
        BY <2>0, <3>1 DEF WakeInv, FilterIntact
      <3>3. ASSUME NEW d \in arming' \cup deadlines' PROVE OwnedBy(d.epoch, d.dest, TRUE)'
        <4>1. CASE d \in arming \cup deadlines
          BY <1>o, <2>0, <3>1, <4>1 DEF WakeInv, DeadlinesOwned
        <4>2. CASE t.timeout /\ d = [epoch |-> t.epoch, dest |-> t.dest]
          <5>1. t.timeout = TRUE /\ OwnedBy(t.epoch, t.dest, t.timeout)
            BY <1>0, <4>2 DEF Tails, WakeInv, DeadlinesOwned
          <5>2. OwnedBy(t.epoch, t.dest, TRUE)
            BY <5>1
          <5> QED  BY <1>o, <2>0, <3>1, <4>2, <5>2
        <4> QED  BY <2>0, <3>1, <4>1, <4>2
      <3>4. ASSUME NEW u \in tails' PROVE OwnedBy(u.epoch, u.dest, u.timeout)'
        BY <1>o, <2>0, <3>1 DEF WakeInv, DeadlinesOwned
      <3> QED  BY <3>2, <3>3, <3>4 DEF WakeInv, DeadlinesOwned
    <2> QED  BY <2>1, <2>2
  <1> QED
    BY <1>2, <1>4, <1>5, <1>6, <1>8, <1>9, <1>10, <1>11, AskedAreSenders DEF Next

(* Apart from exit notices, only a handoff or the deadline of the current  *)
(* epoch resumes a parked owner.                                           *)
LEMMA WakeStep ==
    ASSUME PlaceInv, WakeInv, [Next]_vars, owner = "parked", owner' = "running"
    PROVE  /\ resumed'.kind # "exit" => resumed'.dest = wait.dest
           /\ resumed'.kind = "deadline" => wait.timeout
           /\ resumed'.kind = "hop" => parkedFilter = wait.filter
  <1>0. parked /\ parkedFilter = wait.filter
    BY DEF PlaceInv, FlowInOnePlace, WakeInv, FilterIntact
  <1>1. CASE \E h : Handoff(h)
    BY <1>0, <1>1 DEF Handoff, ResumeWith
  <1>2. ASSUME NEW d \in deadlines, FireDeadline(d)
        PROVE  /\ resumed'.dest = wait.dest
               /\ resumed'.kind = "deadline" => wait.timeout
               /\ resumed'.kind = "hop" => parkedFilter = wait.filter
    <2>1. d.epoch = waitEpoch /\ resumed' = [dest |-> d.dest, kind |-> "deadline"]
      BY <1>0, <1>2 DEF FireDeadline, TakeParkedAt, ResumeWith
    <2>2. wait.timeout = TRUE /\ d.dest = wait.dest
      BY <2>1 DEF WakeInv, DeadlinesOwned, OwnedBy
    <2> QED  BY <2>1, <2>2
  <1>3. CASE (\E s \in Sources : Push(s)) \/ PushSystem
    BY <1>1, <1>3 DEF Push, PushSystem, NoHandoff
  <1>4. CASE \/ \E f \in Filters, d \in Dests, b \in BOOLEAN : Receive(f, d, b)
             \/ \E f \in ReplyFilters, d \in Dests, b \in BOOLEAN : Ask(f, d, b)
             \/ AwaitReply \/ AdmitWaitingSender \/ ParkFilter
             \/ \E d \in arming : ArmDeadline(d)
             \/ \E s \in Sources, b \in Bodies : StartSend(s, b)
             \/ \E s \in Senders : ParkLookup(s) \/ ParkSender(s) \/ KillSender(s)
             \/ \E s \in Senders : SenderExit(s) \/ TakeWaiters(s) \/ LeaveDirectory(s)
             \/ KillOwner \/ Exit \/ Close \/ Unregister \/ UNCHANGED vars
    BY <1>4 DEF Receive, Ask, AwaitReply, AdmitWaitingSender, ParkFilter,
                ArmDeadline, StartSend, ParkLookup, ParkSender, KillSender,
                SenderExit, TakeWaiters, LeaveDirectory,
                KillOwner, Exit, Close, Unregister, vars, ownerVars
  <1>5. CASE \/ \E t \in tails : CheckTarget(t)
             \/ \E s \in Senders : WakeOrphan(s)
    <2>1. resumed'.kind = "exit"
      BY <1>0, <1>5 DEF CheckTarget, WakeOrphan, WakeParked, ResumeWith
    <2> QED  BY <2>1
  <1> QED
    BY <1>2, <1>3, <1>4, <1>5, AskedAreSenders DEF Next

(***************************************************************************)
(* No stale deadline and no downgraded filter ever ends a wait: for every  *)
(* number of parks, filters and registers, with Asks whose targets end at  *)
(* any moment.                                                             *)
(***************************************************************************)
THEOREM WakesBelong == Spec => HopOrDeadlineFitsWait
  <1>1. Init => WakeInv
    BY DEF Init, WakeInv, FilterIntact, DeadlinesOwned
  <1>2. PlaceInv /\ WakeInv /\ [Next]_vars =>
          [owner = "parked" /\ owner' = "running" =>
             /\ resumed'.kind # "exit" => resumed'.dest = wait.dest
             /\ resumed'.kind = "deadline" => wait.timeout
             /\ resumed'.kind = "hop" => parkedFilter = wait.filter]_vars
    BY WakeStep
  <1> QED
    BY <1>1, <1>2, PlaceInit, PlaceStep, WakeInvStep, PTL
       DEF Spec, HopOrDeadlineFitsWait

(***************************************************************************)
(* The index entry is made before the owner parks, so it is there, or its  *)
(* target has begun to end, from the moment park_ask inserts it.           *)
(***************************************************************************)
IndexInv ==
    owner \in {"parking", "parked"} /\ Asking =>
        wait.filter.sender \in askWaits \/ src[wait.filter.sender] = "dead"

LEMMA IndexStep == PlaceInv /\ IndexInv /\ [Next]_vars => IndexInv'
  <1> SUFFICES ASSUME PlaceInv, IndexInv, [Next]_vars,
                      owner' \in {"parking", "parked"}, Asking'
               PROVE  wait'.filter.sender \in askWaits' \/ src'[wait'.filter.sender] = "dead"
    BY DEF IndexInv
  <1>0. /\ TypeOK
        /\ parked <=> owner = "parked"
        /\ src \in [Sources -> SourceStates]
        /\ wait'.filter.sender \in Senders
    BY MailboxAssumption DEF PlaceInv, TypeOK, FlowInOnePlace, Asking
  <1>1. ASSUME owner \in {"parking", "parked"}, UNCHANGED wait, askWaits \subseteq askWaits',
               \A s \in Senders : src[s] = "dead" => src'[s] = "dead"
        PROVE  wait'.filter.sender \in askWaits' \/ src'[wait'.filter.sender] = "dead"
    BY <1>0, <1>1 DEF IndexInv, Asking
  <1>2. CASE \E f \in Filters, d \in Dests, b \in BOOLEAN : Receive(f, d, b)
    <2>1. wait'.filter \in Filters
      BY <1>2 DEF Receive
    <2> QED  BY <2>1, MailboxAssumption DEF Asking
  <1>3. CASE AwaitReply
    BY <1>3 DEF AwaitReply
  <1>4. CASE ParkFilter
    <2>1. owner' = "parked" /\ UNCHANGED askWaits
      BY <1>4 DEF ParkFilter
    <2> QED  BY <1>1, <1>4, <2>1 DEF ParkFilter, sourceVars
  <1>5. ASSUME NEW t \in tails, CheckTarget(t)
        PROVE  wait'.filter.sender \in askWaits' \/ src'[wait'.filter.sender] = "dead"
    <2>1. UNCHANGED <<owner, askWaits, wait, src>>
      BY <1>0, <1>5 DEF CheckTarget, WakeParked, sourceVars
    <2> QED  BY <1>1, <2>1
  <1>6. ASSUME NEW d \in deadlines, FireDeadline(d)
        PROVE  wait'.filter.sender \in askWaits' \/ src'[wait'.filter.sender] = "dead"
    <2>1. UNCHANGED <<owner, askWaits, wait, src>>
      BY <1>6 DEF FireDeadline, sourceVars
    <2> QED  BY <1>1, <2>1
  <1>7. ASSUME NEW s \in Sources, StartSend(s, hop'[s].body) \/ Push(s)
        PROVE  wait'.filter.sender \in askWaits' \/ src'[wait'.filter.sender] = "dead"
    <2>1. UNCHANGED <<owner, askWaits, wait>>
      BY <1>7 DEF StartSend, Push, Handoff, NoHandoff, ownerVars, askVars
    <2>2. src[s] # "dead" /\ \E x : src' = [src EXCEPT ![s] = x] \/ src' = src
      BY <1>7 DEF StartSend, Push
    <2>3. \A r \in Senders : src[r] = "dead" => src'[r] = "dead"
      BY <1>0, <2>2 DEF Sources
    <2> QED  BY <1>1, <2>1, <2>3
  <1>8. CASE PushSystem
    <2>1. UNCHANGED <<owner, askWaits, wait>>
      BY <1>8 DEF PushSystem, Handoff, NoHandoff
    <2>2. \A r \in Senders : src[r] = "dead" => src'[r] = "dead"
      BY <1>0, <1>8 DEF PushSystem, Sources
    <2> QED  BY <1>1, <2>1, <2>2
  <1>9. ASSUME NEW s \in Senders, \/ ParkLookup(s) \/ ParkSender(s) \/ KillSender(s)
                                  \/ SenderExit(s)
        PROVE  wait'.filter.sender \in askWaits' \/ src'[wait'.filter.sender] = "dead"
    <2>1. UNCHANGED <<owner, askWaits, wait>>
      BY <1>9 DEF ParkLookup, ParkSender, KillSender, SenderExit, ownerVars, askVars
    <2>2. \A r \in Senders : src[r] = "dead" => src'[r] = "dead"
      BY <1>0, <1>9 DEF ParkLookup, ParkSender, KillSender, SenderExit, Sources
    <2> QED  BY <1>1, <2>1, <2>2
  <1>10. ASSUME NEW s \in Senders, TakeWaiters(s)
         PROVE  wait'.filter.sender \in askWaits' \/ src'[wait'.filter.sender] = "dead"
    <2>1. /\ UNCHANGED <<owner, wait, src>> /\ src[s] = "dead"
          /\ askWaits' = askWaits \ {s}
      BY <1>10 DEF TakeWaiters, ownerVars, sourceVars
    <2> QED  BY <2>1 DEF IndexInv, Asking
  <1>11. ASSUME NEW s \in Senders, WakeOrphan(s) \/ LeaveDirectory(s)
         PROVE  wait'.filter.sender \in askWaits' \/ src'[wait'.filter.sender] = "dead"
    <2>1. UNCHANGED <<owner, wait, src, askWaits>>
      BY <1>0, <1>11 DEF WakeOrphan, WakeParked, LeaveDirectory, ownerVars, sourceVars
    <2> QED  BY <1>1, <2>1
  <1>12. CASE \/ \E f \in ReplyFilters, d \in Dests, b \in BOOLEAN : Ask(f, d, b)
              \/ AdmitWaitingSender \/ KillOwner \/ Exit \/ Close \/ Unregister
    BY <1>12 DEF Ask, AdmitWaitingSender, KillOwner, Exit, Close, Unregister
  <1>13. CASE (\E d \in arming : ArmDeadline(d)) \/ UNCHANGED vars
    <2>1. UNCHANGED <<owner, wait, src, askWaits>>
      BY <1>13 DEF ArmDeadline, vars, ownerVars, askVars, sourceVars
    <2> QED  BY <1>1, <2>1
  <1>14. ASSUME NEW s \in Sources, NEW b \in Bodies, StartSend(s, b)
         PROVE  StartSend(s, hop'[s].body)
    BY <1>14, <1>0 DEF StartSend, TypeOK
  <1> QED
    BY <1>2, <1>3, <1>4, <1>5, <1>6, <1>7, <1>8, <1>9, <1>10, <1>11, <1>12, <1>13, <1>14, AskedAreSenders
       DEF Next

(***************************************************************************)
(* A parked asker is always found by the end of the flow it asked, however *)
(* many stale wakers of earlier waits are still under way.                 *)
(***************************************************************************)
THEOREM AskersIndexed == Spec => []AskerIsIndexed
  <1>1. Init => IndexInv
    BY DEF Init, IndexInv
  <1>2. IndexInv => AskerIsIndexed
    BY DEF IndexInv, AskerIsIndexed
  <1> QED  BY <1>1, <1>2, PlaceInit, PlaceStep, IndexStep, PTL DEF Spec

(***************************************************************************)
(* A deadline that is armed for the current wait is not used up without    *)
(* ending it: one that fires takes the flow, and the last look at an asked *)
(* flow arms one or wakes the asker.                                       *)
(***************************************************************************)
LEMMA ArmedStep ==
    PlaceInv /\ WakeInv /\ TimedWaitIsArmed /\ [Next]_vars => TimedWaitIsArmed'
  <1> SUFFICES ASSUME PlaceInv, WakeInv, TimedWaitIsArmed, [Next]_vars,
                      owner' = "parked", wait'.timeout
               PROVE  \/ \E d \in arming' \cup deadlines' : d.epoch = waitEpoch'
                      \/ \E t \in tails' : t.epoch = waitEpoch' /\ t.timeout
    BY DEF TimedWaitIsArmed
  <1> DEFINE Armed == \/ \E d \in arming' \cup deadlines' : d.epoch = waitEpoch'
                      \/ \E t \in tails' : t.epoch = waitEpoch' /\ t.timeout
  <1>0. parked <=> owner = "parked"
    BY DEF PlaceInv, FlowInOnePlace
  <1>1. ASSUME owner = "parked", UNCHANGED <<wait, waitEpoch>>,
               arming \cup deadlines \subseteq arming' \cup deadlines', tails \subseteq tails'
        PROVE  Armed
    BY <1>1 DEF TimedWaitIsArmed
  <1>2. CASE ParkFilter
    <2> DEFINE deadline == [epoch |-> NewEpoch, dest |-> wait.dest]
               tail == [asked |-> wait.filter.sender, epoch |-> NewEpoch,
                        dest |-> wait.dest, timeout |-> wait.timeout]
    <2>1. /\ waitEpoch' = NewEpoch
          /\ wait' = wait
          /\ arming' = IF wait.timeout /\ ~Asking THEN arming \cup {deadline} ELSE arming
          /\ tails' = IF Asking THEN tails \cup {tail} ELSE tails
      BY <1>2 DEF ParkFilter, NewEpoch
    <2>2. CASE Asking
      <3>1. tail \in tails' /\ tail.epoch = waitEpoch' /\ tail.timeout
        BY <2>1, <2>2
      <3> QED  BY <3>1
    <2>3. CASE ~Asking
      <3>1. deadline \in arming' /\ deadline.epoch = waitEpoch'
        BY <2>1, <2>3
      <3> QED  BY <3>1
    <2> QED  BY <2>2, <2>3
  <1>3. ASSUME NEW t \in tails, CheckTarget(t) PROVE Armed
    <2>1. /\ UNCHANGED <<owner, wait, waitEpoch, deadlines>>
          /\ tails' = tails \ {t}
          /\ arming' = IF t.timeout
                       THEN arming \cup {[epoch |-> t.epoch, dest |-> t.dest]}
                       ELSE arming
      BY <1>0, <1>3 DEF CheckTarget, WakeParked
    <2>2. CASE \E d \in arming \cup deadlines : d.epoch = waitEpoch
      BY <2>1, <2>2
    <2>3. ASSUME NEW u \in tails, u.epoch = waitEpoch, u.timeout PROVE Armed
      <3>1. CASE u = t
        <4> DEFINE deadline == [epoch |-> t.epoch, dest |-> t.dest]
        <4>1. deadline \in arming' /\ deadline.epoch = waitEpoch'
          BY <2>1, <2>3, <3>1
        <4> QED  BY <4>1
      <3>2. CASE u # t
        BY <2>1, <2>3, <3>2
      <3> QED  BY <3>1, <3>2
    <2> QED  BY <2>1, <2>2, <2>3 DEF TimedWaitIsArmed
  <1>4. ASSUME NEW d \in arming, ArmDeadline(d) PROVE Armed
    BY <1>1, <1>4 DEF ArmDeadline, mailboxVars, ownerVars, askVars
  <1>5. ASSUME NEW d \in deadlines, FireDeadline(d) PROVE Armed
    <2>1. /\ UNCHANGED <<owner, wait, waitEpoch, arming, tails>>
          /\ deadlines' = deadlines \ {d}
          /\ owner = "parked"
          /\ d.epoch # waitEpoch
      BY <1>0, <1>5 DEF FireDeadline, TakeParkedAt
    <2> QED  BY <2>1 DEF TimedWaitIsArmed
  <1>6. ASSUME NEW s \in Sources, Push(s) PROVE Armed
    <2>1. UNCHANGED <<owner, wait, waitEpoch, timerVars, tails>>
      BY <1>6 DEF Push, Handoff, NoHandoff
    <2> QED  BY <1>1, <2>1 DEF timerVars
  <1>7. CASE PushSystem
    <2>1. UNCHANGED <<owner, wait, waitEpoch, timerVars, tails>>
      BY <1>7 DEF PushSystem, Handoff, NoHandoff
    <2> QED  BY <1>1, <2>1 DEF timerVars
  <1>8. ASSUME NEW s \in Sources, NEW b \in Bodies, StartSend(s, b) PROVE Armed
    BY <1>1, <1>8 DEF StartSend, mailboxVars, ownerVars, timerVars, askVars
  <1>9. ASSUME NEW s \in Senders, \/ ParkLookup(s) \/ ParkSender(s) \/ KillSender(s)
                                  \/ SenderExit(s) \/ TakeWaiters(s) \/ LeaveDirectory(s)
        PROVE  Armed
    <2>1. UNCHANGED <<owner, wait, waitEpoch, arming, deadlines, tails>>
      BY <1>9 DEF ParkLookup, ParkSender, KillSender, SenderExit, TakeWaiters,
                  LeaveDirectory, mailboxVars, ownerVars, timerVars, askVars
    <2> QED  BY <1>1, <2>1
  <1>10. ASSUME NEW s \in Senders, WakeOrphan(s) PROVE Armed
    <2>1. UNCHANGED <<owner, wait, waitEpoch, arming, deadlines, tails>>
      BY <1>0, <1>10 DEF WakeOrphan, WakeParked, timerVars
    <2> QED  BY <1>1, <2>1
  <1>11. CASE \/ \E f \in Filters, d \in Dests, b \in BOOLEAN : Receive(f, d, b)
              \/ \E f \in ReplyFilters, d \in Dests, b \in BOOLEAN : Ask(f, d, b)
              \/ AwaitReply \/ AdmitWaitingSender \/ KillOwner \/ Exit \/ Close
              \/ Unregister
    BY <1>11 DEF Receive, Ask, AwaitReply, AdmitWaitingSender, KillOwner, Exit, Close,
                 Unregister
  <1>12. CASE UNCHANGED vars
    BY <1>1, <1>12 DEF vars, mailboxVars, ownerVars, timerVars, askVars
  <1> QED
    BY <1>2, <1>3, <1>4, <1>5, <1>6, <1>7, <1>8, <1>9, <1>10, <1>11, <1>12, AskedAreSenders DEF Next

(***************************************************************************)
(* Whatever happens around it, a flow parked with a timeout has a deadline *)
(* of its own wait ahead: with a timer thread that keeps running, no timed *)
(* wait lasts for ever.                                                    *)
(***************************************************************************)
THEOREM TimedWaitsAreArmed == Spec => []TimedWaitIsArmed
  <1>1. Init => WakeInv /\ TimedWaitIsArmed
    BY DEF Init, WakeInv, FilterIntact, DeadlinesOwned, TimedWaitIsArmed
  <1> QED
    BY <1>1, PlaceInit, PlaceStep, WakeInvStep, ArmedStep, PTL DEF Spec

-----------------------------------------------------------------------------
(* The charge                                                              *)

(* The charge of a queue, hop by hop, in total, and that of its user hops,  *)
(* the ones that are not DOWN.                                             *)
Costs(q) == [i \in DOMAIN q |-> Cost(q[i])]

Total(q) == SumFunctionOnSet(Costs(q), 1 .. Len(q))

UserAt(q) == {i \in DOMAIN q : q[i].sender # System}

User(q) == SumFunctionOnSet(Costs(q), UserAt(q))

(* A queue's places and charges. *)
LEMMA CostsAreNat ==
    ASSUME NEW q \in Seq(Hops)
    PROVE  /\ Len(q) \in Nat /\ DOMAIN q = 1 .. Len(q)
           /\ \A i \in 1 .. Len(q) : /\ q[i] \in Hops
                                     /\ Costs(q)[i] = Cost(q[i]) /\ Cost(q[i]) \in Nat
           /\ IsFiniteSet(1 .. Len(q)) /\ Cardinality(1 .. Len(q)) = Len(q)
           /\ UserAt(q) \in SUBSET (1 .. Len(q)) /\ IsFiniteSet(UserAt(q))
  <1>1. Len(q) \in Nat /\ DOMAIN q = 1 .. Len(q) /\ \A i \in 1 .. Len(q) : q[i] \in Hops
    BY LenProperties, ElementOfSeq
  <1>2. \A i \in 1 .. Len(q) : Costs(q)[i] = Cost(q[i]) /\ Cost(q[i]) \in Nat
    BY <1>1, QueueAssumption DEF Costs, Cost, Hops
  <1>3. IsFiniteSet(1 .. Len(q)) /\ Cardinality(1 .. Len(q)) = Len(q)
    <2>1. 1 \in Int /\ Len(q) \in Int
      BY <1>1
    <2>2. /\ IsFiniteSet(1 .. Len(q))
          /\ Cardinality(1 .. Len(q)) = IF 1 > Len(q) THEN 0 ELSE Len(q) - 1 + 1
      BY <2>1, FS_Interval, Zenon
    <2> QED  BY <1>1, <2>2
  <1>4. UserAt(q) \in SUBSET (1 .. Len(q))
    BY <1>1 DEF UserAt
  <1> QED  BY <1>1, <1>2, <1>3, <1>4, FS_Subset

(* User hops are some of the hops. *)
LEMMA UserWithinTotal ==
    ASSUME NEW q \in Seq(Hops)
    PROVE  /\ Total(q) \in Nat /\ User(q) \in Nat /\ User(q) <= Total(q)
           /\ Cardinality(UserAt(q)) \in Nat /\ Cardinality(UserAt(q)) <= Len(q)
  <1>1. \A i \in 1 .. Len(q) : Costs(q)[i] \in Nat
    BY CostsAreNat
  <1>2. Total(q) \in Nat /\ User(q) \in Nat
    BY <1>1, CostsAreNat, SumIsNat DEF Total, User
  <1>3. User(q) <= Total(q)
    BY <1>1, CostsAreNat, SumMonotone DEF Total, User
  <1>4. Cardinality(UserAt(q)) \in Nat /\ Cardinality(UserAt(q)) <= Len(q)
    BY CostsAreNat, FS_Subset, FS_CardinalityType
  <1> QED  BY <1>2, <1>3, <1>4

(* Some hops of a queue, in any order: no more user hops than before.      *)
LEMMA SelectionSums ==
    ASSUME NEW q \in Seq(Hops), NEW r \in Seq(Hops), NEW b,
           \A i \in 1 .. Len(r) : b[i] \in 1 .. Len(q) /\ r[i] = q[b[i]],
           \A i, j \in 1 .. Len(r) : b[i] = b[j] => i = j
    PROVE  /\ Total(r) = SumFunctionOnSet(Costs(q), NewNames(b, 1 .. Len(r)))
           /\ User(r) <= User(q)
           /\ Cardinality(UserAt(r)) <= Cardinality(UserAt(q))
  <1>0. \A i \in 1 .. Len(r) : Costs(q)[b[i]] = Costs(r)[i] /\ Costs(r)[i] \in Nat
    BY CostsAreNat
  <1>1. Total(r) = SumFunctionOnSet(Costs(q), NewNames(b, 1 .. Len(r)))
    <2>1. Renames(b, Costs(r), Costs(q), 1 .. Len(r)) /\ IsFiniteSet(1 .. Len(r))
      BY <1>0, CostsAreNat DEF Renames
    <2> QED  BY <2>1, SumReindex DEF Total
  <1> DEFINE I == NewNames(b, UserAt(r))
  <1>2. UserAt(r) \subseteq 1 .. Len(r) /\ IsFiniteSet(UserAt(r))
    BY CostsAreNat
  <1>3. SumFunctionOnSet(Costs(q), I) = User(r)
    <2>1. Renames(b, Costs(r), Costs(q), UserAt(r))
      BY <1>0, <1>2 DEF Renames
    <2> QED  BY <1>2, <2>1, SumReindex DEF User
  <1>4. I \subseteq UserAt(q)
    <2>1. DOMAIN q = 1 .. Len(q) /\ DOMAIN r = 1 .. Len(r)
      BY CostsAreNat
    <2> QED  BY <1>2, <2>1 DEF UserAt, NewNames
  <1>5. IsFiniteSet(UserAt(q)) /\ \A i \in UserAt(q) : Costs(q)[i] \in Nat
    BY CostsAreNat
  <1>6. SumFunctionOnSet(Costs(q), I) <= User(q)
    <2> HIDE DEF I
    <2> QED  BY <1>4, <1>5, SumMonotone DEF User
  <1>7. Cardinality(I) = Cardinality(UserAt(r)) /\ IsFiniteSet(I)
    <2> DEFINE g == [i \in UserAt(r) |-> b[i]]
    <2>1. g \in Bijection(UserAt(r), I)
      BY <1>2 DEF Bijection, Injection, Surjection, IsInjective, NewNames
    <2>2. ExistsBijection(UserAt(r), I)
      BY <2>1 DEF ExistsBijection
    <2> HIDE DEF g, I
    <2> QED  BY <2>2, <1>2, FS_Bijection
  <1>8. Cardinality(I) <= Cardinality(UserAt(q))
    BY <1>4, <1>5, FS_Subset
  <1> QED  BY <1>1, <1>3, <1>6, <1>7, <1>8

(* A hop more at the end. *)
LEMMA AppendSums ==
    ASSUME NEW q \in Seq(Hops), NEW h \in Hops
    PROVE  /\ Append(q, h) \in Seq(Hops)
           /\ Len(Append(q, h)) = Len(q) + 1
           /\ Total(Append(q, h)) = Total(q) + Cost(h)
           /\ h.sender = System => /\ User(Append(q, h)) = User(q)
                                   /\ UserAt(Append(q, h)) = UserAt(q)
  <1> DEFINE r == Append(q, h)
             n == Len(q) + 1
  <1>1. r \in Seq(Hops) /\ Len(r) = n /\ r[n] = h /\ \A i \in 1 .. Len(q) : r[i] = q[i]
    BY AppendProperties
  <1>2. /\ Len(q) \in Nat /\ DOMAIN q = 1 .. Len(q) /\ DOMAIN r = 1 .. n
        /\ \A i \in 1 .. n : Costs(r)[i] = Cost(r[i]) /\ Costs(r)[i] \in Nat
        /\ \A i \in 1 .. Len(q) : Costs(q)[i] = Cost(q[i])
        /\ IsFiniteSet(1 .. n) /\ IsFiniteSet(1 .. Len(q)) /\ IsFiniteSet(UserAt(q))
        /\ UserAt(q) \in SUBSET (1 .. Len(q))
    <2> HIDE DEF r
    <2> QED  BY <1>1, CostsAreNat
  <1>3. Agree(Costs(r), Costs(q), 1 .. Len(q)) /\ Agree(Costs(r), Costs(q), UserAt(q))
    BY <1>1, <1>2 DEF Agree
  <1>4. Total(r) = Costs(r)[n] + SumFunctionOnSet(Costs(r), (1 .. n) \ {n})
    BY <1>1, <1>2, SumRemove DEF Total
  <1>5. (1 .. n) \ {n} = 1 .. Len(q)
    BY <1>2
  <1>6. SumFunctionOnSet(Costs(r), 1 .. Len(q)) = Total(q)
    BY <1>2, <1>3, SumSame DEF Total, Agree
  <1>7. Costs(r)[n] = Cost(h) /\ Cost(h) \in Nat /\ Total(q) \in Nat
    BY <1>1, <1>2, UserWithinTotal
  <1>8. ASSUME h.sender = System PROVE UserAt(r) = UserAt(q) /\ User(r) = User(q)
    <2>1. UserAt(r) = UserAt(q)
      BY <1>1, <1>2, <1>8 DEF UserAt
    <2>2. SumFunctionOnSet(Costs(r), UserAt(q)) = User(q)
      BY <1>2, <1>3, SumSame DEF User, Agree
    <2> QED  BY <2>1, <2>2 DEF User
  <1> HIDE DEF r, n
  <1>9. Total(r) = Cost(h) + Total(q)
    BY <1>4, <1>5, <1>6, <1>7, Zenon
  <1> QED  BY <1>1, <1>7, <1>8, <1>9 DEF r, n

(* A hop less, anywhere. *)
LEMMA RemoveSums ==
    ASSUME NEW q \in Seq(Hops), NEW i \in 1 .. Len(q)
    PROVE  /\ RemoveAt(q, i) \in Seq(Hops)
           /\ Total(q) = Total(RemoveAt(q, i)) + Cost(q[i])
           /\ User(RemoveAt(q, i)) <= User(q)
           /\ Cardinality(UserAt(RemoveAt(q, i))) <= Cardinality(UserAt(q))
  <1> DEFINE r == RemoveAt(q, i)
             b == [j \in 1 .. Len(q) - 1 |-> IF j < i THEN j ELSE j + 1]
  <1>1. /\ r \in Seq(Hops) /\ Len(r) = Len(q) - 1
        /\ \A j \in 1 .. (Len(q) - 1) : r[j] = IF j < i THEN q[j] ELSE q[j + 1]
    BY RemoveAtProperties
  <1> HIDE DEF r
  <1>2. /\ Len(q) \in Nat
        /\ \A j \in 1 .. Len(q) : Costs(q)[j] = Cost(q[j]) /\ Costs(q)[j] \in Nat
        /\ IsFiniteSet(1 .. Len(q))
    BY CostsAreNat
  <1>3. /\ \A j \in 1 .. Len(r) : b[j] \in 1 .. Len(q) /\ r[j] = q[b[j]]
        /\ \A j, k \in 1 .. Len(r) : b[j] = b[k] => j = k
    <2>1. \A j \in 1 .. Len(r) : b[j] = IF j < i THEN j ELSE j + 1
      BY <1>1
    <2> HIDE DEF b
    <2>2. \A j \in 1 .. Len(r) : b[j] \in 1 .. Len(q) /\ r[j] = q[b[j]]
      BY <1>1, <1>2, <2>1
    <2>3. \A j, k \in 1 .. Len(r) : b[j] = b[k] => j = k
      BY <1>1, <1>2, <2>1
    <2> QED  BY <2>2, <2>3
  <1>4. NewNames(b, 1 .. Len(r)) = (1 .. Len(q)) \ {i}
    <2>1. \A y \in (1 .. Len(q)) \ {i} : \E j \in 1 .. Len(r) : y = b[j]
      <3> SUFFICES ASSUME NEW y \in (1 .. Len(q)) \ {i}
                   PROVE  \E j \in 1 .. Len(r) : y = b[j]
        OBVIOUS
      <3>1. CASE y < i
        BY <3>1, <1>1, <1>2
      <3>2. CASE ~(y < i)
        <4>1. y - 1 \in 1 .. Len(r) /\ b[y - 1] = y
          BY <3>2, <1>1, <1>2
        <4> QED  BY <4>1
      <3> QED  BY <3>1, <3>2
    <2>2. \A j \in 1 .. Len(r) : b[j] \in (1 .. Len(q)) \ {i}
      BY <1>1, <1>2
    <2> HIDE DEF b
    <2> QED  BY <2>1, <2>2 DEF NewNames
  <1> HIDE DEF b
  <1>5. /\ Total(r) = SumFunctionOnSet(Costs(q), NewNames(b, 1 .. Len(r)))
        /\ User(r) <= User(q)
        /\ Cardinality(UserAt(r)) <= Cardinality(UserAt(q))
    BY <1>1, <1>3, SelectionSums
  <1>6. Total(q) = Costs(q)[i] + SumFunctionOnSet(Costs(q), (1 .. Len(q)) \ {i})
    <2>1. \A j \in 1 .. Len(q) : Costs(q)[j] \in Nat
      BY <1>2
    <2>2. \A j \in 1 .. Len(q) : SumFunctionOnSet(Costs(q), 1 .. Len(q)) =
            Costs(q)[j] + SumFunctionOnSet(Costs(q), (1 .. Len(q)) \ {j})
      BY <1>2, <2>1, SumRemove, Zenon
    <2> QED  BY <2>2 DEF Total
  <1>7. Total(r) \in Nat /\ Costs(q)[i] = Cost(q[i]) /\ Cost(q[i]) \in Nat
    BY <1>1, <1>2, UserWithinTotal
  <1>8. Total(q) = Cost(q[i]) + Total(r)
    BY <1>4, <1>5, <1>6, <1>7, Zenon
  <1> QED  BY <1>1, <1>5, <1>7, <1>8 DEF r

(* The oldest hops gone. *)
LEMMA SuffixSums ==
    ASSUME NEW q \in Seq(Hops), NEW r \in Seq(Hops), NEW k \in 0 .. Len(q),
           Len(r) = Len(q) - k, \A j \in 1 .. (Len(q) - k) : r[j] = q[j + k]
    PROVE  /\ Total(q) = Total(r) + SumFunctionOnSet(Costs(q), 1 .. k)
           /\ SumFunctionOnSet(Costs(q), 1 .. k) \in Nat
           /\ User(r) <= User(q)
           /\ Cardinality(UserAt(r)) <= Cardinality(UserAt(q))
  <1> DEFINE b == [j \in 1 .. Len(q) - k |-> j + k]
  <1>2. /\ Len(q) \in Nat
        /\ \A j \in 1 .. Len(q) : Costs(q)[j] \in Nat
        /\ IsFiniteSet(1 .. Len(q))
    BY CostsAreNat
  <1>3. /\ \A j \in 1 .. Len(r) : b[j] \in 1 .. Len(q) /\ r[j] = q[b[j]]
        /\ \A i, j \in 1 .. Len(r) : b[i] = b[j] => i = j
    <2>1. \A j \in 1 .. Len(r) : b[j] = j + k
      OBVIOUS
    <2> HIDE DEF b
    <2>2. \A j \in 1 .. Len(r) : b[j] \in 1 .. Len(q) /\ r[j] = q[b[j]]
      BY <1>2, <2>1
    <2>3. \A i, j \in 1 .. Len(r) : b[i] = b[j] => i = j
      BY <1>2, <2>1
    <2> QED  BY <2>2, <2>3
  <1>4. NewNames(b, 1 .. Len(r)) = (k + 1) .. Len(q)
    <2>1. ASSUME NEW y \in (k + 1) .. Len(q) PROVE \E j \in 1 .. Len(r) : y = b[j]
      <3>1. y - k \in 1 .. Len(r) /\ b[y - k] = y
        BY <1>2
      <3> QED  BY <3>1
    <2>2. \A j \in 1 .. Len(r) : b[j] \in (k + 1) .. Len(q)
      BY <1>2
    <2> HIDE DEF b
    <2> QED  BY <2>1, <2>2 DEF NewNames
  <1> HIDE DEF b
  <1>5. /\ Total(r) = SumFunctionOnSet(Costs(q), NewNames(b, 1 .. Len(r)))
        /\ User(r) <= User(q)
        /\ Cardinality(UserAt(r)) <= Cardinality(UserAt(q))
    BY <1>3, SelectionSums
  <1> DEFINE A == (k + 1) .. Len(q)
             B == 1 .. k
  <1>6. A \cup B = 1 .. Len(q) /\ A \cap B = {}
    BY <1>2
  <1>7. IsFiniteSet(A) /\ IsFiniteSet(B)
    <2>1. A \subseteq 1 .. Len(q) /\ B \subseteq 1 .. Len(q)
      BY <1>6
    <2> QED  BY <2>1, <1>2, FS_Subset
  <1> HIDE DEF A, B
  <1>8. SumFunctionOnSet(Costs(q), A \cup B) =
          SumFunctionOnSet(Costs(q), A) + SumFunctionOnSet(Costs(q), B)
    BY <1>2, <1>6, <1>7, SumUnion
  <1>9. SumFunctionOnSet(Costs(q), B) \in Nat
    BY <1>2, <1>6, <1>7, SumIsNat
  <1>10. Total(q) = Total(r) + SumFunctionOnSet(Costs(q), B)
    BY <1>4, <1>5, <1>6, <1>8 DEF Total, A
  <1> QED  BY <1>5, <1>9, <1>10 DEF B


(* What the memory contract says of user hops. *)
WithinLimits(q) == Cardinality(UserAt(q)) <= Limit /\ User(q) <= ByteLimit

Charged == bytes = Total(queue) /\ WithinLimits(queue)

(* Taking a hop refunds its cost, which is charged. *)
LEMMA TakeCharged ==
    ASSUME queue \in Seq(Hops), Charged, NEW i \in DOMAIN queue, TakeAt(i)
    PROVE  Charged'
  <1>1. i \in 1 .. Len(queue) /\ Cost(queue[i]) \in Nat
    BY CostsAreNat
  <1>2. /\ queue' \in Seq(Hops)
        /\ Total(queue) = Total(queue') + Cost(queue[i])
        /\ User(queue') <= User(queue)
        /\ Cardinality(UserAt(queue')) <= Cardinality(UserAt(queue))
    BY <1>1, RemoveSums DEF TakeAt
  <1>3. /\ Total(queue') \in Nat /\ User(queue') \in Nat /\ Cardinality(UserAt(queue')) \in Nat
        /\ User(queue) \in Nat /\ Cardinality(UserAt(queue)) \in Nat
    BY <1>2, UserWithinTotal
  <1>4. bytes' = bytes - Cost(queue[i])
    BY <1>1, <1>2, <1>3 DEF TakeAt, Refund, Charged
  <1> QED  BY <1>1, <1>2, <1>3, <1>4, QueueAssumption DEF Charged, WithinLimits

(* Evicting the k oldest hops refunds their costs. *)
LEMMA EvictCharged ==
    ASSUME queue \in Seq(Hops), Charged, NEW k \in 0 .. Len(queue)
    PROVE  /\ Survivors(k) \in Seq(Hops)
           /\ Len(Survivors(k)) = Len(queue) - k
           /\ ChargeAfter(k) = Total(Survivors(k))
           /\ WithinLimits(Survivors(k))
  <1>1. /\ Survivors(k) \in Seq(Hops) /\ Len(Survivors(k)) = Len(queue) - k
        /\ \A j \in 1 .. (Len(queue) - k) : Survivors(k)[j] = queue[j + k]
    BY SurvivorsProperties
  <1> DEFINE r == Survivors(k)
             c == SumFunctionOnSet(Costs(queue), 1 .. k)
  <1>2. PrefixCost(k) = c
    BY DEF PrefixCost, Costs
  <1>3. /\ Total(queue) = Total(r) + c
        /\ c \in Nat
        /\ User(r) <= User(queue)
        /\ Cardinality(UserAt(r)) <= Cardinality(UserAt(queue))
    <2> HIDE DEF r
    <2>1. /\ r \in Seq(Hops) /\ Len(r) = Len(queue) - k
          /\ \A j \in 1 .. (Len(queue) - k) : r[j] = queue[j + k]
      BY <1>1 DEF r
    <2> QED  BY <2>1, SuffixSums
  <1>4. /\ Total(r) \in Nat /\ User(r) \in Nat /\ Cardinality(UserAt(r)) \in Nat
        /\ User(queue) \in Nat /\ Cardinality(UserAt(queue)) \in Nat
    BY <1>1, UserWithinTotal
  <1> HIDE DEF r, c
  <1>5. Refund(bytes, c) = Total(r)
    BY <1>3, <1>4 DEF Refund, Charged
  <1>6. WithinLimits(r)
    BY <1>3, <1>4, QueueAssumption DEF WithinLimits, Charged
  <1> QED  BY <1>1, <1>2, <1>5, <1>6 DEF ChargeAfter, r

(* A user hop is appended only where it fits: there is room for everything *)
(* that is queued, so there is for the user hops.                          *)
LEMMA FitsCharged ==
    ASSUME NEW q \in Seq(Hops), NEW h \in Hops, NEW c, c = Total(q),
           ~IsFull(Len(q)), ~WouldExceedBytes(c, Cost(h))
    PROVE  /\ Total(Append(q, h)) = c + Cost(h)
           /\ WithinLimits(Append(q, h))
  <1> DEFINE r == Append(q, h)
  <1>1. r \in Seq(Hops) /\ Len(r) = Len(q) + 1 /\ Total(r) = Total(q) + Cost(h)
    BY AppendSums
  <1>2. Len(q) \in Nat /\ Cost(h) \in Nat /\ Total(q) \in Nat
    BY CostsAreNat, UserWithinTotal, QueueAssumption DEF Hops, Cost
  <1> HIDE DEF r
  <1>3. /\ User(r) \in Nat /\ User(r) <= Total(r)
        /\ Cardinality(UserAt(r)) \in Nat /\ Cardinality(UserAt(r)) <= Len(r)
    BY <1>1, UserWithinTotal
  <1>4. WithinLimits(r)
    BY <1>1, <1>2, <1>3, QueueAssumption DEF IsFull, WouldExceedBytes, WithinLimits
  <1> QED  BY <1>1, <1>4 DEF r

LEMMA EnqueueCharged ==
    ASSUME queue \in Seq(Hops), Charged, NEW h \in Hops, NEW policy, NEW effect,
           Enqueue(h, policy, effect)
    PROVE  Charged'
  <1>1. CASE Append1(h, effect)
    BY <1>1, FitsCharged DEF Append1, Fits, Charged
  <1>2. CASE RejectHop(h, effect) \/ DropNewest(h, effect)
    BY <1>2 DEF RejectHop, DropNewest, queueVars, Charged
  <1>3. CASE DropOldest(h, effect)
    <2>1. PICK k \in 0 .. Len(queue) :
             /\ EvictsExactly(k, Cost(h))
             /\ IF WouldExceedBytes(ChargeAfter(k), Cost(h))
                THEN queue' = Survivors(k) /\ bytes' = ChargeAfter(k)
                ELSE queue' = QueueBehind(k, h) /\ bytes' = ChargeAfter(k) + Cost(h)
      BY <1>3 DEF DropOldest
    <2>2. /\ Survivors(k) \in Seq(Hops) /\ Len(Survivors(k)) = Len(queue) - k
          /\ ChargeAfter(k) = Total(Survivors(k))
          /\ WithinLimits(Survivors(k))
      BY EvictCharged
    <2>3. CASE WouldExceedBytes(ChargeAfter(k), Cost(h))
      BY <2>1, <2>2, <2>3 DEF Charged
    <2>4. CASE ~WouldExceedBytes(ChargeAfter(k), Cost(h))
      <3>1. ~IsFull(Len(Survivors(k)))
        <4>1. k = Len(queue) \/ ~IsFull(Len(queue) - k)
          BY <2>1 DEF EvictsExactly
        <4>2. k = Len(queue) => ~IsFull(Len(queue) - k)
          BY QueueAssumption, CostsAreNat DEF IsFull
        <4> QED  BY <2>2, <4>1, <4>2
      <3>2. Total(Append(Survivors(k), h)) = ChargeAfter(k) + Cost(h)
            /\ WithinLimits(Append(Survivors(k), h))
        BY <2>2, <2>4, <3>1, FitsCharged
      <3> QED  BY <2>1, <2>4, <3>2 DEF QueueBehind, Charged
    <2> QED  BY <2>3, <2>4
  <1> QED  BY <1>1, <1>2, <1>3 DEF Enqueue

(* A DOWN hop is charged and does not count as a user hop. *)
LEMMA ForceCharged ==
    ASSUME queue \in Seq(Hops), Charged, NEW h \in Hops, h.sender = System, ForcePush(h)
    PROVE  Charged'
  <1>1. /\ Total(Append(queue, h)) = Total(queue) + Cost(h)
        /\ User(Append(queue, h)) = User(queue)
        /\ UserAt(Append(queue, h)) = UserAt(queue)
    BY AppendSums
  <1> QED  BY <1>1 DEF ForcePush, Charged, WithinLimits

-----------------------------------------------------------------------------
(* Order                                                                   *)

(* A source's hops are numbered in the order it sends them, so none that   *)
(* is queued, under way or consumed has a number beyond those handed out.  *)
Numbered ==
    /\ \A i \in DOMAIN queue : queue[i].n <= sent[queue[i].sender]
    /\ \A s \in Sources : src[s] \notin {"running", "dead"} =>
         hop[s].sender = s /\ hop[s].n <= sent[s]
    /\ \A s \in Sources, c \in Classes : delivered[<<s, c>>] <= sent[s]

OrderInv == InOrderOnce /\ Numbered

(* Hops that agree in sender and class satisfy the same filters. *)
LEMMA SameClassMatches ==
    ASSUME NEW f, NEW g \in Hops, NEW h \in Hops, g.sender = h.sender, Class(g) = Class(h),
           Matches(f, g)
    PROVE  Matches(f, h)
  <1>1. g.body.tag = h.body.tag /\ g.body.rid = h.body.rid
    BY DEF Class
  <1> QED  BY <1>1 DEF Matches

LEMMA KeyIsTyped ==
    ASSUME NEW h \in Hops
    PROVE  /\ h.sender \in Sources /\ Class(h) \in Classes /\ h.n \in Nat
           /\ <<h.sender, Class(h)>> \in Sources \X Classes
  BY DEF Hops, Class, Classes

(* The queue keeps some of its hops, in order, and nobody begins a send.   *)
LEMMA OrderThinned ==
    ASSUME TypeOK, OrderInv, queue' \in Seq(Hops), NEW b,
           \A i \in 1 .. Len(queue') : b[i] \in 1 .. Len(queue) /\ queue'[i] = queue[b[i]],
           \A i, j \in 1 .. Len(queue') : i < j => b[i] < b[j],
           UNCHANGED <<delivered, hop, sent>>,
           \A s \in Sources : src'[s] \notin {"running", "dead"} =>
                                src[s] \notin {"running", "dead"}
    PROVE  OrderInv'
  <1>1. /\ DOMAIN queue = 1 .. Len(queue) /\ DOMAIN queue' = 1 .. Len(queue')
        /\ Len(queue) \in Nat /\ Len(queue') \in Nat
    BY LenProperties DEF TypeOK
  <1>2. \A i \in DOMAIN queue' : b[i] \in DOMAIN queue /\ queue'[i] = queue[b[i]]
    BY <1>1
  <1>3. \A i, j \in DOMAIN queue' : i < j => b[i] < b[j]
    BY <1>1
  <1>4. InOrderOnce'
    <2>1. \A i \in DOMAIN queue' :
            delivered'[<<queue'[i].sender, Class(queue'[i])>>] < queue'[i].n
      BY <1>2 DEF OrderInv, InOrderOnce
    <2>2. ASSUME NEW i \in DOMAIN queue', NEW j \in DOMAIN queue', i < j,
                 queue'[i].sender = queue'[j].sender
          PROVE  queue'[i].n < queue'[j].n
      <3>1. b[i] \in DOMAIN queue /\ b[j] \in DOMAIN queue /\ b[i] < b[j]
        BY <1>2, <1>3, <2>2
      <3>2. queue'[i] = queue[b[i]] /\ queue'[j] = queue[b[j]]
        BY <1>2
      <3> QED  BY <2>2, <3>1, <3>2 DEF OrderInv, InOrderOnce
    <2>3. ASSUME NEW s \in Sources, src'[s] \notin {"running", "dead"}
          PROVE  /\ delivered'[<<s, Class(hop'[s])>>] < hop'[s].n
                 /\ \A i \in DOMAIN queue' : queue'[i].sender = s => queue'[i].n < hop'[s].n
      <3>1. src[s] \notin {"running", "dead"}
        BY <2>3
      <3> QED  BY <1>2, <3>1 DEF OrderInv, InOrderOnce
    <2> QED  BY <2>1, <2>2, <2>3 DEF InOrderOnce
  <1>5. Numbered'
    BY <1>2 DEF OrderInv, Numbered
  <1> QED  BY <1>4, <1>5 DEF OrderInv

LEMMA OrderSlid ==
    ASSUME TypeOK, OrderInv, NEW k \in 0 .. Len(queue), Slid(k),
           UNCHANGED <<delivered, hop, sent>>,
           \A s \in Sources : src'[s] \notin {"running", "dead"} =>
                                src[s] \notin {"running", "dead"}
    PROVE  OrderInv'
  <1> DEFINE b == [j \in 1 .. Len(queue') |-> j + k]
  <1>1. Len(queue) \in Nat /\ Len(queue') = Len(queue) - k /\ queue' \in Seq(Hops)
    BY LenProperties DEF TypeOK, Slid
  <1>2. \A i \in 1 .. Len(queue') : b[i] = i + k
    OBVIOUS
  <1> HIDE DEF b
  <1>3. /\ \A i \in 1 .. Len(queue') : b[i] \in 1 .. Len(queue) /\ queue'[i] = queue[b[i]]
        /\ \A i, j \in 1 .. Len(queue') : i < j => b[i] < b[j]
    <2>1. \A i \in 1 .. Len(queue') : b[i] \in 1 .. Len(queue)
      BY <1>1, <1>2
    <2>2. \A i, j \in 1 .. Len(queue') : i < j => b[i] < b[j]
      BY <1>1, <1>2
    <2>3. \A i \in 1 .. Len(queue') : queue'[i] = queue[b[i]]
      BY <1>1, <1>2 DEF Slid
    <2> QED  BY <2>1, <2>2, <2>3
  <1> QED  BY <1>1, <1>3, OrderThinned

LEMMA OrderUntouched ==
    ASSUME TypeOK, OrderInv, UNCHANGED <<queue, delivered, hop, sent>>,
           \A s \in Sources : src'[s] \notin {"running", "dead"} =>
                                src[s] \notin {"running", "dead"}
    PROVE  OrderInv'
  <1>1. InOrderOnce'
    BY DEF OrderInv, InOrderOnce
  <1>2. Numbered'
    BY DEF OrderInv, Numbered
  <1> QED  BY <1>1, <1>2 DEF OrderInv

(* A source's hop goes behind everything it has in the queue. *)
LEMMA OrderAppended ==
    ASSUME TypeOK, OrderInv, NEW s \in Sources, src[s] \notin {"running", "dead"},
           NEW k \in 0 .. Len(queue), SlidAppended(k, hop[s]),
           UNCHANGED <<delivered, hop, sent>>,
           src' = [src EXCEPT ![s] = "running"]
    PROVE  OrderInv'
  <1>1. /\ Len(queue) \in Nat /\ queue' \in Seq(Hops)
        /\ DOMAIN queue = 1 .. Len(queue) /\ DOMAIN queue' = 1 .. (Len(queue) - k + 1)
        /\ \A i \in 1 .. Len(queue) : queue[i] \in Hops
        /\ hop[s] \in Hops /\ hop[s].sender = s /\ hop[s].n <= sent[s]
    BY LenProperties, ElementOfSeq DEF TypeOK, SlidAppended, OrderInv, Numbered
  <1> DEFINE m == Len(queue) - k + 1
  <1>2. /\ queue'[m] = hop[s]
        /\ \A i \in 1 .. m : i # m => i + k \in 1 .. Len(queue) /\ queue'[i] = queue[i + k]
    BY <1>1 DEF SlidAppended
  <1>3. \A r \in Sources : src'[r] \notin {"running", "dead"} =>
          r # s /\ src[r] \notin {"running", "dead"}
    BY DEF TypeOK
  <1>4. Numbered'
    <2>1. ASSUME NEW i \in 1 .. m PROVE queue'[i].n <= sent[queue'[i].sender]
      <3>1. CASE i = m
        BY <1>1, <1>2, <3>1
      <3>2. CASE i # m
        <4>1. i + k \in DOMAIN queue /\ queue'[i] = queue[i + k]
          BY <1>1, <1>2, <3>2
        <4> QED  BY <4>1 DEF OrderInv, Numbered
      <3> QED  BY <3>1, <3>2
    <2> QED  BY <1>1, <1>3, <2>1 DEF OrderInv, Numbered
  <1>5. \A i \in 1 .. m :
          delivered[<<queue'[i].sender, Class(queue'[i])>>] < queue'[i].n
    BY <1>1, <1>2 DEF OrderInv, InOrderOnce
  <1>6. \A i, j \in 1 .. m :
          i < j /\ queue'[i].sender = queue'[j].sender => queue'[i].n < queue'[j].n
    <2> SUFFICES ASSUME NEW i \in 1 .. m, NEW j \in 1 .. m, i < j,
                        queue'[i].sender = queue'[j].sender
                 PROVE  queue'[i].n < queue'[j].n
      OBVIOUS
    <2>1. i # m /\ i + k \in 1 .. Len(queue) /\ queue'[i] = queue[i + k]
      BY <1>1, <1>2
    <2>2. CASE j = m
      BY <1>1, <1>2, <2>1, <2>2 DEF OrderInv, InOrderOnce
    <2>3. CASE j # m
      <3>1. j + k \in 1 .. Len(queue) /\ queue'[j] = queue[j + k] /\ i + k < j + k
        BY <1>1, <1>2, <2>3
      <3> QED  BY <1>1, <2>1, <3>1 DEF OrderInv, InOrderOnce
    <2> QED  BY <2>2, <2>3
  <1>7. ASSUME NEW r \in Sources, src'[r] \notin {"running", "dead"}
        PROVE  /\ delivered[<<r, Class(hop[r])>>] < hop[r].n
               /\ \A i \in 1 .. m : queue'[i].sender = r => queue'[i].n < hop[r].n
    <2>1. r # s /\ src[r] \notin {"running", "dead"}
      BY <1>3, <1>7
    <2>2. \A i \in 1 .. m : queue'[i].sender = r => i # m
      BY <1>1, <1>2, <2>1
    <2> QED  BY <1>1, <1>2, <2>1, <2>2 DEF OrderInv, InOrderOnce
  <1>8. InOrderOnce'
    BY <1>1, <1>5, <1>6, <1>7 DEF InOrderOnce
  <1> QED  BY <1>4, <1>8 DEF OrderInv

(* The owner consumes a hop from the queue: no older one of its class and  *)
(* source was queued, because the filter would have taken it.              *)
LEMMA OrderPopped ==
    ASSUME TypeOK, OrderInv, NEW f, NEW i \in 1 .. Len(queue), TookAt(i),
           OldestMatch(f, i), Consume(queue[i]), UNCHANGED <<src, hop, sent>>
    PROVE  OrderInv'
  <1> DEFINE h == queue[i]
  <1>1. /\ Len(queue) \in Nat
        /\ DOMAIN queue = 1 .. Len(queue) /\ DOMAIN queue' = 1 .. (Len(queue) - 1)
        /\ \A j \in 1 .. Len(queue) : queue[j] \in Hops
        /\ h \in Hops
        /\ delivered \in [Sources \X Classes -> Nat]
    BY LenProperties, ElementOfSeq DEF TypeOK, TookAt
  <1>2. \A x \in Sources, c \in Classes :
          delivered'[<<x, c>>] = IF x = h.sender /\ c = Class(h) THEN h.n
                                 ELSE delivered[<<x, c>>]
    <2>1. <<h.sender, Class(h)>> \in Sources \X Classes
      BY <1>1, KeyIsTyped
    <2> QED  BY <1>1, <2>1 DEF Consume
  <1>3. PICK b : /\ b = [j \in 1 .. Len(queue) - 1 |-> IF j < i THEN j ELSE j + 1]
                 /\ \A j \in 1 .. Len(queue) - 1 :
                      /\ b[j] \in 1 .. Len(queue) /\ b[j] # i
                      /\ queue'[j] = queue[b[j]]
                 /\ \A j, l \in 1 .. Len(queue) - 1 : j < l => b[j] < b[l]
    <2> DEFINE c == [j \in 1 .. Len(queue) - 1 |-> IF j < i THEN j ELSE j + 1]
    <2>1. \A j \in 1 .. Len(queue) - 1 : c[j] = IF j < i THEN j ELSE j + 1
      OBVIOUS
    <2> HIDE DEF c
    <2>2. \A j \in 1 .. Len(queue) - 1 : c[j] \in 1 .. Len(queue) /\ c[j] # i
      BY <1>1, <2>1
    <2>3. \A j, l \in 1 .. Len(queue) - 1 : j < l => c[j] < c[l]
      BY <1>1, <2>1
    <2>4. \A j \in 1 .. Len(queue) - 1 : queue'[j] = queue[c[j]]
      BY <1>1, <2>1 DEF TookAt
    <2> QED  BY <2>2, <2>3, <2>4 DEF c
  <1>4. \A j \in 1 .. Len(queue) :
          j # i /\ queue[j].sender = h.sender /\ Class(queue[j]) = Class(h) => h.n < queue[j].n
    <2> SUFFICES ASSUME NEW j \in 1 .. Len(queue), j # i,
                        queue[j].sender = h.sender, Class(queue[j]) = Class(h)
                 PROVE  h.n < queue[j].n
      OBVIOUS
    <2>1. CASE j < i
      <3>1. ~Matches(f, queue[j]) /\ Matches(f, h)
        BY <1>1, <2>1 DEF OldestMatch
      <3> QED  BY <1>1, <3>1, SameClassMatches
    <2>2. CASE i < j
      BY <1>1, <2>2 DEF OrderInv, InOrderOnce
    <2> QED  BY <1>1, <2>1, <2>2
  <1>5. \A j \in 1 .. Len(queue) : j # i =>
          delivered'[<<queue[j].sender, Class(queue[j])>>] < queue[j].n
    <2> SUFFICES ASSUME NEW j \in 1 .. Len(queue), j # i
                 PROVE  delivered'[<<queue[j].sender, Class(queue[j])>>] < queue[j].n
      OBVIOUS
    <2>1. queue[j].sender \in Sources /\ Class(queue[j]) \in Classes
      BY <1>1, KeyIsTyped
    <2>2. delivered[<<queue[j].sender, Class(queue[j])>>] < queue[j].n
      BY <1>1 DEF OrderInv, InOrderOnce
    <2> HIDE DEF h
    <2> QED  BY <1>2, <1>4, <2>1, <2>2
  <1>6. ASSUME NEW s \in Sources, src[s] \notin {"running", "dead"}
        PROVE  delivered'[<<s, Class(hop[s])>>] < hop[s].n
    <2>1. hop[s] \in Hops /\ Class(hop[s]) \in Classes
      BY <1>6, KeyIsTyped DEF TypeOK
    <2>2. delivered[<<s, Class(hop[s])>>] < hop[s].n /\ (h.sender = s => h.n < hop[s].n)
      BY <1>1, <1>6 DEF OrderInv, InOrderOnce
    <2> HIDE DEF h
    <2> QED  BY <1>2, <2>1, <2>2
  <1>7. \A j \in 1 .. Len(queue) - 1 :
          delivered'[<<queue'[j].sender, Class(queue'[j])>>] < queue'[j].n
    BY <1>3, <1>5
  <1>8. \A j, l \in 1 .. Len(queue) - 1 :
          j < l /\ queue'[j].sender = queue'[l].sender => queue'[j].n < queue'[l].n
    <2> SUFFICES ASSUME NEW j \in 1 .. Len(queue) - 1, NEW l \in 1 .. Len(queue) - 1, j < l,
                        queue'[j].sender = queue'[l].sender
                 PROVE  queue'[j].n < queue'[l].n
      OBVIOUS
    <2>1. /\ b[j] \in DOMAIN queue /\ b[l] \in DOMAIN queue /\ b[j] < b[l]
          /\ queue'[j] = queue[b[j]] /\ queue'[l] = queue[b[l]]
      BY <1>1, <1>3
    <2> QED  BY <2>1 DEF OrderInv, InOrderOnce
  <1>9. \A s \in Sources : src[s] \notin {"running", "dead"} =>
          \A j \in 1 .. Len(queue) - 1 : queue'[j].sender = s => queue'[j].n < hop[s].n
    <2>1. \A j \in 1 .. Len(queue) - 1 : b[j] \in DOMAIN queue /\ queue'[j] = queue[b[j]]
      BY <1>1, <1>3
    <2> QED  BY <2>1 DEF OrderInv, InOrderOnce
  <1>10. InOrderOnce'
    BY <1>1, <1>6, <1>7, <1>8, <1>9 DEF InOrderOnce
  <1>11. Numbered'
    <2>1. \A j \in 1 .. Len(queue) - 1 : queue'[j].n <= sent[queue'[j].sender]
      <3>1. \A j \in 1 .. Len(queue) - 1 : b[j] \in DOMAIN queue /\ queue'[j] = queue[b[j]]
        BY <1>1, <1>3
      <3> QED  BY <3>1 DEF OrderInv, Numbered
    <2>2. h.n <= sent[h.sender]
      BY <1>1 DEF OrderInv, Numbered
    <2>3. \A x \in Sources, c \in Classes : delivered'[<<x, c>>] <= sent[x]
      <3> HIDE DEF h
      <3> QED  BY <1>2, <2>2 DEF OrderInv, Numbered
    <2>4. \A s \in Sources : src[s] \notin {"running", "dead"} =>
            hop[s].sender = s /\ hop[s].n <= sent[s]
      BY DEF OrderInv, Numbered
    <2> QED  BY <1>1, <2>1, <2>3, <2>4 DEF Numbered
  <1> QED  BY <1>10, <1>11 DEF OrderInv

(* A handoff goes past the queue: nothing of its class and source can be   *)
(* waiting there, or the owner would not be parked.                        *)
LEMMA OrderHandedOff ==
    ASSUME TypeOK, OrderInv, NoLostWakeup, NEW s \in Sources,
           src[s] \notin {"running", "dead"}, Handoff(hop[s]), UNCHANGED <<hop, sent>>,
           src' = [src EXCEPT ![s] = "running"]
    PROVE  OrderInv'
  <1> DEFINE h == hop[s]
  <1>1. /\ DOMAIN queue = 1 .. Len(queue) /\ UNCHANGED queue
        /\ \A j \in 1 .. Len(queue) : queue[j] \in Hops
        /\ h \in Hops /\ h.sender = s /\ h.n <= sent[s]
        /\ delivered \in [Sources \X Classes -> Nat]
    BY LenProperties, ElementOfSeq DEF TypeOK, Handoff, queueVars, OrderInv, Numbered
  <1>2. \A x \in Sources, c \in Classes :
          delivered'[<<x, c>>] = IF x = s /\ c = Class(h) THEN h.n ELSE delivered[<<x, c>>]
    <2>1. <<h.sender, Class(h)>> \in Sources \X Classes
      BY <1>1, KeyIsTyped
    <2> QED  BY <1>1, <2>1 DEF Handoff, Consume
  <1>3. \A j \in 1 .. Len(queue) : ~(queue[j].sender = s /\ Class(queue[j]) = Class(h))
    <2>1. \A j \in 1 .. Len(queue) : ~Matches(parkedFilter, queue[j])
      BY <1>1 DEF NoLostWakeup, NoMatch, Handoff
    <2>2. Matches(parkedFilter, h)
      BY DEF Handoff
    <2> QED  BY <1>1, <2>1, <2>2, SameClassMatches
  <1>4. \A r \in Sources : src'[r] \notin {"running", "dead"} =>
          r # s /\ src[r] \notin {"running", "dead"} /\ hop[r] \in Hops
    BY DEF TypeOK
  <1>5. \A j \in 1 .. Len(queue) :
          delivered'[<<queue[j].sender, Class(queue[j])>>] < queue[j].n
    <2> SUFFICES ASSUME NEW j \in 1 .. Len(queue)
                 PROVE  delivered'[<<queue[j].sender, Class(queue[j])>>] < queue[j].n
      OBVIOUS
    <2>1. queue[j].sender \in Sources /\ Class(queue[j]) \in Classes
      BY <1>1, KeyIsTyped
    <2>2. delivered[<<queue[j].sender, Class(queue[j])>>] < queue[j].n
      BY <1>1 DEF OrderInv, InOrderOnce
    <2> HIDE DEF h
    <2> QED  BY <1>2, <1>3, <2>1, <2>2
  <1>6. \A r \in Sources : src'[r] \notin {"running", "dead"} =>
          delivered'[<<r, Class(hop[r])>>] < hop[r].n
    <2> SUFFICES ASSUME NEW r \in Sources, src'[r] \notin {"running", "dead"}
                 PROVE  delivered'[<<r, Class(hop[r])>>] < hop[r].n
      OBVIOUS
    <2>1. r # s /\ Class(hop[r]) \in Classes
      BY <1>4, KeyIsTyped
    <2>2. delivered[<<r, Class(hop[r])>>] < hop[r].n
      BY <1>4 DEF OrderInv, InOrderOnce
    <2> HIDE DEF h
    <2> QED  BY <1>2, <2>1, <2>2
  <1>7. InOrderOnce'
    BY <1>1, <1>4, <1>5, <1>6 DEF OrderInv, InOrderOnce
  <1>8. Numbered'
    <2>1. \A x \in Sources, c \in Classes : delivered'[<<x, c>>] <= sent[x]
      <3> HIDE DEF h
      <3> QED  BY <1>1, <1>2 DEF OrderInv, Numbered
    <2> QED  BY <1>1, <1>4, <2>1 DEF OrderInv, Numbered
  <1> QED  BY <1>7, <1>8 DEF OrderInv

(* A new hop has a number of its own. *)
LEMMA OrderStarted ==
    ASSUME TypeOK, OrderInv, NEW s \in Sources, NEW b \in Bodies, StartSend(s, b)
    PROVE  OrderInv'
  <1>1. /\ DOMAIN queue = 1 .. Len(queue) /\ UNCHANGED <<queue, delivered>>
        /\ \A j \in 1 .. Len(queue) : queue[j] \in Hops
        /\ sent \in [Sources -> Nat] /\ delivered \in [Sources \X Classes -> Nat]
        /\ sent' = [sent EXCEPT ![s] = sent[s] + 1]
        /\ hop' = [hop EXCEPT ![s] = [sender |-> s, body |-> b, n |-> sent[s] + 1]]
    BY LenProperties, ElementOfSeq DEF TypeOK, StartSend, queueVars, ownerVars
  <1> DEFINE h == [sender |-> s, body |-> b, n |-> sent[s] + 1]
  <1>2. /\ h \in Hops /\ h.sender = s /\ h.n = sent[s] + 1 /\ Class(h) \in Classes
        /\ hop'[s] = h /\ \A r \in Sources : r # s => hop'[r] = hop[r]
    BY <1>1 DEF Hops, TypeOK, Class, Classes
  <1> HIDE DEF h
  <1>3. sent'[s] = sent[s] + 1 /\ \A r \in Sources : r # s => sent'[r] = sent[r]
    BY <1>1
  <1>4. \A r \in Sources : r # s /\ src'[r] \notin {"running", "dead"} =>
          src[r] \notin {"running", "dead"}
    BY DEF TypeOK, StartSend
  <1>5. \A j \in 1 .. Len(queue) : queue[j].sender \in Sources /\ queue[j].n \in Nat
    BY <1>1, KeyIsTyped
  <1>6. Numbered'
    <2>0. \A r \in Sources : sent[r] \in Nat /\ sent'[r] \in Nat /\ sent[r] <= sent'[r]
      BY <1>1, <1>3
    <2>1. ASSUME NEW j \in 1 .. Len(queue) PROVE queue[j].n <= sent'[queue[j].sender]
      <3>1. queue[j].n <= sent[queue[j].sender]
        BY <1>1 DEF OrderInv, Numbered
      <3> QED  BY <1>5, <2>0, <3>1
    <2>2. ASSUME NEW r \in Sources, NEW c \in Classes PROVE delivered[<<r, c>>] <= sent'[r]
      <3>1. delivered[<<r, c>>] <= sent[r] /\ delivered[<<r, c>>] \in Nat
        BY <1>1 DEF OrderInv, Numbered
      <3> QED  BY <2>0, <3>1
    <2>3. \A r \in Sources : src'[r] \notin {"running", "dead"} =>
            hop'[r].sender = r /\ hop'[r].n <= sent'[r]
      BY <1>1, <1>2, <1>3, <1>4 DEF OrderInv, Numbered
    <2> QED  BY <1>1, <2>1, <2>2, <2>3 DEF Numbered
  <1>7. delivered[<<s, Class(h)>>] < h.n
    BY <1>1, <1>2 DEF OrderInv, Numbered
  <1>8. ASSUME NEW j \in 1 .. Len(queue), queue[j].sender = s PROVE queue[j].n < h.n
    <2>1. queue[j].n <= sent[s] /\ sent[s] \in Nat
      BY <1>1, <1>8 DEF OrderInv, Numbered
    <2> QED  BY <1>2, <1>5, <2>1
  <1>9. ASSUME NEW r \in Sources, src'[r] \notin {"running", "dead"}
        PROVE  /\ delivered[<<r, Class(hop'[r])>>] < hop'[r].n
               /\ \A j \in 1 .. Len(queue) : queue[j].sender = r => queue[j].n < hop'[r].n
    <2>1. CASE r = s
      BY <1>2, <1>7, <1>8, <2>1
    <2>2. CASE r # s
      BY <1>1, <1>2, <1>4, <1>9, <2>2 DEF OrderInv, InOrderOnce
    <2> QED  BY <2>1, <2>2
  <1>10. InOrderOnce'
    BY <1>1, <1>9 DEF OrderInv, InOrderOnce
  <1> QED  BY <1>6, <1>10 DEF OrderInv

LEMMA OrderStep ==
    PlaceInv /\ NoLostWakeup /\ OrderInv /\ [Next]_vars => OrderInv'
  <1> SUFFICES ASSUME PlaceInv, NoLostWakeup, OrderInv, [Next]_vars PROVE OrderInv'
    OBVIOUS
  <1>0. /\ TypeOK /\ queue \in Seq(Hops) /\ bytes \in Nat
        /\ src \in [Sources -> SourceStates]
        /\ \A s \in Sources : src[s] \notin {"running", "dead"} => hop[s] \in Hops
    BY DEF PlaceInv, TypeOK
  <1>1. ASSUME NEW w, PopFor(w), UNCHANGED <<src, hop, sent>> PROVE OrderInv'
    BY <1>0, <1>1, PopEffect, OrderPopped
  <1>2. ASSUME UNCHANGED <<queue, delivered, hop, sent, src>> PROVE OrderInv'
    BY <1>0, <1>2, OrderUntouched
  <1>3. CASE \E f \in Filters, d \in Dests, t \in BOOLEAN : Receive(f, d, t)
    BY <1>1, <1>2, <1>3 DEF Receive, queueVars, sourceVars
  <1>4. CASE AwaitReply
    BY <1>1, <1>2, <1>4 DEF AwaitReply, queueVars, sourceVars
  <1>5. CASE ParkFilter
    BY <1>1, <1>2, <1>5 DEF ParkFilter, queueVars, sourceVars
  <1>6. CASE AdmitWaitingSender
    <2>1. CASE ~MayAdmit
      BY <1>2, <1>6, <2>1 DEF AdmitWaitingSender, queueVars
    <2>2. CASE MayAdmit
      <3> DEFINE s == Head(waitingSenders)
      <3>1. s \in Sources /\ src[s] = "waiting"
        <4>1. /\ waitingSenders \in Seq(Senders) /\ waitingSenders # <<>>
              /\ Len(waitingSenders) \in Nat
              /\ DOMAIN waitingSenders = 1 .. Len(waitingSenders)
          BY <1>0, <2>2, LenProperties DEF TypeOK, MayAdmit
        <4>2. 1 \in DOMAIN waitingSenders /\ s = waitingSenders[1] /\ s \in Senders
          BY <4>1, EmptySeq, ElementOfSeq
        <4> QED  BY <4>2 DEF PlaceInv, FlowInOnePlace, Sources
      <3>2. /\ Enqueue(hop[s], "Reject", "Enqueued")
            /\ src' = [src EXCEPT ![s] = "running"]
            /\ UNCHANGED <<delivered, hop, sent>>
        BY <1>6, <2>2 DEF AdmitWaitingSender
      <3> HIDE DEF s
      <3>3. hop[s] \in Hops /\ src[s] \notin {"running", "dead"}
        BY <1>0, <3>1
      <3>4. \/ \E k \in 0 .. Len(queue) : Slid(k)
            \/ \E k \in 0 .. Len(queue) : SlidAppended(k, hop[s])
        BY <1>0, <3>2, <3>3, EnqueueEffect
      <3>5. \A r \in Sources : src'[r] \notin {"running", "dead"} =>
                                 src[r] \notin {"running", "dead"}
        BY <1>0, <3>1, <3>2
      <3>6. CASE \E k \in 0 .. Len(queue) : Slid(k)
        BY <1>0, <3>2, <3>5, <3>6, OrderSlid
      <3>7. CASE \E k \in 0 .. Len(queue) : SlidAppended(k, hop[s])
        BY <1>0, <3>1, <3>2, <3>3, <3>7, OrderAppended
      <3> QED  BY <3>4, <3>6, <3>7
    <2> QED  BY <2>1, <2>2
  <1>7. ASSUME NEW s \in Sources, NEW b \in Bodies, StartSend(s, b) PROVE OrderInv'
    BY <1>0, <1>7, OrderStarted
  <1>8. ASSUME NEW s \in Sources, Push(s) PROVE OrderInv'
    <2>1. hop[s] \in Hops /\ src[s] \notin {"running", "dead"} /\ UNCHANGED <<hop, sent>>
      BY <1>0, <1>8 DEF Push
    <2>2. CASE Handoff(hop[s]) /\ src' = [src EXCEPT ![s] = "running"]
      BY <1>0, <2>1, <2>2, OrderHandedOff
    <2>3. ASSUME NEW effect \in Effects, NoHandoff(hop[s]), Enqueue(hop[s], overflow, effect),
                 src' = [src EXCEPT ![s] = IF effect \in Refusals /\ s # Host
                                           THEN "refused" ELSE "running"]
          PROVE  OrderInv'
      <3>1. UNCHANGED delivered
        BY <2>3 DEF NoHandoff
      <3>2. \A r \in Sources : src'[r] \notin {"running", "dead"} =>
                                 src[r] \notin {"running", "dead"}
        BY <1>0, <2>1, <2>3
      <3>3. \/ \E k \in 0 .. Len(queue) : Slid(k)
            \/ /\ effect \notin Refusals
               /\ \E k \in 0 .. Len(queue) : SlidAppended(k, hop[s])
        BY <1>0, <2>1, <2>3, EnqueueEffect
      <3>4. CASE \E k \in 0 .. Len(queue) : Slid(k)
        BY <1>0, <2>1, <3>1, <3>2, <3>4, OrderSlid
      <3>5. CASE /\ effect \notin Refusals
                 /\ \E k \in 0 .. Len(queue) : SlidAppended(k, hop[s])
        <4>1. src' = [src EXCEPT ![s] = "running"]
          BY <2>3, <3>5
        <4> QED  BY <1>0, <2>1, <3>1, <3>5, <4>1, OrderAppended
      <3> QED  BY <3>3, <3>4, <3>5
    <2> QED  BY <1>8, <2>2, <2>3 DEF Push
  <1>9. CASE PushSystem
    <2>1. /\ System \in Sources /\ hop[System] \in Hops
          /\ src[System] \notin {"running", "dead"} /\ UNCHANGED <<hop, sent>>
          /\ src' = [src EXCEPT ![System] = "running"]
      BY <1>0, <1>9 DEF PushSystem, Sources
    <2>2. CASE Handoff(hop[System])
      BY <1>0, <2>1, <2>2, OrderHandedOff
    <2>3. CASE NoHandoff(hop[System]) /\ ForcePush(hop[System])
      <3>1. SlidAppended(0, hop[System]) /\ UNCHANGED delivered
        BY <1>0, <2>1, <2>3, ForcePushEffect DEF NoHandoff
      <3>2. 0 \in 0 .. Len(queue)
        BY <3>1 DEF SlidAppended
      <3> QED  BY <1>0, <2>1, <3>1, <3>2, OrderAppended
    <2> QED  BY <1>9, <2>2, <2>3 DEF PushSystem
  <1>10. CASE \/ \E s \in Senders : \/ ParkLookup(s) \/ ParkSender(s) \/ KillSender(s)
                                   \/ SenderExit(s)
              \/ Close
    <2>1. UNCHANGED <<queue, delivered, hop, sent>>
      BY <1>10 DEF ParkLookup, ParkSender, KillSender, SenderExit, Close, queueVars,
                   ownerVars
    <2>2. \A r \in Sources : src'[r] \notin {"running", "dead"} =>
                               src[r] \notin {"running", "dead"}
      BY <1>0, <1>10 DEF ParkLookup, ParkSender, KillSender, SenderExit, Close, Sources
    <2> QED  BY <1>0, <2>1, <2>2, OrderUntouched
  <1>11. CASE \/ \E d \in arming : ArmDeadline(d)
              \/ \E d \in deadlines : FireDeadline(d)
              \/ \E f \in ReplyFilters, d \in Dests, t \in BOOLEAN : Ask(f, d, t)
              \/ \E t \in tails : CheckTarget(t)
              \/ \E s \in Senders : TakeWaiters(s) \/ WakeOrphan(s) \/ LeaveDirectory(s)
              \/ KillOwner \/ Exit \/ Unregister \/ UNCHANGED vars
    BY <1>2, <1>11 DEF ArmDeadline, FireDeadline, Ask, CheckTarget, TakeWaiters,
                       WakeOrphan, LeaveDirectory, KillOwner, Exit, Unregister, vars,
                       queueVars, ownerVars, sourceVars
  <1> QED
    BY <1>3, <1>4, <1>5, <1>6, <1>7, <1>8, <1>9, <1>10, <1>11, AskedAreSenders DEF Next

LEMMA OrderInit == Init => OrderInv
  <1> SUFFICES ASSUME Init PROVE OrderInv
    OBVIOUS
  <1>1. DOMAIN queue = {} /\ \A s \in Sources : src[s] = "running" /\ sent[s] = 0
    BY DEF Init, QueueInit
  <1>2. \A s \in Sources, c \in Classes : delivered[<<s, c>>] = 0
    BY DEF Init
  <1> QED  BY <1>1, <1>2 DEF OrderInv, InOrderOnce, Numbered

(***************************************************************************)
(* However hops are queued, handed over past the queue, evicted, refused   *)
(* and admitted later from WAITING_SEND, the owner consumes what one       *)
(* source sends it, as far as no filter tells the hops apart, in the order *)
(* of sending and never twice.                                             *)
(***************************************************************************)
THEOREM DeliveredInOrder == Spec => []InOrderOnce
  <1>1. Init => NoLostWakeup
    BY DEF Init, NoLostWakeup
  <1>2. OrderInv => InOrderOnce
    BY DEF OrderInv
  <1> QED
    BY <1>1, <1>2, PlaceInit, PlaceStep, WakeupStep, OrderInit, OrderStep, PTL DEF Spec

-----------------------------------------------------------------------------
LEMMA ChargeStep == PlaceInv /\ OrderInv /\ Charged /\ [Next]_vars => Charged'
  <1> SUFFICES ASSUME PlaceInv, OrderInv, Charged, [Next]_vars PROVE Charged'
    OBVIOUS
  <1>0. /\ TypeOK /\ queue \in Seq(Hops)
        /\ \A s \in Sources : src[s] \notin {"running", "dead"} =>
             hop[s] \in Hops /\ hop[s].sender = s
    BY DEF PlaceInv, TypeOK, OrderInv, Numbered
  <1>1. ASSUME NEW w, PopFor(w) PROVE Charged'
    BY <1>0, <1>1, TakeCharged DEF PopFor
  <1>2. ASSUME UNCHANGED queueVars PROVE Charged'
    BY <1>2 DEF queueVars, Charged
  <1>3. CASE \/ \E f \in Filters, d \in Dests, t \in BOOLEAN : Receive(f, d, t)
             \/ AwaitReply \/ ParkFilter
    BY <1>1, <1>2, <1>3 DEF Receive, AwaitReply, ParkFilter, queueVars
  <1>4. CASE AdmitWaitingSender
    <2>1. CASE ~MayAdmit
      BY <1>2, <1>4, <2>1 DEF AdmitWaitingSender, queueVars
    <2>2. CASE MayAdmit
      <3> DEFINE s == Head(waitingSenders)
      <3>1. s \in Sources /\ src[s] = "waiting"
        <4>1. /\ waitingSenders \in Seq(Senders) /\ waitingSenders # <<>>
              /\ Len(waitingSenders) \in Nat
              /\ DOMAIN waitingSenders = 1 .. Len(waitingSenders)
          BY <1>0, <2>2, LenProperties DEF TypeOK, MayAdmit
        <4>2. 1 \in DOMAIN waitingSenders /\ s = waitingSenders[1] /\ s \in Senders
          BY <4>1, EmptySeq, ElementOfSeq
        <4> QED  BY <4>2 DEF PlaceInv, FlowInOnePlace, Sources
      <3>2. Enqueue(hop[s], "Reject", "Enqueued")
        BY <1>4, <2>2 DEF AdmitWaitingSender
      <3> HIDE DEF s
      <3> QED  BY <1>0, <3>1, <3>2, EnqueueCharged
    <2> QED  BY <2>1, <2>2
  <1>5. ASSUME NEW s \in Sources, Push(s) PROVE Charged'
    <2>1. hop[s] \in Hops
      BY <1>0, <1>5 DEF Push
    <2>2. CASE Handoff(hop[s])
      BY <1>2, <2>2 DEF Handoff
    <2>3. CASE \E effect \in Effects : Enqueue(hop[s], overflow, effect)
      BY <1>0, <2>1, <2>3, EnqueueCharged
    <2> QED  BY <1>5, <2>2, <2>3 DEF Push
  <1>6. CASE PushSystem
    <2>1. hop[System] \in Hops /\ hop[System].sender = System
      BY <1>0, <1>6 DEF PushSystem, Sources
    <2>2. CASE Handoff(hop[System])
      BY <1>2, <2>2 DEF Handoff
    <2>3. CASE ForcePush(hop[System])
      BY <1>0, <2>1, <2>3, ForceCharged
    <2> QED  BY <1>6, <2>2, <2>3 DEF PushSystem
  <1>7. CASE \/ \E s \in Senders : ParkLookup(s) \/ ParkSender(s) \/ KillSender(s)
             \/ \E s \in Sources, b \in Bodies : StartSend(s, b)
             \/ \E d \in arming : ArmDeadline(d)
             \/ \E d \in deadlines : FireDeadline(d)
             \/ \E f \in ReplyFilters, d \in Dests, t \in BOOLEAN : Ask(f, d, t)
             \/ \E t \in tails : CheckTarget(t)
             \/ \E s \in Senders : \/ SenderExit(s) \/ TakeWaiters(s)
                                  \/ WakeOrphan(s) \/ LeaveDirectory(s)
             \/ KillOwner \/ Exit \/ Close \/ Unregister \/ UNCHANGED vars
    BY <1>2, <1>7 DEF ParkLookup, ParkSender, KillSender, StartSend, ArmDeadline,
                      FireDeadline, Ask, CheckTarget, SenderExit, TakeWaiters,
                      WakeOrphan, LeaveDirectory, KillOwner, Exit, Close, Unregister,
                      vars
  <1> QED
    BY <1>3, <1>4, <1>5, <1>6, <1>7, AskedAreSenders DEF Next

LEMMA ChargeInit == Init => Charged
  <1> SUFFICES ASSUME Init PROVE Charged
    OBVIOUS
  <1>1. queue = <<>> /\ bytes = 0 /\ Len(queue) = 0 /\ queue \in Seq(Hops)
    BY EmptySeq DEF Init, QueueInit
  <1>2. 1 .. Len(queue) = {}
    BY <1>1
  <1>3. SumFunctionOnSet(Costs(queue), 1 .. Len(queue)) = 0
    BY <1>2, SumEmpty, Zenon
  <1>4. Total(queue) = 0
    BY <1>3 DEF Total
  <1>5. /\ User(queue) \in Nat /\ User(queue) <= 0
        /\ Cardinality(UserAt(queue)) \in Nat /\ Cardinality(UserAt(queue)) <= 0
    BY <1>1, <1>4, UserWithinTotal
  <1> QED  BY <1>1, <1>4, <1>5, QueueAssumption DEF Charged, WithinLimits

(***************************************************************************)
(* The byte charge is that of the queued hops, to the unit: no pop,        *)
(* eviction, refusal or push leaks or loses any of it.                     *)
(***************************************************************************)
THEOREM ChargeNeverDrifts == Spec => []ChargeIsExact
  <1>1. Init => NoLostWakeup
    BY DEF Init, NoLostWakeup
  <1>2. Charged => ChargeIsExact
    BY DEF Charged, ChargeIsExact, Total, Costs, PrefixCost
  <1> QED
    BY <1>1, <1>2, PlaceInit, PlaceStep, WakeupStep, OrderInit, OrderStep,
       ChargeInit, ChargeStep, PTL DEF Spec

(* The limits on user hops, with the DOWN hops on the other side. *)
LEMMA LimitsHold ==
    ASSUME queue \in Seq(Hops), Charged
    PROVE  WithinBounds
  <1> DEFINE down == {i \in DOMAIN queue : queue[i].sender = System}
             user == UserAt(queue)
             all  == 1 .. Len(queue)
  <1>1. /\ Len(queue) \in Nat /\ IsFiniteSet(all) /\ Cardinality(all) = Len(queue)
        /\ DOMAIN queue = all
        /\ \A i \in all : Costs(queue)[i] \in Nat
    BY CostsAreNat
  <1>2. down \cup user = all /\ down \cap user = {}
    BY <1>1 DEF UserAt
  <1>3. IsFiniteSet(down) /\ IsFiniteSet(user)
    <2>1. down \subseteq all /\ user \subseteq all
      BY <1>2
    <2> HIDE DEF down, user, all
    <2> QED  BY <1>1, <2>1, FS_Subset
  <1>9. SumFunctionOnSet([i \in DOMAIN queue |-> Cost(queue[i])], down) =
          SumFunctionOnSet(Costs(queue), down)
    BY DEF Costs
  <1> HIDE DEF down
  <1>4. Len(queue) = Cardinality(down) + Cardinality(user)
    <2>1. Cardinality(down \cup user) =
            Cardinality(down) + Cardinality(user) - Cardinality(down \cap user)
      BY <1>3, FS_Union
    <2>2. Cardinality(down \cap user) = 0
      BY <1>2, FS_EmptySet, Zenon
    <2>3. Cardinality(down \cup user) = Len(queue)
      BY <1>1, <1>2, Zenon
    <2>4. Cardinality(down) \in Nat /\ Cardinality(user) \in Nat
      BY <1>3, FS_CardinalityType
    <2> QED  BY <2>1, <2>2, <2>3, <2>4
  <1>5. Total(queue) = SumFunctionOnSet(Costs(queue), down) + User(queue)
    <2>1. SumFunctionOnSet(Costs(queue), down \cup user) =
            SumFunctionOnSet(Costs(queue), down) + SumFunctionOnSet(Costs(queue), user)
      <3>1. \A i \in down \cup user : Costs(queue)[i] \in Nat
        BY <1>1, <1>2
      <3> HIDE DEF user, all
      <3> QED  BY <1>2, <1>3, <3>1, SumUnion
    <2>2. SumFunctionOnSet(Costs(queue), down \cup user) = Total(queue)
      BY <1>2, Zenon DEF Total
    <2> QED  BY <2>1, <2>2 DEF User
  <1>6. /\ SumFunctionOnSet(Costs(queue), down) \in Nat /\ User(queue) \in Nat
        /\ Cardinality(down) \in Nat /\ Cardinality(user) \in Nat
    <2>1. \A i \in down : Costs(queue)[i] \in Nat
      BY <1>1, <1>2
    <2> QED  BY <1>3, <2>1, SumIsNat, UserWithinTotal, FS_CardinalityType
  <1> HIDE DEF user, all
  <1>7. Cardinality(user) <= Limit /\ User(queue) <= ByteLimit /\ bytes = Total(queue)
    BY DEF Charged, WithinLimits, user
  <1>8. Len(queue) <= Limit + Cardinality(down)
    BY <1>1, <1>4, <1>6, <1>7, QueueAssumption
  <1>10. bytes <= ByteLimit + SumFunctionOnSet(Costs(queue), down)
    BY <1>5, <1>6, <1>7, QueueAssumption
  <1> QED  BY <1>8, <1>9, <1>10 DEF WithinBounds, down

(***************************************************************************)
(* User hops never take more places or bytes than the inbox was configured *)
(* for, under every policy and whoever enqueues them.                      *)
(***************************************************************************)
THEOREM BoundsHold == Spec => []WithinBounds
  <1>1. Init => NoLostWakeup
    BY DEF Init, NoLostWakeup
  <1>2. PlaceInv /\ Charged => WithinBounds
    BY LimitsHold DEF PlaceInv, TypeOK
  <1> QED
    BY <1>1, <1>2, PlaceInit, PlaceStep, WakeupStep, OrderInit, OrderStep,
       ChargeInit, ChargeStep, PTL DEF Spec
=============================================================================
