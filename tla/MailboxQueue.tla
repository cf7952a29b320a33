---------------------------- MODULE MailboxQueue ----------------------------
(***************************************************************************)
(* FIFO hop storage of one inbox (scheduler/mailbox/queue.rs): a sequence  *)
(* of hops under two logical bounds, a hop count and a byte budget.  The   *)
(* byte counter moves with every hop that enters or leaves.  The code's    *)
(* saturating additions cannot saturate: a budget is at most 1 GiB and a   *)
(* hop is charged at most a few MiB, far below usize::MAX.                 *)
(***************************************************************************)
EXTENDS Integers, Sequences, SequencesExt

CONSTANTS
    Senders,        \* bytecode flows that send to this inbox
    Host,           \* the embedding program, sending through Runtime::send
    System,         \* the runtime itself, delivering DOWN hops
    Bodies,         \* the contents of hops: [tag, rid, cost] records
    Limit,          \* MailboxCapacity, in hops
    ByteLimit       \* MailboxBytes, in the unit of the bodies' cost

Sources == Senders \cup {Host, System}

ASSUME QueueAssumption ==
    /\ Bodies \subseteq [tag : Nat, rid : Nat, cost : Nat \ {0}]
    /\ Limit \in Nat \ {0}
    /\ ByteLimit \in Nat \ {0}

ASSUME SourcesAssumption ==
    /\ Host \notin Senders
    /\ System \notin Senders
    /\ Host # System

OverflowPolicy == {"Reject", "DropNewest", "DropOldest"}

(***************************************************************************)
(* A hop is a message in flight.  `n` numbers the hops of one source in    *)
(* the order in which it sent them; the code has no such field, it only    *)
(* lets properties speak of order.                                         *)
(***************************************************************************)
Hops == [sender : Sources, body : Bodies, n : Nat]

Cost(h) == h.body.cost

VARIABLES
    queue,          \* MailboxQueue::inner
    bytes           \* MailboxQueue::bytes

queueVars == <<queue, bytes>>

(***************************************************************************)
(* Selective wait criteria.  A filter is a record [kind, tag, rid,         *)
(* sender]; fields a kind does not use are ignored.  Correlation carries   *)
(* an optional sender: AnySender stands for None.                          *)
(***************************************************************************)
AnySender == "any sender"

AnyHop == [kind |-> "Any", tag |-> 0, rid |-> 0, sender |-> AnySender]

Matches(f, h) ==
    \/ f.kind = "Any"
    \/ f.kind = "Tag" /\ h.body.tag = f.tag
    \/ /\ f.kind = "Correlation"
       /\ h.body.rid = f.rid
       /\ f.sender \in {AnySender, h.sender}
    \/ /\ f.kind = "TaggedCorrelation"
       /\ h.body.tag = f.tag
       /\ h.body.rid = f.rid

-----------------------------------------------------------------------------

\* Mutant: the bound admits one hop too many.
IsFullOffByOne(len) == len > Limit

IsFull(len) == len >= Limit

\* Mutant: the budget is compared before the hop is charged.
WouldExceedBytesUncharged(charged, cost) == charged >= ByteLimit

WouldExceedBytes(charged, cost) == charged + cost > ByteLimit

Fits(h) == ~IsFull(Len(queue)) /\ ~WouldExceedBytes(bytes, Cost(h))

\* Saturating subtraction of a refunded charge.
Refund(charged, cost) == IF cost \in 0 .. charged THEN charged - cost ELSE 0

\* The charge of the first k queued hops.
PrefixCost(k) ==
    SumFunctionOnSet([i \in DOMAIN queue |-> Cost(queue[i])], 1 .. k)

\* Mutant: an eviction refunds one hop, however many it drops.
ChargeAfterOneRefund(k) == Refund(bytes, PrefixCost(IF k > 1 THEN 1 ELSE k))

\* What stays charged once the first k hops have been evicted.  The code
\* subtracts hop by hop; saturating once or at every hop is the same.
ChargeAfter(k) == Refund(bytes, PrefixCost(k))

QueueInit == queue = <<>> /\ bytes = 0

\* Mutant: the scan runs from the back.
NewestMatch(f, i) ==
    /\ i \in DOMAIN queue
    /\ Matches(f, queue[i])
    /\ \A j \in (i + 1) .. Len(queue) : ~Matches(f, queue[j])

\* Position i holds the oldest hop that the filter accepts.
OldestMatch(f, i) ==
    /\ i \in DOMAIN queue
    /\ Matches(f, queue[i])
    /\ \A j \in 1 .. (i - 1) : ~Matches(f, queue[j])

NoMatch(f) == \A i \in DOMAIN queue : ~Matches(f, queue[i])

\* Mutant: a selective removal that forgets the refund.
TakeAtNoRefund(i) ==
    /\ queue' = RemoveAt(queue, i)
    /\ bytes' = IF i = 1 THEN Refund(bytes, Cost(queue[i])) ELSE bytes

\* Remove the hop at position i and refund its charge; the others keep
\* their order (FIFO skip).
TakeAt(i) ==
    /\ queue' = RemoveAt(queue, i)
    /\ bytes' = Refund(bytes, Cost(queue[i]))

\* DropOldest pops from the front until the hop fits or nothing is left:
\* after k pops the loop stops, after fewer it does not.
EvictsExactly(k, cost) ==
    LET NoRoom(j) == \/ IsFull(Len(queue) - j)
                     \/ WouldExceedBytes(ChargeAfter(j), cost)
    IN  /\ k = Len(queue) \/ ~NoRoom(k)
        /\ \A j \in 0 .. (k - 1) : NoRoom(j)

Refusals == {"MessageLimit", "ByteLimit"}

Effects == {"Enqueued", "DroppedNewest", "DroppedOldest"} \cup Refusals

Append1(h, effect) ==
    /\ Fits(h)
    /\ effect = "Enqueued"
    /\ queue' = Append(queue, h)
    /\ bytes' = bytes + Cost(h)

RejectHop(h, effect) ==
    /\ ~Fits(h)
    /\ effect = IF IsFull(Len(queue)) THEN "MessageLimit" ELSE "ByteLimit"
    /\ UNCHANGED queueVars

\* The incoming hop is the one discarded, whatever its size.
DropNewest(h, effect) ==
    /\ ~Fits(h)
    /\ effect = "DroppedNewest"
    /\ UNCHANGED queueVars

Survivors(k) == SubSeq(queue, k + 1, Len(queue))

\* Mutant: the incoming hop is put in front of the survivors.
QueueInFront(k, h) == <<h>> \o Survivors(k)

QueueBehind(k, h) == Append(Survivors(k), h)

\* A hop larger than the whole budget is refused after the queue has been
\* evicted for it.
DropOldest(h, effect) ==
    /\ ~Fits(h)
    /\ \E k \in 0 .. Len(queue) :
         /\ EvictsExactly(k, Cost(h))
         /\ IF WouldExceedBytes(ChargeAfter(k), Cost(h))
            THEN /\ effect = "ByteLimit"
                 /\ queue' = Survivors(k)
                 /\ bytes' = ChargeAfter(k)
            ELSE /\ effect = IF k > 0 THEN "DroppedOldest" ELSE "Enqueued"
                 /\ queue' = QueueBehind(k, h)
                 /\ bytes' = ChargeAfter(k) + Cost(h)

Enqueue(h, policy, effect) ==
    \/ Append1(h, effect)
    \/ policy = "Reject" /\ RejectHop(h, effect)
    \/ policy = "DropNewest" /\ DropNewest(h, effect)
    \/ policy = "DropOldest" /\ DropOldest(h, effect)

\* DOWN hops are never lost to overflow; they are charged all the same.
ForcePush(h) ==
    /\ queue' = Append(queue, h)
    /\ bytes' = bytes + Cost(h)

=============================================================================
