------------------------------ MODULE Mailbox -------------------------------
(***************************************************************************)
(* One flow's inbox (scheduler/mailbox/mod.rs) and everyone who touches    *)
(* it: the owner flow receiving and asking, bytecode flows and the host    *)
(* sending, the runtime delivering DOWN hops, the timer thread ending      *)
(* timed waits, the worker and the finalizer that tell an asker its target *)
(* is gone, a killer, and the owner's finalization.  Each action is one    *)
(* critical section of the mailbox mutex (or of the flow directory, or of  *)
(* the AskWaitIndex), with the work its caller does on a flow only it can  *)
(* reach; whatever the code does between two critical sections is visible  *)
(* as an intermediate pc.                                                  *)
(*                                                                         *)
(* A blocked flow is owned by the place it is parked in, so "owner =       *)
(* parked" below says what the flow's worker believes, and `parked` what   *)
(* the mailbox holds.                                                      *)
(***************************************************************************)
EXTENDS MailboxQueue, FiniteSets

CONSTANTS
    Policies,       \* overflow policies an embedder may configure
    Filters,        \* what the owner's Receive / ReceiveMatch may wait for
    ReplyFilters,   \* the Correlation filters of the owner's Asks: the sender
                    \* such a filter names is the flow that is asked
    Dests,          \* destination registers
    MaxSends,       \* bound: how many hops each source sends, by policy
    MaxParks        \* bound: parks, so that wait_epoch does not wrap

ASSUME MailboxAssumption ==
    /\ Policies \subseteq OverflowPolicy
    /\ Filters \cap ReplyFilters = {}
    /\ \A f \in ReplyFilters : f.sender \in Senders
    /\ Dests # {}
    /\ MaxSends \in [OverflowPolicy -> [Sources -> Nat]]
    /\ MaxParks \in Nat

VARIABLES
    parked,         \* MailboxInner::parked is Some
    parkedFilter,   \* MailboxInner::parked_filter
    waitEpoch,      \* MailboxInner::wait_epoch
    waitingSenders, \* MailboxInner::waiting_senders; a waiter's hop is hop[s]
    overflow,       \* Mailbox::config, its overflow policy: never changes
    closed,         \* MailboxInner::closed
    registered,     \* the flow directory resolves the owner's FlowId here
    owner,          \* where the owner flow is
    wait,           \* operands of the owner's last Receive or Ask
    resumed,        \* the last value written into the owner's registers
    arming,         \* parks whose worker has yet to arm their deadline
    deadlines,      \* WakeReceiver entries of the timer heap
    askWaits,       \* AskWaitIndex: the flow the owner is indexed under, if any
    tails,          \* parked Asks whose worker has yet to look for the target
    ends,           \* how far each dead sender's own finalization is
    src,            \* where each source's delivery is
    hop,            \* the hop each source is delivering
    sent,           \* hops started by each source
    delivered       \* newest hop the owner consumed, by source and class

mailboxVars == <<parked, parkedFilter, waitEpoch, waitingSenders, overflow,
                 closed>>
ownerVars == <<owner, wait, resumed, delivered>>
timerVars == <<arming, deadlines>>
askVars == <<askWaits, tails, ends>>
sourceVars == <<src, hop, sent>>
vars == <<queueVars, mailboxVars, registered, ownerVars, timerVars, askVars,
          sourceVars>>

\* Hops that no filter naming their sender can tell apart.
Class(h) == [tag |-> h.body.tag, rid |-> h.body.rid]

Classes == {[tag |-> b.tag, rid |-> b.rid] : b \in Bodies}

\* Before the first Receive and the first send.
NoWait == [filter |-> AnyHop]
NoHop == [n |-> 0]

Waits == [filter : Filters \cup ReplyFilters, dest : Dests,
          timeout : BOOLEAN]

Deadlines == [epoch : 1 .. MaxParks, dest : Dests]

\* What the rest of park_ask needs once the owner is parked.
Tails == [asked : Senders, epoch : 1 .. MaxParks, dest : Dests, timeout : BOOLEAN]

OwnerStates == {"running", "admitting", "asking", "parking", "parked",
                "exiting", "closed", "dead"}

EndStates == {"alive", "waking", "leaving", "gone"}

Wakes == {"start", "hop", "deadline", "exit"}

SourceStates == {"running", "pushing", "refused", "parking", "waiting", "dead"}

\* Types of the inbox's fields and of everybody around it; epochs are handed out
\* by park_filter one by one, so none goes beyond the parks there have been.
TypeOK ==
    /\ queue \in Seq(Hops)
    /\ bytes \in Nat
    /\ parked \in BOOLEAN
    /\ parkedFilter \in Filters \cup ReplyFilters \cup {AnyHop}
    /\ waitEpoch \in 0 .. MaxParks
    /\ waitingSenders \in Seq(Senders)
    /\ overflow \in Policies
    /\ closed \in BOOLEAN
    /\ registered \in BOOLEAN
    /\ owner \in OwnerStates
    /\ wait \in Waits \cup {NoWait}
    /\ owner \in {"asking", "parking", "parked"} => wait \in Waits
    /\ owner = "asking" => wait.filter \in ReplyFilters
    /\ resumed \in [dest : Dests, kind : Wakes]
    /\ arming \subseteq Deadlines
    /\ deadlines \subseteq Deadlines
    /\ askWaits \subseteq Senders
    /\ tails \subseteq Tails
    /\ ends \in [Senders -> EndStates]
    /\ src \in [Sources -> SourceStates]
    /\ hop \in [Sources -> Hops \cup {NoHop}]
    /\ \A s \in Sources : src[s] \notin {"running", "dead"} => hop[s] \in Hops
    /\ sent \in [Sources -> Nat]
    /\ delivered \in [Sources \X Classes -> Nat]

Init ==
    /\ QueueInit
    /\ parked = FALSE
    /\ parkedFilter = AnyHop
    /\ waitEpoch = 0
    /\ waitingSenders = <<>>
    /\ overflow \in Policies
    /\ closed = FALSE
    /\ registered = TRUE
    /\ owner = "running"
    /\ wait = NoWait
    /\ resumed \in [dest : Dests, kind : {"start"}]
    /\ arming = {}
    /\ deadlines = {}
    /\ askWaits = {}
    /\ tails = {}
    /\ ends = [s \in Senders |-> "alive"]
    /\ src = [s \in Sources |-> "running"]
    /\ hop = [s \in Sources |-> NoHop]
    /\ sent = [s \in Sources |-> 0]
    /\ delivered = [k \in Sources \X Classes |-> 0]

-----------------------------------------------------------------------------
(* The owner flow                                                          *)

\* Vm::resume_with: the value goes to the register the caller names.
ResumeWith(dest, kind) == resumed' = [dest |-> dest, kind |-> kind]

Consume(h) == delivered' = [delivered EXCEPT ![<<h.sender, Class(h)>>] = h.n]

\* Take the oldest hop the wait accepts and write it to its register.
PopFor(w) ==
    \E i \in DOMAIN queue :
        /\ OldestMatch(w.filter, i)
        /\ TakeAt(i)
        /\ Consume(queue[i])
        /\ ResumeWith(w.dest, "hop")

\* Receive / ReceiveMatch, with or without a timeout.  try_pop_filter takes a
\* match, and the owner goes on to admit a waiting sender; or it misses, and
\* the owner goes on to park.
Receive(f, dest, timeout) ==
    LET w == [filter |-> f, dest |-> dest, timeout |-> timeout]
    IN  /\ owner = "running"
        /\ wait' = w
        /\ \/ PopFor(w) /\ owner' = "admitting"
           \/ /\ NoMatch(w.filter)
              /\ owner' = "parking"
              /\ UNCHANGED <<queueVars, resumed, delivered>>
        /\ UNCHANGED <<mailboxVars, registered, timerVars, askVars, sourceVars>>

\* Ask / AskTimeout: the Cap resolves until its target has left (revoke_flow and
\* the directory's unregister follow each other, and nothing here tells them
\* apart).  The request then goes to the target's own inbox, or waits for it.
Ask(f, dest, timeout) ==
    /\ owner = "running"
    /\ ends[f.sender] # "gone"
    /\ owner' = "asking"
    /\ wait' = [filter |-> f, dest |-> dest, timeout |-> timeout]
    /\ UNCHANGED <<queueVars, mailboxVars, registered, resumed, delivered,
                   timerVars, askVars, sourceVars>>

\* The wait of the current Receive or Ask is that of an Ask.
Asking == wait.filter \in ReplyFilters

\* The second half of Ask, its request delivered: try_pop_filter finds the reply
\* (and admits no waiting sender), or park_ask indexes the owner under its
\* target, without a look at the queue when the request had to wait for room.
\* An owner that is still indexed fails with DuplicateRequestId.
AwaitReply ==
    /\ owner = "asking"
    /\ \/ PopFor(wait) /\ owner' = "running" /\ UNCHANGED askWaits
       \/ /\ askWaits = {}
          /\ askWaits' = {wait.filter.sender}
          /\ owner' = "parking"
          /\ UNCHANGED <<queueVars, resumed, delivered>>
       \/ /\ askWaits # {}
          /\ owner' = "exiting"
          /\ UNCHANGED <<queueVars, resumed, delivered, askWaits>>
    /\ UNCHANGED <<mailboxVars, registered, wait, timerVars, tails, ends, sourceVars>>

\* admit_waiting_sender: the oldest waiter, if its hop fits now, however
\* many hops behind it would.
MayAdmit == ~closed /\ waitingSenders # <<>> /\ Fits(hop[Head(waitingSenders)])

\* Mutant: the admitted waiter is looked at, not popped.
PeekWaiter == waitingSenders' = waitingSenders

PopWaiter == waitingSenders' = Tail(waitingSenders)

AdmitWaitingSender ==
    /\ owner = "admitting"
    /\ owner' = "running"
    /\ IF MayAdmit
       THEN /\ Enqueue(hop[Head(waitingSenders)], "Reject", "Enqueued")
            /\ PopWaiter
            /\ src' = [src EXCEPT ![Head(waitingSenders)] = "running"]
       ELSE UNCHANGED <<queueVars, waitingSenders, src>>
    /\ UNCHANGED <<parked, parkedFilter, waitEpoch, overflow, closed, registered,
                   wait, resumed, delivered, timerVars, askVars, hop, sent>>

\* Mutant: the re-check under the mutex is left out.
NoRecheck == TRUE

RecheckMisses == NoMatch(wait.filter)

\* Mutant: park returns the epoch from before the bump.
OldEpoch == waitEpoch

NewEpoch == waitEpoch + 1

\* park_filter: look again under the mutex, then install the waiter under a
\* new epoch.  A hop found here resumes the flow, drops an Ask's index entry and
\* admits no sender.  A Receive's deadline is armed next, an Ask's only after
\* another look at its target.
ParkFilter ==
    /\ owner = "parking"
    /\ \/ /\ PopFor(wait)
          /\ owner' = "running"
          /\ askWaits' = IF Asking THEN {} ELSE askWaits
          /\ UNCHANGED <<parked, parkedFilter, waitEpoch, arming, tails>>
       \/ /\ RecheckMisses
          /\ waitEpoch < MaxParks
          /\ waitEpoch' = waitEpoch + 1
          /\ parkedFilter' = wait.filter
          /\ parked' = TRUE
          /\ owner' = "parked"
          /\ arming' = IF wait.timeout /\ ~Asking
                       THEN arming \cup {[epoch |-> NewEpoch, dest |-> wait.dest]}
                       ELSE arming
          /\ tails' = IF Asking
                      THEN tails \cup {[asked |-> wait.filter.sender,
                                        epoch |-> NewEpoch, dest |-> wait.dest,
                                        timeout |-> wait.timeout]}
                      ELSE tails
          /\ UNCHANGED <<queueVars, resumed, delivered, askWaits>>
    /\ UNCHANGED <<waitingSenders, overflow, closed, registered, wait, deadlines,
                   ends, sourceVars>>

\* Mutant: the flow is copied out of the mailbox, not taken.
WakeParkedCopy(dest) ==
    IF parked
    THEN owner' = "running" /\ ResumeWith(dest, "exit") /\ UNCHANGED <<parked, parkedFilter>>
    ELSE UNCHANGED <<parked, parkedFilter, owner, resumed>>

\* take_parked: whoever is parked, under whatever epoch, is resumed with
\* TAG_SYS_EXIT in the register the caller names.
WakeParked(dest) ==
    IF parked
    THEN /\ parked' = FALSE
         /\ parkedFilter' = AnyHop
         /\ owner' = "running"
         /\ ResumeWith(dest, "exit")
    ELSE UNCHANGED <<parked, parkedFilter, owner, resumed>>

\* The end of park_ask, by the worker that parked the owner, which may be
\* running, or waiting again, by now.  A target that is gone stays gone, so the
\* lookup and take_parked are one step.
CheckTarget(t) ==
    /\ t \in tails
    /\ tails' = tails \ {t}
    /\ IF ends[t.asked] = "gone"
       THEN /\ WakeParked(t.dest)
            /\ askWaits' = IF parked THEN {} ELSE askWaits
            /\ UNCHANGED arming
       ELSE /\ arming' = IF t.timeout
                         THEN arming \cup {[epoch |-> t.epoch, dest |-> t.dest]}
                         ELSE arming
            /\ UNCHANGED <<parked, parkedFilter, owner, resumed, askWaits>>
    /\ UNCHANGED <<queueVars, waitEpoch, waitingSenders, overflow, closed, registered,
                   wait, delivered, deadlines, ends, sourceVars>>

-----------------------------------------------------------------------------
(* The timer thread                                                        *)

\* schedule_receive_timeout, by the worker that parked the flow: the flow
\* may be running elsewhere by now.
ArmDeadline(d) ==
    /\ d \in arming
    /\ arming' = arming \ {d}
    /\ deadlines' = deadlines \cup {d}
    /\ UNCHANGED <<queueVars, mailboxVars, registered, ownerVars, askVars,
                   sourceVars>>

\* Mutant: a deadline takes whoever is parked.
TakeParkedAtAnyEpoch(epoch) ==
    IF parked
    THEN parked' = FALSE /\ parkedFilter' = AnyHop
    ELSE UNCHANGED <<parked, parkedFilter>>

\* take_parked_at: only the wait the deadline was armed for is ended; a
\* stale deadline leaves the mailbox alone.
TakeParkedAt(epoch) ==
    IF waitEpoch = epoch /\ parked
    THEN parked' = FALSE /\ parkedFilter' = AnyHop
    ELSE UNCHANGED <<parked, parkedFilter>>

\* Mutant: remove_asker before it is known whose deadline this is.
FireDeadlineUnindexed(d) ==
    /\ d \in deadlines
    /\ deadlines' = deadlines \ {d}
    /\ TakeParkedAt(d.epoch)
    /\ IF parked /\ ~parked'
       THEN ResumeWith(d.dest, "deadline") /\ owner' = "running"
       ELSE UNCHANGED <<resumed, owner>>
    /\ askWaits' = {}
    /\ UNCHANGED <<queueVars, waitEpoch, waitingSenders, overflow, closed,
                   registered, wait, delivered, arming, tails, ends, sourceVars>>

FireDeadline(d) ==
    /\ d \in deadlines
    /\ deadlines' = deadlines \ {d}
    /\ TakeParkedAt(d.epoch)
    /\ IF parked /\ ~parked'
       THEN ResumeWith(d.dest, "deadline") /\ owner' = "running" /\ askWaits' = {}
       ELSE UNCHANGED <<resumed, owner, askWaits>>
    /\ UNCHANGED <<queueVars, waitEpoch, waitingSenders, overflow, closed,
                   registered, wait, delivered, arming, tails, ends, sourceVars>>

-----------------------------------------------------------------------------
(* Sources: bytecode Send / Ask, Runtime::send and deliver_down            *)

\* Stamp a hop and look the target up; a target that is gone swallows it.
StartSend(s, body) ==
    /\ src[s] = "running"
    /\ sent[s] < MaxSends[overflow][s]
    /\ sent' = [sent EXCEPT ![s] = @ + 1]
    /\ hop' = [hop EXCEPT ![s] = [sender |-> s, body |-> body, n |-> sent[s] + 1]]
    /\ src' = IF registered THEN [src EXCEPT ![s] = "pushing"] ELSE src
    /\ UNCHANGED <<queueVars, mailboxVars, registered, ownerVars, timerVars, askVars>>

\* A parked waiter that matches takes the hop without it entering the queue
\* and resumes; its last receive names the register.  An indexed asker leaves
\* the index (remove_asker).
Handoff(h) ==
    /\ parked
    /\ Matches(parkedFilter, h)
    /\ parked' = FALSE
    /\ parkedFilter' = AnyHop
    /\ owner' = "running"
    /\ Consume(h)
    /\ ResumeWith(wait.dest, "hop")
    /\ askWaits' = {}
    /\ UNCHANGED queueVars

NoHandoff(h) ==
    /\ ~(parked /\ Matches(parkedFilter, h))
    /\ UNCHANGED <<parked, parkedFilter, owner, delivered, resumed, askWaits>>

\* Mailbox::push.  A refused host send returns an error to its caller; a
\* refused bytecode send goes on to park its flow.
Push(s) ==
    /\ s # System
    /\ src[s] = "pushing"
    /\ \/ Handoff(hop[s]) /\ src' = [src EXCEPT ![s] = "running"]
       \/ /\ NoHandoff(hop[s])
          /\ \E effect \in Effects :
               /\ Enqueue(hop[s], overflow, effect)
               /\ src' = [src EXCEPT ![s] = IF effect \in Refusals /\ s # Host
                                            THEN "refused" ELSE "running"]
    /\ UNCHANGED <<waitEpoch, waitingSenders, overflow, closed, registered, wait,
                   timerVars, tails, ends, hop, sent>>

\* Mutant: a DOWN hop is queued without looking at the parked owner.
PushSystemNoHandoff ==
    /\ src[System] = "pushing"
    /\ ForcePush(hop[System])
    /\ src' = [src EXCEPT ![System] = "running"]
    /\ UNCHANGED <<mailboxVars, registered, ownerVars, timerVars, askVars, hop, sent>>

\* Mailbox::push_system, for deliver_down.
PushSystem ==
    /\ src[System] = "pushing"
    /\ \/ Handoff(hop[System])
       \/ NoHandoff(hop[System]) /\ ForcePush(hop[System])
    /\ src' = [src EXCEPT ![System] = "running"]
    /\ UNCHANGED <<waitEpoch, waitingSenders, overflow, closed, registered, wait,
                   timerVars, tails, ends, hop, sent>>

\* park_waiting_send looks the target up again; gone means the sender dies.
ParkLookup(s) ==
    /\ src[s] = "refused"
    /\ src' = [src EXCEPT ![s] = IF registered THEN "parking" ELSE "dead"]
    /\ UNCHANGED <<queueVars, mailboxVars, registered, ownerVars, timerVars,
                   askVars, hop, sent>>

\* Mutant: park_sender does not look at `closed`.
ParkSenderUnchecked(s) ==
    /\ src[s] = "parking"
    /\ src' = [src EXCEPT ![s] = "waiting"]
    /\ waitingSenders' = Append(waitingSenders, s)
    /\ UNCHANGED <<queueVars, parked, parkedFilter, waitEpoch, overflow, closed,
                   registered, ownerVars, timerVars, askVars, hop, sent>>

\* Mailbox::park_sender: a closed inbox returns the flow, which dies.
ParkSender(s) ==
    /\ src[s] = "parking"
    /\ IF closed
       THEN /\ src' = [src EXCEPT ![s] = "dead"]
            /\ UNCHANGED waitingSenders
       ELSE /\ src' = [src EXCEPT ![s] = "waiting"]
            /\ waitingSenders' = Append(waitingSenders, s)
    /\ UNCHANGED <<queueVars, parked, parkedFilter, waitEpoch, overflow, closed,
                   registered, ownerVars, timerVars, askVars, hop, sent>>

-----------------------------------------------------------------------------
(* Kill and finalization                                                   *)

\* extract_for_kill of a parked owner: take_parked asks for no epoch.
KillOwner ==
    /\ parked
    /\ parked' = FALSE
    /\ parkedFilter' = AnyHop
    /\ owner' = "exiting"
    /\ UNCHANGED <<queueVars, waitEpoch, waitingSenders, overflow, closed,
                   registered, wait, resumed, delivered, timerVars, askVars,
                   sourceVars>>

\* extract_for_kill of a sender in WAITING_SEND: take_waiting_sender.
KillSender(s) ==
    /\ \E i \in DOMAIN waitingSenders :
         /\ waitingSenders[i] = s
         /\ \A j \in 1 .. (i - 1) : waitingSenders[j] # s
         /\ waitingSenders' = RemoveAt(waitingSenders, i)
    /\ src' = [src EXCEPT ![s] = "dead"]
    /\ UNCHANGED <<queueVars, parked, parkedFilter, waitEpoch, overflow, closed,
                   registered, ownerVars, timerVars, askVars, hop, sent>>

\* The owner returns, faults, or consumes a kill signal; or its request is still
\* waiting for room when its target closes or a killer takes it from there.
Exit ==
    /\ owner \in {"running", "asking"}
    /\ owner' = "exiting"
    /\ UNCHANGED <<queueVars, mailboxVars, registered, wait, resumed,
                   delivered, timerVars, askVars, sourceVars>>

\* finalize_one takes the owner out of the index, closes the inbox and fails
\* every waiter it drained ...
Close ==
    /\ owner = "exiting"
    /\ owner' = "closed"
    /\ closed' = TRUE
    /\ waitingSenders' = <<>>
    /\ src' = [s \in Sources |-> IF \E i \in DOMAIN waitingSenders :
                                      waitingSenders[i] = s
                                 THEN "dead" ELSE src[s]]
    /\ askWaits' = {}
    /\ UNCHANGED <<queueVars, parked, parkedFilter, waitEpoch, overflow, registered,
                   wait, resumed, delivered, timerVars, tails, ends, hop, sent>>

\* ... and only then leaves the directory.
Unregister ==
    /\ owner = "closed"
    /\ owner' = "dead"
    /\ registered' = FALSE
    /\ UNCHANGED <<queueVars, mailboxVars, wait, resumed, delivered,
                   timerVars, askVars, sourceVars>>

-----------------------------------------------------------------------------
(* The end of a sender, as far as it concerns an owner that asked it       *)

\* The flows the owner may ask.  The end of any other sender looks from here like
\* one that sends no more.
Asked == {f.sender : f \in ReplyFilters}

\* A sender between two deliveries returns, faults or is killed.
SenderExit(s) ==
    /\ src[s] = "running"
    /\ src' = [src EXCEPT ![s] = "dead"]
    /\ UNCHANGED <<queueVars, mailboxVars, registered, ownerVars, timerVars, askVars,
                   hop, sent>>

\* wake_orphaned_asks, take_waiters_of: an owner indexed under the dead flow is
\* struck off the index and will be woken ...
TakeWaiters(s) ==
    /\ src[s] = "dead"
    /\ ends[s] = "alive"
    /\ ends' = [ends EXCEPT ![s] = IF s \in askWaits THEN "waking" ELSE "leaving"]
    /\ askWaits' = askWaits \ {s}
    /\ UNCHANGED <<queueVars, mailboxVars, registered, ownerVars, timerVars, tails,
                   sourceVars>>

\* ... in a later critical section, whatever it waits for by then.  (An owner
\* that has left the directory is not parked either.)
WakeOrphan(s) ==
    /\ ends[s] = "waking"
    /\ ends' = [ends EXCEPT ![s] = "leaving"]
    /\ WakeParked(wait.dest)
    /\ UNCHANGED <<queueVars, waitEpoch, waitingSenders, overflow, closed, registered,
                   wait, delivered, timerVars, askWaits, tails, sourceVars>>

\* revoke_flow and the directory's unregister.
LeaveDirectory(s) ==
    /\ ends[s] = "leaving"
    /\ ends' = [ends EXCEPT ![s] = "gone"]
    /\ UNCHANGED <<queueVars, mailboxVars, registered, ownerVars, timerVars, askWaits,
                   tails, sourceVars>>

Next ==
    \/ \E f \in Filters, d \in Dests, t \in BOOLEAN : Receive(f, d, t)
    \/ \E f \in ReplyFilters, d \in Dests, t \in BOOLEAN : Ask(f, d, t)
    \/ AwaitReply
    \/ AdmitWaitingSender
    \/ ParkFilter
    \/ \E t \in tails : CheckTarget(t)
    \/ \E d \in arming : ArmDeadline(d)
    \/ \E d \in deadlines : FireDeadline(d)
    \/ \E s \in Sources, b \in Bodies : StartSend(s, b)
    \/ \E s \in Sources : Push(s)
    \/ PushSystem
    \/ \E s \in Senders : ParkLookup(s) \/ ParkSender(s) \/ KillSender(s)
    \/ KillOwner
    \/ Exit
    \/ Close
    \/ Unregister
    \/ \E s \in Asked : \/ SenderExit(s) \/ TakeWaiters(s)
                       \/ WakeOrphan(s) \/ LeaveDirectory(s)

Spec == Init /\ [][Next]_vars

-----------------------------------------------------------------------------
(* Properties                                                              *)

(***************************************************************************)
(* No lost wakeup: while the owner is parked, no queued hop satisfies the  *)
(* filter it is parked with (Mailbox::push and Mailbox::park_filter share  *)
(* one mutex so that a hop is either handed over or seen by the re-check). *)
(***************************************************************************)
NoLostWakeup == parked => NoMatch(parkedFilter)

(***************************************************************************)
(* Every blocked flow is in exactly one place: the owner sits in its own   *)
(* mailbox exactly while its worker has parked it and no waker, deadline   *)
(* or killer has taken it out, and a sender in WAITING_SEND is queued      *)
(* exactly once (a `Box<Flow>` that two parties could reach would run      *)
(* twice, one that nobody could reach would never run again).              *)
(***************************************************************************)
FlowInOnePlace ==
    /\ parked <=> owner = "parked"
    /\ \A s \in Senders :
         (src[s] = "waiting") <=> \E i \in DOMAIN waitingSenders :
                                     waitingSenders[i] = s
    /\ \A i, j \in DOMAIN waitingSenders :
         waitingSenders[i] = waitingSenders[j] => i = j

(***************************************************************************)
(* The byte charge never drifts from the queued hops, whichever of take,   *)
(* enqueue, eviction and force_push moved them (queue.rs: "a leaked charge *)
(* is never refunded, so the mailbox rejects forever").                    *)
(***************************************************************************)
ChargeIsExact == bytes = PrefixCost(Len(queue))

(***************************************************************************)
(* The memory contract of MailboxConfig: user hops alone never exceed      *)
(* either bound, whatever the overflow policy and whoever enqueued them    *)
(* (push or admit_waiting_sender); only DOWN hops in the queue may add to  *)
(* it.                                                                     *)
(***************************************************************************)
WithinBounds ==
    LET down == {i \in DOMAIN queue : queue[i].sender = System}
    IN  /\ Len(queue) <= Limit + Cardinality(down)
        /\ bytes <= ByteLimit +
             SumFunctionOnSet([i \in DOMAIN queue |-> Cost(queue[i])], down)

(***************************************************************************)
(* No sender outlives the inbox it waits for: once finalize has closed the *)
(* mailbox nobody is parked in it, whatever the interleaving of the        *)
(* refusal, the second lookup and Mailbox::close (lifecycle.md: "cannot    *)
(* park on a dead inbox (that would leak the flow)").                      *)
(***************************************************************************)
NobodyWaitsOnClosed ==
    closed => /\ waitingSenders = <<>>
              /\ \A s \in Senders : src[s] # "waiting"

(***************************************************************************)
(* Delivery is in order and at most once: of the hops one source sent that *)
(* no filter tells apart, those still queued, waiting or in the source's   *)
(* hands are newer than every one the owner has consumed, and they are     *)
(* queued oldest first.  Handoff bypasses the queue and WAITING_SEND       *)
(* re-enqueues later, yet neither overtakes or repeats a hop.              *)
(***************************************************************************)
InOrderOnce ==
    /\ \A i \in DOMAIN queue :
         delivered[<<queue[i].sender, Class(queue[i])>>] < queue[i].n
    /\ \A i, j \in DOMAIN queue :
         i < j /\ queue[i].sender = queue[j].sender => queue[i].n < queue[j].n
    /\ \A s \in Sources : src[s] \notin {"running", "dead"} =>
         /\ delivered[<<s, Class(hop[s])>>] < hop[s].n
         /\ \A i \in DOMAIN queue : queue[i].sender = s => queue[i].n < hop[s].n

(***************************************************************************)
(* A hop and a deadline end the wait they are for: the value goes to the   *)
(* register of the current Receive or Ask, a deadline only ends a wait     *)
(* that has a timeout (never a later wait: WaitEpoch), and a hop only ends *)
(* a wait whose filter is the one that Receive asked for (never a          *)
(* downgraded one).  Exit notices, which carry no epoch, are the subject   *)
(* of NoticeBelongsToWait; none of them makes a deadline or a hop go       *)
(* astray here.                                                            *)
(***************************************************************************)
HopOrDeadlineFitsWait ==
    [][owner = "parked" /\ owner' = "running" =>
         /\ resumed'.kind # "exit" => resumed'.dest = wait.dest
         /\ resumed'.kind = "deadline" => wait.timeout
         /\ resumed'.kind = "hop" => parkedFilter = wait.filter]_vars

(***************************************************************************)
(* What mailbox.md makes a hard rule ("Never wake whoever is parked") and  *)
(* lifecycle.md says of Ask ("the asker is taken off its mailbox and       *)
(* resumed with TAG_SYS_EXIT"): the notice that a flow is gone ends a wait *)
(* for that flow's answer, in that Ask's register.  Both wakers of askers  *)
(* (park_ask's end, wake_orphaned_asks) take whoever is parked, however.   *)
(***************************************************************************)
NoticeBelongsToWait ==
    [][owner = "parked" /\ owner' = "running" /\ resumed'.kind = "exit" =>
         /\ resumed'.dest = wait.dest
         /\ Asking /\ src[wait.filter.sender] = "dead"]_vars

(***************************************************************************)
(* An asker can always be found: while the owner is parked for a reply,    *)
(* the AskWaitIndex names its target, or that target is being finalized    *)
(* already.  Wakers of an earlier wait, which clear the index by asker and *)
(* not by wait, never strike off the Ask that is parked now (lifecycle.md: *)
(* "parked for a reply is indexed on the target").                         *)
(***************************************************************************)
AskerIsIndexed ==
    owner = "parked" /\ Asking =>
        \/ wait.filter.sender \in askWaits
        \/ src[wait.filter.sender] = "dead"

(***************************************************************************)
(* A timed wait can end: while the owner is parked with a timeout, the     *)
(* timer holds a deadline of this very wait, or a worker is on its way to  *)
(* arm one, however many stale deadlines fire first and whatever the last  *)
(* look at an asked flow finds (TimerWheel::fire, Mailbox::take_parked_at, *)
(* park_ask).  Since a deadline of the current epoch ends the wait, the    *)
(* timer thread only has to keep running.                                  *)
(***************************************************************************)
TimedWaitIsArmed ==
    owner = "parked" /\ wait.timeout =>
        \/ \E d \in arming \cup deadlines : d.epoch = waitEpoch
        \/ \E t \in tails : t.epoch = waitEpoch /\ t.timeout

(***************************************************************************)
(* What the docs say of WAITING_SEND: "Each successful pop admits one      *)
(* waiter" (mailbox.md), "one parked sender woken per freed slot"          *)
(* (policy.rs).  If so, an owner with nothing left to receive never sleeps *)
(* while the oldest waiting sender's hop would fit its inbox.              *)
(***************************************************************************)
FreeSlotWakesSender ==
    ~ /\ owner = "parked"
      /\ waitingSenders # <<>>
      /\ Fits(hop[Head(waitingSenders)])
=============================================================================
