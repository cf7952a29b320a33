----------------------------- MODULE Lifecycle ------------------------------
(***************************************************************************)
(* How flows block, are killed and end (scheduler/worker.rs, finalize.rs,  *)
(* monitor.rs, link.rs, timer.rs, Runtime::kill).  Many flows run on many  *)
(* workers; each action is one critical section of one shared table (a     *)
(* mailbox, the ask index, the kill signals, the directory, the Cap table, *)
(* monitors, links) by one thread.  A `Box<Flow>` moves between containers *)
(* (run queues, mailboxes, the timer heap, a worker's hands, a             *)
(* finalizer's work list), and each container is a variable of its own.    *)
(*                                                                         *)
(* Mailboxes are those of module Mailbox, reduced to what matters here:    *)
(* they do not fill up, so nobody is in WAITING_SEND, and closing one has  *)
(* no effect.                                                              *)
(***************************************************************************)
EXTENDS Integers, Sequences, SequencesExt, FiniteSets

CONSTANTS
    Flows,
    Host,           \* the embedder's thread
    Holds,          \* <<f, t>>: f was given an addressing Cap of t
    Watches,        \* <<f, t>>: f's program may monitor t
    Ties,           \* <<f, t>>: f's program may link to t
    Killable,       \* flows the embedder may kill, each once
    Sleepers,       \* flows whose program may sleep
    Timeouts,       \* whether Asks may carry a timeout
    MaxAsks,        \* bound: Asks per flow
    MaxMonitors     \* bound: monitors created by all flows

ASSUME LifecycleAssumption ==
    /\ Host \notin Flows
    /\ Holds \subseteq Flows \X Flows
    /\ Watches \subseteq Holds
    /\ Ties \subseteq Holds
    /\ Killable \subseteq Flows
    /\ Sleepers \subseteq Flows
    /\ Timeouts \subseteq BOOLEAN
    /\ MaxAsks \in Nat
    /\ MaxMonitors \in Nat

VARIABLES
    ready,          \* flows in the injector and the workers' deques
    cpu,            \* what the thread that holds a flow does with it next
    op,             \* its operands: whom it addresses, with which hop
    parked,         \* flows in their own mailbox (MailboxInner::parked)
    sleeping,       \* WakeSleeper entries of the timer heap
    wait,           \* the filter of a flow that waits; Any when it does not
    epoch,          \* MailboxInner::wait_epoch
    inbox,          \* queued hops
    resumed,        \* the last value written into each flow's registers
    todo,           \* requests the program has received and may answer
    askWaits,       \* AskWaitIndex: the target each indexed asker waits for
    checks,         \* park_ask's tails: parked, target yet to be looked up
    deadlines,      \* WakeReceiver entries of the timer heap
    asks,           \* request ids used by each flow
    signals,        \* KillSignals
    extract,        \* extract_for_kill, by the thread that runs it
    spared,         \* killable flows the embedder has not killed yet
    registered,     \* Directory
    revoked,        \* flows whose Caps are revoked
    monitors,       \* MonitorTable
    nextMonitor,    \* NEXT_MONITOR
    links,          \* LinkTable
    fin,            \* finalize_one, by the flow that ends
    outcome,        \* what the flow's joiner receives
    settled,        \* history: monitors that have fired or been withdrawn
    tied            \* history: pairs linked and not unlinked by a program

runVars == <<ready, cpu, op, sleeping, asks, todo>>
mailVars == <<parked, wait, epoch, inbox, resumed>>
askVars == <<askWaits, checks, deadlines>>
killVars == <<signals, extract, spared>>
liveVars == <<registered, revoked>>
relVars == <<monitors, nextMonitor, links, settled, tied>>
endVars == <<fin, outcome>>
vars == <<runVars, mailVars, askVars, killVars, liveVars, relVars, endVars>>

Threads == Flows \cup {Host}

NoFlow == "no flow"
NoSignal == "none"
NotYet == "running"

\* FlowExitReason, as far as this module tells reasons apart.
Reasons == {"Normal", "Fault", "Killed", "Link"}
IsAbnormal(reason) == reason # "Normal"

AnyHop == [kind |-> "Any", rid |-> 0, sender |-> NoFlow]
ReplyTo(rid, target) == [kind |-> "Reply", rid |-> rid, sender |-> target]

\* WaitFilter::matches for Receive and for the Correlation filter of an Ask.
Matches(w, h) == w.kind = "Any" \/ (h.rid = w.rid /\ h.sender = w.sender)

Hop(tag, rid, sender) == [tag |-> tag, rid |-> rid, sender |-> sender]

Idle == [pc |-> "idle", target |-> NoFlow]
Nothing == [to |-> NoFlow, hop |-> Hop("none", 0, NoFlow), timed |-> FALSE]
NotEnding == [pc |-> "none", reason |-> "Normal", rest |-> {}, work |-> <<>>]

FinPcs == {"signal", "asker", "orphans", "wake", "unregister", "owned",
           "notify", "down", "peers"}

CpuStates == {"none", "run", "deliver", "tryReply", "index", "parkAsk",
              "parkReceive", "unindex", "monitor", "link"}

HopTags == {"none", "start", "request", "reply", "down", "exit", "timeout"}

Hops == [tag : HopTags, rid : Nat, sender : Flows \cup {NoFlow}]

Monitors == [ref : Nat, owner : Flows, target : Flows]

\* Types: each table and each container of flows holds what its type in the code
\* allows, and every position of a worker, finalizer or killer is one the code has.
TypeOK ==
    /\ ready \subseteq Flows
    /\ cpu \in [Flows -> CpuStates]
    /\ op \in [Flows -> [to : Flows \cup {NoFlow}, hop : Hops, timed : BOOLEAN]]
    /\ parked \subseteq Flows
    /\ sleeping \subseteq Flows
    /\ wait \in [Flows -> [kind : {"Any", "Reply"}, rid : Nat,
                           sender : Flows \cup {NoFlow}]]
    /\ epoch \in [Flows -> Nat]
    /\ inbox \in [Flows -> Seq(Hops)]
    /\ resumed \in [Flows -> Hops]
    /\ todo \in [Flows -> SUBSET Hops]
    /\ askWaits \in [Flows -> Flows \cup {NoFlow}]
    /\ checks \subseteq [asker : Flows, target : Flows, epoch : Nat,
                         timed : BOOLEAN, gone : BOOLEAN]
    /\ deadlines \subseteq [asker : Flows, epoch : Nat]
    /\ asks \in [Flows -> 0 .. MaxAsks]
    /\ signals \in [Flows -> Reasons \cup {NoSignal}]
    /\ extract \in [Threads -> [pc : {"idle", "set", "take"},
                                target : Flows \cup {NoFlow}]]
    /\ spared \subseteq Killable
    /\ registered \subseteq Flows
    /\ revoked \subseteq Flows
    /\ monitors \subseteq Monitors
    /\ nextMonitor \in Nat
    /\ links \subseteq SUBSET Flows
    /\ fin \in [Flows -> [pc : FinPcs \cup {"none"}, reason : Reasons,
                          rest : SUBSET (Flows \cup Monitors), work : Seq(Flows)]]
    /\ outcome \in [Flows -> Reasons \cup {NotYet}]
    /\ settled \subseteq Nat
    /\ tied \subseteq SUBSET Flows

\* Every flow has been spawned and waits for its first quantum.
Init ==
    /\ ready = Flows
    /\ cpu = [f \in Flows |-> "none"]
    /\ op = [f \in Flows |-> Nothing]
    /\ parked = {}
    /\ sleeping = {}
    /\ wait = [f \in Flows |-> AnyHop]
    /\ epoch = [f \in Flows |-> 0]
    /\ inbox = [f \in Flows |-> <<>>]
    /\ resumed = [f \in Flows |-> Hop("start", 0, NoFlow)]
    /\ todo = [f \in Flows |-> {}]
    /\ askWaits = [f \in Flows |-> NoFlow]
    /\ checks = {}
    /\ deadlines = {}
    /\ asks = [f \in Flows |-> 0]
    /\ signals = [f \in Flows |-> NoSignal]
    /\ extract = [k \in Threads |-> Idle]
    /\ spared = Killable
    /\ registered = Flows
    /\ revoked = {}
    /\ monitors = {}
    /\ nextMonitor = 1
    /\ links = {}
    /\ fin = [f \in Flows |-> NotEnding]
    /\ outcome = [f \in Flows |-> NotYet]
    /\ settled = {}
    /\ tied = {}

-----------------------------------------------------------------------------
(* Moving a flow                                                           *)

\* finalize_flow is entered with a flow nobody else can reach.
BeginFinalize(f, reason, work) ==
    fin' = [fin EXCEPT ![f] = [pc |-> "signal", reason |-> reason, rest |-> {},
                               work |-> work]]

\* The worker drops the flow into finalize_flow (finish_ok, finish_failed).
Finish(f, reason) ==
    /\ cpu' = [cpu EXCEPT ![f] = "none"]
    /\ BeginFinalize(f, reason, <<>>)

\* The operands go out of scope.
Done(f) == op' = [op EXCEPT ![f] = Nothing]

\* Vm::resume_with.  A request is for the program to answer.
Resume(f, h) ==
    /\ resumed' = [resumed EXCEPT ![f] = h]
    /\ todo' = IF h.tag = "request" THEN [todo EXCEPT ![f] = @ \cup {h}] ELSE todo

\* Pop f's oldest hop that the filter w accepts.
PopMatch(f, w) ==
    \E i \in DOMAIN inbox[f] :
        /\ Matches(w, inbox[f][i])
        /\ \A j \in 1 .. (i - 1) : ~Matches(w, inbox[f][j])
        /\ inbox' = [inbox EXCEPT ![f] = RemoveAt(@, i)]
        /\ wait' = [wait EXCEPT ![f] = AnyHop]
        /\ Resume(f, inbox[f][i])

NoMatch(f, w) == \A i \in DOMAIN inbox[f] : ~Matches(w, inbox[f][i])

\* Mutant: a handoff resumes the waiter and leaves it in its mailbox.
TakeParkedKept(t) ==
    /\ t \in parked
    /\ wait' = [wait EXCEPT ![t] = AnyHop]
    /\ UNCHANGED parked

\* Mailbox::take_parked: whoever is parked, whatever it waits for.
TakeParked(t) ==
    /\ t \in parked
    /\ parked' = parked \ {t}
    /\ wait' = [wait EXCEPT ![t] = AnyHop]

(***************************************************************************)
(* push and push_system: a parked t that waits for h is handed over to the *)
(* caller, who will remove it from the ask index and make it runnable; any *)
(* other t finds h in its inbox later.  `cpu0` is cpu as the caller leaves *)
(* it.                                                                     *)
(***************************************************************************)
PushTo(t, h, cpu0) ==
    \/ /\ Matches(wait[t], h)
       /\ TakeParked(t)
       /\ Resume(t, h)
       /\ cpu' = [cpu0 EXCEPT ![t] = "unindex"]
       /\ UNCHANGED inbox
    \/ /\ ~(t \in parked /\ Matches(wait[t], h))
       /\ inbox' = [inbox EXCEPT ![t] = Append(@, h)]
       /\ cpu' = cpu0
       /\ UNCHANGED <<parked, wait, resumed, todo>>

-----------------------------------------------------------------------------
(* drive_process                                                           *)

\* A quantum starts: a kill signal ends the flow, else it runs.
RunQuantum(f) ==
    /\ f \in ready
    /\ ready' = ready \ {f}
    /\ signals' = [signals EXCEPT ![f] = NoSignal]
    /\ IF signals[f] = NoSignal
       THEN cpu' = [cpu EXCEPT ![f] = "run"] /\ UNCHANGED fin
       ELSE BeginFinalize(f, signals[f], <<>>) /\ UNCHANGED cpu
    /\ UNCHANGED <<op, sleeping, asks, todo, mailVars, askVars, extract, spared,
                   liveVars, relVars, outcome>>

\* The quantum is used up.
Yield(f) ==
    /\ cpu[f] = "run"
    /\ cpu' = [cpu EXCEPT ![f] = "none"]
    /\ ready' = ready \cup {f}
    /\ UNCHANGED <<op, sleeping, asks, todo, mailVars, askVars, killVars, liveVars,
                   relVars, endVars>>

Sleep(f) ==
    /\ cpu[f] = "run"
    /\ f \in Sleepers
    /\ cpu' = [cpu EXCEPT ![f] = "none"]
    /\ sleeping' = sleeping \cup {f}
    /\ UNCHANGED <<ready, op, asks, todo, mailVars, askVars, killVars, liveVars,
                   relVars, endVars>>

\* TimerWheel::fire, WakeSleeper.
WakeSleeper(f) ==
    /\ f \in sleeping
    /\ sleeping' = sleeping \ {f}
    /\ ready' = ready \cup {f}
    /\ UNCHANGED <<cpu, op, asks, todo, mailVars, askVars, killVars, liveVars,
                   relVars, endVars>>

\* The program returns, or traps, panics or runs out of quota.
Complete(f) ==
    /\ cpu[f] = "run"
    /\ \E reason \in {"Normal", "Fault"} : Finish(f, reason)
    /\ UNCHANGED <<ready, op, sleeping, asks, todo, mailVars, askVars, killVars,
                   liveVars, relVars, outcome>>

\* Receive without a timeout (module Mailbox has the timed one).
Receive(f) ==
    /\ cpu[f] = "run"
    /\ \/ PopMatch(f, AnyHop) /\ UNCHANGED cpu
       \/ /\ NoMatch(f, AnyHop)
          /\ cpu' = [cpu EXCEPT ![f] = "parkReceive"]
          /\ UNCHANGED <<wait, inbox, resumed, todo>>
    /\ UNCHANGED <<ready, op, sleeping, asks, parked, epoch, askVars, killVars,
                   liveVars, relVars, endVars>>

ParkReceive(f) ==
    /\ cpu[f] = "parkReceive"
    /\ cpu' = [cpu EXCEPT ![f] = "none"]
    /\ \/ /\ PopMatch(f, wait[f])
          /\ ready' = ready \cup {f}
          /\ UNCHANGED <<parked, epoch>>
       \/ /\ NoMatch(f, wait[f])
          /\ parked' = parked \cup {f}
          /\ epoch' = [epoch EXCEPT ![f] = @ + 1]
          /\ UNCHANGED <<ready, wait, inbox, resumed, todo>>
    /\ UNCHANGED <<op, sleeping, asks, askVars, killVars, liveVars, relVars,
                   endVars>>

\* Mutant: the worker goes on without the operands it resolved.
PresentUnsaved(f, t, next, operands) ==
    /\ cpu' = [cpu EXCEPT ![f] = next]
    /\ UNCHANGED <<op, fin>>

(***************************************************************************)
(* An operation on a Cap of t: a Cap of a dead flow does not resolve, and  *)
(* the flow that presents it fails.                                        *)
(***************************************************************************)
Present(f, t, next, operands) ==
    IF t \in revoked
    THEN Finish(f, "Fault") /\ UNCHANGED op
    ELSE /\ cpu' = [cpu EXCEPT ![f] = next]
         /\ op' = [op EXCEPT ![f] = operands]
         /\ UNCHANGED fin

Ask(f, t, timed) ==
    /\ cpu[f] = "run"
    /\ <<f, t>> \in Holds
    /\ asks[f] < MaxAsks
    /\ asks' = [asks EXCEPT ![f] = @ + 1]
    /\ Present(f, t, "deliver",
               [to |-> t, hop |-> Hop("request", asks[f] + 1, f), timed |-> timed])
    /\ wait' = IF t \in revoked THEN wait
               ELSE [wait EXCEPT ![f] = ReplyTo(asks[f] + 1, t)]
    /\ UNCHANGED <<ready, sleeping, todo, parked, epoch, inbox, resumed, askVars,
                   killVars, liveVars, relVars, outcome>>

\* Send, of an answer, through the reply Cap of a request.
Answer(f, r) ==
    /\ cpu[f] = "run"
    /\ r \in todo[f]
    /\ todo' = [todo EXCEPT ![f] = @ \ {r}]
    /\ Present(f, r.sender, "deliver",
               [to |-> r.sender, hop |-> Hop("reply", r.rid, f), timed |-> FALSE])
    /\ UNCHANGED <<ready, sleeping, asks, mailVars, askVars, killVars, liveVars,
                   relVars, outcome>>

\* deliver: a target that has left the directory swallows the hop.
Deliver(f) ==
    LET h == op[f].hop
        after == [cpu EXCEPT ![f] = IF h.tag = "request" THEN "tryReply" ELSE "run"]
    IN  /\ cpu[f] = "deliver"
        /\ IF h.tag = "request" THEN UNCHANGED op ELSE Done(f)
        /\ IF op[f].to \in registered
           THEN PushTo(op[f].to, h, after)
           ELSE cpu' = after /\ UNCHANGED <<parked, wait, inbox, resumed, todo>>
        /\ UNCHANGED <<ready, sleeping, asks, epoch, askVars, killVars,
                       liveVars, relVars, endVars>>

\* The tail of a handoff, of a timeout and of a reply found while parking:
\* forget the Ask, then make the flow runnable.
Unindex(f) ==
    /\ cpu[f] = "unindex"
    /\ cpu' = [cpu EXCEPT ![f] = "none"]
    /\ askWaits' = [askWaits EXCEPT ![f] = NoFlow]
    /\ Done(f)
    /\ ready' = ready \cup {f}
    /\ UNCHANGED <<sleeping, asks, todo, mailVars, checks, deadlines, killVars,
                   liveVars, relVars, endVars>>

TryReply(f) ==
    /\ cpu[f] = "tryReply"
    /\ \/ PopMatch(f, wait[f]) /\ cpu' = [cpu EXCEPT ![f] = "run"] /\ Done(f)
       \/ /\ NoMatch(f, wait[f])
          /\ cpu' = [cpu EXCEPT ![f] = "index"]
          /\ UNCHANGED <<op, wait, inbox, resumed, todo>>
    /\ UNCHANGED <<ready, sleeping, asks, parked, epoch, askVars, killVars,
                   liveVars, relVars, endVars>>

\* park_ask, first half: AskWaitIndex::insert refuses an asker it knows.
IndexAsk(f) ==
    /\ cpu[f] = "index"
    /\ IF askWaits[f] = NoFlow
       THEN /\ askWaits' = [askWaits EXCEPT ![f] = op[f].to]
            /\ cpu' = [cpu EXCEPT ![f] = "parkAsk"]
            /\ UNCHANGED <<op, fin>>
       ELSE Finish(f, "Fault") /\ Done(f) /\ UNCHANGED askWaits
    /\ UNCHANGED <<ready, sleeping, asks, todo, mailVars, checks, deadlines,
                   killVars, liveVars, relVars, outcome>>

\* park_ask, second half: park_filter.
ParkAsk(f) ==
    /\ cpu[f] = "parkAsk"
    /\ Done(f)
    /\ \/ /\ PopMatch(f, wait[f])
          /\ cpu' = [cpu EXCEPT ![f] = "unindex"]
          /\ UNCHANGED <<parked, epoch, checks>>
       \/ /\ NoMatch(f, wait[f])
          /\ cpu' = [cpu EXCEPT ![f] = "none"]
          /\ parked' = parked \cup {f}
          /\ epoch' = [epoch EXCEPT ![f] = @ + 1]
          /\ checks' = checks \cup {[asker |-> f, target |-> op[f].to,
                                     epoch |-> epoch[f] + 1, timed |-> op[f].timed,
                                     gone |-> FALSE]}
          /\ UNCHANGED <<wait, inbox, resumed, todo>>
    /\ UNCHANGED <<ready, sleeping, asks, askWaits, deadlines, killVars,
                   liveVars, relVars, endVars>>

\* park_ask's tail, the asker parked: is the target still in the directory?
CheckTarget(c) ==
    /\ c \in checks
    /\ ~c.gone
    /\ IF c.target \in registered
       THEN /\ checks' = checks \ {c}
            /\ deadlines' = IF c.timed
                            THEN deadlines \cup {[asker |-> c.asker, epoch |-> c.epoch]}
                            ELSE deadlines
       ELSE /\ checks' = (checks \ {c}) \cup {[c EXCEPT !.gone = TRUE]}
            /\ UNCHANGED deadlines
    /\ UNCHANGED <<runVars, mailVars, askWaits, killVars, liveVars, relVars, endVars>>

\* It is not: take whoever is parked and tell it that the target is gone.
WakeSelf(c) ==
    /\ c \in checks
    /\ c.gone
    /\ checks' = checks \ {c}
    /\ \/ /\ TakeParked(c.asker)
          /\ Resume(c.asker, Hop("exit", 0, c.target))
          /\ cpu' = [cpu EXCEPT ![c.asker] = "unindex"]
       \/ /\ c.asker \notin parked
          /\ UNCHANGED <<parked, wait, resumed, todo, cpu>>
    /\ UNCHANGED <<ready, op, sleeping, asks, epoch, inbox, askWaits, deadlines,
                   killVars, liveVars, relVars, endVars>>

\* TimerWheel::fire, WakeReceiver: take_parked_at.
FireDeadline(d) ==
    /\ d \in deadlines
    /\ deadlines' = deadlines \ {d}
    /\ IF epoch[d.asker] = d.epoch /\ d.asker \in parked
       THEN /\ TakeParked(d.asker)
            /\ Resume(d.asker, Hop("timeout", 0, NoFlow))
            /\ cpu' = [cpu EXCEPT ![d.asker] = "unindex"]
       ELSE UNCHANGED <<parked, wait, resumed, todo, cpu>>
    /\ UNCHANGED <<ready, op, sleeping, asks, epoch, inbox, askWaits, checks,
                   killVars, liveVars, relVars, endVars>>

-----------------------------------------------------------------------------
(* Monitors and links                                                      *)

\* Monitor and Link check the Cap first ...
Relate(f, t, next) ==
    /\ cpu[f] = "run"
    /\ f # t
    /\ Present(f, t, next, [Nothing EXCEPT !.to = t])
    /\ UNCHANGED <<ready, sleeping, asks, todo, mailVars, askVars, killVars, liveVars,
                   relVars, outcome>>

Monitor(f, t) ==
    /\ <<f, t>> \in Watches
    /\ nextMonitor <= MaxMonitors
    /\ Relate(f, t, "monitor")

Link(f, t) == <<f, t>> \in Ties /\ Relate(f, t, "link")

\* ... and write the relation next, without looking at the target again.
CreateMonitor(f) ==
    /\ cpu[f] = "monitor"
    /\ cpu' = [cpu EXCEPT ![f] = "run"]
    /\ Done(f)
    /\ monitors' = monitors \cup {[ref |-> nextMonitor, owner |-> f, target |-> op[f].to]}
    /\ nextMonitor' = nextMonitor + 1
    /\ UNCHANGED <<ready, sleeping, asks, todo, mailVars, askVars, killVars,
                   liveVars, links, settled, tied, endVars>>

\* MonitorTable::remove_owned; a monitor that has fired is an invalid one.
Demonitor(f) ==
    /\ cpu[f] = "run"
    /\ \E ref \in 1 .. (nextMonitor - 1) :
         \/ \E m \in monitors : /\ m.ref = ref /\ m.owner = f
                                /\ monitors' = monitors \ {m}
                                /\ settled' = settled \cup {ref}
                                /\ UNCHANGED <<cpu, fin>>
         \/ /\ \A m \in monitors : ~(m.ref = ref /\ m.owner = f)
            /\ Finish(f, "Fault")
            /\ UNCHANGED <<monitors, settled>>
    /\ UNCHANGED <<ready, op, sleeping, asks, todo, mailVars, askVars, killVars,
                   liveVars, nextMonitor, links, tied, outcome>>

\* LinkTable::link
CreateLink(f) ==
    LET pair == {f, op[f].to}
    IN  /\ cpu[f] = "link"
        /\ Done(f)
        /\ IF pair \in links
           THEN Finish(f, "Fault") /\ UNCHANGED <<links, tied>>
           ELSE /\ cpu' = [cpu EXCEPT ![f] = "run"]
                /\ links' = links \cup {pair}
                /\ tied' = tied \cup {pair}
                /\ UNCHANGED fin
        /\ UNCHANGED <<ready, sleeping, asks, todo, mailVars, askVars, killVars,
                       liveVars, monitors, nextMonitor, settled, outcome>>

\* LinkTable::unlink_owned, of a link f has had.
Unlink(f, pair) ==
    /\ cpu[f] = "run"
    /\ f \in pair
    /\ IF pair \in links
       THEN /\ links' = links \ {pair}
            /\ tied' = tied \ {pair}
            /\ UNCHANGED <<cpu, fin>>
       ELSE Finish(f, "Fault") /\ UNCHANGED <<links, tied>>
    /\ UNCHANGED <<ready, op, sleeping, asks, todo, mailVars, askVars, killVars,
                   liveVars, monitors, nextMonitor, settled, outcome>>

-----------------------------------------------------------------------------
(* Kill                                                                    *)

\* Runtime::kill, by the embedder: extract_for_kill looks the flow up ...
Kill(p) ==
    /\ extract[Host] = Idle
    /\ p \in spared \cap registered
    /\ spared' = spared \ {p}
    /\ extract' = [extract EXCEPT ![Host] = [pc |-> "set", target |-> p]]
    /\ UNCHANGED <<runVars, mailVars, askVars, signals, liveVars, relVars, endVars>>

\* ... leaves a signal ...
SetSignal(k) ==
    /\ extract[k].pc = "set"
    /\ signals' = [signals EXCEPT ![extract[k].target] =
                     IF k = Host THEN "Killed" ELSE "Link"]
    /\ extract' = [extract EXCEPT ![k].pc = "take"]
    /\ UNCHANGED <<runVars, mailVars, askVars, spared, liveVars, relVars, endVars>>

\* ... and takes the flow if it is parked: to be finalized at once by the
\* embedder's thread, or after the flow a finalizer is ending.
Extract(k) ==
    LET p == extract[k].target
    IN  /\ extract[k].pc = "take"
        /\ extract' = [extract EXCEPT ![k] = Idle]
        /\ \/ /\ TakeParked(p)
              /\ IF k = Host
                 THEN BeginFinalize(p, "Killed", <<>>)
                 ELSE fin' = [fin EXCEPT ![k].work = Append(@, p)]
           \/ p \notin parked /\ UNCHANGED <<parked, wait, fin>>
        /\ UNCHANGED <<runVars, epoch, inbox, resumed, askVars, signals, spared,
                       liveVars, relVars, outcome>>

-----------------------------------------------------------------------------
(* finalize_one                                                            *)

\* The step of f's finalization that is due, and the one after it.
FinStep(f, pc, next) ==
    /\ fin[f].pc = pc
    /\ fin' = [fin EXCEPT ![f].pc = next]

FinSignal(f) ==
    /\ FinStep(f, "signal", "asker")
    /\ signals' = [signals EXCEPT ![f] = NoSignal]
    /\ UNCHANGED <<runVars, mailVars, askVars, extract, spared, liveVars, relVars,
                   outcome>>

\* remove_asker
FinAsker(f) ==
    /\ FinStep(f, "asker", "orphans")
    /\ askWaits' = [askWaits EXCEPT ![f] = NoFlow]
    /\ UNCHANGED <<runVars, mailVars, checks, deadlines, killVars, liveVars, relVars,
                   outcome>>

\* Mutant: the askers are forgotten, and nobody goes on to wake them.
FinOrphansDropped(f) ==
    /\ FinStep(f, "orphans", "wake")
    /\ askWaits' = [a \in Flows |-> IF askWaits[a] = f THEN NoFlow ELSE askWaits[a]]
    /\ UNCHANGED <<runVars, mailVars, checks, deadlines, killVars, liveVars, relVars,
                   outcome>>

\* wake_orphaned_asks: take_waiters_of hands the askers over at once ...
FinOrphans(f) ==
    /\ fin[f].pc = "orphans"
    /\ fin' = [fin EXCEPT ![f].pc = "wake",
                          ![f].rest = {a \in Flows : askWaits[a] = f}]
    /\ askWaits' = [a \in Flows |-> IF askWaits[a] = f THEN NoFlow ELSE askWaits[a]]
    /\ UNCHANGED <<runVars, mailVars, checks, deadlines, killVars, liveVars, relVars,
                   outcome>>

\* ... and they are woken one by one, if they are parked by then.
FinWake(f) ==
    /\ fin[f].pc = "wake"
    /\ \E a \in fin[f].rest :
         /\ fin' = [fin EXCEPT ![f].rest = @ \ {a}]
         /\ \/ /\ a \in registered
               /\ TakeParked(a)
               /\ Resume(a, Hop("exit", 0, f))
               /\ ready' = ready \cup {a}
            \/ /\ a \notin registered \cap parked
               /\ UNCHANGED <<parked, wait, resumed, todo, ready>>
    /\ UNCHANGED <<cpu, op, sleeping, asks, epoch, inbox, askVars, killVars,
                   liveVars, relVars, outcome>>

\* CapTable::revoke_flow
FinRevoke(f) ==
    /\ fin[f].rest = {}
    /\ FinStep(f, "wake", "unregister")
    /\ revoked' = revoked \cup {f}
    /\ UNCHANGED <<runVars, mailVars, askVars, killVars, registered, relVars, outcome>>

\* Mutant: the directory entry is left for later.
FinUnregisterLate(f) ==
    /\ FinStep(f, "unregister", "owned")
    /\ UNCHANGED <<runVars, mailVars, askVars, killVars, liveVars, relVars, outcome>>

FinUnregister(f) ==
    /\ FinStep(f, "unregister", "owned")
    /\ registered' = registered \ {f}
    /\ UNCHANGED <<runVars, mailVars, askVars, killVars, revoked, relVars, outcome>>

\* MonitorTable::remove_owned_by
FinOwned(f) ==
    /\ FinStep(f, "owned", "notify")
    /\ monitors' = {m \in monitors : m.owner # f}
    /\ UNCHANGED <<runVars, mailVars, askVars, killVars, liveVars, nextMonitor, links,
                   settled, tied, outcome>>

\* MonitorTable::notify_target_exit
FinNotify(f) ==
    LET fired == {m \in monitors : m.target = f}
    IN  /\ fin[f].pc = "notify"
        /\ fin' = [fin EXCEPT ![f].pc = "down", ![f].rest = fired]
        /\ monitors' = monitors \ fired
        /\ UNCHANGED <<runVars, mailVars, askVars, killVars, liveVars, nextMonitor,
                       links, settled, tied, outcome>>

\* Mutant: a DOWN is for an owner that is parked.
FinDownIfParked(f) ==
    /\ fin[f].pc = "down"
    /\ \E m \in fin[f].rest :
         /\ fin' = [fin EXCEPT ![f].rest = @ \ {m}]
         /\ IF m.owner \in registered \cap parked
            THEN /\ PushTo(m.owner, Hop("down", m.ref, f), cpu)
                 /\ settled' = settled \cup {m.ref}
            ELSE UNCHANGED <<parked, wait, inbox, resumed, todo, cpu, settled>>
    /\ UNCHANGED <<ready, op, sleeping, asks, epoch, askVars, killVars, liveVars,
                   monitors, nextMonitor, links, tied, outcome>>

\* deliver_down, in the order of the monitors' creation.
FinDown(f) ==
    /\ fin[f].pc = "down"
    /\ \E m \in fin[f].rest :
         /\ \A n \in fin[f].rest : m.ref <= n.ref
         /\ fin' = [fin EXCEPT ![f].rest = @ \ {m}]
         /\ IF m.owner \in registered
            THEN /\ PushTo(m.owner, Hop("down", m.ref, f), cpu)
                 /\ settled' = settled \cup {m.ref}
            ELSE UNCHANGED <<parked, wait, inbox, resumed, todo, cpu, settled>>
    /\ UNCHANGED <<ready, op, sleeping, asks, epoch, askVars, killVars, liveVars,
                   monitors, nextMonitor, links, tied, outcome>>

Peers(f) == {p \in Flows \ {f} : {f, p} \in links}

\* Mutant: only a fault propagates, a kill does not.
FinLinksFaultOnly(f) ==
    /\ fin[f].pc = "down"
    /\ fin[f].rest = {}
    /\ fin' = [fin EXCEPT ![f].pc = "peers",
                          ![f].rest = IF fin[f].reason = "Fault" THEN Peers(f) ELSE {}]
    /\ links' = {pair \in links : f \notin pair}
    /\ UNCHANGED <<runVars, mailVars, askVars, killVars, liveVars, monitors,
                   nextMonitor, settled, tied, outcome>>

\* LinkTable::remove_links_of; a normal exit only drops the links.
FinLinks(f) ==
    /\ fin[f].pc = "down"
    /\ fin[f].rest = {}
    /\ fin' = [fin EXCEPT ![f].pc = "peers",
                          ![f].rest = IF IsAbnormal(fin[f].reason) THEN Peers(f) ELSE {}]
    /\ links' = {pair \in links : f \notin pair}
    /\ UNCHANGED <<runVars, mailVars, askVars, killVars, liveVars, monitors,
                   nextMonitor, settled, tied, outcome>>

\* collect_link_exit: extract_for_kill of every peer in turn.
FinPeer(f) ==
    /\ fin[f].pc = "peers"
    /\ extract[f] = Idle
    /\ \E p \in fin[f].rest :
         /\ fin' = [fin EXCEPT ![f].rest = @ \ {p}]
         /\ extract' = IF p \in registered
                       THEN [extract EXCEPT ![f] = [pc |-> "set", target |-> p]]
                       ELSE extract
    /\ UNCHANGED <<runVars, mailVars, askVars, signals, spared, liveVars, relVars,
                   outcome>>

\* Mutant: one flow is finalized, and the work list is dropped with it.
FinCompleteAlone(f) ==
    /\ fin[f].pc = "peers"
    /\ fin[f].rest = {}
    /\ extract[f] = Idle
    /\ outcome' = [outcome EXCEPT ![f] = fin[f].reason]
    /\ fin' = [fin EXCEPT ![f] = NotEnding]
    /\ UNCHANGED <<runVars, mailVars, askVars, killVars, liveVars, relVars>>

\* The joiner gets its answer, and the work list its next flow.
FinComplete(f) ==
    LET work == fin[f].work
    IN  /\ fin[f].pc = "peers"
        /\ fin[f].rest = {}
        /\ extract[f] = Idle
        /\ outcome' = [outcome EXCEPT ![f] = fin[f].reason]
        /\ fin' = IF work = <<>>
                  THEN [fin EXCEPT ![f] = NotEnding]
                  ELSE [fin EXCEPT ![f] = NotEnding,
                                   ![Last(work)] = [pc |-> "signal", reason |-> "Link",
                                                    rest |-> {}, work |-> Front(work)]]
        /\ UNCHANGED <<runVars, mailVars, askVars, killVars, liveVars, relVars>>

Finalize(f) ==
    \/ FinSignal(f) \/ FinAsker(f) \/ FinOrphans(f) \/ FinWake(f)
    \/ FinRevoke(f) \/ FinUnregister(f) \/ FinOwned(f) \/ FinNotify(f) \/ FinDown(f)
    \/ FinLinks(f) \/ FinPeer(f) \/ FinComplete(f)

-----------------------------------------------------------------------------

\* What a worker does next with a flow that has left its program.
Drive(f) ==
    \/ RunQuantum(f) \/ Deliver(f) \/ Unindex(f) \/ TryReply(f) \/ IndexAsk(f)
    \/ ParkAsk(f) \/ ParkReceive(f) \/ CreateMonitor(f) \/ CreateLink(f)

\* What the program may ask for next.
Program(f) ==
    \/ Yield(f) \/ Sleep(f) \/ Complete(f) \/ Receive(f) \/ Demonitor(f)
    \/ \E t \in Flows, timed \in Timeouts : Ask(f, t, timed)
    \/ \E r \in todo[f] : Answer(f, r)
    \/ \E t \in Flows : Monitor(f, t) \/ Link(f, t)
    \/ \E pair \in tied : Unlink(f, pair)

Next ==
    \/ \E f \in Flows : Drive(f) \/ Program(f) \/ Finalize(f) \/ WakeSleeper(f)
    \/ \E c \in checks : CheckTarget(c) \/ WakeSelf(c)
    \/ \E d \in deadlines : FireDeadline(d)
    \/ \E p \in Flows : Kill(p)
    \/ \E k \in Threads : SetSignal(k) \/ Extract(k)

Spec == Init /\ [][Next]_vars

(***************************************************************************)
(* Fairness: workers, the timer thread and the embedder's thread go on     *)
(* with what they have begun.  Nothing makes a program do anything.  A     *)
(* flow is in one place, so one condition covers all who may hold it.      *)
(***************************************************************************)
Fairness ==
    /\ \A f \in Flows : WF_vars(Drive(f) \/ Finalize(f) \/ WakeSleeper(f))
    /\ WF_vars(\E c \in checks : CheckTarget(c) \/ WakeSelf(c))
    /\ WF_vars(\E d \in deadlines : FireDeadline(d))
    /\ \A k \in Threads : WF_vars(SetSignal(k) \/ Extract(k))

FairSpec == Spec /\ Fairness

-----------------------------------------------------------------------------
(* Properties                                                              *)

Queued == UNION {ToSet(fin[f].work) : f \in Flows}

Ending(f) == fin[f].pc # "none" \/ f \in Queued

Gone(f) == Ending(f) \/ outcome[f] # NotYet

(***************************************************************************)
(* A flow is in exactly one place from spawn to join: a run queue, a       *)
(* thread's hands, its mailbox, the timer heap, a finalizer's hands or     *)
(* work list, or ended.  Five parties take flows out of mailboxes          *)
(* (deliver, deliver_down, the timer, a finalizer, a killer); two of them  *)
(* holding the same `Box<Flow>` would run or finalize it twice.            *)
(***************************************************************************)
OnePlace ==
    \A f \in Flows :
        LET places == <<f \in ready, cpu[f] # "none", f \in parked, f \in sleeping,
                        fin[f].pc # "none", f \in Queued, outcome[f] # NotYet>>
        IN  Cardinality({i \in DOMAIN places : places[i]}) = 1

(***************************************************************************)
(* A DOWN is news: whoever holds one for t finds t gone, its Caps dead and *)
(* its FlowId unknown, so a reaction to it (restarting t, asking a         *)
(* replacement) never meets the old t (finalize_one revokes and            *)
(* unregisters before it notifies).                                        *)
(***************************************************************************)
DownAfterGone ==
    \A f \in Flows :
        \A h \in {resumed[f]} \cup ToSet(inbox[f]) :
            h.tag = "down" => h.sender \in revoked \ registered

(***************************************************************************)
(* "Abnormal exit of either side kills the peer" (Runtime::link): when f   *)
(* has ended abnormally, each flow it was linked to has ended too, is      *)
(* ending, or carries a signal that its next quantum will obey.  (A link   *)
(* written after f's links were collected is still in the table.)          *)
(***************************************************************************)
LinkedPeerIsKilled ==
    \A f, p \in Flows :
        /\ f # p /\ {f, p} \in tied \ links
        /\ outcome[f] # NotYet /\ IsAbnormal(outcome[f])
        => Gone(p) \/ signals[p] # NoSignal

(***************************************************************************)
(* An indexed asker is answered: one that is parked when its target starts *)
(* to end does not stay parked (wake_orphaned_asks).                       *)
(***************************************************************************)
OrphansWake ==
    \A hold \in Holds :
        LET asker == hold[1]
            asked == hold[2]
        IN  (/\ asker \in parked /\ askWaits[asker] = asked
             /\ fin[asked].pc \in {"signal", "asker", "orphans"}) ~> asker \notin parked

(***************************************************************************)
(* No DOWN is lost: a monitor in place when its target starts to end       *)
(* fires, whatever the owner is doing, unless the owner ends or withdraws  *)
(* it (deliver_down, Mailbox::push_system).                                *)
(***************************************************************************)
MonitorFires ==
    \A watch \in Watches, ref \in 1 .. MaxMonitors :
        LET watcher == watch[1]
            watched == watch[2]
        IN  (/\ [ref |-> ref, owner |-> watcher, target |-> watched] \in monitors
             /\ fin[watched].pc \in {"signal", "asker", "orphans"})
            ~> (ref \in settled \/ Gone(watcher))

(***************************************************************************)
(* Finalization ends, also when it takes a linked flow along with it: a    *)
(* flow that starts to end has an outcome for its joiner ("iterative (a    *)
(* work list)", finalize.rs).                                              *)
(***************************************************************************)
EndsWithOutcome == \A f \in Flows : Ending(f) ~> outcome[f] # NotYet

\* a waits without a deadline for the answer of a flow that has ended, the answer
\* is not queued, and nobody is about to wake a.
Hangs(a) ==
    /\ a \in parked
    /\ wait[a].kind = "Reply" /\ outcome[wait[a].sender] # NotYet
    /\ \A c \in checks : c.asker # a
    /\ \A d \in deadlines : d.asker # a
    /\ \A k \in Threads : extract[k].target # a

\* p is parked with a kill signal it will not read, and the killer has returned.
KilledInVain(p) ==
    /\ p \in parked
    /\ signals[p] # NoSignal
    /\ \A k \in Threads : extract[k].target # p

(***************************************************************************)
(* Two sentences of the documents about a parked flow: an Ask whose target *)
(* dies is woken, "This is not a hang" (lifecycle.md); and on a kill       *)
(* "Parked flows finalize immediately; a running flow dies at the next     *)
(* quantum" (Runtime::kill).  If either held, no asker would be stuck      *)
(* behind a dead flow and deaf to a kill as well.                          *)
(***************************************************************************)
StuckAskerCanBeKilled == \A a \in Flows : ~(Hangs(a) /\ KilledInVain(a))
=============================================================================
