# A TLA+ verification of the byteflow actor runtime

byteflow (`crates/byteflow`) is an embeddable actor runtime: programs in a small
bytecode run as *flows*, many flows on a few worker threads, and talk only by
messages (*hops*). This directory holds TLA+ modules translated from its source, the
TLC configurations that check them on small instances, and TLAPS proofs. All source
paths below are relative to `crates/byteflow/src/`.

## 1. Inventory

| Component | State | Operations | What makes it correct |
|---|---|---|---|
| Mailbox (`scheduler/mailbox/`) | bounded hop queue with a byte charge, the parked owner with its filter and epoch, senders in WAITING_SEND, closed flag | push, push_system, try_pop_filter, park_filter, take_parked(_at), park_sender, admit_waiting_sender, take_waiting_sender, close | no lost wakeup; exact charge; bounds hold; order; no sender left in a dead inbox; a deadline ends only its own wait |
| Worker (`scheduler/worker.rs`) | deques, injector, the flow in hand | one handler per VM result: yield, sleep, send, receive, ask, spawn, monitor, link, names, delegate | a flow is run by one thread; blocking operations park it where its waker will look |
| Finalization and kill (`scheduler/finalize.rs`) | kill signals, ask index, WAITING_SEND index, work list | finalize_flow, wake_orphaned_asks, deliver_down, extract_for_kill | every end is announced once and in order; linked flows die; askers do not hang; the joiner gets an outcome |
| Timer wheel (`scheduler/timer.rs`) | heap of sleepers and deadlines | schedule_*, drive, fire, shutdown | sleepers wake; timed waits end; stale entries do nothing |
| Monitors, links (`monitor.rs`, `link.rs`) | relation tables | create, remove, notify, link, unlink | DOWN is not lost, not early; an abnormal exit reaches peers |
| Directory, names (`directory.rs`, `registry.rs`) | FlowId to mailbox, name to FlowId | register, unregister, lookup | dead flows and their names do not resolve |
| Capabilities (`capability.rs`, `bytecode/cap.rs`) | Cap table, revocation cells | mint, grant, attenuate, delegate, resolve, revoke_flow | rights only shrink; nothing resolves to a dead flow |
| Supervisor (`supervisor.rs`) | child table, event queue, cascade, restart window | start_child, handle_exit, cascade | every child that should be restarted is, in order, within the intensity limit |
| Join handles (`oneshot.rs`, `handle.rs`) | one slot and a condition variable | send, drop, try_join, join_deadline, join | one collector; no wait for a value that cannot arrive |
| Quotas (`quota.rs`) | token buckets, memory charge | charge_cpu, alloc, free, credit, refill | charges balance; budgets hold |
| Runtime (`runtime.rs`) | the shared tables, threads | spawn, send, kill, monitor, link, names, shutdown | each call is the composition of the above in a safe order |
| Verifier and VM (`bytecode/verify.rs`, `vm/`) | frames, registers, instruction count | verify_with, run, resume_with | a verified chunk has every constant and function it uses, and never leaves its code or the call depth |
| Builder, programs, format (`bytecode/builder.rs`, `program.rs`, `format.rs`) | the chunk under construction, labels, pending jumps; a read position | const_, begin_function, emit, bind_label, finish; encode, decode_with | what runs is what was built, and jumps land on their labels |
| JIT (`jit/`), samples, natives, CLI, metrics | | | not modelled (section 8) |

**How they interact.** There is no global lock: every table above has a mutex of its own,
and an operation is a *sequence* of critical sections of different tables. Between two of
them any other worker, the timer thread, the embedder's threads or a finalizer may run.
Blocked flows are moved as owned boxes: a flow that waits *is inside* its mailbox, another
flow's mailbox or the timer heap, and whoever takes it out decides what it does next. The
hard behaviours all come from this: decisions made in one critical section and acted on in
another (a refusal, a directory lookup, a list of askers), two parties that want the same
flow, deadlines that outlive their wait, and ends that overlap with everything else.
`PROJECT.json` lists the hazards at their lines.

## 2. Modules

`MailboxQueue` models `mailbox/queue.rs` and `WaitFilter`: the queue and its
charge, selective take, the three overflow policies as four alternatives of `Enqueue`, and
the unbounded push of DOWN hops. A hop is its source, a body (tag, request id, cost in
abstract units) and a number that gives the order in which its source sent it; only the
number is not in the code.

`Mailbox` is one inbox with everybody who touches it. `parked`, `parkedFilter`,
`waitEpoch`, `waitingSenders`, `closed` are the fields of `MailboxInner`;
`registered` is the directory's entry; `owner`, `wait`, `resumed` are the flow that owns
the inbox; `src`, `hop` are the senders; `arming`, `deadlines` are deadlines on their way to the
timer heap and in it. `askWaits` is the owner's entry in the `AskWaitIndex`, `tails` the workers
that have parked an Ask and not yet looked at its target again, and `ends` how far the
finalization of an asked flow is. Each action is one critical section:

| Action | Code |
|---|---|
| `Receive` | the pop of Receive and ReceiveMatch |
| `Ask`, `AwaitReply` | Ask up to its request; then the pop for the reply or `park_ask`'s entry in the index |
| `AdmitWaitingSender` | `admit_waiting_on` after a Receive's pop (an Ask's pop and a pop while parking admit nobody, as in the code) |
| `ParkFilter` | `park_on_mailbox` / `Mailbox::park_filter` |
| `CheckTarget` | the end of `park_ask`: the target is looked up again, the owner woken or its deadline armed |
| `ArmDeadline`, `FireDeadline` | `schedule_receive_timeout`, `TimerWheel::fire` with `take_parked_at` |
| `StartSend`, `Push`, `PushSystem` | Send, `Runtime::send` and `deliver_down` up to and including `Mailbox::push` / `push_system` |
| `ParkLookup`, `ParkSender` | `park_waiting_send` and `Mailbox::park_sender` |
| `KillOwner`, `KillSender` | `take_parked`, `take_waiting_sender` |
| `Exit`, `Close`, `Unregister` | the owner's finalization as far as the inbox sees it |
| `SenderExit`, `TakeWaiters`, `WakeOrphan`, `LeaveDirectory` | the end of a flow the owner may have asked: `take_waiters_of`, the wake of `wake_orphaned_asks`, `revoke_flow` and `Directory::unregister` |

`Lifecycle` is the runtime around the inboxes: flows that run, sleep, receive, ask, answer,
monitor, link, are killed and end. Every container of flows is a variable (`ready`, `cpu`,
`parked`, `sleeping`, `fin` with its work lists), every shared table another (`askWaits`,
`signals`, `registered`, `revoked`, `monitors`, `links`). `fin[f].pc` walks through
`finalize_one` one table at a time, and `extract[k]` through `extract_for_kill`, for the
embedder's thread and for each finalizer. Inboxes are reduced to what matters here: they do
not fill, so nobody is in WAITING_SEND and `close` has nothing to drain. A program may do
any operation its constants allow at any time: `Holds`, `Watches`, `Ties` say whose Caps a
flow was given, and with which rights.

`Supervisor` is the supervisor with the names it binds its children to. Flows are the
incarnations of its children, and `state` says how far one has got: live, dying, gone from
the directory (`unregistered`), gone from the registry (`nameless`), exit notified (`ended`).
`rows` and `expected` are the child table, `events` the exit queue, `cascade` the one slot
for a cascade, `recent` and `exceeded` the restart window, `names` the registry. `drive` and
`spawning` are the positions of the drive thread and of the two threads that may be inside
`spawn_child`, which holds the table's mutex (`TableFree`); `reaping` is the flow a thread
finalizes itself inside `request_kill`. `refused`, `retired` and `overwritten` are history.

| Action | Code |
|---|---|
| `StartChild`, `RestartNext`; `RegisterName`, `InsertRow`, `RefuseChild`, `LeaveRefused` | `spawn_child`: the spawn, the name, the row or the refusal |
| `Exit`, `Die`, `Unregister`, `UnregisterFlow`, `Notify` | a child's end, as far as the supervisor sees it |
| `IgnoreExit`, `ExpectedExit`, `FinalExit`, `TooManyRestarts`, `RestartOne`, `StartCascade` | the outcomes of `handle_exit` |
| `KillNext`, `Prune`, `EndRestarts` | the rest of `start_cascade` and of `finish_cascade` |
| `LeaveWindow`, `Shutdown` | time passes; `Supervisor::shutdown` |

`Capability` is the Cap table with everyone who mints, narrows, presents or revokes. `entries`,
`cells` and `bound`, `replyIndex` are the fields of `CapTableInner`, `names` the registry, `dir`
the directory. A Cap carries, besides target, rights and epoch, the rights of the root it
descends from; only `root` is not in the code. Every flow, and the host's thread, is in the
middle of at most one operation, and `op` says before which critical section: `life` walks
a flow through spawn, publication, and the three steps of its end that other parties can see.

| Action | Code |
|---|---|
| `SelfPid`, `Delegate`, `Send`, `StampReply`, `Spawn` | the arms of `drive_process` up to their first insertion |
| `BindTarget`, `Narrow`, `InsertCap` | `CapTable::mint`, `attenuate`, `grant`: the sections an operation goes through |
| `RegisterName`, `Whereis`, `WhereisLive`, `WhereisMint` | names: the Cap check and the entry; the lookup, the directory, the mint |
| `Relate`, `CheckRelation`, `CreateRelation` | Monitor and Link: the Cap, the directory, the table |
| `HostSpawn`, `Publish`, `HostGrant`, `HostReissue`, `MintAdmin`, `HostRegister`, `RequireLive`, `HostName`, `UnregisterName` | the embedder's calls in `runtime.rs` |
| `RevokeFlow`, `Unregister`, `Sweep` | `finalize_one` |

`Handle` is an abstract specification of what a `FlowHandle` promises: a flow's outcome is
settled at most once, exactly one collector gets it, a bounded join may give up, and a caller
who waits for a settled flow is answered. `Join` is what keeps that promise: the oneshot
(`slot`, the threads asleep on its condition variable, the notification still `owed`),
the places a flow can be in while nobody runs it, the worker and timer threads, and the order
in which `Runtime::shutdown`, `Drop` and the last `Arc<Shared>` take everything down. `Contract`
is the refinement mapping: the slot is the outcome, and a caller inside `join_deadline` or
`wait_forever`, asleep or awake, is waiting. The run `join` checks `Contract!HandleSpec`, fairness
included.

| Action | Code |
|---|---|
| `Poll`, `JoinNow`, `Collect`, `Spurious`, `Expire` | `try_join`, `join_timeout`, `join`, one turn of their loops, a wake-up for no reason, the deadline |
| `FindWork`, `DriveTop`, `Completes`, `Suspends`, `Continues`, `WakeParked`, `Notify`, `DropSender` | the worker's loop and what a quantum ends with; the two halves of `Sender::send`; `Drop for Sender` |
| `TimerTop`, `TimerActs`, `TimerTimeout` | `TimerWheel::drive`: flag, heap, wait with a bound |
| `Spawn`, `RequestShutdown`, `FlagTimer`, `NotifyTimer`, `JoinThreads`, `DropSpawner`, `DropShared` | the embedder |

`Bytecode`, `Assembler` and `Machine` follow a program from its first constant to its
last instruction. `Bytecode` defines chunks, the verifier (`Verify`), and the file format: `Encode`
and `Decode` work on one token per scalar, so that a file can end in the middle of an
instruction. `Assembler` is the builder (`Const`, `BeginFunction`, `Emit`, `EmitLocal`,
`EmitToLabel`, `BindLabel`, `Finish`) and the two ways into a runtime, `LoadBuilt` and
`LoadFile`, the latter from a file that may be cut short, trusted or not. `Machine` EXTENDS it
with one flow that runs the chunk: one action per group of opcodes (`StepLoad`, `StepBinop`,
`StepCall`, ...), the worker's steps around `Vm::run` (`BeginSlice`, `EndSlice`,
`ChargeHop`, `Deliver`, `Resume`, `EffectFails`), the send bucket's refill as a load and a store
(`RefillLoad`, `RefillStore`), and the host's top-ups between any two of them. `built`, `meant`,
`executed`, `sent` and the two `granted` variables are observers.

`MCMailbox`, `MCLifecycle`, `MCSupervisor`, `MCCapability`, `MCJoin` and `MCMachine` give the
constants their values. The theorems about a module are in its own `...Proofs` module (those
about `Bytecode` in `FormatProofs`, those about `Assembler` and `Machine` in `MachineProofs`), and
what several of them need in `DataLemmas`. Operators whose comment begins with "Mutant" are plausible bugs of
the operator that follows them; no specification uses them. They are substituted for the
original one at a time, to show that each property notices the bug it is about.

## 3. Runs

| Run | Question | Answer |
|---|---|---|
| `mailbox` | one inbox under each overflow policy: do receiving, asking, sending, WAITING_SEND, timed waits, DOWN hops, kills, and the ends of the owner and of the flow it asks interfere? | charge, bounds, order, wakeups and the one place of each flow hold; an asker is indexed, a timed wait has its deadline; hops and deadlines end the wait they are for |
| `lifecycle` | a client and a server, with asks, monitor, link, sleep, kill | one place per flow, DOWN only after the end, linked peers die |
| `lifecycle_live` | what must eventually happen when a flow ends | askers in the index wake, monitors fire, joiners get an outcome |
| `supervisor` | three strategies, children that exit at any moment, a name, the limit | rows and children agree, cascades can end, the limit is final; a child is lost only to a taken name or an overwritten cascade |
| `caps` | spawns, delegation, replies, names, relations and revocation, one critical section at a time | rights only shrink along any chain; a reply address is never void; a flow that is out of reach stays so |
| `join` | two joiners of one flow, a worker, the timer, shutdown and drop | the oneshot implements `Handle`; a flow is in one place; joiners are answered, except for a flow parked in its own mailbox; shutdown returns |
| `bytecode` | what the verifier, the format, the builder and the quotas promise | no missing constant or function at run time; loaded means built; a flow stays within what it was granted; jumps land |
| `mailbox_stranded`, `wrong_wait`, `stuck_asker`, `lost_suffix`, `parked_joiner` | do seven sentences of the docs and comments hold? | no, section 6 |

The properties and the code behind them are described at their definitions.

**Bounds.** `mailbox`: two places and three bytes, and hops of one, two and four bytes, so that
either limit refuses and one hop never fits. Under Reject one flow sends two hops and another one,
so that a sender waits behind another and one has two hops under way; under DropNewest the host
sends too, and under DropOldest a DOWN takes the queue over its limits while evictions drop several
hops. The owner receives anything, or selects by tag and request id, or asks. Two parks give a
stale deadline or notice a later wait to hit. One register is
enough for everything but the register a value goes to, which the proof covers for any number;
`wrong_wait` has two, with one sender and a one-place inbox.
`lifecycle`: one client, one server, one Ask each way it can end (reply, timeout, exit
notice), one monitor, one link, one kill; `lifecycle_live` drops timeouts, sleep and the
kill, which add states and no new way to wait; `stuck_asker` lets the host kill the client.
Two flows are enough for every race the findings are about: each is between one flow and one other party. What two flows do not
show is a chain of links longer than one and an asker with several targets.
`supervisor`: two exits of their own among three children (two under OneForAll, whose
cascades take everybody), a limit of one restart: a second exit falls before, into and after
the first one's cascade, and hits the limit or, when the window has moved on, starts a second
cascade. One child has a name. `lost_suffix` is the same under RestForOne alone, with two restarts
allowed. Nine flows are all that two cascades of three can need.
`caps`: three flows, three insertions into the table, five operations, a limit of two flows:
enough for a child that is spawned while its parent's Cap is being revoked, a Cap narrowed
twice, and two spawns that both read the directory below the limit. Whoever asks for rights
asks for more than it has. The flows are interchangeable (`SYMMETRY`); all the properties
checked with it are safety properties.
`join`: both joiners use one handle, so that one `notify_one` must serve two waiters; the
other flow keeps the worker, the timer or the injector busy during the shutdown.
`bytecode`: modules of up to three instructions and one constant from five families (arithmetic,
control, memory, hops, other requests), integers of three bits so that they wrap, register
files of at most three, a call depth of two, slices of two instructions out of a budget of
five, and one top-up, possibly negative, at any time. The largest tag is 1, so that tags
above it, below zero and of another type are all met.
`CHECK_DEADLOCK FALSE` in all runs: a system whose flows have all ended, or which waits for
hops nobody sends, has stopped rightfully; what must not stop is stated as liveness.

**Fairness.** Only `Lifecycle` and `Join` are checked for liveness. Weak fairness of what threads
do by themselves: a worker takes a runnable flow and goes on with the handler it is in, the timer thread fires due entries, a
finalizer or killer goes on with its next critical section. Workers and the timer loop for
ever and wake at least every 50 ms and 250 ms even if a notification is missed, and no
handler waits for another one. No fairness on programs: a flow may compute, receive, answer
or end, or never do so. Each critical section is short and its mutex is not held across
another wait, so weak fairness suffices. `Join` also assumes that a wait with a bound ends and
that the thread inside `shutdown` or the drop of a `Runtime` goes on with it. Nothing
obliges the embedder to shut down or to let go of a spawner, a flow to finish, or anybody to
send to a parked flow. That a timed wait ends is stated as an invariant of `Mailbox`: a deadline of
the wait is armed or about to be, so that a timer thread that keeps running ends it.

## 4. Proofs

TLAPS checks every proof of the eight modules below. All invariants and action properties that
a passing run checks are also theorems, for every value of the constants that satisfies the
assumptions: any number of flows, threads and names, any bound, any program.

| Module | Theorem | States |
|---|---|---|
| `MailboxProofs` | `TypeCorrect`, `FlowsInOnePlace`, `NobodyLeftBehind`, `NoWakeupLost`, `DeliveredInOrder`, `ChargeNeverDrifts`, `BoundsHold` | `[]` of `TypeOK`, `FlowInOnePlace`, `NobodyWaitsOnClosed`, `NoLostWakeup`, `InOrderOnce`, `ChargeIsExact`, `WithinBounds` |
| | `AskersIndexed`, `TimedWaitsAreArmed` | `[]` of `AskerIsIndexed`, `TimedWaitIsArmed` |
| | `WakesBelong` | `HopOrDeadlineFitsWait` |
| `LifecycleProofs` | `TypeCorrect`, `FlowsAreInOnePlace`, `DownIsNews`, `PeersAreKilled` | `[]` of `TypeOK`, `OnePlace`, `DownAfterGone`, `LinkedPeerIsKilled` |
| | `EndIsFinal` | a flow that ended stays ended, revoked and out of the directory |
| `SupervisorProofs` | `TypeCorrect`, `TableAgrees`, `CascadesCanEnd`, `ChildrenAreAccountedFor` | `[]` of `TypeOK`, `RowsAreUnhandled`, `CascadeCanEnd`, `DroppedForAReason` |
| | `NoRestartPastTheLimit` | `LimitIsFinal` |
| `CapabilityProofs` | `TypeCorrect`, `RightsNeverGrow`, `ReplyAddressesHold` | `[]` of `TypeOK`, `NoAmplification`, `ReplyAddressIsStable` |
| | `OvershootHolds` | by how much concurrent spawns can pass `max_flows` at most (`OvershootBounded`; that they can is disagreement 8 in section 6) |
| | `GoneStaysGone` | `GoneIsForever` |
| `JoinProofs` | `TypeCorrect`, `FlowsRunOnce` | `[]` of `TypeOK`, `RunsOnce` |
| | `ImplementsHandle` | `Contract!HandleSafety`: the refinement of `Handle` without its fairness |
| `FormatProofs` | `RoundTrip` | `Decode` of a cut `Encode(ch)` is refused or is `ch` |
| `MachineProofs` | `MachineTypeCorrect`, `VerifiedHolds`, `LoadedAsBuilt`, `QuotaHolds` | `[]` of `TypeOK`, `VerifiedIsSafe`, `LoadedIsBuilt`, `WithinQuota` |
| | `LabelsHold` | `LabelsLand` |

`DataLemmas` holds what they share: what `Append`, `RemoveAt`, `SubSeq`, `InsertAt` and
concatenation do to the elements of a sequence; that a set of naturals which holds 0 and
successors holds them all, and the like for the subsets of a finite set, both from the
well-foundedness of `<`; and from these what `SumFunctionOnSet` of the community modules computes
(empty sum, one index more, disjoint index sets, renamed indices, monotonicity).

### Assumptions

They are the named ASSUMEs of the models, which TLC evaluates on every run.

- `QueueAssumption`, `SourcesAssumption`, `MailboxAssumption`: limits are positive, a hop costs
  at least one unit, host, system and senders are different, there is a register; the filter of
  an Ask names one of the senders and is none of the filters a Receive uses.
- `LifecycleAssumption`, `SupervisorAssumption`, `JoinAssumption`: the constants have their types;
  the host is no flow; a worker is not the name of a queue.
- `CapAssumption`: there are finitely many flows (the limit counts them), the host and the
  scheduler are none of them, and what a program asks for is a set of rights.
- `AssemblerAssumption`, `ValueAssumption`: programs, constants, results of natives and
  arguments have the types of `Instruction`, `Value` and `FunctionDef`; an integer is in its
  width; heap arguments of a spawn that are the same `Arc` are the same value, and are not an `Arc`
  of the pool. `WidthAssumption` says of powers of two what the provers do not know:
  2^n is twice 2^(n-1).
- `MachineAssumption`: budgets, bounds and the largest tag are naturals, the depth and the quantum
  positive.

### Arguments

*Mailbox.* `TypeOK` is not inductive alone: that an admitted waiter's hop is a hop needs
to know that whoever is in `waitingSenders` is in state "waiting" with a hop in its hands,
which is `FlowInOnePlace`; and that in turn needs that nobody waits on a closed inbox. The
inductive invariant `PlaceInv` is the conjunction of the three, proved action by action
(`TypeStep`, `WaitersStep`, `OwnerStep`, `ClosedStep`). `NoLostWakeup` is inductive on top
of it: a push that does not hand over does not match, a park installs a filter that has just
missed, and removals cannot create a match (`NoMatchKept`). `HopOrDeadlineFitsWait` needs two
more facts (`WakeInv`): `FilterIntact`, the parked filter is the one the current Receive or Ask
waits with, and `DeadlinesOwned`, a deadline of the current epoch, armed, on its way or with a
worker that has yet to look at the target of an Ask, belongs to the current wait and register and
only exists if that wait has a timeout. With it `TimedWaitIsArmed` is inductive: a deadline of the
current epoch that fires takes the flow, and one that is stale is of another epoch.
`AskerIsIndexed` needs `IndexInv`, the same from the moment `park_ask` has made the entry.
`InOrderOnce` needs `Numbered`, no number beyond those handed out is in use, and
`NoLostWakeup`: a hop that is handed to a parked owner goes past the queue, and overtakes none
of its own source and class because a queued one would have matched the same filter. The charge
(`Charged`) is a sum over the positions of the queue; each of take, eviction, append and
forced push moves one part of it, by the lemmas on sums.

*Lifecycle.* `LifeInv` = `TypeOK`, `OpInv` (a worker has the operands it resolved), `FinInv` (the
order of the steps of `finalize_one`), `WorkInv` (no flow on two work lists), `PlaceInv` (`OnePlace`
without counting), `DownAfterGone` and `LinkInv`. The last is what makes `LinkedPeerIsKilled`
inductive: a link that is in no table and was not withdrawn was taken out by a side that ended, and
if that end was abnormal the other side is gone, signalled, or still on that finalizer's list.

*Supervisor.* `SupInv` = `TypeOK`, `TableInv`, `SpawnInv`, `RowsAreUnhandled`, `CascadeInv`,
`ChildrenInv`. `SpawnInv` carries the mutex: while a thread is inside `spawn_child` the exit of
what it spawns is not handled, so the row it inserts is not late. `ChildrenInv` says who answers for
every child at every moment; `DroppedForAReason` is what is left of it when nothing is under way.

*Capability.* `CapInv` = the table (`CellsInv`, `EntriesInv`, the reply index), the flows and
operations (`FlowInv`: only a running flow has one, and the child of a spawn under way is not in
the directory), `RightsInv`, `RestInv` and `AdmissionInv`. `OvershootBounded` is not inductive, as two
halves of a spawn are apart: `AdmissionInv` says of every set Q of spawns under way that if all of
Q succeeded, the directory would be larger than the limit by less than its number of
different parents. `GoneIsForever` is an action property from `CapInv`.

*Join.* `JoinInv` = `TypeOK`, `HeldOnce` (a flow is held exactly if some worker has it, one at
most, and gone exactly if its slot was written) and `LateHasDeadline`. Under it every action
maps to one action of `Handle` or to a stutter, which is shown action by action.

*Bytecode.* A table is a count and its pieces. The piece of each item stands in the file where
the items before it end (induction on the number of items), and a reader at that position reads
the item or, if the file ends before the piece does, refuses, and a refusal stays one. The three
tables one after the other give `RoundTrip`. The recursive functions of `Encode` and `Decode` are
shown to exist first, for every length.

*Machine.* `MachInv` = `AsmInv`, `StackInv`, `ResultInv`, `HeldInv`, `QuotaInv`. `AsmInv`: the chunk
is well formed, the jumps that wait for their label are jumps, the patched ones have the
offset of their target, what is loaded is what was built (by `RoundTrip`) and passes
`Verify`. `StackInv`: every counter is in the code or one past its end, and every register holds a
value the flow can have come by (`Allowed`): of its width, without authority from an untrusted
pool, and with an id that tells where it is from. `ResultInv`: what a stopped slice reports is what
the rest of the worker expects of it, and of the faults only Mod gives "invariant". `HeldInv`: the charge covers the heap values
of all registers, each once. That is not a sum over registers: Move and Call copy an `Arc`
without a charge, and a store is free if the register already has that very one. It holds because
two values with the same id are one value (`OneEach`), which is why the ids are part of the
invariant. `QuotaInv`: `executed + left` never passes what was granted although a slice
is paid at its end, and a refill stores no more than there was. `LabelsLand` follows from `AsmInv` and
`StackInv` at the one instruction it is about.

The proofs led to one change of the models: `StoreFault`, `StepStop`, `BinopFault`, `BinopResults`,
`CallFault`, `NativeFault` and `Patched` had been CASE expressions with overlapping guards, of
which TLA+ says that any true one may be chosen while TLC takes the first. They are IF chains
in the order of the code now; the state space is the same.

### Only model-checked

`OrphansWake`, `MonitorFires`, `EndsWithOutcome`, `JoinerAnswered`,
`ShutdownReturns` and the fairness part of `KeepsContract` are liveness under fairness, which
the installed provers do not handle. That a file that was not cut is accepted is not proved
(`RoundTrip` says what is read if it is): the run `bytecode` reaches it.

## 5. Abstractions

- Poisoned mutexes and failed allocations (`reserve_for_push`) are left out: the code
  reports a fault and gives up the operation.
- Reading the clock: a deadline may fire at any time after it is armed.
- The run queues are a set; which worker runs a flow does not matter to any property.
- `Lifecycle` keeps a link as a pair; the code's link ids only tell two links of the same
  pair apart, which it refuses to create.
- A Cap is `<<holder, target>>` in `Lifecycle`; it stops resolving when the target's
  `revoke_flow` runs.
- `Supervisor` does not ask where a live child is: `request_kill` may find it parked, and
  end it, or leave it a signal. The signal may stay unread (disagreement 4 of section 6), in which case a
  cascade waits for ever; this is why no liveness is claimed of cascades.
- `spawn_linked` does not fail in `Supervisor` (its errors are the flow limit, off by default,
  and arguments that the first start would have refused too).
- `Capability`: the random 128-bit ids are numbers, never reused. Native masks are left out, as no
  Cap that the table holds carries the right they refine. Names have no text.
- `Join`: the workers' condition variable has a bound of 50 ms, so its notifications are left out.
  The step that writes a slot and the step that notifies are apart, and the thread that owes the
  notification may do other things first (`owed`), which allows more than the code does.
- `Bytecode`: one token per scalar, whatever its width; the limits on the size of tables and the
  depth of nested values are left out, and a constant is its kind and a number. The builder takes
  its constants first, which commutes with everything else it does. The opcode and tag bytes are
  one table each, read in both directions (`AsU8` and `FromU8`, `TagOf` and `KindOf`), where the code
  has hand-written tables for each direction (`opcode.rs:184-231`, `format.rs:143-318`): they
  agree by reading, and the runs test the structure of the file. MAX_ITEMS, MAX_BLOB and MAX_NAME
  only add refusals, of files far larger than any bound here.
- `Machine`: floats are not computed, any float may result, and Eq of two strings, byte strings,
  Caps or messages may go either way, as their contents are not kept. An effect is answered with any value
  of its kind or fails; who answers is the business of the other modules. Of the two token
  buckets the one for sends is kept. Only programs without the JIT are run.
- The modules are not composed into one: each keeps the part of a worker's handler that touches
  its state, and abstracts the rest to what it can observe of it.

## 6. Where code and documents disagree

Seven sentences are refuted by a run whose counterexample TLC prints. Two of the runs refute two
sentences with one trace: their property would hold if either sentence did.

1. *A sender beside a free slot* (`mailbox_stranded`). "Each successful pop admits one
   waiter" (`docs/mailbox.md`), but the refusal and the park of a sender are two critical
   sections. If the owner pops in between and then parks on its empty inbox, nothing admits
   the sender: admission happens only after a pop, and there is nothing to pop.
2. *An exit notice for the wrong wait* (`wrong_wait`). "Never wake whoever is parked"
   (`docs/mailbox.md`, hard rule 6), and it is an *Ask* "parked for a reply" that is "taken off its
   mailbox and resumed" (`docs/lifecycle.md`). `wake_orphaned_asks` and the end of `park_ask`
   (`worker.rs:965`) take the parked flow without the epoch of the wait they mean: an asker that
   was answered and waits in a later Receive is resumed with the exit of the flow it asked before.
3. *An Ask that hangs* (`stuck_asker`). "This is not a hang" (`docs/lifecycle.md`), but the
   waiters are collected before the target leaves the directory. An Ask that is indexed and
   parked in between is not in the list and finds the target in the directory.
4. *A kill without effect* (`stuck_asker`). "Parked flows finalize immediately; a running
   flow dies at the next quantum" (`Runtime::kill`), but a flow that is running when the
   killer looks for it in its mailbox, and parks afterwards, has no next quantum until
   somebody else wakes it. In the trace it is the asker of 3.
5. *A suffix that is not restarted* (`lost_suffix`). Under RestForOne "that suffix (failed + later)
   is started again" (`RestartStrategy`), but there is one slot for a cascade: when another child
   exits while a cascade waits for its siblings, the second cascade overwrites the first, whose
   failed child is in no table any more.
6. *A named child that does not come back* (`lost_suffix`). A child's name is "swept on
   exit, re-bound on restart" (`ChildSpec`), but `spawn_child` makes the child runnable and
   registers the name afterwards. A child that ends in between, as one that traps at once
   may, has its name registered after the sweep. The name stays bound to a dead flow, every
   restart is refused with `NameTaken`, and the result is dropped.
7. *A joiner of a parked flow* (`parked_joiner`). When the runtime shuts down while a flow "is parked
   in its mailbox", its Sender is dropped, which wakes the joiner with `Abandoned`, and `join`
   "Never blocks on a value that can no longer arrive" (`oneshot.rs`). A parked flow is owned by its
   mailbox and owns an `Arc` of it (`process.rs:81`): neither is ever dropped, and who joins
   without a deadline waits for ever. `JoinerAnswered` states what does hold.

The next are stated in the modules, with their quotation, as definitions that no run checks; named
as an INVARIANT or PROPERTY in the cfg of the module's passing run, TLC refutes them at once.

8. *`max_flows`* is a "Hard cap on concurrently live flows" (`runtime.rs:44`), but it is compared in
   one step and the flow registered in another: n concurrent spawns can exceed it by n - 1 (`HardCap`
   in `Capability`; `OvershootHolds` proves that it is by no more).
9. *"a dead flow's Caps stop resolving"* (`docs/lifecycle.md`). `revoke_flow` removes the epoch cell
   together with the entries; an operation that is past its liveness check then binds a new cell, at
   epoch 0, and mints a Cap that the table resolves (`DeadCapsStopResolving` in `Capability`).
   `GoneIsForever` is stated for flows that no such operation is under way for.
10. *"When `target` exits, `owner` receives an Atomic Hop"* (`docs/lifecycle.md`), but the Monitor and
    Link arms of `drive_process` check the Cap in one step and create the relation in another, without
    the second look that `Runtime::monitor` takes: a target finalized in between leaves a monitor
    that never fires (`RelationsCanFire` in `Capability`).
11. *"the whole set is started again"* (OneForAll). A row whose flow was pruned from a cascade, and
    whose exit is not handled yet, is collected once more by the next cascade, which then starts
    that child twice (`SetIsStartedOnce` in `Supervisor`; with two restarts allowed).
12. *"A fault must not lie about which index or which category failed"* (`docs/vm-safety.md`). A Mod of
    anything but two integers ends as `Fault::Invariant` (`machine.rs:304`), which is kept for "A
    broken VM assumption" (`FaultIsHonest` in `Machine`).
13. *"control fell off the end of the function body"* is "treated as an implicit `Return Unit`"
    (`machine.rs:255`), but only the end of the code ends a frame: a function without Return runs on
    into the next one (`EndOfBodyReturns` in `Machine`).

The last have neither a run nor a definition. For most of them no document says otherwise.

- *A refused heap charge on Return* is reported as a register out of range (`machine.rs:838`).
- *Host monitors.* `Runtime::monitor` checks the target again after creating the monitor and sends
  the DOWN itself (`runtime.rs:442`); with the target's end in between, the owner gets two.
- *Cells left behind.* A spawn that fails after `bind_flow` leaves its cell in the Cap table.
- *A supervised flow keeps its runtime*: queued or parked, it holds its supervisor's link, which holds a
  spawner, which holds the shared tables that hold the flow.
- *The timer's notification* is sent without the heap's mutex (`timer.rs:130`) and can be missed;
  `shutdown` then returns only when the timer's wait ends by itself (`ShutdownReturns`).
- *`join_timeout` past the end of the clock* (`oneshot.rs:247`) waits without consuming the handle,
  where `send` notifies one waiter only: a second such waiter is not woken.
- *Quotas.* `TokenBucket::refill` stores what it computed from an earlier load, so that a credit
  in between is lost; and a hop that goes through WAITING_SEND is charged and never
  freed (`worker.rs:417`). Both only make the flow's budget smaller, which is what `WithinQuota` allows.
- *Programs.* `Fn::call` and `Fn::spawn` with arguments take them from registers after the
  destination that nobody allocated, and `Fn::local` hands out register 255 again and again.
  `decode` ignores what follows the last instruction.

## 7. Plan

Order by what the system depends on most; each module with a run of its own.

1. Done: `Mailbox`, `Lifecycle`.
2. Done: `Supervisor`.
3. Done: `Capability`, names included.
4. Done: `Handle` and `Join`, with the timer thread and shutdown.
5. Done: `Bytecode`, `Assembler`, `Machine` with the quotas.
6. Done: proofs of every invariant and action property of the runs, of the safety part of the
   refinement of `Handle`, and of the round trip of the file format.
7. Open: that `Decode` accepts what `Encode` wrote, for every module; host monitors and links in
   `Lifecycle`, and two inboxes that fill each other.

## 8. Not modelled

The JIT (`jit/`, an optional feature) compiles traces to machine code. What can be wrong in it is
in encodings and register allocation, out of a model checker's reach. Two things a reader of the
models should know: with it, instructions run in native code are not charged to the flow's CPU
quota (`jit/dispatch.rs:123`), so `WithinQuota` speaks of the interpreter only; and
`JitRuntime::reload` replaces the image and clears the trace cache in separate critical
sections (`jit/runtime.rs:47`), so that a trace of the old image may be inserted after the clear.

Samples, the native library, the disassembler, the command line (but for its loading of a
module) and the metrics have no control of their own. Of the runtime's API the host's monitors and
links are left out, which repeat what `Lifecycle` and `Capability` have for flows.
