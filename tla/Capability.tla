----------------------------- MODULE Capability -----------------------------
(***************************************************************************)
(* The capability table, the name registry and the operations that read a  *)
(* Cap in one critical section and act on it in another.                   *)
(*                                                                         *)
(* A flow runs one operation at a time (op[f]); the host thread runs one   *)
(* (op[Host]).  An operation is a chain of steps, one per critical section *)
(* of CapTable, Directory or RegistryStore, and between two of them any    *)
(* other flow may be finalized.  Nobody but its own worker finalizes a     *)
(* flow that is running, so a step that only touches the running flow's    *)
(* own cell is one action.  The random 128-bit CapIds are the numbers      *)
(* 1..MaxCaps in the order of insertion: never reused.                     *)
(***************************************************************************)
EXTENDS Naturals, FiniteSets

CONSTANTS
    Flows,      \* FlowIds, each used once (next_flow_id is monotonic)
    Host,       \* the embedder's thread
    Scheduler,  \* the target of an ADMIN Cap
    Names,      \* registered names
    Wants,      \* the sets of rights a Delegate or a Spawn may ask for
    MaxFlows,   \* Shared.max_flows; 0 means no limit
    MaxCaps,    \* bound: insertions into the table
    MaxOps      \* bound: operations started by the flows and the host

Addressing == {"SEND", "ASK", "LINK", "MONITOR"}
FlowRights == {"SEND", "ASK", "RECV", "SPAWN", "LINK", "MONITOR", "NATIVE"}
AllRights == FlowRights \cup {"ADMIN"}

ASSUME CapAssumption ==
    /\ IsFiniteSet(Flows)
    /\ Host \notin Flows /\ Scheduler \notin Flows \cup {Host}
    /\ Wants \subseteq SUBSET AllRights
    /\ MaxFlows \in Nat /\ MaxCaps \in Nat /\ MaxOps \in Nat

VARIABLES
    entries,    \* CapTableInner.entries: CapId -> Capability, or NoEntry
    used,       \* how many ids have been handed out
    cells,      \* per flow, the epochs of the RevocationCells made for it
    bound,      \* CapTableInner.flow_cells: which of them is in the table, 0 if none
    replyIndex, \* CapTableInner.reply_index: <<holder, target>> -> CapId, 0 if none
    names,      \* Registry.by_name: name -> flow, or NoFlow
    dir,        \* the flows in the directory
    life,       \* where a FlowId is between spawn_on and the end of finalize_one
    authority,  \* Flow.authority: the rights of the flow itself
    parent,     \* spawn_on's `parent`: the flow whose bytecode started this one
    relations,  \* monitors and links: <<owner, target>>
    op,         \* the operation each flow and the host is in the middle of
    started     \* how many operations have been started

vars == <<entries, used, cells, bound, replyIndex, names, dir, life,
          authority, parent, relations, op, started>>
tableVars == <<entries, used, cells, bound, replyIndex>>
flowVars == <<dir, life, authority, parent>>

Ids == 1..MaxCaps
NoFlow == Host

(* A Cap: its target, rights and epoch.  `root` is not in the code: it is  *)
(* the rights of the root Cap this one was derived from.                   *)
Caps == [target : Flows \cup {Scheduler}, rights : SUBSET AllRights,
         epoch : Nat, root : SUBSET AllRights]
NoEntry == [holder |-> NoFlow]

Root(t, rights, epoch) ==
    [target |-> t, rights |-> rights, epoch |-> epoch, root |-> rights]

(* Mutant: a delegation hands out what was asked for. *)
AttenuateGrantsWant(cap, want) == [cap EXCEPT !.rights = want]
Attenuate(cap, want) == [cap EXCEPT !.rights = @ \cap want]

Present == {id \in Ids : entries[id] # NoEntry}

(* The epoch of the cell in the table; a Cap of a flow without one is void. *)
IsValid(cap) ==
    \/ cap.target = Scheduler
    \/ /\ bound[cap.target] # 0
       /\ cells[cap.target][bound[cap.target]] = cap.epoch

(* CapTable::resolve: the entry, if this holder may use it for this. *)
Resolves(id, holder, need) ==
    /\ id \in Present
    /\ entries[id].holder = holder
    /\ need \subseteq entries[id].cap.rights
    /\ IsValid(entries[id].cap)

(* bind_flow: the cell in the table, made at epoch 0 when there is none. *)
BoundCell(t) == IF bound[t] = 0 THEN Cardinality(DOMAIN cells[t]) + 1 ELSE bound[t]
EpochOf(t) == IF bound[t] = 0 THEN 0 ELSE cells[t][bound[t]]
BindFlow(t) ==
    /\ bound' = [bound EXCEPT ![t] = BoundCell(t)]
    /\ cells' = [cells EXCEPT ![t] =
                    [i \in DOMAIN @ \cup {BoundCell(t)} |->
                        IF i \in DOMAIN @ THEN @[i] ELSE 0]]

(* insert_fresh *)
Insert(holder, cap) ==
    /\ used < MaxCaps
    /\ used' = used + 1
    /\ entries' = [entries EXCEPT ![used + 1] = [holder |-> holder, cap |-> cap]]

-----------------------------------------------------------------------------
(* Operations in progress.                                                 *)

Idle == [at |-> "idle"]

(* The next thing after Cap `cap` is in the table for `to`: carry on. *)
InsertOp(cap, to, then) == [at |-> "insert", cap |-> cap, to |-> to, then |-> then]
NarrowOp(cap, want, to, then) ==
    [at |-> "narrow", cap |-> cap, want |-> want, to |-> to, then |-> then]

(* finish_failed: the flow's worker finalizes it; a host call just returns. *)
Fails(x) ==
    /\ op' = [op EXCEPT ![x] = Idle]
    /\ life' = IF x = Host THEN life ELSE [life EXCEPT ![x] = "exiting"]
    /\ UNCHANGED <<dir, authority, parent>>

Goes(x, next) ==
    /\ op' = [op EXCEPT ![x] = next]
    /\ UNCHANGED flowVars

(* Flow f runs, or the host does, and is about to start an operation. *)
Starts(x) ==
    /\ op[x] = Idle
    /\ x # Host => life[x] = "live"
    /\ started < MaxOps
    /\ started' = started + 1

Init ==
    /\ entries = [id \in Ids |-> NoEntry]
    /\ used = 0
    /\ cells = [f \in Flows |-> <<>>]
    /\ bound = [f \in Flows |-> 0]
    /\ replyIndex = [p \in Flows \X Flows |-> 0]
    /\ names = [n \in Names |-> NoFlow]
    /\ dir = {}
    /\ life = [f \in Flows |-> "unborn"]
    /\ authority = [f \in Flows |-> {}]
    /\ parent = [f \in Flows |-> NoFlow]
    /\ relations = {}
    /\ op = [x \in Flows \cup {Host} |-> Idle]
    /\ started = 0

-----------------------------------------------------------------------------
(* Steps shared by several operations.                                     *)

(* attenuate after its resolve: the cell is fetched again, and the Cap     *)
(* must still be of its epoch.                                             *)
Narrow(x) ==
    /\ op[x].at = "narrow"
    /\ IF op[x].cap.target # Scheduler /\ IsValid(op[x].cap)
       THEN Goes(x, InsertOp(Attenuate(op[x].cap, op[x].want), op[x].to, op[x].then))
       ELSE Fails(x)
    /\ UNCHANGED <<tableVars, names, relations, started>>

(* The last critical section of mint, attenuate and reissue_for. *)
InsertCap(x) ==
    /\ op[x].at = "insert"
    /\ Insert(op[x].to, op[x].cap)
    /\ Goes(x, op[x].then)
    /\ UNCHANGED <<cells, bound, replyIndex, names, relations, started>>

(* The first critical section of mint. *)
BindTarget(x) ==
    /\ op[x].at = "bind"
    /\ BindFlow(op[x].t)
    /\ Goes(x, InsertOp(Root(op[x].t, Addressing, EpochOf(op[x].t)), op[x].to, Idle))
    /\ UNCHANGED <<entries, used, replyIndex, names, relations, started>>

(* reply_cap_is_live *)
ReplyCapIsLive(holder, target) ==
    LET id == replyIndex[<<holder, target>>] IN
    /\ id # 0
    /\ Resolves(id, holder, {"SEND"})
    /\ entries[id].cap.target = target

(* mint_or_reuse, one critical section *)
MintOrReuse(holder, target) ==
    \/ ReplyCapIsLive(holder, target) /\ UNCHANGED tableVars
    \/ /\ ~ReplyCapIsLive(holder, target)
       /\ BindFlow(target)
       /\ Insert(holder, Root(target, {"SEND"}, EpochOf(target)))
       /\ replyIndex' = [replyIndex EXCEPT ![<<holder, target>>] = used + 1]

-----------------------------------------------------------------------------
(* Bytecode operations.                                                    *)

(* SelfPid *)
SelfPid(f) ==
    /\ Starts(f)
    /\ BindFlow(f)
    /\ Insert(f, Root(f, Addressing, EpochOf(f)))
    /\ UNCHANGED <<replyIndex, names, relations, flowVars, op>>

(* Delegate, without a native Cap: no Cap in the table carries NATIVE, so  *)
(* a want_native_cap never resolves.                                       *)
Delegate(f, id, want) ==
    /\ Starts(f)
    /\ IF Resolves(id, f, {})
       THEN Goes(f, NarrowOp(entries[id].cap, want, f, Idle))
       ELSE Fails(f)
    /\ UNCHANGED <<tableVars, names, relations>>

(* Send and Ask: the target Cap is resolved; a Cap in the payload is       *)
(* delegated to the recipient; then the reply address is minted.           *)
Send(f, id, payload) ==
    LET t == entries[id].cap.target
        reply == [at |-> "reply", t |-> t]
    IN
    /\ Starts(f)
    /\ IF Resolves(id, f, {"SEND"}) /\ t # Scheduler
          /\ (payload # 0 => Resolves(payload, f, {}))
       THEN Goes(f, IF payload = 0 THEN reply
                    ELSE NarrowOp(entries[payload].cap, entries[payload].cap.rights, t, reply))
       ELSE Fails(f)
    /\ UNCHANGED <<tableVars, names, relations>>

(* authenticate_outgoing_message's reply_cap; the hop is then delivered. *)
StampReply(f) ==
    /\ op[f].at = "reply"
    /\ MintOrReuse(op[f].t, f)
    /\ Goes(f, Idle)
    /\ UNCHANGED <<names, relations, started>>

(* RegisterName: a Cap for the flow itself, then its name.  The Cap stays  *)
(* in the table when the name is taken.                                    *)
RegisterName(f, n) ==
    /\ Starts(f)
    /\ IF "SEND" \in authority[f]
       THEN /\ BindFlow(f)
            /\ Insert(f, Root(f, Addressing, EpochOf(f)))
            /\ IF names[n] = NoFlow
               THEN names' = [names EXCEPT ![n] = f] /\ Goes(f, Idle)
               ELSE UNCHANGED names /\ Fails(f)
       ELSE UNCHANGED <<entries, used, cells, bound, names>> /\ Fails(f)
    /\ UNCHANGED <<replyIndex, relations>>

(* Whereis, in three critical sections: the registry, the directory, the   *)
(* Cap table.  An unknown or dead flow answers Unit.                       *)
Whereis(f, n) ==
    /\ Starts(f)
    /\ names[n] # NoFlow
    /\ Goes(f, [at |-> "whereis", t |-> names[n]])
    /\ UNCHANGED <<tableVars, names, relations>>

(* Mutant: the directory is not asked. *)
WhereisLiveUnchecked(f) ==
    /\ op[f].at = "whereis"
    /\ Goes(f, [at |-> "found", t |-> op[f].t])
    /\ UNCHANGED <<tableVars, names, relations, started>>
WhereisLive(f) ==
    /\ op[f].at = "whereis"
    /\ Goes(f, IF op[f].t \in dir THEN [at |-> "found", t |-> op[f].t] ELSE Idle)
    /\ UNCHANGED <<tableVars, names, relations, started>>

WhereisMint(f) ==
    /\ op[f].at = "found"
    /\ MintOrReuse(f, op[f].t)
    /\ Goes(f, Idle)
    /\ UNCHANGED <<names, relations, started>>

(* Monitor and Link: resolve_relation_cap, its second look at the cell,    *)
(* and then the relation.                                                  *)
Relate(f, id, need) ==
    /\ Starts(f)
    /\ IF Resolves(id, f, {need}) /\ entries[id].cap.target # Scheduler
       THEN Goes(f, [at |-> "relate", cap |-> entries[id].cap, t |-> entries[id].cap.target])
       ELSE Fails(f)
    /\ UNCHANGED <<tableVars, names, relations>>

CheckRelation(f) ==
    /\ op[f].at = "relate"
    /\ IF IsValid(op[f].cap) /\ op[f].t # f
       THEN Goes(f, [at |-> "create", t |-> op[f].t])
       ELSE Fails(f)
    /\ UNCHANGED <<tableVars, names, relations, started>>

CreateRelation(f) ==
    /\ op[f].at = "create"
    /\ relations' = relations \cup {<<f, op[f].t>>}
    /\ Goes(f, Idle)
    /\ UNCHANGED <<tableVars, names, started>>

-----------------------------------------------------------------------------
(* spawn_on                                                                *)

HasRoom == MaxFlows = 0 \/ Cardinality(dir) < MaxFlows

(* exec_spawn_authority; a host spawn has the root rights. *)
(* Mutant: the child gets what was asked for. *)
ChildRightsAsAsked(x, want) == IF x = Host THEN FlowRights ELSE want
ChildRights(x, want) == IF x = Host THEN FlowRights ELSE authority[x] \cap want

(* The limit is read, an id drawn, its cell bound and its authority built; *)
(* a Cap among the arguments is then reissued (host) or delegated.  A spawn *)
(* that fails after the draw leaves the cell behind.                       *)
Spawn(x, c, want, arg) ==
    LET publish == [at |-> "publish", t |-> c]
        granted == IF x = Host THEN arg \in Present ELSE Resolves(arg, x, {})
        denied == x # Host /\ "SPAWN" \notin authority[x]
    IN
    /\ life[c] = "unborn"
    /\ IF ~HasRoom
       THEN Fails(x) /\ UNCHANGED <<cells, bound>>
       ELSE /\ BindFlow(c)
            /\ IF denied \/ (arg # 0 /\ ~granted)
               THEN /\ op' = [op EXCEPT ![x] = Idle]
                    /\ life' = [f \in Flows |->
                                  CASE f = c -> "stillborn"
                                    [] f = x -> "exiting"
                                    [] OTHER -> life[f]]
                    /\ UNCHANGED <<dir, authority, parent>>
               ELSE /\ life' = [life EXCEPT ![c] = "starting"]
                    /\ authority' = [authority EXCEPT ![c] = ChildRights(x, want)]
                    /\ parent' = [parent EXCEPT ![c] = x]
                    /\ op' = [op EXCEPT ![x] =
                               CASE arg = 0 -> publish
                                 [] arg # 0 /\ x = Host ->
                                      InsertOp(entries[arg].cap, c, publish)
                                 [] OTHER ->
                                      NarrowOp(entries[arg].cap, entries[arg].cap.rights, c, publish)]
                    /\ UNCHANGED dir
    /\ UNCHANGED <<entries, used, replyIndex, names, relations>>

SpawnOp(f, c, want, arg) == Starts(f) /\ Spawn(f, c, want, arg)
HostSpawn(c, arg) == Starts(Host) /\ Spawn(Host, c, FlowRights, arg)

(* The VM is built (or refuses the function), the flow registered and      *)
(* pushed; the parent then mints an address of the child.                  *)
Publish(x) ==
    /\ op[x].at = "publish"
    /\ \/ /\ dir' = dir \cup {op[x].t}
          /\ life' = [life EXCEPT ![op[x].t] = "live"]
          /\ op' = [op EXCEPT ![x] = IF x = Host THEN Idle
                                     ELSE [at |-> "bind", t |-> op[x].t, to |-> x]]
       \/ /\ life' = [f \in Flows |->
                        CASE f = op[x].t -> "stillborn"
                          [] f = x -> "exiting"
                          [] OTHER -> life[f]]
          /\ op' = [op EXCEPT ![x] = Idle]
          /\ UNCHANGED dir
    /\ UNCHANGED <<tableVars, authority, parent, names, relations, started>>

-----------------------------------------------------------------------------
(* Host calls.                                                             *)

(* mint_cap (holder = target), grant_cap: require_live, then mint. *)
HostGrant(h, t) ==
    /\ Starts(Host)
    /\ h \in dir /\ t \in dir
    /\ Goes(Host, [at |-> "bind", t |-> t, to |-> h])
    /\ UNCHANGED <<tableVars, names, relations>>

(* A payload Cap of Runtime::send: reissue_for, which asks for no epoch. *)
HostReissue(id, h) ==
    /\ Starts(Host)
    /\ id \in Present /\ h \in dir
    /\ Goes(Host, InsertOp(entries[id].cap, h, Idle))
    /\ UNCHANGED <<tableVars, names, relations>>

(* mint_admin_cap *)
MintAdmin(h) ==
    /\ Starts(Host)
    /\ h \in dir
    /\ Goes(Host, InsertOp(Root(Scheduler, {"ADMIN"}, 0), h, Idle))
    /\ UNCHANGED <<tableVars, names, relations>>

(* Runtime::register_name: the Cap's flow, require_live, the registry. *)
HostRegister(id) ==
    /\ Starts(Host)
    /\ id \in Present /\ entries[id].cap.target # Scheduler
    /\ Goes(Host, [at |-> "require", t |-> entries[id].cap.target])
    /\ UNCHANGED <<tableVars, names, relations>>

RequireLive ==
    /\ op[Host].at = "require"
    /\ Goes(Host, IF op[Host].t \in dir THEN [at |-> "name", t |-> op[Host].t] ELSE Idle)
    /\ UNCHANGED <<tableVars, names, relations, started>>

HostName(n) ==
    /\ op[Host].at = "name"
    /\ names' = IF names[n] = NoFlow THEN [names EXCEPT ![n] = op[Host].t] ELSE names
    /\ Goes(Host, Idle)
    /\ UNCHANGED <<tableVars, relations, started>>

UnregisterName(n) ==
    /\ Starts(Host)
    /\ names' = [names EXCEPT ![n] = NoFlow]
    /\ UNCHANGED <<tableVars, flowVars, relations, op>>

-----------------------------------------------------------------------------
(* finalize_one, the part that concerns Caps and names.                    *)

(* A flow that failed in an operation, or that is between two of them and  *)
(* returns, traps or is killed.                                            *)
Ends(f) == life[f] = "exiting" \/ (life[f] = "live" /\ op[f] = Idle)

(* revoke_flow: the epoch is bumped, the cell leaves the table, and every  *)
(* entry and reply address of the flow with it.                            *)
(* Mutant: the reply index is left alone. *)
RevokeKeepsIndex(f) ==
    /\ Ends(f)
    /\ life' = [life EXCEPT ![f] = "revoked"]
    /\ cells' = [cells EXCEPT ![f] = [i \in DOMAIN @ |-> IF i = bound[f] THEN @[i] + 1 ELSE @[i]]]
    /\ bound' = [bound EXCEPT ![f] = 0]
    /\ entries' = [id \in Ids |->
                     IF id \in Present /\ f \in {entries[id].holder, entries[id].cap.target}
                     THEN NoEntry ELSE entries[id]]
    /\ UNCHANGED <<replyIndex, used, names, dir, authority, parent, relations, op, started>>
RevokeFlow(f) ==
    /\ Ends(f)
    /\ life' = [life EXCEPT ![f] = "revoked"]
    /\ cells' = [cells EXCEPT ![f] = [i \in DOMAIN @ |-> IF i = bound[f] THEN @[i] + 1 ELSE @[i]]]
    /\ bound' = [bound EXCEPT ![f] = 0]
    /\ entries' = [id \in Ids |->
                     IF id \in Present /\ f \in {entries[id].holder, entries[id].cap.target}
                     THEN NoEntry ELSE entries[id]]
    /\ replyIndex' = [p \in Flows \X Flows |->
                        IF f \in {p[1], p[2]} THEN 0 ELSE replyIndex[p]]
    /\ UNCHANGED <<used, names, dir, authority, parent, relations, op, started>>

Unregister(f) ==
    /\ life[f] = "revoked"
    /\ life' = [life EXCEPT ![f] = "unregistered"]
    /\ dir' = dir \ {f}
    /\ UNCHANGED <<tableVars, names, authority, parent, relations, op, started>>

(* remove_owned_by, unregister_flow, notify_target_exit, remove_links_of *)
Sweep(f) ==
    /\ life[f] = "unregistered"
    /\ life' = [life EXCEPT ![f] = "dead"]
    /\ names' = [n \in Names |-> IF names[n] = f THEN NoFlow ELSE names[n]]
    /\ relations' = {r \in relations : f \notin {r[1], r[2]}}
    /\ UNCHANGED <<tableVars, dir, authority, parent, op, started>>

-----------------------------------------------------------------------------
FlowStep(f) ==
    \/ SelfPid(f)
    \/ \E id \in Present, want \in Wants : Delegate(f, id, want)
    \/ \E id \in Present, payload \in Present \cup {0} : Send(f, id, payload)
    \/ StampReply(f)
    \/ \E n \in Names : RegisterName(f, n)
    \/ \E n \in Names : Whereis(f, n)
    \/ WhereisLive(f) \/ WhereisMint(f)
    \/ \E id \in Present, need \in {"LINK", "MONITOR"} : Relate(f, id, need)
    \/ CheckRelation(f) \/ CreateRelation(f)
    \/ \E c \in Flows, want \in Wants, arg \in Present \cup {0} : SpawnOp(f, c, want, arg)
    \/ RevokeFlow(f) \/ Unregister(f) \/ Sweep(f)

HostStep ==
    \/ \E c \in Flows, arg \in Present \cup {0} : HostSpawn(c, arg)
    \/ \E h, t \in Flows : HostGrant(h, t)
    \/ \E id \in Present, h \in Flows : HostReissue(id, h)
    \/ \E h \in Flows : MintAdmin(h)
    \/ \E id \in Present : HostRegister(id)
    \/ RequireLive
    \/ \E n \in Names : HostName(n) \/ UnregisterName(n)

Next ==
    \/ \E f \in Flows : FlowStep(f)
    \/ HostStep
    \/ \E x \in Flows \cup {Host} : Narrow(x) \/ InsertCap(x) \/ BindTarget(x) \/ Publish(x)

Spec == Init /\ [][Next]_vars

-----------------------------------------------------------------------------
(* Types: the table holds Caps under ids already handed out, reply_index   *)
(* names such ids, flow_cells a cell that exists, and no flow's authority   *)
(* goes beyond the rights of a flow (ADMIN is for Caps of the scheduler).  *)
TypeOK ==
    /\ \A id \in Ids : \/ entries[id] = NoEntry
                       \/ /\ entries[id].holder \in Flows
                          /\ entries[id].cap \in Caps
    /\ used \in 0..MaxCaps
    /\ \A id \in Present : id <= used
    /\ \A f \in Flows : bound[f] \in {0} \cup DOMAIN cells[f]
    /\ \A p \in Flows \X Flows : replyIndex[p] \in 0..used
    /\ names \in [Names -> Flows \cup {NoFlow}]
    /\ dir \subseteq Flows
    /\ authority \in [Flows -> SUBSET FlowRights]
    /\ relations \subseteq Flows \X Flows
    /\ started \in 0..MaxOps

(* Every Cap in the table, and every Cap about to enter it, carries no     *)
(* right that the root it descends from did not, through any chain of      *)
(* Delegate, payload, spawn argument and reissue; and a flow started by    *)
(* bytecode has no right its parent lacked.                                *)
InFlight == {op[x].cap : x \in {y \in DOMAIN op : op[y].at \in {"narrow", "insert"}}}
NoAmplification ==
    /\ \A cap \in {entries[id].cap : id \in Present} \cup InFlight :
           /\ cap.rights \subseteq cap.root
           /\ cap.target \in Flows => cap.root \subseteq Addressing
           /\ cap.target = Scheduler => cap.root = {"ADMIN"}
    /\ \A x, c \in Flows : parent[c] = x => authority[c] \subseteq authority[x]

(* The reply index never names a Cap that is gone, that somebody else      *)
(* holds, that addresses another flow, or whose epoch has passed: a pair   *)
(* of flows has one reply address, and a hop never stamps a void one.      *)
ReplyAddressIsStable ==
    \A h, t \in Flows : replyIndex[<<h, t>>] # 0 => ReplyCapIsLive(h, t)

(* Nothing can lead to flow t any more: it has no cell, so no Cap of it     *)
(* resolves, no name, no relation, and no operation is past the check that *)
(* t is alive.                                                             *)
Unreachable(t) ==
    /\ life[t] = "dead"
    /\ bound[t] = 0
    /\ \A n \in Names : names[n] # t
    /\ \A r \in relations : r[2] # t
    /\ \A x \in DOMAIN op :
           op[x].at \in {"bind", "found", "name", "create"} => op[x].t # t

(* A flow that has ended and that nobody can reach stays out of reach: no  *)
(* lookup, reply, reissue or late mint makes it addressable again.         *)
GoneIsForever == [][\A t \in Flows : Unreachable(t) => Unreachable(t)']_vars

(* The limit is read in one step and the flow registered in another.  What *)
(* the code does keep: only concurrent spawns pass the limit, so the flows *)
(* over it, and one below it, were each started by somebody else.          *)
OvershootBounded ==
    MaxFlows # 0 /\ Cardinality(dir) > MaxFlows =>
        Cardinality({parent[f] : f \in dir}) > Cardinality(dir) - MaxFlows

-----------------------------------------------------------------------------
(* What the repository says and the code does not do.                      *)

(* RuntimeConfig::max_flows is a hard cap on the flows that are live at a  *)
(* time; a spawn over it answers FlowLimit.  Violated: two spawns read the *)
(* count before either has registered its flow.                            *)
HardCap == MaxFlows # 0 => Cardinality(dir) <= MaxFlows

(* Once finalize_one is done with a flow, no Cap of it resolves, whoever    *)
(* holds it.  Violated: mint and mint_or_reuse bind a new cell for a flow  *)
(* that was alive when they were called and has been revoked since.        *)
DeadCapsStopResolving ==
    \A id \in Present :
        entries[id].cap.target \in {t \in Flows : life[t] = "dead"}
            => ~Resolves(id, entries[id].holder, {})

(* Whoever monitors a flow, or is linked to it, hears of its end.          *)
(* Violated: Monitor and Link check the Cap in one step and write the      *)
(* relation in another, after notify_target_exit and remove_links_of have  *)
(* run; nothing will ever fire or remove it, and the owner is never told.  *)
RelationsCanFire == \A r \in relations : life[r[2]] # "dead"

=============================================================================
