-------------------------- MODULE CapabilityProofs --------------------------
(***************************************************************************)
(* Machine-checked proofs about Capability, for any number of flows, names *)
(* and Caps: no chain of operations amplifies a right, a reply address is  *)
(* never void, a dead flow that cannot be reached stays so, and            *)
(* concurrent spawns pass max_flows by no more than their number.          *)
(***************************************************************************)
EXTENDS Capability, TLAPS, FiniteSetTheorems

Actors == Flows \cup {Host}

(* A Cap with no right its root lacked, and a root the code can mint. *)
GoodCaps ==
    {cap \in Caps : /\ cap.rights \subseteq cap.root
                    /\ cap.target \in Flows => cap.root \subseteq Addressing
                    /\ cap.target = Scheduler => cap.root = {"ADMIN"}}

(* The operations a thread can be in the middle of. *)
Flowing == [at : {"reply", "publish", "whereis", "found", "create", "require", "name"},
            t : Flows]
Thens == {Idle} \cup [at : {"reply", "publish"}, t : Flows]
Ops ==
    {Idle} \cup Flowing
    \cup {o \in [at : {"relate"}, cap : GoodCaps, t : Flows] : o.t = o.cap.target}
    \cup [at : {"bind"}, t : Flows, to : Flows]
    \cup [at : {"insert"}, cap : GoodCaps, to : Flows, then : Thens]
    \cup [at : {"narrow"}, cap : GoodCaps, want : SUBSET AllRights, to : Flows, then : Thens]

(* RevocationCells and flow_cells: a flow's cells are numbered from 1. *)
CellsInv ==
    /\ DOMAIN cells = Flows
    /\ \A f \in Flows : /\ Cardinality(DOMAIN cells[f]) \in Nat
                        /\ DOMAIN cells[f] = 1 .. Cardinality(DOMAIN cells[f])
                        /\ \A i \in DOMAIN cells[f] : cells[f][i] \in Nat
    /\ bound \in [Flows -> Nat]
    /\ \A f \in Flows : bound[f] # 0 => bound[f] \in DOMAIN cells[f]

EntriesInv ==
    /\ used \in 0 .. MaxCaps
    /\ entries \in [Ids -> {NoEntry} \cup [holder : Flows, cap : GoodCaps]]
    /\ \A id \in Ids : entries[id] # NoEntry => id <= used

(* The table: what CapTableInner's maps hold, and how they agree. *)
TableInv ==
    /\ CellsInv
    /\ EntriesInv
    /\ replyIndex \in [Flows \X Flows -> 0 .. used]
    /\ ReplyAddressIsStable

(* The child an operation has yet to publish. *)
Child(o) ==
    IF o.at = "publish" THEN o.t
    ELSE IF o.at \in {"narrow", "insert"} /\ o.then.at = "publish" THEN o.then.t
    ELSE NoFlow

Lives == {"unborn", "starting", "live", "exiting", "revoked", "unregistered", "dead",
          "stillborn"}

(* The flows: an operation is that of a flow that runs, and a FlowId in    *)
(* the directory, or about to enter it, is not that of a flow that ended.  *)
FlowInv ==
    /\ op \in [Actors -> Ops]
    /\ life \in [Flows -> Lives]
    /\ dir \subseteq Flows
    /\ parent \in [Flows -> Actors]
    /\ \A f \in Flows : op[f] # Idle => life[f] = "live"
    /\ \A f \in dir : life[f] \in {"live", "exiting", "revoked"}
    /\ \A x \in Actors : Child(op[x]) \in Flows =>
           life[Child(op[x])] = "starting" /\ parent[Child(op[x])] = x
    /\ \A f \in Flows : parent[f] \in Flows => life[parent[f]] # "unborn"

(* Authority is only ever handed down. *)
RightsInv ==
    /\ authority \in [Flows -> SUBSET FlowRights]
    /\ \A x, c \in Flows : parent[c] = x => authority[c] \subseteq authority[x]

(* The registry, the relations and the bound on operations. *)
RestInv ==
    /\ names \in [Names -> Flows \cup {NoFlow}]
    /\ relations \subseteq Flows \X Flows
    /\ started \in 0 .. MaxOps

(* Admission control: however many of the spawns in progress get through,  *)
(* what goes beyond the limit was started by as many different parents.    *)
Pending == {c \in Flows : Child(op[parent[c]]) = c}
Parents(p, S) == {p[f] : f \in S}
AdmissionInv ==
    MaxFlows # 0 =>
        \A Q \in SUBSET Pending :
            Cardinality(dir \cup Q) < Cardinality(Parents(parent, dir \cup Q)) + MaxFlows

CapInv == TableInv /\ FlowInv /\ RightsInv /\ RestInv /\ AdmissionInv

-----------------------------------------------------------------------------
(* The table.                                                              *)

(* bind_flow makes a cell where there is none, and never touches one that  *)
(* is in the table: the epoch it answers is the one that Caps are checked  *)
(* against afterwards.                                                     *)
LEMMA BindEffect ==
    ASSUME CellsInv, NEW t \in Flows, BindFlow(t)
    PROVE  /\ CellsInv'
           /\ \A f \in Flows : bound[f] # 0 =>
                  /\ bound'[f] = bound[f]
                  /\ cells'[f][bound'[f]] = cells[f][bound[f]]
           /\ \A f \in Flows \ {t} : bound'[f] = bound[f] /\ cells'[f] = cells[f]
           /\ bound'[t] # 0
           /\ cells'[t][bound'[t]] = EpochOf(t)
           /\ EpochOf(t) \in Nat
  <1> DEFINE n == Cardinality(DOMAIN cells[t])
             b == BoundCell(t)
             new == [i \in DOMAIN cells[t] \cup {b} |->
                        IF i \in DOMAIN cells[t] THEN cells[t][i] ELSE 0]
  <1>1. n \in Nat /\ DOMAIN cells[t] = 1 .. n
    BY DEF CellsInv
  <1>2. bound' = [bound EXCEPT ![t] = b] /\ cells' = [cells EXCEPT ![t] = new]
    BY DEF BindFlow
  <1>3. bound[t] \in Nat /\ (bound[t] # 0 => bound[t] \in 1 .. n)
    BY <1>1 DEF CellsInv
  <1>4. b = IF bound[t] = 0 THEN n + 1 ELSE bound[t]
    BY DEF BoundCell
  <1>5. b \in Nat /\ b # 0
    BY <1>1, <1>3, <1>4
  <1>6. \A i \in 1 .. n : cells[t][i] \in Nat
    BY <1>1 DEF CellsInv
  <1>7. \E m \in Nat : DOMAIN new = 1 .. m
    <2>1. CASE bound[t] = 0
      <3>1. (1 .. n) \cup {n + 1} = 1 .. n + 1
        BY <1>1
      <3> QED  BY <1>1, <1>4, <2>1, <3>1
    <2>2. CASE bound[t] # 0
      <3>1. (1 .. n) \cup {b} = 1 .. n
        BY <1>1, <1>3, <1>4, <2>2
      <3> QED  BY <1>1, <3>1
    <2> QED  BY <2>1, <2>2
  <1>8. Cardinality(DOMAIN new) \in Nat /\ DOMAIN new = 1 .. Cardinality(DOMAIN new)
    <2>1. PICK m \in Nat : DOMAIN new = 1 .. m
      BY <1>7
    <2>2. Cardinality(1 .. m) = m
      <3>1. Cardinality(1 .. m) = IF 1 > m THEN 0 ELSE m - 1 + 1
        BY FS_Interval
      <3> QED  BY <3>1
    <2> QED  BY <2>1, <2>2
  <1>9. \A i \in DOMAIN new : new[i] \in Nat
    BY <1>1, <1>6
  <1>10. b \in DOMAIN new /\ new[b] = EpochOf(t) /\ EpochOf(t) \in Nat
    <2>1. CASE bound[t] = 0
      <3>1. n + 1 \notin 1 .. n
        BY <1>1
      <3> QED  BY <1>1, <1>4, <2>1, <3>1 DEF EpochOf
    <2>2. CASE bound[t] # 0
      BY <1>1, <1>3, <1>4, <1>6, <2>2 DEF EpochOf
    <2> QED  BY <2>1, <2>2
  <1>11. bound[t] # 0 => b = bound[t] /\ new[b] = cells[t][bound[t]]
    BY <1>1, <1>3, <1>4
  <1> HIDE DEF n, b, new
  <1>12. DOMAIN cells = Flows /\ bound \in [Flows -> Nat]
    BY DEF CellsInv
  <1>13. /\ bound'[t] = b /\ cells'[t] = new
         /\ \A f \in Flows \ {t} : bound'[f] = bound[f] /\ cells'[f] = cells[f]
         /\ DOMAIN cells' = Flows
         /\ bound' \in [Flows -> Nat]
    BY <1>2, <1>5, <1>12
  <1>14. CellsInv'
    <2>1. ASSUME NEW f \in Flows
          PROVE  /\ Cardinality(DOMAIN cells'[f]) \in Nat
                 /\ DOMAIN cells'[f] = 1 .. Cardinality(DOMAIN cells'[f])
                 /\ \A i \in DOMAIN cells'[f] : cells'[f][i] \in Nat
                 /\ bound'[f] # 0 => bound'[f] \in DOMAIN cells'[f]
      <3>1. CASE f = t
        BY <1>8, <1>9, <1>10, <1>13, <3>1
      <3>2. CASE f # t
        BY <1>13, <3>2 DEF CellsInv
      <3> QED  BY <3>1, <3>2
    <2> QED  BY <1>13, <2>1 DEF CellsInv
  <1> QED  BY <1>5, <1>10, <1>11, <1>13, <1>14

(* What an entry of the table holds. *)
LEMMA EntryType ==
    ASSUME EntriesInv, NEW id \in Ids, entries[id] # NoEntry
    PROVE  /\ entries[id] \in [holder : Flows, cap : GoodCaps]
           /\ entries[id].holder \in Flows
           /\ entries[id].cap \in GoodCaps
  BY DEF EntriesInv

(* insert_fresh uses an id that nothing refers to yet. *)
LEMMA InsertEffect ==
    ASSUME EntriesInv, NEW h \in Flows, NEW cap \in GoodCaps, Insert(h, cap)
    PROVE  /\ EntriesInv'
           /\ used + 1 \in Ids
           /\ entries'[used + 1] = [holder |-> h, cap |-> cap]
           /\ entries'[used + 1] # NoEntry
           /\ \A id \in Ids : entries[id] # NoEntry => entries'[id] = entries[id]
  <1>1. MaxCaps \in Nat /\ Host \notin Flows
    BY CapAssumption
  <1>2. used \in Nat /\ used < MaxCaps /\ used' = used + 1
    BY <1>1 DEF EntriesInv, Insert
  <1>3. used + 1 \in Ids /\ used' \in 0 .. MaxCaps
    BY <1>1, <1>2 DEF Ids
  <1>4. entries' = [entries EXCEPT ![used + 1] = [holder |-> h, cap |-> cap]]
    BY DEF Insert
  <1>5. [holder |-> h, cap |-> cap] # NoEntry
    BY <1>1 DEF NoEntry, NoFlow
  <1>6. [holder |-> h, cap |-> cap] \in [holder : Flows, cap : GoodCaps]
    OBVIOUS
  <1>7. entries'[used + 1] = [holder |-> h, cap |-> cap]
    BY <1>3, <1>4 DEF EntriesInv
  <1>8. \A id \in Ids : id # used + 1 => entries'[id] = entries[id]
    BY <1>4 DEF EntriesInv
  <1>9. \A id \in Ids : entries[id] # NoEntry => id # used + 1
    BY <1>2 DEF EntriesInv, Ids
  <1>10. \A id \in Ids : entries'[id] # NoEntry => id <= used'
    BY <1>2, <1>8 DEF EntriesInv, Ids
  <1>11. entries' \in [Ids -> {NoEntry} \cup [holder : Flows, cap : GoodCaps]]
    BY <1>4, <1>6 DEF EntriesInv
  <1> QED  BY <1>3, <1>5, <1>7, <1>8, <1>9, <1>10, <1>11 DEF EntriesInv

(* Adding to the table voids no reply address. *)
LEMMA ReplyKept ==
    ASSUME EntriesInv, EntriesInv', ReplyAddressIsStable,
           \A f \in Flows : bound[f] # 0 => /\ bound'[f] = bound[f]
                                            /\ cells'[f][bound'[f]] = cells[f][bound[f]],
           \A id \in Ids : entries[id] # NoEntry => entries'[id] = entries[id],
           NEW h \in Flows, NEW t \in Flows,
           replyIndex'[<<h, t>>] = replyIndex[<<h, t>>], replyIndex[<<h, t>>] # 0
    PROVE  ReplyCapIsLive(h, t)'
  <1> DEFINE id == replyIndex[<<h, t>>]
  <1>1. ReplyCapIsLive(h, t)
    BY DEF ReplyAddressIsStable
  <1>2. /\ id \in Ids /\ entries[id] # NoEntry
        /\ entries[id].holder = h
        /\ "SEND" \in entries[id].cap.rights
        /\ IsValid(entries[id].cap)
        /\ entries[id].cap.target = t
    BY <1>1 DEF ReplyCapIsLive, Resolves, Present
  <1>3. entries'[id] = entries[id] /\ entries[id].cap \in GoodCaps
    BY <1>2, EntryType
  <1>4. bound[t] # 0 /\ cells[t][bound[t]] = entries[id].cap.epoch
    BY <1>2, CapAssumption DEF IsValid
  <1>5. bound'[t] # 0 /\ cells'[t][bound'[t]] = entries[id].cap.epoch
    BY <1>4
  <1>6. replyIndex'[<<h, t>>] = id /\ id # 0
    OBVIOUS
  <1> HIDE DEF id
  <1>7. /\ replyIndex'[<<h, t>>] \in Ids
        /\ entries'[replyIndex'[<<h, t>>]] # NoEntry
        /\ entries'[replyIndex'[<<h, t>>]].holder = h
        /\ "SEND" \in entries'[replyIndex'[<<h, t>>]].cap.rights
        /\ entries'[replyIndex'[<<h, t>>]].cap.target = t
        /\ entries'[replyIndex'[<<h, t>>]].cap.epoch = cells'[t][bound'[t]]
    BY <1>2, <1>3, <1>5, <1>6
  <1> QED  BY <1>5, <1>6, <1>7 DEF ReplyCapIsLive, Resolves, Present, IsValid

(* mint's first critical section, and spawn_on's bind. *)
LEMMA BindStep ==
    ASSUME TableInv, NEW t \in Flows, BindFlow(t), UNCHANGED <<entries, used, replyIndex>>
    PROVE  TableInv'
  <1> USE DEF TableInv
  <1>1. /\ CellsInv'
        /\ \A f \in Flows : bound[f] # 0 => /\ bound'[f] = bound[f]
                                            /\ cells'[f][bound'[f]] = cells[f][bound[f]]
    BY BindEffect
  <1>2. EntriesInv'
    BY DEF EntriesInv
  <1>3. ReplyAddressIsStable'
    BY <1>1, <1>2, ReplyKept DEF ReplyAddressIsStable
  <1> QED  BY <1>1, <1>2, <1>3

(* insert_fresh by itself. *)
LEMMA InsertStep ==
    ASSUME TableInv, NEW h \in Flows, NEW cap \in GoodCaps, Insert(h, cap),
           UNCHANGED <<cells, bound, replyIndex>>
    PROVE  TableInv'
  <1> USE DEF TableInv
  <1>1. /\ EntriesInv'
        /\ \A id \in Ids : entries[id] # NoEntry => entries'[id] = entries[id]
    BY InsertEffect
  <1>2. CellsInv'
    BY DEF CellsInv
  <1>3. ReplyAddressIsStable'
    BY <1>1, <1>2, ReplyKept DEF ReplyAddressIsStable
  <1>4. used \in Nat /\ used' = used + 1
    BY CapAssumption DEF EntriesInv, Insert
  <1>5. replyIndex' \in [Flows \X Flows -> 0 .. used']
    BY <1>4
  <1> QED  BY <1>1, <1>2, <1>3, <1>5

(* A root Cap of a flow, as every mint makes it. *)
LEMMA RootIsGood ==
    ASSUME NEW t \in Flows, NEW R \in {Addressing, {"SEND"}}, NEW e \in Nat
    PROVE  Root(t, R, e) \in GoodCaps
  <1>1. R \subseteq Addressing /\ Addressing \subseteq AllRights
    BY DEF Addressing, AllRights, FlowRights
  <1>2. Root(t, R, e) \in Caps
    BY <1>1 DEF Root, Caps
  <1> QED  BY <1>1, <1>2, CapAssumption DEF Root, GoodCaps

(* A Cap minted for a flow, by itself or as the reply address of a pair. *)
LEMMA MintStep ==
    ASSUME TableInv, NEW h \in Flows, NEW t \in Flows,
           NEW R \in {Addressing, {"SEND"}},
           BindFlow(t), Insert(h, Root(t, R, EpochOf(t))),
           \/ replyIndex' = replyIndex
           \/ replyIndex' = [replyIndex EXCEPT ![<<h, t>>] = used + 1]
    PROVE  TableInv'
  <1> USE DEF TableInv
  <1> DEFINE cap == Root(t, R, EpochOf(t))
  <1>1. /\ CellsInv'
        /\ \A f \in Flows : bound[f] # 0 => /\ bound'[f] = bound[f]
                                            /\ cells'[f][bound'[f]] = cells[f][bound[f]]
        /\ bound'[t] # 0 /\ cells'[t][bound'[t]] = EpochOf(t)
        /\ EpochOf(t) \in Nat
    BY BindEffect
  <1>2. cap \in GoodCaps
    BY <1>1, RootIsGood
  <1>3. cap.target = t /\ cap.epoch = EpochOf(t) /\ "SEND" \in cap.rights
    BY DEF Root, Addressing
  <1> HIDE DEF cap
  <1>4. Insert(h, cap)
    BY DEF cap
  <1>5. /\ EntriesInv'
        /\ used + 1 \in Ids
        /\ entries'[used + 1] = [holder |-> h, cap |-> cap]
        /\ entries'[used + 1] # NoEntry
        /\ \A id \in Ids : entries[id] # NoEntry => entries'[id] = entries[id]
    BY <1>2, <1>4, InsertEffect
  <1>6. used \in Nat /\ used' = used + 1
    BY CapAssumption, <1>4 DEF EntriesInv, Insert
  <1>7. replyIndex' \in [Flows \X Flows -> 0 .. used']
    BY <1>6
  <1>8. ASSUME NEW g \in Flows, NEW u \in Flows, replyIndex'[<<g, u>>] # 0
        PROVE  ReplyCapIsLive(g, u)'
    <2>1. CASE replyIndex'[<<g, u>>] = replyIndex[<<g, u>>]
      BY <1>1, <1>5, <1>8, <2>1, ReplyKept
    <2>2. CASE replyIndex'[<<g, u>>] # replyIndex[<<g, u>>]
      <3>1. replyIndex' = [replyIndex EXCEPT ![<<h, t>>] = used + 1]
        BY <2>2
      <3>2. g = h /\ u = t /\ replyIndex'[<<g, u>>] = used + 1
        BY <2>2, <3>1
      <3>3. /\ replyIndex'[<<g, u>>] \in Ids
            /\ entries'[replyIndex'[<<g, u>>]] # NoEntry
            /\ entries'[replyIndex'[<<g, u>>]].holder = g
            /\ "SEND" \in entries'[replyIndex'[<<g, u>>]].cap.rights
            /\ entries'[replyIndex'[<<g, u>>]].cap.target = u
            /\ entries'[replyIndex'[<<g, u>>]].cap.epoch = cells'[u][bound'[u]]
            /\ bound'[u] # 0
        BY <1>1, <1>3, <1>5, <3>2
      <3> QED  BY <1>8, <3>3 DEF ReplyCapIsLive, Resolves, Present, IsValid
    <2> QED  BY <2>1, <2>2
  <1> QED  BY <1>1, <1>5, <1>7, <1>8 DEF ReplyAddressIsStable

(* revoke_flow removes what concerns the flow, the reply index included,   *)
(* and leaves the other flows' cells alone.                                *)
LEMMA RevokeStep ==
    ASSUME TableInv, NEW f \in Flows, RevokeFlow(f)
    PROVE  TableInv'
  <1> USE DEF TableInv
  <1>1. /\ cells' = [cells EXCEPT ![f] =
                      [i \in DOMAIN cells[f] |-> IF i = bound[f] THEN cells[f][i] + 1
                                                 ELSE cells[f][i]]]
        /\ bound' = [bound EXCEPT ![f] = 0]
        /\ entries' = [id \in Ids |->
                         IF id \in Present /\ f \in {entries[id].holder, entries[id].cap.target}
                         THEN NoEntry ELSE entries[id]]
        /\ replyIndex' = [p \in Flows \X Flows |->
                            IF f \in {p[1], p[2]} THEN 0 ELSE replyIndex[p]]
        /\ used' = used
    BY DEF RevokeFlow
  <1>2. CellsInv'
    <2>1. DOMAIN cells' = Flows /\ bound' \in [Flows -> Nat]
      BY <1>1 DEF CellsInv
    <2>2. ASSUME NEW g \in Flows
          PROVE  /\ DOMAIN cells'[g] = DOMAIN cells[g]
                 /\ \A i \in DOMAIN cells[g] : cells'[g][i] \in Nat
                 /\ bound'[g] # 0 => bound'[g] = bound[g]
      BY <1>1 DEF CellsInv
    <2> QED  BY <2>1, <2>2 DEF CellsInv
  <1>3. EntriesInv'
    <2>1. entries' \in [Ids -> {NoEntry} \cup [holder : Flows, cap : GoodCaps]]
      BY <1>1 DEF EntriesInv
    <2>2. \A id \in Ids : entries'[id] = NoEntry \/ entries'[id] = entries[id]
      BY <1>1
    <2> QED  BY <1>1, <2>1, <2>2 DEF EntriesInv
  <1>4. used \in Nat
    BY CapAssumption DEF EntriesInv
  <1>5. replyIndex' \in [Flows \X Flows -> 0 .. used']
    BY <1>1, <1>4
  <1>6. ASSUME NEW h \in Flows, NEW t \in Flows, replyIndex'[<<h, t>>] # 0
        PROVE  ReplyCapIsLive(h, t)'
    <2> DEFINE id == replyIndex[<<h, t>>]
    <2>1. f # h /\ f # t /\ replyIndex'[<<h, t>>] = id /\ id # 0
      BY <1>1, <1>6
    <2>2. ReplyCapIsLive(h, t)
      BY <2>1 DEF ReplyAddressIsStable
    <2>3. /\ id \in Ids /\ entries[id] # NoEntry
          /\ entries[id].holder = h
          /\ "SEND" \in entries[id].cap.rights
          /\ IsValid(entries[id].cap)
          /\ entries[id].cap.target = t
      BY <2>2 DEF ReplyCapIsLive, Resolves, Present
    <2>4. bound[t] # 0 /\ cells[t][bound[t]] = entries[id].cap.epoch
      BY <2>3, CapAssumption DEF IsValid
    <2>5. bound'[t] = bound[t] /\ cells'[t] = cells[t]
      BY <1>1, <2>1 DEF CellsInv
    <2>6. entries'[id] = entries[id]
      BY <1>1, <2>1, <2>3
    <2> HIDE DEF id
    <2>7. /\ replyIndex'[<<h, t>>] \in Ids
          /\ entries'[replyIndex'[<<h, t>>]] # NoEntry
          /\ entries'[replyIndex'[<<h, t>>]].holder = h
          /\ "SEND" \in entries'[replyIndex'[<<h, t>>]].cap.rights
          /\ entries'[replyIndex'[<<h, t>>]].cap.target = t
          /\ entries'[replyIndex'[<<h, t>>]].cap.epoch = cells'[t][bound'[t]]
          /\ bound'[t] # 0
      BY <2>1, <2>3, <2>4, <2>5, <2>6
    <2> QED  BY <1>6, <2>7 DEF ReplyCapIsLive, Resolves, Present, IsValid
  <1> QED  BY <1>2, <1>3, <1>5, <1>6 DEF ReplyAddressIsStable

-----------------------------------------------------------------------------
(* Operations in progress.                                                 *)

(* What an operation holds follows from where it is. *)
LEMMA OpFields ==
    ASSUME NEW o \in Ops
    PROVE  /\ o.at = "idle" => o = Idle
           /\ o.at \in {"reply", "publish", "whereis", "found", "create", "require", "name",
                        "relate", "bind"} => o.t \in Flows
           /\ o.at = "relate" => o.cap \in GoodCaps /\ o.t = o.cap.target
           /\ o.at = "bind" => o.to \in Flows
           /\ o.at \in {"insert", "narrow"} =>
                  o.cap \in GoodCaps /\ o.to \in Flows /\ o.then \in Thens
           /\ o.at = "narrow" => o.want \in SUBSET AllRights
  BY DEF Ops, Flowing, Idle

(* What is left to do after an insertion is an operation, or nothing. *)
LEMMA ThenFields ==
    ASSUME NEW o \in Thens
    PROVE  /\ o \in Ops
           /\ Child(o) \in {NoFlow} \cup Flows
           /\ Child(o) = IF o.at = "publish" THEN o.t ELSE NoFlow
  BY DEF Thens, Ops, Flowing, Idle, Child

(* Operations that carry a Cap to its insertion. *)
LEMMA CarryOps ==
    ASSUME NEW cap \in GoodCaps, NEW want \in SUBSET AllRights, NEW to \in Flows,
           NEW then \in Thens
    PROVE  /\ InsertOp(cap, to, then) \in Ops
           /\ NarrowOp(cap, want, to, then) \in Ops
           /\ Child(InsertOp(cap, to, then)) = Child(then)
           /\ Child(NarrowOp(cap, want, to, then)) = Child(then)
  <1>1. Child(then) = IF then.at = "publish" THEN then.t ELSE NoFlow
    BY ThenFields
  <1>2. Child(InsertOp(cap, to, then)) = Child(then)
    BY <1>1 DEF InsertOp, Child
  <1>3. Child(NarrowOp(cap, want, to, then)) = Child(then)
    BY <1>1 DEF NarrowOp, Child
  <1> QED  BY <1>2, <1>3 DEF Ops, InsertOp, NarrowOp

(* A Cap that resolves is a good one, and it stays one when it is narrowed. *)
LEMMA ResolvedIsGood ==
    ASSUME EntriesInv, NEW id \in Present
    PROVE  /\ entries[id].cap \in GoodCaps
           /\ entries[id].cap.rights \in SUBSET AllRights
           /\ entries[id].cap.target \in Flows \cup {Scheduler}
  <1>1. entries[id].cap \in GoodCaps
    BY EntryType DEF Present
  <1> QED  BY <1>1 DEF GoodCaps, Caps

(* Cap::attenuate only takes rights away. *)
LEMMA AttenuateIsGood ==
    ASSUME NEW cap \in GoodCaps, NEW want
    PROVE  Attenuate(cap, want) \in GoodCaps
  <1>1. /\ Attenuate(cap, want) = [target |-> cap.target, rights |-> cap.rights \cap want,
                                  epoch |-> cap.epoch, root |-> cap.root]
    BY DEF Attenuate, GoodCaps, Caps
  <1> QED  BY <1>1 DEF GoodCaps, Caps

-----------------------------------------------------------------------------
(* The table, step by step.                                                *)

(* Every step keeps the table's maps in agreement. *)
LEMMA TableStep ==
    ASSUME CapInv, [Next]_vars
    PROVE  TableInv'
  <1> USE DEF CapInv
  <1>1. ASSUME UNCHANGED tableVars
        PROVE  TableInv'
    <2>1. UNCHANGED <<entries, used, cells, bound, replyIndex>>
      BY <1>1 DEF tableVars
    <2> QED  BY <2>1 DEF TableInv, CellsInv, EntriesInv, ReplyAddressIsStable,
                         ReplyCapIsLive, Resolves, Present, IsValid
  <1>2. ASSUME NEW h \in Flows, NEW t \in Flows, MintOrReuse(h, t)
        PROVE  TableInv'
    BY <1>1, <1>2, MintStep DEF MintOrReuse
  <1>3. ASSUME NEW x, NEW c \in Flows, NEW want, NEW arg, Spawn(x, c, want, arg)
        PROVE  TableInv'
    <2>1. /\ UNCHANGED <<entries, used, replyIndex>>
          /\ BindFlow(c) \/ UNCHANGED <<cells, bound>>
      BY <1>3 DEF Spawn
    <2> QED  BY <1>1, <2>1, BindStep DEF tableVars
  <1>4. ASSUME NEW f \in Flows, FlowStep(f)
        PROVE  TableInv'
    <2>1. CASE SelfPid(f)
      BY <2>1, MintStep DEF SelfPid
    <2>2. ASSUME NEW n \in Names, RegisterName(f, n)
          PROVE  TableInv'
      <3>1. UNCHANGED replyIndex
        BY <2>2 DEF RegisterName
      <3>2. CASE "SEND" \in authority[f]
        BY <2>2, <3>1, <3>2, MintStep DEF RegisterName
      <3>3. CASE "SEND" \notin authority[f]
        BY <1>1, <2>2, <3>1, <3>3 DEF RegisterName, tableVars
      <3> QED  BY <3>2, <3>3
    <2>3. CASE StampReply(f)
      <3>1. op[f] \in Ops /\ op[f].at = "reply" /\ MintOrReuse(op[f].t, f)
        BY <2>3 DEF StampReply, FlowInv, Actors
      <3>2. op[f].t \in Flows
        BY <3>1, OpFields
      <3> QED  BY <1>2, <3>1, <3>2
    <2>4. CASE WhereisMint(f)
      <3>1. op[f] \in Ops /\ op[f].at = "found" /\ MintOrReuse(f, op[f].t)
        BY <2>4 DEF WhereisMint, FlowInv, Actors
      <3>2. op[f].t \in Flows
        BY <3>1, OpFields
      <3> QED  BY <1>2, <3>1, <3>2
    <2>5. ASSUME NEW c \in Flows, NEW want, NEW arg, SpawnOp(f, c, want, arg)
          PROVE  TableInv'
      BY <1>3, <2>5 DEF SpawnOp
    <2>6. CASE RevokeFlow(f)
      BY <2>6, RevokeStep
    <2>7. ASSUME \/ \E id \in Present, want \in Wants : Delegate(f, id, want)
                 \/ \E id \in Present, payload \in Present \cup {0} : Send(f, id, payload)
                 \/ \E n \in Names : Whereis(f, n)
                 \/ WhereisLive(f)
                 \/ \E id \in Present, need \in {"LINK", "MONITOR"} : Relate(f, id, need)
                 \/ CheckRelation(f) \/ CreateRelation(f) \/ Unregister(f) \/ Sweep(f)
          PROVE  UNCHANGED tableVars
      BY <2>7, Zenon DEF Delegate, Send, Whereis, WhereisLive, Relate, CheckRelation,
                         CreateRelation, Unregister, Sweep
    <2> QED  BY <1>1, <1>4, <2>1, <2>2, <2>3, <2>4, <2>5, <2>6, <2>7 DEF FlowStep
  <1>5. CASE HostStep
    <2>1. ASSUME NEW c \in Flows, NEW arg, HostSpawn(c, arg)
          PROVE  TableInv'
      BY <1>3, <2>1 DEF HostSpawn
    <2>2. ASSUME \/ \E h, t \in Flows : HostGrant(h, t)
                 \/ \E id \in Present, h \in Flows : HostReissue(id, h)
                 \/ \E h \in Flows : MintAdmin(h)
                 \/ \E id \in Present : HostRegister(id)
                 \/ RequireLive
                 \/ \E n \in Names : HostName(n) \/ UnregisterName(n)
          PROVE  UNCHANGED tableVars
      BY <2>2, Zenon DEF HostGrant, HostReissue, MintAdmin, HostRegister, RequireLive,
                         HostName, UnregisterName
    <2> QED  BY <1>1, <1>5, <2>1, <2>2 DEF HostStep
  <1>6. ASSUME NEW x \in Actors, Narrow(x) \/ Publish(x)
        PROVE  TableInv'
    BY <1>1, <1>6 DEF Narrow, Publish
  <1>7. ASSUME NEW x \in Actors, InsertCap(x)
        PROVE  TableInv'
    <2>1. op[x] \in Ops /\ op[x].at = "insert"
      BY <1>7 DEF InsertCap, FlowInv
    <2>2. op[x].cap \in GoodCaps /\ op[x].to \in Flows
      BY <2>1, OpFields
    <2> QED  BY <1>7, <2>2, InsertStep DEF InsertCap
  <1>8. ASSUME NEW x \in Actors, BindTarget(x)
        PROVE  TableInv'
    <2>1. op[x] \in Ops /\ op[x].at = "bind"
      BY <1>8 DEF BindTarget, FlowInv
    <2>2. op[x].t \in Flows
      BY <2>1, OpFields
    <2> QED  BY <1>8, <2>2, BindStep DEF BindTarget
  <1>9. CASE UNCHANGED vars
    BY <1>1, <1>9 DEF vars, tableVars
  <1> QED  BY <1>4, <1>5, <1>6, <1>7, <1>8, <1>9 DEF Next, Actors

-----------------------------------------------------------------------------
(* What a step does to the flows: seven cases for all the actions.         *)

RunsNow(x) == x \in Flows => life[x] = "live"

StaysPut == UNCHANGED <<op, flowVars>>

GoesOn(x, next) ==
    /\ RunsNow(x) /\ Goes(x, next)
    /\ Child(next) \in {NoFlow, Child(op[x])}

FailsNow(x) == RunsNow(x) /\ Fails(x)

(* A spawn that is refused after its id was drawn. *)
Refused(x, c) ==
    /\ RunsNow(x)
    /\ life[c] = "unborn" \/ Child(op[x]) = c
    /\ op' = [op EXCEPT ![x] = Idle]
    /\ life' = [f \in Flows |-> CASE f = c -> "stillborn" [] f = x -> "exiting"
                                  [] OTHER -> life[f]]
    /\ UNCHANGED <<dir, authority, parent>>

Begun(x, c, next, rights) ==
    /\ RunsNow(x) /\ op[x] = Idle /\ life[c] = "unborn" /\ HasRoom
    /\ life' = [life EXCEPT ![c] = "starting"]
    /\ authority' = [authority EXCEPT ![c] = rights]
    /\ x \in Flows => rights \subseteq authority[x]
    /\ parent' = [parent EXCEPT ![c] = x]
    /\ op' = [op EXCEPT ![x] = next]
    /\ Child(next) = c
    /\ UNCHANGED dir

Published(x, c, next) ==
    /\ RunsNow(x) /\ Child(op[x]) = c
    /\ dir' = dir \cup {c}
    /\ life' = [life EXCEPT ![c] = "live"]
    /\ op' = [op EXCEPT ![x] = next]
    /\ Child(next) = NoFlow
    /\ UNCHANGED <<authority, parent>>

(* A step of finalize_one. *)
EndsBy(f, to) ==
    /\ \/ to = "revoked" /\ life[f] \in {"live", "exiting"} /\ op[f] = Idle /\ dir' = dir
       \/ to = "unregistered" /\ life[f] = "revoked" /\ dir' = dir \ {f}
       \/ to = "dead" /\ life[f] = "unregistered" /\ dir' = dir
    /\ life' = [life EXCEPT ![f] = to]
    /\ UNCHANGED <<op, authority, parent>>

FlowChange ==
    \/ StaysPut
    \/ \E x \in Actors : FailsNow(x)
    \/ \E x \in Actors, next \in Ops : GoesOn(x, next)
    \/ \E x \in Actors, c \in Flows : Refused(x, c)
    \/ \E x \in Actors, c \in Flows, next \in Ops, rights \in SUBSET FlowRights :
           Begun(x, c, next, rights)
    \/ \E x \in Actors, c \in Flows, next \in Ops : Published(x, c, next)
    \/ \E f \in Flows, to \in {"revoked", "unregistered", "dead"} : EndsBy(f, to)

(* Operations that only name a flow. *)
LEMMA NamingOps ==
    ASSUME NEW t \in Flows
    PROVE  /\ \A at \in {"reply", "whereis", "found", "create", "require", "name"} :
                  [at |-> at, t |-> t] \in Ops /\ Child([at |-> at, t |-> t]) = NoFlow
           /\ [at |-> "publish", t |-> t] \in Thens
           /\ [at |-> "reply", t |-> t] \in Thens
           /\ Child([at |-> "publish", t |-> t]) = t
           /\ \A to \in Flows : /\ [at |-> "bind", t |-> t, to |-> to] \in Ops
                                /\ Child([at |-> "bind", t |-> t, to |-> to]) = NoFlow
           /\ \A cap \in GoodCaps :
                  cap.target = t =>
                      /\ [at |-> "relate", cap |-> cap, t |-> t] \in Ops
                      /\ Child([at |-> "relate", cap |-> cap, t |-> t]) = NoFlow
           /\ Idle \in Ops /\ Idle \in Thens /\ Child(Idle) = NoFlow
  BY DEF Ops, Thens, Flowing, Idle, Child

(* spawn_on, up to the flow's publication. *)
LEMMA SpawnChange ==
    ASSUME CapInv, NEW x \in Actors, Starts(x), NEW c \in Flows,
           NEW want \in SUBSET AllRights, NEW arg \in Present \cup {0},
           Spawn(x, c, want, arg)
    PROVE  FlowChange
  <1> USE DEF CapInv
  <1> DEFINE publish == [at |-> "publish", t |-> c]
             granted == IF x = Host THEN arg \in Present ELSE Resolves(arg, x, {})
             denied == x # Host /\ "SPAWN" \notin authority[x]
             refuse == denied \/ (arg # 0 /\ ~granted)
             next == CASE arg = 0 -> publish
                       [] arg # 0 /\ x = Host -> InsertOp(entries[arg].cap, c, publish)
                       [] OTHER -> NarrowOp(entries[arg].cap, entries[arg].cap.rights, c, publish)
             rights == ChildRights(x, want)
  <1>1. RunsNow(x) /\ op[x] = Idle /\ life[c] = "unborn"
    BY CapAssumption DEF Starts, RunsNow, Spawn
  <1>2. CASE ~HasRoom
    <2>1. Fails(x)
      BY <1>2 DEF Spawn
    <2> QED  BY <1>1, <2>1 DEF FlowChange, FailsNow
  <1>3. CASE HasRoom /\ refuse
    <2>1. /\ op' = [op EXCEPT ![x] = Idle]
          /\ life' = [f \in Flows |-> CASE f = c -> "stillborn" [] f = x -> "exiting"
                                        [] OTHER -> life[f]]
          /\ UNCHANGED <<dir, authority, parent>>
      BY <1>3 DEF Spawn
    <2>2. Refused(x, c)
      BY <1>1, <2>1 DEF Refused
    <2> QED  BY <2>2 DEF FlowChange
  <1>4. CASE HasRoom /\ ~refuse
    <2>1. /\ life' = [life EXCEPT ![c] = "starting"]
          /\ authority' = [authority EXCEPT ![c] = rights]
          /\ parent' = [parent EXCEPT ![c] = x]
          /\ op' = [op EXCEPT ![x] = next]
          /\ UNCHANGED dir
      BY <1>4 DEF Spawn
    <2>2. publish \in Thens /\ publish \in Ops /\ Child(publish) = c
      BY NamingOps, ThenFields
    <2>3. arg # 0 => /\ entries[arg].cap \in GoodCaps
                     /\ entries[arg].cap.rights \in SUBSET AllRights
      BY ResolvedIsGood DEF TableInv
    <2>4. next \in Ops /\ Child(next) = c
      <3> HIDE DEF publish
      <3>1. CASE arg = 0
        BY <2>2, <3>1
      <3>2. CASE arg # 0 /\ x = Host
        BY <2>2, <2>3, <3>2, CarryOps
      <3>3. CASE arg # 0 /\ x # Host
        BY <2>2, <2>3, <3>3, CarryOps
      <3> QED  BY <3>1, <3>2, <3>3
    <2>5. rights \in SUBSET FlowRights /\ (x \in Flows => rights \subseteq authority[x])
      BY CapAssumption DEF ChildRights, RightsInv, Actors
    <2> HIDE DEF next, rights
    <2>6. Begun(x, c, next, rights)
      BY <1>1, <1>4, <2>1, <2>4, <2>5 DEF Begun
    <2> QED  BY <2>4, <2>5, <2>6 DEF FlowChange
  <1> QED  BY <1>2, <1>3, <1>4

(* Every step is one of the seven. *)
LEMMA FlowChanges ==
    ASSUME CapInv, [Next]_vars
    PROVE  FlowChange
  <1> USE DEF CapInv
  <1>1. ASSUME NEW x \in Actors, NEW next \in Ops, RunsNow(x), Goes(x, next),
               Child(next) \in {NoFlow, Child(op[x])}
        PROVE  FlowChange
    BY <1>1 DEF FlowChange, GoesOn
  <1>2. ASSUME NEW x \in Actors, RunsNow(x), Fails(x)
        PROVE  FlowChange
    BY <1>2 DEF FlowChange, FailsNow
  <1>3. ASSUME UNCHANGED <<op, flowVars>>
        PROVE  FlowChange
    BY <1>3 DEF FlowChange, StaysPut
  <1>4. \A x \in Actors : op[x] \in Ops /\ (op[x] # Idle => RunsNow(x))
    BY CapAssumption DEF FlowInv, Actors, RunsNow
  <1>5. \A x \in Actors : op[x].at # "idle" => op[x] # Idle
    BY DEF Idle
  <1>6. \A x \in Actors : Starts(x) => RunsNow(x)
    BY CapAssumption DEF Starts, RunsNow
  <1>7. Idle \in Ops /\ Child(Idle) = NoFlow /\ Idle \in Thens
    BY DEF Ops, Thens, Idle, Child
  <1>8. \A id \in Present : /\ entries[id].cap \in GoodCaps
                            /\ entries[id].cap.rights \in SUBSET AllRights
                            /\ entries[id].cap.target \in Flows \cup {Scheduler}
    BY ResolvedIsGood DEF TableInv
  <1>9. ASSUME NEW f \in Flows, FlowStep(f)
        PROVE  FlowChange
    <2>0. f \in Actors
      BY DEF Actors
    <2>1. CASE SelfPid(f)
      BY <1>3, <2>1 DEF SelfPid
    <2>2. ASSUME NEW id \in Present, NEW want \in Wants, Delegate(f, id, want)
          PROVE  FlowChange
      <3>1. want \in SUBSET AllRights
        BY CapAssumption
      <3>2. RunsNow(f)
        BY <1>6, <2>0, <2>2 DEF Delegate
      <3>3. CASE Fails(f)
        BY <1>2, <2>0, <3>2, <3>3
      <3>4. CASE Goes(f, NarrowOp(entries[id].cap, want, f, Idle))
        <4>1. /\ NarrowOp(entries[id].cap, want, f, Idle) \in Ops
              /\ Child(NarrowOp(entries[id].cap, want, f, Idle)) = NoFlow
          BY <1>7, <1>8, <3>1, CarryOps
        <4> QED  BY <1>1, <2>0, <3>2, <3>4, <4>1
      <3> QED  BY <2>2, <3>3, <3>4 DEF Delegate
    <2>3. ASSUME NEW id \in Present, NEW payload \in Present \cup {0}, Send(f, id, payload)
          PROVE  FlowChange
      <3> DEFINE t == entries[id].cap.target
                 reply == [at |-> "reply", t |-> t]
                 carry == NarrowOp(entries[payload].cap, entries[payload].cap.rights, t, reply)
      <3>1. RunsNow(f)
        BY <1>6, <2>0, <2>3 DEF Send
      <3>2. CASE Fails(f)
        BY <1>2, <2>0, <3>1, <3>2
      <3>3. CASE t # Scheduler /\ Goes(f, IF payload = 0 THEN reply ELSE carry)
        <4>1. t \in Flows
          BY <1>8, <3>3
        <4>2. reply \in Thens /\ reply \in Ops /\ Child(reply) = NoFlow
          BY <4>1, NamingOps
        <4> HIDE DEF reply, t
        <4>3. payload # 0 => carry \in Ops /\ Child(carry) = NoFlow
          BY <1>8, <4>1, <4>2, CarryOps
        <4> HIDE DEF carry
        <4>4. CASE payload = 0
          BY <1>1, <2>0, <3>1, <3>3, <4>2, <4>4
        <4>5. CASE payload # 0
          BY <1>1, <2>0, <3>1, <3>3, <4>3, <4>5
        <4> QED  BY <4>4, <4>5
      <3> QED  BY <2>3, <3>2, <3>3 DEF Send
    <2>4. CASE StampReply(f) \/ WhereisMint(f)
      <3>1. RunsNow(f) /\ Goes(f, Idle)
        BY <1>4, <1>5, <2>0, <2>4 DEF StampReply, WhereisMint
      <3> QED  BY <1>1, <1>7, <2>0, <3>1
    <2>5. ASSUME NEW n \in Names, RegisterName(f, n)
          PROVE  FlowChange
      <3>1. RunsNow(f) /\ (Goes(f, Idle) \/ Fails(f))
        BY <1>6, <2>0, <2>5 DEF RegisterName
      <3> QED  BY <1>1, <1>2, <1>7, <2>0, <3>1
    <2>6. ASSUME NEW n \in Names, Whereis(f, n)
          PROVE  FlowChange
      <3>1. RunsNow(f) /\ names[n] \in Flows /\ Goes(f, [at |-> "whereis", t |-> names[n]])
        BY <1>6, <2>0, <2>6 DEF Whereis, RestInv
      <3>2. /\ [at |-> "whereis", t |-> names[n]] \in Ops
            /\ Child([at |-> "whereis", t |-> names[n]]) = NoFlow
        BY <3>1, NamingOps
      <3> QED  BY <1>1, <2>0, <3>1, <3>2
    <2>7. CASE WhereisLive(f)
      <3>1. op[f].at = "whereis" /\ RunsNow(f)
        BY <1>4, <1>5, <2>0, <2>7 DEF WhereisLive
      <3>2. op[f].t \in Flows
        BY <1>4, <2>0, <3>1, OpFields
      <3>3. Goes(f, Idle) \/ Goes(f, [at |-> "found", t |-> op[f].t])
        BY <2>7 DEF WhereisLive
      <3>4. /\ [at |-> "found", t |-> op[f].t] \in Ops
            /\ Child([at |-> "found", t |-> op[f].t]) = NoFlow
        BY <3>2, NamingOps
      <3> QED  BY <1>1, <1>7, <2>0, <3>1, <3>3, <3>4
    <2>8. ASSUME NEW id \in Present, NEW need, Relate(f, id, need)
          PROVE  FlowChange
      <3> DEFINE cap == entries[id].cap
                 next == [at |-> "relate", cap |-> cap, t |-> cap.target]
      <3>1. RunsNow(f)
        BY <1>6, <2>0, <2>8 DEF Relate
      <3>2. CASE Fails(f)
        BY <1>2, <2>0, <3>1, <3>2
      <3>3. CASE cap.target # Scheduler /\ Goes(f, next)
        <4>1. cap \in GoodCaps /\ cap.target \in Flows
          BY <1>8, <3>3
        <4>2. next \in Ops /\ Child(next) = NoFlow
          BY <4>1, NamingOps
        <4> QED  BY <1>1, <2>0, <3>1, <3>3, <4>2
      <3> QED  BY <2>8, <3>2, <3>3 DEF Relate
    <2>9. CASE CheckRelation(f)
      <3>1. op[f].at = "relate" /\ RunsNow(f)
        BY <1>4, <1>5, <2>0, <2>9 DEF CheckRelation
      <3>2. op[f].t \in Flows
        BY <1>4, <2>0, <3>1, OpFields
      <3>3. Fails(f) \/ Goes(f, [at |-> "create", t |-> op[f].t])
        BY <2>9 DEF CheckRelation
      <3>4. /\ [at |-> "create", t |-> op[f].t] \in Ops
            /\ Child([at |-> "create", t |-> op[f].t]) = NoFlow
        BY <3>2, NamingOps
      <3> QED  BY <1>1, <1>2, <2>0, <3>1, <3>3, <3>4
    <2>10. CASE CreateRelation(f)
      <3>1. RunsNow(f) /\ Goes(f, Idle)
        BY <1>4, <1>5, <2>0, <2>10 DEF CreateRelation
      <3> QED  BY <1>1, <1>7, <2>0, <3>1
    <2>11. ASSUME NEW c \in Flows, NEW want \in Wants, NEW arg \in Present \cup {0},
                  SpawnOp(f, c, want, arg)
           PROVE  FlowChange
      BY <2>0, <2>11, SpawnChange, CapAssumption DEF SpawnOp
    <2>12. CASE RevokeFlow(f) \/ Unregister(f) \/ Sweep(f)
      <3>1. life[f] = "exiting" => op[f] = Idle
        BY DEF FlowInv
      <3>2. \E to \in {"revoked", "unregistered", "dead"} : EndsBy(f, to)
        BY <2>12, <3>1 DEF RevokeFlow, Ends, Unregister, Sweep, EndsBy
      <3> QED  BY <3>2 DEF FlowChange
    <2> QED  BY <1>9, <2>1, <2>2, <2>3, <2>4, <2>5, <2>6, <2>7, <2>8, <2>9, <2>10, <2>11,
                <2>12 DEF FlowStep
  <1>10. CASE HostStep
    <2>0. Host \in Actors /\ RunsNow(Host)
      BY CapAssumption DEF Actors, RunsNow
    <2>1. ASSUME NEW c \in Flows, NEW arg \in Present \cup {0}, HostSpawn(c, arg)
          PROVE  FlowChange
      BY <2>0, <2>1, SpawnChange DEF HostSpawn, AllRights
    <2>2. ASSUME NEW h \in Flows, NEW t \in Flows, HostGrant(h, t)
          PROVE  FlowChange
      BY <1>1, <2>0, <2>2, NamingOps DEF HostGrant
    <2>3. ASSUME NEW id \in Present, NEW h \in Flows, HostReissue(id, h)
          PROVE  FlowChange
      <3>1. /\ InsertOp(entries[id].cap, h, Idle) \in Ops
            /\ Child(InsertOp(entries[id].cap, h, Idle)) = NoFlow
        BY <1>7, <1>8, CarryOps
      <3> QED  BY <1>1, <2>0, <2>3, <3>1 DEF HostReissue
    <2>4. ASSUME NEW h \in Flows, MintAdmin(h)
          PROVE  FlowChange
      <3>1. Root(Scheduler, {"ADMIN"}, 0) \in GoodCaps
        BY CapAssumption DEF Root, GoodCaps, Caps, AllRights
      <3>2. /\ InsertOp(Root(Scheduler, {"ADMIN"}, 0), h, Idle) \in Ops
            /\ Child(InsertOp(Root(Scheduler, {"ADMIN"}, 0), h, Idle)) = NoFlow
        BY <1>7, <3>1, CarryOps
      <3> QED  BY <1>1, <2>0, <2>4, <3>2 DEF MintAdmin
    <2>5. ASSUME NEW id \in Present, HostRegister(id)
          PROVE  FlowChange
      <3>1. entries[id].cap.target \in Flows
        BY <1>8, <2>5 DEF HostRegister
      <3> QED  BY <1>1, <2>0, <2>5, <3>1, NamingOps DEF HostRegister
    <2>6. CASE RequireLive
      <3>1. op[Host].t \in Flows
        BY <1>4, <2>0, <2>6, OpFields DEF RequireLive
      <3>2. Goes(Host, Idle) \/ Goes(Host, [at |-> "name", t |-> op[Host].t])
        BY <2>6 DEF RequireLive
      <3>3. /\ [at |-> "name", t |-> op[Host].t] \in Ops
            /\ Child([at |-> "name", t |-> op[Host].t]) = NoFlow
        BY <3>1, NamingOps
      <3> QED  BY <1>1, <1>7, <2>0, <3>2, <3>3
    <2>7. ASSUME NEW n \in Names, HostName(n) \/ UnregisterName(n)
          PROVE  FlowChange
      BY <1>1, <1>3, <1>7, <2>0, <2>7 DEF HostName, UnregisterName
    <2> QED  BY <1>10, <2>1, <2>2, <2>3, <2>4, <2>5, <2>6, <2>7 DEF HostStep
  <1>11. ASSUME NEW x \in Actors, Narrow(x)
         PROVE  FlowChange
    <2>1. op[x].at = "narrow" /\ RunsNow(x)
      BY <1>4, <1>5, <1>11 DEF Narrow
    <2>2. op[x].cap \in GoodCaps /\ op[x].to \in Flows /\ op[x].then \in Thens
      BY <1>4, <2>1, OpFields
    <2> DEFINE cap == Attenuate(op[x].cap, op[x].want)
               next == InsertOp(cap, op[x].to, op[x].then)
    <2>3. Fails(x) \/ Goes(x, next)
      BY <1>11 DEF Narrow
    <2>4. cap \in GoodCaps
      BY <2>2, AttenuateIsGood
    <2>5. next \in Ops /\ Child(next) = Child(op[x].then)
      BY <2>2, <2>4, CarryOps
    <2>6. Child(op[x].then) = Child(op[x])
      BY <2>1, <2>2, ThenFields DEF Child
    <2> HIDE DEF next
    <2> QED  BY <1>1, <1>2, <2>1, <2>3, <2>5, <2>6
  <1>12. ASSUME NEW x \in Actors, InsertCap(x)
         PROVE  FlowChange
    <2>1. op[x].at = "insert" /\ RunsNow(x) /\ Goes(x, op[x].then)
      BY <1>4, <1>5, <1>12 DEF InsertCap
    <2>2. op[x].then \in Thens
      BY <1>4, <2>1, OpFields
    <2>3. op[x].then \in Ops /\ Child(op[x].then) = Child(op[x])
      BY <2>1, <2>2, ThenFields DEF Child
    <2> QED  BY <1>1, <2>1, <2>3
  <1>13. ASSUME NEW x \in Actors, BindTarget(x)
         PROVE  FlowChange
    <2>1. op[x].at = "bind" /\ RunsNow(x)
      BY <1>4, <1>5, <1>13 DEF BindTarget
    <2>2. op[x].t \in Flows /\ op[x].to \in Flows
      BY <1>4, <2>1, OpFields
    <2> DEFINE cap == Root(op[x].t, Addressing, EpochOf(op[x].t))
    <2>3. EpochOf(op[x].t) \in Nat
      BY <1>13, <2>2, BindEffect DEF BindTarget, TableInv
    <2>4. cap \in GoodCaps
      BY <2>2, <2>3, RootIsGood
    <2>5. Goes(x, InsertOp(cap, op[x].to, Idle))
      BY <1>13 DEF BindTarget
    <2> HIDE DEF cap
    <2>6. /\ InsertOp(cap, op[x].to, Idle) \in Ops
          /\ Child(InsertOp(cap, op[x].to, Idle)) = NoFlow
      BY <1>7, <2>2, <2>4, CarryOps
    <2> QED  BY <1>1, <2>1, <2>5, <2>6
  <1>14. ASSUME NEW x \in Actors, Publish(x)
         PROVE  FlowChange
    <2>1. op[x].at = "publish" /\ RunsNow(x)
      BY <1>4, <1>5, <1>14 DEF Publish
    <2> DEFINE c == op[x].t
               next == IF x = Host THEN Idle ELSE [at |-> "bind", t |-> c, to |-> x]
    <2>2. c \in Flows /\ Child(op[x]) = c
      BY <1>4, <2>1, OpFields DEF Child
    <2>3. next \in Ops /\ Child(next) = NoFlow
      BY <1>7, <2>2, NamingOps DEF Actors
    <2>4. life[c] = "starting"
      BY <2>2 DEF FlowInv
    <2> HIDE DEF c
    <2>5. \/ Published(x, c, next)
          \/ Refused(x, c)
      BY <1>14, <2>1, <2>2, <2>3, <2>4 DEF Publish, Published, Refused, c
    <2> QED  BY <2>2, <2>3, <2>5 DEF FlowChange
  <1>15. CASE UNCHANGED vars
    BY <1>3, <1>15 DEF vars, flowVars
  <1> QED  BY <1>9, <1>10, <1>11, <1>12, <1>13, <1>14, <1>15 DEF Next, Actors

(* An operation belongs to a flow that runs, and a child to one parent. *)
LEMMA FlowInvStep ==
    ASSUME CapInv, FlowChange
    PROVE  FlowInv'
  <1> USE DEF CapInv
  <1>0. Idle \in Ops /\ Child(Idle) = NoFlow /\ NoFlow \notin Flows /\ Host \in Actors
        /\ Flows \subseteq Actors
    BY CapAssumption DEF Ops, Idle, Child, NoFlow, Actors
  <1>1. CASE StaysPut
    BY <1>1 DEF StaysPut, flowVars, FlowInv
  <1>2. ASSUME NEW x \in Actors, FailsNow(x)
        PROVE  FlowInv'
    <2>1. /\ op' = [op EXCEPT ![x] = Idle]
          /\ x \in Flows => life[x] = "live"
          /\ life' = IF x = Host THEN life ELSE [life EXCEPT ![x] = "exiting"]
          /\ UNCHANGED <<dir, parent>>
      BY <1>2 DEF FailsNow, RunsNow, Fails
    <2>2. \A f \in Flows : life'[f] = IF f = x THEN "exiting" ELSE life[f]
      BY <2>1, CapAssumption DEF FlowInv, Actors
    <2>3. life' \in [Flows -> Lives]
      BY <2>1 DEF FlowInv, Lives
    <2>4. \A y \in Actors : op'[y] = IF y = x THEN Idle ELSE op[y]
      BY <2>1 DEF FlowInv
    <2>5. op' \in [Actors -> Ops]
      BY <1>0, <2>1 DEF FlowInv
    <2> QED  BY <1>0, <2>1, <2>2, <2>3, <2>4, <2>5 DEF FlowInv
  <1>3. ASSUME NEW x \in Actors, NEW next \in Ops, GoesOn(x, next)
        PROVE  FlowInv'
    <2>1. /\ op' = [op EXCEPT ![x] = next]
          /\ x \in Flows => life[x] = "live"
          /\ Child(next) \in {NoFlow, Child(op[x])}
          /\ UNCHANGED <<life, dir, parent>>
      BY <1>3 DEF GoesOn, RunsNow, Goes, flowVars
    <2>2. \A y \in Actors : op'[y] = IF y = x THEN next ELSE op[y]
      BY <2>1 DEF FlowInv
    <2>3. op' \in [Actors -> Ops]
      BY <2>1 DEF FlowInv
    <2> QED  BY <1>0, <2>1, <2>2, <2>3 DEF FlowInv
  <1>4. ASSUME NEW x \in Actors, NEW c \in Flows, Refused(x, c)
        PROVE  FlowInv'
    <2>1. /\ op' = [op EXCEPT ![x] = Idle]
          /\ x \in Flows => life[x] = "live"
          /\ life[c] = "unborn" \/ Child(op[x]) = c
          /\ UNCHANGED <<dir, parent>>
          /\ life' = [f \in Flows |-> CASE f = c -> "stillborn" [] f = x -> "exiting"
                                        [] OTHER -> life[f]]
      BY <1>4 DEF Refused, RunsNow
    <2>0. life[c] \in {"unborn", "starting"} /\ x # c
      BY <2>1, CapAssumption DEF FlowInv, Actors
    <2>2. \A f \in Flows : life'[f] = IF f = c THEN "stillborn"
                                      ELSE IF f = x THEN "exiting" ELSE life[f]
      BY <2>0, <2>1
    <2>3. life' \in [Flows -> Lives]
      BY <1>4 DEF FlowInv, Lives, Refused
    <2>4. \A y \in Actors : op'[y] = IF y = x THEN Idle ELSE op[y]
      BY <2>1 DEF FlowInv
    <2>5. op' \in [Actors -> Ops]
      BY <1>0, <2>1 DEF FlowInv
    <2>6. \A y \in Actors : Child(op'[y]) \in Flows => Child(op'[y]) # c
      BY <1>0, <2>1, <2>4 DEF FlowInv
    <2> QED  BY <1>0, <2>0, <2>1, <2>2, <2>3, <2>4, <2>5, <2>6 DEF FlowInv
  <1>5. ASSUME NEW x \in Actors, NEW c \in Flows, NEW next \in Ops,
               NEW rights \in SUBSET FlowRights, Begun(x, c, next, rights)
        PROVE  FlowInv'
    <2>1. /\ op' = [op EXCEPT ![x] = next]
          /\ x \in Flows => life[x] = "live"
          /\ life[c] = "unborn"
          /\ Child(next) = c
          /\ life' = [life EXCEPT ![c] = "starting"]
          /\ parent' = [parent EXCEPT ![c] = x]
          /\ UNCHANGED dir
      BY <1>5 DEF Begun, RunsNow
    <2>2. \A f \in Flows : /\ life'[f] = IF f = c THEN "starting" ELSE life[f]
                           /\ parent'[f] = IF f = c THEN x ELSE parent[f]
      BY <2>1 DEF FlowInv
    <2>3. life' \in [Flows -> Lives] /\ parent' \in [Flows -> Actors]
      BY <2>1 DEF FlowInv, Lives
    <2>4. \A y \in Actors : op'[y] = IF y = x THEN next ELSE op[y]
      BY <2>1 DEF FlowInv
    <2>5. op' \in [Actors -> Ops]
      BY <2>1 DEF FlowInv
    <2> QED  BY <1>0, <2>1, <2>2, <2>3, <2>4, <2>5 DEF FlowInv
  <1>6. ASSUME NEW x \in Actors, NEW c \in Flows, NEW next \in Ops, Published(x, c, next)
        PROVE  FlowInv'
    <2>1. /\ op' = [op EXCEPT ![x] = next]
          /\ x \in Flows => life[x] = "live"
          /\ Child(op[x]) = c /\ Child(next) = NoFlow
          /\ life' = [life EXCEPT ![c] = "live"]
          /\ dir' = dir \cup {c}
          /\ UNCHANGED parent
      BY <1>6 DEF Published, RunsNow
    <2>2. \A f \in Flows : life'[f] = IF f = c THEN "live" ELSE life[f]
      BY <2>1 DEF FlowInv
    <2>3. life' \in [Flows -> Lives]
      BY <2>1 DEF FlowInv, Lives
    <2>4. \A y \in Actors : op'[y] = IF y = x THEN next ELSE op[y]
      BY <2>1 DEF FlowInv
    <2>5. op' \in [Actors -> Ops]
      BY <2>1 DEF FlowInv
    <2>6. life[c] = "starting" /\ parent[c] = x
      BY <2>1 DEF FlowInv
    <2> QED  BY <1>0, <2>1, <2>2, <2>3, <2>4, <2>5, <2>6 DEF FlowInv
  <1>7. ASSUME NEW f \in Flows, NEW to \in {"revoked", "unregistered", "dead"}, EndsBy(f, to)
        PROVE  FlowInv'
    <2>1. /\ life' = [life EXCEPT ![f] = to]
          /\ UNCHANGED <<op, parent>>
          /\ life[f] \in {"live", "exiting", "revoked", "unregistered"}
          /\ life[f] = "live" => op[f] = Idle
          /\ to = "revoked" => dir' = dir
          /\ to = "unregistered" => dir' = dir \ {f}
          /\ to = "dead" => dir' = dir /\ life[f] = "unregistered"
      BY <1>7 DEF EndsBy
    <2>2. \A g \in Flows : life'[g] = IF g = f THEN to ELSE life[g]
      BY <2>1 DEF FlowInv
    <2>3. life' \in [Flows -> Lives]
      BY <2>1 DEF FlowInv, Lives
    <2> QED  BY <1>0, <2>1, <2>2, <2>3 DEF FlowInv
  <1> QED  BY <1>1, <1>2, <1>3, <1>4, <1>5, <1>6, <1>7 DEF FlowChange

(* A flow's rights are fixed when it is spawned, within its parent's, and  *)
(* nobody has a parent that is yet to be spawned.                          *)
LEMMA RightsStep ==
    ASSUME CapInv, FlowChange
    PROVE  RightsInv'
  <1> USE DEF CapInv
  <1>1. ASSUME UNCHANGED <<authority, parent>>
        PROVE  RightsInv'
    BY <1>1 DEF RightsInv
  <1>2. ASSUME NEW x \in Actors, NEW c \in Flows, NEW next \in Ops,
               NEW rights \in SUBSET FlowRights, Begun(x, c, next, rights)
        PROVE  RightsInv'
    <2>1. /\ x \in Flows => life[x] = "live" /\ rights \subseteq authority[x]
          /\ life[c] = "unborn"
          /\ authority' = [authority EXCEPT ![c] = rights]
          /\ parent' = [parent EXCEPT ![c] = x]
      BY <1>2 DEF Begun, RunsNow
    <2>2. \A f \in Flows : /\ authority'[f] = IF f = c THEN rights ELSE authority[f]
                           /\ parent'[f] = IF f = c THEN x ELSE parent[f]
      BY <2>1 DEF FlowInv, RightsInv
    <2>3. authority' \in [Flows -> SUBSET FlowRights]
      BY <2>1 DEF RightsInv
    <2>4. \A f \in Flows : parent[f] # c
      BY <2>1 DEF FlowInv
    <2>5. x # c
      BY <2>1, CapAssumption DEF Actors
    <2> QED  BY <2>1, <2>2, <2>3, <2>4, <2>5 DEF RightsInv
  <1>3. CASE \/ StaysPut \/ \E x \in Actors : FailsNow(x)
             \/ \E x \in Actors, next \in Ops : GoesOn(x, next)
             \/ \E x \in Actors, c \in Flows : Refused(x, c)
             \/ \E x \in Actors, c \in Flows, next \in Ops : Published(x, c, next)
             \/ \E f \in Flows, to \in {"revoked", "unregistered", "dead"} : EndsBy(f, to)
    BY <1>1, <1>3 DEF StaysPut, FailsNow, Fails, GoesOn, Goes, Refused, Published, EndsBy,
                      flowVars
  <1> QED  BY <1>2, <1>3 DEF FlowChange

(* The registry and the relations only ever name flows. *)
LEMMA RestStep ==
    ASSUME CapInv, [Next]_vars
    PROVE  RestInv'
  <1> USE DEF CapInv
  <1>0. /\ MaxOps \in Nat
        /\ \A x \in Actors : op[x] \in Ops
        /\ Flows \subseteq Actors /\ Host \in Actors
    BY CapAssumption DEF FlowInv, Actors
  <1>1. ASSUME \/ UNCHANGED started
               \/ started < MaxOps /\ started' = started + 1
        PROVE  started' \in 0 .. MaxOps
    BY <1>0, <1>1 DEF RestInv
  <1>2. ASSUME UNCHANGED <<names, relations>>,
               \/ UNCHANGED started
               \/ started < MaxOps /\ started' = started + 1
        PROVE  RestInv'
    BY <1>1, <1>2 DEF RestInv
  <1>3. ASSUME NEW f \in Flows, FlowStep(f)
        PROVE  RestInv'
    <2>1. ASSUME NEW n \in Names, RegisterName(f, n)
          PROVE  RestInv'
      <3>1. /\ names' = names \/ names' = [names EXCEPT ![n] = f]
            /\ UNCHANGED relations
            /\ started < MaxOps /\ started' = started + 1
        BY <2>1 DEF RegisterName, Starts
      <3> QED  BY <1>1, <3>1 DEF RestInv
    <2>2. CASE CreateRelation(f)
      <3>1. op[f].t \in Flows
        BY <1>0, <2>2, OpFields DEF CreateRelation
      <3> QED  BY <1>1, <2>2, <3>1 DEF CreateRelation, RestInv
    <2>3. CASE Sweep(f)
      BY <1>1, <2>3 DEF Sweep, RestInv
    <2>4. CASE \/ SelfPid(f)
               \/ \E id \in Present, want \in Wants : Delegate(f, id, want)
               \/ \E id \in Present, payload \in Present \cup {0} : Send(f, id, payload)
               \/ StampReply(f)
               \/ \E n \in Names : Whereis(f, n)
               \/ WhereisLive(f) \/ WhereisMint(f)
               \/ \E id \in Present, need \in {"LINK", "MONITOR"} : Relate(f, id, need)
               \/ CheckRelation(f)
               \/ \E c \in Flows, want \in Wants, arg \in Present \cup {0} :
                      SpawnOp(f, c, want, arg)
               \/ RevokeFlow(f) \/ Unregister(f)
      <3>1. /\ UNCHANGED <<names, relations>>
            /\ \/ UNCHANGED started
               \/ started < MaxOps /\ started' = started + 1
        BY <2>4, Zenon
           DEF SelfPid, Delegate, Send, StampReply, Whereis, WhereisLive, WhereisMint, Relate,
               CheckRelation, SpawnOp, Spawn, RevokeFlow, Unregister, Starts
      <3> QED  BY <1>2, <3>1
    <2> QED  BY <1>3, <2>1, <2>2, <2>3, <2>4 DEF FlowStep
  <1>4. CASE HostStep
    <2>1. ASSUME NEW n \in Names, HostName(n)
          PROVE  RestInv'
      <3>1. op[Host].t \in Flows
        BY <1>0, <2>1, OpFields DEF HostName
      <3>2. /\ names' = names \/ names' = [names EXCEPT ![n] = op[Host].t]
            /\ UNCHANGED <<relations, started>>
        BY <2>1 DEF HostName
      <3> QED  BY <1>1, <3>1, <3>2 DEF RestInv
    <2>2. ASSUME NEW n \in Names, UnregisterName(n)
          PROVE  RestInv'
      BY <1>1, <2>2 DEF UnregisterName, Starts, RestInv
    <2>3. CASE \/ \E c \in Flows, arg \in Present \cup {0} : HostSpawn(c, arg)
               \/ \E h, t \in Flows : HostGrant(h, t)
               \/ \E id \in Present, h \in Flows : HostReissue(id, h)
               \/ \E h \in Flows : MintAdmin(h)
               \/ \E id \in Present : HostRegister(id)
               \/ RequireLive
      <3>1. /\ UNCHANGED <<names, relations>>
            /\ \/ UNCHANGED started
               \/ started < MaxOps /\ started' = started + 1
        BY <2>3, Zenon DEF HostSpawn, Spawn, HostGrant, HostReissue, MintAdmin, HostRegister,
                           RequireLive, Starts
      <3> QED  BY <1>2, <3>1
    <2> QED  BY <1>4, <2>1, <2>2, <2>3 DEF HostStep
  <1>5. ASSUME NEW x, Narrow(x) \/ InsertCap(x) \/ BindTarget(x) \/ Publish(x)
        PROVE  RestInv'
    BY <1>2, <1>5 DEF Narrow, InsertCap, BindTarget, Publish
  <1>6. CASE UNCHANGED vars
    BY <1>2, <1>6 DEF vars
  <1> QED  BY <1>3, <1>4, <1>5, <1>6 DEF Next

-----------------------------------------------------------------------------
(* Admission.                                                              *)

(* Sets of flows, and of their parents, are finite; more flows have no     *)
(* fewer parents.                                                          *)
LEMMA ParentsFinite ==
    ASSUME NEW p \in [Flows -> Actors], NEW S \in SUBSET Flows
    PROVE  /\ IsFiniteSet(S) /\ Cardinality(S) \in Nat
           /\ IsFiniteSet(Parents(p, S)) /\ Cardinality(Parents(p, S)) \in Nat
           /\ \A T \in SUBSET S : Cardinality(Parents(p, T)) <= Cardinality(Parents(p, S))
  <1>1. IsFiniteSet(Flows)
    BY CapAssumption
  <1>2. IsFiniteSet(Actors)
    BY <1>1, FS_AddElement DEF Actors
  <1>3. Parents(p, S) \subseteq Actors
    BY DEF Parents
  <1>4. IsFiniteSet(S) /\ IsFiniteSet(Parents(p, S))
    BY <1>1, <1>2, <1>3, FS_Subset
  <1>5. Cardinality(S) \in Nat /\ Cardinality(Parents(p, S)) \in Nat
    BY <1>4, FS_CardinalityType
  <1>6. ASSUME NEW T \in SUBSET S
        PROVE  Cardinality(Parents(p, T)) <= Cardinality(Parents(p, S))
    <2>1. Parents(p, T) \subseteq Parents(p, S)
      BY DEF Parents
    <2> QED  BY <1>4, <2>1, FS_Subset
  <1> QED  BY <1>4, <1>5, <1>6

(* Flows whose parents differ have as many parents. *)
LEMMA DistinctParents ==
    ASSUME NEW p \in [Flows -> Actors], NEW Q \in SUBSET Flows,
           \A c, d \in Q : p[c] = p[d] => c = d
    PROVE  Cardinality(Parents(p, Q)) = Cardinality(Q)
  <1> DEFINE g == [c \in Q |-> p[c]]
  <1>1. g \in [Q -> Parents(p, Q)] /\ \A x \in Parents(p, Q) : \E c \in Q : g[c] = x
    BY DEF Parents
  <1>2. g \in Injection(Q, Parents(p, Q)) /\ g \in Surjection(Q, Parents(p, Q))
    BY <1>1 DEF Injection, Surjection, IsInjective
  <1>3. ExistsBijection(Q, Parents(p, Q))
    BY <1>2 DEF ExistsBijection, Bijection
  <1>4. IsFiniteSet(Q)
    BY ParentsFinite
  <1> QED  BY <1>3, <1>4, FS_Bijection

(* The limit can only be passed by spawns that read it at the same time. *)
LEMMA AdmissionStep ==
    ASSUME CapInv, FlowInv', FlowChange
    PROVE  AdmissionInv'
  <1> USE DEF CapInv
  <1>0. NoFlow \notin Flows /\ Child(Idle) = NoFlow /\ MaxFlows \in Nat
    BY CapAssumption DEF Idle, Child, NoFlow
  <1> SUFFICES ASSUME MaxFlows # 0, NEW Q \in SUBSET Pending'
               PROVE  Cardinality(dir' \cup Q)
                        < Cardinality(Parents(parent', dir' \cup Q)) + MaxFlows
    BY DEF AdmissionInv
  <1>1. /\ Pending \subseteq Flows /\ dir \subseteq Flows
        /\ Q \subseteq Flows /\ dir' \subseteq Flows
        /\ parent \in [Flows -> Actors] /\ parent' \in [Flows -> Actors]
    BY DEF Pending, FlowInv
  <1>2. ASSUME UNCHANGED <<dir, parent>>, NEW x \in Actors, NEW next,
               op' = [op EXCEPT ![x] = next], Child(next) \in {NoFlow, Child(op[x])}
        PROVE  Cardinality(dir' \cup Q) < Cardinality(Parents(parent', dir' \cup Q)) + MaxFlows
    <2>1. Pending' \subseteq Pending
      BY <1>0, <1>2 DEF Pending, FlowInv
    <2>2. Q \in SUBSET Pending
      BY <2>1
    <2>3. Parents(parent', dir' \cup Q) = Parents(parent, dir \cup Q)
      BY <1>2 DEF Parents
    <2> QED  BY <1>2, <2>2, <2>3 DEF AdmissionInv
  <1>3. CASE StaysPut
    <2>1. UNCHANGED <<op, dir, parent>>
      BY <1>3 DEF StaysPut, flowVars
    <2>2. Q \in SUBSET Pending
      BY <2>1 DEF Pending
    <2>3. Parents(parent', dir' \cup Q) = Parents(parent, dir \cup Q)
      BY <2>1 DEF Parents
    <2> QED  BY <2>1, <2>2, <2>3 DEF AdmissionInv
  <1>4. CASE \E x \in Actors : FailsNow(x)
    BY <1>0, <1>2, <1>4 DEF FailsNow, Fails
  <1>5. CASE \E x \in Actors, next \in Ops : GoesOn(x, next)
    BY <1>2, <1>5 DEF GoesOn, Goes, flowVars
  <1>6. CASE \E x \in Actors, c \in Flows : Refused(x, c)
    BY <1>0, <1>2, <1>6 DEF Refused
  <1>7. ASSUME NEW x \in Actors, NEW c \in Flows, NEW next \in Ops,
               NEW rights \in SUBSET FlowRights, Begun(x, c, next, rights)
        PROVE  Cardinality(dir' \cup Q) < Cardinality(Parents(parent', dir' \cup Q)) + MaxFlows
    <2>1. Cardinality(dir) < MaxFlows /\ dir' = dir
      BY <1>7 DEF Begun, HasRoom
    <2>2. Cardinality(Parents(parent', Q)) = Cardinality(Q)
      <3>1. \A c1, c2 \in Q : parent'[c1] = parent'[c2] => c1 = c2
        BY DEF Pending
      <3> QED  BY <1>1, <3>1, DistinctParents
    <2>3. /\ Cardinality(Parents(parent', Q)) <= Cardinality(Parents(parent', dir' \cup Q))
          /\ Cardinality(Parents(parent', dir' \cup Q)) \in Nat
      BY <1>1, ParentsFinite
    <2>4. /\ IsFiniteSet(dir) /\ IsFiniteSet(Q)
          /\ Cardinality(dir) \in Nat /\ Cardinality(Q) \in Nat
          /\ Cardinality(dir \cup Q) \in Nat /\ IsFiniteSet(dir \cap Q)
          /\ Cardinality(dir \cap Q) \in Nat
      BY <1>1, ParentsFinite
    <2>5. Cardinality(dir \cup Q) = Cardinality(dir) + Cardinality(Q) - Cardinality(dir \cap Q)
      BY <2>4, FS_Union
    <2> QED  BY <1>0, <2>1, <2>2, <2>3, <2>4, <2>5
  <1>8. ASSUME NEW x \in Actors, NEW c \in Flows, NEW next \in Ops, Published(x, c, next)
        PROVE  Cardinality(dir' \cup Q) < Cardinality(Parents(parent', dir' \cup Q)) + MaxFlows
    <2>1. /\ Child(op[x]) = c /\ Child(next) = NoFlow
          /\ op' = [op EXCEPT ![x] = next]
          /\ dir' = dir \cup {c} /\ UNCHANGED parent
      BY <1>8 DEF Published
    <2>2. c \in Pending
      BY <2>1 DEF Pending, FlowInv
    <2>3. Pending' \subseteq Pending
      BY <1>0, <2>1 DEF Pending, FlowInv
    <2>4. Q \cup {c} \in SUBSET Pending /\ dir' \cup Q = dir \cup (Q \cup {c})
      BY <2>1, <2>2, <2>3
    <2>5. Parents(parent', dir' \cup Q) = Parents(parent, dir \cup (Q \cup {c}))
      BY <2>1 DEF Parents
    <2> QED  BY <2>4, <2>5 DEF AdmissionInv
  <1>9. ASSUME NEW f \in Flows, NEW to \in {"revoked", "unregistered", "dead"}, EndsBy(f, to)
        PROVE  Cardinality(dir' \cup Q) < Cardinality(Parents(parent', dir' \cup Q)) + MaxFlows
    <2> DEFINE A == dir \cup Q
               B == dir' \cup Q
    <2>1. UNCHANGED <<op, parent>> /\ (dir' = dir \/ dir' = dir \ {f})
      BY <1>9 DEF EndsBy
    <2>2. Q \in SUBSET Pending
      BY <2>1 DEF Pending
    <2>3. Cardinality(A) < Cardinality(Parents(parent, A)) + MaxFlows
      BY <2>2 DEF AdmissionInv
    <2>4. Parents(parent', B) = Parents(parent, B)
      BY <2>1 DEF Parents
    <2>5. CASE B = A
      BY <2>3, <2>4, <2>5
    <2>6. CASE B # A
      <3>1. f \in A /\ B = A \ {f} /\ A \subseteq Flows /\ B \subseteq Flows
        BY <1>1, <2>1, <2>6
      <3>2. /\ IsFiniteSet(A) /\ Cardinality(A) \in Nat
            /\ IsFiniteSet(Parents(parent, B)) /\ Cardinality(Parents(parent, B)) \in Nat
            /\ Cardinality(Parents(parent, A)) \in Nat
        BY <1>1, <3>1, ParentsFinite
      <3> HIDE DEF A, B
      <3>3. Cardinality(B) = Cardinality(A) - 1
        BY <3>1, <3>2, FS_RemoveElement
      <3>4. Parents(parent, A) = Parents(parent, B) \cup {parent[f]}
        BY <3>1 DEF Parents
      <3>5. Cardinality(Parents(parent, A)) <= Cardinality(Parents(parent, B)) + 1
        <4>1. Cardinality(Parents(parent, B) \cup {parent[f]}) =
                IF parent[f] \in Parents(parent, B) THEN Cardinality(Parents(parent, B))
                ELSE Cardinality(Parents(parent, B)) + 1
          BY <3>2, FS_AddElement
        <4> QED  BY <3>2, <3>4, <4>1
      <3>6. Cardinality(B) < Cardinality(Parents(parent, B)) + MaxFlows
        BY <1>0, <2>3, <3>2, <3>3, <3>5
      <3> QED  BY <2>4, <3>6 DEF B
    <2> QED  BY <2>5, <2>6
  <1> QED  BY <1>3, <1>4, <1>5, <1>6, <1>7, <1>8, <1>9 DEF FlowChange

-----------------------------------------------------------------------------
(* Results.                                                                *)

(* The inductive invariant of Capability holds in every reachable state. *)
THEOREM CapInvariant == Spec => []CapInv
  <1>1. ASSUME Init
        PROVE  CapInv
    <2>0. MaxCaps \in Nat /\ MaxOps \in Nat /\ MaxFlows \in Nat /\ Host \notin Flows
      BY CapAssumption
    <2>1. CellsInv
      <3>1. DOMAIN cells = Flows /\ bound = [f \in Flows |-> 0]
        BY <1>1 DEF Init
      <3>2. \A f \in Flows : DOMAIN cells[f] = {}
        BY <1>1 DEF Init
      <3>3. Cardinality({}) = 0 /\ 1 .. 0 = {}
        BY FS_EmptySet
      <3> QED  BY <3>1, <3>2, <3>3 DEF CellsInv
    <2>2. EntriesInv
      BY <1>1, <2>0 DEF Init, EntriesInv
    <2>3. TableInv
      BY <1>1, <2>0, <2>1, <2>2 DEF Init, TableInv, ReplyAddressIsStable
    <2>4. Idle \in Ops /\ Child(Idle) = NoFlow /\ Flows \subseteq Actors /\ Host \in Actors
      BY DEF Ops, Idle, Child, Actors
    <2>5. FlowInv
      BY <1>1, <2>0, <2>4 DEF Init, FlowInv, Lives, NoFlow, Actors
    <2>6. RightsInv
      BY <1>1, <2>0 DEF Init, RightsInv, NoFlow
    <2>7. RestInv
      BY <1>1, <2>0 DEF Init, RestInv
    <2>8. AdmissionInv
      <3>1. Pending = {} /\ dir = {}
        BY <1>1, <2>0, <2>4 DEF Init, Pending, NoFlow, Actors
      <3>2. ASSUME NEW Q \in SUBSET Pending
            PROVE  dir \cup Q = {} /\ Parents(parent, dir \cup Q) = {}
        BY <3>1 DEF Parents
      <3>3. Cardinality({}) = 0
        BY FS_EmptySet
      <3> QED  BY <2>0, <3>2, <3>3 DEF AdmissionInv
    <2> QED  BY <2>3, <2>5, <2>6, <2>7, <2>8 DEF CapInv
  <1>2. ASSUME CapInv, [Next]_vars
        PROVE  CapInv'
    <2>1. FlowChange
      BY <1>2, FlowChanges
    <2>2. FlowInv'
      BY <1>2, <2>1, FlowInvStep
    <2>3. TableInv' /\ RestInv'
      BY <1>2, TableStep, RestStep
    <2>4. RightsInv' /\ AdmissionInv'
      BY <1>2, <2>1, <2>2, RightsStep, AdmissionStep
    <2> QED  BY <2>2, <2>3, <2>4 DEF CapInv
  <1> QED  BY <1>1, <1>2, PTL DEF Spec

(* The table, the registry and the flows keep their types. *)
THEOREM TypeCorrect == Spec => []TypeOK
  <1>1. ASSUME CapInv
        PROVE  TypeOK
    <2>1. \A id \in Ids : \/ entries[id] = NoEntry
                          \/ entries[id].holder \in Flows /\ entries[id].cap \in Caps
      BY <1>1 DEF CapInv, TableInv, EntriesInv, GoodCaps
    <2>2. /\ used \in 0 .. MaxCaps /\ \A id \in Present : id <= used
          /\ \A f \in Flows : bound[f] \in {0} \cup DOMAIN cells[f]
          /\ \A p \in Flows \X Flows : replyIndex[p] \in 0 .. used
      BY <1>1 DEF CapInv, TableInv, EntriesInv, CellsInv, Present
    <2>3. /\ names \in [Names -> Flows \cup {NoFlow}] /\ dir \subseteq Flows
          /\ authority \in [Flows -> SUBSET FlowRights]
          /\ relations \subseteq Flows \X Flows /\ started \in 0 .. MaxOps
      BY <1>1 DEF CapInv, FlowInv, RightsInv, RestInv
    <2> QED  BY <2>1, <2>2, <2>3 DEF TypeOK
  <1> QED  BY <1>1, CapInvariant, PTL

(* No chain of delegations, payloads, spawn arguments and reissues yields  *)
(* a Cap with more rights than its root, and no chain of spawns a flow     *)
(* with more rights than its parent.                                       *)
THEOREM RightsNeverGrow == Spec => []NoAmplification
  <1>1. ASSUME CapInv
        PROVE  NoAmplification
    <2>1. ASSUME NEW id \in Present
          PROVE  entries[id].cap \in GoodCaps
      BY <1>1, ResolvedIsGood DEF CapInv, TableInv
    <2>2. ASSUME NEW x \in DOMAIN op, op[x].at \in {"narrow", "insert"}
          PROVE  op[x].cap \in GoodCaps
      <3>1. op[x] \in Ops
        BY <1>1 DEF CapInv, FlowInv
      <3> QED  BY <2>2, <3>1, OpFields
    <2>3. \A cap \in {entries[id].cap : id \in Present} \cup InFlight : cap \in GoodCaps
      BY <2>1, <2>2 DEF InFlight
    <2> QED  BY <1>1, <2>3 DEF CapInv, RightsInv, GoodCaps, NoAmplification
  <1> QED  BY <1>1, CapInvariant, PTL

(* A pair of flows keeps one reply address, which resolves until one of    *)
(* them has ended.                                                         *)
THEOREM ReplyAddressesHold == Spec => []ReplyAddressIsStable
  <1>1. CapInv => ReplyAddressIsStable
    BY DEF CapInv, TableInv
  <1> QED  BY <1>1, CapInvariant, PTL

(* How far max_flows, which is not the hard cap RuntimeConfig calls it     *)
(* (HardCap), can be passed: however spawns interleave, the flows beyond   *)
(* it were each started by somebody else.                                  *)
THEOREM OvershootHolds == Spec => []OvershootBounded
  <1>1. ASSUME CapInv
        PROVE  OvershootBounded
    <2>1. dir \in SUBSET Flows /\ parent \in [Flows -> Actors] /\ MaxFlows \in Nat
      BY <1>1, CapAssumption DEF CapInv, FlowInv
    <2>2. Cardinality(dir) \in Nat /\ Cardinality(Parents(parent, dir)) \in Nat
      BY <2>1, ParentsFinite
    <2>3. dir \cup {} = dir /\ {} \in SUBSET Pending
      OBVIOUS
    <2>4. MaxFlows # 0 => Cardinality(dir) < Cardinality(Parents(parent, dir)) + MaxFlows
      BY <1>1, <2>3 DEF CapInv, AdmissionInv
    <2>5. Parents(parent, dir) = {parent[f] : f \in dir}
      BY DEF Parents
    <2> QED  BY <2>1, <2>2, <2>4, <2>5 DEF OvershootBounded
  <1> QED  BY <1>1, CapInvariant, PTL

-----------------------------------------------------------------------------
(* Flows that have ended.                                                  *)

(* An operation that is not past the check that t is alive. *)
NotAimed(o, t) == o.at \in {"bind", "found", "name", "create"} => o.t # t

(* A flow that has ended has ended: nothing writes its state again. *)
LEMMA DeadStaysDead ==
    ASSUME CapInv, FlowChange, NEW t \in Flows, life[t] = "dead"
    PROVE  life'[t] = "dead"
  <1> USE DEF CapInv
  <1>1. ASSUME NEW x \in Actors, NEW c \in Flows, Refused(x, c)
        PROVE  life'[t] = "dead"
    <2>1. c # t /\ x # t
      BY <1>1 DEF Refused, RunsNow, FlowInv
    <2> QED  BY <1>1, <2>1 DEF Refused
  <1>2. ASSUME NEW x \in Actors, FailsNow(x)
        PROVE  life'[t] = "dead"
    BY <1>2 DEF FailsNow, RunsNow, Fails, FlowInv
  <1>3. ASSUME NEW x \in Actors, NEW c \in Flows, NEW next, NEW rights,
               Begun(x, c, next, rights)
        PROVE  life'[t] = "dead"
    BY <1>3 DEF Begun, FlowInv
  <1>4. ASSUME NEW x \in Actors, NEW c \in Flows, NEW next, Published(x, c, next)
        PROVE  life'[t] = "dead"
    BY <1>4 DEF Published, FlowInv
  <1>5. ASSUME NEW f \in Flows, NEW to, EndsBy(f, to)
        PROVE  life'[t] = "dead"
    BY <1>5 DEF EndsBy, FlowInv
  <1>6. CASE StaysPut \/ \E x \in Actors, next \in Ops : GoesOn(x, next)
    BY <1>6 DEF StaysPut, GoesOn, Goes, flowVars
  <1> QED  BY <1>1, <1>2, <1>3, <1>4, <1>5, <1>6 DEF FlowChange

(* A dead flow gets no new cell, name or relation, and no operation gets   *)
(* past the check that it is alive.                                        *)
LEMMA UnreachableStays ==
    ASSUME CapInv, [Next]_vars, NEW t \in Flows, Unreachable(t)
    PROVE  Unreachable(t)'
  <1> USE DEF CapInv
  <1>0. /\ life'[t] = "dead" /\ life[t] = "dead"
        /\ bound[t] = 0
        /\ t \notin dir
        /\ NotAimed(Idle, t)
        /\ DOMAIN op = Actors /\ Flows \subseteq Actors /\ Host \in Actors
        /\ \A x \in Actors : op[x] \in Ops /\ NotAimed(op[x], t)
        /\ \A x \in Flows : op[x] # Idle => x # t
        /\ \A x \in Actors : op[x].at # "idle" => op[x] # Idle
    BY FlowChanges, DeadStaysDead DEF Unreachable, FlowInv, NotAimed, Idle, Actors
  <1>1. ASSUME bound'[t] = 0,
               UNCHANGED names \/ \E n \in Names, g \in Flows \cup {NoFlow} :
                                      g # t /\ names' = [names EXCEPT ![n] = g],
               relations' \subseteq relations,
               op' = op \/ \E x \in Actors : \E next :
                              /\ op' = [op EXCEPT ![x] = next]
                              /\ NotAimed(next, t)
        PROVE  Unreachable(t)'
    <2>1. \A n \in Names : names'[n] # t
      BY <1>1 DEF Unreachable, RestInv
    <2>2. \A r \in relations' : r[2] # t
      BY <1>1 DEF Unreachable
    <2>3. \A x \in DOMAIN op' : NotAimed(op'[x], t)
      BY <1>0, <1>1
    <2> QED  BY <1>0, <1>1, <2>1, <2>2, <2>3 DEF Unreachable, NotAimed
  <1>2. ASSUME NEW u \in Flows, BindFlow(u), u # t
        PROVE  bound'[t] = 0
    BY <1>0, <1>2, BindEffect DEF TableInv
  <1>3. ASSUME NEW h \in Flows, NEW u \in Flows, MintOrReuse(h, u), u # t
        PROVE  bound'[t] = 0
    BY <1>0, <1>2, <1>3 DEF MintOrReuse, tableVars
  <1>4. ASSUME NEW x \in Actors, NEW next, UNCHANGED <<tableVars, names, relations>>,
               Goes(x, next), NotAimed(next, t)
        PROVE  Unreachable(t)'
    BY <1>0, <1>1, <1>4 DEF Goes, tableVars
  <1>5. ASSUME NEW x \in Actors, UNCHANGED <<tableVars, names, relations>>, Fails(x)
        PROVE  Unreachable(t)'
    BY <1>0, <1>1, <1>5 DEF Fails, tableVars
  <1>6. ASSUME NEW cap, NEW want, NEW to, NEW then
        PROVE  NotAimed(NarrowOp(cap, want, to, then), t) /\ NotAimed(InsertOp(cap, to, then), t)
    BY DEF NarrowOp, InsertOp, NotAimed
  <1>7. ASSUME NEW u
        PROVE  /\ NotAimed([at |-> "reply", t |-> u], t)
               /\ NotAimed([at |-> "whereis", t |-> u], t)
               /\ NotAimed([at |-> "publish", t |-> u], t)
               /\ NotAimed([at |-> "require", t |-> u], t)
               /\ u # t => /\ NotAimed([at |-> "found", t |-> u], t)
                           /\ NotAimed([at |-> "create", t |-> u], t)
                           /\ NotAimed([at |-> "name", t |-> u], t)
                           /\ \A to : NotAimed([at |-> "bind", t |-> u, to |-> to], t)
    BY DEF NotAimed
  <1>8. ASSUME NEW x \in Actors, NEW c \in Flows, NEW want, NEW arg, Starts(x),
               Spawn(x, c, want, arg)
        PROVE  Unreachable(t)'
    <2> DEFINE publish == [at |-> "publish", t |-> c]
               next == CASE arg = 0 -> publish
                         [] arg # 0 /\ x = Host -> InsertOp(entries[arg].cap, c, publish)
                         [] OTHER ->
                              NarrowOp(entries[arg].cap, entries[arg].cap.rights, c, publish)
    <2>1. /\ UNCHANGED <<names, relations>> /\ c # t
          /\ BindFlow(c) \/ UNCHANGED bound
          /\ op' = [op EXCEPT ![x] = Idle] \/ op' = [op EXCEPT ![x] = next]
      BY <1>0, <1>8 DEF Spawn, Fails
    <2>2. NotAimed(next, t)
      <3>1. CASE arg = 0
        BY <1>7, <3>1
      <3>2. CASE arg # 0 /\ x = Host
        BY <1>6, <3>2
      <3>3. CASE arg # 0 /\ x # Host
        BY <1>6, <3>3
      <3> QED  BY <3>1, <3>2, <3>3
    <2>3. bound'[t] = 0
      BY <1>0, <1>2, <2>1
    <2> HIDE DEF next
    <2> QED  BY <1>0, <1>1, <2>1, <2>2, <2>3
  <1>9. ASSUME NEW f \in Flows, FlowStep(f)
        PROVE  Unreachable(t)'
    <2>0. f \in Actors
      BY <1>0
    <2>1. CASE SelfPid(f)
      <3>1. f # t
        BY <1>0, <2>1, CapAssumption DEF SelfPid, Starts
      <3> QED  BY <1>1, <1>2, <2>1, <3>1 DEF SelfPid
    <2>2. ASSUME NEW id \in Present, NEW want \in Wants, Delegate(f, id, want)
          PROVE  Unreachable(t)'
      BY <1>4, <1>5, <1>6, <2>0, <2>2 DEF Delegate
    <2>3. ASSUME NEW id \in Present, NEW payload \in Present \cup {0}, Send(f, id, payload)
          PROVE  Unreachable(t)'
      <3> DEFINE u == entries[id].cap.target
                 reply == [at |-> "reply", t |-> u]
                 next == IF payload = 0 THEN reply
                         ELSE NarrowOp(entries[payload].cap, entries[payload].cap.rights, u, reply)
      <3>1. UNCHANGED <<tableVars, names, relations>> /\ (Goes(f, next) \/ Fails(f))
        BY <2>3 DEF Send
      <3>2. NotAimed(next, t)
        BY <1>6, <1>7
      <3> HIDE DEF next
      <3> QED  BY <1>4, <1>5, <2>0, <3>1, <3>2
    <2>4. CASE StampReply(f)
      <3>1. f # t /\ op[f].t \in Flows
        BY <1>0, <2>0, <2>4, OpFields DEF StampReply
      <3>2. bound'[t] = 0
        BY <1>3, <2>4, <3>1 DEF StampReply
      <3> QED  BY <1>0, <1>1, <2>0, <2>4, <3>2 DEF StampReply, Goes
    <2>5. ASSUME NEW n \in Names, RegisterName(f, n)
          PROVE  Unreachable(t)'
      <3>1. f # t
        BY <1>0, <2>5, CapAssumption DEF RegisterName, Starts
      <3>2. /\ BindFlow(f) \/ UNCHANGED bound
            /\ UNCHANGED names \/ names' = [names EXCEPT ![n] = f]
            /\ UNCHANGED relations
            /\ op' = [op EXCEPT ![f] = Idle]
        BY <2>5 DEF RegisterName, Goes, Fails
      <3>3. bound'[t] = 0
        BY <1>0, <1>2, <3>1, <3>2
      <3> QED  BY <1>0, <1>1, <2>0, <3>1, <3>2, <3>3
    <2>6. ASSUME NEW n \in Names, Whereis(f, n)
          PROVE  Unreachable(t)'
      BY <1>4, <1>7, <2>0, <2>6 DEF Whereis
    <2>7. CASE WhereisLive(f)
      <3>1. UNCHANGED <<tableVars, names, relations>>
            /\ \/ Goes(f, Idle)
               \/ op[f].t \in dir /\ Goes(f, [at |-> "found", t |-> op[f].t])
        BY <2>7 DEF WhereisLive
      <3> QED  BY <1>0, <1>4, <1>7, <2>0, <3>1
    <2>8. CASE WhereisMint(f)
      <3>1. op[f].t # t /\ op[f].t \in Flows
        BY <1>0, <2>0, <2>8, OpFields DEF WhereisMint, NotAimed
      <3>2. bound'[t] = 0
        BY <1>3, <2>8, <3>1 DEF WhereisMint
      <3> QED  BY <1>0, <1>1, <2>0, <2>8, <3>2 DEF WhereisMint, Goes
    <2>9. ASSUME NEW id \in Present, NEW need, Relate(f, id, need)
          PROVE  Unreachable(t)'
      <3> DEFINE next == [at |-> "relate", cap |-> entries[id].cap, t |-> entries[id].cap.target]
      <3>1. UNCHANGED <<tableVars, names, relations>> /\ (Goes(f, next) \/ Fails(f))
        BY <2>9 DEF Relate
      <3>2. NotAimed(next, t)
        BY DEF NotAimed
      <3> HIDE DEF next
      <3> QED  BY <1>4, <1>5, <2>0, <3>1, <3>2
    <2>10. CASE CheckRelation(f)
      <3>1. UNCHANGED <<tableVars, names, relations>>
            /\ \/ Fails(f)
               \/ IsValid(op[f].cap) /\ Goes(f, [at |-> "create", t |-> op[f].t])
        BY <2>10 DEF CheckRelation
      <3>2. op[f].t = op[f].cap.target
        BY <1>0, <2>0, <2>10, OpFields DEF CheckRelation
      <3>3. IsValid(op[f].cap) => op[f].t # t
        BY <1>0, <3>2, CapAssumption DEF IsValid
      <3> QED  BY <1>4, <1>5, <1>7, <2>0, <3>1, <3>3
    <2>11. CASE CreateRelation(f)
      <3>1. op[f].t # t
        BY <1>0, <2>0, <2>11 DEF CreateRelation, NotAimed
      <3>2. \A r \in relations' : r[2] # t
        BY <2>11, <3>1 DEF CreateRelation, Unreachable
      <3>3. \A x \in DOMAIN op' : NotAimed(op'[x], t)
        BY <1>0, <2>0, <2>11 DEF CreateRelation, Goes
      <3> QED  BY <1>0, <2>11, <3>2, <3>3 DEF CreateRelation, tableVars, Unreachable, NotAimed
    <2>12. ASSUME NEW c \in Flows, NEW want, NEW arg, SpawnOp(f, c, want, arg)
           PROVE  Unreachable(t)'
      BY <1>8, <2>0, <2>12 DEF SpawnOp
    <2>13. CASE RevokeFlow(f)
      <3>1. bound'[t] = 0
        BY <1>0, <2>13 DEF RevokeFlow, TableInv, CellsInv
      <3> QED  BY <1>1, <2>13, <3>1 DEF RevokeFlow
    <2>14. CASE Unregister(f)
      BY <1>0, <1>1, <2>14 DEF Unregister, tableVars
    <2>15. CASE Sweep(f)
      <3>1. \A n \in Names : names'[n] # t
        BY <2>15, CapAssumption DEF Sweep, Unreachable, NoFlow
      <3>2. \A r \in relations' : r[2] # t
        BY <2>15 DEF Sweep, Unreachable
      <3> QED  BY <1>0, <2>15, <3>1, <3>2 DEF Sweep, tableVars, Unreachable
    <2> QED  BY <1>9, <2>1, <2>2, <2>3, <2>4, <2>5, <2>6, <2>7, <2>8, <2>9, <2>10, <2>11,
                <2>12, <2>13, <2>14, <2>15 DEF FlowStep
  <1>10. CASE HostStep
    <2>1. ASSUME NEW c \in Flows, NEW arg, HostSpawn(c, arg)
          PROVE  Unreachable(t)'
      BY <1>0, <1>8, <2>1 DEF HostSpawn
    <2>2. ASSUME NEW h \in Flows, NEW u \in Flows, HostGrant(h, u)
          PROVE  Unreachable(t)'
      <3>1. u # t
        BY <1>0, <2>2 DEF HostGrant
      <3> QED  BY <1>0, <1>4, <1>7, <2>2, <3>1 DEF HostGrant
    <2>3. ASSUME NEW id \in Present, NEW h \in Flows, HostReissue(id, h)
          PROVE  Unreachable(t)'
      BY <1>0, <1>4, <1>6, <2>3 DEF HostReissue
    <2>4. ASSUME NEW h \in Flows, MintAdmin(h)
          PROVE  Unreachable(t)'
      BY <1>0, <1>4, <1>6, <2>4 DEF MintAdmin
    <2>5. ASSUME NEW id \in Present, HostRegister(id)
          PROVE  Unreachable(t)'
      BY <1>0, <1>4, <1>7, <2>5 DEF HostRegister
    <2>6. CASE RequireLive
      <3>1. UNCHANGED <<tableVars, names, relations>>
            /\ \/ Goes(Host, Idle)
               \/ op[Host].t \in dir /\ Goes(Host, [at |-> "name", t |-> op[Host].t])
        BY <2>6 DEF RequireLive
      <3> QED  BY <1>0, <1>4, <1>7, <3>1
    <2>7. ASSUME NEW n \in Names, HostName(n)
          PROVE  Unreachable(t)'
      <3>1. op[Host].t # t /\ op[Host].t \in Flows
        BY <1>0, <2>7, OpFields DEF HostName, NotAimed
      <3>2. /\ UNCHANGED names \/ names' = [names EXCEPT ![n] = op[Host].t]
            /\ UNCHANGED <<bound, relations>>
            /\ op' = [op EXCEPT ![Host] = Idle]
        BY <2>7 DEF HostName, Goes, tableVars
      <3> QED  BY <1>0, <1>1, <3>1, <3>2
    <2>8. ASSUME NEW n \in Names, UnregisterName(n)
          PROVE  Unreachable(t)'
      <3>1. names' = [names EXCEPT ![n] = NoFlow] /\ UNCHANGED <<bound, relations, op>>
        BY <2>8 DEF UnregisterName, tableVars
      <3>2. NoFlow # t
        BY CapAssumption DEF NoFlow
      <3> QED  BY <1>0, <1>1, <3>1, <3>2
    <2> QED  BY <1>10, <2>1, <2>2, <2>3, <2>4, <2>5, <2>6, <2>7, <2>8 DEF HostStep
  <1>11. ASSUME NEW x \in Actors, Narrow(x)
         PROVE  Unreachable(t)'
    BY <1>4, <1>5, <1>6, <1>11 DEF Narrow
  <1>12. ASSUME NEW x \in Actors, InsertCap(x)
         PROVE  Unreachable(t)'
    <2>1. op[x].then \in Thens
      BY <1>0, <1>12, OpFields DEF InsertCap
    <2>2. NotAimed(op[x].then, t)
      BY <2>1 DEF Thens, Idle, NotAimed
    <2> QED  BY <1>0, <1>1, <1>12, <2>2 DEF InsertCap, Goes
  <1>13. ASSUME NEW x \in Actors, BindTarget(x)
         PROVE  Unreachable(t)'
    <2>1. op[x].t # t /\ op[x].t \in Flows
      BY <1>0, <1>13, OpFields DEF BindTarget, NotAimed
    <2>2. bound'[t] = 0
      BY <1>2, <1>13, <2>1 DEF BindTarget
    <2> DEFINE next == InsertOp(Root(op[x].t, Addressing, EpochOf(op[x].t)), op[x].to, Idle)
    <2>3. op' = [op EXCEPT ![x] = next] /\ UNCHANGED <<names, relations>>
      BY <1>13 DEF BindTarget, Goes
    <2>4. NotAimed(next, t)
      BY <1>6
    <2> HIDE DEF next
    <2> QED  BY <1>1, <2>2, <2>3, <2>4
  <1>14. ASSUME NEW x \in Actors, Publish(x)
         PROVE  Unreachable(t)'
    <2>1. op[x].at = "publish" /\ op[x].t \in Flows
      BY <1>0, <1>14, OpFields DEF Publish
    <2>2. life[op[x].t] = "starting"
      BY <2>1 DEF FlowInv, Child
    <2>3. /\ UNCHANGED <<bound, names, relations>>
          /\ \/ op' = [op EXCEPT ![x] = Idle]
             \/ op' = [op EXCEPT ![x] = [at |-> "bind", t |-> op[x].t, to |-> x]]
      BY <1>14 DEF Publish, tableVars
    <2> QED  BY <1>0, <1>1, <1>7, <2>2, <2>3
  <1>15. CASE UNCHANGED vars
    BY <1>0, <1>1, <1>15 DEF vars
  <1> QED  BY <1>9, <1>10, <1>11, <1>12, <1>13, <1>14, <1>15 DEF Next, Actors

(* A flow that has ended and that nothing leads to is never addressable    *)
(* again.                                                                  *)
THEOREM GoneStaysGone == Spec => GoneIsForever
  <1>1. CapInv /\ [Next]_vars => [\A t \in Flows : Unreachable(t) => Unreachable(t)']_vars
    BY UnreachableStays
  <1> QED  BY <1>1, CapInvariant, PTL DEF Spec, GoneIsForever
=============================================================================
