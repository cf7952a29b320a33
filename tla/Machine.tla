------------------------------ MODULE Machine ------------------------------
(***************************************************************************)
(* One flow that executes a loaded chunk: the interpreter (vm/machine.rs,  *)
(* vm/frame.rs), the worker that drives it one slice at a time             *)
(* (scheduler/worker.rs drive_process), its quota (scheduler/quota.rs) and *)
(* the host that tops the quota up meanwhile.                              *)
(*                                                                         *)
(* One action is one instruction, or one step of the worker between two    *)
(* calls of Vm::run.  What the scheduler does with an effect is the        *)
(* business of Capability, Mailbox and Lifecycle: here an effect is        *)
(* answered with any value of the kind it yields, or fails the flow.  Of   *)
(* the two token buckets of a quota the one of Send and Ask is kept; Spawn *)
(* has the same in another instance.                                       *)
(***************************************************************************)
EXTENDS Assembler

CONSTANTS
  IntBits,      \* the width of an integer (64)
  Natives,      \* the native table: what each entry may return
  MaxDepth,     \* MAX_CALL_DEPTH (4096)
  Quantum,      \* instructions in a slice
  CpuBudget, MemLimit, SendBurst,   \* QuotaConfig
  Refill,       \* tokens a refill of the send bucket adds
  TopUps,       \* the amounts an administrator may add; negative ones too
  MaxTopUps,    \* bound: top-ups in a behaviour
  TagMax,       \* the largest tag of a message (u16::MAX)
  MaxFresh      \* bound: heap values made by natives

ASSUME MachineAssumption ==
  /\ MaxDepth \in Nat \ {0}
  /\ Quantum \in Nat \ {0}
  /\ CpuBudget \in Nat /\ MemLimit \in Nat /\ SendBurst \in Nat /\ Refill \in Nat
  /\ TopUps \subseteq Int
  /\ TagMax \in Nat
  /\ MaxTopUps \in Nat /\ MaxFresh \in Nat

VARIABLES
  frames,     \* the call stack, the running frame last
  left,       \* instructions the current Vm::run may still execute
  ran,        \* instructions it has executed
  result,     \* the VmResult, once there is one
  effect,     \* the effect the worker carries out
  gate,       \* may the flow call natives
  nextId,     \* next_request_id
  fresh,      \* heap values made by natives so far
  cpu, memLimit, memUsed, tokens,   \* FlowQuota
  loaded,     \* what refill has read of the bucket and not yet stored
  topUps,     \* top-ups so far
  executed, grantedCpu, sent, grantedSend   \* (observers)

vmVars == << frames, left, ran, result, effect, gate, nextId, fresh >>
quotaVars == << cpu, memLimit, memUsed, tokens, loaded, topUps, executed, grantedCpu,
                sent, grantedSend >>
loadVars == << family, chunk, nextReg, targets, pending, trust, built, meant >>
vars == << asmVars, vmVars, quotaVars >>

(***************************************************************************)
(* A value: its kind, its number (an integer, a length in bytes, a memory  *)
(* size) and, for what lives behind an Arc or grants authority, where it   *)
(* came from: constant id - 1 of the pool, native call -id, or 0.          *)
(***************************************************************************)
Val(k, n, id) == [k |-> k, n |-> n, id |-> id]
Unit == Val("unit", 0, 0)
Bool(b) == Val("bool", IF b THEN 1 ELSE 0, 0)

Heap == {"str", "bytes"}

IntMin == -(2 ^ (IntBits - 1))

(***************************************************************************)
(* The width is positive, and one bit more is twice as many integers.      *)
(***************************************************************************)
ASSUME WidthAssumption ==
  /\ IntBits \in Nat \ {0}
  /\ 2 ^ (IntBits - 1) \in Nat \ {0}
  /\ 2 ^ IntBits = 2 * 2 ^ (IntBits - 1)

Wrap(n) == ((n - IntMin) % (2 ^ IntBits)) + IntMin

IntVal(n) == Val("int", Wrap(n), 0)

(***************************************************************************)
(* What the types of the constants of a module, of the results of natives  *)
(* and of the arguments of a spawn say of them.  An argument's Arc and its *)
(* authority are the host's: not the pool's, not a native's.               *)
(***************************************************************************)
InWidth(v) == v.k = "int" => v.n \in IntMin .. -(IntMin + 1)

Foreign(v) ==
  /\ v \in [k : Range(Kinds), n : Int, id : Int]
  /\ v.k \in {"str", "bytes", "msg"} => v.n >= 0
  /\ v.k \in Heap => v.id > MaxConsts
  /\ v.k \in Authority => v.id = 0
  /\ InWidth(v)

ASSUME ValueAssumption ==
  /\ Natives \in Seq(SUBSET [k : Range(Kinds), n : Int])
  /\ \A i \in DOMAIN Natives : \A c \in Natives[i] : ConstantOK(c) /\ InWidth(c)
  /\ \A fam \in Families :
       /\ \A c \in fam.pool : InWidth(c)
       /\ \A s \in fam.spawns :
            /\ s.native \in BOOLEAN
            /\ Len(s.args) \in Nat /\ DOMAIN s.args = 1 .. Len(s.args)
            /\ \A i \in DOMAIN s.args : Foreign(s.args[i])
            /\ \A i, j \in DOMAIN s.args :
                 /\ s.args[i].k \in Heap
                 /\ s.args[i].k = s.args[j].k /\ s.args[i].id = s.args[j].id
                 => s.args[i] = s.args[j]

IsInt(v) == v.k \in {"int", "bool"}       \* Value::as_int

Truthy(v) == ~ (v.k \in {"unit"} \/ (v.k \in {"bool", "int"} \cup Heap /\ v.n = 0))

(***************************************************************************)
(* VmResult and the faults, by what they blame: an operand (its register   *)
(* or its type), the constant pool, the function table, a native, the      *)
(* depth of the stack, a division, the quota, the program (Trap), the      *)
(* interpreter itself (invariant) or a Rust panic.                         *)
(***************************************************************************)
Result(k, why) == [k |-> k, why |-> why]
None == Result("none", "")
Trap(why) == Result("trap", why)
Complete == Result("complete", "")

NoEffect == [op |-> "none", dest |-> 0, cost |-> 0]

Frame(f, dest) ==
  LET def == chunk.functions[f + 1] IN
    [fn |-> f, pc |-> def.entry, dest |-> dest,
     regs |-> [r \in 1 .. def.regs |-> Unit]]

Outermost == -1

-----------------------------------------------------------------------------
(***************************************************************************)
(* Registers.                                                              *)
(***************************************************************************)
Top == frames[Len(frames)]

Here == chunk.code[Top.pc + 1]

HasReg(fs, r) == fs # <<>> /\ r + 1 \in DOMAIN fs[Len(fs)].regs

Reg(r) == Top.regs[r + 1]

SetPc(fs, pc) == [fs EXCEPT ![Len(fs)].pc = pc]

Advanced == SetPc(frames, Top.pc + 1)

(***************************************************************************)
(* charge_register_store: a Str or Bytes is charged unless the register    *)
(* already holds that very one.                                            *)
(***************************************************************************)
SameArc(fs, r, v) ==
  HasReg(fs, r) /\ fs[Len(fs)].regs[r + 1].k = v.k /\ fs[Len(fs)].regs[r + 1].id = v.id

(* Mutant: only what comes from the pool is charged. *)
StoreCostOfConstants(fs, r, v) ==
  IF v.k \in Heap /\ v.id > 0 /\ ~ SameArc(fs, r, v) THEN v.n ELSE 0

StoreCost(fs, r, v) == IF v.k \in Heap /\ ~ SameArc(fs, r, v) THEN v.n ELSE 0

(***************************************************************************)
(* set_reg: the charge comes before the range check.                       *)
(***************************************************************************)
StoreFault(fs, r, v) ==
  IF StoreCost(fs, r, v) > 0 /\ memUsed + StoreCost(fs, r, v) > memLimit THEN "quota"
  ELSE IF ~ HasReg(fs, r) THEN "operand"
  ELSE "none"

ChargeStore(fs, r, v) ==
  memUsed' = IF StoreFault(fs, r, v) = "quota" THEN memUsed
             ELSE memUsed + StoreCost(fs, r, v)

Put(fs, r, v) ==
  IF StoreFault(fs, r, v) = "none" THEN [fs EXCEPT ![Len(fs)].regs[r + 1] = v] ELSE fs

Store(fs, r, v) ==
  /\ ChargeStore(fs, r, v)
  /\ frames' = Put(fs, r, v)
  /\ result' = IF StoreFault(fs, r, v) = "none" THEN None ELSE Trap(StoreFault(fs, r, v))

(***************************************************************************)
(* Vm::with_native_gate and set_quota: the arguments beyond the arity are  *)
(* dropped, the ones kept are charged.                                     *)
(***************************************************************************)
Entered(f, args, dest) ==
  LET new == Frame(f, dest) IN
    [new EXCEPT !.regs = [r \in DOMAIN @ |->
       IF r \in DOMAIN args /\ r <= chunk.functions[f + 1].arity THEN args[r] ELSE @[r]]]

HeapCost(v) == IF v.k \in Heap THEN v.n ELSE 0

Start(f, args, native) ==
  LET frame == Entered(f, args, Outermost)
      cost  == SumFunction([r \in DOMAIN frame.regs |-> HeapCost(frame.regs[r])])
  IN
    /\ phase = "loaded"
    /\ gate' = native
    /\ IF f + 1 \notin DOMAIN chunk.functions \/ cost > memLimit
         THEN /\ phase' = "refused"
              /\ UNCHANGED << frames, memUsed >>
         ELSE /\ phase' = "ready"
              /\ frames' = << frame >>
              /\ memUsed' = cost
    /\ UNCHANGED << loadVars, left, ran, result, effect, nextId, fresh, cpu, memLimit,
                    tokens, loaded, topUps, executed, grantedCpu, sent, grantedSend >>

-----------------------------------------------------------------------------
(***************************************************************************)
(* Vm::run: one instruction.                                               *)
(***************************************************************************)
Running == phase = "running" /\ result = None /\ left > 0

Counted ==
  /\ left' = left - 1
  /\ ran' = ran + 1
  /\ executed' = executed + 1
  /\ UNCHANGED << loadVars, phase, gate, cpu, memLimit, tokens, loaded, topUps,
                  grantedCpu, sent, grantedSend >>

Fetch(ops) ==
  /\ Running
  /\ Top.pc < Len(chunk.code)
  /\ Here.op \in ops
  /\ Counted

(***************************************************************************)
(* The instruction ends the run, with its frame on the next instruction.   *)
(***************************************************************************)
Ends(r) ==
  /\ frames' = Advanced
  /\ result' = r
  /\ UNCHANGED << effect, nextId, fresh, memUsed >>

(***************************************************************************)
(* pop_frame: the value goes to the caller's register, or completes the    *)
(* flow.  Whatever stops the store, a refused charge included, is reported *)
(* as a register out of range.                                             *)
(***************************************************************************)
PopFrame(v) ==
  LET fs   == SubSeq(frames, 1, Len(frames) - 1)
      dest == Top.dest
  IN
    IF dest = Outermost
      THEN /\ frames' = fs
           /\ result' = Complete
           /\ UNCHANGED memUsed
      ELSE /\ ChargeStore(fs, dest, v)
           /\ frames' = Put(fs, dest, v)
           /\ result' = IF StoreFault(fs, dest, v) = "none" THEN None ELSE Trap("operand")

(***************************************************************************)
(* fetch found no instruction: control fell off the end of the code, which *)
(* returns Unit.                                                           *)
(***************************************************************************)
StepEnd ==
  /\ Running
  /\ Top.pc >= Len(chunk.code)
  /\ Counted
  /\ PopFrame(Unit)
  /\ UNCHANGED << effect, nextId, fresh >>

StepReturn ==
  /\ Fetch({"Return"})
  /\ IF HasReg(frames, Here.a)
       THEN PopFrame(Reg(Here.a)) /\ UNCHANGED << effect, nextId, fresh >>
       ELSE Ends(Trap("operand"))

(***************************************************************************)
(* Halt, Exit, Trap, Yield: the run is over.                               *)
(***************************************************************************)
StepStop ==
  /\ Fetch({"Halt", "Exit", "Trap", "Yield"})
  /\ Ends(IF Here.op = "Yield" THEN Result("yield", "")
          ELSE IF Here.op = "Trap" THEN Trap("explicit")
          ELSE IF HasReg(frames, IF Here.op = "Halt" THEN 0 ELSE Here.a) THEN Complete
          ELSE Trap("operand"))

StepNop ==
  /\ Fetch({"Nop"})
  /\ Ends(None)

LoadedConst(i) ==
  LET c == chunk.constants[i.imm + 1] IN
    Val(c.k, c.n, IF c.k \in Heap \cup Authority THEN i.imm + 1 ELSE 0)

StepLoad ==
  /\ Fetch({"LoadConst", "LoadImm", "Move"})
  /\ IF Here.op = "LoadConst" /\ Here.imm + 1 \notin DOMAIN chunk.constants
       THEN Ends(Trap("const"))
     ELSE IF Here.op = "Move" /\ ~ HasReg(frames, Here.b)
       THEN Ends(Trap("operand"))
     ELSE /\ Store(Advanced, Here.a,
                   CASE Here.op = "LoadConst" -> LoadedConst(Here)
                     [] Here.op = "LoadImm"   -> IntVal(Here.imm)
                     [] OTHER                 -> Reg(Here.b))
          /\ UNCHANGED << effect, nextId, fresh >>

(***************************************************************************)
(* numeric_binop: 64-bit integers wrap, an Int beside a Float is promoted, *)
(* and floats are not computed: a comparison of them may go either way.    *)
(* Mod of anything but two integers is reported as a broken invariant.     *)
(***************************************************************************)
Quotient(x, y) ==
  LET abs(n) == IF n < 0 THEN -n ELSE n
      q      == abs(x) \div abs(y)
  IN  IF (x < 0) = (y < 0) THEN q ELSE -q

IntResult(op, x, y) ==
  CASE op = "Add" -> IntVal(x + y)
    [] op = "Sub" -> IntVal(x - y)
    [] op = "Mul" -> IntVal(x * y)
    [] op = "Div" -> IntVal(Quotient(x, y))
    [] op = "Mod" -> IntVal(x - y * Quotient(x, y))
    [] op = "Lt"  -> Bool(x < y)
    [] op = "Le"  -> Bool(x <= y)

Numeric(v) == v.k \in {"int", "float"}

BinopFault(op, a, b) ==
  IF op = "Eq" THEN "none"
  ELSE IF a.k = "int" /\ b.k = "int"
    THEN IF op \in {"Div", "Mod"} /\ b.n = 0 THEN "divide" ELSE "none"
  ELSE IF op = "Mod" THEN "invariant"
  ELSE IF Numeric(a) /\ Numeric(b) THEN "none"
  ELSE "operand"

(***************************************************************************)
(* Eq tells values of two kinds apart, an Int from a Float too, and        *)
(* compares the contents of what is more than a number here.               *)
(***************************************************************************)
BinopResults(op, a, b) ==
  IF op = "Eq" /\ a.k # b.k THEN {Bool(FALSE)}
  ELSE IF op = "Eq" /\ a.k \in {"unit", "bool", "int"} THEN {Bool(a.n = b.n)}
  ELSE IF op = "Eq" THEN {Bool(FALSE), Bool(TRUE)}
  ELSE IF a.k = "int" /\ b.k = "int" THEN {IntResult(op, a.n, b.n)}
  ELSE IF op \in {"Lt", "Le"} THEN {Bool(FALSE), Bool(TRUE)}
  ELSE {Val("float", 0, 0)}

StepBinop ==
  /\ Fetch({"Add", "Sub", "Mul", "Div", "Mod", "Eq", "Lt", "Le"})
  /\ IF ~ (HasReg(frames, Here.b) /\ HasReg(frames, Here.c))
       THEN Ends(Trap("operand"))
     ELSE IF BinopFault(Here.op, Reg(Here.b), Reg(Here.c)) # "none"
       THEN Ends(Trap(BinopFault(Here.op, Reg(Here.b), Reg(Here.c))))
     ELSE /\ \E v \in BinopResults(Here.op, Reg(Here.b), Reg(Here.c)) :
               Store(Advanced, Here.a, v)
          /\ UNCHANGED << effect, nextId, fresh >>

(***************************************************************************)
(* Neg does not wrap by itself: of the least integer it panics in a debug  *)
(* build (the worker catches it) and wraps in a release build.             *)
(***************************************************************************)
StepNeg ==
  /\ Fetch({"Neg"})
  /\ IF ~ HasReg(frames, Here.b) \/ ~ Numeric(Reg(Here.b))
       THEN Ends(Trap("operand"))
     ELSE \/ /\ Store(Advanced, Here.a,
                      IF Reg(Here.b).k = "int" THEN IntVal(- Reg(Here.b).n) ELSE Reg(Here.b))
             /\ UNCHANGED << effect, nextId, fresh >>
          \/ /\ Reg(Here.b) = Val("int", IntMin, 0)
             /\ Ends(Trap("panic"))

FreshRequestId ==
  /\ Fetch({"FreshRequestId"})
  /\ nextId' = nextId + 1
  /\ Store(Advanced, Here.a, IntVal(nextId))
  /\ UNCHANGED << effect, fresh >>

(***************************************************************************)
(* Jump, and Branch on a falsy register: relative to the next instruction. *)
(***************************************************************************)
Goes(i) == i.op = "Jump" \/ ~ Truthy(Reg(i.a))

StepJump ==
  /\ Fetch({"Jump", "Branch"})
  /\ IF Here.op = "Branch" /\ ~ HasReg(frames, Here.a)
       THEN Ends(Trap("operand"))
     ELSE /\ frames' = IF Goes(Here) THEN SetPc(frames, Top.pc + 1 + Here.imm) ELSE Advanced
          /\ UNCHANGED << result, effect, nextId, fresh, memUsed >>

(***************************************************************************)
(* Call: the depth, the function, then the arguments r[dst ..], which are  *)
(* copied into the new frame without a charge.                             *)
(***************************************************************************)
ArgsAt(base, argc) == [n \in 1 .. argc |-> Reg(base + n - 1)]

HasArgs(base, argc) == \A n \in 0 .. argc - 1 : HasReg(frames, base + n)

CallFault(i) ==
  IF Len(frames) >= MaxDepth THEN "depth"
  ELSE IF i.imm + 1 \notin DOMAIN chunk.functions THEN "function"
  ELSE IF ~ HasArgs(i.a, i.b) THEN "operand"
  ELSE "none"

StepCall ==
  /\ Fetch({"Call"})
  /\ IF CallFault(Here) # "none"
       THEN Ends(Trap(CallFault(Here)))
     ELSE /\ frames' = Append(Advanced, Entered(Here.imm, ArgsAt(Here.a, Here.b), Here.a))
          /\ UNCHANGED << result, effect, nextId, fresh, memUsed >>

(***************************************************************************)
(* CallNative: the gate, then the arguments, then the native itself, which *)
(* may fail; the result overwrites r[dst].                                 *)
(***************************************************************************)
NativeFault(i) ==
  IF i.imm + 1 \notin DOMAIN Natives \/ ~ gate THEN "native"
  ELSE IF ~ HasArgs(i.a, i.b) THEN "operand"
  ELSE "none"

StepNative ==
  /\ Fetch({"CallNative"})
  /\ IF NativeFault(Here) # "none"
       THEN Ends(Trap(NativeFault(Here)))
     ELSE \/ Ends(Trap("native"))
          \/ /\ fresh < MaxFresh
             /\ fresh' = fresh + 1
             /\ \E c \in Natives[Here.imm + 1] :
                  Store(Advanced, Here.a, Val(c.k, c.n, -(fresh + 1)))
             /\ UNCHANGED << effect, nextId >>

(***************************************************************************)
(* The instructions that ask the scheduler for something: which registers  *)
(* they read, and what must be in them.                                    *)
(***************************************************************************)
Operands(i) ==
  CASE i.op = "Spawn" -> {<< i.a + 1 + n, "any" >> : n \in 0 .. i.b - 1}
    [] i.op = "Sleep" -> {<< i.a, "nat" >>}
    [] i.op = "Send" -> {<< i.a, "cap" >>, << i.b, "msg" >>}
    [] i.op = "ReceiveTimeout" -> {<< i.b, "any" >>}
    [] i.op = "ReceiveMatch" -> {<< i.b, "tag" >>}
    [] i.op = "ReceiveMatchCorr" -> {<< i.b, "tag" >>, << i.c, "nat" >>}
    [] i.op = "ReceiveMatchCorrImm" -> {<< i.b, "nat" >>}
    [] i.op = "Ask" -> {<< i.b, "cap" >>, << i.c, "msg" >>}
    [] i.op = "AskTimeout" -> {<< i.b, "cap" >>, << i.c, "msg" >>, << i.imm, "any" >>}
    [] i.op \in {"Monitor", "Link"} -> {<< i.b, "cap" >>}
    [] i.op = "RegisterName" -> {<< i.a, "str" >>}
    [] i.op = "Whereis" -> {<< i.b, "str" >>}
    [] i.op = "Delegate" -> {<< i.b, "cap" >>}
         \cup (IF i.c = U8Max THEN {} ELSE {<< i.c, "cap" >>})
    [] OTHER -> {}

Fits(v, want) ==
  \/ want = "any"
  \/ want = "nat" /\ IsInt(v) /\ v.n >= 0
  \/ want = "tag" /\ IsInt(v) /\ v.n \in 0 .. TagMax
  \/ want = v.k

ImmediateOK(i) ==
  /\ i.op \in {"ReceiveMatchImm", "ReceiveMatchCorrImm"} => i.imm \in 0 .. TagMax
  /\ i.op = "AskTimeout" => i.imm >= 0

Effects ==
  {"Spawn", "Sleep", "SelfPid", "Send", "Receive", "ReceiveTimeout", "ReceiveMatch",
   "ReceiveMatchImm", "ReceiveMatchCorr", "ReceiveMatchCorrImm", "Ask", "AskTimeout",
   "Monitor", "Demonitor", "Link", "Unlink", "RegisterName", "Whereis", "Delegate"}

HopOf(i) == IF i.op = "Send" THEN i.b ELSE i.c

Hops == {"Send", "Ask", "AskTimeout"}

StepEffect ==
  /\ Fetch(Effects)
  /\ IF /\ ImmediateOK(Here)
        /\ \A o \in Operands(Here) : HasReg(frames, o[1]) /\ Fits(Reg(o[1]), o[2])
       THEN /\ frames' = Advanced
            /\ result' = Result("effect", "")
            /\ effect' = [op |-> Here.op, dest |-> Here.a,
                          cost |-> IF Here.op \in Hops THEN Reg(HopOf(Here)).n ELSE 0]
            /\ UNCHANGED << nextId, fresh, memUsed >>
       ELSE Ends(Trap("operand"))

-----------------------------------------------------------------------------
(***************************************************************************)
(* drive_process: a slice is the quantum or what is left of the budget,    *)
(* and is charged when the run is over, whatever ended it.                 *)
(***************************************************************************)
Least(m, n) == IF m < n THEN m ELSE n

Slice == Least(Quantum, cpu)

BeginSlice ==
  /\ phase = "ready"
  /\ IF cpu <= 0 THEN phase' = "failed" /\ UNCHANGED left
                 ELSE phase' = "running" /\ left' = Slice
  /\ UNCHANGED << loadVars, frames, ran, result, effect, gate, nextId, fresh, quotaVars >>

After(r) ==
  CASE r.k = "complete" -> "done"
    [] r.k = "trap"     -> "failed"
    [] r.k = "effect"   -> "effect"
    [] OTHER            -> "ready"

(***************************************************************************)
(* charge_cpu takes the cost and gives it back when it was too much.       *)
(***************************************************************************)
EndSlice ==
  /\ phase = "running"
  /\ result # None \/ left = 0
  /\ IF cpu - ran < 0
       THEN phase' = "failed" /\ UNCHANGED cpu
       ELSE phase' = After(result) /\ cpu' = cpu - ran
  /\ result' = IF result.k = "trap" THEN result ELSE None
  /\ left' = 0
  /\ ran' = 0
  /\ UNCHANGED << loadVars, frames, effect, gate, nextId, fresh, memLimit, memUsed, tokens,
                  loaded, topUps, executed, grantedCpu, sent, grantedSend >>

-----------------------------------------------------------------------------
(***************************************************************************)
(* Send and Ask: check_send, the charge of the hop, then the delivery.     *)
(* TokenBucket::refill stores what it computed from an earlier load.       *)
(***************************************************************************)
RefillLoad ==
  /\ phase = "effect"
  /\ effect.op \in Hops
  /\ loaded' = tokens
  /\ phase' = "refilling"
  /\ UNCHANGED << loadVars, vmVars, cpu, memLimit, memUsed, tokens, topUps, executed,
                  grantedCpu, sent, grantedSend >>

Refilled(cur) == Least(cur + Refill, SendBurst)

RefillStore ==
  /\ phase = "refilling"
  /\ tokens' = Refilled(loaded)
  /\ grantedSend' = grantedSend + Refilled(loaded) - loaded
  /\ loaded' = 0
  /\ phase' = "consuming"
  /\ UNCHANGED << loadVars, vmVars, cpu, memLimit, memUsed, topUps, executed, grantedCpu,
                  sent >>

(***************************************************************************)
(* try_consume, then alloc of the hop's memory size.                       *)
(***************************************************************************)
HasToken == tokens > 0

ChargeHop ==
  /\ phase \in {"effect", "consuming"}
  /\ effect.op \in Hops
  /\ IF HasToken
       THEN /\ tokens' = tokens - 1
            /\ sent' = sent + 1
            /\ IF memUsed + effect.cost > memLimit
                 THEN phase' = "failed" /\ UNCHANGED memUsed
                 ELSE phase' = "delivering" /\ memUsed' = memUsed + effect.cost
       ELSE phase' = "failed" /\ UNCHANGED << tokens, sent, memUsed >>
  /\ UNCHANGED << loadVars, vmVars, cpu, memLimit, loaded, topUps, executed, grantedCpu,
                  grantedSend >>

(***************************************************************************)
(* A hop that is delivered gives its charge back; one that finds the inbox *)
(* full parks the flow and keeps it; one that cannot be stamped gives it   *)
(* back and fails the flow.  Stamping numbers a hop that has no request id.*)
(***************************************************************************)
Saturated(m) == IF m < 0 THEN 0 ELSE m

Delivered == IF effect.op = "Send" THEN "ready" ELSE "answer"

Deliver ==
  /\ phase = "delivering"
  /\ \/ phase' = Delivered /\ memUsed' = Saturated(memUsed - effect.cost)
     \/ phase' = Delivered /\ UNCHANGED memUsed
     \/ phase' = "failed" /\ memUsed' = Saturated(memUsed - effect.cost)
  /\ nextId' \in {nextId, nextId + 1}
  /\ UNCHANGED << loadVars, frames, left, ran, result, effect, gate, fresh, cpu, memLimit,
                  tokens, loaded, topUps, executed, grantedCpu, sent, grantedSend >>

(***************************************************************************)
(* What the scheduler writes back with resume_with.                        *)
(***************************************************************************)
Cap == Val("cap", 0, 0)
Msg == Val("msg", 1, 0)

Answers(op) ==
  CASE op \in {"Spawn", "SelfPid", "Delegate"} -> {Cap}
    [] op = "Whereis" -> {Cap, Unit}
    [] op \in {"Monitor", "Link"} -> {IntVal(1)}
    [] op \in {"ReceiveTimeout", "AskTimeout"} -> {Msg, Unit}
    [] op \in {"Receive", "ReceiveMatch", "ReceiveMatchImm", "ReceiveMatchCorr",
               "ReceiveMatchCorrImm", "Ask"} -> {Msg}
    [] OTHER -> {}

(***************************************************************************)
(* Demonitor and Unlink: the worker reads the reference from the register. *)
(***************************************************************************)
HasRef ==
  effect.op \in {"Demonitor", "Unlink"} =>
    /\ HasReg(frames, effect.dest)
    /\ Reg(effect.dest).k = "int"
    /\ Reg(effect.dest).n >= 0

Pending == phase = "answer" \/ (phase = "effect" /\ effect.op \notin Hops)

(***************************************************************************)
(* Every caller of resume_with drops its error: a destination outside the  *)
(* frame loses the value and the flow goes on.                             *)
(***************************************************************************)
Resume ==
  /\ Pending
  /\ HasRef
  /\ phase' = "ready"
  /\ \/ /\ Answers(effect.op) = {}
        /\ UNCHANGED << frames, memUsed >>
     \/ \E v \in Answers(effect.op) :
          /\ frames' = Put(frames, effect.dest, v)
          /\ ChargeStore(frames, effect.dest, v)
  /\ UNCHANGED << loadVars, left, ran, result, effect, gate, nextId, fresh, cpu, memLimit,
                  tokens, loaded, topUps, executed, grantedCpu, sent, grantedSend >>

(***************************************************************************)
(* A Cap that does not resolve, a refused spawn, a name taken, a monitor   *)
(* reference that is not one: the worker fails the flow.                   *)
(***************************************************************************)
EffectFails ==
  /\ phase \in {"effect", "answer"}
  /\ phase' = "failed"
  /\ UNCHANGED << loadVars, vmVars, quotaVars >>

-----------------------------------------------------------------------------
(***************************************************************************)
(* admin_top_up_*: any time while the flow is in the quota table.          *)
(***************************************************************************)
Live == phase \in {"ready", "running", "effect", "refilling", "consuming", "delivering",
                   "answer"}

Positive(n) == IF n > 0 THEN n ELSE 0

TopUp(n) ==
  /\ Live
  /\ topUps < MaxTopUps
  /\ topUps' = topUps + 1
  /\ UNCHANGED << loadVars, phase, vmVars, memUsed, loaded, executed, sent >>

TopUpCpu(n) ==
  /\ TopUp(n)
  /\ cpu' = cpu + n
  /\ grantedCpu' = grantedCpu + Positive(n)
  /\ UNCHANGED << memLimit, tokens, grantedSend >>

TopUpMem(n) ==
  /\ TopUp(n)
  /\ n >= 0
  /\ memLimit' = memLimit + n
  /\ UNCHANGED << cpu, tokens, grantedCpu, grantedSend >>

(***************************************************************************)
(* TokenBucket::credit ignores what is not positive.                       *)
(***************************************************************************)
TopUpSend(n) ==
  /\ TopUp(n)
  /\ tokens' = tokens + Positive(n)
  /\ grantedSend' = grantedSend + Positive(n)
  /\ UNCHANGED << cpu, memLimit, grantedCpu >>

-----------------------------------------------------------------------------
Init ==
  /\ AsmInit
  /\ frames = <<>>
  /\ left = 0
  /\ ran = 0
  /\ result = None
  /\ effect = NoEffect
  /\ gate = FALSE
  /\ nextId = 1
  /\ fresh = 0
  /\ cpu = CpuBudget /\ memLimit = MemLimit /\ memUsed = 0 /\ tokens = SendBurst
  /\ loaded = 0
  /\ topUps = 0
  /\ executed = 0
  /\ grantedCpu = CpuBudget
  /\ sent = 0
  /\ grantedSend = SendBurst

Step ==
  \/ StepEnd \/ StepReturn \/ StepStop \/ StepNop \/ StepLoad \/ StepBinop \/ StepNeg
  \/ FreshRequestId \/ StepJump \/ StepCall \/ StepNative \/ StepEffect

Worker ==
  \/ BeginSlice \/ EndSlice
  \/ RefillLoad \/ RefillStore \/ ChargeHop \/ Deliver \/ Resume \/ EffectFails

Next ==
  \/ AsmNext /\ UNCHANGED << vmVars, quotaVars >>
  \/ \E f \in 0 .. Len(chunk.functions), s \in family.spawns : Start(f, s.args, s.native)
  \/ Step
  \/ Worker
  \/ \E n \in TopUps : TopUpCpu(n)
  \/ \E n \in TopUps : TopUpMem(n)
  \/ \E n \in TopUps : TopUpSend(n)

Spec == Init /\ [][Next]_vars

-----------------------------------------------------------------------------
Phases == {"assembling", "built", "loaded", "refused", "ready", "running", "effect",
           "refilling", "consuming", "delivering", "answer", "done", "failed"}

(***************************************************************************)
(* Type correctness; a register file is never wider than a u8 can count,   *)
(* though Fn keeps allocating, and an integer never leaves its width.      *)
(***************************************************************************)
TypeOK ==
  /\ phase \in Phases
  /\ trust \in {"trusted", "untrusted"}
  /\ \A f \in DOMAIN chunk.functions : chunk.functions[f].regs \in 0 .. U8Max
  /\ nextReg \in 0 .. U8Max
  /\ \A l \in family.labels : targets[l] \in {Unbound} \cup 0 .. MaxCode
  /\ \A f \in DOMAIN frames : \A r \in DOMAIN frames[f].regs :
       LET v == frames[f].regs[r] IN
         v.k = "int" => v.n \in IntMin .. -(IntMin + 1)
  /\ left \in 0 .. Quantum /\ ran \in 0 .. Quantum
  /\ memUsed \in Nat /\ memLimit \in Nat /\ sent \in Nat /\ executed \in Nat
  /\ cpu \in Int /\ tokens \in Nat

(***************************************************************************)
(* What the verifier promises the interpreter: a chunk it accepted never   *)
(* faults on a constant or a function it does not have, no frame's counter *)
(* leaves the code by more than one, the stack stays bounded and is never  *)
(* empty under a running instruction, and a flow of an untrusted module    *)
(* never holds an authority its constant pool made up.                     *)
(***************************************************************************)
VerifiedIsSafe ==
  /\ result.why \notin {"const", "function"}
  /\ Len(frames) <= MaxDepth
  /\ (phase = "running" /\ result = None) => frames # <<>>
  /\ \A f \in DOMAIN frames :
       /\ frames[f].pc \in 0 .. Len(chunk.code)
       /\ trust = "untrusted" =>
            \A r \in DOMAIN frames[f].regs :
              frames[f].regs[r].k \in Authority => frames[f].regs[r].id <= 0

(***************************************************************************)
(* A chunk that a runtime accepts, from the builder or from a file that    *)
(* may have been cut short, is the one that was built, to the last         *)
(* instruction, and carries no authority unless it is trusted.             *)
(***************************************************************************)
LoadedIsBuilt ==
  phase \notin {"assembling", "built", "refused"} =>
    /\ chunk = built
    /\ trust = "untrusted" =>
         \A i \in DOMAIN chunk.constants : chunk.constants[i].k \notin Authority

(***************************************************************************)
(* The bytes of the distinct heap values that some register of the flow    *)
(* can still reach, and the ones the flow has charged for a hop on its way.*)
(***************************************************************************)
Reachable ==
  {v \in UNION {{frames[f].regs[r] : r \in DOMAIN frames[f].regs} : f \in DOMAIN frames} :
     v.k \in Heap}

Held == SumFunctionOnSet([v \in Reachable |-> HeapCost(v)], Reachable)

InFlight == IF phase = "delivering" THEN effect.cost ELSE 0

(***************************************************************************)
(* The quota holds whatever the host adds meanwhile and whatever a refill  *)
(* overwrites: a flow executes no more than it was granted, though it is   *)
(* charged only after a slice; what it holds is charged and the charge is  *)
(* within the limit; and it sends no more than the bucket was given.       *)
(***************************************************************************)
WithinQuota ==
  /\ executed <= grantedCpu
  /\ memUsed <= memLimit
  /\ Held + InFlight <= memUsed
  /\ tokens + sent <= grantedSend

(***************************************************************************)
(* A jump assembled to a label goes, whenever it is taken, to where the    *)
(* label was bound last, backward or forward, also after the module went   *)
(* through a file; with the label never bound it falls through.            *)
(***************************************************************************)
LabelsLand ==
  [][ (executed' > executed /\ Top.pc \in DOMAIN meant
       /\ result' = None) =>
        Top'.pc = IF Here.op = "Jump" \/ ~ Truthy(Reg(Here.a))
                    THEN meant[Top.pc] ELSE Top.pc + 1 ]_vars

-----------------------------------------------------------------------------
(***************************************************************************)
(* What the repository says and the code does not do.                      *)
(***************************************************************************)

(***************************************************************************)
(* A fault names what failed: Fault::Invariant is for a VM that broke its  *)
(* own assumptions, which a verified chunk never brings about.  Violated:  *)
(* Mod of anything but two integers, a TypeMismatch for every other        *)
(* operator, is reported as one.                                           *)
(***************************************************************************)
FaultIsHonest == result.why # "invariant"

(***************************************************************************)
(* Control that falls off the end of a function's body, or jumps to it,    *)
(* returns from the function.  Violated: fetch only knows the end of the   *)
(* whole code, and runs on into the function that comes next.              *)
(***************************************************************************)
BodyEnd(f) ==
  LET after == {e \in {Len(chunk.code)} \cup {g.entry : g \in Range(chunk.functions)} :
                  e > chunk.functions[f + 1].entry}
  IN  {e \in after : \A d \in after : e <= d}

EndOfBodyReturns ==
  [][executed' > executed /\ Top.pc \in BodyEnd(Top.fn) => Len(frames') < Len(frames)]_vars

=============================================================================
