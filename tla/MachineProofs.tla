--------------------------- MODULE MachineProofs ---------------------------
(***************************************************************************)
(* Proofs about Machine: what the assembler, the file format, the verifier *)
(* and the quotas promise, for every program and every bound.              *)
(***************************************************************************)
EXTENDS Machine, FormatProofs

Active == {"ready", "running", "effect", "refilling", "consuming", "delivering", "answer"}

(***************************************************************************)
(* A chunk of the builder.                                                 *)
(***************************************************************************)
ChunkOK(ch) ==
  /\ ch \in Chunks
  /\ \A f \in DOMAIN ch.functions :
       ch.functions[f].entry \in Nat /\ ch.functions[f].regs \in Registers
  /\ \A i \in DOMAIN ch.constants : InWidth(ch.constants[i])
  /\ Len(ch.constants) <= MaxConsts

(***************************************************************************)
(* The jumps that are still to be patched, and the ones that were.         *)
(***************************************************************************)
IsJump(ch, at) == at \in 0 .. Len(ch.code) - 1 /\ ch.code[at + 1].op \in {"Jump", "Branch"}

PendingOK == \A q \in pending : q[2] \in family.labels /\ IsJump(chunk, q[1])

MeantOK ==
  \A at \in DOMAIN meant :
    IsJump(built, at) /\ meant[at] = at + 1 + built.code[at + 1].imm

AsmInv ==
  /\ family \in Families
  /\ phase \in Phases
  /\ trust \in {"trusted", "untrusted"}
  /\ ChunkOK(chunk) /\ ChunkOK(built)
  /\ nextReg \in Registers
  /\ targets \in [family.labels -> {Unbound} \cup 0 .. MaxCode]
  /\ PendingOK
  /\ MeantOK
  /\ phase = "assembling" => Len(chunk.code) <= MaxCode
  /\ phase # "assembling" => pending = {}
  /\ phase \notin {"assembling", "refused"} => chunk = built
  /\ phase \notin {"assembling", "built", "refused"} => Verify(chunk, trust)

(***************************************************************************)
(* A value that a register of a flow may hold, given its module, the trust *)
(* in it and how many heap values natives have made so far.                *)
(***************************************************************************)
Allowed(ch, t, made) ==
  {v \in [k : Range(Kinds), n : Int, id : Int] :
     /\ v.k \in {"str", "bytes", "msg"} => v.n >= 0
     /\ InWidth(v)
     /\ t = "untrusted" /\ v.k \in Authority => v.id <= 0
     /\ v.k \in Heap =>
          /\ v.id # 0 /\ v.id >= -made
          /\ v.id \in 1 .. MaxConsts =>
               v.id \in DOMAIN ch.constants /\ ch.constants[v.id] = Constant(v.k, v.n)}

FrameSet(ch, t, made) ==
  [fn : Int, pc : 0 .. Len(ch.code), dest : Int, regs : Seq(Allowed(ch, t, made))]

(***************************************************************************)
(* The heap values that the registers of fs hold.                          *)
(***************************************************************************)
HeapOf(fs) ==
  {v \in UNION {{fs[f].regs[r] : r \in DOMAIN fs[f].regs} : f \in DOMAIN fs} : v.k \in Heap}

OneEach(S) == \A v, w \in S : v.k = w.k /\ v.id = w.id => v = w

StackInv ==
  /\ frames \in Seq(FrameSet(chunk, trust, fresh))
  /\ Len(frames) <= MaxDepth
  /\ frames # <<>> => frames[1].dest = Outermost

ResultInv ==
  /\ result.why \notin {"const", "function"}
  /\ result.why = "invariant" => frames # <<>> /\ chunk.code[Top.pc].op = "Mod"
  /\ phase \notin {"running", "failed"} => result = None
  /\ phase \in Active /\ frames = <<>> => result = Complete
  /\ phase \in {"assembling", "built", "loaded", "refused"} => frames = <<>>
  /\ effect \in [op : Range(Opcodes) \cup {"none"}, dest : Int, cost : Nat]
  /\ nextId \in Nat /\ fresh \in Nat /\ gate \in BOOLEAN

(***************************************************************************)
(* A charge, within its limit, that covers the heap values of S, each once,*)
(* and a hop on its way.                                                   *)
(***************************************************************************)
Weight(S) == SumFunctionOnSet([v \in S |-> HeapCost(v)], S)

Weighed(S) == IsFiniteSet(S) /\ \A v \in S : HeapCost(v) \in Nat

Covered(S, used, limit, hop) ==
  /\ Weighed(S) /\ OneEach(S)
  /\ used \in Nat /\ limit \in Nat /\ hop \in Nat
  /\ used <= limit
  /\ Weight(S) + hop <= used

HeldInv == Covered(HeapOf(frames), memUsed, memLimit, InFlight)

QuotaInv ==
  /\ cpu \in Int /\ grantedCpu \in Int /\ grantedSend \in Int
  /\ tokens \in Nat /\ loaded \in Nat /\ topUps \in Nat /\ executed \in Nat /\ sent \in Nat
  /\ left \in 0 .. Quantum /\ ran \in 0 .. Quantum /\ ran + left <= Quantum
  /\ phase # "running" => left = 0 /\ ran = 0
  /\ executed + left <= grantedCpu
  /\ phase # "failed" => cpu + executed - ran <= grantedCpu
  /\ tokens + sent <= grantedSend
  /\ phase = "refilling" => loaded <= tokens

MachInv == AsmInv /\ StackInv /\ ResultInv /\ HeldInv /\ QuotaInv

-----------------------------------------------------------------------------
(***************************************************************************)
(* Assembling.                                                             *)
(***************************************************************************)
LEMMA ChunkParts ==
  ASSUME NEW ch \in Chunks
  PROVE  /\ ch = [constants |-> ch.constants, functions |-> ch.functions, code |-> ch.code]
         /\ ch.constants \in Seq(Constants)
         /\ ch.functions \in Seq(FunctionDefs)
         /\ ch.code \in Seq(Instructions)
BY DEF Chunks

LEMMA ChunkWith ==
  ASSUME NEW ch \in Chunks
  PROVE  /\ \A cs \in Seq(Constants) :
              LET new == [ch EXCEPT !.constants = cs]
              IN  /\ new \in Chunks /\ new.constants = cs
                  /\ new.functions = ch.functions /\ new.code = ch.code
         /\ \A fs \in Seq(FunctionDefs) :
              LET new == [ch EXCEPT !.functions = fs]
              IN  /\ new \in Chunks /\ new.constants = ch.constants
                  /\ new.functions = fs /\ new.code = ch.code
         /\ \A code \in Seq(Instructions) :
              LET new == [ch EXCEPT !.code = code]
              IN  /\ new \in Chunks /\ new.constants = ch.constants
                  /\ new.functions = ch.functions /\ new.code = code
<1> DEFINE C == Seq(Constants)
           F == Seq(FunctionDefs)
           I == Seq(Instructions)
<1>1. Chunks = [constants : C, functions : F, code : I]
  BY DEF Chunks
<1> HIDE DEF C, F, I
<1>2. ch \in [constants : C, functions : F, code : I]
  BY <1>1
<1>3. \A cs \in C : LET new == [ch EXCEPT !.constants = cs]
                   IN  /\ new \in Chunks /\ new.constants = cs
                       /\ new.functions = ch.functions /\ new.code = ch.code
  BY <1>1, <1>2
<1>4. \A fs \in F : LET new == [ch EXCEPT !.functions = fs]
                   IN  /\ new \in Chunks /\ new.constants = ch.constants
                       /\ new.functions = fs /\ new.code = ch.code
  BY <1>1, <1>2
<1>5. \A code \in I : LET new == [ch EXCEPT !.code = code]
                     IN  /\ new \in Chunks /\ new.constants = ch.constants
                         /\ new.functions = ch.functions /\ new.code = code
  BY <1>1, <1>2
<1> QED BY <1>3, <1>4, <1>5 DEF C, F, I

LEMMA EmptyOK == ChunkOK(EmptyChunk)
BY AssemblerAssumption DEF ChunkOK, EmptyChunk, Chunks

LEMMA ConstStep ==
  ASSUME AsmInv, NEW v \in family.pool, Const(v)
  PROVE  AsmInv'
<1> USE DEF AsmInv
<1>1. ConstantOK(v) /\ InWidth(v)
  BY AssemblerAssumption, ValueAssumption
<1>2. v \in Constants
  BY <1>1 DEF Constants, ConstantOK
<1>3. ChunkOK(chunk') /\ chunk'.code = chunk.code
  <2>1. CASE chunk' = chunk
    BY <2>1
  <2>2. CASE chunk' = [chunk EXCEPT !.constants = Append(@, v)]
    <3>1. chunk \in Chunks /\ Len(chunk.constants) < MaxConsts
      BY DEF Const, ChunkOK
    <3>2. /\ chunk'.constants = Append(chunk.constants, v)
          /\ chunk'.functions = chunk.functions /\ chunk'.code = chunk.code
          /\ chunk' \in Chunks
      <4>1. chunk.constants \in Seq(Constants)
        BY <3>1, ChunkParts
      <4>2. Append(chunk.constants, v) \in Seq(Constants)
        BY <1>2, <4>1
      <4> QED BY <2>2, <3>1, <4>2, ChunkWith
    <3>3. chunk.constants \in Seq(Constants)
      BY <3>1, ChunkParts
    <3>4. /\ \A i \in DOMAIN chunk'.constants : InWidth(chunk'.constants[i])
          /\ Len(chunk'.constants) <= MaxConsts
      BY <1>1, <1>2, <3>1, <3>2, <3>3, AssemblerAssumption DEF ChunkOK
    <3> QED BY <3>2, <3>4 DEF ChunkOK
  <2> QED BY <2>1, <2>2 DEF Const
<1> QED BY <1>3 DEF Const, PendingOK, MeantOK, IsJump

LEMMA BeginFunctionStep ==
  ASSUME AsmInv, NEW shape \in family.shapes, BeginFunction(shape)
  PROVE  AsmInv'
<1> USE DEF AsmInv
<1> DEFINE def == [entry |-> Len(chunk.code), arity |-> shape.arity, regs |-> shape.regs]
<1>1. shape.arity \in Registers /\ shape.regs \in Registers
  BY AssemblerAssumption
<1>2. chunk \in Chunks /\ chunk.code \in Seq(Instructions) /\ chunk.functions \in Seq(FunctionDefs)
  BY ChunkParts DEF ChunkOK
<1>3. def \in FunctionDefs /\ def.entry \in Nat /\ def.regs \in Registers
  BY <1>1, <1>2, AssemblerAssumption DEF FunctionDefs, Registers
<1>4. chunk' = [chunk EXCEPT !.functions = Append(@, def)] /\ nextReg' = shape.regs
  BY DEF BeginFunction
<1> HIDE DEF def
<1>5. /\ chunk'.functions = Append(chunk.functions, def)
      /\ chunk'.constants = chunk.constants /\ chunk'.code = chunk.code
      /\ chunk' \in Chunks
  <2>1. Append(chunk.functions, def) \in Seq(FunctionDefs)
    BY <1>2, <1>3
  <2> QED BY <1>2, <1>4, <2>1, ChunkWith
<1>6. \A f \in DOMAIN chunk'.functions :
        chunk'.functions[f].entry \in Nat /\ chunk'.functions[f].regs \in Registers
  BY <1>2, <1>3, <1>5 DEF ChunkOK
<1>7. ChunkOK(chunk')
  BY <1>5, <1>6 DEF ChunkOK
<1> QED BY <1>1, <1>4, <1>5, <1>7 DEF BeginFunction, PendingOK, MeantOK, IsJump

(***************************************************************************)
(* One instruction more: what was there stays.                             *)
(***************************************************************************)
LEMMA AppendCode ==
  ASSUME NEW ch, ChunkOK(ch), NEW i \in Instructions
  PROVE  /\ ChunkOK(Append1(ch, i))
         /\ Append1(ch, i).code = Append(ch.code, i)
         /\ Append1(ch, i).functions = ch.functions
         /\ Len(Append1(ch, i).code) = Len(ch.code) + 1
         /\ Append1(ch, i).code[Len(ch.code) + 1] = i
         /\ Len(ch.code) \in Nat
         /\ \A at : IsJump(ch, at) => IsJump(Append1(ch, i), at)
<1>1. ch \in Chunks /\ ch.code \in Seq(Instructions)
  BY ChunkParts DEF ChunkOK
<1>2. /\ Append1(ch, i).code = Append(ch.code, i)
      /\ Append1(ch, i).functions = ch.functions /\ Append1(ch, i).constants = ch.constants
      /\ Append1(ch, i) \in Chunks
  <2>1. Append(ch.code, i) \in Seq(Instructions)
    BY <1>1
  <2> QED BY <1>1, <2>1, ChunkWith DEF Append1
<1>3. ChunkOK(Append1(ch, i))
  BY <1>2 DEF ChunkOK
<1>4. /\ Len(Append(ch.code, i)) = Len(ch.code) + 1
      /\ Append(ch.code, i)[Len(ch.code) + 1] = i
      /\ Len(ch.code) \in Nat
      /\ \A n \in 1 .. Len(ch.code) : Append(ch.code, i)[n] = ch.code[n]
  BY <1>1
<1>5. \A at : IsJump(ch, at) => IsJump(Append1(ch, i), at)
  BY <1>2, <1>4 DEF IsJump
<1> QED BY <1>2, <1>3, <1>4, <1>5

LEMMA EmitStep ==
  ASSUME AsmInv, NEW i \in family.instrs, Emit(i)
  PROVE  AsmInv'
<1> USE DEF AsmInv
<1>1. i \in Instructions
  BY AssemblerAssumption DEF Emit, Instructions, Registers
<1>2. chunk' = Append1(chunk, i) /\ ChunkOK(chunk) /\ Len(chunk.code) < MaxCode
  BY DEF Emit
<1>3. ChunkOK(chunk') /\ Len(chunk'.code) = Len(chunk.code) + 1 /\ Len(chunk.code) \in Nat
  BY <1>1, <1>2, AppendCode
<1>4. \A at : IsJump(chunk, at) => IsJump(chunk', at)
  BY <1>1, <1>2, AppendCode
<1>5. Len(chunk'.code) <= MaxCode
  BY <1>2, <1>3, AssemblerAssumption
<1> QED BY <1>3, <1>4, <1>5 DEF Emit, PendingOK, MeantOK

LEMMA EmitLocalStep ==
  ASSUME AsmInv, NEW i \in family.instrs, EmitLocal(i)
  PROVE  AsmInv'
<1> USE DEF AsmInv
<1> DEFINE n == Len(chunk.functions)
           ch == [chunk EXCEPT !.functions[n].regs = Grown(nextReg)]
           j == [i EXCEPT !.a = nextReg]
<1>1. Grown(nextReg) \in Registers /\ nextReg \in Int
  BY AssemblerAssumption DEF Grown, Registers
<1>2. j \in Instructions
  BY <1>1, AssemblerAssumption DEF Instructions, Registers
<1>3. /\ chunk \in Chunks /\ chunk.functions \in Seq(FunctionDefs) /\ chunk.functions # <<>>
      /\ n \in DOMAIN chunk.functions
  BY ChunkParts DEF ChunkOK, EmitLocal, Opened
<1>4. ChunkOK(ch) /\ ch.code = chunk.code
  <2> DEFINE fs == [chunk.functions EXCEPT ![n].regs = Grown(nextReg)]
  <2>1. fs \in Seq(FunctionDefs)
    <3>1. Grown(nextReg) \in Int
      BY <1>1, AssemblerAssumption DEF Registers
    <3>2. chunk.functions[n] \in FunctionDefs
      BY <1>3
    <3>3. [chunk.functions[n] EXCEPT !.regs = Grown(nextReg)] \in FunctionDefs
      BY <3>1, <3>2 DEF FunctionDefs
    <3>4. fs = [chunk.functions EXCEPT ![n] = [chunk.functions[n] EXCEPT !.regs = Grown(nextReg)]]
      OBVIOUS
    <3> QED BY <1>3, <3>3, <3>4
  <2>2. /\ ch.functions = fs /\ ch.constants = chunk.constants /\ ch.code = chunk.code
        /\ ch \in Chunks
    BY <1>3, <2>1, ChunkWith
  <2>3. \A f \in DOMAIN fs : fs[f].entry \in Nat /\ fs[f].regs \in Registers
    <3>1. DOMAIN fs = DOMAIN chunk.functions
      OBVIOUS
    <3>2. \A f \in DOMAIN chunk.functions : chunk.functions[f] \in FunctionDefs
      BY <1>3
    <3>3. \A f \in DOMAIN chunk.functions :
            chunk.functions[f].entry \in Nat /\ chunk.functions[f].regs \in Registers
      BY DEF ChunkOK
    <3> QED BY <1>1, <1>3, <3>1, <3>2, <3>3 DEF FunctionDefs
  <2> HIDE DEF fs, ch
  <2> QED BY <2>2, <2>3 DEF ChunkOK
<1>5. chunk' = Append1(ch, j) /\ Len(chunk.code) < MaxCode /\ nextReg' = Grown(nextReg)
  BY DEF EmitLocal
<1> HIDE DEF ch, j
<1>6. ChunkOK(chunk') /\ Len(chunk'.code) = Len(chunk.code) + 1 /\ Len(chunk.code) \in Nat
  BY <1>2, <1>4, <1>5, AppendCode
<1>7. \A at : IsJump(ch, at) => IsJump(chunk', at)
  BY <1>2, <1>4, <1>5, AppendCode
<1>8. \A at : IsJump(chunk, at) => IsJump(chunk', at)
  BY <1>4, <1>7 DEF IsJump
<1>9. Len(chunk'.code) <= MaxCode
  BY <1>5, <1>6, AssemblerAssumption
<1> QED BY <1>1, <1>5, <1>6, <1>8, <1>9 DEF EmitLocal, PendingOK, MeantOK

LEMMA EmitToLabelStep ==
  ASSUME AsmInv, NEW op \in {"Jump", "Branch"}, NEW l \in family.labels, EmitToLabel(op, 0, l)
  PROVE  AsmInv'
<1> USE DEF AsmInv
<1> DEFINE i == Instruction(op, 0, 0, 0, 0)
<1>0. "Jump" = Opcodes[14] /\ "Branch" = Opcodes[15] /\ 14 \in DOMAIN Opcodes /\ 15 \in DOMAIN Opcodes
  BY DEF Opcodes
<1>1. i \in Instructions /\ i.op = op
  BY <1>0 DEF Instruction, Instructions, Range
<1>2. /\ chunk' = Append1(chunk, i) /\ ChunkOK(chunk) /\ Len(chunk.code) < MaxCode
      /\ pending' = pending \cup {<< Len(chunk.code), l >>}
  BY DEF EmitToLabel
<1> HIDE DEF i
<1>3. /\ ChunkOK(chunk') /\ Len(chunk'.code) = Len(chunk.code) + 1 /\ Len(chunk.code) \in Nat
      /\ chunk'.code[Len(chunk.code) + 1] = i
  BY <1>1, <1>2, AppendCode
<1>4. \A at : IsJump(chunk, at) => IsJump(chunk', at)
  BY <1>1, <1>2, AppendCode
<1>5. Len(chunk'.code) <= MaxCode
  BY <1>2, <1>3, AssemblerAssumption
<1>6. IsJump(chunk', Len(chunk.code))
  BY <1>1, <1>3 DEF IsJump
<1>7. PendingOK'
  BY <1>2, <1>4, <1>6 DEF EmitToLabel, PendingOK
<1> QED BY <1>3, <1>5, <1>7 DEF EmitToLabel, MeantOK

LEMMA BindLabelStep ==
  ASSUME AsmInv, NEW l \in family.labels, BindLabel(l)
  PROVE  AsmInv'
<1> USE DEF AsmInv
<1>1. Len(chunk.code) \in 0 .. MaxCode
  BY ChunkParts, AssemblerAssumption DEF ChunkOK, BindLabel
<1> QED BY <1>1 DEF BindLabel, PendingOK, MeantOK

(***************************************************************************)
(* Patching keeps the opcode, and sends the jump where it was meant to go. *)
(***************************************************************************)
LEMMA LabelAtIn ==
  ASSUME AsmInv, NEW at \in Jumps
  PROVE  /\ IsJump(chunk, at)
         /\ targets[LabelAt(at)] \in {Unbound} \cup 0 .. MaxCode
<1>1. PICK q \in pending : q[1] = at
  BY DEF Jumps
<1> DEFINE c == CHOOSE p \in pending : p[1] = at
<1>2. c \in pending /\ c[1] = at
  BY <1>1
<1>3. LabelAt(at) = c[2]
  BY DEF LabelAt
<1> HIDE DEF c
<1>4. c[2] \in family.labels /\ IsJump(chunk, at)
  BY <1>2 DEF AsmInv, PendingOK
<1> QED BY <1>3, <1>4 DEF AsmInv

LEMMA PatchedIs ==
  ASSUME AsmInv, NEW i \in Instructions, NEW at \in Nat
  PROVE  /\ Patched(i, at) \in Instructions
         /\ Patched(i, at).op = i.op
         /\ at \in Jumps => Meant(at) = at + 1 + Patched(i, at).imm
<1>0. \A m \in Int : [i EXCEPT !.imm = m] \in Instructions
                     /\ [i EXCEPT !.imm = m].op = i.op /\ [i EXCEPT !.imm = m].imm = m
  BY DEF Instructions
<1>1. CASE at \notin Jumps
  <2>1. Patched(i, at) = i
    BY <1>1, Zenon DEF Patched
  <2> QED BY <1>1, <2>1
<1>2. CASE at \in Jumps /\ targets[LabelAt(at)] = Unbound
  <2>1. Patched(i, at) = [i EXCEPT !.imm = 0] /\ Meant(at) = at + 1
    BY <1>2 DEF Patched, Meant
  <2> QED BY <1>0, <2>1
<1>3. CASE at \in Jumps /\ targets[LabelAt(at)] # Unbound
  <2> DEFINE t == targets[LabelAt(at)]
  <2>1. t \in 0 .. MaxCode /\ MaxCode \in Nat
    BY <1>3, LabelAtIn, AssemblerAssumption
  <2>2. Patched(i, at) = [i EXCEPT !.imm = Offset(at, t)] /\ Meant(at) = t
    BY <1>3 DEF Patched, Meant
  <2> HIDE DEF t
  <2>3. Offset(at, t) \in Int /\ t = at + 1 + Offset(at, t)
    BY <2>1 DEF Offset
  <2> QED BY <1>0, <2>2, <2>3
<1> QED BY <1>1, <1>2, <1>3

LEMMA FinishStep ==
  ASSUME AsmInv, Finish
  PROVE  AsmInv'
<1> DEFINE code == chunk.code
           new == [n \in DOMAIN code |-> Patched(code[n], n - 1)]
<1>1. chunk \in Chunks /\ code \in Seq(Instructions)
  BY ChunkParts DEF AsmInv, ChunkOK
<1>2. DOMAIN code = 1 .. Len(code) /\ Len(code) \in Nat
  BY <1>1
<1>3. \A n \in 1 .. Len(code) : code[n] \in Instructions /\ n - 1 \in Nat
  BY <1>1
<1>4. \A n \in 1 .. Len(code) : new[n] = Patched(code[n], n - 1)
  BY <1>2
<1>5. \A n \in 1 .. Len(code) : new[n] \in Instructions /\ new[n].op = code[n].op
  BY <1>3, <1>4, PatchedIs
<1>6. new \in Seq(Instructions) /\ Len(new) = Len(code)
  <2>1. new \in [1 .. Len(code) -> Instructions]
    BY <1>2, <1>5
  <2> HIDE DEF new
  <2> QED BY <2>1, <1>2
<1>7. /\ chunk' = [chunk EXCEPT !.code = new] /\ built' = chunk' /\ phase' = "built"
      /\ meant' = [at \in Jumps |-> Meant(at)]
      /\ targets' = [l \in family.labels |-> Unbound] /\ pending' = {} /\ nextReg' = 0
      /\ UNCHANGED << family, trust >>
  BY DEF Finish
<1> HIDE DEF new
<1>8. /\ chunk' \in Chunks /\ chunk'.code = new
      /\ chunk'.functions = chunk.functions /\ chunk'.constants = chunk.constants
  BY <1>1, <1>6, <1>7, ChunkWith
<1>9. ChunkOK(chunk')
  BY <1>8 DEF AsmInv, ChunkOK
<1>10. MeantOK'
  <2>1. SUFFICES ASSUME NEW at \in Jumps
                 PROVE  IsJump(built', at) /\ Meant(at) = at + 1 + built'.code[at + 1].imm
    BY <1>7 DEF MeantOK
  <2>2. IsJump(chunk, at)
    BY LabelAtIn
  <2>3. at \in Nat /\ at + 1 \in 1 .. Len(code) /\ (at + 1) - 1 = at
    BY <1>2, <2>2 DEF IsJump
  <2>4. IsJump(built', at)
    BY <1>5, <1>6, <1>7, <1>8, <2>2, <2>3 DEF IsJump
  <2>5. built'.code[at + 1] = Patched(code[at + 1], at)
    BY <1>4, <1>7, <1>8, <2>3
  <2> QED BY <1>3, <2>3, <2>4, <2>5, PatchedIs
<1>11. 0 \in Registers
  BY AssemblerAssumption DEF Registers
<1> QED BY <1>7, <1>9, <1>10, <1>11 DEF AsmInv, PendingOK, Phases

(***************************************************************************)
(* Loading: the round trip through a file is what makes the chunk the one  *)
(* that was built.                                                         *)
(***************************************************************************)
LEMMA AcceptStep ==
  ASSUME AsmInv, phase = "built", NEW t \in {"trusted", "untrusted"},
         Accept(built, t) \/ Refuse,
         UNCHANGED << family, nextReg, targets, pending >>
  PROVE  AsmInv'
<1> USE DEF AsmInv
<1>0. chunk = built
  OBVIOUS
<1>1. CASE Refuse
  BY <1>1, EmptyOK DEF Refuse, PendingOK, MeantOK, NoJumps, Phases
<1>2. CASE Accept(built, t) /\ ~ Refuse
  BY <1>0, <1>2 DEF Accept, PendingOK, MeantOK, Phases
<1> QED BY <1>1, <1>2

LEMMA LoadFileStep ==
  ASSUME AsmInv, phase = "built", NEW t \in {"trusted", "untrusted"},
         NEW n \in 0 .. Len(Encode(built)), LoadFile(Encode(built), n, t)
  PROVE  AsmInv'
<1> DEFINE e == Encode(built)
           b == SubSeq(e, 1, n)
<1>1. built \in Chunks
  BY DEF AsmInv, ChunkOK
<1>2. e \in Seq(Int)
  BY <1>1, EncodedType
<1> HIDE DEF e
<1>3. Cut(b, e)
  <2>1. n \in 0 .. Len(e) /\ Len(e) \in Nat
    BY <1>2 DEF e
  <2>2. Len(b) = n /\ \A i \in 1 .. n : b[i] = e[i]
    BY <1>2, <2>1
  <2> HIDE DEF b
  <2> QED BY <2>1, <2>2 DEF Cut
<1>4. Decode(b, t).ok => Decode(b, t).chunk = built
  <2> HIDE DEF b
  <2> QED BY <1>1, <1>3, RoundTrip DEF e
<1>5. Accept(built, t) \/ Refuse
  BY <1>4 DEF LoadFile, e
<1> QED BY <1>5, AcceptStep DEF LoadFile

LEMMA AsmStep ==
  ASSUME AsmInv, AsmNext
  PROVE  AsmInv'
<1>1. CASE \E v \in family.pool : Const(v)
  BY <1>1, ConstStep
<1>2. CASE \E shape \in family.shapes : BeginFunction(shape)
  BY <1>2, BeginFunctionStep
<1>3. CASE \E i \in family.instrs : Emit(i)
  BY <1>3, EmitStep
<1>4. CASE \E i \in family.instrs : EmitLocal(i)
  BY <1>4, EmitLocalStep
<1>5. CASE \E l \in family.labels : EmitToLabel("Jump", 0, l)
  BY <1>5, EmitToLabelStep
<1>6. CASE \E l \in family.labels : EmitToLabel("Branch", 0, l)
  BY <1>6, EmitToLabelStep
<1>7. CASE \E l \in family.labels : BindLabel(l)
  BY <1>7, BindLabelStep
<1>8. CASE Finish
  BY <1>8, FinishStep
<1>9. CASE \E t \in {"trusted", "untrusted"} : LoadBuilt(t)
  BY <1>9, AcceptStep DEF LoadBuilt
<1>10. CASE /\ phase = "built"
            /\ \E t \in {"trusted", "untrusted"} : \E n \in 0 .. Len(Encode(built)) :
                 LoadFile(Encode(built), n, t)
  BY <1>10, LoadFileStep
<1> QED BY <1>1, <1>2, <1>3, <1>4, <1>5, <1>6, <1>7, <1>8, <1>9, <1>10, Zenon DEF AsmNext

-----------------------------------------------------------------------------
(***************************************************************************)
(* Once a chunk is loaded, nothing changes it.                             *)
(***************************************************************************)
Early == {"assembling", "built"}

LEMMA AsmNextEarly ==
  ASSUME AsmNext
  PROVE  phase \in Early /\ phase' \in Early \cup {"loaded", "refused"}
BY DEF AsmNext, Early, Const, BeginFunction, Emit, EmitLocal, EmitToLabel, BindLabel, Finish,
       LoadBuilt, LoadFile, Accept, Refuse

Late == /\ UNCHANGED loadVars
        /\ phase \in Phases \ {"assembling", "built", "refused"}
        /\ phase' \in Phases \ {"assembling", "built"}

LEMMA LateKeepsAsm ==
  ASSUME AsmInv, Late
  PROVE  AsmInv'
BY DEF AsmInv, Late, loadVars, PendingOK, MeantOK

LEMMA StepCounts ==
  ASSUME Step
  PROVE  Running /\ Counted
BY Zenon DEF Step, StepEnd, StepReturn, StepStop, StepNop, StepLoad, StepBinop, StepNeg,
       FreshRequestId, StepJump, StepCall, StepNative, StepEffect, Fetch

LEMMA StepIsLate ==
  ASSUME Step
  PROVE  Late
<1>1. phase = "running" /\ UNCHANGED << loadVars, phase >>
  BY StepCounts DEF Running, Counted
<1> QED BY <1>1 DEF Late, Phases

LEMMA WorkerIsLate ==
  ASSUME Worker
  PROVE  Late
<1> USE DEF Late, Phases
<1>1. CASE BeginSlice
  BY <1>1 DEF BeginSlice
<1>2. CASE EndSlice
  BY <1>2 DEF EndSlice, After
<1>3. CASE RefillLoad
  BY <1>3 DEF RefillLoad
<1>4. CASE RefillStore
  BY <1>4 DEF RefillStore
<1>5. CASE ChargeHop
  BY <1>5 DEF ChargeHop
<1>6. CASE Deliver
  BY <1>6 DEF Deliver, Delivered
<1>7. CASE Resume
  BY <1>7 DEF Resume, Pending
<1>8. CASE EffectFails
  BY <1>8 DEF EffectFails
<1> QED BY <1>1, <1>2, <1>3, <1>4, <1>5, <1>6, <1>7, <1>8, Zenon DEF Worker

LEMMA TopUpIsLate ==
  ASSUME NEW n, TopUp(n)
  PROVE  Late
BY DEF Late, Phases, TopUp, Live

LEMMA StartIsLate ==
  ASSUME NEW f, NEW args, NEW native, Start(f, args, native)
  PROVE  Late
<1>1. /\ phase = "loaded" /\ UNCHANGED loadVars
      /\ phase' = "refused" \/ phase' = "ready"
  BY DEF Start
<1> QED BY <1>1 DEF Late, Phases

Started == \E f \in 0 .. Len(chunk.functions), s \in family.spawns : Start(f, s.args, s.native)

ToppedUp == \E n \in TopUps : TopUpCpu(n) \/ TopUpMem(n) \/ TopUpSend(n)

LEMMA NextCases ==
  ASSUME Next
  PROVE  \/ AsmNext /\ UNCHANGED << vmVars, quotaVars >>
         \/ Started
         \/ Step
         \/ Worker
         \/ ToppedUp
BY Zenon DEF Next, Started, ToppedUp

LEMMA StartedIsLate ==
  ASSUME Started
  PROVE  Late
BY StartIsLate, Zenon DEF Started

LEMMA ToppedUpIsLate ==
  ASSUME ToppedUp
  PROVE  Late
<1>1. PICK n \in TopUps : TopUp(n)
  BY Zenon DEF ToppedUp, TopUpCpu, TopUpMem, TopUpSend
<1> QED BY <1>1, TopUpIsLate

LEMMA AsmInvInit ==
  ASSUME Init
  PROVE  AsmInv
<1>1. 0 \in Registers
  BY AssemblerAssumption DEF Registers
<1>2. /\ ChunkOK(chunk) /\ ChunkOK(built) /\ Len(chunk.code) = 0
  BY EmptyOK DEF Init, AsmInit, EmptyChunk
<1> QED BY <1>1, <1>2, AssemblerAssumption
       DEF Init, AsmInit, AsmInv, Phases, PendingOK, MeantOK, NoJumps

LEMMA AsmInvNext ==
  ASSUME AsmInv, [Next]_vars
  PROVE  AsmInv'
<1>1. CASE Late
  BY <1>1, LateKeepsAsm
<1>2. CASE AsmNext
  BY <1>2, AsmStep
<1>3. CASE UNCHANGED vars
  BY <1>3 DEF AsmInv, vars, asmVars, PendingOK, MeantOK
<1> QED BY <1>1, <1>2, <1>3, NextCases, StartedIsLate, StepIsLate, WorkerIsLate,
           ToppedUpIsLate, Zenon

(***************************************************************************)
(* Whatever a runtime accepts, from the builder or from a file that may    *)
(* have been cut short anywhere, is what the builder produced, and an      *)
(* untrusted one carries no authority (decode_with, verify_with).          *)
(***************************************************************************)
THEOREM LoadedAsBuilt == Spec => []LoadedIsBuilt
<1>1. Init => AsmInv
  BY AsmInvInit
<1>2. AsmInv /\ [Next]_vars => AsmInv'
  BY AsmInvNext
<1>3. AsmInv => LoadedIsBuilt
  BY DEF AsmInv, LoadedIsBuilt, Verify, MayEmbed
<1> QED BY <1>1, <1>2, <1>3, PTL DEF Spec

-----------------------------------------------------------------------------
(***************************************************************************)
(* The instructions and the hops.                                          *)
(***************************************************************************)
LEMMA QuotaInit ==
  ASSUME Init
  PROVE  QuotaInv
BY MachineAssumption DEF Init, AsmInit, QuotaInv

LEMMA StepQuota ==
  ASSUME QuotaInv, Step
  PROVE  QuotaInv'
<1>1. Running /\ Counted
  BY StepCounts
<1>2. phase = "running" /\ left > 0 /\ phase' = phase
  BY <1>1 DEF Running, Counted
<1>3. /\ left' = left - 1 /\ ran' = ran + 1 /\ executed' = executed + 1
      /\ UNCHANGED << cpu, tokens, loaded, topUps, grantedCpu, sent, grantedSend >>
  BY <1>1 DEF Counted
<1> QED BY <1>2, <1>3, MachineAssumption DEF QuotaInv

LEMMA WorkerQuota ==
  ASSUME QuotaInv, Worker
  PROVE  QuotaInv'
<1> USE MachineAssumption DEF QuotaInv
<1>1. CASE BeginSlice
  <2>1. /\ phase = "ready" /\ ran = 0 /\ left = 0
        /\ UNCHANGED << ran, cpu, tokens, loaded, topUps, executed, grantedCpu, sent, grantedSend >>
    BY <1>1 DEF BeginSlice, quotaVars
  <2>2. \/ phase' = "failed" /\ left' = left
        \/ phase' = "running" /\ left' = Slice /\ cpu > 0
    BY <1>1 DEF BeginSlice
  <2>3. cpu > 0 => Slice \in 0 .. Quantum /\ Slice <= cpu
    BY DEF Slice, Least
  <2> QED BY <2>1, <2>2, <2>3
<1>2. CASE EndSlice
  <2>1. /\ phase = "running" /\ left' = 0 /\ ran' = 0
        /\ UNCHANGED << tokens, loaded, topUps, executed, grantedCpu, sent, grantedSend >>
    BY <1>2 DEF EndSlice
  <2>2. \/ phase' = "failed" /\ cpu' = cpu
        \/ phase' = After(result) /\ cpu' = cpu - ran
    BY <1>2, Zenon DEF EndSlice
  <2>3. phase' \notin {"running", "refilling"}
    BY <2>2 DEF After
  <2> QED BY <2>1, <2>2, <2>3
<1>3. CASE RefillLoad
  BY <1>3 DEF RefillLoad, vmVars
<1>4. CASE RefillStore
  BY <1>4 DEF RefillStore, vmVars, Refilled, Least
<1>5. CASE ChargeHop
  <2>1. /\ phase' \in {"failed", "delivering"} /\ phase \in {"effect", "consuming"}
        /\ \/ tokens > 0 /\ tokens' = tokens - 1 /\ sent' = sent + 1
           \/ tokens' = tokens /\ sent' = sent
        /\ UNCHANGED << left, ran, cpu, loaded, topUps, executed, grantedCpu, grantedSend >>
    BY <1>5 DEF ChargeHop, vmVars, HasToken
  <2> QED BY <2>1
<1>6. CASE Deliver
  <2>1. /\ phase' \in {"failed", "ready", "answer"} /\ phase = "delivering"
        /\ UNCHANGED << left, ran, cpu, tokens, loaded, topUps, executed, grantedCpu, sent,
                        grantedSend >>
    BY <1>6 DEF Deliver, Delivered
  <2> QED BY <2>1
<1>7. CASE Resume
  <2>1. /\ phase' = "ready" /\ phase \in {"answer", "effect"}
        /\ UNCHANGED << left, ran, cpu, tokens, loaded, topUps, executed, grantedCpu, sent,
                        grantedSend >>
    BY <1>7 DEF Resume, Pending
  <2> QED BY <2>1
<1>8. CASE EffectFails
  <2>1. /\ phase' = "failed" /\ phase \in {"answer", "effect"}
        /\ UNCHANGED << left, ran, cpu, tokens, loaded, topUps, executed, grantedCpu, sent,
                        grantedSend >>
    BY <1>8 DEF EffectFails, vmVars, quotaVars
  <2> QED BY <2>1
<1> QED BY <1>1, <1>2, <1>3, <1>4, <1>5, <1>6, <1>7, <1>8, Zenon DEF Worker

LEMMA ToppedUpQuota ==
  ASSUME QuotaInv, ToppedUp
  PROVE  QuotaInv'
<1> USE MachineAssumption DEF QuotaInv
<1>1. PICK n \in TopUps : TopUpCpu(n) \/ TopUpMem(n) \/ TopUpSend(n)
  BY Zenon DEF ToppedUp
<1>2. n \in Int /\ Positive(n) \in Nat /\ n <= Positive(n)
  BY DEF Positive
<1>3. TopUp(n)
  BY <1>1 DEF TopUpCpu, TopUpMem, TopUpSend
<1>4. /\ UNCHANGED << phase, left, ran, loaded, executed, sent >>
      /\ topUps' = topUps + 1
  BY <1>3 DEF TopUp, vmVars
<1>5. CASE TopUpCpu(n)
  <2>1. /\ cpu' = cpu + n /\ grantedCpu' = grantedCpu + Positive(n)
        /\ UNCHANGED << tokens, grantedSend >>
    BY <1>5 DEF TopUpCpu
  <2> QED BY <1>2, <1>4, <2>1
<1>6. CASE TopUpMem(n)
  BY <1>4, <1>6 DEF TopUpMem
<1>7. CASE TopUpSend(n)
  <2>1. /\ tokens' = tokens + Positive(n) /\ grantedSend' = grantedSend + Positive(n)
        /\ UNCHANGED << cpu, grantedCpu >>
    BY <1>7 DEF TopUpSend
  <2> QED BY <1>2, <1>4, <2>1
<1> QED BY <1>1, <1>5, <1>6, <1>7

LEMMA StartedQuota ==
  ASSUME QuotaInv, Started
  PROVE  QuotaInv'
<1>1. PICK f \in 0 .. Len(chunk.functions), s \in family.spawns : Start(f, s.args, s.native)
  BY Zenon DEF Started
<1>2. /\ phase = "loaded" /\ phase' \in {"refused", "ready"}
      /\ UNCHANGED << left, ran, cpu, tokens, loaded, topUps, executed, grantedCpu, sent,
                      grantedSend >>
  BY <1>1 DEF Start
<1> QED BY <1>2 DEF QuotaInv

LEMMA QuotaNext ==
  ASSUME QuotaInv, [Next]_vars
  PROVE  QuotaInv'
<1>1. CASE AsmNext /\ UNCHANGED << vmVars, quotaVars >>
  <2>1. phase \notin {"running", "failed"} /\ phase' \notin {"running", "failed", "refilling"}
    BY <1>1, AsmNextEarly DEF Early
  <2> QED BY <1>1, <2>1 DEF QuotaInv, vmVars, quotaVars
<1>2. CASE UNCHANGED vars
  BY <1>2 DEF QuotaInv, vars, vmVars, quotaVars, asmVars
<1> QED BY <1>1, <1>2, NextCases, StartedQuota, StepQuota, WorkerQuota, ToppedUpQuota, Zenon

-----------------------------------------------------------------------------
(***************************************************************************)
(* Frames.  Len(ch.code) only needs to be a number.                        *)
(***************************************************************************)
LEMMA FrameParts ==
  ASSUME NEW ch, NEW t, NEW made, NEW fr \in FrameSet(ch, t, made)
  PROVE  /\ fr.fn \in Int /\ fr.pc \in 0 .. Len(ch.code) /\ fr.dest \in Int
         /\ fr.regs \in Seq(Allowed(ch, t, made))
BY DEF FrameSet

LEMMA FrameWith ==
  ASSUME NEW ch, NEW t, NEW made, NEW fr \in FrameSet(ch, t, made)
  PROVE  /\ \A pc \in 0 .. Len(ch.code) :
              LET new == [fr EXCEPT !.pc = pc]
              IN  /\ new \in FrameSet(ch, t, made)
                  /\ new.pc = pc /\ new.dest = fr.dest /\ new.regs = fr.regs
         /\ \A regs \in Seq(Allowed(ch, t, made)) :
              LET new == [fr EXCEPT !.regs = regs]
              IN  /\ new \in FrameSet(ch, t, made)
                  /\ new.pc = fr.pc /\ new.dest = fr.dest /\ new.regs = regs
<1> DEFINE P == 0 .. Len(ch.code)
           R == Seq(Allowed(ch, t, made))
<1>1. FrameSet(ch, t, made) = [fn : Int, pc : P, dest : Int, regs : R]
  BY DEF FrameSet
<1> HIDE DEF P, R
<1>2. fr \in [fn : Int, pc : P, dest : Int, regs : R]
  BY <1>1
<1>3. \A pc \in P : LET new == [fr EXCEPT !.pc = pc]
                   IN  /\ new \in FrameSet(ch, t, made)
                       /\ new.pc = pc /\ new.dest = fr.dest /\ new.regs = fr.regs
  BY <1>1, <1>2
<1>4. \A regs \in R : LET new == [fr EXCEPT !.regs = regs]
                     IN  /\ new \in FrameSet(ch, t, made)
                         /\ new.pc = fr.pc /\ new.dest = fr.dest /\ new.regs = regs
  BY <1>1, <1>2
<1> QED BY <1>3, <1>4 DEF P, R

(***************************************************************************)
(* The same stack with another counter, or another register, on its top.   *)
(***************************************************************************)
Like(new, fs) ==
  /\ Len(new) = Len(fs) /\ DOMAIN new = DOMAIN fs
  /\ \A f \in DOMAIN fs : new[f].dest = fs[f].dest

LEMMA SetPcIs ==
  ASSUME NEW ch, NEW t, NEW made, NEW fs \in Seq(FrameSet(ch, t, made)), fs # <<>>,
         NEW pc \in 0 .. Len(ch.code)
  PROVE  /\ SetPc(fs, pc) \in Seq(FrameSet(ch, t, made))
         /\ Like(SetPc(fs, pc), fs)
         /\ \A f \in DOMAIN fs : SetPc(fs, pc)[f].regs = fs[f].regs
         /\ SetPc(fs, pc)[Len(fs)].pc = pc
<1> DEFINE F == FrameSet(ch, t, made)
           n == Len(fs)
           top == [fs[n] EXCEPT !.pc = pc]
<1>1. n \in DOMAIN fs /\ n \in Nat /\ fs[n] \in F /\ DOMAIN fs = 1 .. n
  OBVIOUS
<1>2. /\ top \in F /\ top.pc = pc
      /\ top.dest = fs[n].dest /\ top.regs = fs[n].regs
  BY <1>1, FrameWith
<1>3. SetPc(fs, pc) = [fs EXCEPT ![n] = top]
  BY DEF SetPc
<1> HIDE DEF F, top
<1>4. fs \in Seq(F)
  BY DEF F
<1>5. /\ [fs EXCEPT ![n] = top] \in Seq(F)
      /\ Len([fs EXCEPT ![n] = top]) = n
      /\ DOMAIN [fs EXCEPT ![n] = top] = DOMAIN fs
  BY <1>1, <1>2, <1>4
<1>6. \A f \in DOMAIN fs : [fs EXCEPT ![n] = top][f] = IF f = n THEN top ELSE fs[f]
  OBVIOUS
<1> QED BY <1>1, <1>2, <1>3, <1>5, <1>6 DEF F, Like

Overwritten(fs, r, v) == [fs EXCEPT ![Len(fs)].regs[r + 1] = v]

LEMMA OverwrittenIs ==
  ASSUME NEW ch, NEW t, NEW made, NEW fs \in Seq(FrameSet(ch, t, made)),
         NEW r, HasReg(fs, r), NEW v \in Allowed(ch, t, made)
  PROVE  /\ Overwritten(fs, r, v) \in Seq(FrameSet(ch, t, made))
         /\ Like(Overwritten(fs, r, v), fs)
         /\ \A f \in DOMAIN fs : /\ Overwritten(fs, r, v)[f].pc = fs[f].pc
                                 /\ DOMAIN Overwritten(fs, r, v)[f].regs = DOMAIN fs[f].regs
                                 /\ \A x \in DOMAIN fs[f].regs :
                                      Overwritten(fs, r, v)[f].regs[x] \in {fs[f].regs[x], v}
<1> DEFINE F == FrameSet(ch, t, made)
           n == Len(fs)
           regs == [fs[n].regs EXCEPT ![r + 1] = v]
           top == [fs[n] EXCEPT !.regs = regs]
<1>1. n \in DOMAIN fs /\ n \in Nat /\ fs[n] \in F /\ DOMAIN fs = 1 .. n
  BY DEF HasReg
<1>2. fs[n].regs \in Seq(Allowed(ch, t, made)) /\ r + 1 \in DOMAIN fs[n].regs
  BY <1>1, FrameParts DEF HasReg
<1>3. /\ regs \in Seq(Allowed(ch, t, made)) /\ DOMAIN regs = DOMAIN fs[n].regs
      /\ \A x \in DOMAIN fs[n].regs : regs[x] \in {fs[n].regs[x], v}
  <2> DEFINE A == Allowed(ch, t, made)
             old == fs[n].regs
             at == r + 1
             new == [old EXCEPT ![at] = v]
  <2>1. old \in Seq(A) /\ v \in A /\ at \in DOMAIN old
    BY <1>2
  <2> HIDE DEF A, old, at
  <2>2. new \in Seq(A)
    BY <2>1
  <2>3. /\ DOMAIN new = DOMAIN old
        /\ \A x \in DOMAIN old : new[x] \in {old[x], v}
    OBVIOUS
  <2> HIDE DEF new
  <2>4. regs = new
    BY DEF new, old, at
  <2> HIDE DEF regs
  <2> QED BY <2>2, <2>3, <2>4 DEF A, old
<1> HIDE DEF regs
<1>4. /\ top \in F /\ top.pc = fs[n].pc
      /\ top.dest = fs[n].dest /\ top.regs = regs
  BY <1>1, <1>3, FrameWith
<1>5. Overwritten(fs, r, v) = [fs EXCEPT ![n] = top]
  BY DEF Overwritten, regs
<1> HIDE DEF F, top
<1>6. fs \in Seq(F)
  BY DEF F
<1>7. /\ [fs EXCEPT ![n] = top] \in Seq(F)
      /\ Len([fs EXCEPT ![n] = top]) = n
      /\ DOMAIN [fs EXCEPT ![n] = top] = DOMAIN fs
  BY <1>1, <1>4, <1>6
<1>8. \A f \in DOMAIN fs : [fs EXCEPT ![n] = top][f] = IF f = n THEN top ELSE fs[f]
  OBVIOUS
<1> QED BY <1>1, <1>3, <1>4, <1>5, <1>7, <1>8 DEF F, Like

-----------------------------------------------------------------------------
(***************************************************************************)
(* What the registers of a stack hold.                                     *)
(***************************************************************************)
LEMMA InHeapOf ==
  ASSUME NEW fs, NEW v
  PROVE  v \in HeapOf(fs) <=>
           /\ v.k \in Heap
           /\ \E f \in DOMAIN fs : \E r \in DOMAIN fs[f].regs : v = fs[f].regs[r]
BY DEF HeapOf

LEMMA HeapIsAllowed ==
  ASSUME NEW ch, NEW t, NEW made, NEW fs \in Seq(FrameSet(ch, t, made)), NEW v \in HeapOf(fs)
  PROVE  v \in Allowed(ch, t, made) /\ v.k \in Heap
<1>1. PICK f \in DOMAIN fs : \E r \in DOMAIN fs[f].regs : v = fs[f].regs[r]
  BY InHeapOf
<1>2. PICK r \in DOMAIN fs[f].regs : v = fs[f].regs[r]
  BY <1>1
<1>3. fs[f] \in FrameSet(ch, t, made)
  BY <1>1
<1>4. fs[f].regs \in Seq(Allowed(ch, t, made))
  BY <1>3, FrameParts
<1>5. fs[f].regs[r] \in Allowed(ch, t, made)
  BY <1>2, <1>4
<1> QED BY <1>2, <1>5, InHeapOf

LEMMA HeapOfSetPc ==
  ASSUME NEW ch, NEW t, NEW made, NEW fs \in Seq(FrameSet(ch, t, made)), fs # <<>>,
         NEW pc \in 0 .. Len(ch.code)
  PROVE  HeapOf(SetPc(fs, pc)) = HeapOf(fs)
<1>1. DOMAIN SetPc(fs, pc) = DOMAIN fs /\ \A f \in DOMAIN fs : SetPc(fs, pc)[f].regs = fs[f].regs
  BY SetPcIs DEF Like
<1>2. \A v : v \in HeapOf(SetPc(fs, pc)) <=> v \in HeapOf(fs)
  BY <1>1, InHeapOf
<1> QED BY <1>2, Zenon

LEMMA HeapOfOverwritten ==
  ASSUME NEW ch, NEW t, NEW made, NEW fs \in Seq(FrameSet(ch, t, made)),
         NEW r, HasReg(fs, r), NEW v \in Allowed(ch, t, made)
  PROVE  HeapOf(Overwritten(fs, r, v)) \subseteq HeapOf(fs) \cup {w \in {v} : w.k \in Heap}
<1> DEFINE new == Overwritten(fs, r, v)
<1>1. /\ DOMAIN new = DOMAIN fs
      /\ \A f \in DOMAIN fs : /\ DOMAIN new[f].regs = DOMAIN fs[f].regs
                              /\ \A x \in DOMAIN fs[f].regs : new[f].regs[x] \in {fs[f].regs[x], v}
  BY OverwrittenIs DEF Like
<1> HIDE DEF new
<1>2. ASSUME NEW w \in HeapOf(new) PROVE w \in HeapOf(fs) \/ (w = v /\ w.k \in Heap)
  <2>1. w.k \in Heap /\ \E f \in DOMAIN new : \E x \in DOMAIN new[f].regs : w = new[f].regs[x]
    BY <1>2, InHeapOf
  <2>2. PICK f \in DOMAIN fs : \E x \in DOMAIN fs[f].regs : w = new[f].regs[x]
    BY <1>1, <2>1
  <2>3. PICK x \in DOMAIN fs[f].regs : w = new[f].regs[x]
    BY <2>2
  <2>4. w = fs[f].regs[x] \/ w = v
    BY <1>1, <2>3
  <2> QED BY <2>1, <2>3, <2>4, InHeapOf
<1> QED BY <1>2 DEF new

LEMMA HeapOfPopped ==
  ASSUME NEW ch, NEW t, NEW made, NEW fs \in Seq(FrameSet(ch, t, made)), fs # <<>>
  PROVE  LET popped == SubSeq(fs, 1, Len(fs) - 1) IN
           /\ popped \in Seq(FrameSet(ch, t, made))
           /\ Len(popped) = Len(fs) - 1
           /\ \A f \in DOMAIN popped : f \in DOMAIN fs /\ popped[f] = fs[f]
           /\ HeapOf(popped) \subseteq HeapOf(fs)
<1> DEFINE F == FrameSet(ch, t, made)
           popped == SubSeq(fs, 1, Len(fs) - 1)
<1>1. fs \in Seq(F) /\ Len(fs) \in Nat /\ Len(fs) # 0
  OBVIOUS
<1> HIDE DEF F
<1>2. /\ popped \in Seq(F) /\ Len(popped) = Len(fs) - 1
      /\ \A f \in 1 .. Len(fs) - 1 : popped[f] = fs[f]
  <2>1. Len(fs) - 1 \in Nat /\ Len(fs) - 1 <= Len(fs)
    BY <1>1
  <2>2. Len(popped) = Len(fs) - 1
    <3>0. Len(fs) - 1 \in 0 .. Len(fs)
      BY <1>1
    <3>1. PICK m \in 0 .. Len(fs) : m = Len(fs) - 1
      BY <3>0, Zenon
    <3>2. Len(SubSeq(fs, 1, m)) = m
      BY <1>1
    <3> QED BY <3>1, <3>2
  <2>3. \A f \in 1 .. Len(fs) - 1 : popped[f] = fs[f]
    BY <1>1, <2>1
  <2>4. popped \in Seq(F)
    BY <1>1, <2>1
  <2> QED BY <2>2, <2>3, <2>4
<1> HIDE DEF popped
<1>3. DOMAIN popped = 1 .. Len(fs) - 1 /\ DOMAIN fs = 1 .. Len(fs)
  BY <1>1, <1>2
<1>4. \A f \in DOMAIN popped : f \in DOMAIN fs /\ popped[f] = fs[f]
  BY <1>1, <1>2, <1>3
<1>5. \A v \in HeapOf(popped) : v \in HeapOf(fs)
  BY <1>4, InHeapOf
<1> QED BY <1>2, <1>4, <1>5 DEF F, popped

LEMMA HeapOfPushed ==
  ASSUME NEW ch, NEW t, NEW made, NEW fs \in Seq(FrameSet(ch, t, made)),
         NEW fr \in FrameSet(ch, t, made),
         \A r \in DOMAIN fr.regs : fr.regs[r].k \in Heap => fr.regs[r] \in HeapOf(fs)
  PROVE  /\ Append(fs, fr) \in Seq(FrameSet(ch, t, made))
         /\ Len(Append(fs, fr)) = Len(fs) + 1
         /\ fs # <<>> => Append(fs, fr)[1] = fs[1]
         /\ HeapOf(Append(fs, fr)) \subseteq HeapOf(fs)
<1> DEFINE F == FrameSet(ch, t, made)
           new == Append(fs, fr)
<1>1. fs \in Seq(F) /\ fr \in F /\ Len(fs) \in Nat
  OBVIOUS
<1> HIDE DEF F
<1>2. /\ new \in Seq(F) /\ Len(new) = Len(fs) + 1
      /\ \A f \in 1 .. Len(fs) : new[f] = fs[f]
      /\ new[Len(fs) + 1] = fr
  BY <1>1
<1> HIDE DEF new
<1>3. DOMAIN new = 1 .. Len(fs) + 1 /\ DOMAIN fs = 1 .. Len(fs)
  BY <1>1, <1>2
<1>4. fs # <<>> => new[1] = fs[1]
  BY <1>1, <1>2, <1>3
<1>5. \A f \in DOMAIN new : (f \in DOMAIN fs /\ new[f] = fs[f]) \/ new[f] = fr
  BY <1>1, <1>2, <1>3
<1>6. ASSUME NEW v \in HeapOf(new) PROVE v \in HeapOf(fs)
  <2>1. PICK f \in DOMAIN new : \E r \in DOMAIN new[f].regs : v = new[f].regs[r]
    BY <1>6, InHeapOf
  <2>2. v.k \in Heap
    BY <1>6, InHeapOf
  <2>3. CASE f \in DOMAIN fs /\ new[f] = fs[f]
    BY <2>1, <2>2, <2>3, InHeapOf
  <2>4. CASE new[f] = fr
    BY <2>1, <2>2, <2>4
  <2> QED BY <1>5, <2>3, <2>4
<1> QED BY <1>2, <1>4, <1>6 DEF F, new

-----------------------------------------------------------------------------
(***************************************************************************)
(* What heap values weigh.                                                 *)
(***************************************************************************)
LEMMA WeightOver ==
  ASSUME NEW S, Weighed(S), NEW R, R \subseteq S
  PROVE  Weight(R) = SumFunctionOnSet([v \in S |-> HeapCost(v)], R)
<1>1. IsFiniteSet(R)
  BY FS_Subset DEF Weighed
<1> DEFINE e == [v \in R |-> HeapCost(v)]
           f == [v \in S |-> HeapCost(v)]
<1>2. \A v \in R : e[v] = f[v]
  OBVIOUS
<1> HIDE DEF e, f
<1>3. SumFunctionOnSet(e, R) = SumFunctionOnSet(f, R)
  BY <1>1, <1>2, SumSame
<1> QED BY <1>3 DEF Weight, e, f

LEMMA WeightIsNat ==
  ASSUME NEW S, Weighed(S)
  PROVE  Weight(S) \in Nat
<1> DEFINE f == [v \in S |-> HeapCost(v)]
<1>1. \A v \in S : f[v] \in Nat
  BY DEF Weighed
<1> HIDE DEF f
<1>2. SumFunctionOnSet(f, S) \in Nat
  BY <1>1, SumIsNat DEF Weighed
<1> QED BY <1>2 DEF Weight, f

LEMMA WeightOfSubset ==
  ASSUME NEW S, Weighed(S), NEW R, R \subseteq S
  PROVE  Weighed(R) /\ Weight(R) <= Weight(S)
<1> DEFINE f == [v \in S |-> HeapCost(v)]
<1>1. \A v \in S : f[v] \in Nat
  BY DEF Weighed
<1>2. Weight(R) = SumFunctionOnSet(f, R) /\ Weight(S) = SumFunctionOnSet(f, S)
  BY WeightOver
<1> HIDE DEF f
<1>3. SumFunctionOnSet(f, R) <= SumFunctionOnSet(f, S)
  BY <1>1, SumMonotone DEF Weighed
<1>4. Weighed(R)
  BY FS_Subset DEF Weighed
<1> QED BY <1>2, <1>3, <1>4

LEMMA WeightWithOneMore ==
  ASSUME NEW S, Weighed(S), NEW x, HeapCost(x) \in Nat
  PROVE  Weighed(S \cup {x}) /\ Weight(S \cup {x}) <= Weight(S) + HeapCost(x)
<1>1. Weighed(S \cup {x})
  <2>1. IsFiniteSet(S \cup {x})
    BY FS_AddElement DEF Weighed
  <2> QED BY <2>1 DEF Weighed
<1>2. CASE x \in S
  <2>1. S \cup {x} = S
    BY <1>2
  <2>2. Weight(S) \in Nat
    BY WeightIsNat
  <2>3. Weight(S) <= Weight(S) + HeapCost(x)
    BY <2>2
  <2> QED BY <1>1, <2>1, <2>3
<1>3. CASE x \notin S
  <2> DEFINE B == S \cup {x}
             f == [v \in B |-> HeapCost(v)]
  <2>1. \A v \in B : f[v] = HeapCost(v) /\ f[v] \in Nat
    BY <1>1 DEF Weighed
  <2>2. B \ {x} = S /\ x \in B
    BY <1>3
  <2>3. Weight(S) = SumFunctionOnSet(f, S) /\ Weight(B) = SumFunctionOnSet(f, B)
    <3>1. Weighed(B) /\ S \subseteq B /\ B \subseteq B
      BY <1>1
    <3> HIDE DEF B
    <3> QED BY <3>1, WeightOver
  <2>4. IsFiniteSet(B)
    BY <1>1 DEF Weighed
  <2> HIDE DEF f, B
  <2>5. SumFunctionOnSet(f, B) = f[x] + SumFunctionOnSet(f, B \ {x})
    BY <2>1, <2>2, <2>4, SumRemove
  <2>6. SumFunctionOnSet(f, S) \in Nat
    BY <2>3, WeightIsNat
  <2>7. SumFunctionOnSet(f, B) = HeapCost(x) + SumFunctionOnSet(f, S)
    BY <2>1, <2>2, <2>5, Zenon
  <2>8. Weight(B) <= Weight(S) + HeapCost(x)
    BY <2>3, <2>6, <2>7
  <2> QED BY <1>1, <2>8 DEF B
<1> QED BY <1>2, <1>3

(***************************************************************************)
(* Fewer values, a larger charge, a larger limit.                          *)
(***************************************************************************)
LEMMA CoversFewer ==
  ASSUME NEW S, NEW used, NEW limit, NEW hop, Covered(S, used, limit, hop),
         NEW R, R \subseteq S, NEW now \in Nat, NEW most \in Nat, now <= most,
         NEW flies \in Nat, now - flies >= used - hop
  PROVE  Covered(R, now, most, flies)
<1>1. Weighed(S) /\ OneEach(S) /\ used \in Nat /\ hop \in Nat /\ Weight(S) + hop <= used
  BY DEF Covered
<1>2. Weighed(R) /\ Weight(R) <= Weight(S) /\ Weight(R) \in Nat /\ Weight(S) \in Nat
  <2>1. Weighed(R) /\ Weight(R) <= Weight(S)
    BY <1>1, WeightOfSubset
  <2> QED BY <1>1, <2>1, WeightIsNat
<1>3. OneEach(R)
  BY <1>1 DEF OneEach
<1>4. Weight(R) + flies <= now
  BY <1>1, <1>2
<1> QED BY <1>2, <1>3, <1>4 DEF Covered

LEMMA StaysCovered ==
  ASSUME NEW S, NEW used, NEW limit, Covered(S, used, limit, 0),
         NEW R, R \subseteq S, NEW now \in Nat, NEW most \in Nat, now <= most, used <= now
  PROVE  Covered(R, now, most, 0)
<1>1. used \in Nat
  BY DEF Covered
<1>2. now - 0 >= used - 0 /\ 0 \in Nat
  BY <1>1
<1> QED BY <1>2, CoversFewer

(***************************************************************************)
(* A value that its kind and its origin tell apart from the others.        *)
(***************************************************************************)
Same(S, v) ==
  v.k \in Heap => HeapCost(v) \in Nat /\ \A w \in S : w.k = v.k /\ w.id = v.id => w = v

LEMMA CoversOneMore ==
  ASSUME NEW S, NEW used, NEW limit, Covered(S, used, limit, 0),
         NEW v, v.k \in Heap, Same(S, v), used + HeapCost(v) <= limit
  PROVE  Covered(S \cup {v}, used + HeapCost(v), limit, 0)
<1>1. Weighed(S) /\ OneEach(S) /\ used \in Nat /\ limit \in Nat /\ Weight(S) <= used
  <2>1. Weighed(S) /\ OneEach(S) /\ used \in Nat /\ limit \in Nat /\ Weight(S) + 0 <= used
    BY DEF Covered
  <2>2. Weight(S) \in Nat
    BY <2>1, WeightIsNat
  <2> QED BY <2>1, <2>2
<1>2. HeapCost(v) \in Nat /\ \A w \in S : w.k = v.k /\ w.id = v.id => w = v
  BY DEF Same
<1>3. /\ Weighed(S \cup {v}) /\ Weight(S \cup {v}) <= Weight(S) + HeapCost(v)
      /\ Weight(S) \in Nat /\ Weight(S \cup {v}) \in Nat
  <2>1. Weighed(S \cup {v}) /\ Weight(S \cup {v}) <= Weight(S) + HeapCost(v)
    BY <1>1, <1>2, WeightWithOneMore
  <2> QED BY <1>1, <2>1, WeightIsNat
<1>4. OneEach(S \cup {v})
  <2>1. ASSUME NEW x \in S \cup {v}, NEW y \in S \cup {v}, x.k = y.k, x.id = y.id PROVE x = y
    <3>1. CASE x \in S /\ y \in S
      BY <1>1, <2>1, <3>1, Zenon DEF OneEach
    <3>2. CASE x \in S /\ y = v
      BY <1>2, <2>1, <3>2, Zenon
    <3>3. CASE x = v /\ y \in S
      <4>1. y.k = v.k /\ y.id = v.id
        BY <2>1, <3>3
      <4> QED BY <1>2, <3>3, <4>1, Zenon
    <3>4. CASE x = v /\ y = v
      BY <3>4
    <3> QED BY <2>1, <3>1, <3>2, <3>3, <3>4
  <2> QED BY <2>1, Zenon DEF OneEach
<1>5. Weight(S \cup {v}) + 0 <= used + HeapCost(v) /\ used + HeapCost(v) \in Nat
  BY <1>1, <1>2, <1>3
<1> QED BY <1>1, <1>3, <1>4, <1>5 DEF Covered

(***************************************************************************)
(* set_reg: whatever the store does, the stack keeps its shape and the     *)
(* charge covers it.                                                       *)
(***************************************************************************)
LEMMA StoreKeeps ==
  ASSUME NEW ch, NEW t, NEW made, NEW fs \in Seq(FrameSet(ch, t, made)), fs # <<>>,
         NEW r, NEW v \in Allowed(ch, t, made), NEW S, HeapOf(fs) \subseteq S,
         Covered(S, memUsed, memLimit, 0), Same(S, v), ChargeStore(fs, r, v)
  PROVE  /\ Put(fs, r, v) \in Seq(FrameSet(ch, t, made))
         /\ Like(Put(fs, r, v), fs)
         /\ \A f \in DOMAIN fs : Put(fs, r, v)[f].pc = fs[f].pc
         /\ Covered(HeapOf(Put(fs, r, v)), memUsed', memLimit, 0)
<1> DEFINE cost == StoreCost(fs, r, v)
<1>0. memUsed \in Nat /\ memLimit \in Nat /\ memUsed <= memLimit
  BY DEF Covered
<1>1. cost = 0 \/ (v.k \in Heap /\ cost = HeapCost(v) /\ cost \in Nat)
  BY DEF StoreCost, HeapCost, Same
<1>2. cost \in Nat
  BY <1>1
<1>3. CASE StoreFault(fs, r, v) # "none"
  <2>1. Put(fs, r, v) = fs
    BY <1>3 DEF Put
  <2>2. memUsed' = memUsed \/ (memUsed' = memUsed + cost /\ ~ (cost > 0 /\ memUsed + cost > memLimit))
    BY DEF ChargeStore, StoreFault
  <2>3. memUsed' \in Nat /\ memUsed' >= memUsed /\ memUsed' <= memLimit
    <3> HIDE DEF cost
    <3> QED BY <1>0, <1>2, <2>2
  <2>4. Covered(HeapOf(fs), memUsed', memLimit, 0)
    BY <1>0, <2>3, StaysCovered
  <2> QED BY <2>1, <2>4 DEF Like
<1>4. CASE StoreFault(fs, r, v) = "none"
  <2>1. /\ Put(fs, r, v) = Overwritten(fs, r, v) /\ HasReg(fs, r)
        /\ memUsed' = memUsed + cost
        /\ ~ (cost > 0 /\ memUsed + cost > memLimit)
    BY <1>4 DEF Put, Overwritten, StoreFault, ChargeStore
  <2>2. memUsed' \in Nat /\ memUsed' >= memUsed /\ memUsed' <= memLimit
    <3> HIDE DEF cost
    <3> QED BY <1>0, <1>2, <2>1
  <2>3. \A w \in HeapOf(Overwritten(fs, r, v)) : w \in S \/ (w = v /\ v.k \in Heap)
    <3>1. HeapOf(Overwritten(fs, r, v)) \subseteq HeapOf(fs) \cup {w \in {v} : w.k \in Heap}
      BY <2>1, HeapOfOverwritten
    <3> QED BY <3>1
  <2>5. CASE v.k \in Heap /\ ~ SameArc(fs, r, v)
    <3>1. cost = HeapCost(v)
      BY <2>5 DEF StoreCost, HeapCost
    <3>2. memUsed + HeapCost(v) <= memLimit
      BY <2>1, <2>2, <3>1
    <3>3. Covered(S \cup {v}, memUsed + HeapCost(v), memLimit, 0)
      BY <2>5, <3>2, CoversOneMore
    <3>4. Covered(S \cup {v}, memUsed', memLimit, 0)
      BY <2>1, <3>1, <3>3
    <3>5. HeapOf(Overwritten(fs, r, v)) \subseteq S \cup {v}
      BY <2>3
    <3>6. memUsed' <= memUsed'
      BY <2>2
    <3>7. Covered(HeapOf(Overwritten(fs, r, v)), memUsed', memLimit, 0)
      BY <1>0, <2>2, <3>4, <3>5, <3>6, StaysCovered
    <3> QED BY <2>1, <3>7, OverwrittenIs
  <2>6. CASE ~ (v.k \in Heap /\ ~ SameArc(fs, r, v))
    <3>1. v.k \in Heap => v \in S
      <4>1. SUFFICES ASSUME v.k \in Heap PROVE v \in S
        OBVIOUS
      <4> DEFINE w == fs[Len(fs)].regs[r + 1]
      <4>2. w.k = v.k /\ w.id = v.id /\ r + 1 \in DOMAIN fs[Len(fs)].regs
        BY <2>6, <4>1 DEF SameArc, HasReg
      <4>3. Len(fs) \in DOMAIN fs
        OBVIOUS
      <4>4. w \in HeapOf(fs)
        BY <4>1, <4>2, <4>3, InHeapOf
      <4> HIDE DEF w
      <4>5. w \in S
        BY <4>4
      <4> QED BY <4>1, <4>2, <4>5 DEF Same
    <3>2. HeapOf(Overwritten(fs, r, v)) \subseteq S
      BY <2>3, <3>1
    <3>3. Covered(HeapOf(Overwritten(fs, r, v)), memUsed', memLimit, 0)
      BY <1>0, <2>2, <3>2, StaysCovered
    <3> QED BY <2>1, <3>3, OverwrittenIs
  <2> QED BY <2>5, <2>6
<1> QED BY <1>3, <1>4

-----------------------------------------------------------------------------
(***************************************************************************)
(* Before an instruction: there is a frame, and the verifier has seen what *)
(* it points at.                                                           *)
(***************************************************************************)
VmInv == StackInv /\ ResultInv /\ HeldInv

EffectSet == [op : Range(Opcodes) \cup {"none"}, dest : Int, cost : Nat]

LEMMA AtInstruction ==
  ASSUME AsmInv, VmInv, Running
  PROVE  /\ frames \in Seq(FrameSet(chunk, trust, fresh)) /\ frames # <<>>
         /\ Len(frames) \in Nat /\ Len(frames) \in DOMAIN frames /\ Len(frames) <= MaxDepth
         /\ frames[1].dest = Outermost
         /\ Top \in FrameSet(chunk, trust, fresh)
         /\ Top.pc \in 0 .. Len(chunk.code) /\ Top.dest \in Int
         /\ Len(chunk.code) \in Nat
         /\ Verify(chunk, trust) /\ ChunkOK(chunk)
         /\ Covered(HeapOf(frames), memUsed, memLimit, 0)
<1>1. phase = "running" /\ result = None
  BY DEF Running
<1>2. frames # <<>>
  <2>1. None # Complete
    BY DEF None, Complete, Result
  <2> QED BY <1>1, <2>1 DEF VmInv, ResultInv, Active
<1>3. /\ frames \in Seq(FrameSet(chunk, trust, fresh)) /\ Len(frames) <= MaxDepth
      /\ frames[1].dest = Outermost
  BY <1>2 DEF VmInv, StackInv
<1>4. Len(frames) \in Nat /\ Len(frames) \in DOMAIN frames
  BY <1>2, <1>3
<1>5. Top \in FrameSet(chunk, trust, fresh)
  BY <1>3, <1>4 DEF Top
<1>6. Verify(chunk, trust) /\ ChunkOK(chunk)
  BY <1>1 DEF AsmInv
<1>7. Len(chunk.code) \in Nat
  BY <1>6, ChunkParts DEF ChunkOK
<1>8. Covered(HeapOf(frames), memUsed, memLimit, 0)
  BY <1>1 DEF VmInv, HeldInv, InFlight
<1>9. Top.pc \in 0 .. Len(chunk.code) /\ Top.dest \in Int
  BY <1>5, FrameParts
<1> QED BY <1>2, <1>3, <1>4, <1>5, <1>6, <1>7, <1>8, <1>9

LEMMA Fetched ==
  ASSUME AsmInv, VmInv, NEW ops, Fetch(ops)
  PROVE  /\ Here \in Instructions /\ Here.op \in ops
         /\ OperandOK(chunk, Top.pc)
         /\ Top.pc \in Nat /\ Top.pc + 1 \in 0 .. Len(chunk.code)
         /\ Advanced \in Seq(FrameSet(chunk, trust, fresh)) /\ Advanced # <<>>
         /\ Like(Advanced, frames)
         /\ HeapOf(Advanced) = HeapOf(frames)
         /\ Advanced[Len(frames)].pc = Top.pc + 1
<1>1. Running /\ Top.pc < Len(chunk.code) /\ Here.op \in ops
  BY DEF Fetch
<1>2. /\ frames \in Seq(FrameSet(chunk, trust, fresh)) /\ frames # <<>>
      /\ Top.pc \in 0 .. Len(chunk.code) /\ Len(chunk.code) \in Nat
      /\ Verify(chunk, trust) /\ ChunkOK(chunk)
  BY <1>1, AtInstruction
<1>3. Top.pc \in 0 .. Len(chunk.code) - 1 /\ Top.pc + 1 \in 0 .. Len(chunk.code)
      /\ Top.pc + 1 \in 1 .. Len(chunk.code) /\ Top.pc \in Nat
  BY <1>1, <1>2
<1>4. Here \in Instructions
  <2>1. chunk.code \in Seq(Instructions)
    BY <1>2, ChunkParts DEF ChunkOK
  <2> QED BY <1>3, <2>1 DEF Here
<1>5. OperandOK(chunk, Top.pc)
  BY <1>2, <1>3 DEF Verify
<1>6. /\ Advanced \in Seq(FrameSet(chunk, trust, fresh)) /\ Like(Advanced, frames)
      /\ Advanced[Len(frames)].pc = Top.pc + 1
  BY <1>2, <1>3, SetPcIs DEF Advanced
<1>7. HeapOf(Advanced) = HeapOf(frames)
  BY <1>2, <1>3, HeapOfSetPc DEF Advanced
<1>8. Advanced # <<>>
  BY <1>2, <1>6 DEF Like
<1> QED BY <1>1, <1>3, <1>4, <1>5, <1>6, <1>7, <1>8

LEMMA RegIs ==
  ASSUME AsmInv, VmInv, Running, NEW r, HasReg(frames, r)
  PROVE  /\ Reg(r) \in Allowed(chunk, trust, fresh)
         /\ Reg(r).k \in Heap => Reg(r) \in HeapOf(frames)
         /\ Same(HeapOf(frames), Reg(r))
<1>1. /\ Top \in FrameSet(chunk, trust, fresh) /\ Len(frames) \in DOMAIN frames
      /\ Covered(HeapOf(frames), memUsed, memLimit, 0)
  BY AtInstruction
<1>2. Top.regs \in Seq(Allowed(chunk, trust, fresh)) /\ r + 1 \in DOMAIN Top.regs
  BY <1>1, FrameParts DEF HasReg, Top
<1>3. Reg(r) \in Allowed(chunk, trust, fresh)
  BY <1>2 DEF Reg
<1>4. Reg(r).k \in Heap => Reg(r) \in HeapOf(frames)
  BY <1>1, <1>2, InHeapOf DEF Reg, Top
<1>5. Same(HeapOf(frames), Reg(r))
  BY <1>1, <1>4, Zenon DEF Same, Covered, Weighed, OneEach
<1> QED BY <1>3, <1>4, <1>5

(***************************************************************************)
(* After an instruction.                                                   *)
(***************************************************************************)
LEMMA RunKeeps ==
  ASSUME AsmInv, VmInv, Running, Counted,
         frames' \in Seq(FrameSet(chunk, trust, fresh')), Len(frames') <= MaxDepth,
         frames' # <<>> => frames'[1].dest = Outermost,
         Covered(HeapOf(frames'), memUsed', memLimit, 0),
         result'.why \notin {"const", "function"},
         result'.why = "invariant" =>
           frames' # <<>> /\ chunk.code[frames'[Len(frames')].pc].op = "Mod",
         frames' = <<>> => result' = Complete,
         effect' \in EffectSet, nextId' \in Nat, fresh' \in Nat
  PROVE  VmInv'
<1>1. /\ phase' = "running" /\ chunk' = chunk /\ trust' = trust /\ memLimit' = memLimit
      /\ gate' = gate
  BY DEF Running, Counted, loadVars
<1>2. StackInv'
  BY <1>1 DEF StackInv
<1>3. gate \in BOOLEAN
  BY DEF VmInv, ResultInv
<1>4. ResultInv'
  BY <1>1, <1>3 DEF ResultInv, Top, EffectSet
<1>5. HeldInv'
  BY <1>1 DEF HeldInv, InFlight
<1> QED BY <1>2, <1>4, <1>5 DEF VmInv

LEMMA Ended ==
  ASSUME AsmInv, VmInv, NEW ops, Fetch(ops), NEW r, Ends(r),
         r.why \notin {"const", "function"}, r.why = "invariant" => Here.op = "Mod"
  PROVE  VmInv'
<1>1. Running /\ Counted
  BY DEF Fetch
<1>2. /\ frames' = Advanced /\ result' = r
      /\ UNCHANGED << effect, nextId, fresh, memUsed >>
  BY DEF Ends
<1>3. /\ Advanced \in Seq(FrameSet(chunk, trust, fresh)) /\ Advanced # <<>>
      /\ Like(Advanced, frames) /\ HeapOf(Advanced) = HeapOf(frames)
      /\ Advanced[Len(frames)].pc = Top.pc + 1
  BY Fetched
<1>4. /\ frames # <<>> /\ Len(frames) <= MaxDepth /\ frames[1].dest = Outermost
      /\ Len(frames) \in Nat /\ frames \in Seq(FrameSet(chunk, trust, fresh))
      /\ Covered(HeapOf(frames), memUsed, memLimit, 0)
  BY <1>1, AtInstruction
<1>5. 1 \in DOMAIN frames
  BY <1>4
<1>6. /\ Len(frames') = Len(frames) /\ frames'[1].dest = Outermost
  BY <1>2, <1>3, <1>4, <1>5 DEF Like
<1>7. chunk.code[frames'[Len(frames')].pc] = Here
  BY <1>2, <1>3, <1>6 DEF Here
<1>8. effect' \in EffectSet /\ nextId' \in Nat /\ fresh' \in Nat
  BY <1>2 DEF VmInv, ResultInv, EffectSet
<1>9. Covered(HeapOf(frames'), memUsed', memLimit, 0)
  BY <1>2, <1>3, <1>4
<1>10. frames' \in Seq(FrameSet(chunk, trust, fresh')) /\ frames' # <<>>
  BY <1>2, <1>3
<1>11. /\ result'.why \notin {"const", "function"}
       /\ result'.why = "invariant" => chunk.code[frames'[Len(frames')].pc].op = "Mod"
  BY <1>2, <1>7
<1>12. Len(frames') <= MaxDepth
  BY <1>4, <1>6
<1> QED BY <1>1, <1>6, <1>8, <1>9, <1>10, <1>11, <1>12, RunKeeps

(***************************************************************************)
(* More natives may have run.                                              *)
(***************************************************************************)
LEMMA MoreMade ==
  ASSUME NEW ch, NEW t, NEW made \in Nat, NEW more \in Nat, made <= more
  PROVE  /\ Allowed(ch, t, made) \subseteq Allowed(ch, t, more)
         /\ FrameSet(ch, t, made) \subseteq FrameSet(ch, t, more)
         /\ Seq(FrameSet(ch, t, made)) \subseteq Seq(FrameSet(ch, t, more))
<1>1. Allowed(ch, t, made) \subseteq Allowed(ch, t, more)
  <2>1. SUFFICES ASSUME NEW v \in Allowed(ch, t, made) PROVE v \in Allowed(ch, t, more)
    OBVIOUS
  <2>2. v.id \in Int /\ (v.id >= -made => v.id >= -more)
    BY DEF Allowed
  <2> QED BY <2>2 DEF Allowed
<1>2. Seq(Allowed(ch, t, made)) \subseteq Seq(Allowed(ch, t, more))
  BY <1>1
<1>3. FrameSet(ch, t, made) \subseteq FrameSet(ch, t, more)
  <2> DEFINE P == 0 .. Len(ch.code)
             Q == Seq(Allowed(ch, t, made))
             R == Seq(Allowed(ch, t, more))
  <2>1. /\ FrameSet(ch, t, made) = [fn : Int, pc : P, dest : Int, regs : Q]
        /\ FrameSet(ch, t, more) = [fn : Int, pc : P, dest : Int, regs : R]
    BY DEF FrameSet
  <2>2. Q \subseteq R
    BY <1>2
  <2> HIDE DEF P, Q, R
  <2> QED BY <2>1, <2>2
<1>4. Seq(FrameSet(ch, t, made)) \subseteq Seq(FrameSet(ch, t, more))
  BY <1>3
<1> QED BY <1>1, <1>3, <1>4

LEMMA Stored ==
  ASSUME AsmInv, VmInv, NEW ops, Fetch(ops), NEW r, NEW v, Store(Advanced, r, v),
         fresh' \in Nat, fresh <= fresh',
         v \in Allowed(chunk, trust, fresh'), Same(HeapOf(frames), v),
         effect' = effect, nextId' \in Nat
  PROVE  VmInv'
<1>1. Running /\ Counted
  BY DEF Fetch
<1>2. /\ ChargeStore(Advanced, r, v) /\ frames' = Put(Advanced, r, v)
      /\ result' = None \/ result' = Trap(StoreFault(Advanced, r, v))
  BY DEF Store
<1>3. /\ Advanced \in Seq(FrameSet(chunk, trust, fresh)) /\ Advanced # <<>>
      /\ Like(Advanced, frames) /\ HeapOf(Advanced) = HeapOf(frames)
  BY Fetched
<1>4. /\ frames # <<>> /\ Len(frames) <= MaxDepth /\ frames[1].dest = Outermost
      /\ Len(frames) \in Nat /\ frames \in Seq(FrameSet(chunk, trust, fresh))
      /\ Covered(HeapOf(frames), memUsed, memLimit, 0)
  BY <1>1, AtInstruction
<1>5. 1 \in DOMAIN frames
  BY <1>4
<1>6. fresh \in Nat /\ effect \in EffectSet
  BY DEF VmInv, ResultInv, EffectSet
<1>7. Advanced \in Seq(FrameSet(chunk, trust, fresh'))
  BY <1>3, <1>6, MoreMade
<1> DEFINE fs == Advanced
           new == Put(fs, r, v)
<1>8. /\ new \in Seq(FrameSet(chunk, trust, fresh'))
      /\ Like(new, fs)
      /\ Covered(HeapOf(new), memUsed', memLimit, 0)
  <2>1. HeapOf(fs) \subseteq HeapOf(frames)
    BY <1>3
  <2> HIDE DEF fs
  <2> QED BY <1>2, <1>3, <1>4, <1>7, <2>1, StoreKeeps DEF fs
<1>9. frames' = new
  BY <1>2
<1>10. Like(fs, frames)
  BY <1>3
<1> HIDE DEF fs, new
<1>11. Len(new) = Len(frames) /\ new[1].dest = Outermost
  BY <1>4, <1>5, <1>8, <1>10 DEF Like
<1>12. frames' # <<>> /\ Len(frames') <= MaxDepth
  BY <1>4, <1>9, <1>11
<1>13. result'.why \notin {"const", "function", "invariant"}
  <2>1. StoreFault(Advanced, r, v) \in {"quota", "operand", "none"}
    BY DEF StoreFault
  <2>2. None.why = "" /\ \A why : Trap(why).why = why
    BY DEF None, Trap, Result
  <2>3. result'.why \in {"", "quota", "operand", "none"}
    BY <1>2, <2>1, <2>2
  <2> QED BY <2>3
<1> QED BY <1>1, <1>6, <1>8, <1>9, <1>11, <1>12, <1>13, RunKeeps

-----------------------------------------------------------------------------
(***************************************************************************)
(* The values the interpreter makes itself.                                *)
(***************************************************************************)
Plain(v) ==
  /\ v \in [k : Range(Kinds), n : Int, id : Int]
  /\ v.id = 0 /\ v.k \notin Heap
  /\ v.k = "msg" => v.n >= 0
  /\ InWidth(v)

LEMMA PlainFits ==
  ASSUME NEW v, Plain(v), NEW ch, NEW t, NEW made, NEW S
  PROVE  v \in Allowed(ch, t, made) /\ Same(S, v)
BY DEF Plain, Allowed, Same, Heap

LEMMA KindsAre ==
  \A k \in {"unit", "bool", "int", "float", "pid", "msg", "cap", "str", "bytes"} : k \in Range(Kinds)
<1>1. DOMAIN Kinds = 1 .. 9
  BY DEF Kinds
<1>2. /\ Kinds[1] = "unit" /\ Kinds[2] = "bool" /\ Kinds[3] = "int" /\ Kinds[4] = "float"
      /\ Kinds[5] = "pid" /\ Kinds[6] = "msg" /\ Kinds[7] = "cap" /\ Kinds[8] = "str"
      /\ Kinds[9] = "bytes"
  BY DEF Kinds
<1> QED BY <1>1, <1>2 DEF Range

LEMMA WrapFits ==
  ASSUME NEW n \in Int
  PROVE  Wrap(n) \in Int /\ Wrap(n) \in IntMin .. -(IntMin + 1)
<1> DEFINE h == 2 ^ (IntBits - 1)
           w == 2 ^ IntBits
<1>1. h \in Nat /\ h # 0 /\ w = 2 * h /\ IntMin = -h
  BY WidthAssumption DEF IntMin
<1>2. Wrap(n) = ((n - IntMin) % w) + IntMin
  BY DEF Wrap
<1> HIDE DEF h, w
<1>3. w \in Nat /\ w > 0 /\ n - IntMin \in Int
  BY <1>1
<1>4. (n - IntMin) % w \in 0 .. w - 1
  BY <1>3
<1> QED BY <1>1, <1>2, <1>3, <1>4

LEMMA MadeValues ==
  /\ \A n \in Int : Plain(IntVal(n))
  /\ \A b \in BOOLEAN : Plain(Bool(b))
  /\ Plain(Unit) /\ Plain(Cap) /\ Plain(Msg) /\ Plain(Val("float", 0, 0))
<1>1. \A n \in Int : Plain(IntVal(n))
  BY WrapFits, KindsAre DEF Plain, IntVal, Val, InWidth, Heap
<1>2. \A b \in BOOLEAN : Plain(Bool(b))
  BY KindsAre DEF Plain, Bool, Val, InWidth, Heap
<1>3. Plain(Unit) /\ Plain(Cap) /\ Plain(Msg) /\ Plain(Val("float", 0, 0))
  BY KindsAre DEF Plain, Unit, Cap, Msg, Val, InWidth, Heap
<1> QED BY <1>1, <1>2, <1>3

-----------------------------------------------------------------------------
(***************************************************************************)
(* pop_frame: only the outermost frame leaves the stack empty, and then    *)
(* the run is complete.                                                    *)
(***************************************************************************)
LEMMA Popped ==
  ASSUME AsmInv, VmInv, Running, Counted, NEW v, PopFrame(v),
         v \in Allowed(chunk, trust, fresh), Same(HeapOf(frames), v),
         UNCHANGED << effect, nextId, fresh >>
  PROVE  VmInv'
<1> DEFINE fs == SubSeq(frames, 1, Len(frames) - 1)
           dest == Top.dest
<1>1. /\ frames # <<>> /\ Len(frames) <= MaxDepth /\ frames[1].dest = Outermost
      /\ Len(frames) \in Nat /\ frames \in Seq(FrameSet(chunk, trust, fresh))
      /\ Covered(HeapOf(frames), memUsed, memLimit, 0)
  BY AtInstruction
<1>2. /\ fs \in Seq(FrameSet(chunk, trust, fresh)) /\ Len(fs) = Len(frames) - 1
      /\ \A f \in DOMAIN fs : f \in DOMAIN frames /\ fs[f] = frames[f]
      /\ HeapOf(fs) \subseteq HeapOf(frames)
  BY <1>1, HeapOfPopped
<1>3. \/ dest = Outermost /\ frames' = fs /\ result' = Complete /\ memUsed' = memUsed
      \/ /\ dest # Outermost /\ ChargeStore(fs, dest, v) /\ frames' = Put(fs, dest, v)
         /\ result' = None \/ result' = Trap("operand")
  BY Zenon DEF PopFrame
<1>4. /\ effect' \in EffectSet /\ nextId' \in Nat /\ fresh' \in Nat /\ fresh' = fresh
  BY DEF VmInv, ResultInv, EffectSet
<1>5. MaxDepth \in Nat
  BY MachineAssumption
<1>6. /\ None.why = "" /\ Complete.why = "" /\ Trap("operand").why = "operand"
  BY DEF None, Trap, Complete, Result
<1> HIDE DEF fs
<1>7. fs # <<>> => 1 \in DOMAIN fs
  BY <1>2
<1>8. CASE dest = Outermost /\ frames' = fs /\ result' = Complete /\ memUsed' = memUsed
  <2>1. frames' # <<>> => frames'[1].dest = Outermost
    BY <1>1, <1>2, <1>7, <1>8
  <2>2. memUsed \in Nat /\ memLimit \in Nat /\ memUsed <= memLimit /\ memUsed <= memUsed
    BY <1>1 DEF Covered
  <2>3. Covered(HeapOf(fs), memUsed, memLimit, 0)
    BY <1>1, <1>2, <2>2, StaysCovered
  <2>4. frames' \in Seq(FrameSet(chunk, trust, fresh'))
    BY <1>2, <1>4, <1>8
  <2>5. Len(frames') <= MaxDepth
    BY <1>1, <1>2, <1>5, <1>8
  <2>6. Covered(HeapOf(frames'), memUsed', memLimit, 0)
    BY <1>8, <2>3
  <2>7. result'.why = "" /\ result' = Complete
    BY <1>6, <1>8
  <2> QED BY <1>4, <2>1, <2>4, <2>5, <2>6, <2>7, RunKeeps
<1>9. CASE /\ dest # Outermost /\ ChargeStore(fs, dest, v) /\ frames' = Put(fs, dest, v)
           /\ result' = None \/ result' = Trap("operand")
  <2>1. fs # <<>>
    <3>1. ASSUME Len(frames) = 1 PROVE FALSE
      BY <1>1, <1>9, <3>1 DEF Top
    <3>2. Len(fs) # 0
      BY <1>1, <1>2, <3>1
    <3> QED BY <3>2
  <2> DEFINE new == Put(fs, dest, v)
  <2>2. /\ new \in Seq(FrameSet(chunk, trust, fresh)) /\ Like(new, fs)
        /\ Covered(HeapOf(new), memUsed', memLimit, 0)
    <3>1. ChargeStore(fs, dest, v)
      BY <1>9
    <3> HIDE DEF dest
    <3> QED BY <1>1, <1>2, <2>1, <3>1, StoreKeeps
  <2>3. frames' = new
    BY <1>9
  <2> HIDE DEF new
  <2>4. Len(new) = Len(frames) - 1 /\ new[1].dest = Outermost
    BY <1>1, <1>2, <1>7, <2>1, <2>2 DEF Like
  <2>5. Len(frames') <= MaxDepth
    BY <1>1, <1>5, <2>3, <2>4
  <2>6. frames' # <<>>
    <3>1. Len(new) # 0
      BY <1>2, <2>1, <2>2 DEF Like
    <3> QED BY <2>3, <3>1
  <2>7. result'.why \notin {"const", "function", "invariant"}
    BY <1>6, <1>9
  <2>8. frames' \in Seq(FrameSet(chunk, trust, fresh'))
    BY <1>4, <2>2, <2>3
  <2> QED BY <1>4, <2>2, <2>3, <2>4, <2>5, <2>6, <2>7, <2>8, RunKeeps
<1> QED BY <1>3, <1>8, <1>9

LEMMA KeepsEnd ==
  ASSUME AsmInv, VmInv, StepEnd
  PROVE  VmInv'
<1>1. Running /\ Counted /\ PopFrame(Unit) /\ UNCHANGED << effect, nextId, fresh >>
  BY DEF StepEnd
<1>2. Unit \in Allowed(chunk, trust, fresh) /\ Same(HeapOf(frames), Unit)
  BY MadeValues, PlainFits
<1> QED BY <1>1, <1>2, Popped

LEMMA KeepsReturn ==
  ASSUME AsmInv, VmInv, StepReturn
  PROVE  VmInv'
<1>1. Fetch({"Return"}) /\ Running /\ Counted
  BY DEF StepReturn, Fetch
<1>2. CASE /\ HasReg(frames, Here.a)
           /\ PopFrame(Reg(Here.a)) /\ UNCHANGED << effect, nextId, fresh >>
  <2>1. Reg(Here.a) \in Allowed(chunk, trust, fresh) /\ Same(HeapOf(frames), Reg(Here.a))
    BY <1>1, <1>2, RegIs
  <2> QED BY <1>1, <1>2, <2>1, Popped
<1>3. CASE Ends(Trap("operand"))
  <2>1. Trap("operand").why = "operand"
    BY DEF Trap, Result
  <2> QED BY <1>1, <1>3, <2>1, Ended
<1> QED BY <1>2, <1>3, Zenon DEF StepReturn

LEMMA KeepsStop ==
  ASSUME AsmInv, VmInv, StepStop \/ StepNop
  PROVE  VmInv'
<1>1. PICK r \in {Result("yield", ""), Trap("explicit"), Complete, Trap("operand"), None} : Ends(r)
  BY DEF StepStop, StepNop
<1>2. r.why \in {"", "explicit", "operand"}
  <2>1. /\ Result("yield", "").why = "" /\ Trap("explicit").why = "explicit"
        /\ Complete.why = "" /\ Trap("operand").why = "operand" /\ None.why = ""
    BY DEF Result, Trap, Complete, None
  <2> QED BY <1>1, <2>1, Zenon
<1>3. PICK ops : Fetch(ops)
  BY DEF StepStop, StepNop
<1> QED BY <1>1, <1>2, <1>3, Ended

LEMMA TrapIs == \A why : Trap(why).why = why
BY DEF Trap, Result

LEMMA KeepsLoad ==
  ASSUME AsmInv, VmInv, StepLoad
  PROVE  VmInv'
<1> DEFINE ops == {"LoadConst", "LoadImm", "Move"}
<1>1. Fetch(ops) /\ Running
  BY DEF StepLoad, Fetch
<1>2. Here \in Instructions /\ Here.op \in ops /\ OperandOK(chunk, Top.pc)
  BY <1>1, Fetched
<1>3. ChunkOK(chunk) /\ Verify(chunk, trust) /\ Covered(HeapOf(frames), memUsed, memLimit, 0)
      /\ frames \in Seq(FrameSet(chunk, trust, fresh))
  BY <1>1, AtInstruction
<1>4. chunk.constants \in Seq(Constants)
  BY <1>3, ChunkParts DEF ChunkOK
<1>5. Here.op = "LoadConst" => Here.imm + 1 \in DOMAIN chunk.constants
                               /\ Here.imm + 1 \in 1 .. MaxConsts
  <2>1. Here.op = "LoadConst" => Here.imm \in 0 .. Len(chunk.constants) - 1
    BY <1>2 DEF OperandOK, Here
  <2>2. Len(chunk.constants) <= MaxConsts /\ Len(chunk.constants) \in Nat
        /\ MaxConsts \in Nat /\ DOMAIN chunk.constants = 1 .. Len(chunk.constants)
    BY <1>3, <1>4, AssemblerAssumption DEF ChunkOK
  <2> QED BY <2>1, <2>2
<1>6. fresh \in Nat /\ nextId \in Nat /\ fresh <= fresh
  BY DEF VmInv, ResultInv
<1>7. CASE Here.op = "Move" /\ ~ HasReg(frames, Here.b) /\ Ends(Trap("operand"))
  BY <1>1, <1>7, TrapIs, Ended
<1>8. ASSUME NEW v, Store(Advanced, Here.a, v), UNCHANGED << effect, nextId, fresh >>,
             v \in Allowed(chunk, trust, fresh), Same(HeapOf(frames), v)
      PROVE  VmInv'
  <2>1. fresh' \in Nat /\ nextId' \in Nat /\ fresh <= fresh' /\ effect' = effect
        /\ v \in Allowed(chunk, trust, fresh')
    BY <1>6, <1>8
  <2> QED BY <1>1, <1>8, <2>1, Stored
<1>9. CASE Here.op = "LoadConst" /\ Store(Advanced, Here.a, LoadedConst(Here))
           /\ UNCHANGED << effect, nextId, fresh >>
  <2> DEFINE at == Here.imm + 1
             c == chunk.constants[at]
             v == Val(c.k, c.n, IF c.k \in Heap \cup Authority THEN at ELSE 0)
  <2>1. LoadedConst(Here) = v
    BY DEF LoadedConst
  <2>2. at \in DOMAIN chunk.constants /\ at \in 1 .. MaxConsts
    BY <1>5, <1>9
  <2>3. at \in Int /\ at >= 1
    BY <2>2, AssemblerAssumption
  <2>4. c \in Constants /\ InWidth(c) /\ MayEmbed(c.k, trust)
    BY <1>3, <1>4, <2>2 DEF ChunkOK, Verify
  <2> HIDE DEF at
  <2> DEFINE cc == c
  <2>5. /\ cc.k \in Range(Kinds) /\ cc.n \in Int /\ cc = Constant(cc.k, cc.n)
        /\ (cc.k \in {"str", "bytes", "msg"} => cc.n >= 0)
    BY <2>4 DEF Constants, Constant, ConstantOK
  <2>6. /\ v = [k |-> cc.k, n |-> cc.n, id |-> IF cc.k \in Heap \cup Authority THEN at ELSE 0]
        /\ chunk.constants[at] = cc
    BY DEF Val
  <2>7. InWidth(cc) /\ (trust = "untrusted" => cc.k \notin Authority)
    BY <2>4 DEF MayEmbed
  <2> HIDE DEF cc, v
  <2>8. /\ v.k = cc.k /\ v.n = cc.n /\ v.id \in Int
        /\ v \in [k : Range(Kinds), n : Int, id : Int]
        /\ v.k \in Heap => v.id = at
    BY <2>3, <2>5, <2>6
  <2>9. v \in Allowed(chunk, trust, fresh)
    <3>1. InWidth(v)
      BY <2>7, <2>8 DEF InWidth
    <3>2. v.k \in {"str", "bytes", "msg"} => v.n >= 0
      BY <2>5, <2>8
    <3>3. trust = "untrusted" /\ v.k \in Authority => v.id <= 0
      BY <2>7, <2>8
    <3>4. v.k \in Heap => v.id # 0 /\ v.id >= -fresh
      BY <1>6, <2>3, <2>8
    <3>5. v.k \in Heap => v.id \in DOMAIN chunk.constants
                          /\ chunk.constants[v.id] = Constant(v.k, v.n)
      BY <2>2, <2>5, <2>6, <2>8
    <3> QED BY <2>8, <3>1, <3>2, <3>3, <3>4, <3>5 DEF Allowed
  <2>10. Same(HeapOf(frames), v)
    <3>1. SUFFICES ASSUME v.k \in Heap
                   PROVE  HeapCost(v) \in Nat
                          /\ \A w \in HeapOf(frames) : w.k = v.k /\ w.id = v.id => w = v
      BY Zenon DEF Same
    <3>2. HeapCost(v) \in Nat
      BY <2>5, <2>8, <3>1 DEF HeapCost, Heap
    <3>3. ASSUME NEW w \in HeapOf(frames), w.k = v.k, w.id = v.id PROVE w = v
      <4>1. w \in Allowed(chunk, trust, fresh)
        BY <1>3, HeapIsAllowed
      <4>2. /\ w \in [k : Range(Kinds), n : Int, id : Int]
            /\ chunk.constants[w.id] = Constant(w.k, w.n)
        BY <2>2, <2>8, <3>1, <3>3, <4>1 DEF Allowed
      <4>3. Constant(w.k, w.n) = Constant(cc.k, cc.n)
        BY <2>5, <2>6, <2>8, <3>1, <3>3, <4>2
      <4>4. w.n = cc.n
        BY <4>3 DEF Constant
      <4> QED BY <2>8, <3>3, <4>2, <4>4
    <3> QED BY <3>2, <3>3
  <2> QED BY <1>8, <1>9, <2>1, <2>9, <2>10
<1>10. CASE Here.op = "LoadImm" /\ Store(Advanced, Here.a, IntVal(Here.imm))
            /\ UNCHANGED << effect, nextId, fresh >>
  <2>1. Here.imm \in Int
    BY <1>2 DEF Instructions
  <2>2. Plain(IntVal(Here.imm))
    BY <2>1, MadeValues
  <2> QED BY <1>8, <1>10, <2>2, PlainFits
<1>11. CASE HasReg(frames, Here.b) /\ Store(Advanced, Here.a, Reg(Here.b))
            /\ UNCHANGED << effect, nextId, fresh >>
  BY <1>1, <1>8, <1>11, RegIs
<1> QED
  <2>1. CASE Here.op = "LoadConst"
    BY <1>5, <1>9, <2>1 DEF StepLoad
  <2>2. CASE Here.op = "LoadImm"
    BY <1>10, <2>2 DEF StepLoad
  <2>3. CASE Here.op = "Move"
    BY <1>7, <1>11, <2>3 DEF StepLoad
  <2> QED BY <1>2, <2>1, <2>2, <2>3

(***************************************************************************)
(* Arithmetic stays in its width; no division by zero is computed.         *)
(***************************************************************************)
LEMMA QuotientIsInt ==
  ASSUME NEW x \in Int, NEW y \in Int, y # 0
  PROVE  Quotient(x, y) \in Int
<1> DEFINE p == IF x < 0 THEN -x ELSE x
           d == IF y < 0 THEN -y ELSE y
<1>1. p \in Nat /\ d \in Nat /\ d > 0
  OBVIOUS
<1>2. Quotient(x, y) = IF (x < 0) = (y < 0) THEN p \div d ELSE -(p \div d)
  BY Zenon DEF Quotient
<1> HIDE DEF p, d
<1>3. p \div d \in Int
  BY <1>1
<1> QED BY <1>2, <1>3

LEMMA BinopIsPlain ==
  ASSUME NEW op \in {"Add", "Sub", "Mul", "Div", "Mod", "Eq", "Lt", "Le"},
         NEW a, NEW b, a.n \in Int, b.n \in Int, BinopFault(op, a, b) = "none",
         NEW v \in BinopResults(op, a, b)
  PROVE  Plain(v)
<1>1. \/ v \in {Bool(TRUE), Bool(FALSE), Bool(a.n = b.n), Val("float", 0, 0)}
      \/ /\ a.k = "int" /\ b.k = "int" /\ op # "Eq"
         /\ v = IntResult(op, a.n, b.n)
  BY DEF BinopResults
<1>2. CASE v \in {Bool(TRUE), Bool(FALSE), Bool(a.n = b.n), Val("float", 0, 0)}
  <2>1. TRUE \in BOOLEAN /\ FALSE \in BOOLEAN /\ (a.n = b.n) \in BOOLEAN
    OBVIOUS
  <2> QED BY <1>2, <2>1, MadeValues, Zenon
<1>3. CASE a.k = "int" /\ b.k = "int" /\ op # "Eq" /\ v = IntResult(op, a.n, b.n)
  <2>1. op \in {"Div", "Mod"} => b.n # 0
    BY <1>3 DEF BinopFault
  <2>2. PICK x \in Int, y \in Int : x = a.n /\ y = b.n
    OBVIOUS
  <2>3. v = IntResult(op, x, y) /\ (op \in {"Div", "Mod"} => y # 0)
    BY <1>3, <2>1, <2>2
  <2>4. x + y \in Int /\ x - y \in Int /\ x * y \in Int
    OBVIOUS
  <2>5. op \in {"Div", "Mod"} => Quotient(x, y) \in Int
    BY <2>3, QuotientIsInt
  <2>6. op \in {"Div", "Mod"} => x - y * Quotient(x, y) \in Int
    BY <2>5
  <2>7. (x < y) \in BOOLEAN /\ (x <= y) \in BOOLEAN
    OBVIOUS
  <2>8. CASE op = "Add"
    BY <2>3, <2>4, <2>8, MadeValues DEF IntResult
  <2>9. CASE op = "Sub"
    BY <2>3, <2>4, <2>9, MadeValues DEF IntResult
  <2>10. CASE op = "Mul"
    <3>1. v = IntVal(x * y)
      BY <2>3, <2>10 DEF IntResult
    <3> QED BY <2>4, <3>1, MadeValues, Zenon
  <2>11. CASE op = "Div"
    BY <2>3, <2>5, <2>11, MadeValues DEF IntResult
  <2>12. CASE op = "Mod"
    <3>1. v = IntVal(x - y * Quotient(x, y))
      BY <2>3, <2>12 DEF IntResult
    <3> QED BY <2>6, <2>12, <3>1, MadeValues, Zenon
  <2>13. CASE op = "Lt"
    <3>1. v = Bool(x < y)
      BY <2>3, <2>13 DEF IntResult
    <3> QED BY <2>7, <3>1, MadeValues, Zenon
  <2>14. CASE op = "Le"
    <3>1. v = Bool(x <= y)
      BY <2>3, <2>14 DEF IntResult
    <3> QED BY <2>7, <3>1, MadeValues, Zenon
  <2> QED BY <1>3, <2>8, <2>9, <2>10, <2>11, <2>12, <2>13, <2>14
<1> QED BY <1>1, <1>2, <1>3

LEMMA AllowedParts ==
  ASSUME NEW ch, NEW t, NEW made, NEW v \in Allowed(ch, t, made)
  PROVE  /\ v.k \in Range(Kinds) /\ v.n \in Int /\ v.id \in Int
         /\ v.k \in {"str", "bytes", "msg"} => v.n >= 0
         /\ InWidth(v)
BY DEF Allowed

(***************************************************************************)
(* A value of the interpreter's own goes to a register.                    *)
(***************************************************************************)
LEMMA PlainStored ==
  ASSUME AsmInv, VmInv, NEW ops, Fetch(ops), NEW r, NEW v, Store(Advanced, r, v), Plain(v),
         UNCHANGED << effect, fresh >>, nextId' \in Nat
  PROVE  VmInv'
<1>1. fresh \in Nat /\ fresh' = fresh /\ fresh <= fresh
  BY DEF VmInv, ResultInv
<1>2. v \in Allowed(chunk, trust, fresh') /\ Same(HeapOf(frames), v)
  BY PlainFits
<1>3. fresh' \in Nat /\ fresh <= fresh' /\ effect' = effect
  BY <1>1
<1> QED BY <1>2, <1>3, Stored

LEMMA KeepsBinop ==
  ASSUME AsmInv, VmInv, StepBinop
  PROVE  VmInv'
<1> DEFINE ops == {"Add", "Sub", "Mul", "Div", "Mod", "Eq", "Lt", "Le"}
           a == Reg(Here.b)
           b == Reg(Here.c)
<1>1. Fetch(ops) /\ Running
  BY DEF StepBinop, Fetch
<1>2. Here.op \in ops
  BY <1>1, Fetched
<1>3. CASE Ends(Trap("operand"))
  BY <1>1, <1>3, TrapIs, Ended
<1>4. CASE Ends(Trap(BinopFault(Here.op, a, b)))
  <2>1. BinopFault(Here.op, a, b) \notin {"const", "function"}
    BY DEF BinopFault
  <2>2. BinopFault(Here.op, a, b) = "invariant" => Here.op = "Mod"
    BY DEF BinopFault
  <2> QED BY <1>1, <1>4, <2>1, <2>2, TrapIs, Ended
<1>5. CASE /\ HasReg(frames, Here.b) /\ HasReg(frames, Here.c)
           /\ BinopFault(Here.op, a, b) = "none"
           /\ \E v \in BinopResults(Here.op, a, b) : Store(Advanced, Here.a, v)
           /\ UNCHANGED << effect, nextId, fresh >>
  <2>1. PICK v \in BinopResults(Here.op, a, b) : Store(Advanced, Here.a, v)
    BY <1>5
  <2>2. a.n \in Int /\ b.n \in Int
    BY <1>1, <1>5, RegIs, AllowedParts
  <2>3. Plain(v)
    BY <1>2, <1>5, <2>1, <2>2, BinopIsPlain
  <2>4. nextId' \in Nat /\ UNCHANGED << effect, fresh >>
    BY <1>5 DEF VmInv, ResultInv
  <2> QED BY <1>1, <2>1, <2>3, <2>4, PlainStored
<1> QED BY <1>3, <1>4, <1>5, Zenon DEF StepBinop

LEMMA KeepsNeg ==
  ASSUME AsmInv, VmInv, StepNeg
  PROVE  VmInv'
<1> DEFINE v == Reg(Here.b)
<1>1. Fetch({"Neg"}) /\ Running
  BY DEF StepNeg, Fetch
<1>2. CASE Ends(Trap("operand")) \/ Ends(Trap("panic"))
  BY <1>1, <1>2, TrapIs, Ended
<1>3. CASE /\ HasReg(frames, Here.b) /\ Numeric(v)
           /\ Store(Advanced, Here.a, IF v.k = "int" THEN IntVal(- v.n) ELSE v)
           /\ UNCHANGED << effect, nextId, fresh >>
  <2>1. v \in Allowed(chunk, trust, fresh) /\ Same(HeapOf(frames), v)
    BY <1>1, <1>3, RegIs
  <2>2. fresh \in Nat /\ nextId \in Nat /\ fresh <= fresh
    BY DEF VmInv, ResultInv
  <2> HIDE DEF v
  <2>3. CASE v.k = "int"
    <3>1. - v.n \in Int
      BY <2>1, AllowedParts
    <3>2. Plain(IntVal(- v.n))
      BY <3>1, MadeValues
    <3>3. nextId' \in Nat /\ UNCHANGED << effect, fresh >> /\ Store(Advanced, Here.a, IntVal(- v.n))
      BY <1>3, <2>2, <2>3
    <3> QED BY <1>1, <3>2, <3>3, PlainStored
  <2>4. CASE v.k # "int"
    <3>1. fresh' \in Nat /\ nextId' \in Nat /\ fresh <= fresh' /\ effect' = effect
          /\ v \in Allowed(chunk, trust, fresh') /\ Store(Advanced, Here.a, v)
      BY <1>3, <2>1, <2>2, <2>4
    <3> QED BY <1>1, <2>1, <3>1, Stored
  <2> QED BY <2>3, <2>4
<1> QED BY <1>2, <1>3, Zenon DEF StepNeg

LEMMA KeepsRequestId ==
  ASSUME AsmInv, VmInv, FreshRequestId
  PROVE  VmInv'
<1>1. /\ Fetch({"FreshRequestId"}) /\ nextId' = nextId + 1
      /\ Store(Advanced, Here.a, IntVal(nextId)) /\ UNCHANGED << effect, fresh >>
  BY DEF FreshRequestId
<1>2. nextId \in Int /\ nextId + 1 \in Nat
  BY DEF VmInv, ResultInv
<1>3. Plain(IntVal(nextId)) /\ nextId' \in Nat
  BY <1>1, <1>2, MadeValues
<1> QED BY <1>1, <1>3, PlainStored

-----------------------------------------------------------------------------
(***************************************************************************)
(* Control.                                                                *)
(***************************************************************************)
LEMMA KeepsJump ==
  ASSUME AsmInv, VmInv, StepJump
  PROVE  VmInv'
<1> DEFINE ops == {"Jump", "Branch"}
<1>1. Fetch(ops) /\ Running /\ Counted
  BY DEF StepJump, Fetch
<1>2. CASE Ends(Trap("operand"))
  BY <1>1, <1>2, TrapIs, Ended
<1>3. CASE /\ frames' = (IF Goes(Here) THEN SetPc(frames, Top.pc + 1 + Here.imm) ELSE Advanced)
           /\ UNCHANGED << result, effect, nextId, fresh, memUsed >>
  <2>1. /\ frames # <<>> /\ Len(frames) <= MaxDepth /\ frames[1].dest = Outermost
        /\ Len(frames) \in Nat /\ frames \in Seq(FrameSet(chunk, trust, fresh))
        /\ Covered(HeapOf(frames), memUsed, memLimit, 0)
    BY <1>1, AtInstruction
  <2>2. Here \in Instructions /\ Here.op \in ops /\ OperandOK(chunk, Top.pc)
        /\ Top.pc + 1 \in 0 .. Len(chunk.code)
    BY <1>1, Fetched
  <2>3. Top.pc + 1 + Here.imm \in 0 .. Len(chunk.code)
    BY <2>2 DEF OperandOK, Here
  <2>4. PICK pc \in 0 .. Len(chunk.code) : frames' = SetPc(frames, pc)
    BY <1>3, <2>2, <2>3 DEF Advanced
  <2>5. /\ frames' \in Seq(FrameSet(chunk, trust, fresh)) /\ Like(frames', frames)
        /\ HeapOf(frames') = HeapOf(frames)
    BY <2>1, <2>4, SetPcIs, HeapOfSetPc
  <2>6. 1 \in DOMAIN frames
    BY <2>1
  <2>7. /\ Len(frames') = Len(frames) /\ frames'[1].dest = Outermost
        /\ frames' # <<>>
    BY <2>1, <2>5, <2>6 DEF Like
  <2>8. /\ effect' \in EffectSet /\ nextId' \in Nat /\ fresh' \in Nat
    BY <1>3 DEF VmInv, ResultInv, EffectSet
  <2>9. result'.why = ""
    BY <1>1, <1>3 DEF Running, None, Result
  <2>10. /\ frames' \in Seq(FrameSet(chunk, trust, fresh')) /\ Len(frames') <= MaxDepth
         /\ Covered(HeapOf(frames'), memUsed', memLimit, 0)
    BY <1>3, <2>1, <2>5, <2>7
  <2> QED BY <1>1, <2>7, <2>8, <2>9, <2>10, RunKeeps
<1> QED BY <1>2, <1>3, Zenon DEF StepJump

(***************************************************************************)
(* A new frame: registers of the width the function declares, each Unit or *)
(* the argument at its place.                                              *)
(***************************************************************************)
AllAllowed(args, ch, t, made) == \A r \in DOMAIN args : args[r] \in Allowed(ch, t, made)

NewFrame(fr, args, dest, ch, t, made) ==
  /\ fr \in FrameSet(ch, t, made)
  /\ fr.dest = dest
  /\ \A r \in DOMAIN fr.regs :
       fr.regs[r] = Unit \/ (r \in DOMAIN args /\ fr.regs[r] = args[r])
  /\ IsFiniteSet(DOMAIN fr.regs)

LEMMA EnteredIs ==
  ASSUME NEW f \in Int, NEW args, NEW dest \in Int, NEW made,
         ChunkOK(chunk), Verify(chunk, trust), f + 1 \in DOMAIN chunk.functions,
         AllAllowed(args, chunk, trust, made)
  PROVE  NewFrame(Entered(f, args, dest), args, dest, chunk, trust, made)
<1> DEFINE def == chunk.functions[f + 1]
           n == def.regs
           regs == [r \in 1 .. n |-> IF r \in DOMAIN args /\ r <= def.arity THEN args[r] ELSE Unit]
           fr == [fn |-> f, pc |-> def.entry, dest |-> dest, regs |-> regs]
<1>1. /\ def.entry \in Nat /\ n \in Registers /\ def.entry < Len(chunk.code)
      /\ Len(chunk.code) \in Nat
  BY ChunkParts DEF ChunkOK, Verify
<1>2. n \in Nat
  BY <1>1, AssemblerAssumption DEF Registers
<1>3. Entered(f, args, dest) = fr
  <2> DEFINE g == [r \in 1 .. n |-> Unit]
             h == [r \in DOMAIN g |->
                     IF r \in DOMAIN args /\ r <= def.arity THEN args[r] ELSE g[r]]
             new == [fn |-> f, pc |-> def.entry, dest |-> dest, regs |-> g]
  <2>1. Entered(f, args, dest) = [new EXCEPT !.regs = h]
    BY Zenon DEF Entered, Frame
  <2>2. h = regs
    <3>1. DOMAIN g = 1 .. n /\ \A r \in 1 .. n : g[r] = Unit
      OBVIOUS
    <3> HIDE DEF g
    <3> QED BY <3>1
  <2> HIDE DEF g, h, regs
  <2>3. [new EXCEPT !.regs = h] = [fn |-> f, pc |-> def.entry, dest |-> dest, regs |-> h]
    OBVIOUS
  <2> QED BY <2>1, <2>2, <2>3
<1>4. Unit \in Allowed(chunk, trust, made)
  BY MadeValues, PlainFits
<1>5. \A r \in 1 .. n : regs[r] \in Allowed(chunk, trust, made)
                        /\ (regs[r] = Unit \/ (r \in DOMAIN args /\ regs[r] = args[r]))
  <2>1. SUFFICES ASSUME NEW r \in 1 .. n
                 PROVE  regs[r] \in Allowed(chunk, trust, made)
                        /\ (regs[r] = Unit \/ (r \in DOMAIN args /\ regs[r] = args[r]))
    BY Zenon
  <2>2. regs[r] = IF r \in DOMAIN args /\ r <= def.arity THEN args[r] ELSE Unit
    OBVIOUS
  <2> HIDE DEF regs
  <2>3. regs[r] = Unit \/ (r \in DOMAIN args /\ regs[r] = args[r])
    BY <2>2, Zenon
  <2>4. r \in DOMAIN args => args[r] \in Allowed(chunk, trust, made)
    BY DEF AllAllowed
  <2> QED BY <1>4, <2>3, <2>4, Zenon
<1>6. regs \in [1 .. n -> Allowed(chunk, trust, made)] /\ DOMAIN regs = 1 .. n
  BY <1>5
<1>7. regs \in Seq(Allowed(chunk, trust, made))
  <2> DEFINE A == Allowed(chunk, trust, made)
  <2>1. regs \in [1 .. n -> A]
    BY <1>6
  <2> HIDE DEF A, regs, n
  <2>2. regs \in Seq(A)
    BY <1>2, <2>1
  <2> QED BY <2>2 DEF A
<1>8. def.entry \in 0 .. Len(chunk.code)
  BY <1>1
<1>9. IsFiniteSet(1 .. n)
  <2>1. 1 \in Int /\ n \in Int
    BY <1>2
  <2> QED BY <2>1, FS_Interval, Zenon
<1> HIDE DEF regs, n
<1>10. fr.regs = regs /\ fr.dest = dest
  OBVIOUS
<1>11. fr \in FrameSet(chunk, trust, made)
  BY <1>7, <1>8 DEF FrameSet
<1> HIDE DEF fr
<1> QED BY <1>3, <1>5, <1>6, <1>9, <1>10, <1>11 DEF NewFrame

LEMMA KeepsCall ==
  ASSUME AsmInv, VmInv, StepCall
  PROVE  VmInv'
<1>1. Fetch({"Call"}) /\ Running /\ Counted
  BY DEF StepCall, Fetch
<1>2. Here \in Instructions /\ Here.op = "Call" /\ OperandOK(chunk, Top.pc)
  BY <1>1, Fetched
<1>3. /\ frames # <<>> /\ Len(frames) <= MaxDepth /\ frames[1].dest = Outermost
      /\ Len(frames) \in Nat /\ frames \in Seq(FrameSet(chunk, trust, fresh))
      /\ Covered(HeapOf(frames), memUsed, memLimit, 0)
      /\ ChunkOK(chunk) /\ Verify(chunk, trust)
  BY <1>1, AtInstruction
<1>4. Here.imm + 1 \in DOMAIN chunk.functions /\ Here.imm \in Int
  <2>1. Here.imm \in 0 .. Len(chunk.functions) - 1
    BY <1>2 DEF OperandOK, Here
  <2>2. chunk.functions \in Seq(FunctionDefs)
    BY <1>3, ChunkParts DEF ChunkOK
  <2> QED BY <2>1, <2>2
<1>5. CASE Ends(Trap(CallFault(Here)))
  <2>1. CallFault(Here) \in {"depth", "operand", "none"}
    BY <1>4 DEF CallFault
  <2> QED BY <1>1, <1>5, <2>1, TrapIs, Ended
<1>6. CASE /\ CallFault(Here) = "none"
           /\ frames' = Append(Advanced, Entered(Here.imm, ArgsAt(Here.a, Here.b), Here.a))
           /\ UNCHANGED << result, effect, nextId, fresh, memUsed >>
  <2> DEFINE args == ArgsAt(Here.a, Here.b)
             fr == Entered(Here.imm, args, Here.a)
             fs == Advanced
  <2>1. ~ (Len(frames) >= MaxDepth) /\ HasArgs(Here.a, Here.b)
    BY <1>6 DEF CallFault
  <2>2. Len(frames) + 1 <= MaxDepth
    BY <1>3, <2>1, MachineAssumption
  <2>3. Here.a \in Int /\ Here.b \in Int
    BY <1>2 DEF Instructions
  <2>4. DOMAIN args = 1 .. Here.b
    BY DEF ArgsAt
  <2>5. ASSUME NEW r \in 1 .. Here.b
        PROVE  /\ args[r] \in Allowed(chunk, trust, fresh)
               /\ args[r].k \in Heap => args[r] \in HeapOf(frames)
    <3>1. args[r] = Reg(Here.a + r - 1)
      BY DEF ArgsAt
    <3>2. r - 1 \in 0 .. Here.b - 1 /\ Here.a + (r - 1) = Here.a + r - 1
      BY <2>3
    <3>3. HasReg(frames, Here.a + r - 1)
      BY <2>1, <3>2 DEF HasArgs
    <3> QED BY <1>1, <3>1, <3>3, RegIs
  <2>6. AllAllowed(args, chunk, trust, fresh)
    BY <2>4, <2>5 DEF AllAllowed
  <2>7. /\ fr \in FrameSet(chunk, trust, fresh)
        /\ \A r \in DOMAIN fr.regs : fr.regs[r] = Unit \/ (r \in DOMAIN args /\ fr.regs[r] = args[r])
    <3> HIDE DEF args
    <3>1. Here.imm \in Int /\ Here.a \in Int /\ Here.imm + 1 \in DOMAIN chunk.functions
      BY <1>4, <2>3
    <3>2. NewFrame(fr, args, Here.a, chunk, trust, fresh)
      BY <1>3, <2>6, <3>1, EnteredIs
    <3> HIDE DEF fr
    <3> QED BY <3>2 DEF NewFrame
  <2>8. /\ fs \in Seq(FrameSet(chunk, trust, fresh)) /\ fs # <<>>
        /\ Like(fs, frames) /\ HeapOf(fs) = HeapOf(frames)
    BY <1>1, Fetched
  <2>9. frames' = Append(fs, fr)
    BY <1>6
  <2> HIDE DEF fs, fr, args
  <2>10. Unit.k \notin Heap
    BY DEF Unit, Val, Heap
  <2>11. \A r \in DOMAIN fr.regs : fr.regs[r].k \in Heap => fr.regs[r] \in HeapOf(fs)
    BY <2>4, <2>5, <2>7, <2>8, <2>10
  <2>12. /\ frames' \in Seq(FrameSet(chunk, trust, fresh))
         /\ Len(frames') = Len(fs) + 1
         /\ frames'[1] = fs[1]
         /\ HeapOf(frames') \subseteq HeapOf(fs)
    BY <2>7, <2>8, <2>9, <2>11, HeapOfPushed
  <2>13. 1 \in DOMAIN frames
    BY <1>3
  <2>14. Len(frames') <= MaxDepth /\ frames'[1].dest = Outermost /\ frames' # <<>>
    BY <1>3, <2>2, <2>8, <2>12, <2>13 DEF Like
  <2>15. memUsed \in Nat /\ memLimit \in Nat /\ memUsed <= memLimit /\ memUsed <= memUsed
    BY <1>3 DEF Covered
  <2>16. Covered(HeapOf(frames'), memUsed, memLimit, 0)
    BY <1>3, <2>8, <2>12, <2>15, StaysCovered
  <2>17. /\ effect' \in EffectSet /\ nextId' \in Nat /\ fresh' \in Nat
    BY <1>6 DEF VmInv, ResultInv, EffectSet
  <2>18. result'.why = ""
    BY <1>1, <1>6 DEF Running, None, Result
  <2>19. /\ frames' \in Seq(FrameSet(chunk, trust, fresh'))
         /\ Covered(HeapOf(frames'), memUsed', memLimit, 0)
    BY <1>6, <2>12, <2>16
  <2> QED BY <1>1, <2>14, <2>17, <2>18, <2>19, RunKeeps
<1> QED BY <1>5, <1>6, Zenon DEF StepCall

(***************************************************************************)
(* What a native returns is new: its origin is in no register yet.         *)
(***************************************************************************)
LEMMA KeepsNative ==
  ASSUME AsmInv, VmInv, StepNative
  PROVE  VmInv'
<1>1. Fetch({"CallNative"}) /\ Running /\ Counted
  BY DEF StepNative, Fetch
<1>2. frames \in Seq(FrameSet(chunk, trust, fresh))
  BY <1>1, AtInstruction
<1>3. fresh \in Nat /\ nextId \in Nat
  BY DEF VmInv, ResultInv
<1>4. CASE Ends(Trap(NativeFault(Here))) \/ Ends(Trap("native"))
  <2>1. NativeFault(Here) \in {"native", "operand", "none"}
    BY DEF NativeFault
  <2> QED BY <1>1, <1>4, <2>1, TrapIs, Ended
<1>5. CASE /\ NativeFault(Here) = "none" /\ fresh' = fresh + 1
           /\ \E c \in Natives[Here.imm + 1] : Store(Advanced, Here.a, Val(c.k, c.n, -(fresh + 1)))
           /\ UNCHANGED << effect, nextId >>
  <2>1. PICK c \in Natives[Here.imm + 1] : Store(Advanced, Here.a, Val(c.k, c.n, -(fresh + 1)))
    BY <1>5
  <2>2. Here.imm + 1 \in DOMAIN Natives
    BY <1>5 DEF NativeFault
  <2>3. ConstantOK(c) /\ InWidth(c)
    BY <2>1, <2>2, ValueAssumption
  <2> DEFINE id == -(fresh + 1)
             v == Val(c.k, c.n, id)
  <2>4. id \in Int /\ id < -fresh /\ id < 0 /\ id >= -fresh'
    BY <1>3, <1>5
  <2> HIDE DEF id
  <2>5. /\ v.k = c.k /\ v.n = c.n /\ v.id = id
        /\ v \in [k : Range(Kinds), n : Int, id : Int]
    BY <2>3, <2>4 DEF Val, ConstantOK
  <2> HIDE DEF v
  <2>6. InWidth(v) /\ (v.k \in {"str", "bytes", "msg"} => v.n >= 0)
    BY <2>3, <2>5 DEF InWidth, ConstantOK
  <2>7. v.id # 0 /\ v.id <= 0 /\ v.id \notin 1 .. MaxConsts
    BY <2>4, <2>5, AssemblerAssumption
  <2>8. v \in Allowed(chunk, trust, fresh')
    BY <2>4, <2>5, <2>6, <2>7 DEF Allowed
  <2>9. Same(HeapOf(frames), v)
    <3>1. v.k \in Heap => HeapCost(v) \in Nat
      BY <2>5, <2>6 DEF HeapCost, Heap
    <3>2. ASSUME NEW w \in HeapOf(frames) PROVE w.id # v.id
      <4>1. w \in Allowed(chunk, trust, fresh) /\ w.k \in Heap
        BY <1>2, HeapIsAllowed
      <4>2. w.id \in Int /\ w.id >= -fresh
        BY <4>1 DEF Allowed
      <4> QED BY <1>3, <2>4, <2>5, <4>2
    <3> QED BY <3>1, <3>2 DEF Same
  <2>10. Store(Advanced, Here.a, v)
    BY <2>1 DEF v, id
  <2>11. fresh' \in Nat /\ fresh <= fresh' /\ effect' = effect /\ nextId' \in Nat
    BY <1>3, <1>5
  <2> QED BY <1>1, <2>8, <2>9, <2>10, <2>11, Stored
<1> QED BY <1>4, <1>5, Zenon DEF StepNative

(***************************************************************************)
(* A request to the scheduler: a hop's charge is the size of its message.  *)
(***************************************************************************)
LEMMA OpcodeRange ==
  ASSUME NEW i \in Instructions
  PROVE  i.op \in Range(Opcodes) /\ i.a \in Int /\ i.b \in Int /\ i.c \in Int /\ i.imm \in Int
BY DEF Instructions

LEMMA KeepsEffect ==
  ASSUME AsmInv, VmInv, StepEffect
  PROVE  VmInv'
<1>1. Fetch(Effects) /\ Running /\ Counted
  BY DEF StepEffect, Fetch
<1>2. CASE Ends(Trap("operand"))
  BY <1>1, <1>2, TrapIs, Ended
<1> DEFINE cost == IF Here.op \in Hops THEN Reg(HopOf(Here)).n ELSE 0
<1>3. CASE /\ \A o \in Operands(Here) : HasReg(frames, o[1]) /\ Fits(Reg(o[1]), o[2])
           /\ frames' = Advanced
           /\ result' = Result("effect", "")
           /\ effect' = [op |-> Here.op, dest |-> Here.a, cost |-> cost]
           /\ UNCHANGED << nextId, fresh, memUsed >>
  <2>1. Here \in Instructions
    BY <1>1, Fetched
  <2>2. cost \in Nat
    <3>1. CASE Here.op \notin Hops
      BY <3>1
    <3>2. CASE Here.op \in Hops
      <4> DEFINE r == HopOf(Here)
      <4>1. << r, "msg" >> \in Operands(Here)
        <5>1. CASE Here.op = "Send"
          BY <5>1 DEF Operands, HopOf
        <5>2. CASE Here.op = "Ask"
          BY <5>2 DEF Operands, HopOf
        <5>3. CASE Here.op = "AskTimeout"
          BY <5>3 DEF Operands, HopOf
        <5> QED BY <3>2, <5>1, <5>2, <5>3 DEF Hops
      <4> HIDE DEF r
      <4>2. HasReg(frames, r) /\ Fits(Reg(r), "msg")
        <5>1. << r, "msg" >>[1] = r /\ << r, "msg" >>[2] = "msg"
          OBVIOUS
        <5> QED BY <1>3, <4>1, <5>1, Zenon
      <4>3. Reg(r).k = "msg"
        BY <4>2 DEF Fits
      <4>4. Reg(r) \in Allowed(chunk, trust, fresh)
        BY <1>1, <4>2, RegIs
      <4>5. Reg(r).n \in Int /\ Reg(r).n >= 0
        BY <4>3, <4>4, AllowedParts
      <4>6. cost = Reg(r).n
        BY <3>2 DEF r
      <4> QED BY <4>5, <4>6
    <3> QED BY <3>1, <3>2
  <2> HIDE DEF cost
  <2>3. effect' \in EffectSet
    BY <1>3, <2>1, <2>2, OpcodeRange DEF EffectSet
  <2>4. /\ Advanced \in Seq(FrameSet(chunk, trust, fresh)) /\ Advanced # <<>>
        /\ Like(Advanced, frames) /\ HeapOf(Advanced) = HeapOf(frames)
    BY <1>1, Fetched
  <2>5. /\ frames # <<>> /\ Len(frames) <= MaxDepth /\ frames[1].dest = Outermost
        /\ Len(frames) \in Nat /\ frames \in Seq(FrameSet(chunk, trust, fresh))
        /\ Covered(HeapOf(frames), memUsed, memLimit, 0)
    BY <1>1, AtInstruction
  <2>6. 1 \in DOMAIN frames
    BY <2>5
  <2>7. Len(frames') <= MaxDepth /\ frames'[1].dest = Outermost /\ frames' # <<>>
    BY <1>3, <2>4, <2>5, <2>6 DEF Like
  <2>8. result'.why = ""
    BY <1>3 DEF Result
  <2>9. nextId' \in Nat /\ fresh' \in Nat
    BY <1>3 DEF VmInv, ResultInv
  <2>10. /\ frames' \in Seq(FrameSet(chunk, trust, fresh'))
         /\ Covered(HeapOf(frames'), memUsed', memLimit, 0)
    BY <1>3, <2>4, <2>5
  <2> QED BY <1>1, <2>3, <2>7, <2>8, <2>9, <2>10, RunKeeps
<1> QED BY <1>2, <1>3, Zenon DEF StepEffect

LEMMA StepKeeps ==
  ASSUME AsmInv, VmInv, Step
  PROVE  VmInv'
BY KeepsEnd, KeepsReturn, KeepsStop, KeepsLoad, KeepsBinop, KeepsNeg, KeepsRequestId, KeepsJump,
   KeepsCall, KeepsNative, KeepsEffect, Zenon DEF Step

-----------------------------------------------------------------------------
(***************************************************************************)
(* Between two runs: the stack stays, the charge may not.                  *)
(***************************************************************************)
LEMMA Between ==
  ASSUME VmInv, Late, UNCHANGED << frames, fresh, gate, effect >>, nextId' \in Nat,
         result' = result \/ result' = None,
         phase' \notin {"running", "failed"} => result' = None,
         phase' \in Active => frames # <<>> \/ result' = Complete,
         phase' \notin {"loaded", "refused"},
         Covered(HeapOf(frames), memUsed', memLimit', InFlight')
  PROVE  VmInv'
<1>1. chunk' = chunk /\ trust' = trust /\ phase' \notin {"assembling", "built"}
  BY DEF Late, loadVars
<1>2. StackInv'
  BY <1>1 DEF VmInv, StackInv
<1>3. HeldInv'
  BY DEF HeldInv
<1>4. None.why = ""
  BY DEF None, Result
<1>5. Top' = Top
  BY DEF Top
<1>6. /\ result'.why \notin {"const", "function"}
      /\ result'.why = "invariant" => frames' # <<>> /\ chunk'.code[Top'.pc].op = "Mod"
  BY <1>1, <1>4, <1>5 DEF VmInv, ResultInv
<1>7. /\ effect' \in [op : Range(Opcodes) \cup {"none"}, dest : Int, cost : Nat]
      /\ fresh' \in Nat /\ gate' \in BOOLEAN
  BY DEF VmInv, ResultInv
<1>8. ResultInv'
  BY <1>1, <1>6, <1>7 DEF ResultInv
<1> QED BY <1>2, <1>3, <1>8 DEF VmInv

(***************************************************************************)
(* A flow that waits for the worker has a frame and no result.             *)
(***************************************************************************)
LEMMA Waiting ==
  ASSUME VmInv, phase \in Active, phase # "running"
  PROVE  /\ frames # <<>> /\ result = None
         /\ nextId \in Nat /\ effect.cost \in Nat /\ effect.dest \in Int /\ fresh \in Nat
         /\ frames \in Seq(FrameSet(chunk, trust, fresh))
         /\ memUsed \in Nat /\ memLimit \in Nat /\ memUsed <= memLimit
         /\ phase # "delivering" => Covered(HeapOf(frames), memUsed, memLimit, 0)
         /\ phase = "delivering" => Covered(HeapOf(frames), memUsed, memLimit, effect.cost)
<1>1. result = None
  BY DEF VmInv, ResultInv, Active
<1>2. None # Complete
  BY DEF None, Complete, Result
<1>3. frames # <<>>
  BY <1>1, <1>2 DEF VmInv, ResultInv
<1>4. nextId \in Nat /\ effect.cost \in Nat /\ effect.dest \in Int /\ fresh \in Nat
  BY DEF VmInv, ResultInv
<1>5. frames \in Seq(FrameSet(chunk, trust, fresh))
  BY DEF VmInv, StackInv
<1>6. Covered(HeapOf(frames), memUsed, memLimit, InFlight)
  BY DEF VmInv, HeldInv
<1>7. memUsed \in Nat /\ memLimit \in Nat /\ memUsed <= memLimit
  BY <1>6 DEF Covered
<1>8. /\ phase # "delivering" => Covered(HeapOf(frames), memUsed, memLimit, 0)
      /\ phase = "delivering" => Covered(HeapOf(frames), memUsed, memLimit, effect.cost)
  BY <1>6 DEF InFlight
<1> QED BY <1>1, <1>3, <1>4, <1>5, <1>7, <1>8

LEMMA KeepsBeginSlice ==
  ASSUME VmInv, BeginSlice, Late
  PROVE  VmInv'
<1>1. /\ phase = "ready" /\ phase' \in {"failed", "running"}
      /\ UNCHANGED << frames, fresh, gate, effect, nextId, result, memUsed, memLimit >>
  BY DEF BeginSlice, quotaVars
<1>2. /\ frames # <<>> /\ result = None /\ nextId \in Nat
      /\ Covered(HeapOf(frames), memUsed, memLimit, 0)
  BY <1>1, Waiting DEF Active
<1>3. InFlight' = 0
  BY <1>1 DEF InFlight
<1> QED BY <1>1, <1>2, <1>3, Between

LEMMA KeepsEndSlice ==
  ASSUME VmInv, EndSlice, Late
  PROVE  VmInv'
<1>1. /\ phase = "running"
      /\ UNCHANGED << frames, fresh, gate, effect, nextId, memUsed, memLimit >>
      /\ result' = (IF result.k = "trap" THEN result ELSE None)
      /\ phase' = "failed" \/ phase' = After(result)
  BY Zenon DEF EndSlice
<1>2. /\ nextId \in Nat /\ (frames = <<>> => result = Complete)
      /\ Covered(HeapOf(frames), memUsed, memLimit, 0)
  BY <1>1 DEF VmInv, ResultInv, HeldInv, InFlight, Active
<1>3. InFlight' = 0
  BY <1>1 DEF InFlight, After
<1>4. phase' \in {"done", "failed", "effect", "ready"}
  BY <1>1 DEF After
<1>5. phase' # "failed" => result' = None
  BY <1>1 DEF After
<1>6. phase' \in Active => frames # <<>>
  <2>1. Complete.k = "complete"
    BY DEF Complete, Result
  <2> QED BY <1>1, <1>2, <2>1 DEF After, Active
<1>7. nextId' \in Nat /\ Covered(HeapOf(frames), memUsed', memLimit', InFlight')
  BY <1>1, <1>2, <1>3
<1> QED BY <1>1, <1>4, <1>5, <1>6, <1>7, Between

LEMMA KeepsRefill ==
  ASSUME VmInv, RefillLoad \/ RefillStore \/ EffectFails, Late
  PROVE  VmInv'
<1>1. /\ phase \in {"effect", "refilling", "answer"}
      /\ phase' \in {"refilling", "consuming", "failed"}
      /\ UNCHANGED << frames, fresh, gate, effect, nextId, result, memUsed, memLimit >>
  BY DEF RefillLoad, RefillStore, EffectFails, vmVars, quotaVars
<1>2. /\ frames # <<>> /\ result = None /\ nextId \in Nat
      /\ Covered(HeapOf(frames), memUsed, memLimit, 0)
  BY <1>1, Waiting DEF Active
<1>3. InFlight' = 0
  BY <1>1 DEF InFlight
<1> QED BY <1>1, <1>2, <1>3, Between

LEMMA KeepsChargeHop ==
  ASSUME VmInv, ChargeHop, Late
  PROVE  VmInv'
<1>1. /\ phase \in {"effect", "consuming"}
      /\ UNCHANGED << frames, fresh, gate, effect, nextId, result, memLimit >>
      /\ \/ phase' = "failed" /\ memUsed' = memUsed
         \/ /\ phase' = "delivering" /\ memUsed' = memUsed + effect.cost
            /\ ~ (memUsed + effect.cost > memLimit)
  BY DEF ChargeHop, vmVars
<1>2. /\ frames # <<>> /\ result = None /\ nextId \in Nat /\ effect.cost \in Nat
      /\ Covered(HeapOf(frames), memUsed, memLimit, 0)
      /\ memUsed \in Nat /\ memLimit \in Nat /\ memUsed <= memLimit
  BY <1>1, Waiting DEF Active
<1>3. Covered(HeapOf(frames), memUsed', memLimit', InFlight')
  <2>1. CASE phase' = "failed" /\ memUsed' = memUsed
    BY <1>1, <1>2, <2>1 DEF InFlight
  <2>2. CASE /\ phase' = "delivering" /\ memUsed' = memUsed + effect.cost
             /\ ~ (memUsed + effect.cost > memLimit)
    <3>1. InFlight' = effect.cost
      BY <1>1, <2>2 DEF InFlight
    <3> DEFINE cost == effect.cost
    <3>2. cost \in Nat
      BY <1>2
    <3> HIDE DEF cost
    <3>3. memUsed' \in Nat /\ memUsed' <= memLimit /\ memUsed' - cost >= memUsed - 0
      <4>1. memUsed' = memUsed + cost /\ ~ (memUsed + cost > memLimit)
        BY <2>2 DEF cost
      <4> QED BY <1>2, <3>2, <4>1
    <3>4. Covered(HeapOf(frames), memUsed', memLimit, cost)
      BY <1>2, <3>2, <3>3, CoversFewer
    <3> QED BY <1>1, <3>1, <3>4 DEF cost
  <2> QED BY <1>1, <2>1, <2>2
<1> QED BY <1>1, <1>2, <1>3, Between

LEMMA KeepsDeliver ==
  ASSUME VmInv, Deliver, Late
  PROVE  VmInv'
<1>1. /\ phase = "delivering" /\ phase' \in {"ready", "answer", "failed"}
      /\ UNCHANGED << frames, fresh, gate, effect, result, memLimit >>
      /\ nextId' \in {nextId, nextId + 1}
      /\ memUsed' = Saturated(memUsed - effect.cost) \/ memUsed' = memUsed
  BY DEF Deliver, Delivered
<1>2. /\ frames # <<>> /\ result = None /\ nextId \in Nat /\ effect.cost \in Nat
      /\ Covered(HeapOf(frames), memUsed, memLimit, effect.cost)
      /\ memUsed \in Nat /\ memLimit \in Nat /\ memUsed <= memLimit
  BY <1>1, Waiting DEF Active
<1>3. InFlight' = 0
  BY <1>1 DEF InFlight
<1> DEFINE cost == effect.cost
<1>4. cost \in Nat /\ cost <= memUsed
  <2>1. Weighed(HeapOf(frames)) /\ Weight(HeapOf(frames)) + cost <= memUsed
    BY <1>2 DEF Covered
  <2>2. Weight(HeapOf(frames)) \in Nat
    BY <2>1, WeightIsNat
  <2> HIDE DEF cost
  <2>3. cost \in Nat
    BY <1>2 DEF cost
  <2> QED BY <1>2, <2>1, <2>2, <2>3
<1>5. memUsed' = memUsed - cost \/ memUsed' = memUsed
  <2>1. Saturated(memUsed - cost) = memUsed - cost
    <3> HIDE DEF cost
    <3> QED BY <1>2, <1>4 DEF Saturated
  <2> QED BY <1>1, <2>1
<1>6. Covered(HeapOf(frames), memUsed, memLimit, cost)
  BY <1>2
<1> HIDE DEF cost
<1>7. memUsed' \in Nat /\ memUsed' <= memLimit /\ memUsed' - 0 >= memUsed - cost
  BY <1>2, <1>4, <1>5
<1>8. 0 \in Nat
  OBVIOUS
<1>9. Covered(HeapOf(frames), memUsed', memLimit, 0)
  BY <1>2, <1>6, <1>7, <1>8, CoversFewer
<1>10. nextId' \in Nat
  BY <1>1, <1>2
<1> QED BY <1>1, <1>2, <1>3, <1>9, <1>10, Between

(***************************************************************************)
(* resume_with: a value of the scheduler's, or none.                       *)
(***************************************************************************)
LEMMA AnswerIsPlain ==
  ASSUME NEW op, NEW v \in Answers(op)
  PROVE  Plain(v)
<1>1. v \in {Cap, Unit, IntVal(1), Msg}
  BY DEF Answers
<1>2. 1 \in Int
  OBVIOUS
<1> QED BY <1>1, <1>2, MadeValues, Zenon

LEMMA KeepsResume ==
  ASSUME VmInv, Resume, Late
  PROVE  VmInv'
<1>1. /\ phase \in {"answer", "effect"} /\ phase' = "ready"
      /\ UNCHANGED << fresh, gate, effect, nextId, result, memLimit >>
  BY DEF Resume, Pending
<1>2. /\ frames # <<>> /\ result = None /\ nextId \in Nat /\ effect.cost \in Nat
      /\ frames \in Seq(FrameSet(chunk, trust, fresh))
      /\ Covered(HeapOf(frames), memUsed, memLimit, 0)
  BY <1>1, Waiting DEF Active
<1>3. InFlight' = 0
  BY <1>1 DEF InFlight
<1>4. CASE UNCHANGED << frames, memUsed >>
  BY <1>1, <1>2, <1>3, <1>4, Between
<1>5. CASE \E v \in Answers(effect.op) :
             /\ frames' = Put(frames, effect.dest, v)
             /\ ChargeStore(frames, effect.dest, v)
  <2>1. PICK v \in Answers(effect.op) :
               /\ frames' = Put(frames, effect.dest, v)
               /\ ChargeStore(frames, effect.dest, v)
    BY <1>5
  <2>2. v \in Allowed(chunk, trust, fresh) /\ Same(HeapOf(frames), v)
    BY AnswerIsPlain, PlainFits
  <2>3. HeapOf(frames) \subseteq HeapOf(frames)
    OBVIOUS
  <2>4. /\ frames' \in Seq(FrameSet(chunk, trust, fresh)) /\ Like(frames', frames)
        /\ Covered(HeapOf(frames'), memUsed', memLimit, 0)
    BY <1>2, <2>1, <2>2, <2>3, StoreKeeps
  <2>5. chunk' = chunk /\ trust' = trust
    BY DEF Late, loadVars
  <2>6. Len(frames) <= MaxDepth /\ frames[1].dest = Outermost /\ 1 \in DOMAIN frames
    BY <1>2 DEF VmInv, StackInv
  <2>7. Len(frames') <= MaxDepth /\ frames'[1].dest = Outermost /\ frames' # <<>>
    BY <1>2, <2>4, <2>6 DEF Like
  <2>8. StackInv'
    BY <1>1, <2>4, <2>5, <2>7 DEF StackInv
  <2>9. HeldInv'
    BY <1>1, <1>3, <2>4 DEF HeldInv
  <2>10. None.why = ""
    BY DEF None, Result
  <2>11. ResultInv'
    BY <1>1, <1>2, <2>7, <2>10 DEF VmInv, ResultInv
  <2> QED BY <2>8, <2>9, <2>11 DEF VmInv
<1> QED BY <1>4, <1>5, Zenon DEF Resume

LEMMA WorkerKeeps ==
  ASSUME VmInv, Worker
  PROVE  VmInv'
BY WorkerIsLate, KeepsBeginSlice, KeepsEndSlice, KeepsRefill, KeepsChargeHop, KeepsDeliver,
   KeepsResume, Zenon DEF Worker

LEMMA ToppedUpKeeps ==
  ASSUME VmInv, ToppedUp
  PROVE  VmInv'
<1>1. PICK n \in TopUps : TopUpCpu(n) \/ TopUpMem(n) \/ TopUpSend(n)
  BY Zenon DEF ToppedUp
<1>2. TopUp(n) /\ (memLimit' = memLimit \/ (n >= 0 /\ memLimit' = memLimit + n))
  BY <1>1 DEF TopUpCpu, TopUpMem, TopUpSend
<1>3. /\ phase \in Active
      /\ UNCHANGED << phase, frames, fresh, gate, effect, nextId, result, memUsed >>
  BY <1>2 DEF TopUp, Live, Active, vmVars
<1>4. n \in Int
  BY MachineAssumption
<1>5. Covered(HeapOf(frames), memUsed, memLimit, InFlight) /\ InFlight' = InFlight
  BY <1>3 DEF VmInv, HeldInv, InFlight
<1>6. /\ memUsed \in Nat /\ memLimit \in Nat /\ InFlight \in Nat /\ memUsed <= memLimit
  BY <1>5 DEF Covered
<1>7. /\ memLimit' \in Nat /\ memUsed <= memLimit'
      /\ memUsed - InFlight >= memUsed - InFlight
  <2> DEFINE hop == InFlight
  <2>1. hop \in Nat
    BY <1>6
  <2> HIDE DEF hop
  <2>2. memUsed - hop >= memUsed - hop
    BY <1>6, <2>1
  <2>3. memLimit' \in Nat /\ memUsed <= memLimit'
    BY <1>2, <1>4, <1>6
  <2> QED BY <2>2, <2>3 DEF hop
<1>8. Covered(HeapOf(frames), memUsed, memLimit', InFlight)
  BY <1>5, <1>6, <1>7, CoversFewer
<1>9. Late
  BY <1>2, TopUpIsLate
<1>10. /\ nextId \in Nat /\ (phase \notin {"running", "failed"} => result = None)
       /\ (frames # <<>> \/ result = Complete)
  BY <1>3 DEF VmInv, ResultInv
<1>11. phase' \notin {"loaded", "refused"}
  BY <1>3 DEF Active
<1> QED BY <1>3, <1>5, <1>8, <1>9, <1>10, <1>11, Between

-----------------------------------------------------------------------------
(***************************************************************************)
(* Spawning: the registers are charged one by one, which covers the values *)
(* they hold even when two hold the same.                                  *)
(***************************************************************************)
LEMMA OneFrame ==
  ASSUME NEW fr, IsFiniteSet(DOMAIN fr.regs),
         \A r \in DOMAIN fr.regs : HeapCost(fr.regs[r]) \in Nat
  PROVE  LET cost == SumFunction([r \in DOMAIN fr.regs |-> HeapCost(fr.regs[r])]) IN
           /\ cost \in Nat
           /\ Weighed(HeapOf(<< fr >>))
           /\ Weight(HeapOf(<< fr >>)) <= cost
<1> DEFINE D == DOMAIN fr.regs
           S == HeapOf(<< fr >>)
           g == [r \in D |-> HeapCost(fr.regs[r])]
           e == [v \in S |-> HeapCost(v)]
           b == [v \in S |-> CHOOSE r \in D : fr.regs[r] = v]
<1>1. \A v \in S : \E r \in D : fr.regs[r] = v
  <2>1. \A f \in DOMAIN << fr >> : << fr >>[f] = fr
    OBVIOUS
  <2> QED BY <2>1, InHeapOf
<1>2. \A v \in S : b[v] \in D /\ fr.regs[b[v]] = v
  <2> HIDE DEF S, D
  <2> QED BY <1>1
<1>3. DOMAIN b = S /\ DOMAIN g = D
  OBVIOUS
<1>4. \A r \in D : g[r] = HeapCost(fr.regs[r]) /\ g[r] \in Nat
  OBVIOUS
<1>5. \A v \in S : e[v] = HeapCost(v)
  OBVIOUS
<1>6. b \in [S -> D]
  <2> HIDE DEF S, D
  <2> QED BY <1>2
<1> HIDE DEF D, S, g, e, b
<1>7. Renames(b, e, g, S)
  BY <1>2, <1>4, <1>5 DEF Renames
<1>8. IsFiniteSet(D)
  BY DEF D
<1>9. IsFiniteSet(S)
  <2>1. b \in Injection(S, D)
    BY <1>3, <1>6, <1>7, Zenon DEF Injection, IsInjective, Renames
  <2> QED BY <1>8, <2>1, FS_Injection
<1>10. SumFunctionOnSet(g, NewNames(b, S)) = SumFunctionOnSet(e, S)
  BY <1>7, <1>9, SumReindex
<1>11. NewNames(b, S) \subseteq D
  BY <1>2 DEF NewNames
<1>12. SumFunctionOnSet(g, NewNames(b, S)) <= SumFunctionOnSet(g, D)
  BY <1>4, <1>8, <1>11, SumMonotone
<1>13. SumFunctionOnSet(g, D) \in Nat
  BY <1>4, <1>8, SumIsNat
<1>14. Weighed(S)
  BY <1>2, <1>4, <1>9 DEF Weighed
<1>15. Weight(S) = SumFunctionOnSet(e, S)
  BY DEF Weight, e
<1>16. SumFunction(g) = SumFunctionOnSet(g, D)
  BY <1>3 DEF SumFunction
<1>17. SumFunction(g) \in Nat /\ Weight(S) <= SumFunction(g)
  BY <1>10, <1>12, <1>13, <1>15, <1>16
<1> QED BY <1>14, <1>17 DEF g, D, S

LEMMA ForeignIsAllowed ==
  ASSUME NEW v, Foreign(v), NEW ch, NEW t, NEW made \in Nat
  PROVE  v \in Allowed(ch, t, made)
<1>1. /\ v \in [k : Range(Kinds), n : Int, id : Int]
      /\ v.k \in {"str", "bytes", "msg"} => v.n >= 0
      /\ v.k \in Heap => v.id > MaxConsts
      /\ v.k \in Authority => v.id = 0
      /\ InWidth(v)
  BY DEF Foreign
<1>2. v.k \in Heap => v.id # 0 /\ v.id >= -made /\ v.id \notin 1 .. MaxConsts
  BY <1>1, AssemblerAssumption
<1> QED BY <1>1, <1>2 DEF Allowed

LEMMA EmptyStack ==
  ASSUME NEW ch, NEW t, NEW made
  PROVE  <<>> \in Seq(FrameSet(ch, t, made)) /\ HeapOf(<<>>) = {}
<1>1. HeapOf(<<>>) = {}
  BY DEF HeapOf
<1> QED BY <1>1

LEMMA StartedKeeps ==
  ASSUME AsmInv, VmInv, Started
  PROVE  VmInv'
<1>1. PICK f \in 0 .. Len(chunk.functions), s \in family.spawns : Start(f, s.args, s.native)
  BY Zenon DEF Started
<1> DEFINE fr == Entered(f, s.args, Outermost)
           cost == SumFunction([r \in DOMAIN fr.regs |-> HeapCost(fr.regs[r])])
<1>2. /\ phase = "loaded" /\ gate' = s.native
      /\ UNCHANGED << result, effect, nextId, fresh, memLimit >>
      /\ UNCHANGED loadVars
  BY <1>1 DEF Start
<1>3. \/ phase' = "refused" /\ UNCHANGED << frames, memUsed >>
      \/ /\ f + 1 \in DOMAIN chunk.functions /\ ~ (cost > memLimit)
         /\ phase' = "ready" /\ frames' = << fr >> /\ memUsed' = cost
  BY <1>1, Zenon DEF Start
<1>4. /\ s.native \in BOOLEAN
      /\ \A i \in DOMAIN s.args : Foreign(s.args[i])
      /\ \A i, j \in DOMAIN s.args :
           /\ s.args[i].k \in Heap
           /\ s.args[i].k = s.args[j].k /\ s.args[i].id = s.args[j].id
           => s.args[i] = s.args[j]
  BY <1>1, ValueAssumption DEF AsmInv
<1>5. /\ frames = <<>> /\ result = None /\ nextId \in Nat /\ fresh \in Nat
      /\ effect \in [op : Range(Opcodes) \cup {"none"}, dest : Int, cost : Nat]
  BY <1>2 DEF VmInv, ResultInv
<1>6. Covered(HeapOf(frames), memUsed, memLimit, 0)
  BY <1>2 DEF VmInv, HeldInv, InFlight
<1>7. None.why = ""
  BY DEF None, Result
<1>8. CASE phase' = "refused" /\ UNCHANGED << frames, memUsed >>
  <2>1. StackInv'
    BY <1>2, <1>8 DEF VmInv, StackInv, loadVars
  <2>2. HeldInv'
    BY <1>2, <1>6, <1>8 DEF HeldInv, InFlight
  <2>3. ResultInv'
    BY <1>2, <1>4, <1>5, <1>7, <1>8 DEF ResultInv, Active
  <2> QED BY <2>1, <2>2, <2>3 DEF VmInv
<1>9. CASE /\ f + 1 \in DOMAIN chunk.functions /\ ~ (cost > memLimit)
           /\ phase' = "ready" /\ frames' = << fr >> /\ memUsed' = cost
  <2>1. ChunkOK(chunk) /\ Verify(chunk, trust)
    BY <1>2 DEF AsmInv
  <2>2. AllAllowed(s.args, chunk, trust, fresh)
    BY <1>4, <1>5, ForeignIsAllowed DEF AllAllowed
  <2>3. f \in Int /\ Outermost \in Int
    BY <1>1 DEF Outermost
  <2>4. /\ fr \in FrameSet(chunk, trust, fresh) /\ fr.dest = Outermost
        /\ \A r \in DOMAIN fr.regs :
             fr.regs[r] = Unit \/ (r \in DOMAIN s.args /\ fr.regs[r] = s.args[r])
        /\ IsFiniteSet(DOMAIN fr.regs)
    <3> DEFINE args == s.args
               to == Outermost
    <3>1. AllAllowed(args, chunk, trust, fresh) /\ to \in Int
      BY <2>2, <2>3
    <3>2. f + 1 \in DOMAIN chunk.functions
      BY <1>9
    <3> HIDE DEF args, to
    <3>3. NewFrame(Entered(f, args, to), args, to, chunk, trust, fresh)
      BY <2>1, <2>3, <3>1, <3>2, EnteredIs
    <3>4. NewFrame(fr, s.args, Outermost, chunk, trust, fresh)
      BY <3>3 DEF args, to
    <3> HIDE DEF fr
    <3> QED BY <3>4 DEF NewFrame
  <2> HIDE DEF fr
  <2>5. Unit.k \notin Heap
    BY DEF Unit, Val, Heap
  <2>6. \A r \in DOMAIN fr.regs : HeapCost(fr.regs[r]) \in Nat
    <3>1. ASSUME NEW r \in DOMAIN fr.regs PROVE HeapCost(fr.regs[r]) \in Nat
      <4>1. fr.regs[r] \in Allowed(chunk, trust, fresh)
        BY <2>4, FrameParts
      <4>2. fr.regs[r].n \in Int /\ (fr.regs[r].k \in Heap => fr.regs[r].n >= 0)
        BY <4>1, AllowedParts DEF Heap
      <4> QED BY <4>2 DEF HeapCost
    <3> QED BY <3>1
  <2>7. /\ cost \in Nat /\ Weighed(HeapOf(<< fr >>)) /\ Weight(HeapOf(<< fr >>)) <= cost
    BY <2>4, <2>6, OneFrame
  <2> HIDE DEF cost
  <2>8. OneEach(HeapOf(<< fr >>))
    <3>1. ASSUME NEW v \in HeapOf(<< fr >>)
          PROVE  v.k \in Heap /\ \E i \in DOMAIN s.args : v = s.args[i]
      <4>1. \A x \in DOMAIN << fr >> : << fr >>[x] = fr
        OBVIOUS
      <4>2. v.k \in Heap /\ \E r \in DOMAIN fr.regs : v = fr.regs[r]
        BY <4>1, InHeapOf
      <4>3. PICK r \in DOMAIN fr.regs : v = fr.regs[r]
        BY <4>2
      <4> QED BY <2>4, <2>5, <4>2, <4>3, Zenon
    <3>2. ASSUME NEW v \in HeapOf(<< fr >>), NEW w \in HeapOf(<< fr >>), v.k = w.k, v.id = w.id
          PROVE  v = w
      <4>1. PICK i \in DOMAIN s.args : v = s.args[i]
        BY <3>1
      <4>2. PICK j \in DOMAIN s.args : w = s.args[j]
        BY <3>1
      <4>3. /\ s.args[i].k \in Heap
            /\ s.args[i].k = s.args[j].k /\ s.args[i].id = s.args[j].id
        BY <3>1, <3>2, <4>1, <4>2
      <4> QED BY <1>4, <4>1, <4>2, <4>3
    <3> QED BY <3>2, Zenon DEF OneEach
  <2>9. memLimit \in Nat
    BY <1>6 DEF Covered
  <2>10. cost <= memLimit /\ Weight(HeapOf(<< fr >>)) + 0 <= cost
    <3>1. Weight(HeapOf(<< fr >>)) \in Nat
      BY <2>7, WeightIsNat
    <3> QED BY <1>9, <2>7, <2>9, <3>1
  <2>11. Covered(HeapOf(<< fr >>), cost, memLimit, 0)
    BY <2>7, <2>8, <2>9, <2>10 DEF Covered
  <2>12. HeldInv'
    BY <1>2, <1>9, <2>11 DEF HeldInv, InFlight
  <2>13. frames' \in Seq(FrameSet(chunk, trust, fresh)) /\ Len(frames') = 1 /\ frames'[1] = fr
         /\ frames' # <<>>
    BY <1>9, <2>4
  <2>14. StackInv'
    BY <1>2, <2>4, <2>13, MachineAssumption DEF StackInv, loadVars
  <2>15. ResultInv'
    BY <1>2, <1>4, <1>5, <1>7, <1>9, <2>13 DEF ResultInv
  <2> QED BY <2>12, <2>14, <2>15 DEF VmInv
<1> QED BY <1>3, <1>8, <1>9

LEMMA VmInit ==
  ASSUME Init
  PROVE  VmInv
<1>1. /\ frames = <<>> /\ result = None /\ effect = NoEffect /\ gate = FALSE /\ nextId = 1
      /\ fresh = 0 /\ memLimit = MemLimit /\ memUsed = 0 /\ phase = "assembling"
  BY DEF Init, AsmInit
<1>2. StackInv
  BY <1>1, EmptyStack, MachineAssumption DEF StackInv
<1>3. ResultInv
  <2>1. None.why = "" /\ NoEffect \in [op : Range(Opcodes) \cup {"none"}, dest : Int, cost : Nat]
    BY DEF None, Result, NoEffect
  <2> QED BY <1>1, <2>1 DEF ResultInv, Active
<1>4. HeldInv
  <2>1. Weighed({}) /\ Weight({}) = 0 /\ OneEach({})
    BY FS_EmptySet, SumEmpty DEF Weighed, Weight, OneEach
  <2>2. InFlight = 0 /\ HeapOf(frames) = {}
    BY <1>1, EmptyStack DEF InFlight
  <2>3. MemLimit \in Nat
    BY MachineAssumption
  <2>4. Weight({}) + 0 <= 0 /\ 0 <= MemLimit /\ 0 \in Nat
    BY <2>1, <2>3
  <2>5. Covered({}, 0, MemLimit, 0)
    BY <2>1, <2>3, <2>4, Zenon DEF Covered
  <2> QED BY <1>1, <2>2, <2>5, Zenon DEF HeldInv
<1> QED BY <1>2, <1>3, <1>4 DEF VmInv

LEMMA AsmKeeps ==
  ASSUME VmInv, AsmNext, UNCHANGED << vmVars, quotaVars >>
  PROVE  VmInv'
<1>1. /\ phase \in {"assembling", "built"}
      /\ phase' \in {"assembling", "built", "loaded", "refused"}
  BY AsmNextEarly DEF Early
<1>2. UNCHANGED << frames, fresh, gate, effect, nextId, result, memUsed, memLimit >>
  BY DEF vmVars, quotaVars
<1>3. frames = <<>> /\ result = None
  BY <1>1 DEF VmInv, ResultInv
<1>4. StackInv'
  BY <1>2, <1>3, EmptyStack, MachineAssumption DEF StackInv
<1>5. HeldInv'
  BY <1>1, <1>2 DEF VmInv, HeldInv, InFlight
<1>6. None.why = ""
  BY DEF None, Result
<1>7. ResultInv'
  BY <1>1, <1>2, <1>3, <1>6 DEF VmInv, ResultInv, Active
<1> QED BY <1>4, <1>5, <1>7 DEF VmInv

LEMMA VmNext ==
  ASSUME AsmInv, VmInv, [Next]_vars
  PROVE  VmInv'
<1>1. CASE UNCHANGED vars
  <2>1. UNCHANGED << asmVars, vmVars, quotaVars >>
    BY <1>1 DEF vars
  <2>2. /\ UNCHANGED << chunk, trust, phase >>
        /\ UNCHANGED << frames, fresh, gate, effect, nextId, result, memUsed, memLimit >>
    BY <2>1 DEF asmVars, vmVars, quotaVars
  <2> QED BY <2>2 DEF VmInv, StackInv, ResultInv, HeldInv, InFlight, Top
<1> QED BY <1>1, NextCases, AsmKeeps, StartedKeeps, StepKeeps, WorkerKeeps, ToppedUpKeeps, Zenon

-----------------------------------------------------------------------------
(***************************************************************************)
(* The inductive invariant: the module is the one that was built and       *)
(* verified, every register holds a value the module can have come by,     *)
(* the charge covers what the registers hold, the slices and the bucket    *)
(* balance.                                                                *)
(***************************************************************************)
THEOREM MachInvariant == Spec => []MachInv
<1>1. Init => MachInv
  BY AsmInvInit, VmInit, QuotaInit DEF MachInv, VmInv
<1>2. MachInv /\ [Next]_vars => MachInv'
  <2> SUFFICES ASSUME MachInv, [Next]_vars PROVE MachInv'
    OBVIOUS
  <2>1. AsmInv /\ VmInv /\ QuotaInv
    BY DEF MachInv, VmInv
  <2>2. AsmInv' /\ VmInv' /\ QuotaInv'
    BY <2>1, AsmInvNext, VmNext, QuotaNext
  <2> QED BY <2>2 DEF MachInv, VmInv
<1> QED BY <1>1, <1>2, PTL DEF Spec

LEMMA RegisterHolds ==
  ASSUME StackInv, NEW f \in DOMAIN frames
  PROVE  /\ frames[f].pc \in 0 .. Len(chunk.code)
         /\ \A r \in DOMAIN frames[f].regs :
              frames[f].regs[r] \in Allowed(chunk, trust, fresh)
<1>1. frames[f] \in FrameSet(chunk, trust, fresh)
  BY DEF StackInv
<1>2. /\ frames[f].pc \in 0 .. Len(chunk.code)
      /\ frames[f].regs \in Seq(Allowed(chunk, trust, fresh))
  BY <1>1, FrameParts
<1> QED BY <1>2

(***************************************************************************)
(* Type correctness: no register file is wider than a u8 can count, and no *)
(* integer leaves its width, whatever is computed (numeric_binop, Neg).    *)
(***************************************************************************)
THEOREM MachineTypeCorrect == Spec => []TypeOK
<1>1. MachInv => TypeOK
  <2> SUFFICES ASSUME MachInv PROVE TypeOK
    OBVIOUS
  <2>1. AsmInv /\ StackInv /\ HeldInv /\ QuotaInv
    BY DEF MachInv
  <2>2. Registers \subseteq 0 .. U8Max
    BY AssemblerAssumption DEF Registers
  <2>3. /\ phase \in Phases /\ trust \in {"trusted", "untrusted"}
        /\ \A f \in DOMAIN chunk.functions : chunk.functions[f].regs \in 0 .. U8Max
        /\ nextReg \in 0 .. U8Max
        /\ \A l \in family.labels : targets[l] \in {Unbound} \cup 0 .. MaxCode
    BY <2>1, <2>2 DEF AsmInv, ChunkOK
  <2>4. \A f \in DOMAIN frames : \A r \in DOMAIN frames[f].regs : InWidth(frames[f].regs[r])
    BY <2>1, RegisterHolds, AllowedParts
  <2>5. memUsed \in Nat /\ memLimit \in Nat
    BY <2>1 DEF HeldInv, Covered
  <2>6. /\ left \in 0 .. Quantum /\ ran \in 0 .. Quantum
        /\ sent \in Nat /\ executed \in Nat /\ cpu \in Int /\ tokens \in Nat
    BY <2>1 DEF QuotaInv
  <2> QED BY <2>3, <2>4, <2>5, <2>6 DEF TypeOK, InWidth
<1> QED BY <1>1, MachInvariant, PTL

(***************************************************************************)
(* What verify_with accepts never makes Vm::run fault on a constant or a   *)
(* function, lose its frame or leave the code, and an untrusted module     *)
(* never gets hold of an authority of its own making.                      *)
(***************************************************************************)
THEOREM VerifiedHolds == Spec => []VerifiedIsSafe
<1>1. MachInv => VerifiedIsSafe
  <2> SUFFICES ASSUME MachInv PROVE VerifiedIsSafe
    OBVIOUS
  <2>1. StackInv /\ ResultInv
    BY DEF MachInv
  <2>2. None # Complete
    BY DEF None, Complete, Result
  <2>3. /\ result.why \notin {"const", "function"}
        /\ (phase = "running" /\ result = None) => frames # <<>>
    BY <2>1, <2>2 DEF ResultInv, Active
  <2>4. Len(frames) <= MaxDepth
    BY <2>1 DEF StackInv
  <2>5. ASSUME NEW f \in DOMAIN frames
        PROVE  /\ frames[f].pc \in 0 .. Len(chunk.code)
               /\ trust = "untrusted" =>
                    \A r \in DOMAIN frames[f].regs :
                      frames[f].regs[r].k \in Authority => frames[f].regs[r].id <= 0
    <3>1. \A v \in Allowed(chunk, trust, fresh) :
            trust = "untrusted" /\ v.k \in Authority => v.id <= 0
      BY DEF Allowed
    <3> QED BY <2>1, <3>1, RegisterHolds
  <2> QED BY <2>3, <2>4, <2>5 DEF VerifiedIsSafe
<1> QED BY <1>1, MachInvariant, PTL

(***************************************************************************)
(* The quota of a flow holds: no more instructions than were granted, no   *)
(* heap value in a register or hop on its way that is not charged, no      *)
(* charge beyond the limit, no more sends than tokens (charge_cpu, alloc,  *)
(* charge_register_store, TokenBucket).                                    *)
(***************************************************************************)
THEOREM QuotaHolds == Spec => []WithinQuota
<1>1. MachInv => WithinQuota
  <2> SUFFICES ASSUME MachInv PROVE WithinQuota
    OBVIOUS
  <2>1. HeldInv /\ QuotaInv
    BY DEF MachInv
  <2>2. Held = Weight(HeapOf(frames))
    BY DEF Held, Weight, Reachable, HeapOf
  <2>3. memUsed <= memLimit /\ Held + InFlight <= memUsed
    BY <2>1, <2>2 DEF HeldInv, Covered
  <2>4. executed <= grantedCpu /\ tokens + sent <= grantedSend
    BY <2>1 DEF QuotaInv
  <2> QED BY <2>3, <2>4 DEF WithinQuota
<1> QED BY <1>1, MachInvariant, PTL

-----------------------------------------------------------------------------
(***************************************************************************)
(* Only an instruction counts as one.                                      *)
(***************************************************************************)
LEMMA OnlyStepsCount ==
  ASSUME [Next]_vars, executed' # executed
  PROVE  Step
<1>1. CASE AsmNext /\ UNCHANGED << vmVars, quotaVars >>
  BY <1>1 DEF quotaVars
<1>2. CASE UNCHANGED vars
  BY <1>2 DEF vars, quotaVars
<1>3. CASE Started
  BY <1>3, Zenon DEF Started, Start
<1>4. CASE ToppedUp
  BY <1>4, Zenon DEF ToppedUp, TopUpCpu, TopUpMem, TopUpSend, TopUp
<1>5. CASE Worker
  BY <1>5, Zenon DEF Worker, BeginSlice, EndSlice, RefillLoad, RefillStore, ChargeHop,
                     Deliver, Resume, EffectFails, quotaVars
<1> QED BY <1>1, <1>2, <1>3, <1>4, <1>5, NextCases, Zenon

LEMMA JumpsOnly ==
  ASSUME Step, Top.pc < Len(chunk.code), Here.op \in {"Jump", "Branch"}, Len(chunk.code) \in Nat,
         Top.pc \in Nat
  PROVE  StepJump
<1>1. ~ StepEnd
  BY DEF StepEnd
<1>2. /\ ~ StepReturn /\ ~ StepStop /\ ~ StepNop /\ ~ StepLoad /\ ~ StepBinop /\ ~ StepNeg
      /\ ~ FreshRequestId /\ ~ StepCall /\ ~ StepNative /\ ~ StepEffect
  BY DEF StepReturn, StepStop, StepNop, StepLoad, StepBinop, StepNeg, FreshRequestId, StepCall,
         StepNative, StepEffect, Fetch, Effects
<1> QED BY <1>1, <1>2, Zenon DEF Step

(***************************************************************************)
(* emit_jump_to_label, bind_label, build and the encoding of a module: a   *)
(* jump assembled to a label, when it is executed, goes to where the label *)
(* was bound, for every program.                                           *)
(***************************************************************************)
THEOREM LabelsHold == Spec => LabelsLand
<1> DEFINE Lands ==
      (executed' > executed /\ Top.pc \in DOMAIN meant /\ result' = None) =>
        Top'.pc = IF Here.op = "Jump" \/ ~ Truthy(Reg(Here.a)) THEN meant[Top.pc] ELSE Top.pc + 1
<1>1. MachInv /\ [Next]_vars => Lands
  <2> SUFFICES ASSUME MachInv, [Next]_vars, executed' > executed, Top.pc \in DOMAIN meant,
                      result' = None
               PROVE  Top'.pc = IF Here.op = "Jump" \/ ~ Truthy(Reg(Here.a))
                                  THEN meant[Top.pc] ELSE Top.pc + 1
    OBVIOUS
  <2>1. AsmInv /\ VmInv /\ executed \in Nat
    BY DEF MachInv, VmInv, QuotaInv
  <2>2. Step
    <3>1. executed' # executed
      BY <2>1
    <3> QED BY <3>1, OnlyStepsCount
  <2>3. Running /\ Counted
    BY <2>2, StepCounts
  <2>4. chunk = built
    BY <2>1, <2>3 DEF AsmInv, Running
  <2>5. IsJump(chunk, Top.pc) /\ meant[Top.pc] = Top.pc + 1 + Here.imm
    BY <2>1, <2>4 DEF AsmInv, MeantOK, Here
  <2>6. /\ frames \in Seq(FrameSet(chunk, trust, fresh)) /\ frames # <<>>
        /\ Len(chunk.code) \in Nat /\ Len(frames) \in Nat
    BY <2>1, <2>3, AtInstruction
  <2>7. Top.pc \in Nat /\ Top.pc < Len(chunk.code) /\ Here.op \in {"Jump", "Branch"}
    BY <2>5, <2>6 DEF IsJump, Here
  <2>8. StepJump
    BY <2>2, <2>6, <2>7, JumpsOnly
  <2>9. Fetch({"Jump", "Branch"})
    BY <2>8 DEF StepJump
  <2>10. OperandOK(chunk, Top.pc) /\ Top.pc + 1 \in 0 .. Len(chunk.code)
    BY <2>1, <2>9, Fetched
  <2>11. Top.pc + 1 + Here.imm \in 0 .. Len(chunk.code)
    BY <2>7, <2>10 DEF OperandOK, Here
  <2>12. ~ Ends(Trap("operand"))
    <3>1. None # Trap("operand")
      BY DEF None, Trap, Result
    <3> QED BY <3>1 DEF Ends
  <2>13. frames' = (IF Goes(Here) THEN SetPc(frames, Top.pc + 1 + Here.imm) ELSE Advanced)
    BY <2>8, <2>12, Zenon DEF StepJump
  <2> DEFINE pc == IF Goes(Here) THEN Top.pc + 1 + Here.imm ELSE Top.pc + 1
  <2>14. frames' = SetPc(frames, pc) /\ pc \in 0 .. Len(chunk.code)
    BY <2>10, <2>11, <2>13 DEF Advanced
  <2>15. Top'.pc = pc
    <3> HIDE DEF pc
    <3>1. Len(frames') = Len(frames) /\ frames'[Len(frames)].pc = pc
      BY <2>6, <2>14, SetPcIs DEF Like
    <3> QED BY <3>1 DEF Top
  <2> QED BY <2>5, <2>15 DEF Goes
<1>2. MachInv /\ [Next]_vars => [Lands]_vars
  BY <1>1
<1> HIDE DEF Lands
<1>3. Spec => [][Lands]_vars
  BY <1>2, MachInvariant, PTL DEF Spec
<1> QED BY <1>3 DEF LabelsLand, Lands
=============================================================================
