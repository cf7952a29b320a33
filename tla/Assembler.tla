----------------------------- MODULE Assembler -----------------------------
(***************************************************************************)
(* Assembling and loading a module: Program / Fn (bytecode/program.rs) on  *)
(* top of ChunkBuilder (bytecode/builder.rs), then encode, decode and      *)
(* verify on the way to a runtime.                                         *)
(*                                                                         *)
(* Every emit_* of the builder appends one instruction, and every method   *)
(* of Fn is a few of them over registers it allocates.  Which instructions *)
(* a program is made of is a parameter: it draws from one family.          *)
(***************************************************************************)
EXTENDS Bytecode

CONSTANTS
  Families,      \* kinds of program: the instrs, labels, constants (pool) and
                 \* function shapes one may use, at most how many functions, and
                 \* the spawns a host may ask of it
  MaxCode,       \* bound: instructions in a program
  MaxConsts,     \* bound: constants in a program
  U8Max          \* the largest register number (255)

VARIABLES
  family,    \* what this program draws from
  chunk,     \* constants, functions and code: of the builder, then as loaded
  nextReg,   \* Fn::next_reg of the function that is open
  targets,   \* label_targets
  pending,   \* pending_jumps: <<index of the jump, its label>>
  trust,     \* the trust level it was loaded with
  phase,     \* how far it has got
  built,     \* (observer) what the builder produced
  meant      \* (observer) where each emitted jump was meant to go

asmVars == << family, chunk, nextReg, targets, pending, trust, phase, built, meant >>

(***************************************************************************)
(* A register operand that Fn allocates itself.                            *)
(***************************************************************************)
Local == -1

Unbound == -1

(***************************************************************************)
(* What the types of Instruction, Value and FunctionDef say of a program:  *)
(* opcodes and kinds are the ones there are, registers are u8.             *)
(***************************************************************************)
Registers == 0 .. U8Max

ASSUME AssemblerAssumption ==
  /\ U8Max \in Nat \ {0} /\ MaxCode \in Nat /\ MaxConsts \in Nat
  /\ \A fam \in Families :
       /\ fam.instrs \subseteq [op : Range(Opcodes), a : Registers \cup {Local},
                               b : Registers, c : Registers, imm : Int]
       /\ \A c \in fam.pool : ConstantOK(c)
       /\ fam.shapes \subseteq [arity : Registers, regs : Registers]
       /\ fam.functions \in Nat

NoJumps == [i \in {} |-> 0]

AsmInit ==
  /\ family \in Families
  /\ chunk = EmptyChunk
  /\ nextReg = 0
  /\ targets = [l \in family.labels |-> Unbound]
  /\ pending = {}
  /\ trust = "untrusted"
  /\ phase = "assembling"
  /\ built = EmptyChunk
  /\ meant = NoJumps

(***************************************************************************)
(* ChunkBuilder::const_: a value already in the pool is not added again.   *)
(* It commutes with every other step of the builder; the model takes the   *)
(* constants first.                                                        *)
(***************************************************************************)
Const(v) ==
  /\ phase = "assembling"
  /\ chunk.functions = <<>>
  /\ Len(chunk.constants) < MaxConsts
  /\ chunk' = IF \E i \in DOMAIN chunk.constants : chunk.constants[i] = v
                THEN chunk
                ELSE [chunk EXCEPT !.constants = Append(@, v)]
  /\ UNCHANGED << family, nextReg, targets, pending, trust, phase, built, meant >>

(***************************************************************************)
(* begin_function (Fn::open_with): the entry is the code cursor.           *)
(***************************************************************************)
BeginFunction(shape) ==
  /\ phase = "assembling"
  /\ Len(chunk.functions) < family.functions
  /\ chunk' = [chunk EXCEPT !.functions =
                 Append(@, [entry |-> Len(chunk.code),
                            arity |-> shape.arity, regs |-> shape.regs])]
  /\ nextReg' = shape.regs
  /\ UNCHANGED << family, targets, pending, trust, phase, built, meant >>

(* Mutant: the register number does not saturate. *)
GrownUnbounded(reg) == reg + 1

(***************************************************************************)
(* Fn::local: the next register, saturating, and a frame that holds it:    *)
(* set_num_registers of the open function.                                 *)
(***************************************************************************)
Grown(reg) == IF reg < U8Max THEN reg + 1 ELSE U8Max

Opened == chunk.functions # <<>>

Append1(ch, i) == [ch EXCEPT !.code = Append(@, i)]

(***************************************************************************)
(* An instruction over registers the caller names.                         *)
(***************************************************************************)
Emit(i) ==
  /\ phase = "assembling"
  /\ Opened
  /\ Len(chunk.code) < MaxCode
  /\ i.a # Local
  /\ chunk' = Append1(chunk, i)
  /\ UNCHANGED << family, nextReg, targets, pending, trust, phase, built, meant >>

(***************************************************************************)
(* An instruction into a fresh local: what most methods of Fn do.          *)
(***************************************************************************)
EmitLocal(i) ==
  /\ phase = "assembling"
  /\ Opened
  /\ Len(chunk.code) < MaxCode
  /\ i.a = Local
  /\ nextReg' = Grown(nextReg)
  /\ chunk' = Append1([chunk EXCEPT !.functions[Len(chunk.functions)].regs = Grown(nextReg)],
                      [i EXCEPT !.a = nextReg])
  /\ UNCHANGED << family, targets, pending, trust, phase, built, meant >>

(***************************************************************************)
(* emit_jump and emit_branch: offset 0 until finish patches it.            *)
(***************************************************************************)
EmitToLabel(op, reg, l) ==
  /\ phase = "assembling"
  /\ Opened
  /\ Len(chunk.code) < MaxCode
  /\ chunk' = Append1(chunk, Instruction(op, reg, 0, 0, 0))
  /\ pending' = pending \cup {<< Len(chunk.code), l >>}
  /\ UNCHANGED << family, nextReg, targets, trust, phase, built, meant >>

BindLabel(l) ==
  /\ phase = "assembling"
  /\ Opened
  /\ targets[l] # Len(chunk.code)
  /\ targets' = [targets EXCEPT ![l] = Len(chunk.code)]
  /\ UNCHANGED << family, chunk, nextReg, pending, trust, phase, built, meant >>

(* Mutant: the offset is taken from the jump itself. *)
OffsetFromJump(at, target) == target - at

(***************************************************************************)
(* finish: a jump is relative to the instruction after it; an unbound      *)
(* label leaves offset 0.                                                  *)
(***************************************************************************)
Offset(at, target) == target - (at + 1)

Jumps == {p[1] : p \in pending}

LabelAt(at) == (CHOOSE p \in pending : p[1] = at)[2]

Patched(i, at) ==
  IF at \notin Jumps THEN i
  ELSE IF targets[LabelAt(at)] = Unbound THEN [i EXCEPT !.imm = 0]
  ELSE [i EXCEPT !.imm = Offset(at, targets[LabelAt(at)])]

(***************************************************************************)
(* Where the jump at an index was meant to go: to its label, or to the     *)
(* next instruction when the label has no place.                           *)
(***************************************************************************)
Meant(at) == IF targets[LabelAt(at)] = Unbound THEN at + 1 ELSE targets[LabelAt(at)]

Finish ==
  /\ phase = "assembling"
  /\ phase' = "built"
  /\ chunk' = [chunk EXCEPT !.code = [n \in DOMAIN @ |-> Patched(@[n], n - 1)]]
  /\ built' = chunk'
  /\ meant' = [at \in Jumps |-> Meant(at)]
  /\ targets' = [l \in family.labels |-> Unbound]
  /\ pending' = {}
  /\ nextReg' = 0
  /\ UNCHANGED << family, trust >>

-----------------------------------------------------------------------------
(***************************************************************************)
(* What a runtime makes of a chunk: it refuses one that does not verify.   *)
(***************************************************************************)
Refuse ==
  /\ phase' = "refused"
  /\ chunk' = EmptyChunk
  /\ built' = EmptyChunk
  /\ meant' = NoJumps
  /\ UNCHANGED trust

Accept(ch, t) ==
  IF Verify(ch, t)
    THEN phase' = "loaded" /\ chunk' = ch /\ trust' = t /\ UNCHANGED << built, meant >>
    ELSE Refuse

(***************************************************************************)
(* In the process that assembled it.                                       *)
(***************************************************************************)
LoadBuilt(t) ==
  /\ phase = "built"
  /\ Accept(built, t)
  /\ UNCHANGED << family, nextReg, targets, pending >>

(***************************************************************************)
(* From a file that holds the first n tokens of the encoding: a write that *)
(* was cut short, or the whole of it.                                      *)
(***************************************************************************)
LoadFile(bytes, n, t) ==
  LET read == Decode(SubSeq(bytes, 1, n), t) IN
    /\ phase = "built"
    /\ IF read.ok THEN Accept(read.chunk, t) ELSE Refuse
    /\ UNCHANGED << family, nextReg, targets, pending >>

AsmNext ==
  \/ \E v \in family.pool : Const(v)
  \/ \E shape \in family.shapes : BeginFunction(shape)
  \/ \E i \in family.instrs : Emit(i)
  \/ \E i \in family.instrs : EmitLocal(i)
  \/ \E l \in family.labels : EmitToLabel("Jump", 0, l)
  \/ \E l \in family.labels : EmitToLabel("Branch", 0, l)
  \/ \E l \in family.labels : BindLabel(l)
  \/ Finish
  \/ \E t \in {"trusted", "untrusted"} : LoadBuilt(t)
  \/ /\ phase = "built"
     /\ LET bytes == Encode(built) IN
          \E t \in {"trusted", "untrusted"}, n \in 0 .. Len(bytes) : LoadFile(bytes, n, t)
=============================================================================
