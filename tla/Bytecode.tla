------------------------------ MODULE Bytecode ------------------------------
(***************************************************************************)
(* The module format of crates/byteflow/src/bytecode: instructions and     *)
(* constants, the encoder and the decoder of a module, and the verifier.   *)
(* Operators only; Assembler and Machine hold the state.                   *)
(*                                                                         *)
(* Names, text and the bytes inside an integer are left out.  A module on  *)
(* disk is a sequence of tokens, one per scalar the code writes: a count,  *)
(* a tag, a payload, an operand.  A Str or Bytes constant is its length, a *)
(* Message its memory size.                                                *)
(***************************************************************************)
EXTENDS Integers, Sequences, Functions

(***************************************************************************)
(* Opcode::as_u8 / from_u8: the byte is the place in this list.            *)
(***************************************************************************)
Opcodes ==
  << "Halt", "LoadConst", "Move", "LoadImm", "Add", "Sub", "Mul", "Div",
     "Mod", "Neg", "Eq", "Lt", "Le", "Jump", "Branch", "Call", "Return",
     "CallNative", "Spawn", "Yield", "Sleep", "Exit", "SelfPid", "Send",
     "Receive", "ReceiveTimeout", "ReceiveMatch", "ReceiveMatchImm", "Ask",
     "Monitor", "Demonitor", "Link", "Unlink", "AskTimeout", "Delegate",
     "FreshRequestId", "ReceiveMatchCorr", "ReceiveMatchCorrImm",
     "RegisterName", "Whereis", "Trap", "Nop" >>

FromU8(byte) == Opcodes[byte]

AsU8(op) == CHOOSE byte \in DOMAIN Opcodes : Opcodes[byte] = op

Instruction(op, a, b, c, imm) == [op |-> op, a |-> a, b |-> b, c |-> c, imm |-> imm]

(***************************************************************************)
(* The tags of the wire format are 0 .. 8, in this order.                  *)
(***************************************************************************)
Kinds ==
  << "unit", "bool", "int", "float", "pid", "msg", "cap", "str", "bytes" >>

KindOf(tag) == Kinds[tag + 1]

TagOf(kind) == (CHOOSE i \in DOMAIN Kinds : Kinds[i] = kind) - 1

Constant(kind, n) == [k |-> kind, n |-> n]

(***************************************************************************)
(* A constant that a Value can be: Unit has no payload, and a length or a  *)
(* memory size is not negative.                                            *)
(***************************************************************************)
ConstantOK(c) ==
  /\ c \in [k : Range(Kinds), n : Int]
  /\ c.k = "unit" => c.n = 0
  /\ c.k \in {"str", "bytes", "msg"} => c.n >= 0

(***************************************************************************)
(* What an untrusted module must not carry in its pool.                    *)
(***************************************************************************)
Authority == {"cap", "pid", "msg"}

MayEmbed(kind, trust) == trust = "trusted" \/ kind \notin Authority

EmptyChunk == [constants |-> <<>>, functions |-> <<>>, code |-> <<>>]

-----------------------------------------------------------------------------
(* Mutant: the pool and the function table are checked off by one. *)
OperandOKOffByOne(ch, at) ==
  LET i == ch.code[at + 1] IN
    /\ i.op = "LoadConst" => i.imm \in 0 .. Len(ch.constants)
    /\ i.op \in {"Spawn", "Call"} => i.imm \in 0 .. Len(ch.functions)
    /\ i.op \in {"Jump", "Branch"} => at + 1 + i.imm \in 0 .. Len(ch.code)

(***************************************************************************)
(* verify_with: the facts about a chunk that are settled before it runs.   *)
(* A jump may go one past the end; a register operand is not looked at.    *)
(***************************************************************************)
OperandOK(ch, at) ==
  LET i == ch.code[at + 1] IN
    /\ i.op = "LoadConst" => i.imm \in 0 .. Len(ch.constants) - 1
    /\ i.op \in {"Spawn", "Call"} => i.imm \in 0 .. Len(ch.functions) - 1
    /\ i.op \in {"Jump", "Branch"} => at + 1 + i.imm \in 0 .. Len(ch.code)

Verify(ch, trust) ==
  /\ ch.functions # <<>>
  /\ \A i \in DOMAIN ch.constants : MayEmbed(ch.constants[i].k, trust)
  /\ \A f \in DOMAIN ch.functions :
       /\ ch.functions[f].entry < Len(ch.code)
       /\ ch.functions[f].arity <= ch.functions[f].regs
  /\ \A at \in 0 .. Len(ch.code) - 1 : OperandOK(ch, at)

-----------------------------------------------------------------------------
(***************************************************************************)
(* encode: magic, ABI, then the three tables, each behind its count.       *)
(***************************************************************************)
Magic == 1000
AbiVersion == 5

WriteValue(v) == IF v.k = "unit" THEN << TagOf(v.k) >> ELSE << TagOf(v.k), v.n >>

WriteFunction(f) == << f.entry, f.arity, f.regs >>

WriteInstruction(i) == << AsU8(i.op), i.a, i.b, i.c, i.imm >>

(***************************************************************************)
(* The pieces of a table one after the other.                              *)
(***************************************************************************)
Joined(pieces) ==
  LET upTo[n \in 0 .. Len(pieces)] ==
        IF n = 0 THEN <<>> ELSE upTo[n - 1] \o pieces[n]
  IN  upTo[Len(pieces)]

Table(items, Write(_)) ==
  << Len(items) >> \o Joined([n \in DOMAIN items |-> Write(items[n])])

Encode(ch) ==
  << Magic, AbiVersion >> \o Table(ch.constants, WriteValue)
    \o Table(ch.functions, WriteFunction) \o Table(ch.code, WriteInstruction)

(***************************************************************************)
(* decode_with.  A reader is a position and what it has read; Truncated,   *)
(* ForbiddenConstant, an unknown tag or an unknown opcode turn it into     *)
(* Refused, and nothing is read after that.  What follows the code table   *)
(* is not looked at.                                                       *)
(***************************************************************************)
Refused == [ok |-> FALSE, pos |-> 0, got |-> <<>>]

Has(bytes, r, n) == r.ok /\ Len(bytes) - r.pos >= n

Push(r, n, item) == [ok |-> TRUE, pos |-> r.pos + n, got |-> Append(r.got, item)]

ReadValue(bytes, trust, r) ==
  LET tag == bytes[r.pos + 1] IN
    IF ~ Has(bytes, r, 1) THEN Refused
    ELSE IF tag \notin 0 .. Len(Kinds) - 1 THEN Refused
    ELSE IF ~ MayEmbed(KindOf(tag), trust) THEN Refused
    ELSE IF KindOf(tag) = "unit" THEN Push(r, 1, Constant("unit", 0))
    ELSE IF ~ Has(bytes, r, 2) THEN Refused
    ELSE Push(r, 2, Constant(KindOf(tag), bytes[r.pos + 2]))

ReadFunction(bytes, trust, r) ==
  LET at(n) == bytes[r.pos + n] IN
    IF Has(bytes, r, 3)
      THEN Push(r, 3, [entry |-> at(1), arity |-> at(2), regs |-> at(3)])
      ELSE Refused

(* Mutant: the table ends quietly where the data ends. *)
ReadInstructionLenient(bytes, trust, r) ==
  LET at(n) == bytes[r.pos + n] IN
    IF ~ Has(bytes, r, 5) THEN r
    ELSE IF at(1) \in DOMAIN Opcodes
      THEN Push(r, 5, Instruction(FromU8(at(1)), at(2), at(3), at(4), at(5)))
      ELSE Refused

ReadInstruction(bytes, trust, r) ==
  LET at(n) == bytes[r.pos + n] IN
    IF Has(bytes, r, 5) /\ at(1) \in DOMAIN Opcodes
      THEN Push(r, 5, Instruction(FromU8(at(1)), at(2), at(3), at(4), at(5)))
      ELSE Refused

(***************************************************************************)
(* A table: its count, then that many items.                               *)
(***************************************************************************)
ReadTable(bytes, trust, r, Read(_, _, _)) ==
  IF ~ Has(bytes, r, 1) THEN Refused
  ELSE LET first == [ok |-> TRUE, pos |-> r.pos + 1, got |-> <<>>]
           count == bytes[r.pos + 1]
           after[n \in 0 .. count] ==
             IF n = 0 THEN first ELSE Read(bytes, trust, after[n - 1])
       IN  after[count]

Decode(bytes, trust) ==
  LET start == [ok  |-> Len(bytes) >= 2 /\ bytes[1] = Magic /\ bytes[2] = AbiVersion,
                pos |-> 2, got |-> <<>>]
      pool  == ReadTable(bytes, trust, start, ReadValue)
      fns   == ReadTable(bytes, trust, pool, ReadFunction)
      code  == ReadTable(bytes, trust, fns, ReadInstruction)
  IN  [ok    |-> code.ok,
       chunk |-> [constants |-> pool.got, functions |-> fns.got, code |-> code.got]]
=============================================================================
