----------------------------- MODULE MCMachine -----------------------------
(* A small instance of Machine for TLC: programs of up to three            *)
(* instructions, drawn from one family at a time.                          *)
EXTENDS Machine

I(op, a, b, c, imm) == Instruction(op, a, b, c, imm)

Good == [arity |-> 2, regs |-> 2]
\* It cannot be entered: the verifier refuses it.
Bad == [arity |-> 2, regs |-> 1]

\* What a host spawns with: a Cap and a hop, or a string of two bytes.
Addressed == [args |-> << Cap, Msg >>, native |-> FALSE]
Holding == [args |-> << Val("str", 2, 100) >>, native |-> TRUE]
Confined == [args |-> << Val("str", 2, 100) >>, native |-> FALSE]

\* Loads, arithmetic and the integers at the edge of their width.
Arithmetic ==
  [instrs |-> {I("LoadConst", 0, 0, 0, 0), I("LoadConst", 0, 0, 0, 1),
               I("LoadImm", 1, 0, 0, -4), I("Neg", 0, 1, 0, 0), I("Mod", 0, 0, 1, 0),
               I("Add", 0, 1, 1, 0), I("Div", Local, 1, 0, 0), I("Lt", 0, 0, 2, 0)},
   labels |-> {}, pool |-> {Constant("int", 3), Constant("float", 1)},
   shapes |-> {Good, Bad}, functions |-> 1, spawns |-> {Addressed}]

\* Labels, hand-written offsets, calls and every way to stop.
Control ==
  [instrs |-> {I("Jump", 0, 0, 0, 2), I("Call", 0, 1, 0, 0), I("Call", 1, 0, 0, 1),
               I("Return", 2, 0, 0, 0), I("Exit", 0, 0, 0, 0)},
   labels |-> {"l"}, pool |-> {},
   shapes |-> {Good}, functions |-> 2, spawns |-> {Addressed, Confined}]

\* Heap values: constants, natives, copies, calls that pass and return them.
Memory ==
  [instrs |-> {I("LoadConst", 0, 0, 0, 0), I("Move", 1, 0, 0, 0), I("Move", 1, 2, 0, 0),
               I("CallNative", 0, 0, 0, 0), I("CallNative", Local, 0, 0, 0),
               I("Call", 0, 1, 0, 0), I("Return", 1, 0, 0, 0)},
   labels |-> {}, pool |-> {Constant("str", 1), Constant("cap", 1)},
   shapes |-> {Good}, functions |-> 1, spawns |-> {Holding, Confined}]

\* Hops, and effects whose destination is or is not in the frame.
Effectful ==
  [instrs |-> {I("Send", 0, 1, 0, 0), I("Ask", 2, 0, 1, 0), I("SelfPid", 0, 0, 0, 0),
               I("Delegate", 2, 0, 3, 0), I("ReceiveMatchImm", 1, 0, 0, -1),
               I("ReceiveMatchImm", 1, 0, 0, 2),
               I("FreshRequestId", 0, 0, 0, 0), I("Yield", 0, 0, 0, 0),
               I("Jump", 0, 0, 0, -2), I("Nop", 0, 0, 0, 0)},
   labels |-> {}, pool |-> {},
   shapes |-> {Good}, functions |-> 1, spawns |-> {Addressed}]

\* The other requests to the scheduler.
Requests ==
  [instrs |-> {I("Spawn", 0, 1, 0, 0), I("Spawn", 1, 1, 0, 0), I("Sleep", 0, 0, 0, 0),
               I("ReceiveTimeout", 1, 1, 0, 0), I("ReceiveMatchCorr", 1, 0, 0, 0),
               I("ReceiveMatchCorrImm", 1, 0, 0, 0), I("AskTimeout", 1, 0, 1, 0),
               I("Monitor", 0, 0, 0, 0), I("Demonitor", 0, 0, 0, 0),
               I("RegisterName", 0, 0, 0, 0), I("Whereis", 1, 0, 0, 0)},
   labels |-> {}, pool |-> {},
   shapes |-> {Good}, functions |-> 1, spawns |-> {Addressed, Confined}]

AllFamilies == {Arithmetic, Control, Memory, Effectful, Requests}

\* One native: it makes a string of one byte, or a message.
OneNative == << {Constant("str", 1), Constant("msg", 1)} >>

UpAndDown == {-1, 1}
=============================================================================
