---------------------------- MODULE MCSupervisor ----------------------------
(* Small instances of Supervisor for TLC. *)
EXTENDS Supervisor

\* The first child comes back whatever happens, the others when they fail.
Mixed == [c \in Specs |-> IF c = 1 THEN "Always" ELSE "OnFailure"]

\* A cascade of OneForAll takes everyone: two children show all there is.
\* RestForOne needs a third, before the one that fails.
TwoOrThree == [s \in Strategies |-> IF s = "OneForAll" THEN 2 ELSE 3]

OnlyOne == [s \in Strategies |-> 1]
=============================================================================
