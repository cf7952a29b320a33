---------------------------- MODULE MCCapability ----------------------------
(* Small instances of Capability for TLC. *)
EXTENDS Capability, TLC

CONSTANTS a, b, c

Symmetry == Permutations(Flows)
\* One request, for more than any flow has.
TooMuch == {{"SEND", "SPAWN", "ADMIN"}}
=============================================================================
