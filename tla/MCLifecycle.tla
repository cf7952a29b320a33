---------------------------- MODULE MCLifecycle -----------------------------
(* Small instances of Lifecycle for TLC: a client `a` and a server `b`. *)
EXTENDS Lifecycle

CONSTANTS a, b

NoPairs == {}
AtoB == {<<a, b>>}
=============================================================================
