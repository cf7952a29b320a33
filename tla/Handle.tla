------------------------------- MODULE Handle -------------------------------
(***************************************************************************)
(* What a FlowHandle promises its embedder, without threads, mutexes or    *)
(* condition variables: a flow settles once, with an outcome or by being   *)
(* abandoned; the outcome is handed out once; and a caller that waits for  *)
(* a flow that has settled is answered.  Join is shown to implement this.  *)
(***************************************************************************)
CONSTANTS
    Flows,
    Joiners,    \* threads that join
    Target      \* the flow whose handle each of them uses

VARIABLES
    outcome,    \* per flow: "pending", "ready", "taken" or "abandoned"
    moved,      \* flows whose handle a join has consumed
    caller      \* per thread: "away", "waiting", "joining", or the answer it was given

hvars == <<outcome, moved, caller>>

HandleInit ==
    /\ outcome = [f \in Flows |-> "pending"]
    /\ moved = {}
    /\ caller = [j \in Joiners |-> "away"]

InCall(j) == caller[j] \in {"waiting", "joining"}

Settle(f, to) ==
    /\ outcome[f] = "pending"
    /\ outcome' = [outcome EXCEPT ![f] = to]
    /\ UNCHANGED <<moved, caller>>

(* What a settled flow answers. *)
Respond(j) ==
    \/ /\ outcome[Target[j]] = "ready"
       /\ outcome' = [outcome EXCEPT ![Target[j]] = "taken"]
       /\ caller' = [caller EXCEPT ![j] = "outcome"]
    \/ /\ outcome[Target[j]] = "taken"
       /\ caller' = [caller EXCEPT ![j] = "already"]
       /\ UNCHANGED outcome
    \/ /\ outcome[Target[j]] = "abandoned"
       /\ caller' = [caller EXCEPT ![j] = "abandoned"]
       /\ UNCHANGED outcome

(* try_join, join_timeout, join_deadline borrow the handle, and may end    *)
(* without an answer while the flow has not settled.                       *)
Poll(j) ==
    /\ ~InCall(j) /\ Target[j] \notin moved
    /\ \/ Respond(j)
       \/ /\ outcome[Target[j]] = "pending"
          /\ \E c \in {"waiting", "timeout"} : caller' = [caller EXCEPT ![j] = c]
          /\ UNCHANGED outcome
    /\ UNCHANGED moved

(* join consumes it, so nobody else is using it, and nobody will. *)
JoinNow(j) ==
    /\ Target[j] \notin moved
    /\ \A i \in Joiners : Target[i] = Target[j] => ~InCall(i)
    /\ moved' = moved \cup {Target[j]}
    /\ \/ Respond(j)
       \/ /\ outcome[Target[j]] = "pending"
          /\ caller' = [caller EXCEPT ![j] = "joining"]
          /\ UNCHANGED outcome

Answer(j) == InCall(j) /\ Respond(j) /\ UNCHANGED moved

GiveUp(j) ==
    /\ caller[j] = "waiting"
    /\ outcome[Target[j]] = "pending"
    /\ caller' = [caller EXCEPT ![j] = "timeout"]
    /\ UNCHANGED <<outcome, moved>>

HandleNext ==
    \/ \E f \in Flows, to \in {"ready", "abandoned"} : Settle(f, to)
    \/ \E j \in Joiners : Poll(j) \/ JoinNow(j) \/ Answer(j) \/ GiveUp(j)

(* The part of the promise that every finite prefix of a behaviour keeps. *)
HandleSafety == HandleInit /\ [][HandleNext]_hvars

HandleSpec ==
    /\ HandleSafety
    /\ \A j \in Joiners : WF_hvars(Answer(j))
=============================================================================
