----------------------------- MODULE MCMailbox ------------------------------
(* Small instances of Mailbox for TLC. *)
EXTENDS Mailbox

OneBody == {[tag |-> 1, rid |-> 1, cost |-> 1]}

\* Of a budget of three bytes: two small ones fit, two middle ones do not, a large
\* one never does.  The large one answers no Ask, so that a reply is taken from
\* behind it.
AllBodies == {[tag |-> 1, rid |-> 1, cost |-> 1], [tag |-> 1, rid |-> 1, cost |-> 2],
              [tag |-> 2, rid |-> 2, cost |-> 4]}

CONSTANTS s1, s2

OnlyAny == {AnyHop}
AnyOrTagged == {AnyHop, [kind |-> "TaggedCorrelation", tag |-> 2, rid |-> 2,
                         sender |-> AnySender]}
ReplyFromS1 == {[kind |-> "Correlation", tag |-> 0, rid |-> 1, sender |-> s1]}
NoReplies == {}

Sends(a, b, h, d) == [s \in Sources |-> CASE s = s1 -> a [] s = s2 -> b
                                          [] s = Host -> h [] s = System -> d]

\* s1 sends twice, so that its second hop can overtake its first if anything can.
\* A second sender waits for room under Reject; the host is turned away under
\* DropNewest; a DOWN goes beyond the limits that DropOldest makes room under.
SomeSends == [p \in OverflowPolicy |->
                CASE p = "Reject" -> Sends(2, 1, 0, 0)
                  [] p = "DropNewest" -> Sends(2, 0, 1, 0)
                  [] p = "DropOldest" -> Sends(2, 0, 0, 1)]
RejectSends == [p \in OverflowPolicy |-> Sends(2, 1, 0, 0)]
AskSends == [p \in OverflowPolicy |-> Sends(2, 0, 1, 0)]
=============================================================================
