--------------------------- MODULE OrderedQueue ---------------------------
(***************************************************************************)
(* What the request queue of the server promises: "balconies ... that      *)
(* process, by order of arrival, the users' requests" (README.md:22 of the *)
(* repository), with never more than n_threads requests waiting.  Requests *)
(* are numbered as they arrive.                                            *)
(***************************************************************************)
EXTENDS Naturals, Sequences

CONSTANTS
    Balconies,  \* those who take requests
    Capacity,   \* how many requests may wait
    Arrivals,   \* how many requests arrive at most
    NoRequest   \* an empty hand

VARIABLES
    waiting,    \* the requests in the queue, oldest first
    arrived,    \* how many were put in it so far
    hand        \* the request that each balcony works on

vars == <<waiting, arrived, hand>>

Init ==
    /\ waiting = <<>>
    /\ arrived = 0
    /\ hand = [b \in Balconies |-> NoRequest]

Put ==
    /\ arrived < Arrivals
    /\ Len(waiting) < Capacity
    /\ arrived' = arrived + 1
    /\ waiting' = Append(waiting, arrived + 1)
    /\ UNCHANGED hand

Take(b) ==
    /\ hand[b] = NoRequest
    /\ waiting # <<>>
    /\ hand' = [hand EXCEPT ![b] = Head(waiting)]
    /\ waiting' = Tail(waiting)
    /\ UNCHANGED arrived

Finish(b) ==
    /\ hand[b] # NoRequest
    /\ hand' = [hand EXCEPT ![b] = NoRequest]
    /\ UNCHANGED <<waiting, arrived>>

Next == Put \/ \E b \in Balconies : Take(b) \/ Finish(b)

Spec == Init /\ [][Next]_vars

=============================================================================
