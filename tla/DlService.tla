----------------------------- MODULE DlService -----------------------------
(***************************************************************************)
(* What layer 3 may rely on in acknowledged mode, while one data link      *)
(* lasts: the units it submits arrive at its peer, each once, complete and *)
(* in order, or it learns that the link failed.  The comment on buffering  *)
(* in lapd_core.c and the expectations of tests/lapd/lapd_test.c, with all *)
(* frames, timers and retransmissions taken away.                          *)
(***************************************************************************)
EXTENDS Naturals, Sequences

CONSTANTS
  Entity,  \* the two users of the data link
  Peer,    \* Peer[e]: the other one
  Unit     \* the units of layer 3

VARIABLES
  submitted,  \* submitted[e]: units accepted from layer 3 of e, in order
  delivered,  \* delivered[e]: units handed to layer 3 of e, in order
  failed      \* failed[e]: layer 3 of e was told of an error or has no link

Init ==
  /\ submitted = [e \in Entity |-> <<>>]
  /\ delivered = [e \in Entity |-> <<>>]
  /\ failed \in [Entity -> BOOLEAN]

\* Layer 3 submits a unit: it needs a link for that.
Submit(e) ==
  \E u \in Unit : submitted' = [submitted EXCEPT ![e] = Append(@, u)]

\* The next unit of the peer, and no other, reaches layer 3 of e.
Deliver(e) ==
  LET n == Len(delivered[e]) + 1
  IN /\ n <= Len(submitted[Peer[e]])
     /\ delivered' = [delivered EXCEPT ![e] = Append(@, submitted[Peer[e]][n])]

Next ==
  /\ \/ \E e \in Entity : Submit(e) /\ UNCHANGED delivered
     \/ \E e \in Entity : Deliver(e) /\ UNCHANGED submitted
     \/ UNCHANGED <<submitted, delivered>>
  /\ failed' \in [Entity -> BOOLEAN]

Spec == Init /\ [][Next]_<<submitted, delivered, failed>>

\* Every unit arrives in the end, unless the one who submitted it learns that
\* the link failed.
In(u, q) == \E i \in DOMAIN q : q[i] = u

Live ==
  \A e \in Entity : \A u \in Unit :
    In(u, submitted[Peer[e]]) ~> In(u, delivered[e]) \/ failed[Peer[e]]
=============================================================================
