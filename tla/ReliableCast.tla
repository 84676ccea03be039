---------------------------- MODULE ReliableCast ----------------------------
(***************************************************************************)
(* What ErrorControl promises Remote, the layer above (OREMOTE*.cpp): a    *)
(* broadcast whose messages each remaining peer is handed at most once and *)
(* in bounded disorder.  A message may overtake one of the Window messages *)
(* sent before it, and no other; a sender is never accepted Window         *)
(* messages ahead of a peer it still counts.                               *)
(***************************************************************************)
EXTENDS Integers, Sequences

CONSTANTS Peers,     \* the human players
          Window,    \* MAX_QUEUE/2
          Capacity,  \* messages received and not yet polled, at most
          MaxSend    \* bound: messages each peer broadcasts

VARIABLES sent,           \* sent[p]: messages p broadcast; their ordinals
                          \* are 0 .. sent[p]-1
          got,            \* got[p][q]: ordinals of q handed to p
          receive_queue,  \* of those, the ones p did not poll yet
          members         \* members[p]: the peers p still counts

vars == <<sent, got, receive_queue, members>>

Init ==
  /\ sent = [p \in Peers |-> 0]
  /\ got = [p \in Peers |-> [q \in Peers |-> {}]]
  /\ receive_queue = [p \in Peers |-> <<>>]
  /\ members = [p \in Peers |-> Peers \ {p}]

\* send() returns 1: every peer that counts holds all but the last Window - 1
\* messages.
Broadcast(p) ==
  /\ sent[p] < MaxSend[p]
  /\ members[p] # {}
  /\ \A q \in members[p] : 0 .. sent[p] - Window \subseteq got[q][p]
  /\ sent' = [sent EXCEPT ![p] = @ + 1]
  /\ UNCHANGED <<got, receive_queue, members>>

\* Message n of q is put in p's receive queue: once, only if no message Window
\* or more before it is still missing, and only while p counts q.
Deliver(p, q, n) ==
  /\ q \in members[p]
  /\ n \in (0 .. sent[q] - 1) \ got[p][q]
  /\ 0 .. n - Window \subseteq got[p][q]
  /\ Len(receive_queue[p]) < Capacity
  /\ got' = [got EXCEPT ![p][q] = @ \cup {n}]
  /\ receive_queue' = [receive_queue EXCEPT ![p] = Append(@, [src |-> q, n |-> n])]
  /\ UNCHANGED <<sent, members>>

Poll(p) ==
  /\ receive_queue[p] # <<>>
  /\ receive_queue' = [receive_queue EXCEPT ![p] = Tail(@)]
  /\ UNCHANGED <<sent, got, members>>

\* p stops counting some peers, for good.
LosePlayers(p) ==
  /\ \E stay \in SUBSET members[p] : members' = [members EXCEPT ![p] = stay]
  /\ UNCHANGED <<sent, got, receive_queue>>

Next ==
  \E p \in Peers :
     \/ Broadcast(p) \/ Poll(p) \/ LosePlayers(p)
     \/ \E q \in Peers : \E n \in 0 .. sent[q] - 1 : Deliver(p, q, n)

Spec == Init /\ [][Next]_vars
=============================================================================
