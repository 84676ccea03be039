----------------------------- MODULE FrameCast -----------------------------
(***************************************************************************)
(* What the lockstep promises to the commands (RemoteMsg, OREMOTEM.cpp)    *)
(* when every player sends in every frame: the queue a player closes in    *)
(* frame f is executed by every peer that takes the player for human in    *)
(* frame f + process_frame_delay, in the order of the nations.  How the    *)
(* queues travel, and in which order they come, is hidden.                 *)
(***************************************************************************)
EXTENDS Integers, Sequences

CONSTANTS Peers,                \* the human players, by the number of nation
          process_frame_delay,
          Order                 \* what a player can order

VARIABLES frame_count,  \* the frame a peer is about to simulate
          open,         \* what its player has ordered since the last closing
          closed,       \* closed[p][f]: p's orders for frame f
          humans,       \* humans[p]: the players p takes for human
          executed      \* history: what p executed, by frame and player

vars == <<frame_count, open, closed, humans, executed>>

\* Nobody orders anything for the first frames.
Init ==
  /\ frame_count = [p \in Peers |-> 1]
  /\ open = [p \in Peers |-> <<>>]
  /\ closed = [p \in Peers |-> [f \in 1 .. process_frame_delay |-> <<>>]]
  /\ humans = [p \in Peers |-> Peers]
  /\ executed = [p \in Peers |-> <<>>]

\* p's player gives an order.
Issue(p, order) ==
  /\ open' = [open EXCEPT ![p] = Append(@, order)]
  /\ UNCHANGED <<frame_count, closed, humans, executed>>

\* A queue is closed once in a frame; the next one begins with opening.
IsClosed(p) == Len(closed[p]) = frame_count[p] + process_frame_delay
Close(p, opening) ==
  /\ ~IsClosed(p)
  /\ closed' = [closed EXCEPT ![p] = Append(@, open[p])]
  /\ open' = [open EXCEPT ![p] = opening]

\* The orders p executes in its frame, once its own queue is closed and those
\* of all humans have been; closedNow is closed after p's own closing.
Ready(p, closedNow) ==
  /\ Len(closedNow[p]) = frame_count[p] + process_frame_delay
  /\ \A n \in humans[p] : frame_count[p] <= Len(closedNow[n])
Orders(p, closedNow) == [n \in humans[p] |-> closedNow[n][frame_count[p]]]

Advance(p, closedNow) ==
  /\ Ready(p, closedNow)
  /\ executed' = [executed EXCEPT ![p] = Append(@, Orders(p, closedNow))]
  /\ frame_count' = [frame_count EXCEPT ![p] = @ + 1]
  /\ UNCHANGED humans

\* p replaces a lost player by the AI.
TakeOver(p, n) ==
  /\ n \in humans[p] \ {p}
  /\ humans' = [humans EXCEPT ![p] = @ \ {n}]
  /\ UNCHANGED <<frame_count, executed>>

\* One turn of the game loop: close the queue or not, then go on to the next
\* frame, give up a player, or wait.
Turn(p) ==
  /\ Close(p, <<>>) \/ UNCHANGED <<closed, open>>
  /\ \/ Advance(p, closed')
     \/ \E n \in Peers : TakeOver(p, n)
     \/ UNCHANGED <<frame_count, humans, executed>>

Next == \E p \in Peers : Turn(p) \/ \E order \in Order : Issue(p, order)

Spec == Init /\ [][Next]_vars
=============================================================================
