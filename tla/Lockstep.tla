------------------------------ MODULE Lockstep ------------------------------
(***************************************************************************)
(* The lockstep of a multiplayer game (Remote in OREMOTE.cpp, OREMOTE2.cpp *)
(* and Sys::main_loop, Sys::is_mp_sync in OSYS.cpp).  Every peer simulates *)
(* the whole game.  A player's commands are queued, and when the frame's   *)
(* turn comes the queue is broadcast with the number of a later frame, its *)
(* tag; a peer simulates a frame once it holds the queues of all human     *)
(* players for it, and executes them in the order of the nations.          *)
(*                                                                         *)
(* The network is the reliable broadcast of ReliableCast: packets may be   *)
(* reordered and connections lost.  A peer is named by the number (recno)  *)
(* of its nation.  No nation is destroyed, so that nobody is an observer.  *)
(* A command is named by its place among the commands of its player.       *)
(***************************************************************************)
EXTENDS Integers, Sequences, SequencesExt

CONSTANTS NationCount,           \* human players
          process_frame_delay,   \* frames between sending and execution (5)
          RECEIVE_QUEUE_BACKUP,  \* receive queues, one per frame to come (18)
          alternating_send_rate, \* a player sends every so many frames
          Window,                \* MAX_QUEUE/2 of ErrorControl (9)
          Capacity,              \* of ErrorControl's receive queue
          LastFrame,             \* bound: no peer simulates this frame
          MaxCommands            \* bound: commands per player

ASSUME LockstepAssumption ==
  /\ NationCount \in Nat \ {0}
  /\ process_frame_delay \in Nat \ {0}
  /\ RECEIVE_QUEUE_BACKUP \in Nat /\ RECEIVE_QUEUE_BACKUP > process_frame_delay
  /\ alternating_send_rate \in Nat \ {0}
  /\ Window \in Nat \ {0} /\ Capacity \in Nat \ {0}
  /\ LastFrame \in Nat /\ MaxCommands \in Nat

Nations == 1 .. NationCount
Slots   == 0 .. RECEIVE_QUEUE_BACKUP - 1

VARIABLES
  frame_count,               \* the frame a peer is about to simulate
  send_queue,                \* send_queue[0]: what is queued for its tag
  remote_send_success_flag,  \* FALSE: a broadcast was refused, retry it
  receive_queue,             \* queues received, by frames from frame_count
  next_frame_ready,          \* the nations known to be ready for the frame
  ai,                        \* remote nations turned into NATION_AI
  broadcast,                 \* the queues each peer broadcast so far
  got, recv_queue, members,  \* ReliableCast's state
  issued,                    \* history: commands each player issued
  late,                      \* history: those issued behind the trailer
  executed                   \* history: what a peer executed, by frame

queueVars == <<send_queue, remote_send_success_flag, broadcast>>
frameVars == <<frame_count, next_frame_ready, ai, executed>>
vars == <<queueVars, frameVars, receive_queue, got, recv_queue, members, issued, late>>

Sent == [p \in Nations |-> Len(broadcast[p])]

\* The service below.  A bound on what is sent follows from LastFrame.
Cast == INSTANCE ReliableCast
          WITH Peers <- Nations, sent <- Sent, receive_queue <- recv_queue,
               MaxSend <- [p \in Nations |-> LastFrame]

-----------------------------------------------------------------------------
(* Frames and queues *)

has_send_frame(nation, frame) == (frame + nation) % alternating_send_rate = 0

next_send_frame_RoundDown(nation, frame) ==
  frame - ((frame + nation) % alternating_send_rate)

\* The first frame from frame on for which the nation sends a queue.
next_send_frame(nation, frame) ==
  LET remainder == (frame + nation) % alternating_send_rate IN
  IF remainder = 0 THEN frame ELSE frame + alternating_send_rate - remainder

\* Messages of a queue between its header (tag, nation) and its trailer, and
\* behind the trailer.
Queue(nation, tag, cmds, after) ==
  [nation |-> nation, tag |-> tag, cmds |-> cmds, after |-> after]

init_send_queue(nation, frame) ==
  Queue(nation, next_send_frame(nation, frame + process_frame_delay), <<>>, <<>>)

\* receive_frame_count[n] is always frame_count + n: the queues and their
\* counts move down together with each frame.
HasSlot_OneLess(p, tag) ==
  frame_count[p] <= tag /\ tag < frame_count[p] + RECEIVE_QUEUE_BACKUP - 1
HasSlot(p, tag) == tag - frame_count[p] \in Slots

\* p's receive queues once q has been appended where its tag says, if anywhere.
Filed_First(p, q) ==
  [receive_queue[p] EXCEPT ![0] = Append(@, q)]
Filed(p, q) ==
  IF HasSlot(p, q.tag)
  THEN [receive_queue[p] EXCEPT ![q.tag - frame_count[p]] = Append(@, q)]
  ELSE receive_queue[p]

Shifted_Kept(slots) ==
  [i \in Slots |-> IF i + 1 \in Slots THEN slots[i + 1] ELSE slots[0]]
\* The queues move down by one frame; the last one is empty.
Shifted(slots) ==
  [i \in Slots |-> IF i + 1 \in Slots THEN slots[i + 1] ELSE <<>>]

Humans(p) == Nations \ ai[p]

\* The nations a queue of the current frame is there from: process_specific_msg
\* of MSG_NEXT_FRAME.
Announced(slots) == {slots[0][i].nation : i \in DOMAIN slots[0]}

\* process_receive_queue executes the first queue of a nation, up to its
\* trailer; it stops there.
ExecutedOf(queues, n) ==
  LET own == {i \in DOMAIN queues : queues[i].nation = n} IN
  IF own = {} THEN <<>>
  ELSE queues[CHOOSE i \in own : \A j \in own : i <= j].cmds

-----------------------------------------------------------------------------
\* init_start_mp, init_send_queue(1), init_receive_queue(1): nobody sends
\* anything for the first process_frame_delay frames, so those are filled in.
Init ==
  /\ frame_count = [p \in Nations |-> 1]
  /\ send_queue = [p \in Nations |-> init_send_queue(p, 1)]
  /\ remote_send_success_flag = [p \in Nations |-> TRUE]
  /\ receive_queue = [p \in Nations |-> [i \in Slots |->
       IF i < process_frame_delay
       THEN [n \in Nations |-> Queue(n, i + 1, <<>>, <<>>)] ELSE <<>>]]
  /\ next_frame_ready = [p \in Nations |-> {}]
  /\ ai = [p \in Nations |-> {}]
  /\ broadcast = [p \in Nations |-> <<>>]
  /\ issued = [p \in Nations |-> 0]
  /\ late = [p \in Nations |-> {}]
  /\ executed = [p \in Nations |-> <<>>]
  /\ Cast!Init

\* new_send_queue_msg: the player gives a command.  While a broadcast is being
\* retried the trailer is already in the queue.
Issue(p) ==
  LET c == issued[p] + 1 IN
  /\ c <= MaxCommands
  /\ issued' = [issued EXCEPT ![p] = c]
  /\ IF remote_send_success_flag[p]
     THEN /\ send_queue' = [send_queue EXCEPT ![p].cmds = Append(@, c)]
          /\ UNCHANGED late
     ELSE /\ send_queue' = [send_queue EXCEPT ![p].after = Append(@, c)]
          /\ late' = [late EXCEPT ![p] = @ \cup {c}]
  /\ UNCHANGED <<remote_send_success_flag, broadcast, frameVars, receive_queue,
                 got, recv_queue, members>>

\* ErrorControl accepts the n-th message of q.
Accept(p, q, n) ==
  /\ UNCHANGED <<queueVars, frameVars, receive_queue, issued, late>>
  /\ Cast!Deliver(p, q, n)

\* The loop of poll_msg, for one message.
PollMsg(p) ==
  /\ UNCHANGED <<queueVars, frameVars, issued, late>>
  /\ Cast!Poll(p)
  /\ LET m == Head(recv_queue[p])
     IN receive_queue' = [receive_queue EXCEPT ![p] = Filed(p, broadcast[m.src][m.n + 1])]

\* ErrorControl notices that connections are lost.
LosePlayers(p) ==
  /\ UNCHANGED <<queueVars, frameVars, receive_queue, issued, late>>
  /\ Cast!LosePlayers(p)

-----------------------------------------------------------------------------
(* is_mp_sync *)

\* The turn has come to close and broadcast the queue.
MustSend(p) ==
  /\ remote_send_success_flag[p]
  /\ has_send_frame(p, frame_count[p])
  /\ p \notin next_frame_ready[p]

\* send_queue_now succeeds: broadcast, or nobody is connected any more.  The
\* next queue is opened.
SendQueue(p) ==
  /\ IF members[p] = {}
     THEN UNCHANGED <<broadcast, got, recv_queue, members>>
     ELSE /\ broadcast' = [broadcast EXCEPT ![p] = Append(@, send_queue[p])]
          /\ Cast!Broadcast(p)
  /\ send_queue' = [send_queue EXCEPT ![p] = init_send_queue(p, frame_count[p] + 1)]
  /\ remote_send_success_flag' = [remote_send_success_flag EXCEPT ![p] = TRUE]

\* ErrorControl refuses it: Window messages are not acknowledged by all.
SendRefused(p) ==
  /\ members[p] # {}
  /\ Len(broadcast[p]) >= Window
  /\ remote_send_success_flag' = [remote_send_success_flag EXCEPT ![p] = FALSE]
  /\ UNCHANGED <<send_queue, broadcast, got, recv_queue, members>>

\* The remote players that hold up the frame; p looks at the last one only.
Unready(p, ready) ==
  {n \in Humans(p) \ {p} : has_send_frame(n, frame_count[p]) /\ n \notin ready}

WaitForPlayers_ForEver(p, slots) ==
  LET ready == next_frame_ready[p] \cup Announced(slots) IN
  /\ Unready(p, ready) # {}
  /\ next_frame_ready' = [next_frame_ready EXCEPT ![p] = ready]
  /\ receive_queue' = [receive_queue EXCEPT ![p] = slots]
  /\ UNCHANGED <<frame_count, executed, ai>>

\* The rest of is_mp_sync, with what is in the receive queues by then.
\* A lost player who holds up the frame is taken over by the AI.
WaitForPlayers(p, slots) ==
  LET ready == next_frame_ready[p] \cup Announced(slots)
      unready == Unready(p, ready)
      last == CHOOSE n \in unready : \A i \in unready : i <= n
  IN
  /\ unready # {}
  /\ next_frame_ready' = [next_frame_ready EXCEPT ![p] = ready]
  /\ receive_queue' = [receive_queue EXCEPT ![p] = slots]
  /\ ai' = IF last \in members[p] THEN ai ELSE [ai EXCEPT ![p] = @ \cup {last}]
  /\ UNCHANGED <<frame_count, executed>>

\* All are ready: process_receive_queue, then Sys::process moves to the next
\* frame.
ProcessFrame(p, slots) ==
  /\ Unready(p, next_frame_ready[p] \cup Announced(slots)) = {}
  /\ next_frame_ready' = [next_frame_ready EXCEPT ![p] = {}]
  /\ executed' = [executed EXCEPT ![p] =
       Append(@, [n \in Humans(p) |-> ExecutedOf(slots[0], n)])]
  /\ receive_queue' = [receive_queue EXCEPT ![p] = Shifted(slots)]
  /\ frame_count' = [frame_count EXCEPT ![p] = @ + 1]
  /\ UNCHANGED ai

Proceed(p, slots) == WaitForPlayers(p, slots) \/ ProcessFrame(p, slots)

\* A call of is_mp_sync that does something; poll_msg has just emptied
\* ErrorControl's receive queue, and it is time for the frame.  The queue to
\* be sent is filed in p's own receive queues too.  If the broadcast is refused
\* the call ends.
IsMpSync(p) ==
  /\ frame_count[p] < LastFrame
  /\ recv_queue[p] = <<>>
  /\ \/ MustSend(p) /\ SendQueue(p) /\ Proceed(p, Filed(p, send_queue[p]))
     \/ /\ MustSend(p) /\ SendRefused(p)
        /\ receive_queue' = [receive_queue EXCEPT ![p] = Filed(p, send_queue[p])]
        /\ UNCHANGED frameVars
     \/ /\ ~remote_send_success_flag[p] /\ SendQueue(p)
        /\ Proceed(p, receive_queue[p])
     \/ /\ remote_send_success_flag[p] /\ ~MustSend(p)
        /\ Proceed(p, receive_queue[p])
        /\ UNCHANGED <<queueVars, got, recv_queue, members>>
  /\ UNCHANGED <<issued, late>>

Next ==
  \E p \in Nations :
    \/ Issue(p) \/ PollMsg(p) \/ LosePlayers(p) \/ IsMpSync(p)
    \/ \E q \in Nations : \E n \in 0 .. Sent[q] - 1 : Accept(p, q, n)

Spec == Init /\ [][Next]_vars

-----------------------------------------------------------------------------
(* Safety *)

\* The point of the lockstep: in a frame that two peers have simulated, they
\* executed the same commands of every player both took for human, whatever
\* the order in which the queues came, and however far apart the peers are.
CommandsAgree ==
  \A p, q \in Nations :
    \A f \in (DOMAIN executed[p]) \cap (DOMAIN executed[q]) :
      \A n \in (DOMAIN executed[p][f]) \cap (DOMAIN executed[q][f]) :
        executed[p][f][n] = executed[q][f][n]

\* A queue that arrives finds its receive queue: poll_msg discards it only when
\* one of the two peers has already been taken over at the other.  The
\* RECEIVE_QUEUE_BACKUP frames are just enough.
NothingDiscarded ==
  [][\A p \in Nations : PollMsg(p) =>
       LET m == Head(recv_queue[p])
           q == broadcast[m.src][m.n + 1]
       IN HasSlot(p, q.tag) \/ m.src \in ai[p] \/ p \in ai[m.src]]_vars

\* p's commands for frame f: its own copy of the game has executed them, or
\* they are in its receive queues.
QueueFor(p, f) ==
  IF f < frame_count[p] THEN executed[p][f][p]
  ELSE ExecutedOf(receive_queue[p][f - frame_count[p]], p)

\* What will be closed next.  While a broadcast is being retried, nothing: the
\* queue is closed already.
OpenQueue(p) == IF remote_send_success_flag[p] THEN send_queue[p].cmds ELSE <<>>

\* Commands are executed once each and in the order given, except those given
\* while a refused broadcast is retried; those are never executed.
CommandsInOrder ==
  \A p \in Nations :
    LET last == frame_count[p] + RECEIVE_QUEUE_BACKUP - 1
        queues == Append([f \in 1 .. last |-> QueueFor(p, f)], OpenQueue(p)) IN
    /\ UNION {ToSet(queues[f]) : f \in DOMAIN queues} = (1 .. issued[p]) \ late[p]
    /\ \A f, g \in DOMAIN queues : \A i \in DOMAIN queues[f], j \in DOMAIN queues[g] :
         f < g \/ (f = g /\ i < j) => queues[f][i] < queues[g][j]

\* A player sends one queue per frame at most.
OneQueuePerFrame ==
  \A p \in Nations : \A i, j \in DOMAIN broadcast[p] :
    i # j => broadcast[p][i].tag # broadcast[p][j].tag

-----------------------------------------------------------------------------
(* What the lockstep provides *)

\* The last frame p's queue is closed for: it is in p's own receive queues
\* when the next one is opened, or when its broadcast is refused.
LastClosed(p) == send_queue[p].tag - (IF remote_send_success_flag[p] THEN 1 ELSE 0)

Frames == INSTANCE FrameCast
            WITH Peers <- Nations, Order <- 1 .. MaxCommands,
                 open <- [p \in Nations |-> OpenQueue(p)],
                 closed <- [p \in Nations |-> [f \in 1 .. LastClosed(p) |-> QueueFor(p, f)]],
                 humans <- [p \in Nations |-> Humans(p)]

\* When every player sends in every frame, the lockstep is a FrameCast: a queue
\* is executed by all, complete, in its frame, whatever happens on the network
\* and however often its broadcast is refused.
ImplementsFrameCast == Frames!Spec

-----------------------------------------------------------------------------
(* Liveness *)

\* The main loop polls and calls is_mp_sync again and again; ErrorControl
\* delivers what is sent, frees its send queue so that a broadcast is not
\* refused for ever, and when one side gives a connection up so does the other.
Fairness ==
  \A p \in Nations :
    /\ WF_vars(PollMsg(p))
    /\ SF_vars(IsMpSync(p) /\ remote_send_success_flag'[p])
    /\ \A q \in Nations \ {p} :
         /\ WF_vars(\E n \in 0 .. Sent[q] - 1 : Accept(p, q, n))
         /\ WF_vars(p \notin members[q] /\ LosePlayers(p) /\ q \notin members'[p])

FairSpec == Spec /\ Fairness

\* The game goes on: nobody waits for ever, for a slow peer, for a queue that
\* was discarded, or for a peer that is gone.
FramesAdvance ==
  \A p \in Nations : \A f \in 1 .. LastFrame - 1 :
    frame_count[p] = f ~> frame_count[p] > f
=============================================================================
