------------------------------- MODULE Setup -------------------------------
(***************************************************************************)
(* How a network game comes about: the session layer (MultiPlayer), which  *)
(* connects every player with every other, and the lobby on top of it      *)
(* (Game::mp_select_option), in which the host registers players, gives    *)
(* out ids and colours and starts the game.                                *)
(*                                                                         *)
(* A client connects to the host; the host tells all others to contact it  *)
(* and tells it whom to expect.  What a member hears of a player from the  *)
(* host and what it sees of that player's own connection are not ordered,  *)
(* and ids of players who left are given out again.  Then everybody waits  *)
(* until all the others have set up the game.                              *)
(*                                                                         *)
(* chan[a][b] is the reliable channel of an ENet connection from a to b;   *)
(* the events of the connection travel in it as CONNECT and DISCONNECT: a  *)
(* member that contacts another finds it connected first, and the other    *)
(* next.  An address is used by one member, once.  Races, the map, options *)
(* and chat are left out, the host decides them alone; so is the check of  *)
(* the game's version and of the password.                                 *)
(***************************************************************************)
EXTENDS Naturals, FiniteSets, SequencesExt

CONSTANTS
  Host, Clients,
  Colours,
  MAX_NATION,
  MaxChoices,      \* bound: colours chosen, and readiness taken back
  None

Members == {Host} \cup Clients
Players == [id : Nat, authorized : BOOLEAN, state : {"connecting", "connected"}]

ASSUME SetupAssumption ==
  /\ Host \notin Clients
  /\ MAX_NATION \in Nat \ {0} /\ IsFiniteSet(Colours) /\ Cardinality(Colours) >= MAX_NATION
  /\ IsFiniteSet(Clients)
  /\ None \notin Members \cup Colours /\ None \notin Players

VARIABLES
  member,    \* each member: phase, my_player_id, colour, selfReadyFlag, regPlayerId, recvEndSetting, nationPara
  peer,      \* what a member knows of another one it is connected to: its PlayerDesc
  pending,   \* pending_pool: players a member expects to be contacted by
  chan,      \* events and messages under way
  lobby,     \* what only the host keeps: playerColor, colorAssigned, playerReadyFlag
  choices    \* made so far, for the bound

vars == <<member, peer, pending, chan, lobby, choices>>

World == [member |-> member, peer |-> peer, pending |-> pending, chan |-> chan, lobby |-> lobby]

Become(w) ==
  /\ member' = w.member /\ peer' = w.peer /\ pending' = w.pending
  /\ chan' = w.chan /\ lobby' = w.lobby

---------------------------------------------------------------------------
(* The session layer.                                                      *)

IsOut(w, m) == w.member[m].phase \in {"away", "out"}
IsConnected(w, m, n) == w.peer[m][n] # None /\ w.peer[m][n].state = "connected"

\* get_peer(playerId), as a set
PeersWith(w, m, id) == {n \in Members : w.peer[m][n] # None /\ w.peer[m][n].id = id}

\* update_player_pool, without the member itself
player_pool(w, m) == {n \in Members : IsConnected(w, m, n) /\ w.peer[m][n].authorized}

\* SessionFlags::Pregame
IsPregame(w, m) == w.member[m].phase \in {"joining", "lobby", "box"}

get_avail_player_id_Registered(w) ==
  CHOOSE id \in 2..(Cardinality(Members) + 1) :
    /\ id \notin ToSet(w.member[Host].reg)
    /\ \A k \in 2..(id - 1) : k \in ToSet(w.member[Host].reg)

get_avail_player_id(w) ==
  CHOOSE id \in 2..(Cardinality(Members) + 1) :
    PeersWith(w, Host, id) = {} /\ \A k \in 2..(id - 1) : PeersWith(w, Host, k) # {}

Put(w, a, b, msg) == IF IsOut(w, b) THEN w ELSE [w EXCEPT !.chan[a][b] = Append(@, msg)]

PutAll(w, a, b, msgs) == IF IsOut(w, b) THEN w ELSE [w EXCEPT !.chan[a][b] = @ \o msgs]

\* MultiPlayer::send to BROADCAST_PID
Broadcast(w, a, msg) ==
  LET reached == {b \in player_pool(w, a) : ~IsOut(w, b)}
  IN  [w EXCEPT !.chan[a] =
         [b \in Members |-> IF b \in reached THEN Append(@[b], msg) ELSE @[b]]]

Player(id, authorized, state) == [id |-> id, authorized |-> authorized, state |-> state]

\* enet_host_connect: the attempt ends with an event, whether the other is there or not.
Contact(w, a, b, id) ==
  [w EXCEPT !.peer[a][b] = Player(id, TRUE, "connecting"),
            !.chan[b][a] = <<[msg |-> IF IsOut(w, b) THEN "DISCONNECT" ELSE "CONNECT"]>>]

\* enet_peer_disconnect
Disconnect(w, a, b) ==
  LET told == IF IsConnected(w, a, b) THEN Put(w, a, b, [msg |-> "DISCONNECT"]) ELSE w
  IN  [told EXCEPT !.peer[a][b] = None, !.chan[b][a] = <<>>]

disable_new_connections(w, a) ==
  LET dropped == {b \in Members : w.peer[a][b] # None /\ ~w.peer[a][b].authorized}
      told == {b \in dropped : IsConnected(w, a, b) /\ ~IsOut(w, b)}
  IN  [w EXCEPT !.peer[a] = [b \in Members |-> IF b \in dropped THEN None ELSE @[b]],
                !.chan = [x \in Members |-> [y \in Members |->
                   IF y = a /\ x \in dropped THEN <<>>
                   ELSE IF x = a /\ y \in told THEN Append(@[x][y], [msg |-> "DISCONNECT"])
                   ELSE @[x][y]]]]

add_player_ById(w, a, id, who, contact) ==
  IF PeersWith(w, a, id) # {}
  THEN LET n == CHOOSE n \in PeersWith(w, a, id) : TRUE
       IN  [w EXCEPT !.peer[a][n].authorized = TRUE]
  ELSE IF contact THEN Contact(w, a, who, id)
  ELSE [w EXCEPT !.pending[a] = @ \cup {[id |-> id, who |-> who]}]

add_player_IdStays(w, a, id, who, contact) ==
  LET found == {n \in Members : n \in PeersWith(w, a, id) \/ (n = who /\ w.peer[a][n] # None)}
  IN  IF found # {}
      THEN [w EXCEPT !.peer[a][CHOOSE n \in found : TRUE].authorized = TRUE]
      ELSE IF contact THEN Contact(w, a, who, id)
      ELSE [w EXCEPT !.pending[a] = @ \cup {[id |-> id, who |-> who]}]

\* A player who is connected already is recognised by its id, or by its address.
add_player(w, a, id, who, contact) ==
  LET found == IF PeersWith(w, a, id) # {} THEN PeersWith(w, a, id)
               ELSE {n \in {who} : w.peer[a][n] # None}
  IN  IF found # {}
      THEN LET n == CHOOSE n \in found : TRUE
           IN  [w EXCEPT !.peer[a][n].id = id, !.peer[a][n].authorized = TRUE]
      ELSE IF contact THEN Contact(w, a, who, id)
      ELSE IF Cardinality(w.pending[a]) >= MAX_NATION THEN w
      ELSE [w EXCEPT !.pending[a] = @ \cup {[id |-> id, who |-> who]}]

delete_player(w, a, id) ==
  IF PeersWith(w, a, id) # {}
  THEN Disconnect(w, a, CHOOSE n \in PeersWith(w, a, id) : TRUE)
  ELSE [w EXCEPT !.pending[a] = {p \in @ : p.id # id}]

\* MultiPlayer::receive, ENET_EVENT_TYPE_CONNECT
Connected(w, a, b) ==
  LET awaited == {p \in w.pending[a] : p.who = b}
      id == IF a = Host THEN get_avail_player_id(w) ELSE 0
  IN  IF w.peer[a][b] # None
      THEN Put([w EXCEPT !.peer[a][b].state = "connected"], a, b, [msg |-> "CONNECT"])
      ELSE IF awaited # {}
      THEN LET p == CHOOSE p \in awaited : TRUE
           IN  [w EXCEPT !.pending[a] = @ \ {p}, !.peer[a][b] = Player(p.id, TRUE, "connected")]
      ELSE IF IsPregame(w, a) THEN [w EXCEPT !.peer[a][b] = Player(id, FALSE, "connected")]
      ELSE Put(w, a, b, [msg |-> "DISCONNECT"])

\* ENET_EVENT_TYPE_DISCONNECT: a client keeps the player in case it comes back.
Disconnected(w, a, b) ==
  LET p == w.peer[a][b]
      kept == IF p # None /\ p.authorized /\ a # Host /\ Cardinality(w.pending[a]) < MAX_NATION
              THEN {[id |-> p.id, who |-> b]} ELSE {}
  IN  [w EXCEPT !.peer[a][b] = None, !.pending[a] = @ \cup kept]

---------------------------------------------------------------------------
(* The lobby.                                                              *)

Registered(w, a, id) ==
  IF id \in ToSet(w.member[a].reg) THEN w ELSE [w EXCEPT !.member[a].reg = Append(@, id)]

Unregistered(w, a, id) == [w EXCEPT !.member[a].reg = RemoveFirst(@, id)]

Forgotten_ColourKept(w, id) ==
  [Unregistered(w, Host, id) EXCEPT !.lobby.ready = @ \ {id},
     !.lobby.colour = [k \in DOMAIN @ \ {id} |-> @[k]]]

\* The player loses its place and its colour is free again.
Forgotten(w, id) ==
  [Unregistered(w, Host, id) EXCEPT !.lobby.ready = @ \ {id},
     !.lobby.colour = [k \in DOMAIN @ \ {id} |-> @[k]],
     !.lobby.assigned = IF id \in DOMAIN w.lobby.colour THEN @ \ {w.lobby.colour[id]} ELSE @]

\* Player id gets colour c and gives back the one it had.
Coloured(w, id, c) ==
  [w EXCEPT !.lobby.assigned =
              (IF id \in DOMAIN w.lobby.colour THEN @ \ {w.lobby.colour[id]} ELSE @) \cup {c},
            !.lobby.colour = [k \in DOMAIN @ \cup {id} |-> IF k = id THEN c ELSE @[k]]]

Accept(id, who, contact) ==
  [msg |-> "ACCEPT_NEW_PLAYER", id |-> id, who |-> who, contact |-> contact]

\* The players a newcomer is told of
OthersOf(w, from) ==
  {Accept(w.peer[Host][n].id, n, FALSE) : n \in player_pool(w, Host) \ {from}}
    \cup {Accept(1, Host, FALSE)}

\* The newcomer is registered, hears its id and of the others, and gets colour c.
LetIn(w, from, list, c) ==
  LET id == w.peer[Host][from].id
      in == [w EXCEPT !.peer[Host][from].authorized = TRUE,
                      !.member[Host].reg = Append(@, id), !.lobby.ready = @ \ {id}]
      numbered == Put(Coloured(in, id, c), Host, from, [msg |-> "PLAYER_ID", id |-> id])
      told == PutAll(Broadcast(numbered, Host, Accept(id, from, TRUE)), Host, from, list)
  IN  Put(told, Host, from, [msg |-> "ACCEPT_COLOR", colour |-> c])

\* MPMSG_NEW_PLAYER at the host: the worlds after it, which differ in the colour given and in
\* the order of the players the newcomer is told of (qsort compares addresses for their ids)
NewPlayer(w, from) ==
  IF Len(w.member[Host].reg) >= MAX_NATION
  THEN {Put(w, Host, from, [msg |-> "REFUSE_NEW_PLAYER"])}
  ELSE {LetIn(w, from, list, c) :
          list \in SetToSeqs(OthersOf(w, from)), c \in Colours \ w.lobby.assigned}

\* MPMSG_ACQUIRE_COLOR at the host
AcquireColour(w, from, c) ==
  LET id == w.peer[Host][from].id
  IN  IF c \notin w.lobby.assigned /\ id \in ToSet(w.member[Host].reg)
      THEN Put(Coloured(w, id, c), Host, from, [msg |-> "ACCEPT_COLOR", colour |-> c])
      ELSE Put(w, Host, from, [msg |-> "REFUSE_COLOR"])

\* Everybody sets up the game and says so.
SetUp(w, a, list) ==
  LET starts == [w EXCEPT !.member[a].phase = "setting", !.member[a].nations = list]
      closed == disable_new_connections(starts, a)
      told == IF a = Host
              THEN Broadcast(closed, a, [msg |-> "START_GAME", list |-> list]) ELSE closed
  IN  Broadcast(told, a, [msg |-> "END_SETTING"])

\* A member whose program ends; those who know it get to know in the end.
Gone(w, a) ==
  LET Ending(b) == CASE w.peer[b][a] = None -> <<>>
                   [] w.peer[b][a] # None /\ w.peer[b][a].state = "connecting" ->
                        <<[msg |-> "DISCONNECT"]>>
                   [] OTHER -> Append(w.chan[a][b], [msg |-> "DISCONNECT"])
  IN  [w EXCEPT !.member[a] = [phase |-> "out", my_id |-> 0, colour |-> None, ready |-> FALSE,
                               reg |-> <<>>, ended |-> 0, nations |-> <<>>],
                !.peer[a] = [b \in Members |-> None], !.pending[a] = {},
                !.chan = [x \in Members |-> [y \in Members |->
                   IF y = a THEN <<>> ELSE IF x = a THEN Ending(y) ELSE @[x][y]]]]

Box(w, a) == [w EXCEPT !.member[a].phase = "box"]

\* The messages the lobby of a client understands
ClientHears(w, a, m) ==
  CASE m.msg = "ACCEPT_NEW_PLAYER" ->
         IF Len(w.member[a].reg) < MAX_NATION /\ m.id # w.member[a].my_id
         THEN {Registered(add_player(w, a, m.id, m.who, m.contact), a, m.id)} ELSE {w}
    [] m.msg = "PLAYER_ID" ->
         {[w EXCEPT !.member[a].my_id = m.id, !.member[a].reg = Append(@, m.id)]}
    [] m.msg = "PLAYER_DISCONNECT" -> {Unregistered(delete_player(w, a, m.id), a, m.id)}
    [] m.msg = "ACCEPT_COLOR" -> {[w EXCEPT !.member[a].colour = m.colour]}
    [] m.msg = "REFUSE_COLOR" -> {w}
    [] m.msg \in {"REFUSE_NEW_PLAYER", "ABORT_GAME"} -> {Box(w, a)}
    [] m.msg = "END_SETTING" -> {[w EXCEPT !.member[a].ended = @ + 1]}
    [] m.msg = "START_GAME" ->
         IF Contains(m.list, w.member[a].my_id) THEN {SetUp(w, a, m.list)} ELSE {Gone(w, a)}

HostHears(w, from, m) ==
  LET id == w.peer[Host][from].id
  IN  CASE m.msg = "NEW_PLAYER" -> NewPlayer(w, from)
        [] m.msg = "ACQUIRE_COLOR" -> {AcquireColour(w, from, m.colour)}
        [] m.msg = "READY" ->
             {IF id \in ToSet(w.member[Host].reg) THEN [w EXCEPT !.lobby.ready = @ \cup {id}] ELSE w}
        [] m.msg = "UNREADY" -> {[w EXCEPT !.lobby.ready = @ \ {id}]}

LobbyConnects(w, a, b) ==
  IF w.member[a].phase = "joining" /\ b = Host
  THEN {Put([w EXCEPT !.member[a].phase = "lobby"], a, Host, [msg |-> "NEW_PLAYER"])} ELSE {w}

\* A disconnect in the lobby, of the player that had the id from
LobbyDisconnects(w, a, from) ==
  CASE w.member[a].phase = "joining" -> {Gone(w, a)}
    [] w.member[a].phase = "lobby" /\ a = Host /\ from # 0 ->
         {Broadcast(Forgotten(w, from), Host, [msg |-> "PLAYER_DISCONNECT", id |-> from])}
    [] w.member[a].phase = "lobby" /\ from = 1 -> {Box(w, a)}
    [] OTHER -> {w}

\* What a makes of the event or message m that it has taken from the connection with b
Handled(w, a, b, m) ==
  LET phase == w.member[a].phase
      known == w.peer[a][b] # None
      from == IF known THEN w.peer[a][b].id ELSE 0
  IN  IF m.msg = "CONNECT" THEN LobbyConnects(Connected(w, a, b), a, b)
      ELSE IF m.msg = "DISCONNECT" THEN LobbyDisconnects(Disconnected(w, a, b), a, from)
      ELSE IF ~known THEN {w}
      ELSE CASE phase = "lobby" -> IF a = Host THEN HostHears(w, b, m) ELSE ClientHears(w, a, m)
             [] phase = "setting" /\ m.msg = "END_SETTING" ->
                  {[w EXCEPT !.member[a].ended = @ + 1]}
             [] OTHER -> {w}

---------------------------------------------------------------------------
(* The steps.                                                              *)

Newcomer == [phase |-> "away", my_id |-> 0, colour |-> None, ready |-> FALSE,
             reg |-> <<>>, ended |-> 0, nations |-> <<>>]

\* create_session, and what mp_select_option begins with; any colour will do for the host.
Init ==
  \E first \in Colours :
      /\ member = [m \in Members |->
           IF m = Host THEN [Newcomer EXCEPT !.phase = "lobby", !.my_id = 1, !.colour = first,
                                             !.reg = <<1>>]
           ELSE Newcomer]
      /\ peer = [m \in Members |-> [n \in Members |-> None]]
      /\ pending = [m \in Members |-> {}]
      /\ chan = [m \in Members |-> [n \in Members |-> <<>>]]
      /\ lobby = [colour |-> [id \in {1} |-> first], assigned |-> {first}, ready |-> {}]
      /\ choices = 0

\* mp_join_session: the host is player 1.
Join(c) ==
  /\ member[c].phase = "away"
  /\ Become(Contact([World EXCEPT !.member[c].phase = "joining"], c, Host, 1))
  /\ UNCHANGED choices

\* One event or message is taken from the connection with b.
Receive(a, b) ==
  /\ member[a].phase \in {"joining", "lobby", "box", "setting"}
  /\ chan[b][a] # <<>>
  /\ \E v \in Handled([World EXCEPT !.chan[b][a] = Tail(@)], a, b, Head(chan[b][a])) : Become(v)
  /\ UNCHANGED choices

\* The player chooses a colour; a client has to ask for it.
ChooseColour(p, c) ==
  /\ member[p].phase = "lobby" /\ ~member[p].ready
  /\ choices < MaxChoices /\ choices' = choices + 1
  /\ IF p = Host
     THEN IF c \notin lobby.assigned
          THEN Become([Coloured(World, 1, c) EXCEPT !.member[Host].colour = c])
          ELSE Become(World)
     ELSE /\ Contains(member[p].reg, 1)
          /\ Become(Put(World, p, Host, [msg |-> "ACQUIRE_COLOR", colour |-> c]))

\* The ready button; the flags other clients show are left out.
PressReady(p) ==
  /\ member[p].phase = "lobby"
  /\ Contains(member[p].reg, member[p].my_id)
  /\ LET ready == ~member[p].ready
         w == [World EXCEPT !.member[p].ready = ready]
     IN  /\ IF ready THEN UNCHANGED choices ELSE choices < MaxChoices /\ choices' = choices + 1
         /\ IF p = Host
            THEN Become([w EXCEPT !.lobby.ready = IF ready THEN @ \cup {1} ELSE @ \ {1}])
            ELSE Become(Put(w, p, Host, [msg |-> IF ready THEN "READY" ELSE "UNREADY"]))

\* The start button: those registered who are (still) connected will play.
StartersOf(w) ==
  LET reg == w.member[Host].reg
      starters == {i \in DOMAIN reg :
                     reg[i] = 1 \/ PeersWith(w, Host, reg[i]) \cap player_pool(w, Host) # {}}
  IN  [k \in 1..Cardinality(starters) |->
         reg[CHOOSE i \in starters : Cardinality({j \in starters : j <= i}) = k]]

PressStart ==
  /\ member[Host].phase = "lobby"
  /\ Len(member[Host].reg) >= 2 /\ ToSet(member[Host].reg) \subseteq lobby.ready
  /\ Become(SetUp(World, Host, StartersOf(World)))
  /\ UNCHANGED choices

\* The wait for the others ends when all have reported ...
AllEnded_OneLess(p) == member[p].ended >= Len(member[p].nations) - 2

AllEnded(p) == member[p].ended >= Len(member[p].nations) - 1

Begin(p) ==
  /\ member[p].phase = "setting" /\ AllEnded(p)
  /\ Become([World EXCEPT !.member[p].phase = "playing"])
  /\ UNCHANGED choices

\* ... or after ten seconds in which nothing came, with a message that others have failed.
TimeOut(p) ==
  /\ member[p].phase = "setting" /\ ~AllEnded(p)
  /\ \A q \in Members : /\ chan[q][p] = <<>>
                        /\ Contains(member[p].nations, member[q].my_id)
                             => member[q].phase \in {"setting", "playing"}
  /\ Become([World EXCEPT !.member[p].phase = "playing"])
  /\ UNCHANGED choices

\* A player leaves, closes the message box that shows, or is lost.  The host says so if it can.
Leave(p) ==
  /\ member[p].phase \in {"joining", "lobby", "box", "setting"}
  /\ \/ Become(Gone(World, p))
     \/ /\ p = Host /\ member[p].phase = "lobby"
        /\ Become(Gone(Broadcast(World, Host, [msg |-> "ABORT_GAME"]), p))
  /\ UNCHANGED choices

Next ==
  \/ \E c \in Clients : Join(c)
  \/ \E a, b \in Members : Receive(a, b)
  \/ \E p \in Members : \/ \E c \in Colours : ChooseColour(p, c)
                        \/ PressReady(p) \/ Begin(p) \/ TimeOut(p) \/ Leave(p)
  \/ PressStart

Spec == Init /\ [][Next]_vars

---------------------------------------------------------------------------
(* Properties.                                                             *)

Phase(m) == member[m].phase
InSession(m) == Phase(m) \in {"lobby", "setting", "playing"}

\* No two registered players have the same colour, and a colour that is taken is some
\* player's: none is lost when players leave or change their minds.  Nor is readiness handed
\* on: who is ready is registered.
ColoursDistinct ==
  ~IsOut(World, Host) =>
    /\ DOMAIN lobby.colour = ToSet(member[Host].reg)
    /\ lobby.assigned = {lobby.colour[id] : id \in DOMAIN lobby.colour}
    /\ Cardinality(lobby.assigned) = Cardinality(DOMAIN lobby.colour)
    /\ lobby.ready \subseteq ToSet(member[Host].reg)

\* Nobody takes a player for another one, although ids are given out again: whom a member knows
\* under an id is the one who has it.
PeersAreWhoTheyAre ==
  \A m, n \in Members :
    InSession(m) /\ InSession(n) /\ m # n /\ member[n].my_id # 0 /\ peer[m][n] # None =>
      (peer[m][n].authorized => peer[m][n].id = member[n].my_id)

\* Nothing is under way between those in the lobby.
Quiet ==
  /\ \A m \in Members : Phase(m) # "joining"
  /\ \A m, n \in Members : chan[m][n] = <<>>

\* When nothing is under way, everybody in the lobby is connected with everybody else there and
\* has the registry the host has.
LobbyIsComplete ==
  Quiet /\ Phase(Host) = "lobby" =>
    \A m \in Clients : Phase(m) = "lobby" =>
      /\ ToSet(member[m].reg) = ToSet(member[Host].reg)
      /\ \A n \in Members \ {m} : Phase(n) = "lobby" => n \in player_pool(World, m)

\* All who set up the game set up the same one and are in it.
SameGame ==
  \A m, n \in Members :
    Phase(m) \in {"setting", "playing"} /\ Phase(n) \in {"setting", "playing"} =>
      /\ member[m].nations = member[n].nations
      /\ Contains(member[m].nations, member[m].my_id)
      /\ m # n => member[m].my_id # member[n].my_id

\* Nobody plays while another who will play is still in the lobby, where the first message of
\* the game would end the setup ("any other thing is received").
NobodyIsAhead ==
  \A m, n \in Members :
    Phase(m) = "playing" /\ Contains(member[m].nations, member[n].my_id) /\ member[n].my_id # 0
      => Phase(n) \in {"setting", "playing"}

=============================================================================
