---------------------------- MODULE SetupProofs ----------------------------
(***************************************************************************)
(* The set-up of a game, proved for any clients, colours and number of     *)
(* nations, and without a bound on what the players choose: the colours    *)
(* given out are distinct and none is lost, all who set up the game set up *)
(* the same one, each under an id of its own, and nobody plays before all  *)
(* have set up.                                                            *)
(*                                                                         *)
(* The handlers are functions from worlds to worlds, so the proof is one   *)
(* lemma for each: a world with the invariant becomes one.  Much of what a *)
(* handler does is harmless to everything but the types (messages put in a *)
(* channel or taken from it, a client's picture of the others); lemmas of  *)
(* their own say when, and only the host's registry, the numbers it sends  *)
(* and the start of the game are left to be looked at.                     *)
(***************************************************************************)
EXTENDS Setup, FoldProofs, SequenceTheorems

-----------------------------------------------------------------------------
(* The invariant.                                                          *)

Ids == Nat \ {0}
Phases == {"away", "joining", "lobby", "box", "setting", "playing", "out"}

MemberRecords ==
  [phase : Phases, my_id : Nat, colour : Colours \cup {None}, ready : BOOLEAN,
   reg : Seq(Ids), ended : Nat, nations : Seq(Ids)]
Expected == [id : Nat, who : Members]

\* Whom the host introduces: of players, only the host itself has the id 1.
Introductions ==
  {m \in [msg : {"ACCEPT_NEW_PLAYER"}, id : Ids, who : Members, contact : BOOLEAN] :
     m.who = Host => m.id = 1}
Events == [msg : {"CONNECT", "DISCONNECT", "END_SETTING"}]
ToHost ==
  Events \cup [msg : {"NEW_PLAYER", "READY", "UNREADY"}]
         \cup [msg : {"ACQUIRE_COLOR"}, colour : Colours]
ToClient ==
  Events \cup [msg : {"REFUSE_COLOR", "REFUSE_NEW_PLAYER", "ABORT_GAME"}]
         \cup [msg : {"ACCEPT_COLOR"}, colour : Colours]
         \cup [msg : {"PLAYER_ID", "PLAYER_DISCONNECT"}, id : Ids \ {1}]
         \cup [msg : {"START_GAME"}, list : Seq(Ids)]
         \cup Introductions
Understood(b) == IF b = Host THEN ToHost ELSE ToClient

MembersTyped(f) == f \in [Members -> MemberRecords]
PeersTyped(f) == f \in [Members -> [Members -> Players \cup {None}]]
PendingTyped(f) == f \in [Members -> SUBSET Expected]
ChansTyped(f) ==
  /\ f = [x \in Members |-> [y \in Members |-> f[x][y]]]
  /\ \A x, y \in Members : f[x][y] \in Seq(Understood(y))
LobbyTyped(f) ==
  /\ f = [colour |-> f.colour, assigned |-> f.assigned, ready |-> f.ready]
  /\ f.colour \in [DOMAIN f.colour -> Colours]
  /\ f.assigned \subseteq Colours /\ f.ready \subseteq Ids

IsWorld(w) ==
  w = [member |-> w.member, peer |-> w.peer, pending |-> w.pending, chan |-> w.chan,
       lobby |-> w.lobby]

TypeOK(w) ==
  /\ IsWorld(w)
  /\ MembersTyped(w.member) /\ PeersTyped(w.peer) /\ PendingTyped(w.pending)
  /\ ChansTyped(w.chan) /\ LobbyTyped(w.lobby)

\* What is on its way from x to y.
Way(w, x, y) == ToSet(w.chan[x][y])
Carries(w, x, y, kind) == \E m \in Way(w, x, y) : m.msg = kind

\* A member asks to be let in at most once.
Once(s) == \A i, j \in DOMAIN s : s[i].msg = "NEW_PLAYER" /\ s[j].msg = "NEW_PLAYER" => i = j

\* c has the id, or will hear that it is its own.
HasId(w, c, id) ==
  \/ w.member[c].my_id = id
  \/ \E x \in Members : [msg |-> "PLAYER_ID", id |-> id] \in Way(w, x, c)

Setting(w, m) == w.member[m].phase \in {"setting", "playing"}

\* The host never joins, knows nobody by the id 1 and no two players by the same one, and is
\* the first in its registry, in which nobody is twice.
HostOK(w) ==
  /\ w.member[Host].phase \in {"lobby", "setting", "playing", "out"}
  /\ w.peer[Host][Host] = None /\ w.chan[Host][Host] = <<>>
  /\ ~IsOut(w, Host) =>
       /\ w.member[Host].my_id = 1
       /\ w.member[Host].reg # <<>> /\ w.member[Host].reg[1] = 1
       /\ IsInjective(w.member[Host].reg)
       /\ w.pending[Host] = {}
       /\ \A m \in Members : w.peer[Host][m] # None =>
            /\ w.peer[Host][m].id >= 2
            /\ \A n \in Members : w.peer[Host][n] # None /\ w.peer[Host][n].id = w.peer[Host][m].id
                 => m = n

\* Exactly the registered players have a colour, each another one.
ColoursOK(w) ==
  ~IsOut(w, Host) =>
    /\ DOMAIN w.lobby.colour = ToSet(w.member[Host].reg)
    /\ w.lobby.assigned = {w.lobby.colour[id] : id \in DOMAIN w.lobby.colour}
    /\ \A i, j \in DOMAIN w.lobby.colour : w.lobby.colour[i] = w.lobby.colour[j] => i = j
    /\ w.lobby.ready \subseteq ToSet(w.member[Host].reg)

\* A client asks to be let in once, when it is in the lobby.
NewcomersOK(w) ==
  \A c \in Clients :
    /\ w.member[c].phase \in {"away", "joining"} => ~Carries(w, c, Host, "NEW_PLAYER")
    /\ Once(w.chan[c][Host])

\* c is not registered yet.
IsNew(w, c) ==
  w.member[c].phase \in {"away", "joining"} \/ Carries(w, c, Host, "NEW_PLAYER")

\* In the lobby, who is registered is connected, and the id of a newcomer is not registered.
RegistryOK(w) ==
  w.member[Host].phase = "lobby" =>
    /\ \A id \in ToSet(w.member[Host].reg) : id # 1 => PeersWith(w, Host, id) # {}
    /\ \A c \in Clients : w.peer[Host][c] # None /\ IsNew(w, c)
         => w.peer[Host][c].id \notin ToSet(w.member[Host].reg)

\* In the lobby, the host knows whoever has an id by that id, and loses only those who have left.
ClientsOK(w) ==
  w.member[Host].phase = "lobby" =>
    \A c \in Clients :
      /\ Carries(w, c, Host, "DISCONNECT") => w.member[c].phase = "out"
      /\ ~Carries(w, c, Host, "END_SETTING")
      /\ \A id \in Ids : HasId(w, c, id) /\ w.member[c].phase # "out"
           => w.peer[Host][c] # None /\ w.peer[Host][c].id = id

\* Clients know the host as player 1, if they know it by an id.
HostIsOne(w) ==
  \A c \in Clients :
    /\ w.peer[c][Host] # None => w.peer[c][Host].id <= 1
    /\ \A p \in w.pending[c] : p.who = Host => p.id <= 1

\* No two clients have the same id, and none has the host's.
IdsOK(w) ==
  \A c \in Clients : w.member[c].phase # "out" =>
    /\ ~HasId(w, c, 1)
    /\ \A d \in Clients : w.member[d].phase # "out" /\ c # d =>
         \A id \in Ids : ~(HasId(w, c, id) /\ HasId(w, d, id))

\* Nobody sets up the game before the host, and there is one game, of which all who set it up
\* are players.
NotStarted(w) ==
  /\ \A m \in Members : ~Setting(w, m)
  /\ \A x, y \in Members : ~Carries(w, x, y, "START_GAME")
Plays(w, list) ==
  /\ \A m \in Members : Setting(w, m) => w.member[m].nations = list
  /\ \A x, y \in Members : \A m \in Way(w, x, y) : m.msg = "START_GAME" => m.list = list
OneGame(w) == \E list \in Seq(Ids) : Plays(w, list)
GameOK(w) ==
  /\ w.member[Host].phase = "lobby" => NotStarted(w)
  /\ OneGame(w)
  /\ \A m \in Members : Setting(w, m) => Contains(w.member[m].nations, w.member[m].my_id)

\* What every world the program reaches satisfies
IInv(w) ==
  /\ TypeOK(w) /\ HostOK(w) /\ ColoursOK(w) /\ NewcomersOK(w) /\ RegistryOK(w) /\ ClientsOK(w)
  /\ HostIsOne(w) /\ IdsOK(w) /\ GameOK(w)
Inv == IInv(World) /\ choices \in Nat

\* The members are finitely many: the host and the clients.
LEMMA TheMembers ==
  /\ Host \in Members /\ Host \notin Clients /\ IsFiniteSet(Members)
  /\ \A m \in Members : m = Host \/ m \in Clients
  /\ \A c \in Clients : c \in Members /\ c # Host
BY SetupAssumption, FS_AddElement DEF Members

---------------------------------------------------------------------------
(* Sequences.                                                              *)

\* What is appended to a sequence is added to what it holds.
LEMMA Appended ==
  ASSUME NEW S, NEW s \in Seq(S), NEW e \in S
  PROVE  /\ Append(s, e) \in Seq(S)
         /\ ToSet(Append(s, e)) = ToSet(s) \cup {e}
         /\ Once(s) /\ (e.msg # "NEW_PLAYER" \/ \A m \in ToSet(s) : m.msg # "NEW_PLAYER")
              => Once(Append(s, e))
<1>1. Append(s, e) \in Seq(S) /\ Len(Append(s, e)) = Len(s) + 1
  OBVIOUS
<1>2. DOMAIN s = 1..Len(s) /\ DOMAIN Append(s, e) = 1..(Len(s) + 1) /\ Len(s) \in Nat
  OBVIOUS
<1>3. \A i \in 1..Len(s) : Append(s, e)[i] = s[i]
  OBVIOUS
<1>4. Append(s, e)[Len(s) + 1] = e
  OBVIOUS
<1>5. ToSet(Append(s, e)) = ToSet(s) \cup {e}
  <2> DEFINE t == Append(s, e)
  <2>1. \A i \in DOMAIN t : t[i] \in ToSet(s) \cup {e}
    BY <1>2, <1>3, <1>4 DEF ToSet
  <2>2. \A i \in DOMAIN s : s[i] \in ToSet(t)
    <3>1. ASSUME NEW i \in DOMAIN s PROVE s[i] \in ToSet(t)
      <4>1. i \in DOMAIN t /\ t[i] = s[i]
        BY <1>2, <1>3
      <4> QED BY <4>1 DEF ToSet
    <3> QED BY <3>1
  <2>3. e \in ToSet(t)
    <3>1. Len(s) + 1 \in DOMAIN t
      BY <1>2
    <3> QED BY <3>1, <1>4 DEF ToSet
  <2>4. ToSet(t) \subseteq ToSet(s) \cup {e}
    BY <2>1 DEF ToSet
  <2>5. ToSet(s) \subseteq ToSet(t)
    BY <2>2 DEF ToSet
  <2> HIDE DEF t
  <2>6. QED BY <2>3, <2>4, <2>5 DEF t
<1>6. ASSUME Once(s), e.msg # "NEW_PLAYER" \/ \A m \in ToSet(s) : m.msg # "NEW_PLAYER"
      PROVE  Once(Append(s, e))
  <2>1. \A i \in 1..Len(s) : s[i] \in ToSet(s)
    BY <1>2 DEF ToSet
  <2> QED BY <1>6, <1>2, <1>3, <1>4, <2>1 DEF Once
<1> QED BY <1>1, <1>5, <1>6

\* What is left when the first element is taken.
LEMMA TakenFirst ==
  ASSUME NEW S, NEW s \in Seq(S), s # <<>>
  PROVE  /\ Tail(s) \in Seq(S) /\ Head(s) \in S
         /\ Head(s) \in ToSet(s) /\ ToSet(Tail(s)) \subseteq ToSet(s)
         /\ Once(s) => Once(Tail(s))
         /\ Once(s) /\ Head(s).msg = "NEW_PLAYER"
              => \A m \in ToSet(Tail(s)) : m.msg # "NEW_PLAYER"
<1>1. Tail(s) \in Seq(S) /\ Head(s) \in S /\ Head(s) = s[1]
  OBVIOUS
<1>2. /\ DOMAIN s = 1..Len(s) /\ Len(s) \in Nat \ {0}
      /\ DOMAIN Tail(s) = 1..(Len(s) - 1)
      /\ \A i \in 1..(Len(s) - 1) : Tail(s)[i] = s[i + 1]
  OBVIOUS
<1>3. \A i \in 1..(Len(s) - 1) : i + 1 \in DOMAIN s
  BY <1>2
<1>4. Head(s) \in ToSet(s) /\ ToSet(Tail(s)) \subseteq ToSet(s)
  <2>1. 1 \in DOMAIN s
    BY <1>2
  <2>2. \A m \in ToSet(Tail(s)) : m \in ToSet(s)
    BY <1>2, <1>3 DEF ToSet
  <2> QED BY <1>1, <2>1, <2>2 DEF ToSet
<1>5. ASSUME Once(s) PROVE Once(Tail(s))
  <2>1. ASSUME NEW i \in DOMAIN Tail(s), NEW j \in DOMAIN Tail(s),
               Tail(s)[i].msg = "NEW_PLAYER", Tail(s)[j].msg = "NEW_PLAYER"
        PROVE  i = j
    <3>1. i + 1 = j + 1
      BY <1>2, <1>3, <1>5, <2>1 DEF Once
    <3> QED BY <3>1, <1>2
  <2> QED BY <2>1 DEF Once
<1>6. ASSUME Once(s), Head(s).msg = "NEW_PLAYER", NEW m \in ToSet(Tail(s)), m.msg = "NEW_PLAYER"
      PROVE  FALSE
  <2>1. PICK i \in 1..(Len(s) - 1) : m = s[i + 1]
    BY <1>2 DEF ToSet
  <2>2. 1 = i + 1
    BY <1>1, <1>2, <1>3, <1>6, <2>1 DEF Once
  <2> QED BY <2>2
<1> QED BY <1>1, <1>4, <1>5, <1>6

\* The empty sequence.
LEMMA NothingThere ==
  /\ \A S : <<>> \in Seq(S)
  /\ ToSet(<<>>) = {} /\ Once(<<>>)
BY DEF ToSet, Once

\* A sequence of one message.
LEMMA OneThere ==
  ASSUME NEW S, NEW e \in S
  PROVE  <<e>> \in Seq(S) /\ ToSet(<<e>>) = {e} /\ Once(<<e>>)
<1>1. <<e>> \in Seq(S) /\ DOMAIN <<e>> = {1} /\ <<e>>[1] = e
  OBVIOUS
<1> QED BY <1>1 DEF ToSet, Once

\* Sequences one after the other hold what each of them holds.
LEMMA Joined ==
  ASSUME NEW S, NEW s \in Seq(S), NEW t \in Seq(S)
  PROVE  s \o t \in Seq(S) /\ ToSet(s \o t) \subseteq ToSet(s) \cup ToSet(t)
<1>1. s \o t \in Seq(S)
  OBVIOUS
<1>2. /\ DOMAIN s = 1..Len(s) /\ DOMAIN t = 1..Len(t) /\ Len(s) \in Nat /\ Len(t) \in Nat
      /\ DOMAIN (s \o t) = 1..(Len(s) + Len(t))
      /\ \A i \in 1..(Len(s) + Len(t)) :
           (s \o t)[i] = IF i <= Len(s) THEN s[i] ELSE t[i - Len(s)]
  OBVIOUS
<1>3. \A i \in DOMAIN (s \o t) : (s \o t)[i] \in ToSet(s) \cup ToSet(t)
  <2>1. ASSUME NEW i \in DOMAIN (s \o t) PROVE (s \o t)[i] \in ToSet(s) \cup ToSet(t)
    <3>1. CASE i <= Len(s)
      <4>1. i \in DOMAIN s
        BY <1>2, <3>1
      <4> QED BY <1>2, <3>1, <4>1 DEF ToSet
    <3>2. CASE ~(i <= Len(s))
      <4>1. i - Len(s) \in DOMAIN t
        BY <1>2, <3>2
      <4> QED BY <1>2, <3>2, <4>1 DEF ToSet
    <3> QED BY <3>1, <3>2
  <2> QED BY <2>1
<1> QED BY <1>1, <1>3 DEF ToSet

\* A value is taken out of a sequence.
LEMMA Removed ==
  ASSUME NEW S, NEW s \in Seq(S), NEW e
  PROVE  LET t == RemoveFirst(s, e)
         IN  /\ t \in Seq(S)
             /\ s # <<>> /\ s[1] # e => t # <<>> /\ t[1] = s[1]
             /\ IsInjective(s) => IsInjective(t) /\ ToSet(t) = ToSet(s) \ {e}
<1> DEFINE I == {i \in 1..Len(s) : s[i] = e}
           t == RemoveFirst(s, e)
<1>1. /\ Len(s) \in Nat /\ DOMAIN s = 1..Len(s)
      /\ \A i \in 1..Len(s) : s[i] \in S
  OBVIOUS
<1>2. CASE I = {}
  <2>1. t = s
    BY <1>2 DEF RemoveFirst
  <2>2. e \notin ToSet(s)
    BY <1>1, <1>2 DEF ToSet
  <2> QED BY <2>1, <2>2
<1>3. CASE I # {}
  <2>1. PICK k \in I : \A j \in I : k <= j
    <3>1. I \in SUBSET Nat
      BY <1>1
    <3> HIDE DEF I
    <3> QED BY <1>3, <3>1, LeastNumber
  <2>2. Min(I) = k
    <3>1. I \in SUBSET Nat
      BY <1>1
    <3> HIDE DEF I
    <3>2. \A x \in I : (\A y \in I : x <= y) => x = k
      BY <2>1, <3>1
    <3> QED BY <2>1, <3>2 DEF Min
  <2>3. t = RemoveAt(s, k)
    BY <1>3, <2>2 DEF RemoveFirst, SelectInSeq
  <2>4. k \in 1..Len(s) /\ s[k] = e
    OBVIOUS
  <2> DEFINE n == Len(s)
  <2>5. /\ t \in Seq(S) /\ Len(t) = n - 1 /\ DOMAIN t = 1..(n - 1)
        /\ \A i \in 1..(n - 1) : t[i] = IF i < k THEN s[i] ELSE s[i + 1]
    <3> DEFINE u == SubSeq(s, 1, k - 1)
               v == SubSeq(s, k + 1, n)
    <3>1. u \in Seq(S) /\ Len(u) = k - 1 /\ \A i \in 1..(k - 1) : u[i] = s[i]
      BY <1>1, <2>4, SubSeqProperties
    <3>2. v \in Seq(S) /\ Len(v) = n - k /\ \A i \in 1..(n - k) : v[i] = s[k + i]
      <4> DEFINE m == k + 1
      <4>1. /\ m \in 1..(n + 1) /\ n \in (m - 1)..n /\ n - m + 1 = n - k
            /\ \A i \in 1..(n - k) : m + i - 1 = k + i
        BY <1>1, <2>4
      <4> HIDE DEF m
      <4>2. /\ SubSeq(s, m, n) \in Seq(S) /\ Len(SubSeq(s, m, n)) = n - m + 1
            /\ \A i \in 1..(n - m + 1) : SubSeq(s, m, n)[i] = s[m + i - 1]
        BY <4>1, SubSeqProperties
      <4> QED BY <4>1, <4>2 DEF m
    <3>3. t = u \o v
      BY <2>3 DEF RemoveAt
    <3> HIDE DEF u, v, t
    <3>4. /\ u \o v \in Seq(S) /\ Len(u \o v) = Len(u) + Len(v)
          /\ \A i \in 1..(Len(u) + Len(v)) :
               (u \o v)[i] = IF i <= Len(u) THEN u[i] ELSE v[i - Len(u)]
      BY <3>1, <3>2, ConcatProperties
    <3>5. Len(t) = n - 1 /\ t \in Seq(S) /\ DOMAIN t = 1..(n - 1)
      <4>1. Len(t) = n - 1 /\ t \in Seq(S)
        BY <1>1, <2>4, <3>1, <3>2, <3>3, <3>4
      <4> QED BY <4>1
    <3>6. ASSUME NEW i \in 1..(n - 1) PROVE t[i] = IF i < k THEN s[i] ELSE s[i + 1]
      <4>1. CASE i < k
        BY <1>1, <2>4, <3>1, <3>2, <3>3, <3>4, <4>1
      <4>2. CASE ~(i < k)
        <5>1. i - (k - 1) \in 1..(n - k) /\ k + (i - (k - 1)) = i + 1
          BY <1>1, <2>4, <4>2
        <5>2. t[i] = v[i - (k - 1)]
          BY <1>1, <2>4, <3>1, <3>2, <3>3, <3>4, <4>2
        <5> QED BY <3>2, <4>2, <5>1, <5>2
      <4> QED BY <4>1, <4>2
    <3> QED BY <3>5, <3>6
  <2> HIDE DEF I, t
  <2>6. ASSUME s # <<>>, s[1] # e PROVE t # <<>> /\ t[1] = s[1]
    <3>1. k >= 2 /\ n >= 2
      BY <1>1, <2>4, <2>6
    <3>2. 1 \in 1..(n - 1) /\ 1 < k
      BY <1>1, <2>4, <3>1
    <3>3. t[1] = s[1] /\ 1 \in DOMAIN t
      BY <2>5, <3>2
    <3>4. t # <<>>
      BY <2>5, <3>2, <3>3
    <3> QED BY <3>3, <3>4
  <2>7. ASSUME IsInjective(s) PROVE IsInjective(t) /\ ToSet(t) = ToSet(s) \ {e}
    <3>1. \A i, j \in 1..n : s[i] = s[j] => i = j
      BY <1>1, <2>7 DEF IsInjective
    <3>2. IsInjective(t)
      <4>1. ASSUME NEW i \in 1..(n - 1), NEW j \in 1..(n - 1), t[i] = t[j] PROVE i = j
        BY <1>1, <2>4, <2>5, <3>1, <4>1
      <4> QED BY <2>5, <4>1 DEF IsInjective
    <3>3. ToSet(t) \subseteq ToSet(s) \ {e}
      <4>1. ASSUME NEW i \in 1..(n - 1) PROVE t[i] \in ToSet(s) \ {e}
        <5> DEFINE j == IF i < k THEN i ELSE i + 1
        <5>1. j \in 1..n /\ j # k /\ t[i] = s[j]
          BY <1>1, <2>4, <2>5
        <5> HIDE DEF j
        <5>2. s[j] # e
          BY <2>4, <3>1, <5>1
        <5> QED BY <1>1, <5>1, <5>2 DEF ToSet
      <4> QED BY <2>5, <4>1 DEF ToSet
    <3>4. ToSet(s) \ {e} \subseteq ToSet(t)
      <4>1. ASSUME NEW j \in 1..n, s[j] # e PROVE s[j] \in ToSet(t)
        <5> DEFINE i == IF j < k THEN j ELSE j - 1
        <5>1. j # k
          BY <2>4, <4>1
        <5>2. i \in 1..(n - 1) /\ t[i] = s[j]
          BY <1>1, <2>4, <2>5, <5>1
        <5> HIDE DEF i
        <5> QED BY <2>5, <5>2 DEF ToSet
      <4> QED BY <1>1, <4>1 DEF ToSet
    <3> QED BY <3>2, <3>3, <3>4
  <2> QED BY <2>5, <2>6, <2>7 DEF t
<1> QED BY <1>2, <1>3

---------------------------------------------------------------------------
(* Messages on their way.                                                  *)

\* A message that nobody's id, place or game depends on.
Harmless(w, y, m) ==
  /\ m.msg \notin {"NEW_PLAYER", "PLAYER_ID", "START_GAME"}
  /\ m.msg \in {"DISCONNECT", "END_SETTING"} /\ y = Host => w.member[Host].phase # "lobby"
Calmly(w, x, y, s) ==
  /\ s \in Seq(Understood(y))
  /\ \A m \in ToSet(s) : m \in Way(w, x, y) \/ Harmless(w, y, m)
  /\ y = Host => Once(s)
OnlyChans(w, v) ==
  /\ IsWorld(v) /\ ChansTyped(v.chan) /\ v.chan[Host][Host] = <<>>
  /\ v.member = w.member /\ v.peer = w.peer /\ v.pending = w.pending /\ v.lobby = w.lobby

\* Messages can be taken, lost and sent as long as none of those sent matters.
LEMMA Calm ==
  ASSUME NEW w, NEW v, IInv(w), OnlyChans(w, v),
         \A x, y \in Members : Calmly(w, x, y, v.chan[x][y])
  PROVE  IInv(v)
<1> USE TheMembers
<1>1. \A x, y \in Members : \A m \in Way(v, x, y) : m \in Way(w, x, y) \/ Harmless(w, y, m)
  BY DEF Calmly, Way
<1>2. /\ v.member = w.member /\ v.peer = w.peer /\ v.pending = w.pending /\ v.lobby = w.lobby
      /\ v.chan[Host][Host] = <<>>
  BY DEF OnlyChans
<1>3. \A x, y \in Members : \A k \in {"NEW_PLAYER", "START_GAME"} :
        Carries(v, x, y, k) => Carries(w, x, y, k)
  BY <1>1 DEF Carries, Harmless
<1>4. ASSUME NEW c \in Members, NEW id, HasId(v, c, id) PROVE HasId(w, c, id)
  <2>1. CASE v.member[c].my_id = id
    BY <1>2, <2>1 DEF HasId
  <2>2. ASSUME NEW x \in Members, [msg |-> "PLAYER_ID", id |-> id] \in Way(v, x, c)
        PROVE  HasId(w, c, id)
    BY <1>1, <2>2 DEF HasId, Harmless
  <2> QED BY <1>4, <2>1, <2>2 DEF HasId
<1>5. TypeOK(v)
  BY <1>2 DEF IInv, TypeOK, OnlyChans
<1>6. HostOK(v)
  BY <1>2 DEF IInv, HostOK, IsOut
<1>7. ColoursOK(v)
  BY <1>2 DEF IInv, ColoursOK, IsOut
<1>8. NewcomersOK(v)
  BY <1>2, <1>3 DEF IInv, NewcomersOK, Calmly
<1>9. RegistryOK(v)
  <2>1. \A c \in Clients : IsNew(v, c) => IsNew(w, c)
    BY <1>2, <1>3 DEF IsNew
  <2> QED BY <1>2, <2>1 DEF IInv, RegistryOK, PeersWith
<1>10. ClientsOK(v)
  <2>1. ASSUME w.member[Host].phase = "lobby", NEW c \in Clients, NEW k \in {"DISCONNECT", "END_SETTING"},
               Carries(v, c, Host, k)
        PROVE  Carries(w, c, Host, k)
    BY <1>1, <2>1 DEF Carries, Harmless
  <2> QED BY <1>2, <1>4, <2>1 DEF IInv, ClientsOK
<1>11. HostIsOne(v)
  BY <1>2 DEF IInv, HostIsOne
<1>12. IdsOK(v)
  BY <1>2, <1>4 DEF IInv, IdsOK
<1>13. GameOK(v)
  <2>1. \A m \in Members : Setting(v, m) <=> Setting(w, m)
    BY <1>2 DEF Setting
  <2>2. w.member[Host].phase = "lobby" => NotStarted(v)
    BY <1>3, <2>1 DEF IInv, GameOK, NotStarted
  <2>3. ASSUME NEW list \in Seq(Ids), Plays(w, list) PROVE Plays(v, list)
    <3>1. ASSUME NEW x \in Members, NEW y \in Members, NEW m \in Way(v, x, y), m.msg = "START_GAME"
          PROVE  m.list = list
      BY <1>1, <2>3, <3>1 DEF Harmless, Plays
    <3> QED BY <1>2, <2>1, <2>3, <3>1 DEF Plays
  <2>4. OneGame(v)
    BY <2>3 DEF IInv, GameOK, OneGame
  <2> QED BY <1>2, <2>1, <2>2, <2>4 DEF IInv, GameOK
<1> QED BY <1>5, <1>6, <1>7, <1>8, <1>9, <1>10, <1>11, <1>12, <1>13 DEF IInv

\* The channels after one of them has changed.
LEMMA OneChan ==
  ASSUME NEW f, ChansTyped(f), NEW a \in Members, NEW b \in Members, NEW s \in Seq(Understood(b))
  PROVE  LET g == [f EXCEPT ![a][b] = s]
         IN  /\ ChansTyped(g) /\ g[a][b] = s
             /\ \A x, y \in Members : x # a \/ y # b => g[x][y] = f[x][y]
BY DEF ChansTyped

\* Every channel is calm as it is.
LEMMA CalmAsItIs ==
  ASSUME NEW w, IInv(w), NEW x \in Members, NEW y \in Members
  PROVE  Calmly(w, x, y, w.chan[x][y])
<1>1. w.chan[x][y] \in Seq(Understood(y))
  BY DEF IInv, TypeOK, ChansTyped
<1>2. y = Host => Once(w.chan[x][y])
  BY TheMembers, NothingThere DEF IInv, HostOK, NewcomersOK
<1> QED BY <1>1, <1>2 DEF Calmly, Way

\* What Put makes of a world.
LEMMA PutIs ==
  ASSUME NEW w, IsWorld(w), ChansTyped(w.chan), NEW a \in Members, NEW b \in Members, NEW msg
  PROVE  LET v == Put(w, a, b, msg)
         IN  /\ IsWorld(v)
             /\ v.member = w.member /\ v.peer = w.peer /\ v.pending = w.pending /\ v.lobby = w.lobby
             /\ IsOut(w, b) => v.chan = w.chan
             /\ ~IsOut(w, b) => v.chan = [w.chan EXCEPT ![a][b] = Append(w.chan[a][b], msg)]
<1>1. CASE IsOut(w, b)
  BY <1>1 DEF Put, IsWorld
<1>2. CASE ~IsOut(w, b)
  <2> DEFINE v == [w EXCEPT !.chan[a][b] = Append(@, msg)]
  <2>1. Put(w, a, b, msg) = v
    BY <1>2 DEF Put
  <2>2. /\ v.member = w.member /\ v.peer = w.peer /\ v.pending = w.pending /\ v.lobby = w.lobby
        /\ v.chan = [w.chan EXCEPT ![a][b] = Append(w.chan[a][b], msg)]
    BY DEF IsWorld, ChansTyped
  <2>3. v = [member |-> v.member, peer |-> v.peer, pending |-> v.pending, chan |-> v.chan,
             lobby |-> v.lobby]
    BY DEF IsWorld
  <2> HIDE DEF v
  <2> QED BY <1>2, <2>1, <2>2, <2>3 DEF IsWorld
<1> QED BY <1>1, <1>2

\* A harmless message can be put in any channel between two members.
LEMMA PutIsCalm ==
  ASSUME NEW w, IInv(w), NEW a \in Members, NEW b \in Members, a # Host \/ b # Host,
         NEW msg \in Understood(b), Harmless(w, b, msg)
  PROVE  IInv(Put(w, a, b, msg))
<1> DEFINE v == Put(w, a, b, msg)
           s == Append(w.chan[a][b], msg)
<1>1. IsWorld(w) /\ ChansTyped(w.chan) /\ w.chan[Host][Host] = <<>>
  BY DEF IInv, TypeOK, HostOK
<1>2. /\ w.chan[a][b] \in Seq(Understood(b))
      /\ b = Host => Once(w.chan[a][b])
  BY CalmAsItIs DEF Calmly
<1>3. /\ s \in Seq(Understood(b)) /\ ToSet(s) = ToSet(w.chan[a][b]) \cup {msg}
      /\ b = Host => Once(s)
  BY <1>2, Appended DEF Harmless
<1>4. Calmly(w, a, b, s)
  BY <1>3 DEF Calmly, Way
<1> HIDE DEF s
<1>5. /\ IsWorld(v)
      /\ v.member = w.member /\ v.peer = w.peer /\ v.pending = w.pending /\ v.lobby = w.lobby
      /\ v.chan = w.chan \/ v.chan = [w.chan EXCEPT ![a][b] = s]
  BY <1>1, PutIs DEF s
<1>6. /\ ChansTyped(v.chan) /\ v.chan[Host][Host] = <<>>
      /\ \A x, y \in Members : v.chan[x][y] = w.chan[x][y] \/ (x = a /\ y = b /\ v.chan[x][y] = s)
  <2>1. CASE v.chan = w.chan
    BY <1>1, <2>1
  <2>2. CASE v.chan = [w.chan EXCEPT ![a][b] = s]
    <3> DEFINE f == w.chan
    <3>1. ChansTyped(f) /\ s \in Seq(Understood(b))
      BY <1>1, <1>3
    <3> HIDE DEF f, v
    <3>2. LET g == [f EXCEPT ![a][b] = s]
          IN  /\ ChansTyped(g) /\ g[a][b] = s
              /\ \A x, y \in Members : x # a \/ y # b => g[x][y] = f[x][y]
      BY <3>1, OneChan
    <3> QED BY <1>1, <2>2, <3>2, TheMembers DEF f
  <2> QED BY <1>5, <2>1, <2>2
<1> HIDE DEF v
<1>7. OnlyChans(w, v)
  BY <1>5, <1>6 DEF OnlyChans
<1>8. \A x, y \in Members : Calmly(w, x, y, v.chan[x][y])
  BY <1>4, <1>6, CalmAsItIs
<1> QED BY <1>7, <1>8, Calm DEF v

\* Putting a message in a channel changes nothing else.
LEMMA PutKeeps ==
  ASSUME NEW w, IInv(w), NEW a \in Members, NEW b \in Members, NEW msg
  PROVE  LET v == Put(w, a, b, msg)
         IN  v.member = w.member /\ v.peer = w.peer /\ v.pending = w.pending /\ v.lobby = w.lobby
<1>1. IsWorld(w) /\ ChansTyped(w.chan)
  BY DEF IInv, TypeOK
<1> DEFINE v == Put(w, a, b, msg)
<1>2. /\ v.member = w.member /\ v.peer = w.peer /\ v.pending = w.pending /\ v.lobby = w.lobby
      /\ ~IsOut(w, b) => v.chan = [w.chan EXCEPT ![a][b] = Append(w.chan[a][b], msg)]
  BY <1>1, PutIs
<1> QED BY <1>2

\* What Broadcast makes of a world.
LEMMA BroadcastIs ==
  ASSUME NEW w, IsWorld(w), ChansTyped(w.chan), NEW a \in Members, NEW msg,
         \A b \in player_pool(w, a) : msg \in Understood(b)
  PROVE  LET v == Broadcast(w, a, msg)
             reached == {b \in player_pool(w, a) : ~IsOut(w, b)}
         IN  /\ IsWorld(v) /\ ChansTyped(v.chan)
             /\ v.member = w.member /\ v.peer = w.peer /\ v.pending = w.pending /\ v.lobby = w.lobby
             /\ \A x, y \in Members :
                  v.chan[x][y] = IF x = a /\ y \in reached THEN Append(w.chan[x][y], msg)
                                 ELSE w.chan[x][y]
<1> DEFINE reached == {b \in player_pool(w, a) : ~IsOut(w, b)}
           row == [b \in Members |-> IF b \in reached THEN Append(w.chan[a][b], msg)
                                     ELSE w.chan[a][b]]
           v == [w EXCEPT !.chan = [w.chan EXCEPT ![a] = row]]
<1>1. Broadcast(w, a, msg) = v
  BY DEF Broadcast, IsWorld, ChansTyped
<1>2. \A b \in Members : row[b] \in Seq(Understood(b))
  <2>1. ASSUME NEW b \in Members PROVE row[b] \in Seq(Understood(b))
    <3>1. w.chan[a][b] \in Seq(Understood(b))
      BY DEF ChansTyped
    <3>2. CASE b \in reached
      <4>1. Append(w.chan[a][b], msg) \in Seq(Understood(b))
        BY <3>1, <3>2, Appended
      <4> QED BY <3>2, <4>1
    <3>3. CASE b \notin reached
      BY <3>1, <3>3
    <3> QED BY <3>2, <3>3
  <2> QED BY <2>1
<1>3. /\ v.member = w.member /\ v.peer = w.peer /\ v.pending = w.pending /\ v.lobby = w.lobby
      /\ v.chan = [w.chan EXCEPT ![a] = row]
      /\ IsWorld(v)
  <2> DEFINE g == [w.chan EXCEPT ![a] = row]
  <2>1. v = [w EXCEPT !.chan = g]
    OBVIOUS
  <2> HIDE DEF g, v
  <2>2. v.chan = g /\ IsWorld(v) /\ v.member = w.member /\ v.peer = w.peer
        /\ v.pending = w.pending /\ v.lobby = w.lobby
    BY <2>1 DEF IsWorld
  <2> QED BY <2>2 DEF g
<1> HIDE DEF v
<1>4. \A x, y \in Members :
        v.chan[x][y] = IF x = a /\ y \in reached THEN Append(w.chan[x][y], msg) ELSE w.chan[x][y]
  <2> HIDE DEF reached
  <2> QED BY <1>3 DEF ChansTyped
<1>5. ChansTyped(v.chan)
  <2>1. row = [b \in Members |-> row[b]]
    OBVIOUS
  <2> HIDE DEF row
  <2> QED BY <1>2, <1>3, <2>1, ZenonT(40) DEF ChansTyped
<1> QED BY <1>1, <1>3, <1>4, <1>5

\* A harmless message can be sent to all.
LEMMA BroadcastIsCalm ==
  ASSUME NEW w, IInv(w), NEW a \in Members, NEW msg,
         \A b \in Members : a # Host \/ b # Host => msg \in Understood(b) /\ Harmless(w, b, msg)
  PROVE  IInv(Broadcast(w, a, msg))
<1> DEFINE v == Broadcast(w, a, msg)
           reached == {b \in player_pool(w, a) : ~IsOut(w, b)}
<1>1. IsWorld(w) /\ ChansTyped(w.chan) /\ w.chan[Host][Host] = <<>> /\ w.peer[Host][Host] = None
  BY DEF IInv, TypeOK, HostOK
<1>2. \A b \in player_pool(w, a) : b \in Members /\ (a # Host \/ b # Host)
  BY <1>1 DEF player_pool, IsConnected
<1>3. /\ IsWorld(v) /\ ChansTyped(v.chan)
      /\ v.member = w.member /\ v.peer = w.peer /\ v.pending = w.pending /\ v.lobby = w.lobby
      /\ \A x, y \in Members :
           v.chan[x][y] = IF x = a /\ y \in reached THEN Append(w.chan[x][y], msg)
                          ELSE w.chan[x][y]
  <2>1. \A b \in player_pool(w, a) : msg \in Understood(b)
    BY <1>2
  <2> QED BY <1>1, <2>1, BroadcastIs
<1>4. \A b \in reached : b \in Members /\ (a # Host \/ b # Host)
  BY <1>2
<1> HIDE DEF v, reached
<1>5. v.chan[Host][Host] = <<>>
  BY <1>1, <1>3, <1>4, TheMembers
<1>6. ASSUME NEW x \in Members, NEW y \in Members PROVE Calmly(w, x, y, v.chan[x][y])
  <2>1. CASE x = a /\ y \in reached
    <3>1. w.chan[x][y] \in Seq(Understood(y)) /\ (y = Host => Once(w.chan[x][y]))
      BY CalmAsItIs DEF Calmly
    <3>2. msg \in Understood(y) /\ Harmless(w, y, msg)
      BY <1>4, <2>1
    <3> DEFINE s == Append(w.chan[x][y], msg)
    <3>3. /\ s \in Seq(Understood(y)) /\ ToSet(s) = ToSet(w.chan[x][y]) \cup {msg}
          /\ y = Host => Once(s)
      BY <3>1, <3>2, Appended DEF Harmless
    <3>4. Calmly(w, x, y, s)
      BY <3>2, <3>3 DEF Calmly, Way
    <3> QED BY <1>3, <2>1, <3>4
  <2>2. CASE ~(x = a /\ y \in reached)
    BY <1>3, <2>2, CalmAsItIs
  <2> QED BY <2>1, <2>2
<1>7. OnlyChans(w, v)
  BY <1>3, <1>5 DEF OnlyChans
<1> QED BY <1>6, <1>7, Calm DEF v

\* One channel may change calmly.
LEMMA OneIsCalm ==
  ASSUME NEW w, IInv(w), NEW a \in Members, NEW b \in Members, a # Host \/ b # Host,
         NEW s, Calmly(w, a, b, s)
  PROVE  IInv([w EXCEPT !.chan[a][b] = s])
<1> DEFINE f == w.chan
           g == [f EXCEPT ![a][b] = s]
           v == [w EXCEPT !.chan = g]
<1>1. IsWorld(w) /\ ChansTyped(w.chan) /\ w.chan[Host][Host] = <<>>
  BY DEF IInv, TypeOK, HostOK
<1>2. [w EXCEPT !.chan[a][b] = s] = v
  BY <1>1 DEF IsWorld, ChansTyped
<1>3. /\ v.member = w.member /\ v.peer = w.peer /\ v.pending = w.pending /\ v.lobby = w.lobby
      /\ v.chan = g /\ IsWorld(v)
  BY <1>1 DEF IsWorld
<1>4. /\ ChansTyped(g) /\ g[a][b] = s
      /\ \A x, y \in Members : x # a \/ y # b => g[x][y] = f[x][y]
  <2>1. s \in Seq(Understood(b)) /\ ChansTyped(f)
    BY <1>1 DEF Calmly
  <2> HIDE DEF f
  <2> QED BY <2>1, OneChan
<1> HIDE DEF g, v
<1>5. OnlyChans(w, v)
  BY <1>1, <1>3, <1>4, TheMembers DEF OnlyChans
<1>6. \A x, y \in Members : Calmly(w, x, y, v.chan[x][y])
  <2>1. ASSUME NEW x \in Members, NEW y \in Members PROVE Calmly(w, x, y, v.chan[x][y])
    <3>1. CASE x = a /\ y = b
      BY <1>3, <1>4, <3>1
    <3>2. CASE x # a \/ y # b
      <4>1. v.chan[x][y] = w.chan[x][y]
        BY <1>3, <1>4, <3>2
      <4> QED BY <4>1, CalmAsItIs
    <3> QED BY <3>1, <3>2
  <2> QED BY <2>1
<1> QED BY <1>2, <1>5, <1>6, Calm

\* A message is taken.
LEMMA TakingIsCalm ==
  ASSUME NEW w, IInv(w), NEW a \in Members, NEW b \in Members, w.chan[b][a] # <<>>
  PROVE  /\ IInv([w EXCEPT !.chan[b][a] = Tail(@)])
         /\ a # Host \/ b # Host
         /\ Head(w.chan[b][a]) \in Understood(a) /\ Head(w.chan[b][a]) \in Way(w, b, a)
<1>1. IsWorld(w) /\ ChansTyped(w.chan) /\ w.chan[Host][Host] = <<>>
  BY DEF IInv, TypeOK, HostOK
<1> DEFINE s == w.chan[b][a]
<1>2. s \in Seq(Understood(a)) /\ s # <<>> /\ (a = Host => Once(s))
  BY CalmAsItIs DEF Calmly
<1>3. a # Host \/ b # Host
  BY <1>1
<1>4. [w EXCEPT !.chan[b][a] = Tail(@)] = [w EXCEPT !.chan[b][a] = Tail(s)]
  BY <1>1 DEF IsWorld, ChansTyped
<1> HIDE DEF s
<1>5. /\ Tail(s) \in Seq(Understood(a)) /\ Head(s) \in Understood(a)
      /\ Head(s) \in ToSet(s) /\ ToSet(Tail(s)) \subseteq ToSet(s)
      /\ a = Host => Once(Tail(s))
  BY <1>2, TakenFirst
<1>6. Calmly(w, b, a, Tail(s))
  BY <1>5 DEF Calmly, Way, s
<1>7. IInv([w EXCEPT !.chan[b][a] = Tail(s)])
  BY <1>3, <1>6, OneIsCalm
<1> QED BY <1>3, <1>4, <1>5, <1>7 DEF Way, s

\* A channel is cleared.
LEMMA ClearingIsCalm ==
  ASSUME NEW w, IInv(w), NEW a \in Members, NEW b \in Members
  PROVE  IInv([w EXCEPT !.chan[a][b] = <<>>])
<1>1. CASE a = Host /\ b = Host
  <2>1. [w EXCEPT !.chan[a][b] = <<>>] = w
    BY <1>1 DEF IInv, TypeOK, IsWorld, HostOK, ChansTyped
  <2> QED BY <2>1
<1>2. CASE a # Host \/ b # Host
  <2>1. Calmly(w, a, b, <<>>)
    BY NothingThere DEF Calmly
  <2> QED BY <1>2, <2>1, OneIsCalm
<1> QED BY <1>1, <1>2

\* The host tells a newcomer whom to expect.
LEMMA PutAllIsCalm ==
  ASSUME NEW w, IInv(w), NEW c \in Clients, NEW msgs \in Seq(Understood(c)),
         \A m \in ToSet(msgs) : Harmless(w, c, m)
  PROVE  IInv(PutAll(w, Host, c, msgs))
<1>1. CASE IsOut(w, c)
  BY <1>1 DEF PutAll
<1>2. CASE ~IsOut(w, c)
  <2> DEFINE s == w.chan[Host][c]
  <2>1. c \in Members /\ Host \in Members /\ c # Host
    BY TheMembers
  <2>2. s \in Seq(Understood(c))
    BY <2>1, CalmAsItIs DEF Calmly
  <2>3. PutAll(w, Host, c, msgs) = [w EXCEPT !.chan[Host][c] = s \o msgs]
    BY <1>2, <2>1 DEF PutAll, IInv, TypeOK, IsWorld, ChansTyped
  <2> DEFINE t == s \o msgs
  <2> HIDE DEF s
  <2>4. s \o msgs \in Seq(Understood(c)) /\ ToSet(s \o msgs) \subseteq ToSet(s) \cup ToSet(msgs)
    BY <2>2, Joined
  <2>5. Calmly(w, Host, c, t)
    BY <2>1, <2>4 DEF Calmly, Way, s
  <2> HIDE DEF t
  <2>6. IInv([w EXCEPT !.chan[Host][c] = t])
    BY <2>1, <2>5, OneIsCalm
  <2> QED BY <2>3, <2>6 DEF t
<1> QED BY <1>1, <1>2

---------------------------------------------------------------------------
(* What a client does with its own state.                                  *)

\* Only c's own state differs.
OnlyOf(w, v, c) ==
  /\ TypeOK(v) /\ v.chan = w.chan /\ v.lobby = w.lobby
  /\ \A m \in Members : m # c =>
       v.member[m] = w.member[m] /\ v.peer[m] = w.peer[m] /\ v.pending[m] = w.pending[m]
\* The member o may become r.
MayBecome(o, r) ==
  /\ o.phase # "out" /\ r.nations = o.nations
  /\ \/ r.phase = o.phase
     \/ r.phase = "box"
     \/ o.phase = "setting" /\ r.phase = "playing"
     \/ o.phase = "away" /\ r.phase = "joining"
     \/ o.phase = "joining" /\ r.phase = "lobby"
\* c knows the host as player 1, if by an id.
KnowsHost(v, c) ==
  /\ v.peer[c][Host] # None => v.peer[c][Host].id <= 1
  /\ \A p \in v.pending[c] : p.who = Host => p.id <= 1

\* A client's own state changes: it goes on through its phases, and takes an id only that it
\* was sent.
LEMMA ClientMoves ==
  ASSUME NEW w, NEW v, IInv(w), NEW c \in Clients, OnlyOf(w, v, c),
         MayBecome(w.member[c], v.member[c]), KnowsHost(v, c),
         \/ v.member[c].my_id = w.member[c].my_id
         \/ HasId(w, c, v.member[c].my_id) /\ ~Setting(w, c)
  PROVE  IInv(v)
<1> USE TheMembers
<1>1. /\ v.chan = w.chan /\ v.lobby = w.lobby
      /\ \A m \in Members : m # c =>
           v.member[m] = w.member[m] /\ v.peer[m] = w.peer[m] /\ v.pending[m] = w.pending[m]
      /\ v.member[Host] = w.member[Host] /\ v.peer[Host] = w.peer[Host]
      /\ v.pending[Host] = w.pending[Host]
  BY DEF OnlyOf
<1>2. \A x, y \in Members : Way(v, x, y) = Way(w, x, y)
  BY <1>1 DEF Way
<1>3. \A x, y \in Members : \A k : Carries(v, x, y, k) <=> Carries(w, x, y, k)
  BY <1>2 DEF Carries
<1>4. \A m \in Members, id \in Ids : HasId(v, m, id) => HasId(w, m, id)
  <2>1. ASSUME NEW m \in Members, NEW id \in Ids, HasId(v, m, id) PROVE HasId(w, m, id)
    <3>1. CASE m = c
      BY <1>2, <2>1, <3>1 DEF HasId
    <3>2. CASE m # c
      BY <1>1, <1>2, <2>1, <3>2 DEF HasId
    <3> QED BY <3>1, <3>2
  <2> QED BY <2>1
<1>5. \A m \in Members : /\ Setting(v, m) => Setting(w, m)
                         /\ v.member[m].phase = "out" <=> w.member[m].phase = "out"
                         /\ v.member[m].nations = w.member[m].nations
                         /\ v.member[m].phase \in {"away", "joining"}
                              => w.member[m].phase \in {"away", "joining"}
  <2>1. ASSUME NEW m \in Members, m = c
        PROVE  /\ Setting(v, m) => Setting(w, m)
               /\ v.member[m].phase = "out" <=> w.member[m].phase = "out"
               /\ v.member[m].nations = w.member[m].nations
               /\ v.member[m].phase \in {"away", "joining"}
                    => w.member[m].phase \in {"away", "joining"}
    BY <2>1 DEF MayBecome, Setting
  <2> QED BY <1>1, <2>1 DEF Setting
<1>6. TypeOK(v)
  BY DEF OnlyOf
<1>7. HostOK(v)
  BY <1>1 DEF IInv, HostOK, IsOut
<1>8. ColoursOK(v)
  BY <1>1 DEF IInv, ColoursOK, IsOut
<1>9. NewcomersOK(v)
  BY <1>1, <1>3, <1>5 DEF IInv, NewcomersOK
<1>10. RegistryOK(v)
  <2>1. \A d \in Clients : IsNew(v, d) => IsNew(w, d)
    BY <1>3, <1>5 DEF IsNew
  <2> QED BY <1>1, <2>1 DEF IInv, RegistryOK, PeersWith
<1>11. ClientsOK(v)
  BY <1>1, <1>3, <1>4, <1>5 DEF IInv, ClientsOK
<1>12. HostIsOne(v)
  BY <1>1 DEF IInv, HostIsOne, KnowsHost
<1>13. IdsOK(v)
  <2>1. 1 \in Ids
    BY DEF Ids
  <2> QED BY <1>4, <1>5, <2>1 DEF IInv, IdsOK
<1>14. GameOK(v)
  <2>1. w.member[Host].phase = "lobby" => NotStarted(v)
    BY <1>3, <1>5 DEF IInv, GameOK, NotStarted
  <2>2. ASSUME NEW list \in Seq(Ids), Plays(w, list) PROVE Plays(v, list)
    BY <1>2, <1>5, <2>2 DEF Plays
  <2>3. OneGame(v)
    BY <2>2 DEF IInv, GameOK, OneGame
  <2>4. \A m \in Members : Setting(v, m) => v.member[m].my_id = w.member[m].my_id
    BY <1>1, <1>5
  <2> QED BY <1>1, <1>5, <2>1, <2>3, <2>4 DEF IInv, GameOK
<1> QED BY <1>6, <1>7, <1>8, <1>9, <1>10, <1>11, <1>12, <1>13, <1>14 DEF IInv

\* A record of a member keeps its type when one of its fields gets a value of its type.
LEMMA FieldChanged ==
  ASSUME NEW r \in MemberRecords
  PROVE  /\ \A x \in Phases : /\ [r EXCEPT !.phase = x] \in MemberRecords
                              /\ [r EXCEPT !.phase = x].phase = x
         /\ \A x \in Colours \cup {None} : [r EXCEPT !.colour = x] \in MemberRecords
         /\ \A x \in Nat : [r EXCEPT !.ended = x] \in MemberRecords
         /\ \A x \in BOOLEAN : [r EXCEPT !.ready = x] \in MemberRecords
         /\ \A x \in Seq(Ids) : /\ [r EXCEPT !.reg = x] \in MemberRecords
                                /\ [r EXCEPT !.reg = x].reg = x
         /\ \A x \in Nat, y \in Seq(Ids) : [r EXCEPT !.my_id = x, !.reg = y] \in MemberRecords
<1>1. \A x \in Phases : /\ [r EXCEPT !.phase = x] \in MemberRecords
                        /\ [r EXCEPT !.phase = x].phase = x
  BY DEF MemberRecords
<1>2. \A x \in Colours \cup {None} : [r EXCEPT !.colour = x] \in MemberRecords
  BY DEF MemberRecords
<1>3. \A x \in Nat : [r EXCEPT !.ended = x] \in MemberRecords
  BY DEF MemberRecords
<1>4. \A x \in BOOLEAN : [r EXCEPT !.ready = x] \in MemberRecords
  BY DEF MemberRecords
<1>5. \A x \in Seq(Ids) : /\ [r EXCEPT !.reg = x] \in MemberRecords
                          /\ [r EXCEPT !.reg = x].reg = x
  BY DEF MemberRecords
<1>6. \A x \in Nat, y \in Seq(Ids) : [r EXCEPT !.my_id = x, !.reg = y] \in MemberRecords
  BY DEF MemberRecords
<1> QED BY ONLY <1>1, <1>2, <1>3, <1>4, <1>5, <1>6

\* The same when a client takes an id.
LEMMA NumberedRecord ==
  ASSUME NEW r \in MemberRecords, NEW x \in Nat, NEW y \in Seq(Ids)
  PROVE  [r EXCEPT !.my_id = x, !.reg = y] \in MemberRecords
BY FieldChanged

\* One part of a world is replaced.
LEMMA MemberSet ==
  ASSUME NEW w, IsWorld(w), NEW x
  PROVE  LET v == [w EXCEPT !.member = x]
         IN  /\ IsWorld(v) /\ v.member = x /\ v.peer = w.peer /\ v.pending = w.pending
             /\ v.chan = w.chan /\ v.lobby = w.lobby
<1>1. [w EXCEPT !.member = x] =
        [member |-> x, peer |-> w.peer, pending |-> w.pending,
         chan |-> w.chan, lobby |-> w.lobby]
  BY DEF IsWorld
<1> QED BY <1>1 DEF IsWorld

\* The same for what members know of each other ...
LEMMA PeerSet ==
  ASSUME NEW w, IsWorld(w), NEW x
  PROVE  LET v == [w EXCEPT !.peer = x]
         IN  /\ IsWorld(v) /\ v.peer = x /\ v.member = w.member /\ v.pending = w.pending
             /\ v.chan = w.chan /\ v.lobby = w.lobby
<1>1. [w EXCEPT !.peer = x] =
        [member |-> w.member, peer |-> x, pending |-> w.pending,
         chan |-> w.chan, lobby |-> w.lobby]
  BY DEF IsWorld
<1> QED BY <1>1 DEF IsWorld

\* ... whom they expect ...
LEMMA PendingSet ==
  ASSUME NEW w, IsWorld(w), NEW x
  PROVE  LET v == [w EXCEPT !.pending = x]
         IN  /\ IsWorld(v) /\ v.pending = x /\ v.member = w.member /\ v.peer = w.peer
             /\ v.chan = w.chan /\ v.lobby = w.lobby
<1>1. [w EXCEPT !.pending = x] =
        [member |-> w.member, peer |-> w.peer, pending |-> x,
         chan |-> w.chan, lobby |-> w.lobby]
  BY DEF IsWorld
<1> QED BY <1>1 DEF IsWorld

\* ... what is on its way ...
LEMMA ChanSet ==
  ASSUME NEW w, IsWorld(w), NEW x
  PROVE  LET v == [w EXCEPT !.chan = x]
         IN  /\ IsWorld(v) /\ v.chan = x /\ v.member = w.member /\ v.peer = w.peer
             /\ v.pending = w.pending /\ v.lobby = w.lobby
<1>1. [w EXCEPT !.chan = x] =
        [member |-> w.member, peer |-> w.peer, pending |-> w.pending,
         chan |-> x, lobby |-> w.lobby]
  BY DEF IsWorld
<1> QED BY <1>1 DEF IsWorld

\* ... and the lobby.
LEMMA LobbySet ==
  ASSUME NEW w, IsWorld(w), NEW x
  PROVE  LET v == [w EXCEPT !.lobby = x]
         IN  /\ IsWorld(v) /\ v.lobby = x /\ v.member = w.member /\ v.peer = w.peer
             /\ v.pending = w.pending /\ v.chan = w.chan
<1>1. [w EXCEPT !.lobby = x] =
        [member |-> w.member, peer |-> w.peer, pending |-> w.pending,
         chan |-> w.chan, lobby |-> x]
  BY DEF IsWorld
<1> QED BY <1>1 DEF IsWorld

\* The state of one member changes in itself.
LEMMA MemberChanged ==
  ASSUME NEW w, IInv(w), NEW c \in Clients, NEW r \in MemberRecords,
         MayBecome(w.member[c], r),
         \/ r.my_id = w.member[c].my_id
         \/ HasId(w, c, r.my_id) /\ ~Setting(w, c)
  PROVE  IInv([w EXCEPT !.member[c] = r])
<1> DEFINE g == [w.member EXCEPT ![c] = r]
           v == [w EXCEPT !.member = g]
<1>1. TypeOK(w) /\ IsWorld(w) /\ MembersTyped(w.member)
  BY DEF IInv, TypeOK
<1>2. [w EXCEPT !.member[c] = r] = v
  BY <1>1 DEF IsWorld
<1>3. /\ v.chan = w.chan /\ v.peer = w.peer /\ v.pending = w.pending /\ v.lobby = w.lobby
      /\ v.member = g /\ IsWorld(v)
  <2> HIDE DEF g
  <2> QED BY <1>1 DEF IsWorld
<1>4. MembersTyped(g) /\ g[c] = r /\ \A m \in Members : m # c => g[m] = w.member[m]
  BY <1>1, TheMembers DEF MembersTyped
<1> HIDE DEF g, v
<1>5. OnlyOf(w, v, c)
  BY <1>1, <1>3, <1>4 DEF OnlyOf, TypeOK
<1>6. KnowsHost(v, c)
  BY <1>3 DEF IInv, HostIsOne, KnowsHost
<1> QED BY <1>2, <1>3, <1>4, <1>5, <1>6, ClientMoves

\* What a client knows of another changes.
LEMMA PeerChanged ==
  ASSUME NEW w, IInv(w), NEW c \in Clients, w.member[c].phase # "out", NEW n \in Members,
         NEW p \in Players \cup {None}, NEW q \in SUBSET Expected,
         p # None /\ n = Host => p.id <= 1,
         \A e \in q : e.who = Host => e.id <= 1
  PROVE  IInv([w EXCEPT !.peer[c][n] = p, !.pending[c] = q])
<1> DEFINE f == [w.peer EXCEPT ![c][n] = p]
           g == [w.pending EXCEPT ![c] = q]
           v == [w EXCEPT !.peer = f, !.pending = g]
<1>1. TypeOK(w) /\ IsWorld(w) /\ PeersTyped(w.peer) /\ PendingTyped(w.pending)
  BY DEF IInv, TypeOK
<1>2. [w EXCEPT !.peer[c][n] = p, !.pending[c] = q] = v
  BY <1>1 DEF IsWorld
<1>3. /\ v.chan = w.chan /\ v.member = w.member /\ v.lobby = w.lobby
      /\ v.peer = f /\ v.pending = g /\ IsWorld(v)
  <2> HIDE DEF f, g
  <2> DEFINE u == [w EXCEPT !.peer = f]
  <2>1. /\ u.chan = w.chan /\ u.member = w.member /\ u.lobby = w.lobby
        /\ u.peer = f /\ u.pending = w.pending /\ IsWorld(u)
    BY <1>1, PeerSet
  <2>2. v = [u EXCEPT !.pending = g]
    OBVIOUS
  <2> HIDE DEF u, v
  <2> QED BY <2>1, <2>2, PendingSet
<1>4. /\ PeersTyped(f) /\ PendingTyped(g)
      /\ \A m \in Members : m # c => f[m] = w.peer[m] /\ g[m] = w.pending[m]
      /\ g[c] = q /\ f[c][n] = p /\ \A m \in Members : m # n => f[c][m] = w.peer[c][m]
  BY <1>1, TheMembers DEF PeersTyped, PendingTyped
<1> HIDE DEF f, g, v
<1>5. OnlyOf(w, v, c)
  BY <1>1, <1>3, <1>4 DEF OnlyOf, TypeOK
<1>6. KnowsHost(v, c)
  BY <1>3, <1>4, TheMembers DEF IInv, HostIsOne, KnowsHost
<1>7. MayBecome(w.member[c], v.member[c])
  BY <1>3 DEF MayBecome
<1> QED BY <1>2, <1>3, <1>5, <1>6, <1>7, ClientMoves

\* The parts of a world have their types.
LEMMA Parts ==
  ASSUME NEW w, IInv(w)
  PROVE  /\ IsWorld(w)
         /\ \A m \in Members : w.member[m] \in MemberRecords /\ w.pending[m] \in SUBSET Expected
         /\ \A m, n \in Members : w.peer[m][n] \in Players \cup {None}
         /\ \A m, n \in Members : w.chan[m][n] \in Seq(Understood(n))
BY DEF IInv, TypeOK, MembersTyped, PeersTyped, PendingTyped, ChansTyped

\* A client changes what it knows of one other player.
LEMMA PeerOnly ==
  ASSUME NEW w, IInv(w), NEW c \in Clients, w.member[c].phase # "out", NEW n \in Members,
         NEW p \in Players \cup {None}, p # None /\ n = Host => p.id <= 1
  PROVE  LET v == [w EXCEPT !.peer[c][n] = p]
         IN  IInv(v) /\ v.member = w.member /\ v.chan = w.chan
<1>1. /\ c \in Members /\ IsWorld(w) /\ w.pending[c] \in SUBSET Expected
      /\ PeersTyped(w.peer) /\ PendingTyped(w.pending)
      /\ \A e \in w.pending[c] : e.who = Host => e.id <= 1
  BY TheMembers, Parts DEF IInv, TypeOK, HostIsOne
<1> DEFINE f == [w.peer EXCEPT ![c][n] = p]
           v == [w EXCEPT !.peer = f]
<1>2. [w EXCEPT !.peer[c][n] = p] = v
  BY <1>1 DEF IsWorld
<1>3. IsWorld(v) /\ v.peer = f /\ v.member = w.member /\ v.pending = w.pending /\ v.chan = w.chan
  <2> HIDE DEF f
  <2> QED BY <1>1, PeerSet
<1>4. [w EXCEPT !.peer[c][n] = p, !.pending[c] = w.pending[c]] = v
  <2>1. w.pending = [w.pending EXCEPT ![c] = w.pending[c]]
    BY <1>1 DEF PendingTyped
  <2>2. v = [v EXCEPT !.pending = w.pending]
    <3> HIDE DEF v
    <3> QED BY <1>3 DEF IsWorld
  <2>3. [w EXCEPT !.peer[c][n] = p, !.pending[c] = w.pending[c]]
          = [v EXCEPT !.pending = [w.pending EXCEPT ![c] = w.pending[c]]]
    BY <1>1 DEF IsWorld
  <2> QED BY <2>1, <2>2, <2>3
<1> HIDE DEF v, f
<1>5. IInv(v)
  BY <1>1, <1>4, PeerChanged
<1> QED BY <1>2, <1>3, <1>5

\* Whom a client expects changes.
LEMMA PendingOnly ==
  ASSUME NEW w, IInv(w), NEW c \in Clients, w.member[c].phase # "out",
         NEW q \in SUBSET Expected, \A e \in q : e.who = Host => e.id <= 1
  PROVE  LET v == [w EXCEPT !.pending[c] = q]
         IN  IInv(v) /\ v.member = w.member /\ v.chan = w.chan
<1>1. /\ c \in Members /\ IsWorld(w) /\ w.peer[c][c] \in Players \cup {None}
      /\ PeersTyped(w.peer) /\ PendingTyped(w.pending) /\ c # Host
  BY TheMembers, Parts DEF IInv, TypeOK
<1> DEFINE g == [w.pending EXCEPT ![c] = q]
           v == [w EXCEPT !.pending = g]
<1>2. [w EXCEPT !.pending[c] = q] = v
  BY <1>1 DEF IsWorld
<1>3. v.member = w.member /\ v.chan = w.chan
  <2> HIDE DEF g
  <2> QED BY <1>1, PendingSet
<1>4. [w EXCEPT !.peer[c][c] = w.peer[c][c], !.pending[c] = q] = v
  <2>1. w.peer = [w.peer EXCEPT ![c][c] = w.peer[c][c]]
    BY <1>1 DEF PeersTyped
  <2>2. w = [w EXCEPT !.peer = w.peer]
    BY <1>1 DEF IsWorld
  <2>3. w = [w EXCEPT !.peer[c][c] = w.peer[c][c]]
    BY <2>1, <2>2, <1>1 DEF IsWorld
  <2>4. [w EXCEPT !.peer[c][c] = w.peer[c][c], !.pending[c] = q]
          = [[w EXCEPT !.peer[c][c] = w.peer[c][c]] EXCEPT !.pending[c] = q]
    OBVIOUS
  <2> QED BY <1>2, <2>3, <2>4
<1> HIDE DEF v, g
<1>5. IInv(v)
  BY <1>1, <1>4, PeerChanged
<1> QED BY <1>2, <1>3, <1>5

\* A client contacts another member.
LEMMA ContactIsCalm ==
  ASSUME NEW w, IInv(w), NEW c \in Clients, w.member[c].phase # "out", NEW n \in Members,
         NEW id \in Nat, n = Host => id <= 1
  PROVE  IInv(Contact(w, c, n, id)) /\ Contact(w, c, n, id).member = w.member
<1> DEFINE p == Player(id, TRUE, "connecting")
           s == <<[msg |-> IF IsOut(w, n) THEN "DISCONNECT" ELSE "CONNECT"]>>
           u == [w EXCEPT !.peer[c][n] = p]
           v == [u EXCEPT !.chan[n][c] = s]
<1>1. c \in Members /\ c # Host
  BY TheMembers
<1>2. p \in Players \cup {None} /\ p.id = id
  BY DEF Player, Players
<1>3. Contact(w, c, n, id) = v
  BY DEF Contact
<1>4. Calmly(w, n, c, s)
  <2> DEFINE e == [msg |-> IF IsOut(w, n) THEN "DISCONNECT" ELSE "CONNECT"]
  <2>1. e \in Understood(c) /\ Harmless(w, c, e)
    BY <1>1 DEF Understood, ToClient, Events, Harmless
  <2> HIDE DEF e
  <2>2. s \in Seq(Understood(c)) /\ ToSet(s) = {e}
    BY <2>1, OneThere DEF e
  <2> HIDE DEF s
  <2> QED BY <1>1, <2>1, <2>2 DEF Calmly
<1> HIDE DEF p, s
<1>5. IInv(u) /\ u.member = w.member /\ u.chan = w.chan
  BY <1>2, PeerOnly
<1> HIDE DEF u
<1>6. Calmly(u, n, c, s)
  BY <1>4, <1>5 DEF Calmly, Harmless, Way
<1>7. IInv(v)
  BY <1>1, <1>5, <1>6, OneIsCalm
<1>8. v.member = u.member
  BY <1>5 DEF IInv, TypeOK, IsWorld
<1> QED BY <1>3, <1>5, <1>7, <1>8

\* A client hears of a player.
LEMMA AddPlayerIsCalm ==
  ASSUME NEW w, IInv(w), NEW c \in Clients, w.member[c].phase # "out",
         NEW id \in Ids, NEW who \in Members, who = Host => id = 1, NEW contact
  PROVE  LET v == add_player(w, c, id, who, contact)
         IN  IInv(v) /\ v.member = w.member
<1> DEFINE found == IF PeersWith(w, c, id) # {} THEN PeersWith(w, c, id)
                    ELSE {n \in {who} : w.peer[c][n] # None}
           n == CHOOSE n \in found : TRUE
           v == add_player(w, c, id, who, contact)
<1>1. /\ c \in Members /\ c # Host /\ id \in Nat /\ IsWorld(w) /\ id # 0
      /\ w.pending[c] \in SUBSET Expected
  BY TheMembers, Parts DEF Ids
<1>2. CASE found # {}
  <2>1. n \in found
    BY <1>2
  <2>2. n \in Members /\ w.peer[c][n] # None /\ (n = Host => id <= 1)
    <3>1. CASE PeersWith(w, c, id) # {}
      <4>1. n \in PeersWith(w, c, id)
        BY <2>1, <3>1
      <4> HIDE DEF n
      <4>2. n \in Members /\ w.peer[c][n] # None /\ w.peer[c][n].id = id
        BY <4>1 DEF PeersWith
      <4> QED BY <4>2 DEF IInv, HostIsOne
    <3>2. CASE PeersWith(w, c, id) = {}
      <4>1. n \in {m \in {who} : w.peer[c][m] # None}
        BY <2>1, <3>2
      <4> HIDE DEF n
      <4>2. n = who /\ w.peer[c][n] # None
        BY <4>1
      <4> QED BY <4>2 DEF Ids
    <3> QED BY <3>1, <3>2
  <2> DEFINE p == [w.peer[c][n] EXCEPT !.id = id, !.authorized = TRUE]
  <2>3. v = [w EXCEPT !.peer[c][n].id = id, !.peer[c][n].authorized = TRUE]
    BY <1>2 DEF add_player
  <2> HIDE DEF n, v
  <2>4. w.peer[c][n] \in Players
    BY <1>1, <2>2, Parts
  <2>5. p \in Players \cup {None} /\ p.id = id
    BY <1>1, <2>4 DEF Players
  <2>6. [w EXCEPT !.peer[c][n].id = id, !.peer[c][n].authorized = TRUE] = [w EXCEPT !.peer[c][n] = p]
    BY <1>1, <2>2, Parts DEF IsWorld, IInv, TypeOK, PeersTyped
  <2>7. p # None /\ n = Host => p.id <= 1
    BY <2>2, <2>5
  <2> HIDE DEF p
  <2>8. LET u == [w EXCEPT !.peer[c][n] = p] IN IInv(u) /\ u.member = w.member
    BY <2>2, <2>5, <2>7, PeerOnly
  <2> QED BY <2>3, <2>6, <2>8 DEF v
<1>3. CASE found = {} /\ contact
  <2>1. v = Contact(w, c, who, id)
    BY <1>3 DEF add_player
  <2> QED BY <1>1, <2>1, ContactIsCalm
<1>4. CASE found = {} /\ ~contact /\ Cardinality(w.pending[c]) >= MAX_NATION
  BY <1>4 DEF add_player
<1>5. CASE found = {} /\ ~contact /\ ~(Cardinality(w.pending[c]) >= MAX_NATION)
  <2> DEFINE q == w.pending[c] \cup {[id |-> id, who |-> who]}
  <2>1. v = [w EXCEPT !.pending[c] = q]
    BY <1>1, <1>5 DEF add_player, IsWorld, IInv, TypeOK, PendingTyped
  <2>2. q \in SUBSET Expected /\ \A e \in q : e.who = Host => e.id <= 1
    BY <1>1 DEF Expected, IInv, HostIsOne
  <2> HIDE DEF q
  <2> QED BY <2>1, <2>2, PendingOnly
<1> QED BY <1>2, <1>3, <1>4, <1>5

\* A client disconnects another client.
LEMMA DisconnectIsCalm ==
  ASSUME NEW w, IInv(w), NEW c \in Clients, w.member[c].phase # "out", NEW n \in Clients
  PROVE  LET v == Disconnect(w, c, n)
         IN  IInv(v) /\ v.member = w.member
<1> DEFINE told == IF IsConnected(w, c, n) THEN Put(w, c, n, [msg |-> "DISCONNECT"]) ELSE w
           u == [told EXCEPT !.peer[c][n] = None]
           v == [u EXCEPT !.chan[n][c] = <<>>]
<1>1. c \in Members /\ c # Host /\ n \in Members /\ n # Host
  BY TheMembers
<1>2. IInv(told) /\ told.member = w.member
  <2> DEFINE e == [msg |-> "DISCONNECT"]
  <2>1. e \in Understood(n) /\ Harmless(w, n, e)
    BY <1>1 DEF Understood, ToClient, Events, Harmless
  <2> HIDE DEF e
  <2>2. IInv(Put(w, c, n, e)) /\ Put(w, c, n, e).member = w.member
    BY <1>1, <2>1, PutIsCalm, PutKeeps
  <2> QED BY <2>2 DEF e
<1>3. Disconnect(w, c, n) = v
  BY DEF Disconnect
<1> HIDE DEF told
<1>4. IInv(u) /\ u.member = w.member
  BY <1>1, <1>2, PeerOnly
<1> HIDE DEF u
<1>5. IInv(v)
  BY <1>1, <1>4, ClearingIsCalm
<1>6. v.member = u.member
  BY <1>4 DEF IInv, TypeOK, IsWorld
<1> QED BY <1>3, <1>4, <1>5, <1>6

\* A client hears that a player has gone.
LEMMA DeletePlayerIsCalm ==
  ASSUME NEW w, IInv(w), NEW c \in Clients, w.member[c].phase # "out", NEW id \in Ids \ {1}
  PROVE  LET v == delete_player(w, c, id)
         IN  IInv(v) /\ v.member = w.member
<1>1. CASE PeersWith(w, c, id) # {}
  <2> DEFINE n == CHOOSE n \in PeersWith(w, c, id) : TRUE
  <2>1. n \in PeersWith(w, c, id)
    BY <1>1
  <2>2. n \in Members /\ w.peer[c][n] # None /\ w.peer[c][n].id = id
    BY <2>1 DEF PeersWith
  <2>3. n # Host
    <3>1. id \in Nat /\ id >= 2
      BY DEF Ids
    <3> HIDE DEF n
    <3>2. w.peer[c][Host] # None => w.peer[c][Host].id <= 1
      BY DEF IInv, HostIsOne
    <3> QED BY <2>2, <3>1, <3>2
  <2>4. delete_player(w, c, id) = Disconnect(w, c, n)
    BY <1>1 DEF delete_player
  <2> HIDE DEF n
  <2> QED BY <2>2, <2>3, <2>4, DisconnectIsCalm, TheMembers
<1>2. CASE PeersWith(w, c, id) = {}
  <2> DEFINE q == {p \in w.pending[c] : p.id # id}
  <2>1. c \in Members /\ IsWorld(w) /\ w.pending[c] \in SUBSET Expected
    BY TheMembers, Parts
  <2>2. delete_player(w, c, id) = [w EXCEPT !.pending[c] = q]
    BY <1>2, <2>1 DEF delete_player, IsWorld, IInv, TypeOK, PendingTyped
  <2>3. q \in SUBSET Expected /\ \A e \in q : e.who = Host => e.id <= 1
    BY <2>1 DEF IInv, HostIsOne
  <2> HIDE DEF q
  <2> QED BY <2>2, <2>3, PendingOnly
<1> QED BY <1>1, <1>2

\* A client finds another member connected, or that the connection is lost.
LEMMA ClientConnected ==
  ASSUME NEW w, IInv(w), NEW c \in Clients, ~IsOut(w, c), NEW b \in Members,
         IsPregame(w, c) \/ w.member[Host].phase # "lobby"
  PROVE  LET v == Connected(w, c, b)
         IN  IInv(v) /\ v.member = w.member
<1> DEFINE awaited == {p \in w.pending[c] : p.who = b}
           v == Connected(w, c, b)
<1>1. /\ c \in Members /\ c # Host /\ w.member[c].phase # "out"
      /\ IsWorld(w) /\ w.pending[c] \in SUBSET Expected
      /\ \A m \in Members : w.peer[c][m] \in Players \cup {None}
  BY TheMembers, Parts DEF IsOut
<1>2. ASSUME NEW u, IInv(u), u.member = w.member, NEW k \in {"CONNECT", "DISCONNECT"},
             k = "CONNECT" \/ w.member[Host].phase # "lobby"
      PROVE  IInv(Put(u, c, b, [msg |-> k])) /\ Put(u, c, b, [msg |-> k]).member = w.member
  <2> DEFINE e == [msg |-> k]
  <2>1. e \in Understood(b) /\ Harmless(u, b, e)
    BY <1>2 DEF Understood, ToClient, ToHost, Events, Harmless
  <2> HIDE DEF e
  <2>2. IInv(Put(u, c, b, e)) /\ Put(u, c, b, e).member = w.member
    BY <1>1, <1>2, <2>1, PutIsCalm, PutKeeps
  <2> QED BY <2>2 DEF e
<1>3. CASE w.peer[c][b] # None
  <2> DEFINE p == [w.peer[c][b] EXCEPT !.state = "connected"]
             u == [w EXCEPT !.peer[c][b] = p]
  <2>1. p \in Players \cup {None} /\ (b = Host => p.id <= 1)
    <3>1. w.peer[c][b] \in Players
      BY <1>1, <1>3
    <3>2. p \in Players /\ p.id = w.peer[c][b].id
      BY <3>1 DEF Players
    <3> QED BY <1>3, <3>2 DEF IInv, HostIsOne
  <2>2. [w EXCEPT !.peer[c][b].state = "connected"] = u
    BY <1>1 DEF IsWorld, IInv, TypeOK, PeersTyped
  <2> HIDE DEF p
  <2>3. IInv(u) /\ u.member = w.member
    <3>1. p # None /\ b = Host => p.id <= 1
      BY <2>1
    <3>2. w.member[c].phase # "out"
      BY <1>1
    <3> QED BY <2>1, <3>1, <3>2, PeerOnly
  <2>4. v = Put(u, c, b, [msg |-> "CONNECT"])
    BY <1>3, <2>2 DEF Connected
  <2> HIDE DEF u
  <2> QED BY <1>2, <2>3, <2>4
<1>4. CASE w.peer[c][b] = None /\ awaited # {}
  <2> DEFINE p == CHOOSE p \in awaited : TRUE
             d == Player(p.id, TRUE, "connected")
             q == w.pending[c] \ {p}
  <2>1. p \in w.pending[c] /\ p.who = b
    BY <1>4
  <2>2. v = [w EXCEPT !.pending[c] = w.pending[c] \ {p}, !.peer[c][b] = d]
    BY <1>1, <1>4 DEF Connected, IsWorld, IInv, TypeOK, PendingTyped
  <2> HIDE DEF p
  <2>3. d \in Players \cup {None} /\ (b = Host => d.id <= 1)
    BY <1>1, <2>1 DEF Player, Players, Expected, IInv, HostIsOne
  <2>4. q \in SUBSET Expected /\ \A e \in q : e.who = Host => e.id <= 1
    BY <1>1 DEF IInv, HostIsOne
  <2> HIDE DEF d, q
  <2> DEFINE u == [w EXCEPT !.pending[c] = q]
  <2>5. IInv(u) /\ u.member = w.member
    BY <1>1, <2>4, PendingOnly
  <2>6. v = [u EXCEPT !.peer[c][b] = d]
    BY <2>2 DEF q
  <2> HIDE DEF u
  <2> QED BY <1>1, <2>3, <2>5, <2>6, PeerOnly
<1>5. CASE w.peer[c][b] = None /\ awaited = {} /\ IsPregame(w, c)
  <2> DEFINE d == Player(0, FALSE, "connected")
  <2>1. v = [w EXCEPT !.peer[c][b] = d]
    BY <1>1, <1>5 DEF Connected
  <2>2. d \in Players \cup {None} /\ d.id = 0
    BY DEF Player, Players
  <2> HIDE DEF d
  <2> QED BY <1>1, <2>1, <2>2, PeerOnly
<1>6. CASE w.peer[c][b] = None /\ awaited = {} /\ ~IsPregame(w, c)
  <2>1. v = Put(w, c, b, [msg |-> "DISCONNECT"])
    BY <1>1, <1>6 DEF Connected
  <2> QED BY <1>2, <1>6, <2>1
<1> QED BY <1>3, <1>4, <1>5, <1>6

\* A client's connection with another member ends.
LEMMA ClientDisconnected ==
  ASSUME NEW w, IInv(w), NEW c \in Clients, ~IsOut(w, c), NEW b \in Members
  PROVE  LET v == Disconnected(w, c, b)
         IN  IInv(v) /\ v.member = w.member
<1>1. /\ c \in Members /\ c # Host /\ w.member[c].phase # "out"
      /\ IsWorld(w) /\ w.pending[c] \in SUBSET Expected
      /\ w.peer[c][b] \in Players \cup {None}
  BY TheMembers, Parts DEF IsOut
<1> DEFINE p == w.peer[c][b]
           kept == IF p # None /\ p.authorized /\ c # Host /\ Cardinality(w.pending[c]) < MAX_NATION
                   THEN {[id |-> p.id, who |-> b]} ELSE {}
           q == w.pending[c] \cup kept
           u == [w EXCEPT !.peer[c][b] = None]
<1>2. Disconnected(w, c, b) = [u EXCEPT !.pending[c] = q]
  BY <1>1 DEF Disconnected, IsWorld, IInv, TypeOK, PendingTyped
<1>3. q \in SUBSET Expected /\ \A e \in q : e.who = Host => e.id <= 1
  <2>1. \A e \in kept : e \in Expected /\ (e.who = Host => e.id <= 1)
    <3>1. p # None => [id |-> p.id, who |-> b] \in Expected /\ (b = Host => p.id <= 1)
      BY <1>1 DEF Players, Expected, IInv, HostIsOne
    <3> QED BY <3>1
  <2> HIDE DEF kept
  <2> QED BY <1>1, <2>1 DEF IInv, HostIsOne
<1> HIDE DEF q
<1>4. IInv(u) /\ u.member = w.member
  <2>1. w.member[c].phase # "out" /\ None \in Players \cup {None}
    BY <1>1
  <2> QED BY <2>1, PeerOnly
<1> HIDE DEF u
<1>5. u.member[c].phase # "out"
  BY <1>1, <1>4
<1>6. LET v == [u EXCEPT !.pending[c] = q] IN IInv(v) /\ v.member = u.member
  BY <1>3, <1>4, <1>5, PendingOnly
<1> QED BY <1>2, <1>4, <1>6

\* What Gone makes of a world: nothing is left of a, and those who know it will hear of it.
LEMMA GoneIs ==
  ASSUME NEW w, IInv(w), NEW a \in Members
  PROVE  LET v == Gone(w, a)
         IN  /\ TypeOK(v) /\ v.lobby = w.lobby /\ v.chan[Host][Host] = <<>>
             /\ v.member[a].phase = "out" /\ v.member[a].my_id = 0
             /\ v.pending[a] = {} /\ \A n \in Members : v.peer[a][n] = None
             /\ \A m \in Members : m # a =>
                  v.member[m] = w.member[m] /\ v.peer[m] = w.peer[m] /\ v.pending[m] = w.pending[m]
             /\ \A x, y \in Members : \A m \in Way(v, x, y) :
                  m \in Way(w, x, y) \/ (x = a /\ m = [msg |-> "DISCONNECT"])
             /\ \A x \in Members : Once(v.chan[x][Host])
<1> DEFINE e == [msg |-> "DISCONNECT"]
           Ending(b) == CASE w.peer[b][a] = None -> <<>>
                          [] w.peer[b][a] # None /\ w.peer[b][a].state = "connecting" -> <<e>>
                          [] OTHER -> Append(w.chan[a][b], e)
           r == [phase |-> "out", my_id |-> 0, colour |-> None, ready |-> FALSE,
                 reg |-> <<>>, ended |-> 0, nations |-> <<>>]
           row == [b \in Members |-> None]
           f == [x \in Members |-> [y \in Members |->
                   IF y = a THEN <<>> ELSE IF x = a THEN Ending(y) ELSE w.chan[x][y]]]
           v == Gone(w, a)
           fm == [w.member EXCEPT ![a] = r]
           fp == [w.peer EXCEPT ![a] = row]
           fq == [w.pending EXCEPT ![a] = {}]
<1>1. /\ IsWorld(w) /\ MembersTyped(w.member) /\ PeersTyped(w.peer) /\ PendingTyped(w.pending)
      /\ ChansTyped(w.chan) /\ LobbyTyped(w.lobby)
  BY DEF IInv, TypeOK
<1>2. v = [w EXCEPT !.member = fm, !.peer = fp, !.pending = fq, !.chan = f]
  BY <1>1 DEF Gone, IsWorld
<1>3. /\ v.member = fm /\ v.peer = fp /\ v.pending = fq /\ v.chan = f /\ v.lobby = w.lobby
      /\ IsWorld(v)
  <2> DEFINE v1 == [w EXCEPT !.member = fm]
             v2 == [v1 EXCEPT !.peer = fp]
             v3 == [v2 EXCEPT !.pending = fq]
             v4 == [v3 EXCEPT !.chan = f]
  <2>1. v = v4
    BY <1>2
  <2> HIDE DEF fm, fp, fq, f, v
  <2>2. /\ IsWorld(v1) /\ v1.member = fm /\ v1.peer = w.peer /\ v1.pending = w.pending
        /\ v1.chan = w.chan /\ v1.lobby = w.lobby
    BY <1>1, MemberSet
  <2> HIDE DEF v1
  <2>3. /\ IsWorld(v2) /\ v2.member = fm /\ v2.peer = fp /\ v2.pending = w.pending
        /\ v2.chan = w.chan /\ v2.lobby = w.lobby
    BY <2>2, PeerSet
  <2> HIDE DEF v2
  <2>4. /\ IsWorld(v3) /\ v3.member = fm /\ v3.peer = fp /\ v3.pending = fq
        /\ v3.chan = w.chan /\ v3.lobby = w.lobby
    BY <2>3, PendingSet
  <2> HIDE DEF v3
  <2>5. /\ IsWorld(v4) /\ v4.member = fm /\ v4.peer = fp /\ v4.pending = fq
        /\ v4.chan = f /\ v4.lobby = w.lobby
    BY <2>4, ChanSet
  <2> QED BY <2>1, <2>5
<1> HIDE DEF v
<1>4. r \in MemberRecords
  BY DEF MemberRecords, Phases
<1>5. /\ MembersTyped(fm) /\ fm[a] = r /\ \A m \in Members : m # a => fm[m] = w.member[m]
  <2> HIDE DEF r
  <2> QED BY <1>1, <1>4 DEF MembersTyped
<1>6. /\ PeersTyped(fp) /\ (\A n \in Members : fp[a][n] = None)
      /\ \A m \in Members : m # a => fp[m] = w.peer[m]
  BY <1>1 DEF PeersTyped
<1>7. /\ PendingTyped(fq) /\ fq[a] = {} /\ \A m \in Members : m # a => fq[m] = w.pending[m]
  BY <1>1 DEF PendingTyped
<1>8. ASSUME NEW y \in Members
      PROVE  /\ Ending(y) \in Seq(Understood(y))
             /\ \A m \in ToSet(Ending(y)) : m \in Way(w, a, y) \/ m = e
             /\ y = Host => Once(Ending(y))
  <2>1. e \in Understood(y) /\ e.msg # "NEW_PLAYER"
    BY DEF Understood, ToHost, ToClient, Events
  <2>2. w.chan[a][y] \in Seq(Understood(y)) /\ (y = Host => Once(w.chan[a][y]))
    BY CalmAsItIs DEF Calmly
  <2> HIDE DEF e
  <2>3. /\ <<>> \in Seq(Understood(y)) /\ ToSet(<<>>) = {} /\ Once(<<>>)
    BY NothingThere
  <2>4. /\ <<e>> \in Seq(Understood(y)) /\ ToSet(<<e>>) = {e} /\ Once(<<e>>)
    BY <2>1, OneThere
  <2> DEFINE s == Append(w.chan[a][y], e)
  <2>5. /\ s \in Seq(Understood(y)) /\ ToSet(s) = ToSet(w.chan[a][y]) \cup {e}
        /\ y = Host => Once(s)
    BY <2>1, <2>2, Appended
  <2>6. Ending(y) = <<>> \/ Ending(y) = <<e>> \/ Ending(y) = s
    OBVIOUS
  <2> HIDE DEF Ending, s
  <2> QED BY <2>3, <2>4, <2>5, <2>6 DEF Way
<1> HIDE DEF Ending, r, fm, fp, fq
<1>9. ASSUME NEW x \in Members, NEW y \in Members
      PROVE  /\ f[x][y] \in Seq(Understood(y))
             /\ \A m \in ToSet(f[x][y]) : m \in Way(w, x, y) \/ (x = a /\ m = e)
             /\ y = Host => Once(f[x][y])
  <2>1. CASE y = a
    <3>1. f[x][y] = <<>>
      BY <2>1
    <3> HIDE DEF f
    <3> QED BY <3>1, NothingThere
  <2>2. CASE y # a /\ x = a
    <3>1. f[x][y] = Ending(y)
      BY <2>2
    <3> HIDE DEF f, e
    <3> QED BY <2>2, <3>1, <1>8
  <2>3. CASE y # a /\ x # a
    <3>1. f[x][y] = w.chan[x][y]
      BY <2>3
    <3> HIDE DEF f, e
    <3> QED BY <3>1, CalmAsItIs DEF Calmly, Way
  <2> QED BY <2>1, <2>2, <2>3
<1>10. f = [x \in Members |-> [y \in Members |-> f[x][y]]]
  OBVIOUS
<1>11. f[Host][Host] = <<>>
  <2>1. w.chan[Host][Host] = <<>>
    BY DEF IInv, HostOK
  <2> QED BY <2>1, TheMembers
<1> HIDE DEF f
<1>12. ChansTyped(f)
  BY <1>9, <1>10 DEF ChansTyped
<1>13. TypeOK(v)
  BY <1>1, <1>3, <1>5, <1>6, <1>7, <1>12 DEF TypeOK
<1>14. r.phase = "out" /\ r.my_id = 0
  BY DEF r
<1>15. \A x, y \in Members : \A m \in Way(v, x, y) : m \in Way(w, x, y) \/ (x = a /\ m = e)
  BY <1>3, <1>9 DEF Way
<1>16. \A x \in Members : Once(v.chan[x][Host])
  BY <1>3, <1>9, TheMembers
<1>17. \A m \in Members : m # a =>
         v.member[m] = w.member[m] /\ v.peer[m] = w.peer[m] /\ v.pending[m] = w.pending[m]
  BY <1>3, <1>5, <1>6, <1>7
<1>18. /\ v.lobby = w.lobby /\ v.chan[Host][Host] = <<>>
       /\ v.member[a].phase = "out" /\ v.member[a].my_id = 0
       /\ v.pending[a] = {} /\ \A n \in Members : v.peer[a][n] = None
  BY <1>3, <1>5, <1>6, <1>7, <1>11, <1>14
<1> QED BY <1>13, <1>15, <1>16, <1>17, <1>18 DEF v

\* A member may go at any time.
LEMMA GoneIsCalm ==
  ASSUME NEW w, IInv(w), NEW a \in Members
  PROVE  IInv(Gone(w, a))
<1> USE TheMembers
<1> DEFINE v == Gone(w, a)
<1>1. /\ TypeOK(v) /\ v.lobby = w.lobby /\ v.chan[Host][Host] = <<>>
      /\ v.member[a].phase = "out" /\ v.member[a].my_id = 0
      /\ v.pending[a] = {} /\ \A n \in Members : v.peer[a][n] = None
      /\ \A m \in Members : m # a =>
           v.member[m] = w.member[m] /\ v.peer[m] = w.peer[m] /\ v.pending[m] = w.pending[m]
      /\ \A x, y \in Members : \A m \in Way(v, x, y) :
           m \in Way(w, x, y) \/ (x = a /\ m = [msg |-> "DISCONNECT"])
      /\ \A x \in Members : Once(v.chan[x][Host])
  BY GoneIs
<1> HIDE DEF v
<1>2. \A x, y \in Members : \A k : k # "DISCONNECT" /\ Carries(v, x, y, k) => Carries(w, x, y, k)
  BY <1>1 DEF Carries
<1>3. \A x, y \in Members : \A k : x # a /\ Carries(v, x, y, k) => Carries(w, x, y, k)
  BY <1>1 DEF Carries
<1>4. \A m \in Members, id \in Ids : HasId(v, m, id) => HasId(w, m, id)
  <2>1. ASSUME NEW m \in Members, NEW id \in Ids, HasId(v, m, id) PROVE HasId(w, m, id)
    <3>1. CASE v.member[m].my_id = id
      BY <1>1, <3>1 DEF HasId, Ids
    <3>2. ASSUME NEW x \in Members, [msg |-> "PLAYER_ID", id |-> id] \in Way(v, x, m)
          PROVE  HasId(w, m, id)
      BY <1>1, <3>2 DEF HasId
    <3> QED BY <2>1, <3>1, <3>2 DEF HasId
  <2> QED BY <2>1
<1>5. \A m \in Members : v.member[m].phase # "out" => m # a /\ v.member[m] = w.member[m]
  BY <1>1
<1>6. \A m \in Members : Setting(v, m) => Setting(w, m) /\ v.member[m] = w.member[m]
  BY <1>1 DEF Setting
<1>7. HostOK(v)
  <2>1. CASE a = Host
    BY <1>1, <2>1 DEF HostOK, IsOut
  <2>2. CASE a # Host
    BY <1>1, <2>2 DEF IInv, HostOK, IsOut
  <2> QED BY <2>1, <2>2
<1>8. ColoursOK(v)
  BY <1>1 DEF IInv, ColoursOK, IsOut
<1>9. NewcomersOK(v)
  BY <1>1, <1>2 DEF IInv, NewcomersOK
<1>10. RegistryOK(v)
  <2>1. \A d \in Clients : IsNew(v, d) => IsNew(w, d)
    BY <1>1, <1>2 DEF IsNew
  <2>2. v.member[Host].phase = "lobby" => a # Host
    BY <1>1
  <2> QED BY <1>1, <2>1, <2>2 DEF IInv, RegistryOK, PeersWith
<1>11. ClientsOK(v)
  <2>1. ASSUME v.member[Host].phase = "lobby", NEW c \in Clients
        PROVE  /\ Carries(v, c, Host, "DISCONNECT") => v.member[c].phase = "out"
               /\ ~Carries(v, c, Host, "END_SETTING")
               /\ \A id \in Ids : HasId(v, c, id) /\ v.member[c].phase # "out"
                    => v.peer[Host][c] # None /\ v.peer[Host][c].id = id
    <3>1. a # Host /\ w.member[Host].phase = "lobby" /\ v.peer[Host] = w.peer[Host]
      BY <1>1, <2>1
    <3>2. CASE c = a
      BY <1>1, <1>2, <3>1, <3>2 DEF IInv, ClientsOK
    <3>3. CASE c # a
      BY <1>1, <1>3, <1>4, <3>1, <3>3 DEF IInv, ClientsOK
    <3> QED BY <3>2, <3>3
  <2> QED BY <2>1 DEF ClientsOK
<1>12. HostIsOne(v)
  BY <1>1 DEF IInv, HostIsOne
<1>13. IdsOK(v)
  <2>1. 1 \in Ids
    BY DEF Ids
  <2> QED BY <1>4, <1>5, <2>1 DEF IInv, IdsOK
<1>14. GameOK(v)
  <2>1. v.member[Host].phase = "lobby" => NotStarted(v)
    BY <1>1, <1>2, <1>6 DEF IInv, GameOK, NotStarted
  <2>2. ASSUME NEW list \in Seq(Ids), Plays(w, list) PROVE Plays(v, list)
    BY <1>1, <1>6, <2>2 DEF Plays
  <2>3. OneGame(v)
    BY <2>2 DEF IInv, GameOK, OneGame
  <2> QED BY <1>6, <2>1, <2>3 DEF IInv, GameOK
<1> QED BY <1>1, <1>7, <1>8, <1>9, <1>10, <1>11, <1>12, <1>13, <1>14 DEF IInv, v

\* What disable_new_connections makes of a world.
LEMMA CloseIs ==
  ASSUME NEW w, IInv(w), NEW a \in Members
  PROVE  LET v == disable_new_connections(w, a)
         IN  /\ TypeOK(v) /\ v.member = w.member /\ v.pending = w.pending /\ v.lobby = w.lobby
             /\ v.chan[Host][Host] = <<>>
             /\ \A m \in Members : m # a => v.peer[m] = w.peer[m]
             /\ \A n \in Members : v.peer[a][n] = w.peer[a][n] \/ v.peer[a][n] = None
             /\ \A x, y \in Members : \A m \in Way(v, x, y) :
                  m \in Way(w, x, y) \/ (x = a /\ m = [msg |-> "DISCONNECT"])
             /\ \A x \in Members : Once(v.chan[x][Host])
<1> DEFINE e == [msg |-> "DISCONNECT"]
           dropped == {b \in Members : w.peer[a][b] # None /\ ~w.peer[a][b].authorized}
           told == {b \in dropped : IsConnected(w, a, b) /\ ~IsOut(w, b)}
           row == [b \in Members |-> IF b \in dropped THEN None ELSE w.peer[a][b]]
           fp == [w.peer EXCEPT ![a] = row]
           f == [x \in Members |-> [y \in Members |->
                   IF y = a /\ x \in dropped THEN <<>>
                   ELSE IF x = a /\ y \in told THEN Append(w.chan[x][y], e)
                   ELSE w.chan[x][y]]]
           v == disable_new_connections(w, a)
<1>1. IsWorld(w) /\ PeersTyped(w.peer) /\ ChansTyped(w.chan) /\ TypeOK(w)
  BY DEF IInv, TypeOK
<1>2. v = [w EXCEPT !.peer = fp, !.chan = f]
  BY <1>1 DEF disable_new_connections, IsWorld
<1>3. /\ v.member = w.member /\ v.peer = fp /\ v.pending = w.pending /\ v.chan = f
      /\ v.lobby = w.lobby /\ IsWorld(v)
  <2> DEFINE v1 == [w EXCEPT !.peer = fp]
             v2 == [v1 EXCEPT !.chan = f]
  <2>1. v = v2
    BY <1>2
  <2> HIDE DEF fp, f, v
  <2>2. /\ IsWorld(v1) /\ v1.member = w.member /\ v1.peer = fp /\ v1.pending = w.pending
        /\ v1.chan = w.chan /\ v1.lobby = w.lobby
    BY <1>1, PeerSet
  <2> HIDE DEF v1
  <2>3. /\ IsWorld(v2) /\ v2.member = w.member /\ v2.peer = fp /\ v2.pending = w.pending
        /\ v2.chan = f /\ v2.lobby = w.lobby
    BY <2>2, ChanSet
  <2> QED BY <2>1, <2>3
<1> HIDE DEF v
<1>4. /\ PeersTyped(fp) /\ (\A m \in Members : m # a => fp[m] = w.peer[m])
      /\ \A n \in Members : fp[a][n] = w.peer[a][n] \/ fp[a][n] = None
  <2>1. row \in [Members -> Players \cup {None}]
    BY <1>1 DEF PeersTyped
  <2>2. \A n \in Members : row[n] = w.peer[a][n] \/ row[n] = None
    OBVIOUS
  <2> HIDE DEF row
  <2> QED BY <1>1, <2>1, <2>2 DEF PeersTyped
<1>5. told \subseteq dropped
  OBVIOUS
<1> HIDE DEF fp, dropped, told
<1>6. ASSUME NEW x \in Members, NEW y \in Members
      PROVE  /\ f[x][y] \in Seq(Understood(y))
             /\ \A m \in ToSet(f[x][y]) : m \in Way(w, x, y) \/ (x = a /\ m = e)
             /\ y = Host => Once(f[x][y])
  <2>1. w.chan[x][y] \in Seq(Understood(y)) /\ (y = Host => Once(w.chan[x][y]))
    BY CalmAsItIs DEF Calmly
  <2>2. CASE y = a /\ x \in dropped
    <3>1. f[x][y] = <<>>
      BY <2>2
    <3> HIDE DEF f
    <3> QED BY <3>1, NothingThere
  <2>3. CASE ~(y = a /\ x \in dropped) /\ x = a /\ y \in told
    <3> DEFINE s == Append(w.chan[x][y], e)
    <3>1. f[x][y] = s
      BY <2>3
    <3>2. e \in Understood(y) /\ e.msg # "NEW_PLAYER"
      BY DEF Understood, ToHost, ToClient, Events
    <3> HIDE DEF f, e
    <3>3. /\ s \in Seq(Understood(y)) /\ ToSet(s) = ToSet(w.chan[x][y]) \cup {e}
          /\ y = Host => Once(s)
      BY <2>1, <3>2, Appended
    <3> HIDE DEF s
    <3> QED BY <2>3, <3>1, <3>3 DEF Way
  <2>4. CASE ~(y = a /\ x \in dropped) /\ ~(x = a /\ y \in told)
    <3>1. f[x][y] = w.chan[x][y]
      BY <2>4
    <3> HIDE DEF f, e
    <3> QED BY <2>1, <3>1 DEF Way
  <2> QED BY <2>2, <2>3, <2>4
<1>7. f = [x \in Members |-> [y \in Members |-> f[x][y]]]
  OBVIOUS
<1>8. f[Host][Host] = <<>>
  <2>1. w.chan[Host][Host] = <<>> /\ (a = Host => Host \notin dropped)
    BY DEF IInv, HostOK, dropped
  <2> QED BY <2>1, <1>5, TheMembers
<1> HIDE DEF f
<1>9. TypeOK(v)
  <2>1. ChansTyped(f)
    BY <1>6, <1>7 DEF ChansTyped
  <2> QED BY <1>1, <1>3, <1>4, <2>1 DEF TypeOK
<1>10. \A x, y \in Members : \A m \in Way(v, x, y) : m \in Way(w, x, y) \/ (x = a /\ m = e)
  BY <1>3, <1>6 DEF Way
<1>11. \A x \in Members : Once(v.chan[x][Host])
  BY <1>3, <1>6, TheMembers
<1>12. /\ v.chan[Host][Host] = <<>>
       /\ \A m \in Members : m # a => v.peer[m] = w.peer[m]
       /\ \A n \in Members : v.peer[a][n] = w.peer[a][n] \/ v.peer[a][n] = None
  BY <1>3, <1>4, <1>8
<1> QED BY <1>3, <1>9, <1>10, <1>11, <1>12 DEF v

\* A client closes its connections to those it does not know, when the host has left the lobby.
LEMMA CloseIsCalm ==
  ASSUME NEW w, IInv(w), NEW c \in Clients, ~IsOut(w, c), w.member[Host].phase # "lobby"
  PROVE  LET v == disable_new_connections(w, c)
         IN  /\ IInv(v) /\ v.member = w.member
             /\ \A list : Plays(w, list) => Plays(v, list)
<1> USE TheMembers
<1> DEFINE v == disable_new_connections(w, c)
           u == [w EXCEPT !.peer = v.peer]
<1>1. /\ TypeOK(v) /\ v.member = w.member /\ v.pending = w.pending /\ v.lobby = w.lobby
      /\ v.chan[Host][Host] = <<>>
      /\ \A m \in Members : m # c => v.peer[m] = w.peer[m]
      /\ \A n \in Members : v.peer[c][n] = w.peer[c][n] \/ v.peer[c][n] = None
      /\ \A x, y \in Members : \A m \in Way(v, x, y) :
           m \in Way(w, x, y) \/ (x = c /\ m = [msg |-> "DISCONNECT"])
      /\ \A x \in Members : Once(v.chan[x][Host])
  BY CloseIs
<1> HIDE DEF v
<1>2. TypeOK(w) /\ IsWorld(w)
  BY DEF IInv, TypeOK
<1>3. /\ IsWorld(u) /\ u.member = w.member /\ u.peer = v.peer /\ u.pending = w.pending
      /\ u.chan = w.chan /\ u.lobby = w.lobby
  BY <1>2, PeerSet
<1> HIDE DEF u
<1>4. OnlyOf(w, u, c)
  BY <1>1, <1>2, <1>3 DEF OnlyOf, TypeOK
<1>5. KnowsHost(u, c)
  BY <1>1, <1>3 DEF KnowsHost, IInv, HostIsOne
<1>6. MayBecome(w.member[c], u.member[c])
  BY <1>3 DEF MayBecome, IsOut
<1>7. IInv(u)
  BY <1>3, <1>4, <1>5, <1>6, ClientMoves
<1>8. OnlyChans(u, v)
  BY <1>1, <1>3 DEF OnlyChans, TypeOK
<1>9. ASSUME NEW x \in Members, NEW y \in Members PROVE Calmly(u, x, y, v.chan[x][y])
  <2>1. v.chan[x][y] \in Seq(Understood(y))
    BY <1>1 DEF TypeOK, ChansTyped
  <2>2. Harmless(u, y, [msg |-> "DISCONNECT"])
    BY <1>3 DEF Harmless
  <2>3. Way(u, x, y) = Way(w, x, y)
    BY <1>3 DEF Way
  <2>4. \A m \in Way(v, x, y) : m \in Way(u, x, y) \/ Harmless(u, y, m)
    BY <1>1, <2>2, <2>3
  <2> QED BY <1>1, <2>1, <2>4 DEF Calmly, Way
<1>10. IInv(v)
  BY <1>7, <1>8, <1>9, Calm
<1>11. ASSUME NEW list, Plays(w, list) PROVE Plays(v, list)
  BY <1>1, <1>11 DEF Plays, Setting
<1> QED BY <1>1, <1>10, <1>11 DEF v

\* A client learns what game it will play, and is in it.
LEMMA ClientStarts ==
  ASSUME NEW w, IInv(w), NEW c \in Clients, ~IsOut(w, c), w.member[Host].phase # "lobby",
         NEW list \in Seq(Ids), Plays(w, list), Contains(list, w.member[c].my_id)
  PROVE  IInv([w EXCEPT !.member[c].phase = "setting", !.member[c].nations = list])
<1> USE TheMembers
<1> DEFINE r == [w.member[c] EXCEPT !.phase = "setting", !.nations = list]
           f == [w.member EXCEPT ![c] = r]
           v == [w EXCEPT !.member = f]
<1>1. IsWorld(w) /\ MembersTyped(w.member) /\ TypeOK(w)
  BY DEF IInv, TypeOK
<1>2. [w EXCEPT !.member[c].phase = "setting", !.member[c].nations = list] = v
  BY <1>1 DEF IsWorld, MembersTyped
<1>3. /\ r \in MemberRecords /\ r.phase = "setting" /\ r.nations = list
      /\ r.my_id = w.member[c].my_id
  <2>1. w.member[c] \in MemberRecords
    BY Parts
  <2> QED BY <2>1 DEF MemberRecords, Phases
<1> HIDE DEF r
<1>4. /\ MembersTyped(f) /\ f[c] = r /\ \A m \in Members : m # c => f[m] = w.member[m]
  BY <1>1, <1>3 DEF MembersTyped
<1> HIDE DEF f
<1>5. /\ v.chan = w.chan /\ v.peer = w.peer /\ v.pending = w.pending /\ v.lobby = w.lobby
      /\ v.member = f /\ IsWorld(v)
  BY <1>1, MemberSet
<1> HIDE DEF v
<1>6. \A x, y \in Members : Way(v, x, y) = Way(w, x, y)
  BY <1>5 DEF Way
<1>7. \A x, y \in Members : \A k : Carries(v, x, y, k) => Carries(w, x, y, k)
  BY <1>6 DEF Carries
<1>8. \A m \in Members, id \in Ids : HasId(v, m, id) => HasId(w, m, id)
  BY <1>3, <1>4, <1>5, <1>6 DEF HasId
<1>9. \A m \in Members : /\ v.member[m].phase # "out" => w.member[m].phase # "out"
                         /\ v.member[m].my_id = w.member[m].my_id
                         /\ v.member[m].phase \in {"away", "joining"}
                              => w.member[m].phase \in {"away", "joining"}
  BY <1>3, <1>4, <1>5 DEF IsOut
<1>10. v.member[Host] = w.member[Host]
  BY <1>4, <1>5
<1>11. TypeOK(v)
  BY <1>1, <1>4, <1>5 DEF TypeOK
<1>12. HostOK(v)
  BY <1>5, <1>10 DEF IInv, HostOK, IsOut
<1>13. ColoursOK(v)
  BY <1>5, <1>10 DEF IInv, ColoursOK, IsOut
<1>14. NewcomersOK(v)
  BY <1>5, <1>7, <1>9 DEF IInv, NewcomersOK
<1>15. RegistryOK(v) /\ ClientsOK(v)
  BY <1>10 DEF RegistryOK, ClientsOK
<1>16. HostIsOne(v)
  BY <1>5 DEF IInv, HostIsOne
<1>17. IdsOK(v)
  <2>1. 1 \in Ids
    BY DEF Ids
  <2> QED BY <1>8, <1>9, <2>1 DEF IInv, IdsOK
<1>18. GameOK(v)
  <2>1. \A m \in Members : m # c /\ Setting(v, m) => Setting(w, m)
    BY <1>4, <1>5 DEF Setting
  <2>2. Plays(v, list)
    BY <1>3, <1>4, <1>5, <1>6, <2>1 DEF Plays
  <2>3. \A m \in Members : Setting(v, m) => Contains(v.member[m].nations, v.member[m].my_id)
    BY <1>3, <1>4, <1>5, <2>1 DEF IInv, GameOK
  <2> QED BY <1>10, <2>2, <2>3 DEF GameOK, OneGame
<1> QED BY <1>2, <1>11, <1>12, <1>13, <1>14, <1>15, <1>16, <1>17, <1>18 DEF IInv

\* A client sets up the game.
LEMMA ClientSetsUp ==
  ASSUME NEW w, IInv(w), NEW c \in Clients, ~IsOut(w, c), w.member[Host].phase # "lobby",
         NEW list \in Seq(Ids), Plays(w, list), Contains(list, w.member[c].my_id)
  PROVE  IInv(SetUp(w, c, list))
<1> DEFINE starts == [w EXCEPT !.member[c].phase = "setting", !.member[c].nations = list]
           closed == disable_new_connections(starts, c)
           e == [msg |-> "END_SETTING"]
<1>1. c # Host /\ c \in Members /\ Host \in Members
  BY TheMembers
<1>2. SetUp(w, c, list) = Broadcast(closed, c, e)
  BY <1>1 DEF SetUp
<1>3. IInv(starts)
  BY ClientStarts
<1>4. starts.member[c].phase = "setting" /\ starts.member[Host] = w.member[Host]
  BY <1>1 DEF IInv, TypeOK, IsWorld, MembersTyped, MemberRecords
<1> HIDE DEF starts
<1>5. IInv(closed) /\ closed.member = starts.member
  <2>1. ~IsOut(starts, c) /\ starts.member[Host].phase # "lobby"
    BY <1>4 DEF IsOut
  <2> QED BY <1>3, <2>1, CloseIsCalm
<1>6. closed.member[Host].phase # "lobby"
  BY <1>4, <1>5
<1> HIDE DEF closed
<1>7. \A b \in Members : e \in Understood(b) /\ Harmless(closed, b, e)
  BY <1>6 DEF Understood, ToHost, ToClient, Events, Harmless
<1> HIDE DEF e
<1> QED BY <1>1, <1>2, <1>5, <1>7, BroadcastIsCalm

\* What the messages to a client hold.
LEMMA ToClientHolds ==
  ASSUME NEW m \in ToClient
  PROVE  /\ m.msg \in {"CONNECT", "DISCONNECT", "END_SETTING", "REFUSE_COLOR", "REFUSE_NEW_PLAYER",
                       "ABORT_GAME", "ACCEPT_COLOR", "PLAYER_ID", "PLAYER_DISCONNECT",
                       "START_GAME", "ACCEPT_NEW_PLAYER"}
         /\ m.msg = "ACCEPT_COLOR" => m.colour \in Colours
         /\ m.msg \in {"PLAYER_ID", "PLAYER_DISCONNECT"} => m.id \in Ids \ {1}
         /\ m.msg = "PLAYER_ID" => m = [msg |-> "PLAYER_ID", id |-> m.id]
         /\ m.msg = "START_GAME" => m.list \in Seq(Ids)
         /\ m.msg = "ACCEPT_NEW_PLAYER"
              => m.id \in Ids /\ m.who \in Members /\ (m.who = Host => m.id = 1)
<1>1. CASE m \in Events
  BY <1>1 DEF Events
<1>2. CASE m \in [msg : {"REFUSE_COLOR", "REFUSE_NEW_PLAYER", "ABORT_GAME"}]
  BY <1>2
<1>3. CASE m \in [msg : {"ACCEPT_COLOR"}, colour : Colours]
  BY <1>3
<1>4. CASE m \in [msg : {"PLAYER_ID", "PLAYER_DISCONNECT"}, id : Ids \ {1}]
  BY <1>4
<1>5. CASE m \in [msg : {"START_GAME"}, list : Seq(Ids)]
  BY <1>5
<1>6. CASE m \in Introductions
  BY <1>6 DEF Introductions
<1> QED BY <1>1, <1>2, <1>3, <1>4, <1>5, <1>6 DEF ToClient

\* A client's own fields.
LEMMA ClientFields ==
  ASSUME NEW w, IInv(w), NEW c \in Clients, w.member[c].phase # "out"
  PROVE  /\ \A x \in Seq(Ids) : IInv([w EXCEPT !.member[c].reg = x])
         /\ \A x \in Colours : IInv([w EXCEPT !.member[c].colour = x])
         /\ \A x \in BOOLEAN : IInv([w EXCEPT !.member[c].ready = x])
         /\ IInv([w EXCEPT !.member[c].ended = @ + 1])
         /\ IInv(Box(w, c))
<1>1. /\ w.member[c] \in MemberRecords /\ c \in Members /\ IsWorld(w)
      /\ MembersTyped(w.member)
  BY Parts, TheMembers DEF IInv, TypeOK
<1> DEFINE o == w.member[c]
<1>2. ASSUME NEW x \in Seq(Ids) PROVE IInv([w EXCEPT !.member[c].reg = x])
  <2> DEFINE r == [o EXCEPT !.reg = x]
  <2>1. r \in MemberRecords
    BY <1>1, <1>2, FieldChanged
  <2>2. MayBecome(o, r) /\ r.my_id = o.my_id
    BY <1>1 DEF MemberRecords, MayBecome
  <2>3. [w EXCEPT !.member[c].reg = x] = [w EXCEPT !.member[c] = r]
    BY <1>1 DEF IsWorld, MembersTyped
  <2> HIDE DEF r
  <2> QED BY <2>1, <2>2, <2>3, MemberChanged
<1>3. ASSUME NEW x \in Colours PROVE IInv([w EXCEPT !.member[c].colour = x])
  <2> DEFINE r == [o EXCEPT !.colour = x]
  <2>1. r \in MemberRecords
    BY <1>1, <1>3, FieldChanged
  <2>2. MayBecome(o, r) /\ r.my_id = o.my_id
    BY <1>1 DEF MemberRecords, MayBecome
  <2>3. [w EXCEPT !.member[c].colour = x] = [w EXCEPT !.member[c] = r]
    BY <1>1 DEF IsWorld, MembersTyped
  <2> HIDE DEF r
  <2> QED BY <2>1, <2>2, <2>3, MemberChanged
<1>4. ASSUME NEW x \in BOOLEAN PROVE IInv([w EXCEPT !.member[c].ready = x])
  <2> DEFINE r == [o EXCEPT !.ready = x]
  <2>1. r \in MemberRecords
    BY <1>1, <1>4, FieldChanged
  <2>2. MayBecome(o, r) /\ r.my_id = o.my_id
    BY <1>1 DEF MemberRecords, MayBecome
  <2>3. [w EXCEPT !.member[c].ready = x] = [w EXCEPT !.member[c] = r]
    BY <1>1 DEF IsWorld, MembersTyped
  <2> HIDE DEF r
  <2> QED BY <2>1, <2>2, <2>3, MemberChanged
<1>5. IInv([w EXCEPT !.member[c].ended = @ + 1])
  <2> DEFINE r == [o EXCEPT !.ended = o.ended + 1]
  <2>1. r \in MemberRecords
    <3>1. o.ended + 1 \in Nat
      BY <1>1 DEF MemberRecords
    <3> QED BY <1>1, <3>1, FieldChanged
  <2>2. MayBecome(o, r) /\ r.my_id = o.my_id
    BY <1>1 DEF MemberRecords, MayBecome
  <2>3. [w EXCEPT !.member[c].ended = @ + 1] = [w EXCEPT !.member[c] = r]
    BY <1>1 DEF IsWorld, MembersTyped
  <2> HIDE DEF r
  <2> QED BY <2>1, <2>2, <2>3, MemberChanged
<1>6. IInv(Box(w, c))
  <2> DEFINE r == [o EXCEPT !.phase = "box"]
  <2>1. r \in MemberRecords
    BY <1>1, FieldChanged DEF Phases
  <2>2. MayBecome(o, r) /\ r.my_id = o.my_id
    BY <1>1 DEF MemberRecords, MayBecome
  <2>3. Box(w, c) = [w EXCEPT !.member[c] = r]
    BY <1>1 DEF IsWorld, MembersTyped, Box
  <2> HIDE DEF r
  <2> QED BY <2>1, <2>2, <2>3, MemberChanged
<1> QED BY <1>2, <1>3, <1>4, <1>5, <1>6

\* A client registers a player, or takes it out of its registry.
LEMMA ClientRegisters ==
  ASSUME NEW w, IInv(w), NEW c \in Clients, w.member[c].phase # "out", NEW id \in Ids
  PROVE  IInv(Registered(w, c, id)) /\ IInv(Unregistered(w, c, id))
<1>1. w.member[c].reg \in Seq(Ids) /\ c \in Members /\ IsWorld(w) /\ MembersTyped(w.member)
  <2>1. w.member[c] \in MemberRecords
    BY Parts, TheMembers
  <2> QED BY <2>1, TheMembers DEF MemberRecords, IInv, TypeOK
<1> DEFINE s == w.member[c].reg
<1>2. IInv(Registered(w, c, id))
  <2> DEFINE t == Append(s, id)
  <2>1. t \in Seq(Ids)
    BY <1>1
  <2>2. Registered(w, c, id) = w \/ Registered(w, c, id) = [w EXCEPT !.member[c].reg = t]
    BY <1>1 DEF Registered, IsWorld, MembersTyped, MemberRecords
  <2> HIDE DEF t
  <2>3. \A x \in Seq(Ids) : IInv([w EXCEPT !.member[c].reg = x])
    BY ClientFields
  <2> QED BY <2>1, <2>2, <2>3
<1>3. IInv(Unregistered(w, c, id))
  <2> DEFINE t == RemoveFirst(s, id)
  <2>1. t \in Seq(Ids)
    BY <1>1, Removed
  <2>2. Unregistered(w, c, id) = [w EXCEPT !.member[c].reg = t]
    BY <1>1 DEF Unregistered, IsWorld, MembersTyped, MemberRecords
  <2> HIDE DEF t
  <2>3. \A x \in Seq(Ids) : IInv([w EXCEPT !.member[c].reg = x])
    BY ClientFields
  <2> QED BY <2>1, <2>2, <2>3
<1> QED BY <1>2, <1>3

\* What a client in the lobby hears.
LEMMA ClientHearsCalmly ==
  ASSUME NEW w, IInv(w), NEW c \in Clients, w.member[c].phase = "lobby",
         NEW m \in ToClient, m.msg \notin {"CONNECT", "DISCONNECT"},
         m.msg = "START_GAME" => w.member[Host].phase # "lobby" /\ Plays(w, m.list),
         m.msg = "PLAYER_ID"
           => IInv([w EXCEPT !.member[c].my_id = m.id, !.member[c].reg = Append(@, m.id)]),
         NEW v \in ClientHears(w, c, m)
  PROVE  IInv(v)
<1>1. w.member[c].phase # "out" /\ ~IsOut(w, c) /\ c \in Members
  BY TheMembers DEF IsOut
<1>2. CASE m.msg = "ACCEPT_NEW_PLAYER"
  <2>1. m.id \in Ids /\ m.who \in Members /\ (m.who = Host => m.id = 1)
    BY <1>2, ToClientHolds
  <2> DEFINE u == add_player(w, c, m.id, m.who, m.contact)
  <2>2. v = w \/ v = Registered(u, c, m.id)
    BY <1>2 DEF ClientHears
  <2>3. IInv(u) /\ u.member = w.member
    BY <1>1, <2>1, AddPlayerIsCalm
  <2> HIDE DEF u
  <2> QED BY <1>1, <2>1, <2>2, <2>3, ClientRegisters
<1>3. CASE m.msg = "PLAYER_ID"
  BY <1>3 DEF ClientHears
<1>4. CASE m.msg = "PLAYER_DISCONNECT"
  <2>1. m.id \in Ids \ {1}
    BY <1>4, ToClientHolds
  <2> DEFINE u == delete_player(w, c, m.id)
  <2>2. v = Unregistered(u, c, m.id)
    BY <1>4 DEF ClientHears
  <2>3. IInv(u) /\ u.member = w.member
    BY <1>1, <2>1, DeletePlayerIsCalm
  <2> HIDE DEF u
  <2> QED BY <1>1, <2>1, <2>2, <2>3, ClientRegisters
<1>5. CASE m.msg = "ACCEPT_COLOR"
  <2>1. v = [w EXCEPT !.member[c].colour = m.colour]
    BY <1>5 DEF ClientHears
  <2>2. m.colour \in Colours
    BY <1>5, ToClientHolds
  <2> QED BY <1>1, <2>1, <2>2, ClientFields
<1>6. CASE m.msg = "REFUSE_COLOR"
  BY <1>6 DEF ClientHears
<1>7. CASE m.msg \in {"REFUSE_NEW_PLAYER", "ABORT_GAME"}
  <2>1. v = Box(w, c)
    BY <1>7 DEF ClientHears
  <2> QED BY <1>1, <2>1, ClientFields
<1>8. CASE m.msg = "END_SETTING"
  <2>1. v = [w EXCEPT !.member[c].ended = @ + 1]
    BY <1>8 DEF ClientHears
  <2> QED BY <1>1, <2>1, ClientFields
<1>9. CASE m.msg = "START_GAME"
  <2>1. /\ m.list \in Seq(Ids)
        /\ IF Contains(m.list, w.member[c].my_id) THEN v = SetUp(w, c, m.list) ELSE v = Gone(w, c)
    BY <1>9, ToClientHolds DEF ClientHears
  <2>2. CASE Contains(m.list, w.member[c].my_id)
    BY <1>1, <1>9, <2>1, <2>2, ClientSetsUp
  <2>3. CASE ~Contains(m.list, w.member[c].my_id)
    BY <1>1, <2>1, <2>3, GoneIsCalm
  <2> QED BY <2>2, <2>3
<1> QED BY <1>2, <1>3, <1>4, <1>5, <1>6, <1>7, <1>8, <1>9, ToClientHolds


\* A client asks to be let in, when nothing is left of an earlier player in its place.
LEMMA NewcomerAsks ==
  ASSUME NEW w, IInv(w), NEW c \in Clients, w.member[c].phase = "lobby",
         ~Carries(w, c, Host, "NEW_PLAYER"),
         w.member[Host].phase = "lobby" /\ w.peer[Host][c] # None
           => w.peer[Host][c].id \notin ToSet(w.member[Host].reg)
  PROVE  IInv(Put(w, c, Host, [msg |-> "NEW_PLAYER"]))
<1> USE TheMembers
<1> DEFINE e == [msg |-> "NEW_PLAYER"]
           s == Append(w.chan[c][Host], e)
           v == Put(w, c, Host, e)
<1>1. IsWorld(w) /\ ChansTyped(w.chan) /\ TypeOK(w) /\ w.chan[Host][Host] = <<>>
  BY DEF IInv, TypeOK, HostOK
<1>2. /\ w.chan[c][Host] \in Seq(Understood(Host))
      /\ Once(w.chan[c][Host])
  BY CalmAsItIs DEF Calmly
<1>3. /\ s \in Seq(Understood(Host)) /\ ToSet(s) = ToSet(w.chan[c][Host]) \cup {e}
      /\ Once(s)
  <2>1. e \in Understood(Host)
    BY DEF Understood, ToHost
  <2>2. \A m \in ToSet(w.chan[c][Host]) : m.msg # "NEW_PLAYER"
    BY DEF Carries, Way
  <2> HIDE DEF e
  <2> QED BY <1>2, <2>1, <2>2, Appended
<1>4. /\ IsWorld(v)
      /\ v.member = w.member /\ v.peer = w.peer /\ v.pending = w.pending /\ v.lobby = w.lobby
      /\ v.chan = w.chan \/ v.chan = [w.chan EXCEPT ![c][Host] = s]
  <2> HIDE DEF e
  <2> QED BY <1>1, PutIs
<1> HIDE DEF s, v
<1>5. /\ ChansTyped(v.chan) /\ v.chan[Host][Host] = <<>>
      /\ \A x, y \in Members :
           v.chan[x][y] = w.chan[x][y] \/ (x = c /\ y = Host /\ v.chan[x][y] = s)
  <2>1. CASE v.chan = w.chan
    BY <1>1, <2>1
  <2>2. CASE v.chan = [w.chan EXCEPT ![c][Host] = s]
    <3> DEFINE f == w.chan
    <3>1. ChansTyped(f) /\ s \in Seq(Understood(Host))
      BY <1>1, <1>3
    <3> HIDE DEF f
    <3>2. LET g == [f EXCEPT ![c][Host] = s]
          IN  /\ ChansTyped(g) /\ g[c][Host] = s
              /\ \A x, y \in Members : x # c \/ y # Host => g[x][y] = f[x][y]
      BY <3>1, OneChan
    <3> QED BY <1>1, <2>2, <3>2 DEF f
  <2> QED BY <1>4, <2>1, <2>2
<1>6. \A x, y \in Members : \A m \in Way(v, x, y) : m \in Way(w, x, y) \/ (x = c /\ m = e)
  BY <1>3, <1>5 DEF Way
<1>7. \A x, y \in Members : \A k : Carries(v, x, y, k) /\ (x # c \/ k # "NEW_PLAYER")
        => Carries(w, x, y, k)
  BY <1>6 DEF Carries
<1>8. \A m \in Members, id \in Ids : HasId(v, m, id) => HasId(w, m, id)
  BY <1>4, <1>6 DEF HasId
<1>9. TypeOK(v)
  BY <1>1, <1>4, <1>5 DEF TypeOK
<1>10. HostOK(v)
  BY <1>4, <1>5 DEF IInv, HostOK, IsOut
<1>11. ColoursOK(v)
  BY <1>4 DEF IInv, ColoursOK, IsOut
<1>12. NewcomersOK(v)
  <2>1. ASSUME NEW d \in Clients
        PROVE  /\ v.member[d].phase \in {"away", "joining"} => ~Carries(v, d, Host, "NEW_PLAYER")
               /\ Once(v.chan[d][Host])
    <3>1. CASE d = c
      BY <1>2, <1>3, <1>4, <1>5, <3>1
    <3>2. CASE d # c
      BY <1>4, <1>5, <1>7, <3>2 DEF IInv, NewcomersOK
    <3> QED BY <3>1, <3>2
  <2> QED BY <2>1 DEF NewcomersOK
<1>13. RegistryOK(v)
  <2>1. \A d \in Clients : d # c /\ IsNew(v, d) => IsNew(w, d)
    BY <1>4, <1>7 DEF IsNew
  <2> QED BY <1>4, <2>1 DEF IInv, RegistryOK, PeersWith
<1>14. ClientsOK(v)
  BY <1>4, <1>7, <1>8 DEF IInv, ClientsOK
<1>15. HostIsOne(v)
  BY <1>4 DEF IInv, HostIsOne
<1>16. IdsOK(v)
  <2>1. 1 \in Ids
    BY DEF Ids
  <2> QED BY <1>4, <1>8, <2>1 DEF IInv, IdsOK
<1>17. GameOK(v)
  <2>1. w.member[Host].phase = "lobby" => NotStarted(v)
    BY <1>4, <1>7 DEF IInv, GameOK, NotStarted, Setting
  <2>2. ASSUME NEW list \in Seq(Ids), Plays(w, list) PROVE Plays(v, list)
    BY <1>4, <1>6, <2>2 DEF Plays, Setting
  <2>3. OneGame(v)
    BY <2>2 DEF IInv, GameOK, OneGame
  <2> QED BY <1>4, <2>1, <2>3 DEF IInv, GameOK, Setting
<1> QED BY <1>9, <1>10, <1>11, <1>12, <1>13, <1>14, <1>15, <1>16, <1>17 DEF IInv, v

\* The lobby of a client hears of a connection, or of a lost one.
LEMMA ClientLobbyHears ==
  ASSUME NEW w, IInv(w), NEW c \in Clients, ~IsOut(w, c) \/ w.member[c].phase = "away",
         NEW b \in Members
  PROVE  /\ \A v \in LobbyConnects(w, c, b) : IInv(v)
         /\ w.member[c].phase # "away" => \A v, from : v \in LobbyDisconnects(w, c, from) => IInv(v)
<1>1. c \in Members /\ c # Host /\ w.member[c] \in MemberRecords /\ IsWorld(w)
      /\ MembersTyped(w.member) /\ w.member[c].phase # "out"
  BY TheMembers, Parts DEF IInv, TypeOK, IsOut
<1>2. ASSUME NEW v \in LobbyConnects(w, c, b) PROVE IInv(v)
  <2>1. CASE w.member[c].phase = "joining" /\ b = Host
    <3> DEFINE r == [w.member[c] EXCEPT !.phase = "lobby"]
               u == [w EXCEPT !.member[c] = r]
    <3>1. v = Put(u, c, Host, [msg |-> "NEW_PLAYER"])
      <4>1. u = [w EXCEPT !.member[c].phase = "lobby"]
        BY <1>1 DEF IsWorld, MembersTyped
      <4> QED BY <1>2, <2>1, <4>1 DEF LobbyConnects
    <3>2. r \in MemberRecords /\ r.phase = "lobby"
      BY <1>1, FieldChanged DEF Phases
    <3>3. MayBecome(w.member[c], r) /\ r.my_id = w.member[c].my_id
      BY <1>1, <2>1 DEF MayBecome, MemberRecords
    <3> HIDE DEF r
    <3>4. IInv(u)
      BY <3>2, <3>3, MemberChanged
    <3>5. /\ u.member[c].phase = "lobby" /\ u.member[Host] = w.member[Host]
          /\ u.peer = w.peer /\ u.chan = w.chan
      BY <1>1, <3>2, TheMembers DEF IsWorld, MembersTyped
    <3> HIDE DEF u
    <3>6. ~Carries(u, c, Host, "NEW_PLAYER")
      BY <2>1, <3>5 DEF IInv, NewcomersOK, Carries, Way
    <3>7. u.member[Host].phase = "lobby" /\ u.peer[Host][c] # None
             => u.peer[Host][c].id \notin ToSet(u.member[Host].reg)
      BY <2>1, <3>5 DEF IInv, RegistryOK, IsNew
    <3> QED BY <3>1, <3>4, <3>5, <3>6, <3>7, NewcomerAsks
  <2>2. CASE ~(w.member[c].phase = "joining" /\ b = Host)
    BY <1>2, <2>2 DEF LobbyConnects
  <2> QED BY <2>1, <2>2
<1>3. ASSUME NEW from, NEW v \in LobbyDisconnects(w, c, from) PROVE IInv(v)
  <2>1. v = Gone(w, c) \/ v = Box(w, c) \/ v = w
    BY <1>1, <1>3 DEF LobbyDisconnects
  <2>2. IInv(Gone(w, c))
    BY <1>1, GoneIsCalm
  <2>3. IInv(Box(w, c))
    BY <1>1, ClientFields
  <2> QED BY <2>1, <2>2, <2>3
<1> QED BY <1>2, <1>3

\* What a client may find in the world when it takes a message.
LEMMA WhatClientsHear ==
  ASSUME NEW w, IInv(w), NEW c \in Clients, NEW b \in Members, NEW m \in Way(w, b, c)
  PROVE  /\ m.msg = "START_GAME" => w.member[Host].phase # "lobby" /\ Plays(w, m.list)
         /\ m.msg = "PLAYER_ID" => m.id \in Ids /\ HasId(w, c, m.id)
         /\ m \in ToClient
<1> USE TheMembers
<1>1. m \in ToClient
  <2>1. w.chan[b][c] \in Seq(ToClient)
    BY Parts DEF Understood
  <2> QED BY <2>1 DEF Way, ToSet
<1>2. ASSUME m.msg = "START_GAME" PROVE w.member[Host].phase # "lobby" /\ Plays(w, m.list)
  <2>1. Carries(w, b, c, "START_GAME")
    BY <1>2 DEF Carries
  <2>2. PICK list \in Seq(Ids) : Plays(w, list)
    BY DEF IInv, GameOK, OneGame
  <2>3. m.list = list
    BY <1>2, <2>2 DEF Plays
  <2> QED BY <2>1, <2>2, <2>3 DEF IInv, GameOK, NotStarted
<1>3. ASSUME m.msg = "PLAYER_ID" PROVE m.id \in Ids /\ HasId(w, c, m.id)
  <2>1. m.id \in Ids /\ m = [msg |-> "PLAYER_ID", id |-> m.id]
    BY <1>1, <1>3, ToClientHolds
  <2> QED BY <2>1 DEF HasId
<1> QED BY <1>1, <1>2, <1>3

\* A client gets to know its id.
LEMMA ClientIsNumbered ==
  ASSUME NEW w, IInv(w), NEW c \in Clients, w.member[c].phase = "lobby", NEW b \in Members,
         w.chan[b][c] # <<>>, NEW id \in Ids, HasId(w, c, id),
         NEW t, t = [w EXCEPT !.chan[b][c] = Tail(@)]
  PROVE  IInv([t EXCEPT !.member[c].my_id = id, !.member[c].reg = Append(@, id)])
<1> DEFINE r == [w.member[c] EXCEPT !.my_id = id, !.reg = Append(w.member[c].reg, id)]
           u == [w EXCEPT !.member[c] = r]
           v == [t EXCEPT !.member[c].my_id = id, !.member[c].reg = Append(@, id)]
           s == Tail(w.chan[b][c])
<1>1. /\ c \in Members /\ IsWorld(w) /\ MembersTyped(w.member)
      /\ w.member[c] \in MemberRecords
  BY TheMembers, Parts DEF IInv, TypeOK
<1>2. /\ r \in MemberRecords /\ r.my_id = id /\ MayBecome(w.member[c], r)
  <2>1. w.member[c].reg \in Seq(Ids)
    BY <1>1 DEF MemberRecords
  <2>2. Append(w.member[c].reg, id) \in Seq(Ids) /\ id \in Nat
    BY <2>1 DEF Ids
  <2>3. r \in MemberRecords
    <3> DEFINE o == w.member[c]
               reg == Append(w.member[c].reg, id)
    <3>1. o \in MemberRecords /\ id \in Nat /\ reg \in Seq(Ids)
      BY <1>1, <2>2
    <3> HIDE DEF MemberRecords, Ids, o, reg
    <3>2. [o EXCEPT !.my_id = id, !.reg = reg] \in MemberRecords
      BY ONLY <3>1, NumberedRecord
    <3> QED BY <3>2 DEF o, reg
  <2>4. r.my_id = id /\ r.phase = "lobby" /\ r.nations = w.member[c].nations
    BY <1>1 DEF MemberRecords
  <2> QED BY <2>3, <2>4 DEF MayBecome
<1>3. v = [t EXCEPT !.member[c] = r]
  <2>1. t.member = w.member
    BY <1>1 DEF IsWorld
  <2> QED BY <1>1, <2>1, ZenonT(40) DEF IsWorld, MembersTyped, MemberRecords
<1> HIDE DEF r
<1>4. IInv(u)
  <2>1. ~Setting(w, c)
    BY DEF Setting
  <2> QED BY <1>2, <2>1, MemberChanged
<1>5. v = [u EXCEPT !.chan[b][c] = Tail(@)]
  <2> DEFINE f == [w.chan EXCEPT ![b][c] = s]
             g == [w.member EXCEPT ![c] = r]
  <2>1. t = [w EXCEPT !.chan = f] /\ u = [w EXCEPT !.member = g]
    BY <1>1 DEF IsWorld
  <2>2. t.member = w.member /\ u.chan = w.chan
    BY <1>1, <2>1 DEF IsWorld
  <2>3. v = [t EXCEPT !.member = g] /\ [u EXCEPT !.chan[b][c] = Tail(@)] = [u EXCEPT !.chan = f]
    <3>1. [t EXCEPT !.member[c] = r] = [t EXCEPT !.member = [t.member EXCEPT ![c] = r]]
      BY <1>1, <2>1 DEF IsWorld
    <3>2. [u EXCEPT !.chan[b][c] = Tail(@)] = [u EXCEPT !.chan = [u.chan EXCEPT ![b][c] = Tail(u.chan[b][c])]]
      BY <1>1, <2>1 DEF IsWorld
    <3> QED BY <1>3, <2>2, <3>1, <3>2
  <2> HIDE DEF f, g, v, u
  <2> QED BY <1>1, <2>1, <2>3 DEF IsWorld
<1>6. u.chan[b][c] # <<>>
  BY <1>1 DEF IsWorld
<1> HIDE DEF u, v
<1>7. IInv([u EXCEPT !.chan[b][c] = Tail(@)])
  BY <1>1, <1>4, <1>6, TakingIsCalm
<1> QED BY <1>5, <1>7 DEF v

\* A client handles what it takes from a connection.
LEMMA ClientReceives ==
  ASSUME NEW w, IInv(w), NEW c \in Clients,
         w.member[c].phase \in {"joining", "lobby", "box", "setting"},
         NEW b \in Members, w.chan[b][c] # <<>>,
         NEW t, t = [w EXCEPT !.chan[b][c] = Tail(@)],
         NEW v \in Handled(t, c, b, Head(w.chan[b][c]))
  PROVE  IInv(v)
<1> DEFINE m == Head(w.chan[b][c])
<1>1. c \in Members /\ c # Host /\ IsWorld(w)
  BY TheMembers, Parts
<1>2. IInv(t) /\ m \in Way(w, b, c)
  BY <1>1, TakingIsCalm
<1>3. t.member = w.member /\ t.peer = w.peer
  BY <1>1 DEF IsWorld
<1>4. /\ m.msg = "START_GAME" => w.member[Host].phase # "lobby" /\ Plays(w, m.list)
      /\ m.msg = "PLAYER_ID" => m.id \in Ids /\ HasId(w, c, m.id)
      /\ m \in ToClient
  BY <1>2, WhatClientsHear
<1>5. m.msg = "START_GAME" => t.member[Host].phase # "lobby" /\ Plays(t, m.list)
  <2>1. ASSUME NEW x \in Members, NEW y \in Members PROVE Way(t, x, y) \subseteq Way(w, x, y)
    <3>1. t.chan[x][y] = w.chan[x][y] \/ (x = b /\ y = c /\ t.chan[x][y] = Tail(w.chan[x][y]))
      BY <1>1 DEF IInv, TypeOK, ChansTyped, IsWorld
    <3>2. w.chan[b][c] \in Seq(Understood(c))
      BY <1>1, Parts
    <3>3. ToSet(Tail(w.chan[b][c])) \subseteq ToSet(w.chan[b][c])
      BY <3>2, TakenFirst
    <3> QED BY <3>1, <3>3 DEF Way
  <2> HIDE DEF m
  <2>2. ASSUME m.msg = "START_GAME" PROVE Plays(t, m.list)
    BY <1>3, <1>4, <2>1, <2>2 DEF Plays, Setting
  <2> QED BY <1>3, <1>4, <2>2
<1>6. m.msg = "PLAYER_ID" /\ t.member[c].phase = "lobby"
        => IInv([t EXCEPT !.member[c].my_id = m.id, !.member[c].reg = Append(@, m.id)])
  <2> HIDE DEF m
  <2> QED BY <1>3, <1>4, ClientIsNumbered
<1> HIDE DEF m
<1>7. ~IsOut(t, c) /\ t.member[c].phase # "out" /\ t.member[c].phase # "away"
  BY <1>3 DEF IsOut
<1>8. IsPregame(t, c) \/ t.member[Host].phase # "lobby"
  <2>1. t.member[c].phase = "setting" => ~(t.member[Host].phase = "lobby")
    BY <1>1, <1>2 DEF IInv, GameOK, NotStarted, Setting
  <2> QED BY <1>3, <2>1 DEF IsPregame
<1> DEFINE from == IF t.peer[c][b] # None THEN t.peer[c][b].id ELSE 0
<1>9. CASE m.msg = "CONNECT"
  <2> DEFINE u == Connected(t, c, b)
  <2>1. v \in LobbyConnects(u, c, b)
    BY <1>9 DEF Handled, m
  <2>2. IInv(u) /\ u.member = t.member
    BY <1>2, <1>7, <1>8, ClientConnected
  <2> HIDE DEF u
  <2>3. ~IsOut(u, c)
    BY <1>7, <2>2 DEF IsOut
  <2> QED BY <2>1, <2>2, <2>3, ClientLobbyHears
<1>10. CASE m.msg = "DISCONNECT"
  <2> DEFINE u == Disconnected(t, c, b)
  <2>1. v \in LobbyDisconnects(u, c, from)
    BY <1>10 DEF Handled, m
  <2>2. IInv(u) /\ u.member = t.member
    BY <1>2, <1>7, ClientDisconnected
  <2> HIDE DEF u, from
  <2>3. ~IsOut(u, c) /\ u.member[c].phase # "away"
    BY <1>7, <2>2 DEF IsOut
  <2> QED BY <2>1, <2>2, <2>3, ClientLobbyHears
<1>11. CASE m.msg \notin {"CONNECT", "DISCONNECT"} /\ t.peer[c][b] # None /\ t.member[c].phase = "lobby"
  <2>1. v \in ClientHears(t, c, m)
    BY <1>1, <1>11 DEF Handled, m
  <2> QED BY <1>2, <1>4, <1>5, <1>6, <1>11, <2>1, ClientHearsCalmly
<1>12. CASE /\ m.msg \notin {"CONNECT", "DISCONNECT"}
            /\ t.peer[c][b] # None /\ t.member[c].phase = "setting" /\ m.msg = "END_SETTING"
  <2>1. v = [t EXCEPT !.member[c].ended = @ + 1]
    BY <1>12 DEF Handled, m
  <2> QED BY <1>2, <1>7, <2>1, ClientFields
<1>13. CASE /\ m.msg \notin {"CONNECT", "DISCONNECT"}
            /\ ~(t.peer[c][b] # None /\ t.member[c].phase = "lobby")
            /\ ~(t.peer[c][b] # None /\ t.member[c].phase = "setting" /\ m.msg = "END_SETTING")
  <2>1. v = t
    BY <1>13 DEF Handled, m
  <2> QED BY <1>2, <2>1
<1> QED BY <1>9, <1>10, <1>11, <1>12, <1>13

---------------------------------------------------------------------------
(* What the host does.                                                     *)

\* Only what the host keeps for itself differs.
OnlyOfHost(w, v) ==
  /\ TypeOK(v) /\ v.chan = w.chan
  /\ \A c \in Clients :
       v.member[c] = w.member[c] /\ v.peer[c] = w.peer[c] /\ v.pending[c] = w.pending[c]

\* The host's own state changes: what it registers, whom it knows and what it gives out fit.
LEMMA HostMoves ==
  ASSUME NEW w, NEW v, IInv(w), OnlyOfHost(w, v),
         v.member[Host].nations = w.member[Host].nations,
         v.member[Host].my_id = w.member[Host].my_id,
         \/ v.member[Host].phase = w.member[Host].phase
         \/ w.member[Host].phase = "setting" /\ v.member[Host].phase = "playing",
         HostOK(v), ColoursOK(v), RegistryOK(v),
         w.member[Host].phase = "lobby" => \A c \in Clients :
           v.peer[Host][c] = w.peer[Host][c]
             \/ (v.peer[Host][c] # None /\ w.peer[Host][c] # None
                   /\ v.peer[Host][c].id = w.peer[Host][c].id)
             \/ w.member[c].phase = "out" \/ w.peer[Host][c] = None
  PROVE  IInv(v)
<1> USE TheMembers
<1>1. /\ v.chan = w.chan /\ TypeOK(v)
      /\ \A c \in Clients :
           v.member[c] = w.member[c] /\ v.peer[c] = w.peer[c] /\ v.pending[c] = w.pending[c]
  BY DEF OnlyOfHost
<1>2. \A x, y \in Members : Way(v, x, y) = Way(w, x, y)
  BY <1>1 DEF Way
<1>3. \A x, y \in Members : \A k : Carries(v, x, y, k) <=> Carries(w, x, y, k)
  BY <1>2 DEF Carries
<1>4. \A m \in Members : v.member[m].my_id = w.member[m].my_id
  BY <1>1
<1>5. \A m \in Members, id \in Ids : HasId(v, m, id) <=> HasId(w, m, id)
  BY <1>2, <1>4 DEF HasId
<1>6. \A m \in Members : /\ Setting(v, m) <=> Setting(w, m)
                         /\ v.member[m].nations = w.member[m].nations
  BY <1>1 DEF Setting
<1>7. v.member[Host].phase = "lobby" <=> w.member[Host].phase = "lobby"
  OBVIOUS
<1>8. NewcomersOK(v)
  BY <1>1, <1>3 DEF IInv, NewcomersOK
<1>9. ClientsOK(v)
  BY <1>1, <1>3, <1>5, <1>7 DEF IInv, ClientsOK
<1>10. HostIsOne(v)
  BY <1>1 DEF IInv, HostIsOne
<1>11. IdsOK(v)
  <2>1. 1 \in Ids
    BY DEF Ids
  <2> QED BY <1>1, <1>5, <2>1 DEF IInv, IdsOK
<1>12. GameOK(v)
  <2>1. v.member[Host].phase = "lobby" => NotStarted(v)
    BY <1>3, <1>6, <1>7 DEF IInv, GameOK, NotStarted
  <2>2. ASSUME NEW list \in Seq(Ids), Plays(w, list) PROVE Plays(v, list)
    BY <1>2, <1>6, <2>2 DEF Plays
  <2>3. OneGame(v)
    BY <2>2 DEF IInv, GameOK, OneGame
  <2> QED BY <1>4, <1>6, <2>1, <2>3 DEF IInv, GameOK
<1> QED BY <1>1, <1>8, <1>9, <1>10, <1>11, <1>12 DEF IInv

\* What Coloured makes of the colours.
LEMMA ColouredIs ==
  ASSUME NEW w, IsWorld(w), LobbyTyped(w.lobby), NEW id \in Ids, NEW c \in Colours,
         w.lobby.assigned = {w.lobby.colour[i] : i \in DOMAIN w.lobby.colour},
         \A i, j \in DOMAIN w.lobby.colour : w.lobby.colour[i] = w.lobby.colour[j] => i = j,
         c \notin w.lobby.assigned
  PROVE  LET v == Coloured(w, id, c)
         IN  /\ IsWorld(v) /\ LobbyTyped(v.lobby)
             /\ v.member = w.member /\ v.peer = w.peer /\ v.pending = w.pending /\ v.chan = w.chan
             /\ DOMAIN v.lobby.colour = DOMAIN w.lobby.colour \cup {id}
             /\ v.lobby.assigned = {v.lobby.colour[i] : i \in DOMAIN v.lobby.colour}
             /\ \A i, j \in DOMAIN v.lobby.colour : v.lobby.colour[i] = v.lobby.colour[j] => i = j
             /\ v.lobby.ready = w.lobby.ready
<1> DEFINE old == w.lobby.colour
           D == DOMAIN old
           new == [k \in D \cup {id} |-> IF k = id THEN c ELSE old[k]]
           free == (IF id \in D THEN w.lobby.assigned \ {old[id]} ELSE w.lobby.assigned) \cup {c}
           l == [colour |-> new, assigned |-> free, ready |-> w.lobby.ready]
           v == Coloured(w, id, c)
<1>1. /\ w.lobby = [colour |-> old, assigned |-> w.lobby.assigned, ready |-> w.lobby.ready]
      /\ old \in [D -> Colours] /\ w.lobby.assigned \subseteq Colours /\ w.lobby.ready \subseteq Ids
  BY DEF LobbyTyped
<1>2. v = [w EXCEPT !.lobby = l]
  <2>1. v = [w EXCEPT !.lobby = [[w.lobby EXCEPT !.assigned = free] EXCEPT !.colour = new]]
    BY DEF Coloured, IsWorld
  <2>2. [[w.lobby EXCEPT !.assigned = free] EXCEPT !.colour = new] = l
    <3> DEFINE u == [w.lobby EXCEPT !.assigned = free]
    <3> HIDE DEF new, free
    <3>1. u = [colour |-> old, assigned |-> free, ready |-> w.lobby.ready]
      BY <1>1
    <3> HIDE DEF u, old
    <3>2. [u EXCEPT !.colour = new]
            = [colour |-> new, assigned |-> free, ready |-> w.lobby.ready]
      BY <3>1
    <3> QED BY <3>2 DEF u
  <2> QED BY <2>1, <2>2
<1> HIDE DEF v
<1>3. /\ DOMAIN new = D \cup {id} /\ new \in [D \cup {id} -> Colours]
      /\ \A i, j \in D \cup {id} : new[i] = new[j] => i = j
      /\ new[id] = c /\ \A i \in D : i # id => new[i] = old[i]
  BY <1>1
<1>4. free = {new[i] : i \in D \cup {id}}
  <2>1. \A x \in free : \E i \in D \cup {id} : x = new[i]
    <3>1. ASSUME NEW x \in free PROVE \E i \in D \cup {id} : x = new[i]
      <4>1. CASE x = c
        BY <1>3, <4>1
      <4>2. CASE x # c
        <5>1. x \in w.lobby.assigned /\ (id \in D => x # old[id])
          BY <4>2
        <5>2. PICK i \in D : x = old[i]
          BY <5>1
        <5>3. i # id
          BY <5>1, <5>2
        <5> HIDE DEF new
        <5> QED BY <1>3, <5>2, <5>3
      <4> QED BY <4>1, <4>2
    <3> QED BY <3>1
  <2>2. \A i \in D \cup {id} : new[i] \in free
    <3>1. ASSUME NEW i \in D, i # id PROVE new[i] \in free
      <4>1. new[i] = old[i] /\ old[i] \in w.lobby.assigned /\ (id \in D => old[i] # old[id])
        BY <3>1
      <4> HIDE DEF new
      <4> QED BY <4>1
    <3>2. new[id] \in free
      BY <1>3
    <3> HIDE DEF new, free
    <3> QED BY <3>1, <3>2
  <2> HIDE DEF new, free
  <2> QED BY <2>1, <2>2
<1>5. free \subseteq Colours
  BY <1>1
<1>6. /\ IsWorld(v) /\ v.lobby = l /\ v.member = w.member /\ v.peer = w.peer
      /\ v.pending = w.pending /\ v.chan = w.chan
  <2> HIDE DEF l
  <2> QED BY <1>2, LobbySet
<1> HIDE DEF new, free, D, old
<1>7. l.colour = new /\ l.assigned = free /\ l.ready = w.lobby.ready
  OBVIOUS
<1>8. l = [colour |-> l.colour, assigned |-> l.assigned, ready |-> l.ready]
  OBVIOUS
<1> HIDE DEF l
<1>9. LobbyTyped(l)
  BY <1>1, <1>3, <1>5, <1>7, <1>8 DEF LobbyTyped
<1> QED BY <1>3, <1>4, <1>6, <1>7, <1>9 DEF v, D, old

\* There is an id that no player has.
LEMMA AvailableId ==
  ASSUME NEW w, IInv(w)
  PROVE  LET id == get_avail_player_id(w)
         IN  id \in Nat /\ id >= 2 /\ PeersWith(w, Host, id) = {}
<1> DEFINE N == Cardinality(Members)
           D == {n \in Members : w.peer[Host][n] # None}
           Free == {id \in 2..(N + 1) : PeersWith(w, Host, id) = {}}
<1>1. N \in Nat /\ IsFiniteSet(Members)
  BY TheMembers, FS_CardinalityType
<1>2. IsFiniteSet(D) /\ Cardinality(D) \in Nat /\ Cardinality(D) < N
  <2>1. w.peer[Host][Host] = None
    BY DEF IInv, HostOK
  <2>2. D \in SUBSET Members /\ Host \in Members /\ Host \notin D
    BY <2>1, TheMembers
  <2> HIDE DEF D
  <2>3. IsFiniteSet(D) /\ Cardinality(D) <= N /\ (Cardinality(D) = N => D = Members)
    BY <1>1, <2>2, FS_Subset
  <2>4. Cardinality(D) \in Nat
    BY <2>3, FS_CardinalityType
  <2> QED BY <1>1, <2>2, <2>3, <2>4
<1>3. Free # {}
  <2>1. SUFFICES ASSUME Free = {} PROVE FALSE
    OBVIOUS
  <2> DEFINE R == 2..(N + 1)
             g == [id \in R |-> CHOOSE n \in PeersWith(w, Host, id) : TRUE]
  <2>2. ASSUME NEW id \in R PROVE g[id] \in D /\ w.peer[Host][g[id]].id = id
    <3>1. PeersWith(w, Host, id) # {}
      BY <2>1
    <3>2. g[id] \in PeersWith(w, Host, id)
      BY <3>1
    <3> HIDE DEF g
    <3> QED BY <3>2 DEF PeersWith
  <2>3. g \in [R -> D]
    <3>1. g = [id \in R |-> g[id]]
      OBVIOUS
    <3> HIDE DEF g, R, D
    <3> QED BY <2>2, <3>1
  <2>4. IsInjective(g)
    <3>1. DOMAIN g = R
      OBVIOUS
    <3> HIDE DEF g, R, D
    <3> QED BY <2>2, <3>1 DEF IsInjective
  <2>5. IsFiniteSet(R) /\ Cardinality(R) = N
    <3>1. 2 \in Int /\ N + 1 \in Int
      BY <1>1
    <3>2. Cardinality(R) = IF 2 > N + 1 THEN 0 ELSE (N + 1) - 2 + 1
      BY <3>1, FS_Interval
    <3>3. IsFiniteSet(R)
      BY <3>1, FS_Interval
    <3> HIDE DEF R
    <3> QED BY <1>1, <3>2, <3>3
  <2> HIDE DEF g, R, D
  <2>6. g \in Injection(R, D)
    BY <2>3, <2>4 DEF Injection
  <2>7. Cardinality(R) <= Cardinality(D)
    BY <1>2, <2>6, FS_Injection
  <2> QED BY <1>1, <1>2, <2>5, <2>7
<1>4. PICK id \in Free : \A k \in Free : id <= k
  <2>1. Free \in SUBSET Nat
    BY <1>1
  <2> HIDE DEF Free
  <2> QED BY <1>3, <2>1, LeastNumber
<1>5. /\ id \in 2..(N + 1) /\ PeersWith(w, Host, id) = {}
      /\ \A k \in 2..(id - 1) : PeersWith(w, Host, k) # {}
  <2>1. \A k \in 2..(id - 1) : k \in 2..(N + 1) /\ ~(id <= k)
    BY <1>1, <1>4
  <2> QED BY <1>4, <2>1
<1> DEFINE best == CHOOSE i \in 2..(N + 1) :
                     PeersWith(w, Host, i) = {} /\ \A k \in 2..(i - 1) : PeersWith(w, Host, k) # {}
<1>6. best \in 2..(N + 1) /\ PeersWith(w, Host, best) = {}
  BY <1>5
<1>7. get_avail_player_id(w) = best
  BY DEF get_avail_player_id
<1> HIDE DEF best
<1> QED BY <1>1, <1>6, <1>7

\* The host's own record changes, but neither its registry nor the game.
LEMMA HostRecord ==
  ASSUME NEW w, IInv(w), ~IsOut(w, Host), NEW r \in MemberRecords,
         r.my_id = w.member[Host].my_id, r.reg = w.member[Host].reg,
         r.nations = w.member[Host].nations,
         \/ r.phase = w.member[Host].phase
         \/ w.member[Host].phase = "setting" /\ r.phase = "playing"
  PROVE  IInv([w EXCEPT !.member[Host] = r])
<1> USE TheMembers
<1> DEFINE f == [w.member EXCEPT ![Host] = r]
           v == [w EXCEPT !.member = f]
<1>1. IsWorld(w) /\ MembersTyped(w.member) /\ TypeOK(w)
  BY DEF IInv, TypeOK
<1>2. [w EXCEPT !.member[Host] = r] = v
  BY <1>1 DEF IsWorld
<1>3. /\ v.chan = w.chan /\ v.peer = w.peer /\ v.pending = w.pending /\ v.lobby = w.lobby
      /\ v.member = f /\ IsWorld(v)
  <2> HIDE DEF f
  <2> QED BY <1>1, MemberSet
<1>4. /\ MembersTyped(f) /\ f[Host] = r /\ \A m \in Clients : f[m] = w.member[m]
  BY <1>1 DEF MembersTyped
<1> HIDE DEF f, v
<1>5. TypeOK(v)
  BY <1>1, <1>3, <1>4 DEF TypeOK
<1>6. OnlyOfHost(w, v)
  BY <1>3, <1>4, <1>5 DEF OnlyOfHost
<1>7. ~IsOut(v, Host) /\ (v.member[Host].phase = "lobby" <=> w.member[Host].phase = "lobby")
  BY <1>3, <1>4 DEF IsOut
<1>8. HostOK(v)
  BY <1>3, <1>4 DEF IInv, HostOK, IsOut
<1>9. ColoursOK(v)
  BY <1>3, <1>4 DEF IInv, ColoursOK
<1>10. RegistryOK(v)
  <2>1. \A c \in Clients : IsNew(v, c) <=> IsNew(w, c)
    BY <1>3, <1>4 DEF IsNew, Carries, Way
  <2> QED BY <1>3, <1>4, <1>7, <2>1 DEF IInv, RegistryOK, PeersWith
<1> QED BY <1>2, <1>3, <1>4, <1>6, <1>8, <1>9, <1>10, HostMoves

\* The host's colour, its readiness and its count of those who have set up the game.
LEMMA HostFields ==
  ASSUME NEW w, IInv(w), ~IsOut(w, Host)
  PROVE  /\ \A x \in Colours : IInv([w EXCEPT !.member[Host].colour = x])
         /\ \A x \in BOOLEAN : IInv([w EXCEPT !.member[Host].ready = x])
         /\ IInv([w EXCEPT !.member[Host].ended = @ + 1])
         /\ w.member[Host].phase = "setting" => IInv([w EXCEPT !.member[Host].phase = "playing"])
<1>1. /\ w.member[Host] \in MemberRecords /\ Host \in Members /\ IsWorld(w)
      /\ MembersTyped(w.member)
  BY Parts, TheMembers DEF IInv, TypeOK
<1> DEFINE o == w.member[Host]
<1>2. ASSUME NEW x \in Colours PROVE IInv([w EXCEPT !.member[Host].colour = x])
  <2> DEFINE r == [o EXCEPT !.colour = x]
  <2>1. r \in MemberRecords
    BY <1>1, <1>2, FieldChanged
  <2>2. r.my_id = o.my_id /\ r.reg = o.reg /\ r.nations = o.nations /\ r.phase = o.phase
    BY <1>1 DEF MemberRecords
  <2>3. [w EXCEPT !.member[Host].colour = x] = [w EXCEPT !.member[Host] = r]
    BY <1>1 DEF IsWorld, MembersTyped
  <2> HIDE DEF r
  <2> QED BY <2>1, <2>2, <2>3, HostRecord
<1>3. ASSUME NEW x \in BOOLEAN PROVE IInv([w EXCEPT !.member[Host].ready = x])
  <2> DEFINE r == [o EXCEPT !.ready = x]
  <2>1. r \in MemberRecords
    BY <1>1, <1>3, FieldChanged
  <2>2. r.my_id = o.my_id /\ r.reg = o.reg /\ r.nations = o.nations /\ r.phase = o.phase
    BY <1>1 DEF MemberRecords
  <2>3. [w EXCEPT !.member[Host].ready = x] = [w EXCEPT !.member[Host] = r]
    BY <1>1 DEF IsWorld, MembersTyped
  <2> HIDE DEF r
  <2> QED BY <2>1, <2>2, <2>3, HostRecord
<1>4. IInv([w EXCEPT !.member[Host].ended = @ + 1])
  <2> DEFINE r == [o EXCEPT !.ended = o.ended + 1]
  <2>1. r \in MemberRecords
    <3>1. o.ended + 1 \in Nat
      BY <1>1 DEF MemberRecords
    <3> QED BY <1>1, <3>1, FieldChanged
  <2>2. r.my_id = o.my_id /\ r.reg = o.reg /\ r.nations = o.nations /\ r.phase = o.phase
    BY <1>1 DEF MemberRecords
  <2>3. [w EXCEPT !.member[Host].ended = @ + 1] = [w EXCEPT !.member[Host] = r]
    BY <1>1 DEF IsWorld, MembersTyped
  <2> HIDE DEF r
  <2> QED BY <2>1, <2>2, <2>3, HostRecord
<1>5. ASSUME o.phase = "setting" PROVE IInv([w EXCEPT !.member[Host].phase = "playing"])
  <2> DEFINE r == [o EXCEPT !.phase = "playing"]
  <2>1. r \in MemberRecords /\ r.phase = "playing"
    BY <1>1, FieldChanged DEF Phases
  <2>2. r.my_id = o.my_id /\ r.reg = o.reg /\ r.nations = o.nations
    BY <1>1 DEF MemberRecords
  <2>3. [w EXCEPT !.member[Host].phase = "playing"] = [w EXCEPT !.member[Host] = r]
    BY <1>1 DEF IsWorld, MembersTyped
  <2> HIDE DEF r
  <2> QED BY <1>5, <2>1, <2>2, <2>3, HostRecord
<1> QED BY <1>2, <1>3, <1>4, <1>5

\* What the host keeps of the lobby changes.
LEMMA HostLobby ==
  ASSUME NEW w, IInv(w), NEW l, LobbyTyped(l),
         NEW v, v = [w EXCEPT !.lobby = l], ColoursOK(v)
  PROVE  IInv(v) /\ v.member = w.member /\ v.peer = w.peer
<1> USE TheMembers
<1>1. IsWorld(w) /\ TypeOK(w)
  BY DEF IInv, TypeOK
<1>2. /\ IsWorld(v) /\ v.lobby = l /\ v.member = w.member /\ v.peer = w.peer
      /\ v.pending = w.pending /\ v.chan = w.chan
  BY <1>1, LobbySet
<1>3. TypeOK(v)
  BY <1>1, <1>2 DEF TypeOK
<1>4. OnlyOfHost(w, v)
  BY <1>2, <1>3 DEF OnlyOfHost
<1>5. HostOK(v)
  BY <1>2 DEF IInv, HostOK, IsOut
<1>6. RegistryOK(v)
  <2>1. \A c \in Clients : IsNew(v, c) <=> IsNew(w, c)
    BY <1>2 DEF IsNew, Carries, Way
  <2> QED BY <1>2, <2>1 DEF IInv, RegistryOK, PeersWith
<1> QED BY <1>2, <1>4, <1>5, <1>6, HostMoves

\* Who is ready changes.
LEMMA HostReady ==
  ASSUME NEW w, IInv(w), ~IsOut(w, Host), NEW x, x \subseteq ToSet(w.member[Host].reg)
  PROVE  IInv([w EXCEPT !.lobby.ready = x]) /\ [w EXCEPT !.lobby.ready = x].member = w.member
<1> DEFINE l == [w.lobby EXCEPT !.ready = x]
           v == [w EXCEPT !.lobby = l]
<1>1. IsWorld(w) /\ LobbyTyped(w.lobby) /\ w.member[Host].reg \in Seq(Ids)
  <2>1. w.member[Host] \in MemberRecords
    BY Parts, TheMembers
  <2> QED BY <2>1 DEF IInv, TypeOK, MemberRecords
<1>2. [w EXCEPT !.lobby.ready = x] = v
  BY <1>1 DEF IsWorld
<1>3. /\ l = [colour |-> w.lobby.colour, assigned |-> w.lobby.assigned, ready |-> x]
  BY <1>1 DEF LobbyTyped
<1> HIDE DEF l
<1>4. l.colour = w.lobby.colour /\ l.assigned = w.lobby.assigned /\ l.ready = x
  BY <1>3
<1>5. x \subseteq Ids
  <2>1. \A e \in ToSet(w.member[Host].reg) : e \in Ids
    BY <1>1 DEF ToSet
  <2> QED BY <2>1
<1>6. LobbyTyped(l)
  BY <1>1, <1>3, <1>4, <1>5 DEF LobbyTyped
<1>7. v.lobby = l /\ v.member = w.member
  BY <1>1, LobbySet
<1> HIDE DEF v
<1>8. ColoursOK(v)
  BY <1>4, <1>7 DEF IInv, ColoursOK, IsOut
<1>9. IInv(v) /\ v.member = w.member
  BY <1>6, <1>8, HostLobby DEF v
<1> QED BY <1>2, <1>9

\* A registered player gets a colour that nobody has.
LEMMA HostColours ==
  ASSUME NEW w, IInv(w), ~IsOut(w, Host), NEW id \in ToSet(w.member[Host].reg),
         NEW c \in Colours, c \notin w.lobby.assigned
  PROVE  IInv(Coloured(w, id, c)) /\ Coloured(w, id, c).member = w.member
<1> DEFINE v == Coloured(w, id, c)
<1>1. IsWorld(w) /\ LobbyTyped(w.lobby) /\ id \in Ids
  <2>1. w.member[Host] \in MemberRecords
    BY Parts, TheMembers
  <2>2. w.member[Host].reg \in Seq(Ids)
    BY <2>1 DEF MemberRecords
  <2> QED BY <2>2 DEF IInv, TypeOK, ToSet
<1>2. /\ DOMAIN w.lobby.colour = ToSet(w.member[Host].reg)
      /\ w.lobby.assigned = {w.lobby.colour[i] : i \in DOMAIN w.lobby.colour}
      /\ \A i, j \in DOMAIN w.lobby.colour : w.lobby.colour[i] = w.lobby.colour[j] => i = j
      /\ w.lobby.ready \subseteq ToSet(w.member[Host].reg)
  BY DEF IInv, ColoursOK
<1>3. /\ IsWorld(v) /\ LobbyTyped(v.lobby)
      /\ v.member = w.member /\ v.peer = w.peer /\ v.pending = w.pending /\ v.chan = w.chan
      /\ DOMAIN v.lobby.colour = DOMAIN w.lobby.colour \cup {id}
      /\ v.lobby.assigned = {v.lobby.colour[i] : i \in DOMAIN v.lobby.colour}
      /\ \A i, j \in DOMAIN v.lobby.colour : v.lobby.colour[i] = v.lobby.colour[j] => i = j
      /\ v.lobby.ready = w.lobby.ready
  BY <1>1, <1>2, ColouredIs
<1> HIDE DEF v
<1>4. ColoursOK(v)
  BY <1>2, <1>3 DEF ColoursOK
<1>5. v = [w EXCEPT !.lobby = v.lobby]
  BY <1>1, <1>3 DEF IsWorld
<1>6. IInv(v)
  BY <1>3, <1>4, <1>5, HostLobby
<1> QED BY <1>3, <1>6 DEF v

\* What the host knows of a player who is connected to it changes, but not the player's id; or a
\* player is added under an id that nobody has.
LEMMA HostPeer ==
  ASSUME NEW w, IInv(w), ~IsOut(w, Host), NEW c \in Clients, NEW p \in Players, p.id >= 2,
         IF w.peer[Host][c] # None THEN p.id = w.peer[Host][c].id
         ELSE PeersWith(w, Host, p.id) = {}
  PROVE  LET v == [w EXCEPT !.peer[Host][c] = p] IN IInv(v) /\ v.member = w.member
<1> USE TheMembers
<1> DEFINE f == [w.peer EXCEPT ![Host][c] = p]
           v == [w EXCEPT !.peer = f]
<1>1. IsWorld(w) /\ PeersTyped(w.peer) /\ TypeOK(w)
  BY DEF IInv, TypeOK
<1>2. [w EXCEPT !.peer[Host][c] = p] = v
  BY <1>1 DEF IsWorld
<1>3. /\ IsWorld(v) /\ v.peer = f /\ v.member = w.member /\ v.pending = w.pending
      /\ v.chan = w.chan /\ v.lobby = w.lobby
  <2> HIDE DEF f
  <2> QED BY <1>1, PeerSet
<1>4. /\ PeersTyped(f) /\ f[Host][c] = p /\ p # None
      /\ \A n \in Members : n # c => f[Host][n] = w.peer[Host][n]
      /\ \A m \in Clients : f[m] = w.peer[m]
  BY <1>1, SetupAssumption DEF PeersTyped
<1> HIDE DEF f, v
<1>5. TypeOK(v)
  BY <1>1, <1>3, <1>4 DEF TypeOK
<1>6. OnlyOfHost(w, v)
  BY <1>3, <1>4, <1>5 DEF OnlyOfHost
<1>7. HostOK(v)
  <2>1. ASSUME NEW m \in Members, v.peer[Host][m] # None
        PROVE  /\ v.peer[Host][m].id >= 2
               /\ \A n \in Members :
                    v.peer[Host][n] # None /\ v.peer[Host][n].id = v.peer[Host][m].id => m = n
    <3>1. /\ \A x \in Members : w.peer[Host][x] # None =>
               /\ w.peer[Host][x].id >= 2
               /\ \A y \in Members :
                    w.peer[Host][y] # None /\ w.peer[Host][y].id = w.peer[Host][x].id => x = y
      BY DEF IInv, HostOK
    <3>2. CASE w.peer[Host][c] # None
      BY <1>3, <1>4, <2>1, <3>1, <3>2
    <3>3. CASE w.peer[Host][c] = None
      <4>1. \A x \in Members : w.peer[Host][x] # None => w.peer[Host][x].id # p.id
        BY <3>3 DEF PeersWith
      <4> QED BY <1>3, <1>4, <2>1, <3>1, <3>3, <4>1
    <3> QED BY <3>2, <3>3
  <2>2. v.peer[Host][Host] = None
    BY <1>3, <1>4 DEF IInv, HostOK
  <2> QED BY <1>3, <2>1, <2>2 DEF IInv, HostOK, IsOut
<1>8. ColoursOK(v)
  BY <1>3 DEF IInv, ColoursOK, IsOut
<1>9. RegistryOK(v)
  <2>1. \A d \in Clients : IsNew(v, d) <=> IsNew(w, d)
    BY <1>3 DEF IsNew, Carries, Way
  <2>2. ASSUME v.member[Host].phase = "lobby", NEW id \in ToSet(v.member[Host].reg), id # 1
        PROVE  PeersWith(v, Host, id) # {}
    <3>1. PICK n \in Members : w.peer[Host][n] # None /\ w.peer[Host][n].id = id
      BY <1>3, <2>2 DEF IInv, RegistryOK, PeersWith
    <3>2. v.peer[Host][n] # None /\ v.peer[Host][n].id = id
      BY <1>3, <1>4, <3>1
    <3> QED BY <3>2 DEF PeersWith
  <2>3. ASSUME v.member[Host].phase = "lobby", NEW d \in Clients, v.peer[Host][d] # None, IsNew(v, d)
        PROVE  v.peer[Host][d].id \notin ToSet(v.member[Host].reg)
    <3>1. CASE d # c \/ w.peer[Host][c] # None
      BY <1>3, <1>4, <2>1, <2>3, <3>1 DEF IInv, RegistryOK
    <3>2. CASE d = c /\ w.peer[Host][c] = None
      <4>1. p.id # 1 /\ v.peer[Host][d].id = p.id
        BY <1>3, <1>4, <3>2
      <4> QED BY <1>3, <2>3, <3>2, <4>1 DEF IInv, RegistryOK
    <3> QED BY <3>1, <3>2
  <2> QED BY <2>2, <2>3 DEF RegistryOK
<1>10. \A d \in Clients : v.peer[Host][d] = w.peer[Host][d]
           \/ (v.peer[Host][d] # None /\ w.peer[Host][d] # None
                 /\ v.peer[Host][d].id = w.peer[Host][d].id)
           \/ w.member[d].phase = "out" \/ w.peer[Host][d] = None
  BY <1>3, <1>4
<1>11. IInv(v)
  BY <1>3, <1>6, <1>7, <1>8, <1>9, <1>10, HostMoves
<1> QED BY <1>2, <1>3, <1>11

\* The host finds another member connected.
LEMMA HostConnected ==
  ASSUME NEW w, IInv(w), ~IsOut(w, Host), NEW b \in Clients
  PROVE  LET v == Connected(w, Host, b)
         IN  IInv(v) /\ v.member = w.member
<1> DEFINE v == Connected(w, Host, b)
           id == get_avail_player_id(w)
<1>1. /\ Host \in Members /\ b \in Members /\ b # Host
      /\ IsWorld(w) /\ w.pending[Host] = {} /\ w.peer[Host][b] \in Players \cup {None}
      /\ w.member[Host].phase \in {"lobby", "setting", "playing"}
  BY TheMembers, Parts DEF IInv, HostOK, IsOut
<1>2. ASSUME NEW u, IInv(u), u.member = w.member, NEW k \in {"CONNECT", "DISCONNECT"}
      PROVE  IInv(Put(u, Host, b, [msg |-> k])) /\ Put(u, Host, b, [msg |-> k]).member = w.member
  <2> DEFINE e == [msg |-> k]
  <2>1. e \in Understood(b) /\ Harmless(u, b, e)
    BY <1>1, <1>2 DEF Understood, ToClient, Events, Harmless
  <2> HIDE DEF e
  <2>2. IInv(Put(u, Host, b, e)) /\ Put(u, Host, b, e).member = w.member
    BY <1>1, <1>2, <2>1, PutIsCalm, PutKeeps
  <2> QED BY <2>2 DEF e
<1>3. CASE w.peer[Host][b] # None
  <2> DEFINE p == [w.peer[Host][b] EXCEPT !.state = "connected"]
             u == [w EXCEPT !.peer[Host][b] = p]
  <2>1. p \in Players /\ p.id = w.peer[Host][b].id
    <3>1. w.peer[Host][b] \in Players
      BY <1>1, <1>3
    <3> QED BY <3>1 DEF Players
  <2>2. [w EXCEPT !.peer[Host][b].state = "connected"] = u
    BY <1>1 DEF IsWorld, IInv, TypeOK, PeersTyped
  <2> HIDE DEF p
  <2>3. IInv(u) /\ u.member = w.member
    <3>1. p.id >= 2
      BY <1>1, <1>3, <2>1 DEF IInv, HostOK
    <3> QED BY <1>3, <2>1, <3>1, HostPeer
  <2>4. v = Put(u, Host, b, [msg |-> "CONNECT"])
    BY <1>3, <2>2 DEF Connected
  <2> HIDE DEF u
  <2> QED BY <1>2, <2>3, <2>4
<1>4. CASE w.peer[Host][b] = None /\ IsPregame(w, Host)
  <2> DEFINE d == Player(id, FALSE, "connected")
  <2>1. v = [w EXCEPT !.peer[Host][b] = d]
    BY <1>1, <1>4 DEF Connected
  <2>2. id \in Nat /\ id >= 2 /\ PeersWith(w, Host, id) = {}
    BY AvailableId
  <2> HIDE DEF id
  <2>3. d \in Players /\ d.id = id
    BY <2>2 DEF Player, Players
  <2> HIDE DEF d
  <2> QED BY <1>4, <2>1, <2>2, <2>3, HostPeer
<1>5. CASE w.peer[Host][b] = None /\ ~IsPregame(w, Host)
  <2>1. v = Put(w, Host, b, [msg |-> "DISCONNECT"])
    BY <1>1, <1>5 DEF Connected
  <2> QED BY <1>2, <2>1
<1> QED BY <1>3, <1>4, <1>5

\* The host loses a player after it has left the lobby.
LEMMA HostLoses ==
  ASSUME NEW w, IInv(w), w.member[Host].phase # "lobby", NEW c \in Clients
  PROVE  IInv([w EXCEPT !.peer[Host][c] = None])
<1> USE TheMembers
<1> DEFINE f == [w.peer EXCEPT ![Host][c] = None]
           v == [w EXCEPT !.peer = f]
<1>1. IsWorld(w) /\ PeersTyped(w.peer) /\ TypeOK(w)
  BY DEF IInv, TypeOK
<1>2. [w EXCEPT !.peer[Host][c] = None] = v
  BY <1>1 DEF IsWorld
<1>3. /\ IsWorld(v) /\ v.peer = f /\ v.member = w.member /\ v.pending = w.pending
      /\ v.chan = w.chan /\ v.lobby = w.lobby
  <2> HIDE DEF f
  <2> QED BY <1>1, PeerSet
<1>4. /\ PeersTyped(f) /\ f[Host][c] = None
      /\ \A n \in Members : n # c => f[Host][n] = w.peer[Host][n]
      /\ \A m \in Clients : f[m] = w.peer[m]
  BY <1>1 DEF PeersTyped
<1> HIDE DEF f, v
<1>5. TypeOK(v)
  BY <1>1, <1>3, <1>4 DEF TypeOK
<1>6. OnlyOfHost(w, v)
  BY <1>3, <1>4, <1>5 DEF OnlyOfHost
<1>7. HostOK(v)
  BY <1>3, <1>4 DEF IInv, HostOK, IsOut
<1>8. ColoursOK(v)
  BY <1>3 DEF IInv, ColoursOK, IsOut
<1>9. RegistryOK(v)
  BY <1>3 DEF RegistryOK
<1>10. IInv(v)
  BY <1>3, <1>6, <1>7, <1>8, <1>9, HostMoves
<1> QED BY <1>2, <1>10

\* The host in the lobby loses a player, who is gone: it forgets the player's place and colour.
LEMMA HostForgets ==
  ASSUME NEW w, IInv(w), w.member[Host].phase = "lobby", NEW c \in Clients,
         w.member[c].phase = "out", w.peer[Host][c] # None
  PROVE  LET v == Forgotten([w EXCEPT !.peer[Host][c] = None], w.peer[Host][c].id)
         IN  IInv(v)
<1> USE TheMembers
<1> DEFINE id == w.peer[Host][c].id
           old == w.lobby.colour
           reg == RemoveFirst(w.member[Host].reg, id)
           r == [w.member[Host] EXCEPT !.reg = reg]
           fm == [w.member EXCEPT ![Host] = r]
           fp == [w.peer EXCEPT ![Host][c] = None]
           new == [k \in DOMAIN old \ {id} |-> old[k]]
           free == IF id \in DOMAIN old THEN w.lobby.assigned \ {old[id]} ELSE w.lobby.assigned
           l == [colour |-> new, assigned |-> free, ready |-> w.lobby.ready \ {id}]
           v == [w EXCEPT !.member = fm, !.peer = fp, !.lobby = l]
<1>1. /\ IsWorld(w) /\ MembersTyped(w.member) /\ PeersTyped(w.peer) /\ LobbyTyped(w.lobby)
      /\ w.member[Host] \in MemberRecords /\ TypeOK(w)
  BY Parts DEF IInv, TypeOK
<1>2. /\ w.lobby = [colour |-> old, assigned |-> w.lobby.assigned, ready |-> w.lobby.ready]
      /\ old \in [DOMAIN old -> Colours] /\ w.lobby.assigned \subseteq Colours
      /\ w.lobby.ready \subseteq Ids
  BY <1>1 DEF LobbyTyped
<1>3. Forgotten([w EXCEPT !.peer[Host][c] = None], id) = v
  <2> DEFINE u == [w EXCEPT !.peer[Host][c] = None]
  <2>1. u = [w EXCEPT !.peer = fp]
    BY <1>1 DEF IsWorld
  <2>2. u.lobby = w.lobby /\ u.member = w.member
    BY <1>1 DEF IsWorld
  <2>3. Unregistered(u, Host, id) = [u EXCEPT !.member = fm]
    BY <1>1, <2>1, <2>2 DEF Unregistered, IsWorld, MembersTyped, MemberRecords
  <2> DEFINE x == [u EXCEPT !.member = fm]
  <2>4. x.lobby = w.lobby
    BY <1>1, <2>1 DEF IsWorld
  <2> HIDE DEF u, x
  <2> DEFINE l1 == [w.lobby EXCEPT !.ready = w.lobby.ready \ {id}]
             l2 == [l1 EXCEPT !.colour = new]
             l3 == [l2 EXCEPT !.assigned = free]
  <2>5. Forgotten(u, id) = [x EXCEPT !.lobby = l3]
    <3>1. x.lobby = w.lobby /\ x = Unregistered(u, Host, id)
      BY <2>3, <2>4 DEF x
    <3>2. IsWorld(x)
      <4> HIDE DEF fm, fp
      <4>1. IsWorld(u)
        BY <1>1, <2>1, PeerSet
      <4>2. IsWorld([u EXCEPT !.member = fm])
        BY <4>1, MemberSet
      <4> QED BY <4>2 DEF x
    <3> QED BY <2>2, <3>1, <3>2 DEF Forgotten, IsWorld
  <2>6. l3 = l
    <3> HIDE DEF new, free, id
    <3>1. l1 = [colour |-> old, assigned |-> w.lobby.assigned, ready |-> w.lobby.ready \ {id}]
      <4> DEFINE b == w.lobby
                 free1 == w.lobby.assigned
                 rest == w.lobby.ready \ {id}
      <4>1. b = [colour |-> old, assigned |-> free1, ready |-> w.lobby.ready]
        BY <1>2
      <4> HIDE DEF b, old, free1, rest
      <4>2. [b EXCEPT !.ready = rest] = [colour |-> old, assigned |-> free1, ready |-> rest]
        BY ONLY <4>1
      <4> QED BY <4>2 DEF b, free1, rest
    <3> HIDE DEF l1, old
    <3>2. l2 = [colour |-> new, assigned |-> w.lobby.assigned, ready |-> w.lobby.ready \ {id}]
      BY <3>1
    <3> HIDE DEF l2
    <3>3. l3 = [colour |-> new, assigned |-> free, ready |-> w.lobby.ready \ {id}]
      BY <3>2
    <3> QED BY <3>3
  <2> HIDE DEF l3, l, fm, fp
  <2>7. [x EXCEPT !.lobby = l] = v
    BY <1>1, <2>1 DEF x, IsWorld
  <2> QED BY <2>5, <2>6, <2>7 DEF u
<1>4. /\ v.member = fm /\ v.peer = fp /\ v.lobby = l /\ v.pending = w.pending /\ v.chan = w.chan
      /\ IsWorld(v)
  <2> DEFINE v1 == [w EXCEPT !.member = fm]
             v2 == [v1 EXCEPT !.peer = fp]
             v3 == [v2 EXCEPT !.lobby = l]
  <2>1. v = v3
    OBVIOUS
  <2> HIDE DEF fm, fp, l, v
  <2>2. /\ IsWorld(v1) /\ v1.member = fm /\ v1.peer = w.peer /\ v1.pending = w.pending
        /\ v1.chan = w.chan /\ v1.lobby = w.lobby
    BY <1>1, MemberSet
  <2> HIDE DEF v1
  <2>3. /\ IsWorld(v2) /\ v2.member = fm /\ v2.peer = fp /\ v2.pending = w.pending
        /\ v2.chan = w.chan /\ v2.lobby = w.lobby
    BY <2>2, PeerSet
  <2> HIDE DEF v2
  <2>4. /\ IsWorld(v3) /\ v3.member = fm /\ v3.peer = fp /\ v3.pending = w.pending
        /\ v3.chan = w.chan /\ v3.lobby = l
    BY <2>3, LobbySet
  <2> QED BY <2>1, <2>4
<1> HIDE DEF v
<1>5. /\ id >= 2 /\ id \in Nat
      /\ \A n \in Members : w.peer[Host][n] # None /\ w.peer[Host][n].id = id => n = c
      /\ IsInjective(w.member[Host].reg) /\ w.member[Host].reg # <<>> /\ w.member[Host].reg[1] = 1
  <2>1. w.peer[Host][c] \in Players
    BY Parts
  <2>2. id \in Nat
    BY <2>1 DEF Players
  <2> QED BY <2>2 DEF IInv, HostOK, IsOut
<1>6. /\ reg \in Seq(Ids) /\ reg # <<>> /\ reg[1] = 1 /\ IsInjective(reg)
      /\ ToSet(reg) = ToSet(w.member[Host].reg) \ {id}
  <2>1. w.member[Host].reg \in Seq(Ids) /\ w.member[Host].reg[1] # id
    BY <1>1, <1>5 DEF MemberRecords
  <2> HIDE DEF id
  <2> QED BY <1>5, <2>1, Removed
<1> HIDE DEF reg
<1>7. /\ r \in MemberRecords /\ r.reg = reg /\ r.phase = w.member[Host].phase
      /\ r.my_id = w.member[Host].my_id /\ r.nations = w.member[Host].nations
  BY <1>1, <1>6, FieldChanged DEF MemberRecords
<1> HIDE DEF r
<1>8. MembersTyped(fm) /\ fm[Host] = r /\ \A m \in Clients : fm[m] = w.member[m]
  BY <1>1, <1>7 DEF MembersTyped
<1>9. /\ PeersTyped(fp) /\ fp[Host][c] = None
      /\ \A n \in Members : n # c => fp[Host][n] = w.peer[Host][n]
      /\ \A m \in Clients : fp[m] = w.peer[m]
  BY <1>1 DEF PeersTyped
<1>10. l.colour = new /\ l.assigned = free /\ l.ready = w.lobby.ready \ {id}
  OBVIOUS
<1>11. /\ DOMAIN new = DOMAIN old \ {id} /\ new \in [DOMAIN new -> Colours]
       /\ \A k \in DOMAIN new : new[k] = old[k]
  BY <1>2
<1>12. free \subseteq Colours /\ l = [colour |-> l.colour, assigned |-> l.assigned, ready |-> l.ready]
  BY <1>2
<1>13. /\ DOMAIN old = ToSet(w.member[Host].reg)
       /\ w.lobby.assigned = {old[i] : i \in DOMAIN old}
       /\ \A i, j \in DOMAIN old : old[i] = old[j] => i = j
       /\ w.lobby.ready \subseteq ToSet(w.member[Host].reg)
  BY DEF IInv, ColoursOK, IsOut
<1>14. free = {new[i] : i \in DOMAIN new}
  <2>1. \A x \in free : \E i \in DOMAIN new : x = new[i]
    <3>1. ASSUME NEW x \in free PROVE \E i \in DOMAIN new : x = new[i]
      <4>1. x \in w.lobby.assigned /\ (id \in DOMAIN old => x # old[id])
        OBVIOUS
      <4> HIDE DEF new, free, id, old
      <4>2. PICK i \in DOMAIN old : x = old[i]
        BY <1>13, <4>1
      <4>3. i \in DOMAIN new /\ new[i] = x
        BY <1>11, <4>1, <4>2
      <4> QED BY <4>3
    <3> QED BY <3>1
  <2>2. \A i \in DOMAIN new : new[i] \in free
    <3>1. ASSUME NEW i \in DOMAIN new PROVE old[i] \in w.lobby.assigned /\ (id \in DOMAIN old => old[i] # old[id])
      <4> HIDE DEF new, free, id, old
      <4> QED BY <1>11, <1>13, <3>1
    <3>2. ASSUME NEW i \in DOMAIN new PROVE old[i] \in free
      <4>1. old[i] \in w.lobby.assigned /\ (id \in DOMAIN old => old[i] # old[id])
        BY <3>1, <3>2
      <4> HIDE DEF new, id, old
      <4> QED BY <4>1
    <3> HIDE DEF new, free, id, old
    <3> QED BY <1>11, <3>2
  <2> HIDE DEF new, free, id, old
  <2> QED BY <2>1, <2>2
<1> HIDE DEF fm, fp, new, free, l
<1>15. TypeOK(v)
  <2>1. l.ready \subseteq Ids
    BY <1>2, <1>10
  <2>2. LobbyTyped(l)
    BY <1>10, <1>11, <1>12, <2>1 DEF LobbyTyped
  <2> QED BY <1>1, <1>4, <1>8, <1>9, <2>2 DEF TypeOK
<1>16. OnlyOfHost(w, v)
  BY <1>4, <1>8, <1>9, <1>15 DEF OnlyOfHost
<1>17. HostOK(v)
  <2>1. \A m \in Members : v.peer[Host][m] # None => m # c /\ v.peer[Host][m] = w.peer[Host][m]
    BY <1>4, <1>9
  <2>2. v.peer[Host][Host] = None
    BY <1>4, <1>9 DEF IInv, HostOK
  <2> QED BY <1>4, <1>6, <1>7, <1>8, <2>1, <2>2 DEF IInv, HostOK, IsOut
<1>18. ColoursOK(v)
  <2>1. /\ DOMAIN new = ToSet(reg)
        /\ \A i, j \in DOMAIN new : new[i] = new[j] => i = j
        /\ l.ready \subseteq ToSet(reg)
    <3> HIDE DEF id, old
    <3> QED BY <1>6, <1>10, <1>11, <1>13
  <2> QED BY <1>4, <1>7, <1>8, <1>10, <1>14, <2>1 DEF ColoursOK
<1>19. RegistryOK(v)
  <2>1. \A d \in Clients : IsNew(v, d) <=> IsNew(w, d)
    BY <1>4, <1>8 DEF IsNew, Carries, Way
  <2>2. ASSUME NEW k \in ToSet(v.member[Host].reg), k # 1
        PROVE  PeersWith(v, Host, k) # {}
    <3>1. k \in ToSet(w.member[Host].reg) /\ k # id
      BY <1>4, <1>6, <1>7, <1>8, <2>2
    <3>2. PICK n \in Members : w.peer[Host][n] # None /\ w.peer[Host][n].id = k
      BY <2>2, <3>1 DEF IInv, RegistryOK, PeersWith
    <3>3. n # c
      BY <3>1, <3>2
    <3>4. v.peer[Host][n] # None /\ v.peer[Host][n].id = k
      BY <1>4, <1>9, <3>2, <3>3
    <3> QED BY <3>4 DEF PeersWith
  <2>3. ASSUME NEW d \in Clients, v.peer[Host][d] # None, IsNew(v, d)
        PROVE  v.peer[Host][d].id \notin ToSet(v.member[Host].reg)
    <3>1. d # c /\ v.peer[Host][d] = w.peer[Host][d]
      BY <1>4, <1>9, <2>3
    <3>2. w.peer[Host][d].id \notin ToSet(w.member[Host].reg)
      BY <2>1, <2>3, <3>1 DEF IInv, RegistryOK
    <3> QED BY <1>4, <1>6, <1>7, <1>8, <3>1, <3>2
  <2> QED BY <2>2, <2>3 DEF RegistryOK
<1>20. \A d \in Clients : v.peer[Host][d] = w.peer[Host][d] \/ w.member[d].phase = "out"
  BY <1>4, <1>9
<1>21. IInv(v)
  BY <1>4, <1>7, <1>8, <1>16, <1>17, <1>18, <1>19, <1>20, HostMoves
<1> QED BY <1>3, <1>21

\* The host registers a newcomer and gives it a colour.
LEMMA HostRegisters ==
  ASSUME NEW w, IInv(w), w.member[Host].phase = "lobby", NEW c \in Clients, w.peer[Host][c] # None,
         w.peer[Host][c].id \notin ToSet(w.member[Host].reg), ~IsNew(w, c),
         NEW colour \in Colours, colour \notin w.lobby.assigned
  PROVE  LET id == w.peer[Host][c].id
             v == Coloured([w EXCEPT !.peer[Host][c].authorized = TRUE,
                                     !.member[Host].reg = Append(@, id),
                                     !.lobby.ready = @ \ {id}], id, colour)
         IN  /\ IInv(v) /\ v.member[Host].phase = "lobby"
             /\ v.peer[Host][c] # None /\ v.peer[Host][c].id = id
<1> USE TheMembers
<1> DEFINE id == w.peer[Host][c].id
           old == w.lobby.colour
           reg == Append(w.member[Host].reg, id)
           p == [w.peer[Host][c] EXCEPT !.authorized = TRUE]
           r == [w.member[Host] EXCEPT !.reg = reg]
           fm == [w.member EXCEPT ![Host] = r]
           fp == [w.peer EXCEPT ![Host][c] = p]
           l == [w.lobby EXCEPT !.ready = w.lobby.ready \ {id}]
           in == [w EXCEPT !.member = fm, !.peer = fp, !.lobby = l]
           v == Coloured(in, id, colour)
<1>1. /\ IsWorld(w) /\ MembersTyped(w.member) /\ PeersTyped(w.peer) /\ LobbyTyped(w.lobby)
      /\ w.member[Host] \in MemberRecords /\ TypeOK(w) /\ w.peer[Host][c] \in Players
  BY Parts DEF IInv, TypeOK
<1>2. [w EXCEPT !.peer[Host][c].authorized = TRUE, !.member[Host].reg = Append(@, id),
                !.lobby.ready = @ \ {id}] = in
  <2>1. [w EXCEPT !.peer[Host][c].authorized = TRUE, !.member[Host].reg = Append(@, id),
                  !.lobby.ready = @ \ {id}] = [w EXCEPT !.peer = fp, !.member = fm, !.lobby = l]
    BY <1>1 DEF IsWorld, MembersTyped, MemberRecords, PeersTyped
  <2> HIDE DEF fp, fm, l
  <2> QED BY <2>1, <1>1 DEF IsWorld
<1>3. /\ in.member = fm /\ in.peer = fp /\ in.lobby = l /\ in.pending = w.pending
      /\ in.chan = w.chan /\ IsWorld(in)
  <2> DEFINE v1 == [w EXCEPT !.member = fm]
             v2 == [v1 EXCEPT !.peer = fp]
             v3 == [v2 EXCEPT !.lobby = l]
  <2>1. in = v3
    OBVIOUS
  <2> HIDE DEF fm, fp, l, in
  <2>2. /\ IsWorld(v1) /\ v1.member = fm /\ v1.peer = w.peer /\ v1.pending = w.pending
        /\ v1.chan = w.chan /\ v1.lobby = w.lobby
    BY <1>1, MemberSet
  <2> HIDE DEF v1
  <2>3. /\ IsWorld(v2) /\ v2.member = fm /\ v2.peer = fp /\ v2.pending = w.pending
        /\ v2.chan = w.chan /\ v2.lobby = w.lobby
    BY <2>2, PeerSet
  <2> HIDE DEF v2
  <2>4. /\ IsWorld(v3) /\ v3.member = fm /\ v3.peer = fp /\ v3.pending = w.pending
        /\ v3.chan = w.chan /\ v3.lobby = l
    BY <2>3, LobbySet
  <2> QED BY <2>1, <2>4
<1> HIDE DEF in
<1>4. id >= 2 /\ id \in Ids /\ id # 1
  <2>1. id \in Nat
    BY <1>1 DEF Players
  <2>2. id >= 2
    BY DEF IInv, HostOK, IsOut
  <2> QED BY <2>1, <2>2 DEF Ids
<1>5. /\ l = [colour |-> old, assigned |-> w.lobby.assigned, ready |-> w.lobby.ready \ {id}]
      /\ LobbyTyped(l) /\ l.colour = old /\ l.assigned = w.lobby.assigned
      /\ l.ready = w.lobby.ready \ {id}
  <2> HIDE DEF id
  <2>1. l = [colour |-> old, assigned |-> w.lobby.assigned, ready |-> w.lobby.ready \ {id}]
    <3> DEFINE x == w.lobby.ready \ {id}
    <3>1. w.lobby = [colour |-> old, assigned |-> w.lobby.assigned, ready |-> w.lobby.ready]
      BY <1>1 DEF LobbyTyped
    <3>2. l = [w.lobby EXCEPT !.ready = x]
      OBVIOUS
    <3> HIDE DEF x, l
    <3>3. [w.lobby EXCEPT !.ready = x]
            = [colour |-> old, assigned |-> w.lobby.assigned, ready |-> x]
      BY <3>1
    <3> QED BY <3>2, <3>3 DEF x
  <2> HIDE DEF l
  <2>2. l.colour = old /\ l.assigned = w.lobby.assigned /\ l.ready = w.lobby.ready \ {id}
    BY <2>1
  <2> QED BY <1>1, <2>1, <2>2 DEF LobbyTyped
<1>6. /\ DOMAIN old = ToSet(w.member[Host].reg)
      /\ w.lobby.assigned = {old[i] : i \in DOMAIN old}
      /\ \A i, j \in DOMAIN old : old[i] = old[j] => i = j
      /\ w.lobby.ready \subseteq ToSet(w.member[Host].reg)
  BY DEF IInv, ColoursOK, IsOut
<1>7. /\ p \in Players /\ p.id = id /\ p # None
  BY <1>1, SetupAssumption DEF Players
<1>8. /\ reg \in Seq(Ids) /\ ToSet(reg) = ToSet(w.member[Host].reg) \cup {id}
      /\ reg # <<>> /\ reg[1] = 1 /\ IsInjective(reg)
  <2> DEFINE s == w.member[Host].reg
  <2>1. s \in Seq(Ids) /\ s # <<>> /\ s[1] = 1 /\ IsInjective(s)
    BY <1>1 DEF MemberRecords, IInv, HostOK, IsOut
  <2>2. id \notin ToSet(s)
    OBVIOUS
  <2> HIDE DEF s, id
  <2> DEFINE t == Append(s, id)
  <2>3. t \in Seq(Ids) /\ ToSet(t) = ToSet(s) \cup {id}
    BY <1>4, <2>1, Appended
  <2>4. /\ DOMAIN t = 1..(Len(s) + 1) /\ Len(s) \in Nat \ {0} /\ DOMAIN s = 1..Len(s)
        /\ t[Len(s) + 1] = id /\ \A i \in 1..Len(s) : t[i] = s[i]
    BY <1>4, <2>1
  <2>5. t # <<>>
    BY <1>4, <2>1
  <2> HIDE DEF t
  <2>6. \A i \in 1..Len(s) : t[i] # id
    BY <2>2, <2>4 DEF ToSet
  <2>7. IsInjective(t)
    BY <2>1, <2>4, <2>6 DEF IsInjective
  <2>8. t[1] = 1
    BY <2>1, <2>4
  <2> QED BY <2>3, <2>5, <2>7, <2>8 DEF s, t
<1> HIDE DEF l, reg
<1>9. /\ r \in MemberRecords /\ r.reg = reg /\ r.phase = w.member[Host].phase
      /\ r.my_id = w.member[Host].my_id /\ r.nations = w.member[Host].nations
  BY <1>1, <1>8, FieldChanged DEF MemberRecords
<1> HIDE DEF r, p
<1>10. MembersTyped(fm) /\ fm[Host] = r /\ \A m \in Clients : fm[m] = w.member[m]
  BY <1>1, <1>9 DEF MembersTyped
<1>11. /\ PeersTyped(fp) /\ fp[Host][c] = p
       /\ \A n \in Members : n # c => fp[Host][n] = w.peer[Host][n]
       /\ \A m \in Clients : fp[m] = w.peer[m]
  <2> HIDE DEF id
  <2> QED BY <1>1, <1>7 DEF PeersTyped
<1> HIDE DEF fm, fp
<1>12. /\ IsWorld(v) /\ LobbyTyped(v.lobby)
       /\ v.member = fm /\ v.peer = fp /\ v.pending = w.pending /\ v.chan = w.chan
       /\ DOMAIN v.lobby.colour = DOMAIN old \cup {id}
       /\ v.lobby.assigned = {v.lobby.colour[i] : i \in DOMAIN v.lobby.colour}
       /\ \A i, j \in DOMAIN v.lobby.colour : v.lobby.colour[i] = v.lobby.colour[j] => i = j
       /\ v.lobby.ready = w.lobby.ready \ {id}
  <2>1. /\ IsWorld(in) /\ LobbyTyped(in.lobby) /\ id \in Ids /\ in.lobby.colour = old
        /\ in.lobby.assigned = {in.lobby.colour[i] : i \in DOMAIN in.lobby.colour}
        /\ \A i, j \in DOMAIN in.lobby.colour : in.lobby.colour[i] = in.lobby.colour[j] => i = j
        /\ colour \notin in.lobby.assigned /\ in.lobby.ready = w.lobby.ready \ {id}
    <3> HIDE DEF id, old
    <3> QED BY <1>3, <1>4, <1>5, <1>6
  <2> HIDE DEF id, old
  <2>2. /\ IsWorld(v) /\ LobbyTyped(v.lobby)
        /\ v.member = in.member /\ v.peer = in.peer /\ v.pending = in.pending /\ v.chan = in.chan
        /\ DOMAIN v.lobby.colour = DOMAIN in.lobby.colour \cup {id}
        /\ v.lobby.assigned = {v.lobby.colour[i] : i \in DOMAIN v.lobby.colour}
        /\ \A i, j \in DOMAIN v.lobby.colour : v.lobby.colour[i] = v.lobby.colour[j] => i = j
        /\ v.lobby.ready = in.lobby.ready
    BY <2>1, ColouredIs
  <2> QED BY <1>3, <2>1, <2>2
<1> HIDE DEF v
<1>13. TypeOK(v)
  BY <1>1, <1>10, <1>11, <1>12 DEF TypeOK
<1>14. OnlyOfHost(w, v)
  BY <1>10, <1>11, <1>12, <1>13 DEF OnlyOfHost
<1>15. \A n \in Members : /\ v.peer[Host][n] # None <=> w.peer[Host][n] # None
                          /\ v.peer[Host][n] # None => v.peer[Host][n].id = w.peer[Host][n].id
  BY <1>7, <1>11, <1>12
<1>16. HostOK(v)
  <2>1. v.peer[Host][Host] = None
    BY <1>11, <1>12 DEF IInv, HostOK
  <2>2. \A x \in Members : w.peer[Host][x] # None =>
          /\ w.peer[Host][x].id >= 2
          /\ \A y \in Members :
               w.peer[Host][y] # None /\ w.peer[Host][y].id = w.peer[Host][x].id => x = y
    BY DEF IInv, HostOK, IsOut
  <2>3. \A x \in Members : v.peer[Host][x] # None =>
          /\ v.peer[Host][x].id >= 2
          /\ \A y \in Members :
               v.peer[Host][y] # None /\ v.peer[Host][y].id = v.peer[Host][x].id => x = y
    BY <1>15, <2>2
  <2> HIDE DEF id
  <2> QED BY <1>8, <1>9, <1>10, <1>12, <2>1, <2>3 DEF IInv, HostOK, IsOut
<1>17. ColoursOK(v)
  <2> HIDE DEF id, old
  <2> QED BY <1>6, <1>8, <1>9, <1>10, <1>12 DEF ColoursOK
<1>18. RegistryOK(v)
  <2>1. \A d \in Clients : IsNew(v, d) <=> IsNew(w, d)
    BY <1>10, <1>12 DEF IsNew, Carries, Way
  <2>2. ASSUME NEW k \in ToSet(v.member[Host].reg), k # 1
        PROVE  PeersWith(v, Host, k) # {}
    <3>1. CASE k = id
      <4>1. v.peer[Host][c] # None /\ v.peer[Host][c].id = k
        BY <1>15, <3>1
      <4> QED BY <4>1 DEF PeersWith
    <3>2. CASE k # id
      <4>1. k \in ToSet(w.member[Host].reg)
        BY <1>8, <1>9, <1>10, <1>12, <2>2, <3>2
      <4>2. PICK n \in Members : w.peer[Host][n] # None /\ w.peer[Host][n].id = k
        BY <2>2, <4>1 DEF IInv, RegistryOK, PeersWith
      <4>3. v.peer[Host][n] # None /\ v.peer[Host][n].id = k
        BY <1>15, <4>2
      <4> QED BY <4>3 DEF PeersWith
    <3> QED BY <3>1, <3>2
  <2>3. ASSUME NEW d \in Clients, v.peer[Host][d] # None, IsNew(v, d)
        PROVE  v.peer[Host][d].id \notin ToSet(v.member[Host].reg)
    <3>1. d # c /\ IsNew(w, d)
      BY <2>1, <2>3
    <3>2. w.peer[Host][d] # None /\ v.peer[Host][d].id = w.peer[Host][d].id
      BY <1>15, <2>3
    <3>3. w.peer[Host][d].id \notin ToSet(w.member[Host].reg)
      BY <3>1, <3>2 DEF IInv, RegistryOK
    <3>4. w.peer[Host][d].id # id
      BY <3>1, <3>2 DEF IInv, HostOK, IsOut
    <3> QED BY <1>8, <1>9, <1>10, <1>12, <3>2, <3>3, <3>4
  <2> QED BY <2>2, <2>3 DEF RegistryOK
<1>19. IInv(v)
  <2>1. \A d \in Clients : v.peer[Host][d] = w.peer[Host][d]
           \/ (v.peer[Host][d] # None /\ w.peer[Host][d] # None
                 /\ v.peer[Host][d].id = w.peer[Host][d].id)
    BY <1>15, <1>11, <1>12
  <2> HIDE DEF id, old
  <2> QED BY <1>9, <1>10, <1>12, <1>14, <1>16, <1>17, <1>18, <2>1, HostMoves
<1>20. v.member[Host].phase = "lobby" /\ v.peer[Host][c] # None /\ v.peer[Host][c].id = id
  BY <1>9, <1>10, <1>12, <1>15
<1> QED BY <1>2, <1>19, <1>20 DEF v

\* The host sends a player it knows the player's id.
LEMMA NumberSent ==
  ASSUME NEW w, IInv(w), w.member[Host].phase = "lobby", NEW c \in Clients, NEW id \in Ids \ {1},
         w.peer[Host][c] # None, w.peer[Host][c].id = id
  PROVE  LET v == Put(w, Host, c, [msg |-> "PLAYER_ID", id |-> id])
         IN  IInv(v) /\ v.member = w.member
<1> USE TheMembers
<1> DEFINE e == [msg |-> "PLAYER_ID", id |-> id]
           s == Append(w.chan[Host][c], e)
           v == Put(w, Host, c, e)
<1>1. IsWorld(w) /\ ChansTyped(w.chan) /\ TypeOK(w) /\ w.chan[Host][Host] = <<>>
  BY DEF IInv, TypeOK, HostOK
<1>2. CASE IsOut(w, c)
  BY <1>2 DEF Put
<1>3. CASE ~IsOut(w, c)
  <2>1. s \in Seq(Understood(c)) /\ ToSet(s) = ToSet(w.chan[Host][c]) \cup {e}
    <3>1. e \in Understood(c)
      BY DEF Understood, ToClient
    <3>2. w.chan[Host][c] \in Seq(Understood(c))
      BY Parts
    <3> HIDE DEF e
    <3> QED BY <3>1, <3>2, Appended
  <2>2. /\ IsWorld(v)
        /\ v.member = w.member /\ v.peer = w.peer /\ v.pending = w.pending /\ v.lobby = w.lobby
        /\ v.chan = [w.chan EXCEPT ![Host][c] = s]
    <3> HIDE DEF e
    <3> QED BY <1>1, <1>3, PutIs
  <2> HIDE DEF s, v
  <2>3. /\ ChansTyped(v.chan) /\ v.chan[Host][c] = s
        /\ \A x, y \in Members : x # Host \/ y # c => v.chan[x][y] = w.chan[x][y]
    <3> DEFINE f == w.chan
    <3>1. ChansTyped(f) /\ s \in Seq(Understood(c))
      BY <1>1, <2>1
    <3> HIDE DEF f
    <3>2. LET g == [f EXCEPT ![Host][c] = s]
          IN  /\ ChansTyped(g) /\ g[Host][c] = s
              /\ \A x, y \in Members : x # Host \/ y # c => g[x][y] = f[x][y]
      BY <3>1, OneChan
    <3> QED BY <2>2, <3>2 DEF f
  <2>4. \A x, y \in Members : \A m \in Way(v, x, y) :
          m \in Way(w, x, y) \/ (x = Host /\ y = c /\ m = e)
    BY <2>1, <2>3 DEF Way
  <2>5. \A x, y \in Members : \A k : Carries(v, x, y, k) /\ k # "PLAYER_ID" => Carries(w, x, y, k)
    BY <2>4 DEF Carries
  <2>6. \A m \in Members, k \in Ids : HasId(v, m, k) => HasId(w, m, k) \/ (m = c /\ k = id)
    BY <2>2, <2>4 DEF HasId
  <2>7. \A k \in Ids : HasId(w, c, k) => k = id
    BY <1>3 DEF IInv, ClientsOK, IsOut
  <2>8. \A d \in Clients : HasId(w, d, id) /\ w.member[d].phase # "out" => d = c
    <3>1. ASSUME NEW d \in Clients, HasId(w, d, id), w.member[d].phase # "out" PROVE d = c
      <4>1. w.peer[Host][d] # None /\ w.peer[Host][d].id = id
        BY <3>1 DEF IInv, ClientsOK
      <4> QED BY <4>1 DEF IInv, HostOK, IsOut
    <3> QED BY <3>1
  <2>9. TypeOK(v)
    BY <1>1, <2>2, <2>3 DEF TypeOK
  <2>10. HostOK(v) /\ v.chan[Host][Host] = <<>>
    BY <1>1, <2>2, <2>3 DEF IInv, HostOK, IsOut
  <2>11. ColoursOK(v)
    BY <2>2 DEF IInv, ColoursOK, IsOut
  <2>12. NewcomersOK(v)
    BY <2>2, <2>3, <2>5 DEF IInv, NewcomersOK
  <2>13. RegistryOK(v)
    <3>1. \A d \in Clients : IsNew(v, d) => IsNew(w, d)
      BY <2>2, <2>5 DEF IsNew
    <3> QED BY <2>2, <3>1 DEF IInv, RegistryOK, PeersWith
  <2>14. ClientsOK(v)
    <3>1. ASSUME NEW d \in Clients
          PROVE  /\ Carries(v, d, Host, "DISCONNECT") => v.member[d].phase = "out"
                 /\ ~Carries(v, d, Host, "END_SETTING")
                 /\ \A k \in Ids : HasId(v, d, k) /\ v.member[d].phase # "out"
                      => v.peer[Host][d] # None /\ v.peer[Host][d].id = k
      BY <2>2, <2>5, <2>6 DEF IInv, ClientsOK
    <3> QED BY <3>1 DEF ClientsOK
  <2>15. HostIsOne(v)
    BY <2>2 DEF IInv, HostIsOne
  <2>16. IdsOK(v)
    <3>1. ASSUME NEW d \in Clients, v.member[d].phase # "out" PROVE ~HasId(v, d, 1)
      <4>1. 1 \in Ids
        BY DEF Ids
      <4> QED BY <2>2, <2>6, <3>1, <4>1 DEF IInv, IdsOK
    <3>2. ASSUME NEW d \in Clients, NEW x \in Clients, d # x, NEW k \in Ids,
                 v.member[d].phase # "out", v.member[x].phase # "out",
                 HasId(v, d, k), HasId(v, x, k)
          PROVE  FALSE
      <4>1. CASE d = c
        BY <2>2, <2>6, <2>7, <2>8, <3>2, <4>1
      <4>2. CASE x = c
        BY <2>2, <2>6, <2>7, <2>8, <3>2, <4>2
      <4>3. CASE d # c /\ x # c
        <5>1. HasId(w, d, k) /\ HasId(w, x, k)
          BY <2>6, <3>2, <4>3
        <5> QED BY <2>2, <3>2, <5>1 DEF IInv, IdsOK
      <4> QED BY <4>1, <4>2, <4>3
    <3> QED BY <3>1, <3>2 DEF IdsOK
  <2>17. GameOK(v)
    <3>1. w.member[Host].phase = "lobby" => NotStarted(v)
      BY <2>2, <2>5 DEF IInv, GameOK, NotStarted, Setting
    <3>2. ASSUME NEW list \in Seq(Ids), Plays(w, list) PROVE Plays(v, list)
      BY <2>2, <2>4, <3>2 DEF Plays, Setting
    <3>3. OneGame(v)
      BY <3>2 DEF IInv, GameOK, OneGame
    <3> QED BY <2>2, <3>1, <3>3 DEF IInv, GameOK, Setting
  <2>18. IInv(v)
    BY <2>9, <2>10, <2>11, <2>12, <2>13, <2>14, <2>15, <2>16, <2>17 DEF IInv
  <2> QED BY <2>2, <2>18 DEF v
<1> QED BY <1>2, <1>3

\* The host announces the game that has begun.
LEMMA GameAnnounced ==
  ASSUME NEW w, IInv(w), w.member[Host].phase # "lobby", NEW list \in Seq(Ids), Plays(w, list)
  PROVE  LET v == Broadcast(w, Host, [msg |-> "START_GAME", list |-> list])
         IN  IInv(v) /\ v.member = w.member
<1> USE TheMembers
<1> DEFINE e == [msg |-> "START_GAME", list |-> list]
           reached == {b \in player_pool(w, Host) : ~IsOut(w, b)}
           v == Broadcast(w, Host, e)
<1>1. IsWorld(w) /\ ChansTyped(w.chan) /\ TypeOK(w) /\ w.chan[Host][Host] = <<>> /\ w.peer[Host][Host] = None
  BY DEF IInv, TypeOK, HostOK
<1>2. \A b \in player_pool(w, Host) : b \in Clients /\ b \in Members /\ e \in Understood(b)
  <2>1. \A b \in player_pool(w, Host) : b \in Clients /\ b \in Members
    BY <1>1 DEF player_pool, IsConnected
  <2> QED BY <2>1 DEF Understood, ToClient
<1>3. /\ IsWorld(v) /\ ChansTyped(v.chan)
      /\ v.member = w.member /\ v.peer = w.peer /\ v.pending = w.pending /\ v.lobby = w.lobby
      /\ \A x, y \in Members :
           v.chan[x][y] = IF x = Host /\ y \in reached THEN Append(w.chan[x][y], e)
                          ELSE w.chan[x][y]
  <2> HIDE DEF e
  <2> QED BY <1>1, <1>2, BroadcastIs
<1>4. \A y \in reached : y \in Clients /\ e \in Understood(y)
  BY <1>2
<1> HIDE DEF reached, v
<1>5. \A x, y \in Members : \A m \in Way(v, x, y) : m \in Way(w, x, y) \/ m = e
  <2>1. ASSUME NEW x \in Members, NEW y \in Members, NEW m \in Way(v, x, y)
        PROVE  m \in Way(w, x, y) \/ m = e
    <3>1. CASE x = Host /\ y \in reached
      <4>1. w.chan[x][y] \in Seq(Understood(y)) /\ e \in Understood(y)
        <5> HIDE DEF e
        <5> QED BY <1>4, <3>1, Parts
      <4> DEFINE s == Append(w.chan[x][y], e)
      <4> HIDE DEF e
      <4>2. ToSet(s) = ToSet(w.chan[x][y]) \cup {e}
        BY <4>1, Appended
      <4> QED BY <1>3, <2>1, <3>1, <4>2 DEF Way
    <3>2. CASE ~(x = Host /\ y \in reached)
      BY <1>3, <2>1, <3>2 DEF Way
    <3> QED BY <3>1, <3>2
  <2> QED BY <2>1
<1>6. \A x, y \in Members : \A k : Carries(v, x, y, k) /\ k # "START_GAME" => Carries(w, x, y, k)
  BY <1>5 DEF Carries
<1>7. \A m \in Members, k \in Ids : HasId(v, m, k) => HasId(w, m, k)
  BY <1>3, <1>5 DEF HasId
<1>8. TypeOK(v)
  BY <1>1, <1>3 DEF TypeOK
<1>9. HostOK(v)
  BY <1>1, <1>3, <1>4 DEF IInv, HostOK, IsOut
<1>10. ColoursOK(v)
  BY <1>3 DEF IInv, ColoursOK, IsOut
<1>11. NewcomersOK(v)
  BY <1>3, <1>6 DEF IInv, NewcomersOK
<1>12. RegistryOK(v) /\ ClientsOK(v)
  BY <1>3 DEF RegistryOK, ClientsOK
<1>13. HostIsOne(v)
  BY <1>3 DEF IInv, HostIsOne
<1>14. IdsOK(v)
  <2>1. 1 \in Ids
    BY DEF Ids
  <2> QED BY <1>3, <1>7, <2>1 DEF IInv, IdsOK
<1>15. GameOK(v)
  <2>1. Plays(v, list)
    BY <1>3, <1>5 DEF Plays, Setting
  <2>2. \A m \in Members : Setting(v, m) => Contains(v.member[m].nations, v.member[m].my_id)
    BY <1>3 DEF IInv, GameOK, Setting
  <2> QED BY <1>3, <2>1, <2>2 DEF GameOK, OneGame
<1>16. IInv(v)
  BY <1>8, <1>9, <1>10, <1>11, <1>12, <1>13, <1>14, <1>15 DEF IInv
<1> QED BY <1>3, <1>16 DEF v

\* The host leaves the lobby with those who will play.
LEMMA HostStarts ==
  ASSUME NEW w, IInv(w), w.member[Host].phase = "lobby", NEW list \in Seq(Ids), Contains(list, 1)
  PROVE  LET v == [w EXCEPT !.member[Host].phase = "setting", !.member[Host].nations = list]
         IN  IInv(v) /\ Plays(v, list) /\ v.member[Host].phase = "setting"
<1> USE TheMembers
<1> DEFINE r == [w.member[Host] EXCEPT !.phase = "setting", !.nations = list]
           f == [w.member EXCEPT ![Host] = r]
           v == [w EXCEPT !.member = f]
<1>1. IsWorld(w) /\ MembersTyped(w.member) /\ TypeOK(w) /\ w.member[Host] \in MemberRecords
  BY Parts DEF IInv, TypeOK
<1>2. [w EXCEPT !.member[Host].phase = "setting", !.member[Host].nations = list] = v
  BY <1>1 DEF IsWorld, MembersTyped
<1>3. /\ r \in MemberRecords /\ r.phase = "setting" /\ r.nations = list
      /\ r.my_id = w.member[Host].my_id /\ r.reg = w.member[Host].reg
  BY <1>1 DEF MemberRecords, Phases
<1> HIDE DEF r
<1>4. MembersTyped(f) /\ f[Host] = r /\ \A m \in Clients : f[m] = w.member[m]
  BY <1>1, <1>3 DEF MembersTyped
<1> HIDE DEF f
<1>5. /\ IsWorld(v) /\ v.member = f /\ v.peer = w.peer /\ v.pending = w.pending
      /\ v.chan = w.chan /\ v.lobby = w.lobby
  BY <1>1, MemberSet
<1> HIDE DEF v
<1>6. \A x, y \in Members : Way(v, x, y) = Way(w, x, y)
  BY <1>5 DEF Way
<1>7. \A x, y \in Members : \A k : Carries(v, x, y, k) <=> Carries(w, x, y, k)
  BY <1>6 DEF Carries
<1>8. \A m \in Clients, id \in Ids : HasId(v, m, id) => HasId(w, m, id)
  BY <1>4, <1>5, <1>6 DEF HasId
<1>9. TypeOK(v)
  BY <1>1, <1>4, <1>5 DEF TypeOK
<1>10. HostOK(v)
  BY <1>3, <1>4, <1>5 DEF IInv, HostOK, IsOut
<1>11. ColoursOK(v)
  BY <1>3, <1>4, <1>5 DEF IInv, ColoursOK, IsOut
<1>12. NewcomersOK(v)
  BY <1>4, <1>5, <1>7 DEF IInv, NewcomersOK
<1>13. RegistryOK(v) /\ ClientsOK(v)
  BY <1>3, <1>4, <1>5 DEF RegistryOK, ClientsOK
<1>14. HostIsOne(v)
  BY <1>5 DEF IInv, HostIsOne
<1>15. IdsOK(v)
  <2>1. 1 \in Ids
    BY DEF Ids
  <2> QED BY <1>4, <1>5, <1>8, <2>1 DEF IInv, IdsOK
<1>16. Plays(v, list) /\ GameOK(v)
  <2>1. /\ \A m \in Clients : ~Setting(v, m)
        /\ \A x, y \in Members : ~Carries(v, x, y, "START_GAME")
    BY <1>4, <1>5, <1>7 DEF IInv, GameOK, NotStarted, Setting
  <2>2. Plays(v, list)
    BY <1>3, <1>4, <1>5, <2>1 DEF Plays, Carries
  <2>3. v.member[Host].my_id = 1
    BY <1>3, <1>4, <1>5 DEF IInv, HostOK, IsOut
  <2>4. \A m \in Members : Setting(v, m) => Contains(v.member[m].nations, v.member[m].my_id)
    BY <1>3, <1>4, <1>5, <2>1, <2>3
  <2> QED BY <1>3, <1>4, <1>5, <2>2, <2>4 DEF GameOK, OneGame
<1>17. IInv(v)
  BY <1>9, <1>10, <1>11, <1>12, <1>13, <1>14, <1>15, <1>16 DEF IInv
<1> QED BY <1>2, <1>3, <1>4, <1>5, <1>16, <1>17

\* The host closes its connections to those who have not been let in.
LEMMA HostCloses ==
  ASSUME NEW w, IInv(w), w.member[Host].phase \in {"setting", "playing"}
  PROVE  LET v == disable_new_connections(w, Host)
         IN  /\ IInv(v) /\ v.member = w.member
             /\ \A list : Plays(w, list) => Plays(v, list)
<1> USE TheMembers
<1> DEFINE v == disable_new_connections(w, Host)
           u == [w EXCEPT !.peer = v.peer]
<1>1. /\ TypeOK(v) /\ v.member = w.member /\ v.pending = w.pending /\ v.lobby = w.lobby
      /\ v.chan[Host][Host] = <<>>
      /\ \A m \in Members : m # Host => v.peer[m] = w.peer[m]
      /\ \A n \in Members : v.peer[Host][n] = w.peer[Host][n] \/ v.peer[Host][n] = None
      /\ \A x, y \in Members : \A m \in Way(v, x, y) :
           m \in Way(w, x, y) \/ (x = Host /\ m = [msg |-> "DISCONNECT"])
      /\ \A x \in Members : Once(v.chan[x][Host])
  BY CloseIs
<1> HIDE DEF v
<1>2. TypeOK(w) /\ IsWorld(w)
  BY DEF IInv, TypeOK
<1>3. /\ IsWorld(u) /\ u.member = w.member /\ u.peer = v.peer /\ u.pending = w.pending
      /\ u.chan = w.chan /\ u.lobby = w.lobby
  BY <1>2, PeerSet
<1> HIDE DEF u
<1>4. OnlyOfHost(w, u)
  BY <1>1, <1>2, <1>3 DEF OnlyOfHost, TypeOK
<1>5. HostOK(u) /\ ColoursOK(u) /\ RegistryOK(u)
  <2>1. HostOK(u)
    <3>1. u.peer[Host][Host] = None
      BY <1>1, <1>3 DEF IInv, HostOK
    <3> QED BY <1>1, <1>3, <3>1 DEF IInv, HostOK, IsOut
  <2>2. ColoursOK(u)
    BY <1>3 DEF IInv, ColoursOK, IsOut
  <2> QED BY <1>3, <2>1, <2>2 DEF RegistryOK
<1>6. IInv(u)
  BY <1>3, <1>4, <1>5, HostMoves
<1>7. OnlyChans(u, v)
  BY <1>1, <1>3 DEF OnlyChans, TypeOK
<1>8. ASSUME NEW x \in Members, NEW y \in Members PROVE Calmly(u, x, y, v.chan[x][y])
  <2>1. v.chan[x][y] \in Seq(Understood(y))
    BY <1>1 DEF TypeOK, ChansTyped
  <2>2. Harmless(u, y, [msg |-> "DISCONNECT"])
    BY <1>3 DEF Harmless
  <2>3. Way(u, x, y) = Way(w, x, y)
    BY <1>3 DEF Way
  <2>4. \A m \in Way(v, x, y) : m \in Way(u, x, y) \/ Harmless(u, y, m)
    BY <1>1, <2>2, <2>3
  <2> QED BY <1>1, <2>1, <2>4 DEF Calmly, Way
<1>9. IInv(v)
  BY <1>6, <1>7, <1>8, Calm
<1>10. ASSUME NEW list, Plays(w, list) PROVE Plays(v, list)
  BY <1>1, <1>10 DEF Plays, Setting
<1> QED BY <1>1, <1>9, <1>10 DEF v

\* The players a newcomer is told of, in any order.
LEMMA ToldOf ==
  ASSUME NEW w, IInv(w), ~IsOut(w, Host), NEW c \in Clients,
         NEW list \in SetToSeqs(OthersOf(w, c))
  PROVE  /\ list \in Seq(Understood(c))
         /\ \A m \in ToSet(list) : m.msg = "ACCEPT_NEW_PLAYER"
<1> USE TheMembers
<1> DEFINE P == player_pool(w, Host) \ {c}
           f == [n \in P |-> Accept(w.peer[Host][n].id, n, FALSE)]
           T == {f[n] : n \in P}
           S == OthersOf(w, c)
<1>1. \A n \in P : n \in Clients /\ n \in Members /\ w.peer[Host][n] \in Players
  <2>1. \A n \in P : n \in Members /\ w.peer[Host][n] # None
    BY DEF player_pool, IsConnected
  <2>2. w.peer[Host][Host] = None
    BY DEF IInv, HostOK
  <2> HIDE DEF P
  <2> QED BY <2>1, <2>2, Parts
<1>2. S \subseteq Introductions
  <2>1. ASSUME NEW n \in P PROVE Accept(w.peer[Host][n].id, n, FALSE) \in Introductions
    <3>1. w.peer[Host][n].id \in Nat
      BY <1>1, <2>1 DEF Players
    <3>2. w.peer[Host][n].id >= 2
      <4>1. w.peer[Host][n] # None /\ n \in Members
        BY <2>1 DEF player_pool, IsConnected
      <4> HIDE DEF P
      <4> QED BY <4>1 DEF IInv, HostOK
    <3>3. w.peer[Host][n].id \in Ids
      BY <3>1, <3>2 DEF Ids
    <3>4. n \in Members /\ n # Host
      BY <1>1, <2>1
    <3> QED BY <3>3, <3>4 DEF Accept, Introductions
  <2>2. Accept(1, Host, FALSE) \in Introductions
    BY DEF Accept, Introductions, Ids
  <2> QED BY <2>1, <2>2 DEF OthersOf
<1>3. IsFiniteSet(S)
  <2>1. IsFiniteSet(P)
    <3>1. P \in SUBSET Members
      BY DEF player_pool
    <3> HIDE DEF P
    <3> QED BY <3>1, FS_Subset
  <2>2. f \in Surjection(P, T)
    <3>1. f \in [P -> T] /\ \A t \in T : \E n \in P : f[n] = t
      OBVIOUS
    <3> HIDE DEF f, P, T
    <3> QED BY <3>1 DEF Surjection
  <2>3. IsFiniteSet(T)
    <3> HIDE DEF f, P, T
    <3> QED BY <2>1, <2>2, FS_Surjection
  <2>4. S = T \cup {Accept(1, Host, FALSE)}
    BY DEF OthersOf
  <2> HIDE DEF T, S
  <2> QED BY <2>3, <2>4, FS_AddElement
<1>4. list \in [1..Cardinality(S) -> S] /\ Cardinality(S) \in Nat
  <2> HIDE DEF P, f, T, S
  <2>1. list \in SetToSeqs(S)
    BY DEF S
  <2> QED BY <1>3, <2>1, FS_CardinalityType DEF SetToSeqs
<1>5. Introductions \subseteq Understood(c)
  BY DEF Understood, ToClient
<1> HIDE DEF P, f, T, S
<1>6. list \in Seq(Understood(c))
  <2> DEFINE n == Cardinality(S)
  <2>1. \A i \in 1..n : list[i] \in Understood(c)
    BY <1>2, <1>4, <1>5
  <2>2. list = [i \in 1..n |-> list[i]] /\ n \in Nat
    BY <1>4
  <2> HIDE DEF n
  <2>3. list \in [1..n -> Understood(c)]
    BY <2>1, <2>2
  <2> QED BY <2>2, <2>3
<1>7. \A m \in ToSet(list) : m.msg = "ACCEPT_NEW_PLAYER"
  <2>1. \A m \in Introductions : m.msg = "ACCEPT_NEW_PLAYER"
    BY DEF Introductions
  <2>2. \A i \in DOMAIN list : list[i] \in S
    BY <1>4
  <2> QED BY <1>2, <2>1, <2>2 DEF ToSet
<1> QED BY <1>6, <1>7

\* The host lets a newcomer in, or refuses it.
LEMMA NewcomerAnswered ==
  ASSUME NEW w, IInv(w), w.member[Host].phase = "lobby", NEW c \in Clients, w.peer[Host][c] # None,
         w.peer[Host][c].id \notin ToSet(w.member[Host].reg), ~IsNew(w, c),
         NEW v \in NewPlayer(w, c)
  PROVE  IInv(v)
<1> USE TheMembers
<1> DEFINE id == w.peer[Host][c].id
           in == [w EXCEPT !.peer[Host][c].authorized = TRUE,
                           !.member[Host].reg = Append(@, id), !.lobby.ready = @ \ {id}]
<1>1. CASE Len(w.member[Host].reg) >= MAX_NATION
  <2> DEFINE e == [msg |-> "REFUSE_NEW_PLAYER"]
  <2>1. v = Put(w, Host, c, e)
    BY <1>1 DEF NewPlayer
  <2>2. e \in Understood(c) /\ Harmless(w, c, e)
    BY DEF Understood, ToClient, Harmless
  <2> HIDE DEF e
  <2> QED BY <2>1, <2>2, PutIsCalm
<1>2. CASE ~(Len(w.member[Host].reg) >= MAX_NATION)
  <2>1. PICK list \in SetToSeqs(OthersOf(w, c)), x \in Colours \ w.lobby.assigned :
          v = LetIn(w, c, list, x)
    BY <1>2 DEF NewPlayer
  <2> DEFINE u1 == Coloured(in, id, x)
             u2 == Put(u1, Host, c, [msg |-> "PLAYER_ID", id |-> id])
             u3 == Broadcast(u2, Host, Accept(id, c, TRUE))
             u4 == PutAll(u3, Host, c, list)
             e == [msg |-> "ACCEPT_COLOR", colour |-> x]
  <2>2. v = Put(u4, Host, c, e)
    BY <2>1 DEF LetIn
  <2>3. id \in Ids \ {1}
    <3>1. w.peer[Host][c] \in Players
      BY Parts
    <3>2. id \in Nat
      BY <3>1 DEF Players
    <3>3. id >= 2
      BY DEF IInv, HostOK, IsOut
    <3> QED BY <3>2, <3>3 DEF Ids
  <2>4. list \in Seq(Understood(c)) /\ \A m \in ToSet(list) : m.msg = "ACCEPT_NEW_PLAYER"
    <3>1. ~IsOut(w, Host)
      BY DEF IsOut
    <3> QED BY <3>1, ToldOf
  <2>5. /\ IInv(u1) /\ u1.member[Host].phase = "lobby"
        /\ u1.peer[Host][c] # None /\ u1.peer[Host][c].id = id
    BY HostRegisters
  <2> HIDE DEF u1
  <2>6. IInv(u2) /\ u2.member = u1.member
    <3> HIDE DEF id
    <3> QED BY <2>3, <2>5, NumberSent
  <2> HIDE DEF u2
  <2>7. IInv(u3)
    <3> DEFINE a == Accept(id, c, TRUE)
    <3>1. ASSUME NEW b \in Members, Host # Host \/ b # Host
          PROVE  a \in Understood(b) /\ Harmless(u2, b, a)
      <4>1. a \in Introductions
        BY <2>3 DEF Accept, Introductions
      <4>2. a.msg = "ACCEPT_NEW_PLAYER"
        BY DEF Accept
      <4> HIDE DEF a
      <4> QED BY <3>1, <4>1, <4>2 DEF Understood, ToClient, Harmless
    <3> HIDE DEF a
    <3>2. IInv(Broadcast(u2, Host, a))
      BY <2>6, <3>1, BroadcastIsCalm
    <3> QED BY <3>2 DEF a
  <2> HIDE DEF u3
  <2>8. IInv(u4)
    <3>1. \A m \in ToSet(list) : Harmless(u3, c, m)
      BY <2>4 DEF Harmless
    <3> QED BY <2>4, <2>7, <3>1, PutAllIsCalm
  <2> HIDE DEF u4
  <2>9. e \in Understood(c) /\ Harmless(u4, c, e)
    BY DEF Understood, ToClient, Harmless
  <2> HIDE DEF e
  <2> QED BY <2>2, <2>8, <2>9, PutIsCalm
<1> QED BY <1>1, <1>2

\* The host answers a player who asks for a colour.
LEMMA ColourAnswered ==
  ASSUME NEW w, IInv(w), ~IsOut(w, Host), NEW c \in Clients, NEW colour \in Colours
  PROVE  IInv(AcquireColour(w, c, colour))
<1> USE TheMembers
<1> DEFINE id == w.peer[Host][c].id
           Yes == colour \notin w.lobby.assigned /\ id \in ToSet(w.member[Host].reg)
           u == Coloured(w, id, colour)
<1>1. CASE Yes
  <2> DEFINE e == [msg |-> "ACCEPT_COLOR", colour |-> colour]
  <2>1. AcquireColour(w, c, colour) = Put(u, Host, c, e)
    BY <1>1 DEF AcquireColour
  <2>2. IInv(u)
    <3> HIDE DEF id
    <3> QED BY <1>1, HostColours
  <2> HIDE DEF u
  <2>3. e \in Understood(c) /\ Harmless(u, c, e)
    BY DEF Understood, ToClient, Harmless
  <2> HIDE DEF e
  <2> QED BY <2>1, <2>2, <2>3, PutIsCalm
<1>2. CASE ~Yes
  <2> DEFINE e == [msg |-> "REFUSE_COLOR"]
  <2>1. AcquireColour(w, c, colour) = Put(w, Host, c, e)
    BY <1>2 DEF AcquireColour
  <2>2. e \in Understood(c) /\ Harmless(w, c, e)
    BY DEF Understood, ToClient, Harmless
  <2> HIDE DEF e
  <2> QED BY <2>1, <2>2, PutIsCalm
<1> QED BY <1>1, <1>2

\* What the messages to the host hold.
LEMMA ToHostHolds ==
  ASSUME NEW m \in ToHost
  PROVE  /\ m.msg \in {"CONNECT", "DISCONNECT", "END_SETTING", "NEW_PLAYER", "READY", "UNREADY",
                       "ACQUIRE_COLOR"}
         /\ m.msg = "ACQUIRE_COLOR" => m.colour \in Colours
<1>1. CASE m \in Events
  BY <1>1 DEF Events
<1>2. CASE m \in [msg : {"NEW_PLAYER", "READY", "UNREADY"}]
  BY <1>2
<1>3. CASE m \in [msg : {"ACQUIRE_COLOR"}, colour : Colours]
  BY <1>3
<1> QED BY <1>1, <1>2, <1>3 DEF ToHost

\* What the host in the lobby hears.
LEMMA HostHearsCalmly ==
  ASSUME NEW w, IInv(w), w.member[Host].phase = "lobby", NEW c \in Clients, w.peer[Host][c] # None,
         NEW m \in ToHost, m.msg \notin {"CONNECT", "DISCONNECT", "END_SETTING"},
         m.msg = "NEW_PLAYER" => /\ w.peer[Host][c].id \notin ToSet(w.member[Host].reg)
                                 /\ ~IsNew(w, c),
         NEW v \in HostHears(w, c, m)
  PROVE  IInv(v)
<1> DEFINE id == w.peer[Host][c].id
           reg == w.member[Host].reg
<1>1. ~IsOut(w, Host) /\ w.lobby.ready \subseteq ToSet(reg)
  BY DEF IsOut, IInv, ColoursOK
<1>2. CASE m.msg = "NEW_PLAYER"
  <2>1. v \in NewPlayer(w, c)
    BY <1>2 DEF HostHears
  <2> QED BY <1>2, <2>1, NewcomerAnswered
<1>3. CASE m.msg = "ACQUIRE_COLOR"
  <2>1. v = AcquireColour(w, c, m.colour) /\ m.colour \in Colours
    BY <1>3, ToHostHolds DEF HostHears
  <2> QED BY <1>1, <2>1, ColourAnswered
<1>4. CASE m.msg = "READY"
  <2> DEFINE x == w.lobby.ready \cup {id}
  <2>1. IF id \in ToSet(reg) THEN v = [w EXCEPT !.lobby.ready = @ \cup {id}] ELSE v = w
    BY <1>4 DEF HostHears
  <2>2. [w EXCEPT !.lobby.ready = @ \cup {id}] = [w EXCEPT !.lobby.ready = x]
    BY DEF IInv, TypeOK, IsWorld, LobbyTyped
  <2>3. id \in ToSet(reg) => x \subseteq ToSet(reg)
    BY <1>1
  <2> HIDE DEF x, id
  <2>4. CASE id \in ToSet(reg)
    BY <1>1, <2>1, <2>2, <2>3, <2>4, HostReady
  <2> QED BY <2>1, <2>4
<1>5. CASE m.msg = "UNREADY"
  <2> DEFINE x == w.lobby.ready \ {id}
  <2>1. v = [w EXCEPT !.lobby.ready = @ \ {id}]
    BY <1>5 DEF HostHears
  <2>2. [w EXCEPT !.lobby.ready = @ \ {id}] = [w EXCEPT !.lobby.ready = x]
    BY DEF IInv, TypeOK, IsWorld, LobbyTyped
  <2>3. x \subseteq ToSet(reg)
    BY <1>1
  <2> HIDE DEF x, id
  <2> QED BY <1>1, <2>1, <2>2, <2>3, HostReady
<1> QED BY <1>2, <1>3, <1>4, <1>5, ToHostHolds

\* The host hears that the connection with a client is lost.
LEMMA HostDisconnected ==
  ASSUME NEW w, IInv(w), ~IsOut(w, Host), NEW c \in Clients,
         w.member[Host].phase = "lobby" => w.member[c].phase = "out",
         NEW from, from = IF w.peer[Host][c] # None THEN w.peer[Host][c].id ELSE 0,
         NEW v \in LobbyDisconnects(Disconnected(w, Host, c), Host, from)
  PROVE  IInv(v)
<1> USE TheMembers
<1> DEFINE u == [w EXCEPT !.peer[Host][c] = None]
<1>1. /\ IsWorld(w) /\ PeersTyped(w.peer) /\ PendingTyped(w.pending)
      /\ w.member[Host].phase \in {"lobby", "setting", "playing"}
  BY DEF IInv, TypeOK, HostOK, IsOut
<1>2. Disconnected(w, Host, c) = u
  <2>1. w.pending = [w.pending EXCEPT ![Host] = w.pending[Host] \cup {}]
    BY <1>1 DEF PendingTyped
  <2>2. u.pending = w.pending
    BY <1>1 DEF IsWorld
  <2>3. u = [u EXCEPT !.pending = w.pending]
    BY <1>1, <2>2 DEF IsWorld
  <2>4. Disconnected(w, Host, c) = [u EXCEPT !.pending = [w.pending EXCEPT ![Host] = w.pending[Host] \cup {}]]
    BY <1>1, <2>2 DEF Disconnected, IsWorld
  <2> HIDE DEF u
  <2> QED BY <2>1, <2>3, <2>4
<1>3. u.member = w.member
  BY <1>1 DEF IsWorld
<1>4. CASE w.member[Host].phase = "lobby" /\ w.peer[Host][c] # None
  <2> DEFINE id == w.peer[Host][c].id
             x == Forgotten(u, id)
             e == [msg |-> "PLAYER_DISCONNECT", id |-> id]
  <2>1. id \in Ids \ {1} /\ from = id /\ id # 0
    <3>1. w.peer[Host][c] \in Players
      BY <1>4, Parts
    <3>2. id \in Nat
      BY <3>1 DEF Players
    <3>3. id >= 2
      BY <1>4 DEF IInv, HostOK, IsOut
    <3> QED BY <1>4, <3>2, <3>3 DEF Ids
  <2>2. IInv(x)
    BY <1>4, HostForgets
  <2>3. v = Broadcast(x, Host, e)
    <3>1. from # 0 /\ from # 1
      BY <2>1
    <3>2. v \in LobbyDisconnects(u, Host, from)
      BY <1>2
    <3> HIDE DEF u, x, e
    <3>3. v = Broadcast(Forgotten(u, from), Host, [msg |-> "PLAYER_DISCONNECT", id |-> from])
      BY <1>3, <1>4, <3>1, <3>2 DEF LobbyDisconnects
    <3> QED BY <2>1, <3>3 DEF x, e
  <2>4. \A b \in Members : Host # Host \/ b # Host => e \in Understood(b) /\ Harmless(x, b, e)
    <3> HIDE DEF id, x
    <3> QED BY <2>1 DEF Understood, ToClient, Harmless
  <2> HIDE DEF x, e
  <2> QED BY <2>2, <2>3, <2>4, BroadcastIsCalm
<1>5. CASE w.member[Host].phase = "lobby" /\ w.peer[Host][c] = None
  <2>1. u = w
    BY <1>1, <1>5 DEF IsWorld, PeersTyped
  <2>2. from = 0
    BY <1>5
  <2>3. v = u
    <3> HIDE DEF u
    <3> QED BY <1>2, <1>3, <1>5, <2>2 DEF LobbyDisconnects
  <2> QED BY <2>1, <2>3
<1>6. CASE w.member[Host].phase # "lobby"
  <2>1. v = u
    <3> HIDE DEF u
    <3> QED BY <1>1, <1>2, <1>3, <1>6 DEF LobbyDisconnects
  <2> QED BY <1>6, <2>1, HostLoses
<1> QED BY <1>4, <1>5, <1>6

\* The host handles what it takes from a connection.
LEMMA HostReceives ==
  ASSUME NEW w, IInv(w), w.member[Host].phase \in {"joining", "lobby", "box", "setting"},
         NEW b \in Members, w.chan[b][Host] # <<>>,
         NEW t, t = [w EXCEPT !.chan[b][Host] = Tail(@)],
         NEW v \in Handled(t, Host, b, Head(w.chan[b][Host]))
  PROVE  IInv(v)
<1> USE TheMembers
<1> DEFINE s == w.chan[b][Host]
           m == Head(s)
<1>1. IInv(t) /\ m \in Way(w, b, Host) /\ m \in Understood(Host) /\ b \in Clients
  BY TakingIsCalm
<1>2. /\ t.member = w.member /\ t.peer = w.peer /\ t.chan[b][Host] = Tail(s)
      /\ IsWorld(w) /\ w.member[Host].phase \in {"lobby", "setting"}
  BY Parts DEF IInv, TypeOK, ChansTyped, HostOK, IsWorld
<1>3. /\ s \in Seq(Understood(Host)) /\ s # <<>> /\ Once(s)
  BY CalmAsItIs DEF Calmly
<1>4. m.msg = "NEW_PLAYER" => \A e \in ToSet(Tail(s)) : e.msg # "NEW_PLAYER"
  <2> HIDE DEF s
  <2> QED BY <1>3, TakenFirst
<1>5. m \in ToHost /\ Carries(w, b, Host, m.msg)
  <2> HIDE DEF m
  <2> QED BY <1>1 DEF Understood, Carries
<1>6. v \in Handled(t, Host, b, m)
  OBVIOUS
<1> HIDE DEF m
<1>7. ~IsOut(t, Host)
  BY <1>2 DEF IsOut
<1>8. CASE m.msg = "CONNECT"
  <2> DEFINE u == Connected(t, Host, b)
  <2>1. v \in LobbyConnects(u, Host, b)
    BY <1>6, <1>8 DEF Handled
  <2>2. IInv(u) /\ u.member = t.member
    BY <1>1, <1>7, HostConnected
  <2> HIDE DEF u
  <2>3. v = u
    BY <1>2, <2>1, <2>2 DEF LobbyConnects
  <2> QED BY <2>2, <2>3
<1>9. CASE m.msg = "DISCONNECT"
  <2> DEFINE from == IF t.peer[Host][b] # None THEN t.peer[Host][b].id ELSE 0
  <2>1. v \in LobbyDisconnects(Disconnected(t, Host, b), Host, from)
    BY <1>6, <1>9 DEF Handled
  <2>2. w.member[Host].phase = "lobby" => w.member[b].phase = "out"
    BY <1>1, <1>5, <1>9 DEF IInv, ClientsOK
  <2>3. t.member[Host].phase = "lobby" => t.member[b].phase = "out"
    BY <1>2, <2>2
  <2>4. from = IF t.peer[Host][b] # None THEN t.peer[Host][b].id ELSE 0
    OBVIOUS
  <2> HIDE DEF from
  <2>5. ASSUME NEW x \in LobbyDisconnects(Disconnected(t, Host, b), Host, from) PROVE IInv(x)
    <3>1. IInv(t) /\ b \in Clients
      BY <1>1
    <3> QED BY ONLY <1>7, <2>3, <2>4, <2>5, <3>1, HostDisconnected
  <2> QED BY <2>1, <2>5
<1>10. CASE m.msg \notin {"CONNECT", "DISCONNECT"} /\ t.peer[Host][b] = None
  <2>1. v = t
    BY <1>6, <1>10 DEF Handled
  <2> QED BY <1>1, <2>1
<1>11. CASE /\ m.msg \notin {"CONNECT", "DISCONNECT"} /\ t.peer[Host][b] # None
            /\ t.member[Host].phase = "lobby"
  <2>1. v \in HostHears(t, b, m)
    BY <1>6, <1>11 DEF Handled
  <2>2. m.msg # "END_SETTING"
    BY <1>1, <1>2, <1>5, <1>11 DEF IInv, ClientsOK
  <2>3. ASSUME m.msg = "NEW_PLAYER"
        PROVE  t.peer[Host][b].id \notin ToSet(t.member[Host].reg) /\ ~IsNew(t, b)
    <3>1. IsNew(w, b) /\ w.member[b].phase \notin {"away", "joining"}
      BY <1>1, <1>5, <2>3 DEF IInv, NewcomersOK, IsNew
    <3>2. t.peer[Host][b].id \notin ToSet(t.member[Host].reg)
      BY <1>1, <1>2, <1>11, <3>1 DEF IInv, RegistryOK
    <3>3. ~Carries(t, b, Host, "NEW_PLAYER")
      BY <1>2, <1>4, <2>3 DEF Carries, Way
    <3> QED BY <1>2, <3>1, <3>2, <3>3 DEF IsNew
  <2>4. m.msg = "NEW_PLAYER" => /\ t.peer[Host][b].id \notin ToSet(t.member[Host].reg)
                                /\ ~IsNew(t, b)
    BY <2>3
  <2>5. m \in ToHost /\ m.msg \notin {"CONNECT", "DISCONNECT", "END_SETTING"}
    BY <1>5, <1>11, <2>2
  <2>6. t.member[Host].phase = "lobby" /\ t.peer[Host][b] # None /\ b \in Clients /\ IInv(t)
    BY <1>1, <1>11
  <2>7. ASSUME NEW x \in HostHears(t, b, m) PROVE IInv(x)
    BY <2>4, <2>5, <2>6, HostHearsCalmly, ZenonT(60)
  <2> QED BY <2>1, <2>7
<1>12. CASE /\ m.msg \notin {"CONNECT", "DISCONNECT"} /\ t.peer[Host][b] # None
            /\ t.member[Host].phase = "setting"
  <2>1. IF m.msg = "END_SETTING" THEN v = [t EXCEPT !.member[Host].ended = @ + 1] ELSE v = t
    BY <1>6, <1>12 DEF Handled
  <2>2. IInv([t EXCEPT !.member[Host].ended = @ + 1])
    BY <1>1, <1>7, HostFields
  <2> QED BY <1>1, <2>1, <2>2
<1> QED BY <1>2, <1>8, <1>9, <1>10, <1>11, <1>12

---------------------------------------------------------------------------
(* The game begins.                                                        *)

\* Every rank in a set of numbers is some number's.
LEMMA Ranks ==
  ASSUME NEW n \in Nat, NEW S \in SUBSET (1..n)
  PROVE  /\ IsFiniteSet(S) /\ Cardinality(S) \in Nat
         /\ \A k \in 1..Cardinality(S) : \E i \in S : Cardinality({j \in S : j <= i}) = k
<1> DEFINE Upto(i) == {j \in S : j <= i}
<1>1. IsFiniteSet(S) /\ Cardinality(S) \in Nat
  <2>1. IsFiniteSet(1..n)
    BY FS_Interval
  <2> QED BY <2>1, FS_Subset, FS_CardinalityType
<1>2. \A i : IsFiniteSet(Upto(i)) /\ Cardinality(Upto(i)) \in Nat
  <2>1. ASSUME NEW i PROVE IsFiniteSet(Upto(i)) /\ Cardinality(Upto(i)) \in Nat
    <3>1. Upto(i) \in SUBSET S
      OBVIOUS
    <3> HIDE DEF Upto
    <3> QED BY <1>1, <3>1, FS_Subset, FS_CardinalityType
  <2> QED BY <2>1
<1>3. ASSUME NEW k \in 1..Cardinality(S) PROVE \E i \in S : Cardinality(Upto(i)) = k
  <2> DEFINE Reach == {i \in 1..n : Cardinality(Upto(i)) >= k}
  <2>1. Reach # {}
    <3>1. S # {}
      <4>1. Cardinality({}) = 0
        BY FS_EmptySet
      <4> QED BY <1>1, <4>1
    <3>2. \A j \in S : j \in 1..n /\ j <= n
      OBVIOUS
    <3>3. n \in 1..n /\ Upto(n) = S
      <4>1. PICK x : x \in S
        BY <3>1
      <4>2. n >= 1
        BY <3>2, <4>1
      <4>3. n \in 1..n
        BY <4>2
      <4>4. Upto(n) = S
        BY <3>2
      <4> QED BY <4>3, <4>4
    <3>4. Cardinality(Upto(n)) >= k
      <4> HIDE DEF Upto
      <4> QED BY <1>1, <3>3
    <3>5. n \in Reach
      <4> HIDE DEF Upto
      <4> QED BY <3>3, <3>4
    <3> QED BY <3>5
  <2>2. PICK i \in Reach : \A j \in Reach : i <= j
    <3>1. Reach \in SUBSET Nat
      OBVIOUS
    <3> HIDE DEF Reach
    <3> QED BY <2>1, <3>1, LeastNumber
  <2>3. i \in 1..n /\ Cardinality(Upto(i)) >= k
    BY <2>2
  <2>4. Cardinality(Upto(i - 1)) < k
    <3>1. CASE i = 1
      <4>1. \A j \in S : j \in 1..n
        OBVIOUS
      <4>2. \A j \in S : ~(j <= i - 1)
        BY <3>1, <4>1
      <4>3. Upto(i - 1) = {}
        BY <4>2
      <4>4. Cardinality({}) = 0
        BY FS_EmptySet
      <4> HIDE DEF Upto
      <4> QED BY <1>1, <4>3, <4>4
    <3>2. CASE i # 1
      <4>1. i - 1 \in 1..n /\ ~(i <= i - 1)
        BY <2>3, <3>2
      <4>2. ~(i - 1 \in Reach)
        <5> HIDE DEF Reach
        <5> QED BY <2>2, <4>1
      <4>3. ~(Cardinality(Upto(i - 1)) >= k)
        BY <4>1, <4>2
      <4> HIDE DEF Upto, Reach
      <4>4. Cardinality(Upto(i - 1)) \in Nat
        BY <1>2
      <4> QED BY <4>3, <4>4
    <3> QED BY <3>1, <3>2
  <2>5. i \in S /\ Upto(i) = Upto(i - 1) \cup {i}
    <3>1. CASE i \in S
      <4>1. \A j \in S : j \in Int
        OBVIOUS
      <4>2. \A j \in S : j <= i <=> (j <= i - 1 \/ j = i)
        BY <2>3, <4>1
      <4> QED BY <3>1, <4>2
    <3>2. CASE i \notin S
      <4>1. \A j \in S : j <= i <=> j <= i - 1
        BY <2>3, <3>2
      <4>2. Upto(i) = Upto(i - 1)
        BY <4>1
      <4> HIDE DEF Upto, Reach
      <4>3. Cardinality(Upto(i)) \in Nat
        BY <1>2
      <4> QED BY <2>3, <2>4, <4>2, <4>3
    <3> QED BY <3>1, <3>2
  <2>6. i \notin Upto(i - 1)
    BY <2>3
  <2> HIDE DEF Upto, Reach
  <2>7. Cardinality(Upto(i)) = Cardinality(Upto(i - 1)) + 1
    BY <1>2, <2>5, <2>6, FS_AddElement
  <2>8. Cardinality(Upto(i)) \in Nat /\ Cardinality(Upto(i - 1)) \in Nat
    BY <1>2
  <2>9. k \in Int
    BY <1>1
  <2>10. Cardinality(Upto(i)) = k
    BY <2>3, <2>4, <2>7, <2>8, <2>9
  <2> QED BY <2>5, <2>10
<1> QED BY <1>1, <1>3

\* Those who will play are players, and the host is the first of them.
LEMMA StartersAre ==
  ASSUME NEW w, IInv(w), ~IsOut(w, Host)
  PROVE  /\ StartersOf(w) \in Seq(Ids) /\ Contains(StartersOf(w), 1)
         /\ ToSet(StartersOf(w)) \subseteq ToSet(w.member[Host].reg)
<1> DEFINE reg == w.member[Host].reg
           S == {i \in DOMAIN reg :
                   reg[i] = 1 \/ PeersWith(w, Host, reg[i]) \cap player_pool(w, Host) # {}}
           Rank(i) == Cardinality({j \in S : j <= i})
           At(k) == CHOOSE i \in S : Rank(i) = k
           list == StartersOf(w)
           n == Cardinality(S)
<1>1. list = [k \in 1..n |-> reg[At(k)]]
  BY DEF StartersOf
<1>2. reg \in Seq(Ids) /\ reg # <<>> /\ reg[1] = 1
  <2>1. w.member[Host] \in MemberRecords
    BY Parts, TheMembers
  <2> QED BY <2>1 DEF MemberRecords, IInv, HostOK
<1> HIDE DEF list
<1>3. /\ Len(reg) \in Nat /\ DOMAIN reg = 1..Len(reg) /\ 1 \in DOMAIN reg
      /\ \A i \in DOMAIN reg : reg[i] \in Ids
  <2> HIDE DEF reg
  <2> QED BY <1>2
<1>4. S \in SUBSET (1..Len(reg)) /\ 1 \in S
  BY <1>2, <1>3
<1>5. n \in Nat /\ \A k \in 1..n : \E i \in S : Rank(i) = k
  <2> HIDE DEF S, reg
  <2>1. n \in Nat
    BY <1>3, <1>4, Ranks
  <2>2. \A k \in 1..n : \E i \in S : Rank(i) = k
    BY <1>3, <1>4, Ranks
  <2> QED BY <2>1, <2>2
<1>6. \A k \in 1..n : At(k) \in S /\ Rank(At(k)) = k
  <2> HIDE DEF S, Rank, n
  <2> QED BY <1>5
<1>7. list \in Seq(Ids) /\ Len(list) = n
  <2> HIDE DEF At, n
  <2>1. \A k \in 1..n : reg[At(k)] \in Ids
    BY <1>3, <1>4, <1>6
  <2>2. list \in [1..n -> Ids]
    BY <1>1, <2>1
  <2> QED BY <1>1, <1>5, <2>2
<1>8. n >= 1 /\ At(1) = 1
  <2>1. IsFiniteSet(S)
    <3> HIDE DEF S, reg
    <3> QED BY <1>3, <1>4, Ranks
  <2>2. n # 0
    <3> HIDE DEF S
    <3> QED BY <1>4, <2>1, FS_EmptySet
  <2>3. n >= 1
    BY <1>5, <2>2
  <2> DEFINE i == At(1)
             T == {j \in S : j <= i}
  <2>4. i \in S /\ Cardinality(T) = 1
    <3>1. 1 \in 1..n
      BY <1>5, <2>3
    <3> HIDE DEF S, At, n
    <3> QED BY <1>6, <3>1
  <2>5. T \in SUBSET S
    OBVIOUS
  <2>6. 1 \in T /\ i \in T
    <3>1. i \in Nat /\ 1 <= i
      <4> HIDE DEF S, i
      <4> QED BY <1>3, <1>4, <2>4
    <3> HIDE DEF i, S
    <3> QED BY <1>4, <2>4, <3>1
  <2> HIDE DEF T, i, S
  <2>7. IsFiniteSet(T)
    BY <2>1, <2>5, FS_Subset
  <2>8. PICK x : T = {x}
    BY <2>4, <2>7, FS_Singleton
  <2> QED BY <2>3, <2>6, <2>8 DEF i
<1>9. list[1] = 1 /\ 1 \in 1..Len(list)
  <2>1. 1 \in 1..n
    BY <1>5, <1>8
  <2> HIDE DEF At, n, reg
  <2> QED BY <1>1, <1>2, <1>7, <1>8, <2>1
<1>10. ToSet(list) \subseteq ToSet(reg)
  <2>1. DOMAIN list = 1..n
    <3> HIDE DEF At, n, reg
    <3> QED BY <1>1
  <2>2. \A k \in 1..n : At(k) \in DOMAIN reg /\ list[k] = reg[At(k)]
    <3> HIDE DEF At, n, reg
    <3> QED BY <1>1, <1>3, <1>4, <1>6
  <2> HIDE DEF At, n, reg
  <2> QED BY <2>1, <2>2 DEF ToSet
<1> QED BY <1>7, <1>9, <1>10 DEF Contains, list

\* The host sets up the game.
LEMMA HostSetsUp ==
  ASSUME NEW w, IInv(w), w.member[Host].phase = "lobby"
  PROVE  IInv(SetUp(w, Host, StartersOf(w)))
<1> USE TheMembers
<1> DEFINE list == StartersOf(w)
           starts == [w EXCEPT !.member[Host].phase = "setting", !.member[Host].nations = list]
           closed == disable_new_connections(starts, Host)
           told == Broadcast(closed, Host, [msg |-> "START_GAME", list |-> list])
           e == [msg |-> "END_SETTING"]
<1>1. SetUp(w, Host, list) = Broadcast(told, Host, e)
  BY DEF SetUp
<1>2. list \in Seq(Ids) /\ Contains(list, 1)
  BY StartersAre DEF IsOut
<1> HIDE DEF list
<1>3. IInv(starts) /\ Plays(starts, list) /\ starts.member[Host].phase = "setting"
  BY <1>2, HostStarts
<1> HIDE DEF starts
<1>4. IInv(closed) /\ closed.member = starts.member /\ Plays(closed, list)
  BY <1>3, HostCloses
<1> HIDE DEF closed
<1>5. IInv(told) /\ told.member = closed.member
  BY <1>2, <1>3, <1>4, GameAnnounced
<1> HIDE DEF told
<1>6. \A b \in Members : Host # Host \/ b # Host => e \in Understood(b) /\ Harmless(told, b, e)
  BY DEF Understood, ToClient, Events, Harmless
<1> HIDE DEF e
<1>7. IInv(Broadcast(told, Host, e))
  BY <1>5, <1>6, BroadcastIsCalm
<1> QED BY <1>1, <1>7 DEF list

---------------------------------------------------------------------------
(* The steps.                                                              *)

\* The state is a world, and a step leads to the world it names.
LEMMA Worlds ==
  /\ IsWorld(World)
  /\ World.member = member /\ World.peer = peer /\ World.pending = pending
  /\ World.chan = chan /\ World.lobby = lobby
BY DEF World, IsWorld

\* A step to a world with the invariant establishes it.
LEMMA Becoming ==
  ASSUME NEW v, IInv(v), Become(v), choices' \in Nat
  PROVE  Inv'
<1>1. IsWorld(v)
  BY Parts
<1>2. World' = v
  BY <1>1 DEF Become, World, IsWorld
<1>3. IInv(World')
  BY <1>2
<1> QED BY <1>3 DEF Inv

\* At first nobody is there but the host, in the lobby.
LEMMA Beginning == Init => Inv
<1> USE TheMembers
<1> SUFFICES ASSUME Init PROVE Inv
  OBVIOUS
<1>1. PICK first \in Colours :
        /\ member = [m \in Members |->
             IF m = Host THEN [Newcomer EXCEPT !.phase = "lobby", !.my_id = 1, !.colour = first,
                                               !.reg = <<1>>]
             ELSE Newcomer]
        /\ peer = [m \in Members |-> [n \in Members |-> None]]
        /\ pending = [m \in Members |-> {}]
        /\ chan = [m \in Members |-> [n \in Members |-> <<>>]]
        /\ lobby = [colour |-> [id \in {1} |-> first], assigned |-> {first}, ready |-> {}]
        /\ choices = 0
  BY DEF Init
<1> DEFINE w == World
<1>2. /\ IsWorld(w) /\ w.member = member /\ w.peer = peer /\ w.pending = pending
      /\ w.chan = chan /\ w.lobby = lobby
  BY Worlds
<1> HIDE DEF w
<1>3. /\ \A c \in Clients : w.member[c] = Newcomer
      /\ w.member[Host] = [phase |-> "lobby", my_id |-> 1, colour |-> first, ready |-> FALSE,
                           reg |-> <<1>>, ended |-> 0, nations |-> <<>>]
  <2>1. \A c \in Clients : w.member[c] = Newcomer
    BY <1>1, <1>2
  <2>2. w.member[Host] = [Newcomer EXCEPT !.phase = "lobby", !.my_id = 1, !.colour = first,
                                          !.reg = <<1>>]
    BY <1>1, <1>2
  <2>3. w.member[Host] = [phase |-> "lobby", my_id |-> 1, colour |-> first, ready |-> FALSE,
                          reg |-> <<1>>, ended |-> 0, nations |-> <<>>]
    BY <2>2 DEF Newcomer
  <2> QED BY <2>1, <2>3
<1>4. /\ \A m, n \in Members : w.peer[m][n] = None /\ w.chan[m][n] = <<>> /\ Way(w, m, n) = {}
      /\ \A m \in Members : w.pending[m] = {}
  BY <1>1, <1>2, NothingThere DEF Way
<1>5. <<1>> \in Seq(Ids) /\ <<>> \in Seq(Ids) /\ ToSet(<<1>>) = {1} /\ IsInjective(<<1>>)
  <2>1. 1 \in Ids
    BY DEF Ids
  <2>2. <<1>> \in Seq(Ids) /\ DOMAIN <<1>> = {1} /\ <<1>>[1] = 1
    BY <2>1
  <2> QED BY <2>2, NothingThere DEF IsInjective, ToSet
<1>6. TypeOK(w)
  <2>1. Newcomer \in MemberRecords
    BY <1>5 DEF Newcomer, MemberRecords, Phases
  <2>2. w.member[Host] \in MemberRecords
    BY <1>3, <1>5 DEF MemberRecords, Phases
  <2>3. MembersTyped(w.member)
    <3>1. \A m \in Members : w.member[m] \in MemberRecords
      BY <1>3, <2>1, <2>2
    <3>2. w.member = [m \in Members |-> w.member[m]]
      BY <1>1, <1>2
    <3> QED BY <3>1, <3>2 DEF MembersTyped
  <2>4. PeersTyped(w.peer) /\ PendingTyped(w.pending)
    BY <1>1, <1>2 DEF PeersTyped, PendingTyped
  <2>5. ChansTyped(w.chan)
    BY <1>1, <1>2, NothingThere DEF ChansTyped
  <2>6. LobbyTyped(w.lobby)
    BY <1>1, <1>2 DEF LobbyTyped
  <2> QED BY <1>2, <2>3, <2>4, <2>5, <2>6 DEF TypeOK
<1>7. HostOK(w)
  BY <1>3, <1>4, <1>5 DEF HostOK
<1>8. ColoursOK(w)
  <2>1. w.lobby.colour = [id \in {1} |-> first] /\ w.lobby.assigned = {first} /\ w.lobby.ready = {}
    BY <1>1, <1>2
  <2> QED BY <1>3, <1>5, <2>1 DEF ColoursOK
<1>9. NewcomersOK(w) /\ ClientsOK(w) /\ IdsOK(w)
  <2>1. \A c \in Clients, id \in Ids : ~HasId(w, c, id)
    BY <1>3, <1>4 DEF HasId, Newcomer, Ids
  <2>2. 1 \in Ids
    BY DEF Ids
  <2> QED BY <1>4, <2>1, <2>2, NothingThere DEF NewcomersOK, ClientsOK, IdsOK, Carries
<1>10. RegistryOK(w) /\ HostIsOne(w)
  BY <1>3, <1>4, <1>5 DEF RegistryOK, HostIsOne
<1>11. GameOK(w)
  <2>1. \A m \in Members : ~Setting(w, m)
    BY <1>3 DEF Setting, Newcomer
  <2>2. Plays(w, <<>>)
    BY <1>4, <2>1 DEF Plays
  <2> QED BY <1>4, <1>5, <2>1, <2>2 DEF GameOK, NotStarted, Carries, OneGame
<1>12. choices \in Nat
  BY <1>1
<1> QED BY <1>6, <1>7, <1>8, <1>9, <1>10, <1>11, <1>12 DEF w, IInv, Inv

\* A client contacts the host.
LEMMA Joins ==
  ASSUME Inv, NEW c \in Clients, Join(c)
  PROVE  Inv'
<1> USE TheMembers
<1> DEFINE w == World
           r == [w.member[c] EXCEPT !.phase = "joining"]
           u == [w EXCEPT !.member[c] = r]
<1>1. IInv(w) /\ choices \in Nat /\ w.member[c].phase = "away" /\ w.member[c] \in MemberRecords
  BY Parts, Worlds DEF Inv, Join
<1>2. Become(Contact([w EXCEPT !.member[c].phase = "joining"], c, Host, 1)) /\ choices' = choices
  BY DEF Join
<1> HIDE DEF w
<1>3. [w EXCEPT !.member[c].phase = "joining"] = u
  BY <1>1
<1>4. r \in MemberRecords /\ r.phase = "joining" /\ r.my_id = w.member[c].my_id
  <2>1. r \in MemberRecords /\ r.phase = "joining"
    BY <1>1, FieldChanged DEF Phases
  <2>2. r.my_id = w.member[c].my_id
    BY <1>1 DEF MemberRecords
  <2> QED BY <2>1, <2>2
<1>5. MayBecome(w.member[c], r)
  BY <1>1 DEF MayBecome, MemberRecords
<1> HIDE DEF r
<1>6. IInv(u)
  BY <1>1, <1>4, <1>5, MemberChanged
<1>7. u.member[c].phase # "out"
  BY <1>1, <1>4, Parts DEF IInv, TypeOK, IsWorld, MembersTyped
<1> HIDE DEF u
<1>8. IInv(Contact(u, c, Host, 1))
  BY <1>6, <1>7, ContactIsCalm
<1> DEFINE v == Contact(u, c, Host, 1)
<1>9. IInv(v) /\ Become(v)
  BY <1>2, <1>3, <1>8
<1> HIDE DEF v
<1> QED BY <1>1, <1>2, <1>9, Becoming

\* A member takes an event or a message.
LEMMA Receives ==
  ASSUME Inv, NEW a \in Members, NEW b \in Members, Receive(a, b)
  PROVE  Inv'
<1> USE TheMembers
<1> DEFINE w == World
           t == [w EXCEPT !.chan[b][a] = Tail(@)]
<1>1. PICK v \in Handled(t, a, b, Head(w.chan[b][a])) : Become(v)
  BY Worlds DEF Receive
<1>2. /\ IInv(w) /\ w.chan[b][a] # <<>> /\ choices \in Nat /\ choices' = choices
      /\ w.member[a].phase \in {"joining", "lobby", "box", "setting"}
  BY Worlds DEF Inv, Receive
<1> HIDE DEF w
<1>3. IInv(v)
  <2>1. t = [w EXCEPT !.chan[b][a] = Tail(@)]
    OBVIOUS
  <2> HIDE DEF t
  <2>2. CASE a \in Clients
    BY <1>1, <1>2, <2>1, <2>2, ClientReceives
  <2>3. CASE a = Host
    BY <1>1, <1>2, <2>1, <2>3, HostReceives
  <2> QED BY <2>2, <2>3
<1> QED BY <1>1, <1>2, <1>3, Becoming

\* The host's colour is recorded in the lobby and with the host itself.
LEMMA HostChooses ==
  ASSUME NEW w, IInv(w), ~IsOut(w, Host), NEW c \in Colours, c \notin w.lobby.assigned
  PROVE  IInv([Coloured(w, 1, c) EXCEPT !.member[Host].colour = c])
<1> DEFINE u == Coloured(w, 1, c)
<1>1. 1 \in ToSet(w.member[Host].reg)
  <2>1. /\ w.member[Host].reg \in Seq(Ids)
        /\ w.member[Host].reg # <<>> /\ w.member[Host].reg[1] = 1
    BY Parts, TheMembers DEF MemberRecords, IInv, HostOK
  <2> DEFINE reg == w.member[Host].reg
  <2> HIDE DEF reg
  <2>2. 1 \in DOMAIN reg
    BY <2>1 DEF reg
  <2> QED BY <2>1, <2>2 DEF ToSet, reg
<1>2. IInv(u) /\ u.member = w.member
  BY <1>1, HostColours
<1> HIDE DEF u
<1>3. ~IsOut(u, Host)
  BY <1>2 DEF IsOut
<1>4. IInv([u EXCEPT !.member[Host].colour = c])
  BY <1>2, <1>3, HostFields
<1> QED BY <1>4 DEF u

\* A player chooses a colour.
LEMMA Chooses ==
  ASSUME Inv, NEW p \in Members, NEW c \in Colours, ChooseColour(p, c)
  PROVE  Inv'
<1> USE TheMembers
<1> DEFINE w == World
           e == [msg |-> "ACQUIRE_COLOR", colour |-> c]
<1>1. /\ IInv(w) /\ w.member[p].phase = "lobby" /\ choices \in Nat /\ choices' = choices + 1
      /\ w.lobby = lobby
  BY Worlds DEF Inv, ChooseColour
<1>2. choices' \in Nat
  BY <1>1
<1>3. ~IsOut(w, p)
  BY <1>1 DEF IsOut
<1>4. CASE p = Host /\ c \notin lobby.assigned
  <2> DEFINE v == [Coloured(w, 1, c) EXCEPT !.member[Host].colour = c]
  <2>1. Become(v)
    BY <1>4 DEF ChooseColour
  <2> HIDE DEF w
  <2>2. IInv(v)
    BY <1>1, <1>3, <1>4, HostChooses
  <2> HIDE DEF v
  <2> QED BY <1>2, <2>1, <2>2, Becoming
<1>5. CASE p = Host /\ c \in lobby.assigned
  <2>1. Become(w)
    BY <1>5 DEF ChooseColour
  <2> HIDE DEF w
  <2> QED BY <1>1, <1>2, <2>1, Becoming
<1>6. CASE p # Host
  <2> DEFINE v == Put(w, p, Host, e)
  <2>1. Become(v)
    BY <1>6 DEF ChooseColour
  <2>2. e \in Understood(Host) /\ Harmless(w, Host, e)
    BY DEF Understood, ToHost, Harmless
  <2> HIDE DEF w, e
  <2>3. IInv(v)
    BY <1>1, <1>6, <2>2, PutIsCalm
  <2> HIDE DEF v
  <2> QED BY <1>2, <2>1, <2>3, Becoming
<1> QED BY <1>4, <1>5, <1>6

\* A player presses the ready button.
LEMMA PressesReady ==
  ASSUME Inv, NEW p \in Members, PressReady(p)
  PROVE  Inv'
<1> USE TheMembers
<1> DEFINE ready == ~member[p].ready
           w == World
           u == [w EXCEPT !.member[p].ready = ready]
<1>1. IInv(w) /\ w.member[p].phase = "lobby" /\ choices \in Nat /\ choices' \in Nat
  <2>1. choices' = choices \/ choices' = choices + 1
    BY DEF PressReady
  <2>2. choices \in Nat
    BY DEF Inv
  <2> QED BY <2>1, <2>2, Worlds DEF Inv, PressReady
<1>2. /\ p = Host => Become([u EXCEPT !.lobby.ready = IF ready THEN @ \cup {1} ELSE @ \ {1}])
      /\ p # Host => Become(Put(u, p, Host, [msg |-> IF ready THEN "READY" ELSE "UNREADY"]))
  BY DEF PressReady
<1>3. ready \in BOOLEAN /\ ~IsOut(w, p)
  BY <1>1 DEF IsOut
<1> HIDE DEF w, ready
<1>4. IInv(u)
  <2>1. CASE p = Host
    BY <1>1, <1>3, <2>1, HostFields
  <2>2. CASE p \in Clients
    BY <1>1, <1>3, <2>2, ClientFields DEF IsOut
  <2> QED BY <2>1, <2>2
<1>5. u.member[p].phase = "lobby"
  BY <1>1, Parts DEF IInv, TypeOK, MembersTyped, IsWorld, MemberRecords
<1> HIDE DEF u
<1>6. CASE p = Host
  <2> DEFINE x == IF ready THEN u.lobby.ready \cup {1} ELSE u.lobby.ready \ {1}
             v == [u EXCEPT !.lobby.ready = x]
  <2>1. Become(v)
    <3>1. v = [u EXCEPT !.lobby.ready = IF ready THEN @ \cup {1} ELSE @ \ {1}]
      OBVIOUS
    <3> HIDE DEF v
    <3> QED BY <1>2, <1>6, <3>1
  <2>2. x \subseteq ToSet(u.member[Host].reg)
    <3>1. /\ u.lobby.ready \subseteq ToSet(u.member[Host].reg)
          /\ u.member[Host].reg # <<>> /\ u.member[Host].reg[1] = 1
          /\ u.member[Host].reg \in Seq(Ids)
      BY <1>4, <1>5, <1>6, Parts DEF IInv, HostOK, ColoursOK, IsOut, MemberRecords
    <3> DEFINE reg == u.member[Host].reg
    <3> HIDE DEF reg
    <3>2. 1 \in DOMAIN reg
      BY <3>1 DEF reg
    <3>3. 1 \in ToSet(reg)
      BY <3>1, <3>2 DEF ToSet, reg
    <3> QED BY <3>1, <3>3 DEF reg
  <2> HIDE DEF x
  <2>3. IInv(v)
    BY <1>4, <1>5, <1>6, <2>2, HostReady DEF IsOut
  <2> HIDE DEF v
  <2> QED BY <1>1, <2>1, <2>3, Becoming
<1>7. CASE p # Host
  <2> DEFINE e == [msg |-> IF ready THEN "READY" ELSE "UNREADY"]
             v == Put(u, p, Host, e)
  <2>1. Become(v)
    BY <1>2, <1>7
  <2>2. e \in Understood(Host) /\ Harmless(u, Host, e)
    BY DEF Understood, ToHost, Harmless
  <2> HIDE DEF e
  <2>3. IInv(v)
    BY <1>4, <1>7, <2>2, PutIsCalm
  <2> HIDE DEF v
  <2> QED BY <1>1, <2>1, <2>3, Becoming
<1> QED BY <1>6, <1>7

\* The host starts the game.
LEMMA Starts ==
  ASSUME Inv, PressStart
  PROVE  Inv'
<1> DEFINE w == World
           v == SetUp(w, Host, StartersOf(w))
<1>1. IInv(w) /\ w.member[Host].phase = "lobby" /\ choices' \in Nat /\ Become(v)
  BY Worlds DEF Inv, PressStart
<1> HIDE DEF w
<1>2. IInv(v)
  BY <1>1, HostSetsUp
<1> HIDE DEF v
<1> QED BY <1>1, <1>2, Becoming

\* The wait for the others ends.
LEMMA Finishes ==
  ASSUME Inv, NEW p \in Members, Begin(p) \/ TimeOut(p)
  PROVE  Inv'
<1> USE TheMembers
<1> DEFINE w == World
           r == [w.member[p] EXCEPT !.phase = "playing"]
           v == [w EXCEPT !.member[p].phase = "playing"]
<1>1. /\ IInv(w) /\ w.member[p].phase = "setting" /\ choices' \in Nat /\ Become(v)
      /\ w.member[p] \in MemberRecords
  BY Worlds, Parts DEF Inv, Begin, TimeOut
<1> HIDE DEF w
<1>2. IInv(v)
  <2>1. CASE p = Host
    BY <1>1, <2>1, HostFields DEF IsOut
  <2>2. CASE p \in Clients
    <3>1. v = [w EXCEPT !.member[p] = r]
      BY <1>1
    <3>2. r \in MemberRecords /\ r.phase = "playing" /\ r.my_id = w.member[p].my_id
      <4>1. r \in MemberRecords /\ r.phase = "playing"
        BY <1>1, FieldChanged DEF Phases
      <4>2. r.my_id = w.member[p].my_id
        BY <1>1 DEF MemberRecords
      <4> QED BY <4>1, <4>2
    <3>3. MayBecome(w.member[p], r)
      BY <1>1 DEF MayBecome, MemberRecords
    <3> HIDE DEF r, v
    <3> QED BY <1>1, <2>2, <3>1, <3>2, <3>3, MemberChanged
  <2> QED BY <2>1, <2>2
<1> HIDE DEF v
<1> QED BY <1>1, <1>2, Becoming

\* A player leaves.
LEMMA Leaves ==
  ASSUME Inv, NEW p \in Members, Leave(p)
  PROVE  Inv'
<1> USE TheMembers
<1> DEFINE w == World
           e == [msg |-> "ABORT_GAME"]
           u == Broadcast(w, Host, e)
<1>1. /\ IInv(w) /\ choices' \in Nat
      /\ Become(Gone(w, p)) \/ Become(Gone(u, p))
  BY DEF Inv, Leave
<1> HIDE DEF w
<1>2. IInv(u)
  <2>1. \A b \in Members : Host # Host \/ b # Host => e \in Understood(b) /\ Harmless(w, b, e)
    BY DEF Understood, ToClient, Harmless
  <2> HIDE DEF e
  <2> QED BY <1>1, <2>1, BroadcastIsCalm
<1> HIDE DEF u
<1>3. IInv(Gone(w, p)) /\ IInv(Gone(u, p))
  BY <1>1, <1>2, GoneIsCalm
<1>4. CASE Become(Gone(w, p))
  <2> DEFINE v == Gone(w, p)
  <2>1. IInv(v) /\ Become(v)
    BY <1>3, <1>4
  <2> HIDE DEF v
  <2> QED BY <1>1, <2>1, Becoming
<1>5. CASE Become(Gone(u, p))
  <2> DEFINE v == Gone(u, p)
  <2>1. IInv(v) /\ Become(v)
    BY <1>3, <1>5
  <2> HIDE DEF v
  <2> QED BY <1>1, <2>1, Becoming
<1> QED BY <1>1, <1>4, <1>5

---------------------------------------------------------------------------
(* What always holds.                                                      *)

\* Whatever the members do, in whatever order events and messages are taken: the invariant.
THEOREM SetupInvariant == Spec => []Inv
<1>1. Init => Inv
  BY Beginning
<1>2. Inv /\ [Next]_vars => Inv'
  <2> SUFFICES ASSUME Inv, [Next]_vars PROVE Inv'
    OBVIOUS
  <2>1. CASE \E c \in Clients : Join(c)
    BY <2>1, Joins
  <2>2. CASE \E a, b \in Members : Receive(a, b)
    BY <2>2, Receives
  <2>3. CASE \E p \in Members : \E c \in Colours : ChooseColour(p, c)
    BY <2>3, Chooses
  <2>4. CASE \E p \in Members : PressReady(p)
    BY <2>4, PressesReady
  <2>5. CASE \E p \in Members : Begin(p) \/ TimeOut(p)
    BY <2>5, Finishes
  <2>6. CASE \E p \in Members : Leave(p)
    BY <2>6, Leaves
  <2>7. CASE PressStart
    BY <2>7, Starts
  <2>8. CASE UNCHANGED vars
    <3>1. World' = World /\ choices' = choices
      BY <2>8 DEF vars, World
    <3> QED BY <3>1 DEF Inv
  <2> QED BY <2>1, <2>2, <2>3, <2>4, <2>5, <2>6, <2>7, <2>8 DEF Next
<1> QED BY <1>1, <1>2, PTL DEF Spec

\* No two players have the same colour, no colour is lost, and only registered players are ready.
LEMMA ColoursOfInv == Inv => ColoursDistinct
<1> SUFFICES ASSUME Inv, ~IsOut(World, Host) PROVE ColoursDistinct
  BY DEF ColoursDistinct
<1> DEFINE colour == lobby.colour
           taken == lobby.assigned
<1>1. /\ DOMAIN colour = ToSet(member[Host].reg)
      /\ taken = {colour[id] : id \in DOMAIN colour}
      /\ \A i, j \in DOMAIN colour : colour[i] = colour[j] => i = j
      /\ lobby.ready \subseteq ToSet(member[Host].reg)
  BY Worlds DEF Inv, IInv, ColoursOK
<1>2. colour \in [DOMAIN colour -> Colours] /\ taken \subseteq Colours
  BY Worlds DEF Inv, IInv, TypeOK, LobbyTyped
<1>3. Cardinality(taken) = Cardinality(DOMAIN colour)
  <2> DEFINE S == DOMAIN colour
  <2> HIDE DEF colour, taken
  <2>1. IsFiniteSet(taken)
    BY <1>2, SetupAssumption, FS_Subset
  <2>2. colour \in [S -> taken]
    BY <1>1, <1>2
  <2>3. colour \in Injection(S, taken)
    BY <1>1, <2>2 DEF Injection, IsInjective
  <2>4. colour \in Surjection(S, taken)
    BY <1>1, <2>2 DEF Surjection
  <2> HIDE DEF S
  <2> QED BY <2>1, <2>3, <2>4, FS_Injection DEF S
<1> QED BY <1>1, <1>3 DEF ColoursDistinct

\* Those who set up the game have the same list of nations, and each its own place in it.
LEMMA GameOfInv == Inv => SameGame
<1> USE TheMembers
<1> SUFFICES ASSUME Inv, NEW m \in Members, NEW n \in Members,
                    Phase(m) \in {"setting", "playing"}, Phase(n) \in {"setting", "playing"}
             PROVE  /\ member[m].nations = member[n].nations
                    /\ Contains(member[m].nations, member[m].my_id)
                    /\ m # n => member[m].my_id # member[n].my_id
  BY DEF SameGame
<1> DEFINE w == World
<1>1. IInv(w) /\ w.member = member
  BY Worlds DEF Inv
<1> HIDE DEF w
<1>2. Setting(w, m) /\ Setting(w, n) /\ w.member[m].phase # "out" /\ w.member[n].phase # "out"
  BY <1>1 DEF Phase, Setting
<1>3. w.member[m].nations = w.member[n].nations
  BY <1>1, <1>2 DEF IInv, GameOK, OneGame, Plays
<1>4. Contains(w.member[m].nations, w.member[m].my_id)
  BY <1>1, <1>2 DEF IInv, GameOK
<1>5. w.member[m].my_id \in Ids
  <2>1. w.member[m].nations \in Seq(Ids)
    BY <1>1, Parts DEF MemberRecords
  <2> QED BY <1>4, <2>1 DEF Contains
<1>6. IdsOK(w)
  BY <1>1 DEF IInv
<1>7. ASSUME m # n PROVE w.member[m].my_id # w.member[n].my_id
  <2>1. \A c \in Clients : w.member[c].phase # "out" => w.member[c].my_id # 1
    BY <1>6 DEF IdsOK, HasId
  <2>2. \A c \in Members : c = Host /\ Setting(w, c) => w.member[c].my_id = 1
    BY <1>1 DEF IInv, HostOK, IsOut, Setting
  <2>3. CASE m \in Clients /\ n \in Clients
    BY <1>2, <1>5, <1>6, <1>7, <2>3 DEF IdsOK, HasId
  <2>4. CASE m = Host \/ n = Host
    BY <1>2, <1>7, <2>1, <2>2, <2>4
  <2> QED BY <2>3, <2>4
<1> QED BY <1>1, <1>3, <1>4, <1>7

\* The state has its type: every channel holds only what its reader understands.
THEOREM SetupTypes == Spec => []TypeOK(World)
<1>1. Inv => TypeOK(World)
  BY DEF Inv, IInv
<1> QED BY <1>1, SetupInvariant, PTL

\* Whatever order players come, go and choose in: the colours given out are distinct, a colour
\* is taken exactly as long as a player has it, and readiness is not handed on.
THEOREM LobbyIsSound == Spec => []ColoursDistinct
BY SetupInvariant, ColoursOfInv, PTL

\* Those who set up the game set up the same one, and none has an id twice: also when players
\* come and go and ids are given out again.
THEOREM OneGameForAll == Spec => []SameGame
BY SetupInvariant, GameOfInv, PTL

---------------------------------------------------------------------------
(* Nobody is ahead: the invariant.                                         *)

AtMostOne(s, kind) == \A i, j \in DOMAIN s : s[i].msg = kind /\ s[j].msg = kind => i = j
Numbered(id) == [msg |-> "PLAYER_ID", id |-> id]
IsOnWay(w, c, id) == \E x \in Members : Numbered(id) \in Way(w, x, c)

\* When c is introduced to itself, it has its id, or hears it before.
Introduced(s, c, id) ==
  \A j \in DOMAIN s : s[j].msg = "ACCEPT_NEW_PLAYER" /\ s[j].who = c =>
    s[j].id = id \/ \E i \in 1..(j - 1) : s[i] = Numbered(s[j].id)

HasLeft(w, c) == w.member[c].phase = "out"
IsEarly(w, c) == w.member[c].phase \in {"away", "joining", "lobby"}
IsAttached(w, c) ==
  w.member[c].phase \in {"joining", "lobby"} => w.peer[c][Host] # None /\ w.peer[c][Host].id = 1

\* Nobody is numbered twice or says twice that it has set up the game, and clients only say
\* what they have to.
WaysOK(w) ==
  /\ \A x, y \in Members : \A k \in {"PLAYER_ID", "END_SETTING"} : AtMostOne(w.chan[x][y], k)
  /\ \A c \in Clients, y \in Members : \A m \in Way(w, c, y) :
       m.msg \notin {"PLAYER_ID", "ACCEPT_NEW_PLAYER", "START_GAME"}

\* A client does not take itself for another player, and knows the host while it waits.
SelvesOK(w) ==
  \A c \in Clients :
    /\ w.peer[c][c] = None /\ w.chan[c][c] = <<>> /\ \A e \in w.pending[c] : e.who # c
    /\ IsAttached(w, c)
    /\ IsEarly(w, c) => Introduced(w.chan[Host][c], c, w.member[c].my_id)

\* Who is not registered yet has no id, nor who has left.
NumbersOK(w) ==
  /\ \A c \in Clients : IsNew(w, c) => \A id \in Ids : ~HasId(w, c, id)
  /\ \A m \in Members : HasLeft(w, m) => w.member[m].my_id = 0

\* In the lobby: who is ready knows its id, and nobody has said that the game is set up.
WaitOK(w) ==
  /\ \A c \in Clients : ~HasLeft(w, c) =>
       /\ Carries(w, c, Host, "READY") => w.member[c].my_id # 0
       /\ \A id \in Ids : IsOnWay(w, c, id) => w.member[c].my_id = 0 /\ id \notin w.lobby.ready
  /\ \A x, y \in Members : ~Carries(w, x, y, "END_SETTING")
  /\ \A m \in Members : w.member[m].ended = 0

\* Who was to play when the host began: the list, the ids, who has said that it has set up the
\* game, and who is about to say so.
Plans ==
  [list : Seq(Ids), id : [Members -> Nat], done : SUBSET Members, busy : SUBSET Members]

\* Those m has heard of, or does not hear of any more
HeardOf(w, D, m) == {n \in D \ {m} : ~Carries(w, n, m, "END_SETTING")}

PlanOK(p) ==
  /\ p \in Plans /\ p.done \cap p.busy = {}
  /\ \A m, n \in Members : p.id[m] = p.id[n] /\ p.id[m] # 0 => m = n
  /\ \A m \in p.done \cup p.busy : p.id[m] \in ToSet(p.list)

\* Once the host has begun: the plan is followed, an END_SETTING counted came from a player
\* of the list, and who plays waits for nobody any more.
Follows(w, p) ==
  /\ Plays(w, p.list)
  /\ \A m \in Members : Setting(w, m) => m \in p.done \cup p.busy
  /\ \A m \in p.done \cup p.busy : Setting(w, m) \/ HasLeft(w, m)
  /\ \A m \in Members, id \in Ids : HasId(w, m, id) /\ ~HasLeft(w, m) => p.id[m] = id
  /\ \A c \in Clients, id \in Ids : IsOnWay(w, c, id) /\ ~HasLeft(w, c) => id \notin ToSet(p.list)
  /\ \A x, y \in Members : Carries(w, x, y, "END_SETTING") => x \in p.done /\ x # y
  /\ \A m \in Members : ~HasLeft(w, m) => w.member[m].ended <= Cardinality(HeardOf(w, p.done, m))
  /\ \A m, n \in Members : w.member[m].phase = "playing" /\ w.member[n].my_id \in ToSet(p.list)
       => Setting(w, n)

InLobby(w) == w.member[Host].phase = "lobby"
Orderly(w) == WaysOK(w) /\ SelvesOK(w) /\ NumbersOK(w)
Course(w, p) ==
  /\ PlanOK(p) /\ Orderly(w)
  /\ InLobby(w) => WaitOK(w)
  /\ ~InLobby(w) => Follows(w, p)
OnCourse(w) == \E p \in Plans : p.busy = {} /\ Course(w, p)

---------------------------------------------------------------------------
(* Nobody is ahead: steps that do not matter.                              *)

\* A message that tells nobody its id, nor that the game is set up.
Mild(w, x, y, m) ==
  /\ m.msg \notin {"PLAYER_ID", "END_SETTING", "START_GAME"}
  /\ m.msg = "ACCEPT_NEW_PLAYER" => x \notin Clients
  /\ m.msg = "READY" => w.member[x].my_id # 0
  /\ m.msg = "NEW_PLAYER" => IsNew(w, x)
Thin(s, t) == \A k \in {"PLAYER_ID", "END_SETTING"} : AtMostOne(s, k) => AtMostOne(t, k)
Leads(s, t, c) == \A id : Introduced(s, c, id) => Introduced(t, c, id)
Subdued(w, x, y, t) ==
  /\ \A m \in ToSet(t) : m \in Way(w, x, y) \/ Mild(w, x, y, m)
  /\ Thin(w.chan[x][y], t)
  /\ x \in Clients /\ x = y /\ w.chan[x][y] = <<>> => t = <<>>
IsGone(r) == r.phase = "out" /\ r.my_id = 0 /\ r.ended = 0
Passive(o, r) ==
  /\ r.my_id = o.my_id /\ r.ended = o.ended /\ r.nations = o.nations
  /\ \/ r.phase = o.phase
     \/ o.phase = "away" /\ r.phase = "joining"
     \/ o.phase \in {"away", "joining"} /\ r.phase = "lobby"
     \/ o.phase \in {"away", "joining", "lobby"} /\ r.phase = "box"
Aside(w, v, c) ==
  /\ w.peer[c][c] = None => v.peer[c][c] = None
  /\ \A e \in v.pending[c] : e \in w.pending[c] \/ e.who # c
  /\ IsAttached(w, c) => IsAttached(v, c)
Plain(w, v) ==
  /\ v.lobby.ready \subseteq w.lobby.ready \cup {1}
  /\ \A m \in Members : Passive(w.member[m], v.member[m]) \/ IsGone(v.member[m])
  /\ \A c \in Clients : Aside(w, v, c)
  /\ \A x, y \in Members : Subdued(w, x, y, v.chan[x][y])
  /\ \A c \in Clients : IsEarly(v, c) => Leads(w.chan[Host][c], v.chan[Host][c], c)
Mute(w, v) == Plain(w, v) /\ (HasLeft(v, Host) => HasLeft(w, Host))

\* Two such steps are one.
LEMMA MuteTwice ==
  ASSUME NEW w, NEW u, NEW v, Mute(w, u), Mute(u, v)
  PROVE  Mute(w, v)
<1> USE TheMembers
<1> DEFINE P(o, r) == Passive(o, r) \/ IsGone(r)
<1>1. v.lobby.ready \subseteq w.lobby.ready \cup {1}
  BY DEF Mute, Plain
<1>2. \A m \in Members : P(w.member[m], u.member[m]) /\ P(u.member[m], v.member[m])
  BY DEF Mute, Plain
<1>3. ASSUME NEW m \in Members PROVE P(w.member[m], v.member[m])
  <2>1. CASE Passive(w.member[m], u.member[m])
    BY <1>2, <2>1 DEF Passive
  <2>2. CASE IsGone(u.member[m])
    BY <1>2, <2>2 DEF Passive, IsGone
  <2> QED BY <1>2, <2>1, <2>2
<1>4. ASSUME NEW c \in Clients PROVE Aside(w, v, c)
  <2>1. Aside(w, u, c) /\ Aside(u, v, c)
    BY DEF Mute, Plain
  <2> QED BY <2>1 DEF Aside
<1>5. ASSUME NEW x \in Members, NEW y \in Members
      PROVE  \A m \in ToSet(u.chan[x][y]) : m \in Way(w, x, y) \/ Mild(w, x, y, m)
  BY DEF Mute, Plain, Subdued
<1>6. \A c \in Members : IsNew(u, c) => IsNew(w, c)
  <2>1. ASSUME NEW c \in Members, u.member[c].phase \in {"away", "joining"}
        PROVE  w.member[c].phase \in {"away", "joining"}
    BY <1>2, <2>1 DEF Passive, IsGone
  <2>2. ASSUME NEW c \in Members, Carries(u, c, Host, "NEW_PLAYER") PROVE IsNew(w, c)
    <3>1. PICK m \in ToSet(u.chan[c][Host]) : m.msg = "NEW_PLAYER"
      BY <2>2 DEF Carries, Way
    <3>2. m \in Way(w, c, Host) \/ Mild(w, c, Host, m)
      BY <1>5
    <3> QED BY <3>1, <3>2 DEF Mild, IsNew, Carries
  <2> QED BY <2>1, <2>2 DEF IsNew
<1>7. ASSUME NEW x \in Members, NEW y \in Members, NEW m, Mild(u, x, y, m)
      PROVE  Mild(w, x, y, m)
  BY <1>2, <1>6, <1>7 DEF Mild, Passive, IsGone
<1>8. ASSUME NEW x \in Members, NEW y \in Members PROVE Subdued(w, x, y, v.chan[x][y])
  <2>1. Subdued(w, x, y, u.chan[x][y]) /\ Subdued(u, x, y, v.chan[x][y])
    BY DEF Mute, Plain
  <2>2. \A m \in ToSet(v.chan[x][y]) : m \in Way(w, x, y) \/ Mild(w, x, y, m)
    BY <1>5, <1>7, <2>1 DEF Subdued, Way
  <2>3. Thin(w.chan[x][y], v.chan[x][y])
    BY <2>1 DEF Subdued, Thin
  <2> QED BY <2>1, <2>2, <2>3 DEF Subdued
<1>9. ASSUME NEW c \in Clients, IsEarly(v, c) PROVE Leads(w.chan[Host][c], v.chan[Host][c], c)
  <2>1. IsEarly(u, c)
    BY <1>2, <1>9 DEF IsEarly, Passive, IsGone
  <2> QED BY <1>9, <2>1 DEF Mute, Plain, Leads
<1>10. HasLeft(v, Host) => HasLeft(w, Host)
  BY DEF Mute
<1> QED BY <1>1, <1>3, <1>4, <1>8, <1>9, <1>10 DEF Mute, Plain

\* What is in a sequence of ids is an id.
LEMMA MembersOfSeq ==
  ASSUME NEW s \in Seq(Ids), NEW id \in ToSet(s)
  PROVE  id \in Nat /\ id # 0
BY DEF ToSet, Ids

\* Nobody hears less for fewer messages on their way.
LEMMA HeardGrows ==
  ASSUME NEW w, NEW v, NEW D \in SUBSET Members, NEW m \in Members,
         \A n \in Members : Carries(v, n, m, "END_SETTING") => Carries(w, n, m, "END_SETTING")
  PROVE  /\ HeardOf(w, D, m) \subseteq HeardOf(v, D, m)
         /\ IsFiniteSet(HeardOf(v, D, m))
         /\ Cardinality(HeardOf(w, D, m)) \in Nat /\ Cardinality(HeardOf(v, D, m)) \in Nat
         /\ Cardinality(HeardOf(w, D, m)) <= Cardinality(HeardOf(v, D, m))
<1>1. HeardOf(w, D, m) \subseteq HeardOf(v, D, m) /\ HeardOf(v, D, m) \subseteq Members
  BY DEF HeardOf
<1>2. IsFiniteSet(HeardOf(v, D, m))
  BY <1>1, TheMembers, FS_Subset
<1>3. IsFiniteSet(HeardOf(w, D, m)) /\ Cardinality(HeardOf(w, D, m)) <= Cardinality(HeardOf(v, D, m))
  BY <1>1, <1>2, FS_Subset
<1> QED BY <1>1, <1>2, <1>3, FS_CardinalityType

\* What such a step leaves of the members and of what is on its way.
LEMMA PlainLeaves ==
  ASSUME NEW w, NEW v, Plain(w, v)
  PROVE  /\ \A m \in Members :
              /\ v.member[m].my_id \in {w.member[m].my_id, 0}
              /\ v.member[m].ended \in {w.member[m].ended, 0}
              /\ ~HasLeft(v, m) => /\ v.member[m].my_id = w.member[m].my_id
                                   /\ v.member[m].ended = w.member[m].ended
              /\ HasLeft(w, m) => HasLeft(v, m)
              /\ HasLeft(v, m) => \/ v.member[m].my_id = w.member[m].my_id /\ HasLeft(w, m)
                                  \/ v.member[m].my_id = 0
              /\ IsEarly(v, m) => IsEarly(w, m)
              /\ Setting(v, m) => /\ Setting(w, m) /\ v.member[m].nations = w.member[m].nations
                                  /\ v.member[m].phase = w.member[m].phase
              /\ Setting(w, m) => Setting(v, m) \/ IsGone(v.member[m])
              /\ IsNew(v, m) => IsNew(w, m)
         /\ \A x, y \in Members : \A m \in Way(v, x, y) : m \in Way(w, x, y) \/ Mild(w, x, y, m)
         /\ \A x, y \in Members : \A k \in {"END_SETTING", "START_GAME", "PLAYER_ID"} :
              Carries(v, x, y, k) => Carries(w, x, y, k)
         /\ \A m \in Members : \A id : IsOnWay(v, m, id) => IsOnWay(w, m, id)
         /\ \A m \in Members, id \in Ids : HasId(v, m, id) => HasId(w, m, id)
<1> USE TheMembers
<1> DEFINE P(o, r) == Passive(o, r) \/ IsGone(r)
<1>1. \A m \in Members : P(w.member[m], v.member[m])
  BY DEF Plain
<1>2. \A x, y \in Members : \A m \in Way(v, x, y) : m \in Way(w, x, y) \/ Mild(w, x, y, m)
  BY DEF Plain, Subdued, Way
<1>3. ASSUME NEW m \in Members
      PROVE  /\ v.member[m].my_id \in {w.member[m].my_id, 0}
             /\ v.member[m].ended \in {w.member[m].ended, 0}
             /\ ~HasLeft(v, m) => /\ v.member[m].my_id = w.member[m].my_id
                                  /\ v.member[m].ended = w.member[m].ended
             /\ HasLeft(w, m) => HasLeft(v, m)
             /\ HasLeft(v, m) => \/ v.member[m].my_id = w.member[m].my_id /\ HasLeft(w, m)
                                 \/ v.member[m].my_id = 0
             /\ IsEarly(v, m) => IsEarly(w, m)
             /\ Setting(v, m) => /\ Setting(w, m) /\ v.member[m].nations = w.member[m].nations
                                 /\ v.member[m].phase = w.member[m].phase
             /\ Setting(w, m) => Setting(v, m) \/ IsGone(v.member[m])
             /\ v.member[m].phase \in {"away", "joining"}
                  => w.member[m].phase \in {"away", "joining"}
  <2>1. CASE Passive(w.member[m], v.member[m])
    BY <2>1 DEF Passive, HasLeft, IsEarly, Setting
  <2>2. CASE IsGone(v.member[m])
    BY <2>2 DEF IsGone, HasLeft, IsEarly, Setting
  <2> QED BY <1>1, <2>1, <2>2
<1>4. \A x, y \in Members : \A k \in {"END_SETTING", "START_GAME", "PLAYER_ID"} :
        Carries(v, x, y, k) => Carries(w, x, y, k)
  BY <1>2 DEF Carries, Mild
<1>5. \A m \in Members : \A id : IsOnWay(v, m, id) => IsOnWay(w, m, id)
  <2>1. ASSUME NEW m \in Members, NEW id, NEW x \in Members, Numbered(id) \in Way(v, x, m)
        PROVE  Numbered(id) \in Way(w, x, m)
    BY <1>2, <2>1 DEF Mild, Numbered
  <2> QED BY <2>1 DEF IsOnWay
<1>6. ASSUME NEW m \in Members, NEW id \in Ids, HasId(v, m, id) PROVE HasId(w, m, id)
  <2>1. CASE v.member[m].my_id = id
    <3>1. id # 0
      BY DEF Ids
    <3> QED BY <1>3, <2>1, <3>1 DEF HasId
  <2>2. CASE IsOnWay(v, m, id)
    BY <1>5, <2>2 DEF HasId, IsOnWay, Numbered
  <2> QED BY <1>6, <2>1, <2>2 DEF HasId, IsOnWay, Numbered
<1>7. ASSUME NEW m \in Members, IsNew(v, m) PROVE IsNew(w, m)
  <2>1. CASE Carries(v, m, Host, "NEW_PLAYER")
    BY <1>2, <2>1 DEF Mild, IsNew, Carries
  <2> QED BY <1>3, <1>7, <2>1 DEF IsNew
<1> QED BY <1>2, <1>3, <1>4, <1>5, <1>6, <1>7

\* It leaves the ways, the ids and the clients' pictures in order.
LEMMA PlainIsOrderly ==
  ASSUME NEW w, NEW v, Orderly(w), Plain(w, v)
  PROVE  Orderly(v)
<1> USE TheMembers
<1>1. WaysOK(v)
  <2>1. ASSUME NEW x \in Members, NEW y \in Members, NEW k \in {"PLAYER_ID", "END_SETTING"}
        PROVE  AtMostOne(v.chan[x][y], k)
    <3>1. AtMostOne(w.chan[x][y], k)
      BY DEF Orderly, WaysOK
    <3> QED BY <3>1 DEF Plain, Subdued, Thin
  <2>2. ASSUME NEW c \in Clients, NEW y \in Members, NEW m \in Way(v, c, y)
        PROVE  m.msg \notin {"PLAYER_ID", "ACCEPT_NEW_PLAYER", "START_GAME"}
    BY <2>2, PlainLeaves DEF Mild, Orderly, WaysOK
  <2> QED BY <2>1, <2>2 DEF WaysOK
<1>2. SelvesOK(v)
  <2> SUFFICES ASSUME NEW c \in Clients
               PROVE  /\ v.peer[c][c] = None /\ v.chan[c][c] = <<>>
                      /\ \A e \in v.pending[c] : e.who # c
                      /\ IsAttached(v, c)
                      /\ IsEarly(v, c) => Introduced(v.chan[Host][c], c, v.member[c].my_id)
    BY DEF SelvesOK
  <2>1. /\ w.peer[c][c] = None /\ w.chan[c][c] = <<>> /\ \A e \in w.pending[c] : e.who # c
        /\ IsAttached(w, c)
        /\ IsEarly(w, c) => Introduced(w.chan[Host][c], c, w.member[c].my_id)
    BY DEF Orderly, SelvesOK
  <2>2. Aside(w, v, c) /\ Subdued(w, c, c, v.chan[c][c])
        /\ (IsEarly(v, c) => Leads(w.chan[Host][c], v.chan[Host][c], c))
    BY DEF Plain
  <2>3. IsEarly(v, c) => IsEarly(w, c) /\ v.member[c].my_id = w.member[c].my_id
    <3>1. IsEarly(v, c) => ~HasLeft(v, c)
      BY DEF IsEarly, HasLeft
    <3> QED BY <3>1, PlainLeaves
  <2> QED BY <2>1, <2>2, <2>3 DEF Aside, Subdued, Leads
<1>3. NumbersOK(v)
  <2>1. ASSUME NEW c \in Clients, IsNew(v, c), NEW id \in Ids PROVE ~HasId(v, c, id)
    <3>1. IsNew(w, c) /\ (HasId(v, c, id) => HasId(w, c, id))
      BY <2>1, PlainLeaves
    <3> QED BY <3>1 DEF Orderly, NumbersOK
  <2>2. ASSUME NEW m \in Members, HasLeft(v, m) PROVE v.member[m].my_id = 0
    BY <2>2, PlainLeaves DEF Orderly, NumbersOK
  <2> QED BY <2>1, <2>2 DEF NumbersOK
<1> QED BY <1>1, <1>2, <1>3 DEF Orderly

\* In the lobby all still wait.
LEMMA PlainWaits ==
  ASSUME NEW w, NEW v, IInv(w), WaitOK(w), Plain(w, v)
  PROVE  WaitOK(v)
<1> USE TheMembers
<1>1. ASSUME NEW c \in Clients, ~HasLeft(v, c), Carries(v, c, Host, "READY")
      PROVE  v.member[c].my_id # 0
  <2>1. ~HasLeft(w, c) /\ v.member[c].my_id = w.member[c].my_id
    BY <1>1, PlainLeaves
  <2>2. CASE Carries(w, c, Host, "READY")
    BY <2>1, <2>2 DEF WaitOK
  <2>3. CASE ~Carries(w, c, Host, "READY")
    <3>1. \E m \in Way(v, c, Host) : m.msg = "READY" /\ Mild(w, c, Host, m)
      BY <1>1, <2>3, PlainLeaves DEF Carries
    <3> QED BY <2>1, <3>1 DEF Mild
  <2> QED BY <2>2, <2>3
<1>2. ASSUME NEW c \in Clients, ~HasLeft(v, c), NEW id \in Ids, IsOnWay(v, c, id)
      PROVE  v.member[c].my_id = 0 /\ id \notin v.lobby.ready
  <2>1. IsOnWay(w, c, id) /\ ~HasLeft(w, c) /\ v.member[c].my_id = w.member[c].my_id
    BY <1>2, PlainLeaves
  <2>2. w.member[c].my_id = 0 /\ id \notin w.lobby.ready
    BY <2>1 DEF WaitOK
  <2>3. id # 1
    BY <2>1 DEF IInv, IdsOK, HasId, IsOnWay, Numbered, HasLeft
  <2> QED BY <2>1, <2>2, <2>3 DEF Plain
<1>3. \A x, y \in Members : ~Carries(v, x, y, "END_SETTING")
  BY PlainLeaves DEF WaitOK
<1>4. \A m \in Members : v.member[m].ended = 0
  BY PlainLeaves DEF WaitOK
<1> QED BY <1>1, <1>2, <1>3, <1>4 DEF WaitOK

\* Where the host has begun, the plan is still followed.
LEMMA PlainFollows ==
  ASSUME NEW w, NEW v, NEW p, IInv(w), PlanOK(p), Follows(w, p), Plain(w, v)
  PROVE  Follows(v, p)
<1> USE TheMembers
<1>1. p.done \in SUBSET Members /\ p.busy \in SUBSET Members /\ p.list \in Seq(Ids)
  BY DEF PlanOK, Plans
<1>2. Plays(v, p.list)
  <2>1. ASSUME NEW x \in Members, NEW y \in Members, NEW m \in Way(v, x, y), m.msg = "START_GAME"
        PROVE  m.list = p.list
    BY <2>1, PlainLeaves DEF Mild, Follows, Plays
  <2>2. \A m \in Members : Setting(v, m) => v.member[m].nations = p.list
    BY PlainLeaves DEF Follows, Plays
  <2> QED BY <2>1, <2>2 DEF Plays
<1>3. ASSUME NEW m \in Members, ~HasLeft(v, m)
      PROVE  v.member[m].ended <= Cardinality(HeardOf(v, p.done, m))
  <2>1. ~HasLeft(w, m) /\ v.member[m].ended = w.member[m].ended
    BY <1>3, PlainLeaves
  <2>2. w.member[m].ended <= Cardinality(HeardOf(w, p.done, m))
    BY <2>1 DEF Follows
  <2>3. \A n \in Members : Carries(v, n, m, "END_SETTING") => Carries(w, n, m, "END_SETTING")
    BY PlainLeaves
  <2>4. /\ Cardinality(HeardOf(w, p.done, m)) \in Nat /\ Cardinality(HeardOf(v, p.done, m)) \in Nat
        /\ Cardinality(HeardOf(w, p.done, m)) <= Cardinality(HeardOf(v, p.done, m))
    BY <1>1, <2>3, HeardGrows
  <2>5. w.member[m].ended \in Nat
    BY Parts DEF MemberRecords
  <2> QED BY <2>1, <2>2, <2>4, <2>5
<1>4. \A m \in Members : Setting(v, m) => m \in p.done \cup p.busy
  BY PlainLeaves DEF Follows
<1>5. ASSUME NEW m \in p.done \cup p.busy PROVE Setting(v, m) \/ HasLeft(v, m)
  <2>1. m \in Members /\ (Setting(w, m) \/ HasLeft(w, m))
    BY <1>1 DEF Follows
  <2> QED BY <2>1, PlainLeaves DEF IsGone, HasLeft
<1>6. \A m \in Members, id \in Ids : HasId(v, m, id) /\ ~HasLeft(v, m) => p.id[m] = id
  BY PlainLeaves DEF Follows
<1>7. \A c \in Clients, id \in Ids : IsOnWay(v, c, id) /\ ~HasLeft(v, c) => id \notin ToSet(p.list)
  BY PlainLeaves DEF Follows
<1>8. \A x, y \in Members : Carries(v, x, y, "END_SETTING") => x \in p.done /\ x # y
  BY PlainLeaves DEF Follows
<1>9. ASSUME NEW m \in Members, NEW n \in Members,
             v.member[m].phase = "playing", v.member[n].my_id \in ToSet(p.list)
      PROVE  Setting(v, n)
  <2>1. v.member[n].my_id # 0
    BY <1>1, <1>9, MembersOfSeq
  <2>2. Setting(v, m) /\ w.member[m].phase = "playing"
    BY <1>9, PlainLeaves DEF Setting
  <2>3. w.member[n].my_id = v.member[n].my_id
    BY <2>1, PlainLeaves
  <2>4. Setting(w, n)
    BY <1>9, <2>2, <2>3 DEF Follows
  <2> QED BY <2>1, <2>4, PlainLeaves DEF IsGone
<1> QED BY <1>2, <1>3, <1>4, <1>5, <1>6, <1>7, <1>8, <1>9 DEF Follows

\* A step that does not matter leaves everything on course.
LEMMA MuteKeeps ==
  ASSUME NEW w, NEW v, NEW p, IInv(w), IInv(v), Course(w, p), Mute(w, v)
  PROVE  Course(v, p)
<1>1. InLobby(v) <=> InLobby(w)
  <2>1. /\ v.member[Host].phase \in {"lobby", "setting", "playing", "out"}
        /\ w.member[Host].phase \in {"lobby", "setting", "playing", "out"}
    BY DEF IInv, HostOK
  <2>2. Passive(w.member[Host], v.member[Host]) \/ IsGone(v.member[Host])
    BY TheMembers DEF Mute, Plain
  <2> QED BY <2>1, <2>2 DEF Passive, IsGone, InLobby, HasLeft, Mute
<1> QED BY <1>1, PlainIsOrderly, PlainWaits, PlainFollows DEF Course, Mute

\* Where nobody leaves.
LEMMA MuteBy ==
  ASSUME NEW w, NEW v,
         v.lobby.ready \subseteq w.lobby.ready \cup {1},
         \A m \in Members : Passive(w.member[m], v.member[m]),
         \A c \in Clients : Aside(w, v, c),
         \A x, y \in Members : Subdued(w, x, y, v.chan[x][y]),
         \A c \in Clients : IsEarly(v, c) => Leads(w.chan[Host][c], v.chan[Host][c], c)
  PROVE  Mute(w, v)
<1>1. Plain(w, v)
  BY DEF Plain
<1>2. HasLeft(v, Host) => HasLeft(w, Host)
  BY TheMembers DEF Passive, HasLeft
<1> QED BY <1>1, <1>2 DEF Mute

\* Where the channels stay, so does all they say.
LEMMA ChansStay ==
  ASSUME NEW w, NEW v, v.chan = w.chan
  PROVE  /\ \A x, y \in Members : Subdued(w, x, y, v.chan[x][y])
         /\ \A c \in Clients : Leads(w.chan[Host][c], v.chan[Host][c], c)
BY DEF Subdued, Leads, Thin, Way

\* Where a client's picture of the others stays, and it does not begin to join.
LEMMA PeersStay ==
  ASSUME NEW w, NEW v, NEW c \in Clients, v.peer[c] = w.peer[c], v.pending[c] = w.pending[c],
         v.member[c].phase \in {"joining", "lobby"} => w.member[c].phase \in {"joining", "lobby"}
  PROVE  Aside(w, v, c)
BY DEF Aside, IsAttached

\* A step that changes nothing does not matter.
LEMMA NothingIsMute ==
  ASSUME NEW w
  PROVE  Mute(w, w)
<1>1. \A m \in Members : Passive(w.member[m], w.member[m])
  BY DEF Passive
<1>2. \A c \in Clients : Aside(w, w, c)
  BY PeersStay
<1> QED BY <1>1, <1>2, ChansStay, MuteBy

\* A member changes what it shows, or closes the lobby with a message.
LEMMA MemberMute ==
  ASSUME NEW w, IInv(w), NEW m \in Members, NEW r, Passive(w.member[m], r),
         r.phase \in {"joining", "lobby"} => w.member[m].phase \in {"joining", "lobby"}
  PROVE  LET v == [w EXCEPT !.member[m] = r]
         IN  /\ Mute(w, v) /\ v.member = [w.member EXCEPT ![m] = r]
             /\ v.peer = w.peer /\ v.pending = w.pending /\ v.chan = w.chan /\ v.lobby = w.lobby
<1> DEFINE f == [w.member EXCEPT ![m] = r]
           v == [w EXCEPT !.member = f]
<1>1. IsWorld(w) /\ MembersTyped(w.member)
  BY DEF IInv, TypeOK
<1>2. [w EXCEPT !.member[m] = r] = v
  BY <1>1 DEF IsWorld
<1>3. f[m] = r /\ \A n \in Members : n # m => f[n] = w.member[n]
  BY <1>1 DEF MembersTyped
<1> HIDE DEF f
<1>4. /\ v.member = f /\ v.peer = w.peer /\ v.pending = w.pending /\ v.chan = w.chan
      /\ v.lobby = w.lobby
  BY <1>1, MemberSet
<1> HIDE DEF v
<1>5. \A n \in Members : Passive(w.member[n], v.member[n])
  BY <1>3, <1>4 DEF Passive
<1>6. \A c \in Clients : Aside(w, v, c)
  <2>1. ASSUME NEW c \in Clients, v.member[c].phase \in {"joining", "lobby"}
        PROVE  w.member[c].phase \in {"joining", "lobby"}
    BY <1>3, <1>4, <2>1, TheMembers
  <2> QED BY <1>4, <2>1, PeersStay
<1> QED BY <1>2, <1>4, <1>5, <1>6, ChansStay, MuteBy DEF f

\* A member changes what it knows of another one.
LEMMA PeerMute ==
  ASSUME NEW w, IInv(w), NEW a \in Members, NEW n \in Members, NEW d,
         a \in Clients /\ n = a => d = None,
         a \in Clients /\ n = Host /\ w.member[a].phase \in {"joining", "lobby"}
           => d # None /\ d.id = 1
  PROVE  LET v == [w EXCEPT !.peer[a][n] = d]
         IN  /\ Mute(w, v) /\ v.peer = [w.peer EXCEPT ![a][n] = d]
             /\ v.member = w.member /\ v.pending = w.pending /\ v.chan = w.chan /\ v.lobby = w.lobby
<1> DEFINE f == [w.peer EXCEPT ![a][n] = d]
           v == [w EXCEPT !.peer = f]
<1>1. IsWorld(w) /\ PeersTyped(w.peer)
  BY DEF IInv, TypeOK
<1>2. [w EXCEPT !.peer[a][n] = d] = v
  BY <1>1 DEF IsWorld
<1>3. f[a][n] = d /\ \A x, y \in Members : x # a \/ y # n => f[x][y] = w.peer[x][y]
  BY <1>1 DEF PeersTyped
<1> HIDE DEF f
<1>4. /\ v.peer = f /\ v.member = w.member /\ v.pending = w.pending /\ v.chan = w.chan
      /\ v.lobby = w.lobby
  BY <1>1, PeerSet
<1> HIDE DEF v
<1>5. \A m \in Members : Passive(w.member[m], v.member[m])
  BY <1>4 DEF Passive
<1>6. \A c \in Clients : Aside(w, v, c)
  BY <1>3, <1>4, TheMembers DEF Aside, IsAttached
<1> QED BY <1>2, <1>4, <1>5, <1>6, ChansStay, MuteBy DEF f

\* A member changes whom it expects.
LEMMA PendingMute ==
  ASSUME NEW w, IInv(w), NEW a \in Members, NEW q,
         a \in Clients => \A e \in q : e \in w.pending[a] \/ e.who # a
  PROVE  LET v == [w EXCEPT !.pending[a] = q]
         IN  /\ Mute(w, v) /\ v.pending = [w.pending EXCEPT ![a] = q]
             /\ v.member = w.member /\ v.peer = w.peer /\ v.chan = w.chan /\ v.lobby = w.lobby
<1> DEFINE f == [w.pending EXCEPT ![a] = q]
           v == [w EXCEPT !.pending = f]
<1>1. IsWorld(w) /\ PendingTyped(w.pending)
  BY DEF IInv, TypeOK
<1>2. [w EXCEPT !.pending[a] = q] = v
  BY <1>1 DEF IsWorld
<1>3. f[a] = q /\ \A x \in Members : x # a => f[x] = w.pending[x]
  BY <1>1 DEF PendingTyped
<1> HIDE DEF f
<1>4. /\ v.pending = f /\ v.member = w.member /\ v.peer = w.peer /\ v.chan = w.chan
      /\ v.lobby = w.lobby
  BY <1>1, PendingSet
<1> HIDE DEF v
<1>5. \A m \in Members : Passive(w.member[m], v.member[m])
  BY <1>4 DEF Passive
<1>6. \A c \in Clients : Aside(w, v, c)
  BY <1>3, <1>4, TheMembers DEF Aside, IsAttached
<1> QED BY <1>2, <1>4, <1>5, <1>6, ChansStay, MuteBy DEF f

\* The host changes what it keeps of the lobby, and nobody else is ready for it.
LEMMA LobbyMute ==
  ASSUME NEW w, NEW v, v.member = w.member, v.peer = w.peer, v.pending = w.pending,
         v.chan = w.chan, v.lobby.ready \subseteq w.lobby.ready \cup {1}
  PROVE  Mute(w, v)
<1>1. \A m \in Members : Passive(w.member[m], v.member[m])
  BY DEF Passive
<1>2. \A c \in Clients : Aside(w, v, c)
  BY PeersStay
<1> QED BY <1>1, <1>2, ChansStay, MuteBy

\* Nothing but channels changes.
LEMMA ChansMute ==
  ASSUME NEW w, NEW v,
         v.member = w.member, v.peer = w.peer, v.pending = w.pending, v.lobby = w.lobby,
         \A x, y \in Members : Subdued(w, x, y, v.chan[x][y]),
         \A c \in Clients : IsEarly(w, c) => Leads(w.chan[Host][c], v.chan[Host][c], c)
  PROVE  Mute(w, v)
<1>1. \A m \in Members : Passive(w.member[m], v.member[m])
  BY DEF Passive
<1>2. \A c \in Clients : Aside(w, v, c) /\ (IsEarly(v, c) => IsEarly(w, c))
  BY PeersStay DEF IsEarly
<1> QED BY <1>1, <1>2, MuteBy

\* One channel changes.
LEMMA OneChanMute ==
  ASSUME NEW w, IInv(w), NEW a \in Members, NEW b \in Members, NEW s \in Seq(Understood(b)),
         Subdued(w, a, b, s),
         a = Host /\ b \in Clients /\ IsEarly(w, b) => Leads(w.chan[Host][b], s, b)
  PROVE  LET v == [w EXCEPT !.chan[a][b] = s]
         IN  /\ Mute(w, v) /\ v.chan = [w.chan EXCEPT ![a][b] = s]
             /\ v.member = w.member /\ v.peer = w.peer /\ v.pending = w.pending /\ v.lobby = w.lobby
<1> DEFINE f == w.chan
           g == [f EXCEPT ![a][b] = s]
           v == [w EXCEPT !.chan = g]
<1>1. IsWorld(w) /\ ChansTyped(w.chan)
  BY DEF IInv, TypeOK
<1>2. [w EXCEPT !.chan[a][b] = s] = v
  BY <1>1 DEF IsWorld, ChansTyped
<1>3. g[a][b] = s /\ \A x, y \in Members : x # a \/ y # b => g[x][y] = f[x][y]
  <2>1. ChansTyped(f)
    BY <1>1
  <2> HIDE DEF f
  <2>2. LET h == [f EXCEPT ![a][b] = s]
        IN  /\ ChansTyped(h) /\ h[a][b] = s
            /\ \A x, y \in Members : x # a \/ y # b => h[x][y] = f[x][y]
    BY <2>1, OneChan
  <2> QED BY <2>2
<1> HIDE DEF g
<1>4. /\ v.chan = g /\ v.member = w.member /\ v.peer = w.peer /\ v.pending = w.pending
      /\ v.lobby = w.lobby
  BY <1>1, ChanSet
<1> HIDE DEF v
<1>5. ASSUME NEW x \in Members, NEW y \in Members PROVE Subdued(w, x, y, v.chan[x][y])
  <2>1. CASE x = a /\ y = b
    BY <1>3, <1>4, <2>1
  <2>2. CASE x # a \/ y # b
    <3>1. v.chan[x][y] = w.chan[x][y]
      BY <1>3, <1>4, <2>2
    <3> QED BY <3>1 DEF Subdued, Thin, Way
  <2> QED BY <2>1, <2>2
<1>6. ASSUME NEW c \in Clients, IsEarly(w, c) PROVE Leads(w.chan[Host][c], v.chan[Host][c], c)
  <2>1. CASE Host = a /\ c = b
    BY <1>3, <1>4, <1>6, <2>1
  <2>2. CASE Host # a \/ c # b
    <3>1. v.chan[Host][c] = w.chan[Host][c]
      BY <1>3, <1>4, <2>2, TheMembers
    <3> QED BY <3>1 DEF Leads
  <2> QED BY <2>1, <2>2
<1>7. Mute(w, v)
  BY <1>4, <1>5, <1>6, ChansMute
<1> QED BY <1>2, <1>4, <1>7 DEF g

\* A message more: it is the only one of its kind, or there may be a second.
LEMMA AppendedOnce ==
  ASSUME NEW S, NEW s \in Seq(S), NEW e \in S
  PROVE  /\ \A k : e.msg # k /\ AtMostOne(s, k) => AtMostOne(Append(s, e), k)
         /\ \A k : (\A m \in ToSet(s) : m.msg # k) => AtMostOne(Append(s, e), k)
<1> DEFINE t == Append(s, e)
<1>1. /\ DOMAIN s = 1..Len(s) /\ DOMAIN t = 1..(Len(s) + 1) /\ Len(s) \in Nat
      /\ \A i \in 1..Len(s) : t[i] = s[i]
      /\ t[Len(s) + 1] = e
  OBVIOUS
<1> HIDE DEF t
<1>2. ASSUME NEW k, e.msg # k, AtMostOne(s, k) PROVE AtMostOne(t, k)
  <2> SUFFICES ASSUME NEW i \in DOMAIN t, NEW j \in DOMAIN t, t[i].msg = k, t[j].msg = k
               PROVE  i = j
    BY DEF AtMostOne
  <2>1. i \in 1..Len(s) /\ j \in 1..Len(s)
    BY <1>1, <1>2
  <2> QED BY <1>1, <1>2, <2>1 DEF AtMostOne
<1>3. ASSUME NEW k, \A m \in ToSet(s) : m.msg # k PROVE AtMostOne(t, k)
  <2> SUFFICES ASSUME NEW i \in DOMAIN t, NEW j \in DOMAIN t, t[i].msg = k, t[j].msg = k
               PROVE  i = j
    BY DEF AtMostOne
  <2>1. \A l \in 1..Len(s) : t[l].msg # k
    BY <1>1, <1>3 DEF ToSet
  <2>2. i = Len(s) + 1 /\ j = Len(s) + 1
    BY <1>1, <2>1
  <2> QED BY <2>2
<1> QED BY <1>2, <1>3 DEF t

\* A message more: it may introduce c.
LEMMA AppendedThin ==
  ASSUME NEW S, NEW s \in Seq(S), NEW e \in S, NEW c
  PROVE  /\ e.msg \notin {"PLAYER_ID", "END_SETTING"} => Thin(s, Append(s, e))
         /\ (e.msg = "ACCEPT_NEW_PLAYER" /\ e.who = c => Numbered(e.id) \in ToSet(s))
              => Leads(s, Append(s, e), c)
<1> DEFINE t == Append(s, e)
<1>1. /\ DOMAIN s = 1..Len(s) /\ DOMAIN t = 1..(Len(s) + 1) /\ Len(s) \in Nat
      /\ \A i \in 1..Len(s) : t[i] = s[i]
      /\ t[Len(s) + 1] = e
  OBVIOUS
<1> HIDE DEF t
<1>3. ASSUME e.msg = "ACCEPT_NEW_PLAYER" /\ e.who = c => Numbered(e.id) \in ToSet(s)
      PROVE  Leads(s, t, c)
  <2> SUFFICES ASSUME NEW id, Introduced(s, c, id),
                      NEW j \in DOMAIN t, t[j].msg = "ACCEPT_NEW_PLAYER", t[j].who = c
               PROVE  t[j].id = id \/ \E i \in 1..(j - 1) : t[i] = Numbered(t[j].id)
    BY DEF Leads, Introduced
  <2>1. CASE j \in 1..Len(s)
    <3>1. t[j] = s[j]
      BY <1>1, <2>1
    <3>2. s[j].id = id \/ \E i \in 1..(j - 1) : s[i] = Numbered(s[j].id)
      BY <1>1, <2>1, <3>1 DEF Introduced
    <3>3. \A i \in 1..(j - 1) : t[i] = s[i]
      BY <1>1, <2>1
    <3> QED BY <3>1, <3>2, <3>3
  <2>2. CASE j = Len(s) + 1
    <3>1. t[j] = e
      BY <1>1, <2>2
    <3>2. PICK i \in 1..Len(s) : s[i] = Numbered(e.id)
      BY <1>1, <1>3, <3>1 DEF ToSet
    <3>3. i \in 1..(j - 1) /\ t[i] = s[i]
      BY <1>1, <2>2, <3>2
    <3> QED BY <3>1, <3>2, <3>3
  <2> QED BY <1>1, <2>1, <2>2
<1>2. e.msg \notin {"PLAYER_ID", "END_SETTING"} => Thin(s, t)
  BY AppendedOnce DEF t, Thin
<1> QED BY <1>2, <1>3 DEF t

\* The first message taken: only a number does not lead.
LEMMA TailThin ==
  ASSUME NEW S, NEW s \in Seq(S), s # <<>>, NEW c
  PROVE  /\ Thin(s, Tail(s))
         /\ Head(s).msg # "PLAYER_ID" => Leads(s, Tail(s), c)
         /\ \A k : AtMostOne(s, k) /\ Head(s).msg = k => \A m \in ToSet(Tail(s)) : m.msg # k
         /\ \A id, other : Introduced(s, c, id) /\ Head(s) = Numbered(other)
              /\ (\A m \in ToSet(s) : m.msg = "ACCEPT_NEW_PLAYER" => m.id # id \/ id = other)
              => Introduced(Tail(s), c, other)
<1> DEFINE t == Tail(s)
<1>1. /\ DOMAIN s = 1..Len(s) /\ DOMAIN t = 1..(Len(s) - 1) /\ Len(s) \in Nat /\ Len(s) > 0
      /\ \A i \in 1..(Len(s) - 1) : t[i] = s[i + 1]
      /\ Head(s) = s[1]
  OBVIOUS
<1> HIDE DEF t
<1>2. Thin(s, t)
  <2> SUFFICES ASSUME NEW k \in {"PLAYER_ID", "END_SETTING"}, AtMostOne(s, k),
                      NEW i \in DOMAIN t, NEW j \in DOMAIN t, t[i].msg = k, t[j].msg = k
               PROVE  i = j
    BY DEF Thin, AtMostOne
  <2>1. i + 1 \in DOMAIN s /\ j + 1 \in DOMAIN s /\ t[i] = s[i + 1] /\ t[j] = s[j + 1]
    BY <1>1
  <2>2. i + 1 = j + 1
    BY <2>1 DEF AtMostOne
  <2> QED BY <1>1, <2>2
<1>3. ASSUME NEW id, Introduced(s, c, id), NEW j \in DOMAIN t,
             t[j].msg = "ACCEPT_NEW_PLAYER", t[j].who = c
      PROVE  \/ t[j].id = id
             \/ Head(s) = Numbered(t[j].id)
             \/ \E i \in 1..(j - 1) : t[i] = Numbered(t[j].id)
  <2>1. j + 1 \in DOMAIN s /\ t[j] = s[j + 1]
    BY <1>1
  <2>2. CASE s[j + 1].id = id
    BY <2>1, <2>2
  <2>3. CASE \E i \in 1..((j + 1) - 1) : s[i] = Numbered(s[j + 1].id)
    <3>1. PICK i \in 1..((j + 1) - 1) : s[i] = Numbered(s[j + 1].id)
      BY <2>3
    <3>2. CASE i = 1
      BY <1>1, <2>1, <3>1, <3>2
    <3>3. CASE i # 1
      <4>1. i - 1 \in 1..(j - 1) /\ i - 1 \in 1..(Len(s) - 1) /\ (i - 1) + 1 = i
        BY <1>1, <3>1, <3>3
      <4>2. t[i - 1] = s[i]
        BY <1>1, <4>1
      <4> QED BY <2>1, <3>1, <4>1, <4>2
    <3> QED BY <3>2, <3>3
  <2> QED BY <1>3, <2>1, <2>2, <2>3 DEF Introduced
<1>4. ASSUME Head(s).msg # "PLAYER_ID" PROVE Leads(s, t, c)
  <2>1. \A id : Head(s) # Numbered(id)
    BY <1>4 DEF Numbered
  <2> QED BY <1>3, <2>1 DEF Leads, Introduced
<1>5. ASSUME NEW k, AtMostOne(s, k), Head(s).msg = k, NEW m \in ToSet(t) PROVE m.msg # k
  <2>1. PICK i \in DOMAIN t : m = t[i]
    BY DEF ToSet
  <2>2. i + 1 \in DOMAIN s /\ 1 \in DOMAIN s /\ i + 1 # 1 /\ m = s[i + 1]
    BY <1>1, <2>1
  <2> QED BY <1>1, <1>5, <2>2 DEF AtMostOne
<1>6. ASSUME NEW id, NEW other, Introduced(s, c, id), Head(s) = Numbered(other),
             \A m \in ToSet(s) : m.msg = "ACCEPT_NEW_PLAYER" => m.id # id \/ id = other
      PROVE  Introduced(t, c, other)
  <2> SUFFICES ASSUME NEW j \in DOMAIN t, t[j].msg = "ACCEPT_NEW_PLAYER", t[j].who = c
               PROVE  t[j].id = other \/ \E i \in 1..(j - 1) : t[i] = Numbered(t[j].id)
    BY DEF Introduced
  <2>1. t[j] \in ToSet(s)
    BY <1>1 DEF ToSet
  <2>2. Numbered(other) = Numbered(t[j].id) => other = t[j].id
    BY DEF Numbered
  <2> QED BY <1>3, <1>6, <2>1, <2>2
<1> QED BY <1>2, <1>4, <1>5, <1>6 DEF t

\* A channel cleared, or one that begins anew
LEMMA AnewThin ==
  ASSUME NEW S, NEW s \in Seq(S), NEW e, NEW c
  PROVE  /\ Thin(s, <<>>) /\ Leads(s, <<>>, c) /\ ToSet(<<>>) = {}
         /\ Thin(s, <<e>>) /\ ToSet(<<e>>) = {e}
         /\ e.msg # "ACCEPT_NEW_PLAYER" => Leads(s, <<e>>, c)
<1> DEFINE t == <<e>>
<1>1. DOMAIN t = {1} /\ t[1] = e
  OBVIOUS
<1> HIDE DEF t
<1>2. Thin(s, t) /\ ToSet(t) = {e} /\ (e.msg # "ACCEPT_NEW_PLAYER" => Leads(s, t, c))
  BY <1>1 DEF Thin, AtMostOne, ToSet, Leads, Introduced
<1> DEFINE z == <<>>
<1>3. DOMAIN z = {}
  OBVIOUS
<1> HIDE DEF z
<1>4. Thin(s, z) /\ Leads(s, z, c) /\ ToSet(z) = {}
  BY <1>3 DEF Thin, AtMostOne, ToSet, Leads, Introduced
<1> QED BY <1>2, <1>4 DEF t, z

\* More introductions, of others
LEMMA JoinedThin ==
  ASSUME NEW S, NEW s \in Seq(S), NEW t \in Seq(S), NEW c,
         \A m \in ToSet(t) : m.msg = "ACCEPT_NEW_PLAYER" /\ m.who # c
  PROVE  Thin(s, s \o t) /\ Leads(s, s \o t, c)
<1> DEFINE u == s \o t
<1>1. /\ DOMAIN s = 1..Len(s) /\ DOMAIN u = 1..(Len(s) + Len(t)) /\ Len(s) \in Nat /\ Len(t) \in Nat
      /\ \A i \in 1..Len(s) : u[i] = s[i]
      /\ \A i \in DOMAIN u : i \notin 1..Len(s) => i - Len(s) \in DOMAIN t /\ u[i] = t[i - Len(s)]
  OBVIOUS
<1> HIDE DEF u
<1>2. ASSUME NEW i \in DOMAIN u, i \notin DOMAIN s
      PROVE  u[i].msg = "ACCEPT_NEW_PLAYER" /\ u[i].who # c
  <2>1. i - Len(s) \in DOMAIN t /\ u[i] = t[i - Len(s)]
    BY <1>1, <1>2
  <2>2. u[i] \in ToSet(t)
    BY <2>1 DEF ToSet
  <2> QED BY <2>2
<1>3. Thin(s, u)
  <2> SUFFICES ASSUME NEW k \in {"PLAYER_ID", "END_SETTING"}, AtMostOne(s, k),
                      NEW i \in DOMAIN u, NEW j \in DOMAIN u, u[i].msg = k, u[j].msg = k
               PROVE  i = j
    BY DEF Thin, AtMostOne
  <2>1. i \in 1..Len(s) /\ j \in 1..Len(s)
    BY <1>1, <1>2
  <2> QED BY <1>1, <2>1 DEF AtMostOne
<1>4. Leads(s, u, c)
  <2> SUFFICES ASSUME NEW id, Introduced(s, c, id),
                      NEW j \in DOMAIN u, u[j].msg = "ACCEPT_NEW_PLAYER", u[j].who = c
               PROVE  u[j].id = id \/ \E i \in 1..(j - 1) : u[i] = Numbered(u[j].id)
    BY DEF Leads, Introduced
  <2>1. j \in 1..Len(s) /\ u[j] = s[j]
    BY <1>1, <1>2
  <2>2. s[j].id = id \/ \E i \in 1..(j - 1) : s[i] = Numbered(s[j].id)
    BY <1>1, <2>1 DEF Introduced
  <2>3. \A i \in 1..(j - 1) : u[i] = s[i]
    BY <1>1, <2>1
  <2> QED BY <2>1, <2>2, <2>3
<1> QED BY <1>3, <1>4 DEF u

\* A message put in a channel
LEMMA PutIsMute ==
  ASSUME NEW w, IInv(w), NEW a \in Members, NEW b \in Members, a # b,
         NEW msg \in Understood(b), Mild(w, a, b, msg),
         a = Host /\ msg.msg = "ACCEPT_NEW_PLAYER" /\ msg.who = b => Numbered(msg.id) \in Way(w, a, b)
  PROVE  Mute(w, Put(w, a, b, msg))
<1> DEFINE s == Append(w.chan[a][b], msg)
<1>1. CASE IsOut(w, b)
  BY <1>1, NothingIsMute DEF Put
<1>2. CASE ~IsOut(w, b)
  <2>1. w.chan[a][b] \in Seq(Understood(b))
    BY Parts
  <2>2. s \in Seq(Understood(b)) /\ ToSet(s) = Way(w, a, b) \cup {msg}
    BY <2>1, Appended DEF Way
  <2>3. /\ Thin(w.chan[a][b], s)
        /\ a = Host => Leads(w.chan[a][b], s, b)
    BY <2>1, AppendedThin DEF Mild, Way
  <2>4. Subdued(w, a, b, s)
    BY <2>2, <2>3 DEF Subdued
  <2>5. Put(w, a, b, msg) = [w EXCEPT !.chan[a][b] = s]
    BY <1>2 DEF Put
  <2> HIDE DEF s
  <2>6. Mute(w, [w EXCEPT !.chan[a][b] = s])
    BY <2>2, <2>3, <2>4, OneChanMute
  <2> QED BY <2>5, <2>6
<1> QED BY <1>1, <1>2

\* The introductions a newcomer gets
LEMMA PutAllIsMute ==
  ASSUME NEW w, IInv(w), NEW c \in Clients, NEW msgs \in Seq(Understood(c)),
         \A m \in ToSet(msgs) : m.msg = "ACCEPT_NEW_PLAYER" /\ m.who # c
  PROVE  Mute(w, PutAll(w, Host, c, msgs))
<1> USE TheMembers
<1> DEFINE s == w.chan[Host][c] \o msgs
<1>1. CASE IsOut(w, c)
  BY <1>1, NothingIsMute DEF PutAll
<1>2. CASE ~IsOut(w, c)
  <2>1. w.chan[Host][c] \in Seq(Understood(c))
    BY Parts
  <2>2. s \in Seq(Understood(c)) /\ ToSet(s) \subseteq Way(w, Host, c) \cup ToSet(msgs)
    BY <2>1, Joined DEF Way
  <2>3. Thin(w.chan[Host][c], s) /\ Leads(w.chan[Host][c], s, c)
    BY <2>1, JoinedThin
  <2>4. \A m \in ToSet(msgs) : Mild(w, Host, c, m)
    BY DEF Mild
  <2>5. Subdued(w, Host, c, s)
    BY <2>2, <2>3, <2>4 DEF Subdued
  <2>6. PutAll(w, Host, c, msgs) = [w EXCEPT !.chan[Host][c] = s]
    BY <1>2 DEF PutAll
  <2> HIDE DEF s
  <2>7. Mute(w, [w EXCEPT !.chan[Host][c] = s])
    BY <2>2, <2>3, <2>5, OneChanMute
  <2> QED BY <2>6, <2>7
<1> QED BY <1>1, <1>2

\* A message to all a member is connected with
LEMMA BroadcastIsMute ==
  ASSUME NEW w, IInv(w), NEW a \in Members, w.peer[a][a] = None, NEW msg,
         \A b \in Members \ {a} : /\ msg \in Understood(b) /\ Mild(w, a, b, msg)
                                  /\ a = Host /\ msg.msg = "ACCEPT_NEW_PLAYER" /\ msg.who = b
                                       => Numbered(msg.id) \in Way(w, a, b) \/ IsOut(w, b)
  PROVE  Mute(w, Broadcast(w, a, msg))
<1> USE TheMembers
<1> DEFINE v == Broadcast(w, a, msg)
           reached == {b \in player_pool(w, a) : ~IsOut(w, b)}
<1>1. a \notin player_pool(w, a) /\ player_pool(w, a) \subseteq Members
  BY DEF player_pool, IsConnected
<1>2. IsWorld(w) /\ ChansTyped(w.chan)
  BY DEF IInv, TypeOK
<1>3. /\ v.member = w.member /\ v.peer = w.peer /\ v.pending = w.pending /\ v.lobby = w.lobby
      /\ \A x, y \in Members :
           v.chan[x][y] = IF x = a /\ y \in reached THEN Append(w.chan[x][y], msg)
                          ELSE w.chan[x][y]
  BY <1>1, <1>2, BroadcastIs
<1> HIDE DEF v
<1>4. ASSUME NEW x \in Members, NEW y \in Members
      PROVE  /\ Subdued(w, x, y, v.chan[x][y])
             /\ x = Host => Leads(w.chan[x][y], v.chan[x][y], y)
  <2>1. CASE x = a /\ y \in reached
    <3>1. y # a /\ ~IsOut(w, y) /\ v.chan[x][y] = Append(w.chan[x][y], msg)
      BY <1>1, <1>3, <2>1
    <3>2. w.chan[x][y] \in Seq(Understood(y)) /\ msg \in Understood(y) /\ Mild(w, x, y, msg)
      BY <2>1, <3>1, Parts
    <3>3. ToSet(v.chan[x][y]) = Way(w, x, y) \cup {msg}
      BY <3>1, <3>2, Appended DEF Way
    <3>4. msg.msg \notin {"PLAYER_ID", "END_SETTING"}
          /\ (x = Host => (msg.msg = "ACCEPT_NEW_PLAYER" /\ msg.who = y => Numbered(msg.id) \in Way(w, x, y)))
      BY <2>1, <3>1, <3>2 DEF Mild
    <3>5. /\ Thin(w.chan[x][y], v.chan[x][y])
          /\ x = Host => Leads(w.chan[x][y], v.chan[x][y], y)
      BY <3>1, <3>2, <3>4, AppendedThin DEF Way
    <3> QED BY <2>1, <3>1, <3>2, <3>3, <3>5 DEF Subdued
  <2>2. CASE ~(x = a /\ y \in reached)
    <3>1. v.chan[x][y] = w.chan[x][y]
      BY <1>3, <2>2
    <3> QED BY <3>1 DEF Subdued, Thin, Way, Leads
  <2> QED BY <2>1, <2>2
<1> QED BY <1>3, <1>4, ChansMute DEF v

\* A message taken, unless it tells a player in the lobby its id
LEMMA TakingIsMute ==
  ASSUME NEW w, IInv(w), NEW a \in Members, NEW b \in Members, w.chan[b][a] # <<>>,
         b = Host /\ IsEarly(w, a) => Head(w.chan[b][a]).msg # "PLAYER_ID"
  PROVE  Mute(w, [w EXCEPT !.chan[b][a] = Tail(@)])
<1> DEFINE s == Tail(w.chan[b][a])
<1>1. w.chan[b][a] \in Seq(Understood(a))
  BY Parts
<1>2. s \in Seq(Understood(a)) /\ ToSet(s) \subseteq Way(w, b, a)
  BY <1>1, TakenFirst DEF Way
<1>3. /\ Thin(w.chan[b][a], s)
      /\ Head(w.chan[b][a]).msg # "PLAYER_ID" => Leads(w.chan[b][a], s, a)
  BY <1>1, TailThin
<1>4. Subdued(w, b, a, s)
  BY <1>2, <1>3 DEF Subdued
<1> HIDE DEF s
<1>5. Mute(w, [w EXCEPT !.chan[b][a] = s])
  BY <1>2, <1>3, <1>4, OneChanMute
<1> QED BY <1>5 DEF s

\* A channel cleared
LEMMA ClearingIsMute ==
  ASSUME NEW w, IInv(w), NEW a \in Members, NEW b \in Members
  PROVE  Mute(w, [w EXCEPT !.chan[a][b] = <<>>])
<1> DEFINE s == <<>>
<1>1. w.chan[a][b] \in Seq(Understood(b))
  BY Parts
<1>2. Thin(w.chan[a][b], s) /\ Leads(w.chan[a][b], s, b) /\ ToSet(s) = {}
  BY <1>1, AnewThin
<1>3. s \in Seq(Understood(b))
  OBVIOUS
<1>4. Subdued(w, a, b, s)
  <2>1. w.chan[a][b] = <<>> => s = <<>>
    OBVIOUS
  <2> HIDE DEF s
  <2> QED BY <1>2, <2>1 DEF Subdued
<1> HIDE DEF s
<1>5. Mute(w, [w EXCEPT !.chan[a][b] = s])
  BY <1>2, <1>3, <1>4, OneChanMute
<1> QED BY <1>5 DEF s

\* A connection that begins anew, or ends
LEMMA AnewIsMute ==
  ASSUME NEW w, IInv(w), NEW a \in Members, NEW b \in Members, a # b,
         NEW e \in Events, e.msg # "END_SETTING"
  PROVE  Mute(w, [w EXCEPT !.chan[a][b] = <<e>>])
<1> DEFINE s == <<e>>
<1>1. w.chan[a][b] \in Seq(Understood(b))
  BY Parts
<1>2. e \in Understood(b) /\ e.msg \in {"CONNECT", "DISCONNECT"}
  BY DEF Understood, ToHost, ToClient, Events
<1>3. s \in Seq(Understood(b))
  BY <1>2
<1>4. Thin(w.chan[a][b], s) /\ ToSet(s) = {e} /\ Leads(w.chan[a][b], s, b)
  BY <1>1, <1>2, AnewThin
<1>5. Mild(w, a, b, e)
  BY <1>2 DEF Mild
<1> HIDE DEF s
<1>6. Subdued(w, a, b, s)
  BY <1>4, <1>5 DEF Subdued
<1>7. Mute(w, [w EXCEPT !.chan[a][b] = s])
  BY <1>3, <1>4, <1>6, OneChanMute
<1> QED BY <1>7 DEF s

---------------------------------------------------------------------------
(* Nobody is ahead: what clients do with their connections.                *)

\* A client contacts another member.
LEMMA ContactIsMute ==
  ASSUME NEW w, IInv(w), NEW c \in Clients, w.member[c].phase # "out", NEW n \in Members, n # c,
         NEW id \in Nat, n = Host => id = 1
  PROVE  Mute(w, Contact(w, c, n, id))
<1> DEFINE p == Player(id, TRUE, "connecting")
           e == [msg |-> IF IsOut(w, n) THEN "DISCONNECT" ELSE "CONNECT"]
           s == <<e>>
           u == [w EXCEPT !.peer[c][n] = p]
           v == [u EXCEPT !.chan[n][c] = s]
<1>1. c \in Members /\ c # Host
  BY TheMembers
<1>2. p \in Players \cup {None} /\ p.id = id /\ p \in Players /\ None \notin Players
  BY SetupAssumption DEF Player, Players
<1>3. Contact(w, c, n, id) = v
  BY DEF Contact
<1>4. e \in Events /\ e.msg # "END_SETTING"
  BY DEF Events
<1> HIDE DEF p, e
<1>5. IInv(u) /\ u.chan = w.chan
  BY <1>2, PeerOnly
<1>6. Mute(w, u)
  BY <1>1, <1>2, PeerMute
<1> HIDE DEF u
<1>7. Mute(u, v)
  BY <1>1, <1>4, <1>5, AnewIsMute
<1> QED BY <1>3, <1>6, <1>7, MuteTwice

\* A client in the lobby is told of another player.
LEMMA AddPlayerIsMute ==
  ASSUME NEW w, IInv(w), SelvesOK(w), NEW c \in Clients, w.member[c].phase = "lobby",
         NEW id \in Ids, NEW who \in Members, who = Host => id = 1, who # c, NEW contact
  PROVE  Mute(w, add_player(w, c, id, who, contact))
<1> DEFINE found == IF PeersWith(w, c, id) # {} THEN PeersWith(w, c, id)
                    ELSE {n \in {who} : w.peer[c][n] # None}
           n == CHOOSE n \in found : TRUE
           v == add_player(w, c, id, who, contact)
<1>1. /\ c \in Members /\ c # Host /\ id \in Nat /\ IsWorld(w) /\ id # 0
      /\ w.pending[c] \in SUBSET Expected
  BY TheMembers, Parts DEF Ids
<1>2. w.peer[c][c] = None /\ w.peer[c][Host] # None /\ w.peer[c][Host].id = 1
  BY DEF SelvesOK, IsAttached
<1>3. CASE found # {}
  <2>1. n \in found
    BY <1>3
  <2>2. n \in Members /\ w.peer[c][n] # None /\ (n = Host => id = 1)
    <3>1. CASE PeersWith(w, c, id) # {}
      <4>1. n \in PeersWith(w, c, id)
        BY <2>1, <3>1
      <4> HIDE DEF n
      <4> QED BY <1>2, <4>1 DEF PeersWith
    <3>2. CASE PeersWith(w, c, id) = {}
      <4>1. n \in {m \in {who} : w.peer[c][m] # None}
        BY <2>1, <3>2
      <4> HIDE DEF n
      <4> QED BY <4>1
    <3> QED BY <3>1, <3>2
  <2> DEFINE p == [w.peer[c][n] EXCEPT !.id = id, !.authorized = TRUE]
  <2>3. v = [w EXCEPT !.peer[c][n].id = id, !.peer[c][n].authorized = TRUE]
    BY <1>3 DEF add_player
  <2> HIDE DEF n, v
  <2>4. w.peer[c][n] \in Players
    BY <1>1, <2>2, Parts
  <2>5. p \in Players /\ p.id = id /\ p # None
    BY <1>1, <2>4, SetupAssumption DEF Players
  <2>6. [w EXCEPT !.peer[c][n].id = id, !.peer[c][n].authorized = TRUE] = [w EXCEPT !.peer[c][n] = p]
    BY <1>1, <2>2, Parts DEF IsWorld, IInv, TypeOK, PeersTyped
  <2> HIDE DEF p
  <2>7. n # c
    BY <1>2, <2>2
  <2>8. Mute(w, [w EXCEPT !.peer[c][n] = p])
    BY <1>1, <2>2, <2>5, <2>7, PeerMute
  <2> QED BY <2>3, <2>6, <2>8 DEF v
<1>4. CASE found = {} /\ contact
  <2>1. v = Contact(w, c, who, id)
    BY <1>4 DEF add_player
  <2> QED BY <1>1, <2>1, ContactIsMute
<1>5. CASE found = {} /\ ~contact /\ Cardinality(w.pending[c]) >= MAX_NATION
  BY <1>5, NothingIsMute DEF add_player
<1>6. CASE found = {} /\ ~contact /\ ~(Cardinality(w.pending[c]) >= MAX_NATION)
  <2> DEFINE q == w.pending[c] \cup {[id |-> id, who |-> who]}
  <2>1. v = [w EXCEPT !.pending[c] = q]
    BY <1>1, <1>6 DEF add_player, IsWorld, IInv, TypeOK, PendingTyped
  <2>2. \A e \in q : e \in w.pending[c] \/ e.who # c
    OBVIOUS
  <2> HIDE DEF q
  <2> QED BY <1>1, <2>1, <2>2, PendingMute
<1> QED BY <1>3, <1>4, <1>5, <1>6

\* A client ends the connection with another one.
LEMMA DisconnectIsMute ==
  ASSUME NEW w, IInv(w), NEW c \in Clients, w.member[c].phase # "out", NEW n \in Clients, n # c
  PROVE  Mute(w, Disconnect(w, c, n))
<1> DEFINE told == IF IsConnected(w, c, n) THEN Put(w, c, n, [msg |-> "DISCONNECT"]) ELSE w
           u == [told EXCEPT !.peer[c][n] = None]
           v == [u EXCEPT !.chan[n][c] = <<>>]
<1>1. c \in Members /\ c # Host /\ n \in Members /\ n # Host
  BY TheMembers
<1>2. IInv(told) /\ told.member = w.member /\ Mute(w, told)
  <2> DEFINE e == [msg |-> "DISCONNECT"]
  <2>1. e \in Understood(n) /\ Harmless(w, n, e) /\ Mild(w, c, n, e)
    BY <1>1 DEF Understood, ToClient, Events, Harmless, Mild
  <2> HIDE DEF e
  <2>2. IInv(Put(w, c, n, e)) /\ Put(w, c, n, e).member = w.member /\ Mute(w, Put(w, c, n, e))
    BY <1>1, <2>1, PutIsCalm, PutKeeps, PutIsMute
  <2> QED BY <2>2, NothingIsMute DEF e
<1>3. Disconnect(w, c, n) = v
  BY DEF Disconnect
<1> HIDE DEF told
<1>4. IInv(u)
  BY <1>1, <1>2, PeerOnly
<1>5. Mute(told, u)
  BY <1>1, <1>2, PeerMute
<1> HIDE DEF u
<1>6. Mute(u, v)
  BY <1>1, <1>4, ClearingIsMute
<1> HIDE DEF v
<1>7. Mute(w, u)
  BY <1>2, <1>5, MuteTwice
<1> QED BY <1>3, <1>6, <1>7, MuteTwice

\* A client in the lobby hears that a player has left.
LEMMA DeletePlayerIsMute ==
  ASSUME NEW w, IInv(w), SelvesOK(w), NEW c \in Clients, w.member[c].phase = "lobby",
         NEW id \in Ids \ {1}
  PROVE  Mute(w, delete_player(w, c, id))
<1>1. CASE PeersWith(w, c, id) # {}
  <2> DEFINE n == CHOOSE n \in PeersWith(w, c, id) : TRUE
  <2>1. n \in PeersWith(w, c, id)
    BY <1>1
  <2>2. n \in Members /\ w.peer[c][n] # None /\ w.peer[c][n].id = id
    BY <2>1 DEF PeersWith
  <2>3. delete_player(w, c, id) = Disconnect(w, c, n)
    BY <1>1 DEF delete_player
  <2> HIDE DEF n
  <2>4. n # c /\ n # Host
    BY <2>2 DEF SelvesOK, IsAttached
  <2> QED BY <2>2, <2>3, <2>4, DisconnectIsMute, TheMembers
<1>2. CASE PeersWith(w, c, id) = {}
  <2> DEFINE q == {p \in w.pending[c] : p.id # id}
  <2>1. c \in Members /\ IsWorld(w) /\ w.pending[c] \in SUBSET Expected
    BY TheMembers, Parts
  <2>2. delete_player(w, c, id) = [w EXCEPT !.pending[c] = q]
    BY <1>2, <2>1 DEF delete_player, IsWorld, IInv, TypeOK, PendingTyped
  <2>3. \A e \in q : e \in w.pending[c] \/ e.who # c
    OBVIOUS
  <2> HIDE DEF q
  <2> QED BY <2>1, <2>2, <2>3, PendingMute
<1> QED BY <1>1, <1>2

\* A client finds itself connected.
LEMMA ConnectedIsMute ==
  ASSUME NEW w, IInv(w), SelvesOK(w), NEW c \in Clients, ~IsOut(w, c), NEW b \in Members, b # c
  PROVE  LET v == Connected(w, c, b)
         IN  Mute(w, v) /\ v.member = w.member
<1> DEFINE awaited == {p \in w.pending[c] : p.who = b}
           v == Connected(w, c, b)
<1>1. /\ c \in Members /\ c # Host /\ w.member[c].phase # "out"
      /\ IsWorld(w) /\ w.pending[c] \in SUBSET Expected
      /\ \A m \in Members : w.peer[c][m] \in Players \cup {None}
      /\ None \notin Players
  BY TheMembers, Parts, SetupAssumption DEF IsOut
<1>2. ASSUME NEW u, IInv(u), NEW k \in {"CONNECT", "DISCONNECT"}
      PROVE  Mute(u, Put(u, c, b, [msg |-> k])) /\ Put(u, c, b, [msg |-> k]).member = u.member
  <2> DEFINE e == [msg |-> k]
  <2>1. e \in Understood(b) /\ Mild(u, c, b, e)
    BY DEF Understood, ToClient, ToHost, Events, Mild
  <2> HIDE DEF e
  <2>2. Mute(u, Put(u, c, b, e)) /\ Put(u, c, b, e).member = u.member
    BY <1>1, <1>2, <2>1, PutIsMute, PutKeeps
  <2> QED BY <2>2 DEF e
<1>3. CASE w.peer[c][b] # None
  <2> DEFINE p == [w.peer[c][b] EXCEPT !.state = "connected"]
             u == [w EXCEPT !.peer[c][b] = p]
  <2>1. w.peer[c][b] \in Players
    BY <1>1, <1>3
  <2>2. p \in Players /\ p.id = w.peer[c][b].id /\ p # None
    BY <1>1, <2>1 DEF Players
  <2>3. [w EXCEPT !.peer[c][b].state = "connected"] = u
    BY <1>1 DEF IsWorld, IInv, TypeOK, PeersTyped
  <2> HIDE DEF p
  <2>4. Mute(w, u) /\ u.member = w.member
    BY <1>1, <2>2, PeerMute DEF SelvesOK, IsAttached
  <2>5. IInv(u)
    <3>1. b = Host => p.id <= 1
      BY <1>3, <2>2 DEF IInv, HostIsOne
    <3> QED BY <1>1, <2>2, <3>1, PeerOnly
  <2>6. v = Put(u, c, b, [msg |-> "CONNECT"])
    BY <1>3, <2>3 DEF Connected
  <2> HIDE DEF u
  <2> QED BY <1>2, <2>4, <2>5, <2>6, MuteTwice
<1>4. CASE w.peer[c][b] = None /\ awaited # {}
  <2> DEFINE p == CHOOSE p \in awaited : TRUE
             d == Player(p.id, TRUE, "connected")
             q == w.pending[c] \ {p}
  <2>1. p \in w.pending[c] /\ p.who = b
    BY <1>4
  <2>2. v = [w EXCEPT !.pending[c] = w.pending[c] \ {p}, !.peer[c][b] = d]
    BY <1>1, <1>4 DEF Connected, IsWorld, IInv, TypeOK, PendingTyped
  <2> HIDE DEF p
  <2>3. \A e \in q : e \in w.pending[c] \/ e.who # c
    OBVIOUS
  <2>4. q \in SUBSET Expected /\ \A e \in q : e.who = Host => e.id <= 1
    BY <1>1 DEF IInv, HostIsOne
  <2> HIDE DEF d, q
  <2> DEFINE u == [w EXCEPT !.pending[c] = q]
  <2>5. IInv(u)
    BY <1>1, <2>4, PendingOnly
  <2>6. v = [u EXCEPT !.peer[c][b] = d]
    BY <2>2 DEF q
  <2>7. Mute(w, u) /\ u.member = w.member /\ u.peer = w.peer
    BY <1>1, <2>3, PendingMute
  <2> HIDE DEF u
  <2>8. Mute(u, [u EXCEPT !.peer[c][b] = d]) /\ [u EXCEPT !.peer[c][b] = d].member = u.member
    <3>1. ~(b = Host /\ u.member[c].phase \in {"joining", "lobby"})
      BY <1>4, <2>7 DEF SelvesOK, IsAttached
    <3> QED BY <1>1, <2>5, <3>1, PeerMute
  <2> QED BY <2>6, <2>7, <2>8, MuteTwice
<1>5. CASE w.peer[c][b] = None /\ awaited = {} /\ IsPregame(w, c)
  <2> DEFINE d == Player(0, FALSE, "connected")
  <2>1. v = [w EXCEPT !.peer[c][b] = d]
    BY <1>1, <1>5 DEF Connected
  <2> HIDE DEF d
  <2>2. ~(b = Host /\ w.member[c].phase \in {"joining", "lobby"})
    BY <1>5 DEF SelvesOK, IsAttached
  <2>3. LET u == [w EXCEPT !.peer[c][b] = d] IN Mute(w, u) /\ u.member = w.member
    BY <1>1, <2>2, PeerMute
  <2> QED BY <2>1, <2>3
<1>6. CASE w.peer[c][b] = None /\ awaited = {} /\ ~IsPregame(w, c)
  <2>1. v = Put(w, c, b, [msg |-> "DISCONNECT"])
    BY <1>1, <1>6 DEF Connected
  <2> QED BY <1>2, <2>1
<1> QED BY <1>3, <1>4, <1>5, <1>6

---------------------------------------------------------------------------
(* Nobody is ahead: who leaves, and who is left alone.                     *)

\* A channel as it was, cleared, or with nothing new but its end
Ends == [msg |-> "DISCONNECT"]
Trimmed(s, t) == t = s \/ t = <<>> \/ t = <<Ends>> \/ t = Append(s, Ends)

\* A connection's end is a message everybody understands.
LEMMA EndIsKnown == \A b : Ends \in Understood(b) /\ Ends \in Events /\ Ends.msg = "DISCONNECT"
BY DEF Understood, ToHost, ToClient, Events, Ends

\* Such a channel says nothing new.
LEMMA TrimmedIsSubdued ==
  ASSUME NEW w, IInv(w), NEW x \in Members, NEW y \in Members, NEW t,
         Trimmed(w.chan[x][y], t), x = y => t = w.chan[x][y] \/ t = <<>>
  PROVE  Subdued(w, x, y, t) /\ Leads(w.chan[x][y], t, y)
<1> DEFINE s == w.chan[x][y]
<1>1. s \in Seq(Understood(y))
  BY Parts
<1> DEFINE s1 == <<Ends>>
           s2 == Append(s, Ends)
           z == <<>>
<1>2. /\ Thin(s, s1) /\ ToSet(s1) = {Ends} /\ Leads(s, s1, y)
      /\ Thin(s, z) /\ ToSet(z) = {} /\ Leads(s, z, y)
  BY <1>1, AnewThin, EndIsKnown
<1>3. /\ Thin(s, s2) /\ ToSet(s2) = ToSet(s) \cup {Ends} /\ Leads(s, s2, y)
  BY <1>1, Appended, AppendedThin, EndIsKnown
<1>4. /\ Thin(s, s) /\ Leads(s, s, y)
  BY DEF Thin, Leads
<1>5. Mild(w, x, y, Ends)
  BY EndIsKnown DEF Mild
<1>6. t = s \/ t = z \/ t = s1 \/ t = s2
  BY DEF Trimmed
<1>7. x = y => t = s \/ t = z
  OBVIOUS
<1>8. z = <<>>
  OBVIOUS
<1> HIDE DEF s, s1, s2, z
<1>9. /\ \A m \in ToSet(t) : m \in ToSet(s) \/ m = Ends
      /\ Thin(s, t) /\ Leads(s, t, y)
  BY <1>2, <1>3, <1>4, <1>6
<1>10. x \in Clients /\ x = y /\ s = <<>> => t = <<>>
  BY <1>7, <1>8
<1> QED BY <1>5, <1>9, <1>10 DEF Subdued, Way, s

\* What leaving makes of the channels
LEMMA GoneChans ==
  ASSUME NEW w, IInv(w), NEW a \in Members
  PROVE  LET v == Gone(w, a)
         IN  /\ IsGone(v.member[a])
             /\ \A x, y \in Members :
                  /\ Trimmed(w.chan[x][y], v.chan[x][y])
                  /\ x = y => v.chan[x][y] = w.chan[x][y] \/ v.chan[x][y] = <<>>
<1> DEFINE Ending(b) == CASE w.peer[b][a] = None -> <<>>
                          [] w.peer[b][a] # None /\ w.peer[b][a].state = "connecting" -> <<Ends>>
                          [] OTHER -> Append(w.chan[a][b], Ends)
           r == [phase |-> "out", my_id |-> 0, colour |-> None, ready |-> FALSE,
                 reg |-> <<>>, ended |-> 0, nations |-> <<>>]
           row == [b \in Members |-> None]
           f == [x \in Members |-> [y \in Members |->
                   IF y = a THEN <<>> ELSE IF x = a THEN Ending(y) ELSE w.chan[x][y]]]
           v == Gone(w, a)
           fm == [w.member EXCEPT ![a] = r]
           fp == [w.peer EXCEPT ![a] = row]
           fq == [w.pending EXCEPT ![a] = {}]
<1>1. IsWorld(w) /\ MembersTyped(w.member)
  BY DEF IInv, TypeOK
<1>2. v = [w EXCEPT !.member = fm, !.peer = fp, !.pending = fq, !.chan = f]
  BY <1>1 DEF Gone, IsWorld, Ends
<1>3. v.member = fm /\ v.chan = f
  <2> DEFINE v1 == [w EXCEPT !.member = fm]
             v2 == [v1 EXCEPT !.peer = fp]
             v3 == [v2 EXCEPT !.pending = fq]
             v4 == [v3 EXCEPT !.chan = f]
  <2>1. v = v4
    BY <1>2
  <2> HIDE DEF fm, fp, fq, f, v
  <2>2. IsWorld(v1) /\ v1.member = fm
    BY <1>1, MemberSet
  <2> HIDE DEF v1
  <2>3. IsWorld(v2) /\ v2.member = fm
    BY <2>2, PeerSet
  <2> HIDE DEF v2
  <2>4. IsWorld(v3) /\ v3.member = fm
    BY <2>3, PendingSet
  <2> HIDE DEF v3
  <2> QED BY <2>1, <2>4, ChanSet
<1> HIDE DEF v
<1>4. fm[a] = r
  BY <1>1 DEF MembersTyped
<1>5. IsGone(r)
  BY DEF IsGone
<1>6. ASSUME NEW y \in Members PROVE Trimmed(w.chan[a][y], Ending(y))
  BY DEF Trimmed
<1> HIDE DEF Ending, r, fm
<1>7. ASSUME NEW x \in Members, NEW y \in Members
      PROVE  /\ Trimmed(w.chan[x][y], f[x][y])
             /\ x = y => f[x][y] = w.chan[x][y] \/ f[x][y] = <<>>
  <2>1. CASE y = a
    BY <2>1 DEF Trimmed
  <2>2. CASE y # a /\ x = a
    BY <1>6, <2>2
  <2>3. CASE y # a /\ x # a
    BY <2>3 DEF Trimmed
  <2> QED BY <2>1, <2>2, <2>3
<1> HIDE DEF f
<1> QED BY <1>3, <1>4, <1>5, <1>7 DEF v

\* Whoever leaves matters to nobody, except that the host closes the lobby.  The one who leaves
\* may have changed its connections before.
LEMMA GoneIsPlain ==
  ASSUME NEW w, NEW u, IInv(w), IInv(u), NEW a \in Members,
         u.member = w.member, u.chan = w.chan, u.lobby = w.lobby,
         \A m \in Members : m # a => u.peer[m] = w.peer[m] /\ u.pending[m] = w.pending[m]
  PROVE  LET v == Gone(u, a)
         IN  /\ Plain(w, v) /\ HasLeft(v, a)
             /\ \A m \in Members : m # a => v.member[m] = w.member[m]
             /\ a # Host => Mute(w, v)
<1> USE TheMembers
<1> DEFINE v == Gone(u, a)
<1>1. /\ v.lobby = w.lobby
      /\ v.member[a].phase = "out"
      /\ v.pending[a] = {} /\ \A n \in Members : v.peer[a][n] = None
      /\ \A m \in Members : m # a =>
           v.member[m] = w.member[m] /\ v.peer[m] = w.peer[m] /\ v.pending[m] = w.pending[m]
  BY GoneIs
<1>2. /\ IsGone(v.member[a])
      /\ \A x, y \in Members : /\ Trimmed(w.chan[x][y], v.chan[x][y])
                               /\ x = y => v.chan[x][y] = w.chan[x][y] \/ v.chan[x][y] = <<>>
  BY GoneChans
<1> HIDE DEF v
<1>3. \A x, y \in Members : Subdued(w, x, y, v.chan[x][y]) /\ Leads(w.chan[x][y], v.chan[x][y], y)
  BY <1>2, TrimmedIsSubdued
<1>4. \A m \in Members : Passive(w.member[m], v.member[m]) \/ IsGone(v.member[m])
  BY <1>1, <1>2 DEF Passive
<1>5. ASSUME NEW c \in Clients PROVE Aside(w, v, c)
  <2>1. CASE c = a
    BY <1>1, <2>1 DEF Aside, IsAttached
  <2>2. CASE c # a
    BY <1>1, <2>2 DEF Aside, IsAttached
  <2> QED BY <2>1, <2>2
<1>6. Plain(w, v)
  BY <1>1, <1>3, <1>4, <1>5 DEF Plain
<1>7. a # Host => (HasLeft(v, Host) => HasLeft(w, Host))
  BY <1>1 DEF HasLeft
<1> QED BY <1>1, <1>6, <1>7 DEF Mute, HasLeft, v

\* A client that leaves
LEMMA ClientGoneIsMute ==
  ASSUME NEW w, IInv(w), NEW c \in Clients
  PROVE  Mute(w, Gone(w, c))
BY GoneIsPlain, TheMembers

\* Whoever sets up the game leaves those it has not accepted alone.
LEMMA ClosingIsMute ==
  ASSUME NEW w, IInv(w), NEW a \in Members, w.member[a].phase = "setting"
  PROVE  Mute(w, disable_new_connections(w, a))
<1> USE TheMembers
<1> DEFINE dropped == {b \in Members : w.peer[a][b] # None /\ ~w.peer[a][b].authorized}
           told == {b \in dropped : IsConnected(w, a, b) /\ ~IsOut(w, b)}
           row == [b \in Members |-> IF b \in dropped THEN None ELSE w.peer[a][b]]
           fp == [w.peer EXCEPT ![a] = row]
           f == [x \in Members |-> [y \in Members |->
                   IF y = a /\ x \in dropped THEN <<>>
                   ELSE IF x = a /\ y \in told THEN Append(w.chan[x][y], Ends)
                   ELSE w.chan[x][y]]]
           v == disable_new_connections(w, a)
<1>1. IsWorld(w) /\ PeersTyped(w.peer)
  BY DEF IInv, TypeOK
<1>2. v = [w EXCEPT !.peer = fp, !.chan = f]
  BY <1>1 DEF disable_new_connections, IsWorld, Ends
<1>3. /\ v.member = w.member /\ v.peer = fp /\ v.pending = w.pending /\ v.chan = f
      /\ v.lobby = w.lobby
  <2> DEFINE v1 == [w EXCEPT !.peer = fp]
             v2 == [v1 EXCEPT !.chan = f]
  <2>1. v = v2
    BY <1>2
  <2> HIDE DEF fp, f, v
  <2>2. /\ IsWorld(v1) /\ v1.member = w.member /\ v1.peer = fp /\ v1.pending = w.pending
        /\ v1.lobby = w.lobby
    BY <1>1, PeerSet
  <2> HIDE DEF v1
  <2> QED BY <2>1, <2>2, ChanSet
<1> HIDE DEF v
<1>4. told \subseteq dropped
  OBVIOUS
<1>5. /\ \A m \in Members : m # a => fp[m] = w.peer[m]
      /\ w.peer[a][a] = None => fp[a][a] = None
  <2>1. w.peer[a][a] = None => row[a] = None
    OBVIOUS
  <2> HIDE DEF row
  <2> QED BY <1>1, <2>1 DEF PeersTyped
<1> HIDE DEF fp, dropped, told
<1>6. ASSUME NEW x \in Members, NEW y \in Members
      PROVE  /\ Trimmed(w.chan[x][y], f[x][y])
             /\ x = y => f[x][y] = w.chan[x][y] \/ f[x][y] = <<>>
  BY <1>4 DEF Trimmed
<1> HIDE DEF f
<1>7. \A x, y \in Members : Subdued(w, x, y, v.chan[x][y]) /\ Leads(w.chan[x][y], v.chan[x][y], y)
  BY <1>3, <1>6, TrimmedIsSubdued
<1>8. \A m \in Members : Passive(w.member[m], v.member[m])
  BY <1>3 DEF Passive
<1>9. ASSUME NEW c \in Clients PROVE Aside(w, v, c)
  BY <1>3, <1>5 DEF Aside, IsAttached
<1>10. v.lobby.ready \subseteq w.lobby.ready \cup {1}
  BY <1>3
<1> QED BY <1>7, <1>8, <1>9, <1>10, MuteBy DEF v

---------------------------------------------------------------------------
(* Nobody is ahead: what clients hear.                                     *)

\* Only a client's own state changes.
LEMMA ClientAloneMute ==
  ASSUME NEW w, NEW v, NEW c \in Clients, v.chan = w.chan, v.lobby = w.lobby,
         \A m \in Members : m # c =>
           v.member[m] = w.member[m] /\ v.peer[m] = w.peer[m] /\ v.pending[m] = w.pending[m],
         Passive(w.member[c], v.member[c]), Aside(w, v, c)
  PROVE  Mute(w, v)
<1> USE TheMembers
<1>1. \A m \in Members : Passive(w.member[m], v.member[m])
  BY DEF Passive
<1>2. \A d \in Clients : Aside(w, v, d)
  BY DEF Aside, IsAttached
<1>3. v.lobby.ready \subseteq w.lobby.ready \cup {1}
  OBVIOUS
<1> QED BY <1>1, <1>2, <1>3, ChansStay, MuteBy

\* Its record in the lobby, and the message box
LEMMA ClientRecordMute ==
  ASSUME NEW w, IInv(w), NEW c \in Members
  PROVE  /\ \A x : /\ Mute(w, [w EXCEPT !.member[c].reg = x])
                   /\ Mute(w, [w EXCEPT !.member[c].colour = x])
                   /\ Mute(w, [w EXCEPT !.member[c].ready = x])
         /\ w.member[c].phase = "lobby" => Mute(w, Box(w, c))
<1>1. w.member[c] \in MemberRecords /\ IsWorld(w) /\ MembersTyped(w.member)
  BY Parts DEF IInv, TypeOK
<1>2. ASSUME NEW r, Passive(w.member[c], r), r.phase \in {w.member[c].phase, "box"}
      PROVE  Mute(w, [w EXCEPT !.member[c] = r])
  <2>1. r.phase \in {"joining", "lobby"} => w.member[c].phase \in {"joining", "lobby"}
    BY <1>2
  <2> QED BY <1>2, <2>1, MemberMute
<1>3. ASSUME NEW x
      PROVE  /\ Mute(w, [w EXCEPT !.member[c].reg = x])
             /\ Mute(w, [w EXCEPT !.member[c].colour = x])
             /\ Mute(w, [w EXCEPT !.member[c].ready = x])
  <2> DEFINE r1 == [w.member[c] EXCEPT !.reg = x]
             r2 == [w.member[c] EXCEPT !.colour = x]
             r3 == [w.member[c] EXCEPT !.ready = x]
  <2>1. /\ Passive(w.member[c], r1) /\ r1.phase = w.member[c].phase
        /\ Passive(w.member[c], r2) /\ r2.phase = w.member[c].phase
        /\ Passive(w.member[c], r3) /\ r3.phase = w.member[c].phase
    BY <1>1 DEF MemberRecords, Passive
  <2>2. /\ [w EXCEPT !.member[c].reg = x] = [w EXCEPT !.member[c] = r1]
        /\ [w EXCEPT !.member[c].colour = x] = [w EXCEPT !.member[c] = r2]
        /\ [w EXCEPT !.member[c].ready = x] = [w EXCEPT !.member[c] = r3]
    BY <1>1 DEF IsWorld, MembersTyped, MemberRecords
  <2> HIDE DEF r1, r2, r3
  <2> QED BY <1>2, <2>1, <2>2
<1>4. ASSUME w.member[c].phase = "lobby" PROVE Mute(w, Box(w, c))
  <2> DEFINE r == [w.member[c] EXCEPT !.phase = "box"]
  <2>1. Passive(w.member[c], r) /\ r.phase = "box"
    BY <1>1, <1>4 DEF MemberRecords, Passive
  <2>2. Box(w, c) = [w EXCEPT !.member[c] = r]
    BY <1>1 DEF Box, IsWorld, MembersTyped, MemberRecords
  <2> HIDE DEF r
  <2> QED BY <1>2, <2>1, <2>2
<1> QED BY <1>3, <1>4

\* Who is registered, or no more
LEMMA RegisteringIsMute ==
  ASSUME NEW w, IInv(w), NEW c \in Members, NEW id
  PROVE  Mute(w, Registered(w, c, id)) /\ Mute(w, Unregistered(w, c, id))
<1>1. \A x : Mute(w, [w EXCEPT !.member[c].reg = x])
  BY ClientRecordMute
<1>2. Mute(w, Registered(w, c, id))
  BY <1>1, NothingIsMute DEF Registered
<1>3. Mute(w, Unregistered(w, c, id))
  BY <1>1 DEF Unregistered
<1> QED BY <1>2, <1>3

\* What a lost connection leaves of a client
LEMMA DisconnectedIs ==
  ASSUME NEW w, IInv(w), NEW c \in Clients, NEW b \in Members
  PROVE  LET v == Disconnected(w, c, b)
         IN  /\ v.member = w.member /\ v.chan = w.chan /\ v.lobby = w.lobby
             /\ \A m \in Members : m # c => v.peer[m] = w.peer[m] /\ v.pending[m] = w.pending[m]
             /\ v.peer[c][b] = None /\ \A n \in Members : n # b => v.peer[c][n] = w.peer[c][n]
             /\ \A e \in v.pending[c] : e \in w.pending[c] \/ e.who = b
<1>1. /\ c \in Members /\ IsWorld(w) /\ PendingTyped(w.pending) /\ PeersTyped(w.peer)
  BY TheMembers DEF IInv, TypeOK
<1> DEFINE p == w.peer[c][b]
           kept == IF p # None /\ p.authorized /\ c # Host /\ Cardinality(w.pending[c]) < MAX_NATION
                   THEN {[id |-> p.id, who |-> b]} ELSE {}
           q == w.pending[c] \cup kept
           fp == [w.peer EXCEPT ![c][b] = None]
           fq == [w.pending EXCEPT ![c] = q]
           u == [w EXCEPT !.peer = fp]
           v == Disconnected(w, c, b)
<1>2. v = [u EXCEPT !.pending = fq]
  BY <1>1 DEF Disconnected, IsWorld
<1>3. \A e \in q : e \in w.pending[c] \/ e.who = b
  OBVIOUS
<1> HIDE DEF q
<1>4. /\ fp[c][b] = None /\ (\A n \in Members : n # b => fp[c][n] = w.peer[c][n])
      /\ \A m \in Members : m # c => fp[m] = w.peer[m]
      /\ fq[c] = q /\ \A m \in Members : m # c => fq[m] = w.pending[m]
  BY <1>1 DEF PeersTyped, PendingTyped
<1> HIDE DEF fp, fq, v
<1>5. /\ IsWorld(u) /\ u.peer = fp /\ u.member = w.member
      /\ u.chan = w.chan /\ u.lobby = w.lobby
  BY <1>1, PeerSet
<1> HIDE DEF u
<1>6. v.pending = fq /\ v.peer = fp /\ v.member = w.member /\ v.chan = w.chan /\ v.lobby = w.lobby
  BY <1>2, <1>5, PendingSet
<1> QED BY <1>3, <1>4, <1>6 DEF v

\* A client loses a connection.
LEMMA ClientLosesIsMute ==
  ASSUME NEW w, IInv(w), SelvesOK(w), NEW c \in Clients,
         w.member[c].phase \in {"joining", "lobby", "box", "setting"}, NEW b \in Members, b # c,
         NEW from, from = IF w.peer[c][b] # None THEN w.peer[c][b].id ELSE 0,
         NEW v \in LobbyDisconnects(Disconnected(w, c, b), c, from)
  PROVE  Mute(w, v)
<1> USE TheMembers
<1> DEFINE u == Disconnected(w, c, b)
<1>1. IInv(u)
  <2>1. ~IsOut(w, c)
    BY DEF IsOut
  <2> QED BY <2>1, ClientDisconnected
<1>2. /\ u.member = w.member /\ u.chan = w.chan /\ u.lobby = w.lobby
      /\ \A m \in Members : m # c => u.peer[m] = w.peer[m] /\ u.pending[m] = w.pending[m]
      /\ u.peer[c][b] = None /\ \A n \in Members : n # b => u.peer[c][n] = w.peer[c][n]
      /\ \A e \in u.pending[c] : e \in w.pending[c] \/ e.who = b
  BY DisconnectedIs
<1> HIDE DEF u
<1>3. CASE w.member[c].phase = "joining"
  <2>1. v = Gone(u, c)
    BY <1>2, <1>3 DEF LobbyDisconnects, u
  <2> QED BY <1>1, <1>2, <2>1, GoneIsPlain
<1>4. CASE w.member[c].phase = "lobby" /\ from = 1
  <2>1. v = Box(u, c)
    BY <1>2, <1>4 DEF LobbyDisconnects, u
  <2> DEFINE r == [w.member[c] EXCEPT !.phase = "box"]
             fm == [w.member EXCEPT ![c] = r]
  <2>2. IsWorld(u) /\ w.member[c] \in MemberRecords /\ MembersTyped(w.member)
    BY <1>1, Parts DEF IInv, TypeOK
  <2>3. v = [u EXCEPT !.member = fm]
    BY <1>2, <2>1, <2>2 DEF Box, IsWorld
  <2>4. /\ fm[c] = r /\ (\A m \in Members : m # c => fm[m] = w.member[m])
        /\ r.phase = "box" /\ Passive(w.member[c], r)
    BY <1>4, <2>2 DEF MembersTyped, MemberRecords, Passive
  <2> HIDE DEF r, fm
  <2>5. /\ v.member = fm /\ v.peer = u.peer /\ v.pending = u.pending /\ v.chan = u.chan
        /\ v.lobby = u.lobby
    BY <2>2, <2>3, MemberSet
  <2>6. Aside(w, v, c)
    BY <1>2, <2>4, <2>5 DEF Aside, IsAttached
  <2> QED BY <1>2, <2>4, <2>5, <2>6, ClientAloneMute
<1>5. CASE ~(w.member[c].phase = "joining") /\ ~(w.member[c].phase = "lobby" /\ from = 1)
  <2>1. v = u
    BY <1>2, <1>5 DEF LobbyDisconnects, u
  <2>2. b = Host => ~(w.member[c].phase \in {"joining", "lobby"})
    BY <1>5 DEF SelvesOK, IsAttached
  <2>3. Aside(w, u, c)
    BY <1>2, <2>2 DEF Aside, IsAttached
  <2>4. Passive(w.member[c], u.member[c])
    BY <1>2 DEF Passive
  <2> QED BY <1>2, <2>1, <2>3, <2>4, ClientAloneMute
<1> QED BY <1>3, <1>4, <1>5

\* A client that finds the host asks to be registered.
LEMMA AskingIsMute ==
  ASSUME NEW w, IInv(w), NEW c \in Clients, NEW b \in Members, NEW v \in LobbyConnects(w, c, b)
  PROVE  Mute(w, v)
<1> USE TheMembers
<1>1. CASE w.member[c].phase = "joining" /\ b = Host
  <2> DEFINE r == [w.member[c] EXCEPT !.phase = "lobby"]
             fm == [w.member EXCEPT ![c] = r]
             u == [w EXCEPT !.member = fm]
             e == [msg |-> "NEW_PLAYER"]
             s == Append(w.chan[c][Host], e)
  <2>1. w.member[c] \in MemberRecords /\ IsWorld(w) /\ MembersTyped(w.member) /\ ChansTyped(w.chan)
    BY Parts DEF IInv, TypeOK
  <2>2. v = Put(u, c, Host, e)
    BY <1>1, <2>1 DEF LobbyConnects, IsWorld
  <2>3. /\ fm[c] = r /\ (\A m \in Members : m # c => fm[m] = w.member[m])
        /\ r.phase = "lobby" /\ Passive(w.member[c], r)
    BY <1>1, <2>1 DEF MembersTyped, MemberRecords, Passive
  <2>4. e \in Understood(Host) /\ e.msg = "NEW_PLAYER"
    BY DEF Understood, ToHost
  <2>5. IsNew(w, c)
    BY <1>1 DEF IsNew
  <2>6. Mild(w, c, Host, e)
    BY <2>4, <2>5 DEF Mild
  <2> HIDE DEF r, fm, e
  <2>7. /\ IsWorld(u) /\ u.member = fm /\ u.peer = w.peer /\ u.pending = w.pending
        /\ u.chan = w.chan /\ u.lobby = w.lobby
    BY <2>1, MemberSet
  <2> HIDE DEF u
  <2>8. /\ v.member = fm /\ v.peer = w.peer /\ v.pending = w.pending /\ v.lobby = w.lobby
        /\ v.chan = w.chan \/ v.chan = [w.chan EXCEPT ![c][Host] = s]
    BY <2>1, <2>2, <2>7, PutIs
  <2>9. /\ s \in Seq(Understood(Host)) /\ ToSet(s) = Way(w, c, Host) \cup {e}
        /\ Thin(w.chan[c][Host], s)
    <3>1. w.chan[c][Host] \in Seq(Understood(Host))
      BY Parts
    <3>2. s \in Seq(Understood(Host)) /\ ToSet(s) = ToSet(w.chan[c][Host]) \cup {e}
      BY <2>4, <3>1, Appended
    <3>3. Thin(w.chan[c][Host], s)
      BY <2>4, <3>1, AppendedThin
    <3> QED BY <3>2, <3>3 DEF Way
  <2>10. Subdued(w, c, Host, s)
    BY <2>6, <2>9 DEF Subdued
  <2> HIDE DEF s
  <2>11. \A x, y \in Members :
           v.chan[x][y] = w.chan[x][y] \/ (x = c /\ y = Host /\ v.chan[x][y] = s)
    <3>1. CASE v.chan = w.chan
      BY <3>1
    <3>2. CASE v.chan = [w.chan EXCEPT ![c][Host] = s]
      <4> DEFINE f == w.chan
      <4>1. ChansTyped(f)
        BY <2>1
      <4> HIDE DEF f
      <4>2. LET g == [f EXCEPT ![c][Host] = s]
            IN  /\ ChansTyped(g) /\ g[c][Host] = s
                /\ \A x, y \in Members : x # c \/ y # Host => g[x][y] = f[x][y]
        BY <2>9, <4>1, OneChan
      <4> QED BY <3>2, <4>2 DEF f
    <3> QED BY <2>8, <3>1, <3>2
  <2>12. ASSUME NEW x \in Members, NEW y \in Members
         PROVE  Subdued(w, x, y, v.chan[x][y]) /\ (x = Host => Leads(w.chan[x][y], v.chan[x][y], y))
    <3>1. CASE v.chan[x][y] = w.chan[x][y]
      BY <3>1 DEF Subdued, Thin, Way, Leads
    <3>2. CASE x = c /\ y = Host /\ v.chan[x][y] = s
      BY <2>10, <3>2
    <3> QED BY <2>11, <3>1, <3>2
  <2>13. \A m \in Members : Passive(w.member[m], v.member[m])
    BY <2>3, <2>8 DEF Passive
  <2>14. \A d \in Clients : v.member[d].phase \in {"joining", "lobby"} => w.member[d].phase \in {"joining", "lobby"}
    BY <1>1, <2>3, <2>8
  <2>15. \A d \in Clients : Aside(w, v, d)
    BY <2>8, <2>14, PeersStay
  <2>16. v.lobby.ready \subseteq w.lobby.ready \cup {1}
    BY <2>8
  <2> QED BY <2>12, <2>13, <2>15, <2>16, MuteBy
<1>2. CASE ~(w.member[c].phase = "joining" /\ b = Host)
  BY <1>2, NothingIsMute DEF LobbyConnects
<1> QED BY <1>1, <1>2

\* Only what matters to nobody's order changes.
LEMMA SameOrder ==
  ASSUME NEW w, NEW v, Orderly(w), v.chan = w.chan, v.peer = w.peer, v.pending = w.pending,
         \A m \in Members : /\ v.member[m].phase = w.member[m].phase
                            /\ v.member[m].my_id = w.member[m].my_id
  PROVE  Orderly(v)
<1> USE TheMembers
<1>1. WaysOK(v)
  BY DEF Orderly, WaysOK, Way
<1>2. SelvesOK(v)
  BY DEF Orderly, SelvesOK, IsAttached, IsEarly
<1>3. NumbersOK(v)
  BY DEF Orderly, NumbersOK, IsNew, HasId, HasLeft, Carries, Way
<1> QED BY <1>1, <1>2, <1>3 DEF Orderly

\* One more has set up the game, and has been heard of.
LEMMA EndIsCounted ==
  ASSUME NEW w, NEW p, IInv(w), Course(w, p), NEW a \in Members, ~HasLeft(w, a), NEW b \in Members,
         w.chan[b][a] # <<>>, Head(w.chan[b][a]).msg = "END_SETTING",
         NEW t, t = [w EXCEPT !.chan[b][a] = Tail(@)],
         NEW v, v = [t EXCEPT !.member[a].ended = @ + 1]
  PROVE  Course(v, p)
<1> USE TheMembers
<1>1. Carries(w, b, a, "END_SETTING")
  BY TakingIsCalm DEF Carries
<1>2. ~InLobby(w)
  BY <1>1 DEF Course, WaitOK
<1>3. Follows(w, p) /\ PlanOK(p) /\ b \in p.done /\ b # a /\ p.done \in SUBSET Members
  BY <1>1, <1>2 DEF Course, Follows, PlanOK, Plans
<1>4. IInv(t) /\ Mute(w, t)
  BY TakingIsCalm, TakingIsMute
<1>5. /\ IsWorld(w) /\ ChansTyped(w.chan)
      /\ IsWorld(t) /\ MembersTyped(t.member) /\ t.member[a] \in MemberRecords
  BY <1>4, Parts DEF IInv, TypeOK
<1>6. /\ t.member = w.member
      /\ t.chan[b][a] = Tail(w.chan[b][a])
  BY <1>5 DEF IsWorld, ChansTyped
<1>7. Follows(t, p) /\ Orderly(t)
  BY <1>2, <1>4, <1>6, MuteKeeps DEF Course, InLobby
<1> DEFINE r == [t.member[a] EXCEPT !.ended = t.member[a].ended + 1]
           fm == [t.member EXCEPT ![a] = r]
<1>8. v = [t EXCEPT !.member = fm]
  BY <1>5 DEF IsWorld
<1>9. /\ fm[a] = r /\ (\A m \in Members : m # a => fm[m] = t.member[m])
      /\ r.phase = t.member[a].phase /\ r.my_id = t.member[a].my_id
      /\ r.nations = t.member[a].nations /\ r.ended = t.member[a].ended + 1
  BY <1>5 DEF MembersTyped, MemberRecords
<1> HIDE DEF fm, r
<1>10. /\ v.member = fm /\ v.peer = t.peer /\ v.pending = t.pending /\ v.chan = t.chan
  <2>1. LET u == [t EXCEPT !.member = fm]
        IN  u.member = fm /\ u.peer = t.peer /\ u.pending = t.pending /\ u.chan = t.chan
    BY <1>5, MemberSet
  <2> QED BY <1>8, <2>1
<1>11. \A m \in Members : /\ v.member[m].phase = t.member[m].phase
                          /\ v.member[m].my_id = t.member[m].my_id
                          /\ v.member[m].nations = t.member[m].nations
                          /\ m # a => v.member[m].ended = t.member[m].ended
  BY <1>9, <1>10
<1>12. Orderly(v)
  <2>1. \A m \in Members : /\ v.member[m].phase = t.member[m].phase
                            /\ v.member[m].my_id = t.member[m].my_id
    BY <1>11
  <2>2. Orderly(t) /\ v.chan = t.chan /\ v.peer = t.peer /\ v.pending = t.pending
    BY <1>7, <1>10
  <2> QED BY ONLY <2>1, <2>2, SameOrder
<1>13. ~InLobby(v)
  BY <1>2, <1>6, <1>11 DEF InLobby
<1> DEFINE H == HeardOf(w, p.done, a)
           K == HeardOf(v, p.done, a)
<1>14. /\ H \subseteq K \ {b} /\ b \in K /\ K \subseteq Members
  <2>1. ~Carries(v, b, a, "END_SETTING")
    <3>1. w.chan[b][a] \in Seq(Understood(a))
      BY Parts
    <3>2. AtMostOne(w.chan[b][a], "END_SETTING")
      BY DEF Course, Orderly, WaysOK
    <3>3. \A m \in ToSet(Tail(w.chan[b][a])) : m.msg # "END_SETTING"
      BY <3>1, <3>2, TailThin
    <3> QED BY <1>6, <1>10, <3>3 DEF Carries, Way
  <2>2. \A n \in Members : Carries(v, n, a, "END_SETTING") => Carries(w, n, a, "END_SETTING")
    <3>1. \A n \in Members : Carries(t, n, a, "END_SETTING") => Carries(w, n, a, "END_SETTING")
      BY <1>4, PlainLeaves DEF Mute
    <3> QED BY <1>10, <3>1 DEF Carries, Way
  <2> QED BY <1>1, <1>3, <2>1, <2>2 DEF HeardOf
<1>15. v.member[a].ended <= Cardinality(K)
  <2>1. IsFiniteSet(K)
    BY <1>14, FS_Subset
  <2> HIDE DEF H, K
  <2>2. Cardinality(K \ {b}) = Cardinality(K) - 1 /\ IsFiniteSet(K \ {b})
    BY <1>14, <2>1, FS_RemoveElement
  <2>3. Cardinality(H) <= Cardinality(K \ {b}) /\ IsFiniteSet(H)
    BY <1>14, <2>2, FS_Subset
  <2>4. Cardinality(H) \in Nat /\ Cardinality(K) \in Nat
    BY <2>1, <2>3, FS_CardinalityType
  <2>5. w.member[a].ended <= Cardinality(H)
    BY <1>3 DEF Follows, H
  <2>6. w.member[a].ended \in Nat /\ v.member[a].ended = w.member[a].ended + 1
    BY <1>5, <1>6, <1>9, <1>10 DEF MemberRecords
  <2> QED BY <2>2, <2>3, <2>4, <2>5, <2>6
<1>16. Follows(v, p)
  <2>1. \A m \in Members : (HasLeft(v, m) <=> HasLeft(t, m)) /\ (Setting(v, m) <=> Setting(t, m))
    BY <1>11 DEF HasLeft, Setting
  <2>2. \A x, y \in Members : Way(v, x, y) = Way(t, x, y)
    BY <1>10 DEF Way
  <2>3. \A x, y \in Members : \A k : Carries(v, x, y, k) <=> Carries(t, x, y, k)
    BY <2>2 DEF Carries
  <2>4. \A m \in Members : \A id : /\ HasId(v, m, id) <=> HasId(t, m, id)
                                   /\ IsOnWay(v, m, id) <=> IsOnWay(t, m, id)
    <3>1. ASSUME NEW m \in Members, NEW id PROVE IsOnWay(v, m, id) <=> IsOnWay(t, m, id)
      <4>1. \A x \in Members : Way(v, x, m) = Way(t, x, m)
        BY <2>2
      <4> QED BY ONLY <4>1 DEF IsOnWay
    <3>2. ASSUME NEW m \in Members, NEW id PROVE HasId(v, m, id) <=> HasId(t, m, id)
      <4>1. v.member[m].my_id = t.member[m].my_id
        BY <1>11
      <4>2. \A x \in Members : Way(v, x, m) = Way(t, x, m)
        BY <2>2
      <4> QED BY ONLY <4>1, <4>2 DEF HasId
    <3> QED BY <3>1, <3>2
  <2>5. Plays(v, p.list)
    <3>1. Plays(t, p.list)
      BY <1>7 DEF Follows
    <3>2. ASSUME NEW m \in Members, Setting(v, m) PROVE v.member[m].nations = p.list
      <4>1. Setting(t, m)
        BY <2>1, <3>2
      <4>2. t.member[m].nations = p.list
        BY <3>1, <4>1 DEF Plays
      <4> QED BY <1>11, <4>2
    <3>3. \A x, y \in Members : \A m \in Way(v, x, y) : m.msg = "START_GAME" => m.list = p.list
      <4>1. ASSUME NEW x \in Members, NEW y \in Members, NEW m \in Way(v, x, y), m.msg = "START_GAME"
            PROVE  m.list = p.list
        <5>1. m \in Way(t, x, y)
          BY <2>2
        <5> QED BY <3>1, <4>1, <5>1 DEF Plays
      <4> QED BY <4>1
    <3> QED BY <3>2, <3>3 DEF Plays
  <2>6. ASSUME NEW m \in Members, ~HasLeft(v, m)
        PROVE  v.member[m].ended <= Cardinality(HeardOf(v, p.done, m))
    <3>1. CASE m = a
      BY <1>15, <3>1
    <3>2. CASE m # a
      <4>1. HeardOf(v, p.done, m) = HeardOf(t, p.done, m)
        BY <1>3, <2>3 DEF HeardOf
      <4>2. t.member[m].ended <= Cardinality(HeardOf(t, p.done, m))
        BY <1>7, <2>1, <2>6 DEF Follows
      <4> QED BY <1>11, <3>2, <4>1, <4>2
    <3> QED BY <3>1, <3>2
  <2>7. \A m \in Members : Setting(v, m) => m \in p.done \cup p.busy
    BY <1>7, <2>1 DEF Follows
  <2>8. ASSUME NEW m \in Members, NEW n \in Members, v.member[m].phase = "playing",
               v.member[n].my_id \in ToSet(p.list)
        PROVE  Setting(v, n)
    <3>1. t.member[m].phase = "playing" /\ t.member[n].my_id \in ToSet(p.list)
      BY <1>11, <2>8
    <3>2. Setting(t, n)
      BY <1>7, <3>1 DEF Follows
    <3> QED BY <2>1, <3>2
  <2>9. \A m \in p.done \cup p.busy : Setting(v, m) \/ HasLeft(v, m)
    <3>1. p.done \cup p.busy \subseteq Members
      BY <1>3 DEF PlanOK, Plans
    <3>2. \A m \in p.done \cup p.busy : Setting(t, m) \/ HasLeft(t, m)
      BY <1>7 DEF Follows
    <3> QED BY <2>1, <3>1, <3>2
  <2>10. \A m \in Members, id \in Ids : HasId(v, m, id) /\ ~HasLeft(v, m) => p.id[m] = id
    BY <1>7, <2>1, <2>4 DEF Follows
  <2>11. \A c \in Clients, id \in Ids :
           IsOnWay(v, c, id) /\ ~HasLeft(v, c) => id \notin ToSet(p.list)
    BY <1>7, <2>1, <2>4 DEF Follows
  <2>12. \A x, y \in Members : Carries(v, x, y, "END_SETTING") => x \in p.done /\ x # y
    BY <1>7, <2>3 DEF Follows
  <2> QED BY <2>5, <2>6, <2>7, <2>8, <2>9, <2>10, <2>11, <2>12 DEF Follows
<1> QED BY <1>3, <1>12, <1>13, <1>16 DEF Course

\* A player in the lobby hears its id.
LEMMA NumberTaken ==
  ASSUME NEW w, NEW p, IInv(w), Course(w, p), NEW c \in Clients, w.member[c].phase = "lobby",
         NEW b \in Members, w.chan[b][c] # <<>>,
         NEW id \in Ids, Head(w.chan[b][c]) = Numbered(id),
         NEW v, v.chan = [w.chan EXCEPT ![b][c] = Tail(w.chan[b][c])],
         v.peer = w.peer, v.pending = w.pending, v.lobby = w.lobby,
         \A m \in Members : m # c => v.member[m] = w.member[m],
         v.member[c].phase = "lobby", v.member[c].my_id = id, v.member[c].ended = w.member[c].ended
  PROVE  Course(v, p)
<1> USE TheMembers
<1> DEFINE s == w.chan[b][c]
           t == Tail(s)
           old == w.member[c].my_id
<1>1. s \in Seq(Understood(c)) /\ Numbered(id) \in ToSet(s)
  <2>1. s \in Seq(Understood(c))
    BY Parts
  <2>2. Head(w.chan[b][c]) \in Way(w, b, c)
    BY TakingIsCalm
  <2> QED BY <2>1, <2>2 DEF Way
<1>2. Orderly(w) /\ b = Host
  <2>1. Orderly(w)
    BY DEF Course
  <2>2. Numbered(id) \in Way(w, b, c) /\ Numbered(id).msg = "PLAYER_ID"
    BY <1>1 DEF Way, Numbered
  <2> QED BY <2>1, <2>2 DEF Orderly, WaysOK
<1>3. HasId(w, c, id) /\ IsOnWay(w, c, id) /\ ~HasLeft(w, c)
  BY <1>1 DEF HasId, IsOnWay, Way, Numbered, HasLeft
<1>4. /\ t \in Seq(Understood(c)) /\ ToSet(t) \subseteq ToSet(s)
      /\ Thin(s, t) /\ \A m \in ToSet(t) : m.msg # "PLAYER_ID"
  <2>1. AtMostOne(s, "PLAYER_ID") /\ Head(s).msg = "PLAYER_ID"
    BY <1>2 DEF Orderly, WaysOK, Numbered
  <2> HIDE DEF s
  <2>2. Thin(s, Tail(s)) /\ \A m \in ToSet(Tail(s)) : m.msg # "PLAYER_ID"
    BY <1>1, <2>1, TailThin DEF s
  <2>3. Tail(s) \in Seq(Understood(c)) /\ ToSet(Tail(s)) \subseteq ToSet(s)
    BY <1>1, TakenFirst DEF s
  <2> QED BY <2>2, <2>3
<1>5. /\ ChansTyped(w.chan) /\ w.member[c] \in MemberRecords
  BY Parts DEF IInv, TypeOK
<1>6. /\ v.chan[Host][c] = t
      /\ \A x, y \in Members : x # Host \/ y # c => v.chan[x][y] = w.chan[x][y]
  <2> HIDE DEF t, s
  <2>1. LET g == [w.chan EXCEPT ![b][c] = t]
        IN  /\ ChansTyped(g) /\ g[b][c] = t
            /\ \A x, y \in Members : x # b \/ y # c => g[x][y] = w.chan[x][y]
    BY <1>4, <1>5, OneChan
  <2>2. v.chan = [w.chan EXCEPT ![b][c] = t]
    BY DEF t, s
  <2> QED BY <1>2, <2>1, <2>2
<1> HIDE DEF t
<1>7. /\ \A x, y \in Members : Way(v, x, y) \subseteq Way(w, x, y)
      /\ \A x, y \in Members : Thin(w.chan[x][y], v.chan[x][y])
      /\ \A x \in Members : ~Carries(v, x, c, "PLAYER_ID")
  <2>1. \A x, y \in Members : Way(v, x, y) \subseteq Way(w, x, y) /\ Thin(w.chan[x][y], v.chan[x][y])
    <3>1. ASSUME NEW x \in Members, NEW y \in Members, x = Host, y = c
          PROVE  Way(v, x, y) \subseteq Way(w, x, y) /\ Thin(w.chan[x][y], v.chan[x][y])
      BY <1>2, <1>4, <1>6, <3>1 DEF Way
    <3>2. ASSUME NEW x \in Members, NEW y \in Members, x # Host \/ y # c
          PROVE  Way(v, x, y) \subseteq Way(w, x, y) /\ Thin(w.chan[x][y], v.chan[x][y])
      BY <1>6, <3>2 DEF Way, Thin
    <3> QED BY <3>1, <3>2
  <2>2. ASSUME NEW x \in Members PROVE ~Carries(v, x, c, "PLAYER_ID")
    <3>1. CASE x = Host
      BY <1>4, <1>6, <3>1 DEF Carries, Way
    <3>2. CASE x # Host
      BY <1>2, <1>6, <3>2 DEF Carries, Way, Orderly, WaysOK
    <3> QED BY <3>1, <3>2
  <2> QED BY <2>1, <2>2
<1>8. /\ \A x \in Members : \A other : ~(Numbered(other) \in Way(v, x, c))
      /\ \A other : ~IsOnWay(v, c, other)
  BY <1>7 DEF Carries, Numbered, IsOnWay
<1>9. /\ \A m \in Members, k \in Ids : HasId(v, m, k) => HasId(w, m, k)
      /\ \A m \in Members : \A k : IsOnWay(v, m, k) => IsOnWay(w, m, k)
  BY <1>3, <1>7 DEF HasId, IsOnWay
<1>10. \A m \in Members : /\ v.member[m].phase = w.member[m].phase
                          /\ v.member[m].ended = w.member[m].ended
                          /\ v.member[m].nations = w.member[m].nations \/ m = c
                          /\ v.member[m].my_id = w.member[m].my_id \/ m = c
  OBVIOUS
<1>11. \A x, y \in Members : Carries(v, x, y, "END_SETTING") <=> Carries(w, x, y, "END_SETTING")
  <2>1. ASSUME NEW m \in ToSet(s), m.msg = "END_SETTING" PROVE m \in ToSet(t)
    <3>1. PICK i \in 1..Len(s) : s[i] = m
      BY <1>1, <2>1 DEF ToSet
    <3>2. i # 1
      <4>1. s[1] = Numbered(id)
        BY <1>1
      <4> QED BY <2>1, <3>1, <4>1 DEF Numbered
    <3>3. i - 1 \in 1..Len(t) /\ t[i - 1] = s[i]
      BY <1>1, <3>1, <3>2 DEF t
    <3> QED BY <1>4, <3>1, <3>3 DEF ToSet
  <2>2. \A x, y \in Members : x # Host \/ y # c =>
          (Carries(v, x, y, "END_SETTING") <=> Carries(w, x, y, "END_SETTING"))
    BY <1>6 DEF Carries, Way
  <2>3. Carries(v, Host, c, "END_SETTING") <=> Carries(w, Host, c, "END_SETTING")
    BY <1>2, <1>4, <1>6, <2>1 DEF Carries, Way
  <2> QED BY <2>2, <2>3
<1>12. old = 0 \/ old = id
  <2>1. CASE InLobby(w)
    BY <1>3, <2>1 DEF Course, WaitOK
  <2>2. CASE ~InLobby(w)
    <3>1. old \in Nat
      BY <1>5 DEF MemberRecords
    <3>2. CASE old \in Ids
      <4>1. HasId(w, c, old)
        BY DEF HasId
      <4> QED BY <1>3, <2>2, <3>2, <4>1 DEF Course, Follows
    <3> QED BY <3>1, <3>2 DEF Ids
  <2> QED BY <2>1, <2>2
<1>13. WaysOK(v)
  BY <1>2, <1>7 DEF Orderly, WaysOK, Thin
<1>14. SelvesOK(v)
  <2>1. Introduced(s, c, old)
    BY <1>2 DEF Orderly, SelvesOK, IsEarly
  <2>2. \A m \in ToSet(s) : m.msg = "ACCEPT_NEW_PLAYER" => m.id # old \/ old = id
    <3>1. ASSUME NEW m \in ToSet(s), m.msg = "ACCEPT_NEW_PLAYER" PROVE m.id # 0
      <4>1. m \in ToClient
        BY WhatClientsHear DEF Way
      <4>2. m.id \in Ids
        BY <3>1, <4>1, ToClientHolds
      <4> QED BY <4>2 DEF Ids
    <3> QED BY <1>12, <3>1
  <2>3. Introduced(t, c, id)
    <3> HIDE DEF s, old
    <3>1. s # <<>> /\ Head(s) = Numbered(id)
      BY DEF s
    <3>2. Introduced(Tail(s), c, id)
      BY <1>1, <2>1, <2>2, <3>1, TailThin, ZenonT(40)
    <3> QED BY <3>2 DEF t
  <2>4. ASSUME NEW d \in Clients
        PROVE  /\ v.peer[d][d] = None /\ v.chan[d][d] = <<>> /\ \A e \in v.pending[d] : e.who # d
               /\ IsAttached(v, d)
               /\ IsEarly(v, d) => Introduced(v.chan[Host][d], d, v.member[d].my_id)
    <3>1. v.chan[d][d] = w.chan[d][d]
      BY <1>6
    <3>2. IsAttached(v, d)
      BY <1>2, <1>10 DEF Orderly, SelvesOK, IsAttached
    <3>3. IsEarly(v, d) => Introduced(v.chan[Host][d], d, v.member[d].my_id)
      <4>1. CASE d = c
        BY <1>6, <2>3, <4>1
      <4>2. CASE d # c
        BY <1>2, <1>6, <4>2 DEF Orderly, SelvesOK, IsEarly
      <4> QED BY <4>1, <4>2
    <3> QED BY <1>2, <3>1, <3>2, <3>3 DEF Orderly, SelvesOK
  <2> QED BY <2>4 DEF SelvesOK
<1>15. NumbersOK(v)
  <2>1. \A d \in Clients : IsNew(v, d) <=> IsNew(w, d)
    BY <1>6, <1>10 DEF IsNew, Carries, Way
  <2>2. \A m \in Members : HasLeft(v, m) => v.member[m].my_id = 0
    BY <1>2, <1>10 DEF Orderly, NumbersOK, HasLeft
  <2> QED BY <1>2, <1>9, <2>1, <2>2 DEF Orderly, NumbersOK
<1>16. InLobby(v) <=> InLobby(w)
  BY <1>10 DEF InLobby
<1>17. ASSUME InLobby(w) PROVE WaitOK(v)
  <2>1. WaitOK(w)
    BY <1>17 DEF Course
  <2>2. ASSUME NEW d \in Clients, ~HasLeft(v, d)
        PROVE  /\ Carries(v, d, Host, "READY") => v.member[d].my_id # 0
               /\ \A k \in Ids : IsOnWay(v, d, k) => v.member[d].my_id = 0 /\ k \notin v.lobby.ready
    <3>1. CASE d = c
      BY <1>8, <3>1 DEF Ids
    <3>2. CASE d # c
      BY <1>7, <1>9, <2>1, <2>2, <3>2 DEF WaitOK, Carries, HasLeft
    <3> QED BY <3>1, <3>2
  <2>3. \A x, y \in Members : ~Carries(v, x, y, "END_SETTING")
    BY <1>11, <2>1 DEF WaitOK
  <2>4. \A m \in Members : v.member[m].ended = 0
    BY <1>10, <2>1 DEF WaitOK
  <2> QED BY <2>2, <2>3, <2>4 DEF WaitOK
<1>18. ASSUME ~InLobby(w) PROVE Follows(v, p)
  <2>1. Follows(w, p)
    BY <1>18 DEF Course
  <2>2. \A m \in Members : /\ Setting(v, m) <=> Setting(w, m)
                           /\ HasLeft(v, m) <=> HasLeft(w, m)
                           /\ Setting(v, m) => v.member[m].nations = w.member[m].nations
    BY <1>10 DEF Setting, HasLeft
  <2>3. Plays(v, p.list)
    BY <1>7, <2>1, <2>2 DEF Follows, Plays
  <2>4. /\ \A m \in Members : Setting(v, m) => m \in p.done \cup p.busy
        /\ \A m \in p.done \cup p.busy : Setting(v, m) \/ HasLeft(v, m)
    BY <2>1, <2>2 DEF Follows, Course, PlanOK, Plans
  <2>5. /\ \A m \in Members, k \in Ids : HasId(v, m, k) /\ ~HasLeft(v, m) => p.id[m] = k
        /\ \A d \in Clients, k \in Ids : IsOnWay(v, d, k) /\ ~HasLeft(v, d) => k \notin ToSet(p.list)
    BY <1>9, <2>1, <2>2 DEF Follows
  <2>6. \A x, y \in Members : Carries(v, x, y, "END_SETTING") => x \in p.done /\ x # y
    BY <1>11, <2>1 DEF Follows
  <2>7. \A m \in Members : ~HasLeft(v, m) => v.member[m].ended <= Cardinality(HeardOf(v, p.done, m))
    <3>1. p.done \in SUBSET Members
      BY DEF Course, PlanOK, Plans
    <3>2. \A m \in Members : HeardOf(v, p.done, m) = HeardOf(w, p.done, m)
      BY <1>11, <3>1 DEF HeardOf
    <3> QED BY <1>10, <2>1, <2>2, <3>2 DEF Follows
  <2>8. \A m, n \in Members : v.member[m].phase = "playing" /\ v.member[n].my_id \in ToSet(p.list)
          => Setting(v, n)
    <3>1. id \notin ToSet(p.list)
      BY <1>3, <2>1 DEF Follows
    <3> QED BY <1>10, <2>1, <2>2, <3>1 DEF Follows
  <2> QED BY <2>3, <2>4, <2>5, <2>6, <2>7, <2>8 DEF Follows
<1> QED BY <1>13, <1>14, <1>15, <1>16, <1>17, <1>18 DEF Course, Orderly

---------------------------------------------------------------------------
(* Nobody is ahead: the game is set up.                                    *)

HasSetUp == [msg |-> "END_SETTING"]
StartOf(list) == [msg |-> "START_GAME", list |-> list]

\* Who says what: the host that the game starts, or one who was about to that it has set it up
Says(p, q, a, msg) ==
  /\ q \in Plans /\ q.list = p.list /\ q.id = p.id
  /\ \/ a = Host /\ msg = StartOf(p.list) /\ q.done = p.done /\ q.busy = p.busy
     \/ msg = HasSetUp /\ a \in p.busy /\ q.done = p.done \cup {a} /\ q.busy = p.busy \ {a}

\* What is said is understood, and the plan goes on.
LEMMA SaysIs ==
  ASSUME NEW p, NEW q, PlanOK(p), NEW a \in Members, NEW msg, Says(p, q, a, msg)
  PROVE  /\ PlanOK(q) /\ p.done \subseteq q.done /\ q.done \cup q.busy = p.done \cup p.busy
         /\ msg.msg \in {"START_GAME", "END_SETTING"}
         /\ msg.msg = "START_GAME" => a = Host /\ msg.list = p.list
         /\ msg.msg = "END_SETTING" => a \in p.busy /\ a \in q.done /\ a \notin p.done
         /\ \A b \in Members \ {a} : msg \in Understood(b)
<1>1. /\ p.list \in Seq(Ids) /\ p.id \in [Members -> Nat] /\ p.done \in SUBSET Members
      /\ p.busy \in SUBSET Members /\ p.done \cap p.busy = {}
  BY DEF PlanOK, Plans
<1>2. msg = StartOf(p.list) \/ msg = HasSetUp
  BY DEF Says
<1>3. \A b \in Members \ {a} : msg \in Understood(b)
  <2>1. CASE msg = HasSetUp
    BY <2>1 DEF HasSetUp, Understood, ToHost, ToClient, Events
  <2>2. CASE msg # HasSetUp
    <3>1. a = Host /\ msg = StartOf(p.list)
      BY <2>2 DEF Says
    <3>2. msg \in ToClient
      BY <1>1, <3>1 DEF StartOf, ToClient
    <3> QED BY <3>1, <3>2 DEF Understood
  <2> QED BY <2>1, <2>2
<1>4. PlanOK(q)
  <2>1. q.done \cup q.busy = p.done \cup p.busy /\ q.done \cap q.busy = {}
    <3>1. CASE q.done = p.done /\ q.busy = p.busy
      BY <1>1, <3>1
    <3>2. CASE a \in p.busy /\ q.done = p.done \cup {a} /\ q.busy = p.busy \ {a}
      BY <1>1, <3>2
    <3> QED BY <3>1, <3>2 DEF Says
  <2>2. q \in Plans
    BY DEF Says
  <2> QED BY <2>1, <2>2 DEF PlanOK, Says
<1> QED BY <1>1, <1>2, <1>3, <1>4 DEF Says, StartOf, HasSetUp

\* What is said reaches the others, and nothing else changes.
LEMMA SaidIs ==
  ASSUME NEW w, IInv(w), NEW a \in Members, w.peer[a][a] = None, NEW msg,
         \A b \in Members \ {a} : msg \in Understood(b)
  PROVE  LET v == Broadcast(w, a, msg)
         IN  /\ v.member = w.member /\ v.peer = w.peer /\ v.pending = w.pending /\ v.lobby = w.lobby
             /\ \A x, y \in Members :
                  \/ v.chan[x][y] = w.chan[x][y]
                  \/ /\ x = a /\ y # a /\ v.chan[x][y] = Append(w.chan[x][y], msg)
                     /\ Way(v, x, y) = Way(w, x, y) \cup {msg}
                     /\ w.chan[x][y] \in Seq(Understood(y)) /\ msg \in Understood(y)
<1> DEFINE v == Broadcast(w, a, msg)
           reached == {b \in player_pool(w, a) : ~IsOut(w, b)}
<1>1. a \notin player_pool(w, a) /\ player_pool(w, a) \subseteq Members
  BY DEF player_pool, IsConnected
<1>2. IsWorld(w) /\ ChansTyped(w.chan)
  BY DEF IInv, TypeOK
<1>3. /\ v.member = w.member /\ v.peer = w.peer /\ v.pending = w.pending /\ v.lobby = w.lobby
      /\ \A x, y \in Members :
           v.chan[x][y] = IF x = a /\ y \in reached THEN Append(w.chan[x][y], msg)
                          ELSE w.chan[x][y]
  BY <1>1, <1>2, BroadcastIs
<1> HIDE DEF v
<1>4. ASSUME NEW x \in Members, NEW y \in Members, v.chan[x][y] # w.chan[x][y]
      PROVE  /\ x = a /\ y # a /\ v.chan[x][y] = Append(w.chan[x][y], msg)
             /\ Way(v, x, y) = Way(w, x, y) \cup {msg}
             /\ w.chan[x][y] \in Seq(Understood(y)) /\ msg \in Understood(y)
  <2>1. x = a /\ y \in reached /\ y # a /\ v.chan[x][y] = Append(w.chan[x][y], msg)
    BY <1>1, <1>3, <1>4
  <2>2. w.chan[x][y] \in Seq(Understood(y)) /\ msg \in Understood(y)
    BY <2>1, Parts
  <2> QED BY <2>1, <2>2, Appended DEF Way
<1> QED BY <1>3, <1>4 DEF v

\* When the host says that the game starts, and when a player says that it has set it up.
LEMMA Tells ==
  ASSUME NEW w, IInv(w), NEW p, PlanOK(p), Orderly(w), Follows(w, p), NEW a \in Members,
         w.peer[a][a] = None, NEW msg, NEW q, Says(p, q, a, msg),
         NEW v, v = Broadcast(w, a, msg)
  PROVE  Orderly(v) /\ Follows(v, q) /\ PlanOK(q)
<1> USE TheMembers
<1>1. /\ PlanOK(q) /\ p.done \subseteq q.done /\ q.done \cup q.busy = p.done \cup p.busy
      /\ msg.msg \in {"START_GAME", "END_SETTING"}
      /\ msg.msg = "START_GAME" => a = Host /\ msg.list = p.list
      /\ msg.msg = "END_SETTING" => a \in p.busy /\ a \in q.done /\ a \notin p.done
      /\ \A b \in Members \ {a} : msg \in Understood(b)
      /\ q.list = p.list /\ q.id = p.id
  BY SaysIs DEF Says
<1>2. /\ v.member = w.member /\ v.peer = w.peer /\ v.pending = w.pending /\ v.lobby = w.lobby
      /\ \A x, y \in Members :
           \/ v.chan[x][y] = w.chan[x][y]
           \/ /\ x = a /\ y # a /\ v.chan[x][y] = Append(w.chan[x][y], msg)
              /\ Way(v, x, y) = Way(w, x, y) \cup {msg}
              /\ w.chan[x][y] \in Seq(Understood(y)) /\ msg \in Understood(y)
  BY <1>1, SaidIs
<1> DEFINE Said(x, y) == /\ x = a /\ y # a /\ v.chan[x][y] = Append(w.chan[x][y], msg)
                         /\ Way(v, x, y) = Way(w, x, y) \cup {msg}
                         /\ w.chan[x][y] \in Seq(Understood(y)) /\ msg \in Understood(y)
<1>3. \A x, y \in Members : v.chan[x][y] = w.chan[x][y] \/ Said(x, y)
  BY <1>2
<1> HIDE DEF Said
<1>4. \A x, y \in Members : \A m \in Way(v, x, y) : m \in Way(w, x, y) \/ (m = msg /\ x = a /\ y # a)
  <2>1. ASSUME NEW x \in Members, NEW y \in Members, NEW m \in Way(v, x, y), Said(x, y)
        PROVE  m \in Way(w, x, y) \/ (m = msg /\ x = a /\ y # a)
    BY <2>1 DEF Said
  <2>2. ASSUME NEW x \in Members, NEW y \in Members, v.chan[x][y] = w.chan[x][y]
        PROVE  Way(v, x, y) = Way(w, x, y)
    BY <2>2 DEF Way
  <2> QED BY <1>3, <2>1, <2>2
<1>5. \A x, y \in Members : \A k : k # msg.msg =>
        (Carries(v, x, y, k) <=> Carries(w, x, y, k))
  <2>1. \A x, y \in Members : Way(w, x, y) \subseteq Way(v, x, y)
    <3>1. ASSUME NEW x \in Members, NEW y \in Members PROVE Way(w, x, y) \subseteq Way(v, x, y)
      <4>1. CASE Said(x, y)
        BY <4>1 DEF Said
      <4>2. CASE v.chan[x][y] = w.chan[x][y]
        BY <4>2 DEF Way
      <4> QED BY <1>3, <4>1, <4>2
    <3> QED BY <3>1
  <2> QED BY <1>4, <2>1 DEF Carries
<1>7. /\ \A m \in Members : \A id : IsOnWay(v, m, id) => IsOnWay(w, m, id)
      /\ \A m \in Members : \A id : HasId(v, m, id) => HasId(w, m, id)
  <2>1. \A id : Numbered(id) # msg
    BY <1>1 DEF Numbered
  <2>2. \A x, m \in Members : \A id : Numbered(id) \in Way(v, x, m) => Numbered(id) \in Way(w, x, m)
    BY <1>4, <2>1
  <2> QED BY <1>2, <2>2 DEF IsOnWay, HasId, Numbered
<1> USE DEF Said
<1>8. WaysOK(v)
  <2>1. ASSUME NEW x \in Members, NEW y \in Members, NEW k \in {"PLAYER_ID", "END_SETTING"}
        PROVE  AtMostOne(v.chan[x][y], k)
    <3>1. AtMostOne(w.chan[x][y], k)
      BY DEF Orderly, WaysOK
    <3>2. CASE v.chan[x][y] = w.chan[x][y]
      BY <3>1, <3>2
    <3>3. CASE Said(x, y) /\ msg.msg # k
      BY <3>1, <3>3, AppendedOnce
    <3>4. CASE Said(x, y) /\ msg.msg = k
      <4>1. k = "END_SETTING" /\ a \notin p.done
        BY <1>1, <3>4
      <4>2. ~Carries(w, x, y, "END_SETTING")
        BY <3>4, <4>1 DEF Follows
      <4>3. \A m \in ToSet(w.chan[x][y]) : m.msg # k
        BY <4>1, <4>2 DEF Carries, Way
      <4> QED BY <3>4, <4>3, AppendedOnce
    <3> QED BY <1>3, <3>2, <3>3, <3>4
  <2>2. \A c \in Clients, y \in Members : \A m \in Way(v, c, y) :
          m.msg \notin {"PLAYER_ID", "ACCEPT_NEW_PLAYER", "START_GAME"}
    BY <1>1, <1>4 DEF Orderly, WaysOK
  <2> QED BY <2>1, <2>2 DEF WaysOK
<1>9. SelvesOK(v)
  <2>1. ASSUME NEW c \in Clients
        PROVE  /\ v.peer[c][c] = None /\ v.chan[c][c] = <<>> /\ \A e \in v.pending[c] : e.who # c
               /\ IsAttached(v, c)
               /\ IsEarly(v, c) => Introduced(v.chan[Host][c], c, v.member[c].my_id)
    <3>1. v.chan[c][c] = w.chan[c][c]
      BY <1>3
    <3>2. Leads(w.chan[Host][c], v.chan[Host][c], c)
      <4>1. CASE v.chan[Host][c] = w.chan[Host][c]
        BY <4>1 DEF Leads
      <4>2. CASE Said(Host, c)
        BY <1>1, <4>2, AppendedThin
      <4> QED BY <1>3, <4>1, <4>2
    <3> QED BY <1>2, <3>1, <3>2 DEF Orderly, SelvesOK, IsAttached, IsEarly, Leads
  <2> QED BY <2>1 DEF SelvesOK
<1>10. NumbersOK(v)
  <2>1. \A c \in Clients : IsNew(v, c) => IsNew(w, c)
    BY <1>1, <1>2, <1>5 DEF IsNew
  <2> QED BY <1>2, <1>7, <2>1 DEF Orderly, NumbersOK, HasLeft
<1>11. Follows(v, q)
  <2>1. \A m \in Members : /\ Setting(v, m) <=> Setting(w, m)
                           /\ HasLeft(v, m) <=> HasLeft(w, m)
    BY <1>2 DEF Setting, HasLeft
  <2>2. Plays(v, q.list)
    <3>1. \A m \in Members : Setting(v, m) => v.member[m].nations = q.list
      BY <1>1, <1>2, <2>1 DEF Follows, Plays
    <3>2. \A x, y \in Members : \A m \in Way(v, x, y) : m.msg = "START_GAME" => m.list = q.list
      BY <1>1, <1>4 DEF Follows, Plays
    <3> QED BY <3>1, <3>2 DEF Plays
  <2>3. /\ \A m \in Members : Setting(v, m) => m \in q.done \cup q.busy
        /\ \A m \in q.done \cup q.busy : Setting(v, m) \/ HasLeft(v, m)
    BY <1>1, <2>1 DEF Follows, PlanOK, Plans
  <2>4. /\ \A m \in Members, id \in Ids : HasId(v, m, id) /\ ~HasLeft(v, m) => q.id[m] = id
        /\ \A c \in Clients, id \in Ids : IsOnWay(v, c, id) /\ ~HasLeft(v, c) => id \notin ToSet(q.list)
    BY <1>1, <1>7, <2>1 DEF Follows
  <2>5. \A x, y \in Members : Carries(v, x, y, "END_SETTING") => x \in q.done /\ x # y
    <3>1. ASSUME NEW x \in Members, NEW y \in Members, Carries(v, x, y, "END_SETTING")
          PROVE  x \in q.done /\ x # y
      <4>1. CASE Carries(w, x, y, "END_SETTING")
        BY <1>1, <4>1 DEF Follows
      <4>2. CASE ~Carries(w, x, y, "END_SETTING")
        <5>1. msg.msg = "END_SETTING" /\ x = a /\ y # a
          BY <1>4, <3>1, <4>2 DEF Carries
        <5> QED BY <1>1, <5>1
      <4> QED BY <4>1, <4>2
    <3> QED BY <3>1
  <2>6. ASSUME NEW m \in Members, ~HasLeft(v, m)
        PROVE  v.member[m].ended <= Cardinality(HeardOf(v, q.done, m))
    <3> DEFINE H == HeardOf(w, p.done, m)
               K == HeardOf(v, q.done, m)
    <3>1. ASSUME NEW n \in H PROVE n \in K
      <4>1. n \in p.done /\ n # m /\ ~Carries(w, n, m, "END_SETTING") /\ n \in q.done /\ n \in Members
        BY <1>1 DEF HeardOf, PlanOK, Plans
      <4>2. ~Carries(v, n, m, "END_SETTING")
        BY <1>1, <1>4, <4>1 DEF Carries
      <4> QED BY <4>1, <4>2 DEF HeardOf
    <3>2. K \subseteq Members
      BY <1>1 DEF HeardOf, PlanOK, Plans
    <3>3. v.member[m].ended <= Cardinality(H)
      BY <1>2, <2>1, <2>6 DEF Follows
    <3> HIDE DEF H, K
    <3>4. IsFiniteSet(K)
      BY <3>2, FS_Subset
    <3>5. /\ Cardinality(H) <= Cardinality(K) /\ IsFiniteSet(H)
      BY <3>1, <3>4, FS_Subset
    <3>6. Cardinality(H) \in Nat /\ Cardinality(K) \in Nat
      BY <3>4, <3>5, FS_CardinalityType
    <3>7. v.member[m].ended \in Nat
      BY <1>2, Parts DEF MemberRecords
    <3>8. v.member[m].ended <= Cardinality(K)
      BY <3>3, <3>5, <3>6, <3>7
    <3> QED BY <3>8 DEF K
  <2>7. \A m, n \in Members : v.member[m].phase = "playing" /\ v.member[n].my_id \in ToSet(q.list)
          => Setting(v, n)
    BY <1>1, <1>2, <2>1 DEF Follows
  <2> QED BY <2>2, <2>3, <2>4, <2>5, <2>6, <2>7 DEF Follows
<1> QED BY <1>1, <1>8, <1>9, <1>10, <1>11 DEF Orderly

\* What a member does that has begun to set up the game: it leaves those alone it has not
\* accepted, the host tells the others, and all are told when it is done.
LEMMA SetUpGoes ==
  ASSUME NEW s, NEW p, IInv(s), Course(s, p), ~InLobby(s), NEW a \in Members, p.busy = {a},
         s.member[a].phase = "setting",
         NEW closed, closed = disable_new_connections(s, a),
         NEW told, told = IF a = Host THEN Broadcast(closed, a, StartOf(p.list)) ELSE closed,
         NEW v, v = Broadcast(told, a, HasSetUp)
  PROVE  OnCourse(v)
<1> USE TheMembers
<1>1. PlanOK(p) /\ p \in Plans /\ p.list \in Seq(Ids)
  BY DEF Course, PlanOK, Plans
<1>2. ~IsOut(s, a) /\ s.member[Host].phase # "lobby"
  BY DEF IsOut, InLobby
<1>3. /\ IInv(closed) /\ closed.member = s.member
      /\ \A list : Plays(s, list) => Plays(closed, list)
  BY <1>2, HostCloses, CloseIsCalm
<1>4. Course(closed, p) /\ ~InLobby(closed)
  <2>1. Mute(s, closed)
    BY ClosingIsMute
  <2>2. Course(closed, p)
    BY <1>3, <2>1, MuteKeeps
  <2> QED BY <1>3, <2>2 DEF InLobby
<1>5. Orderly(closed) /\ Follows(closed, p)
  BY <1>4 DEF Course
<1>6. closed.peer[a][a] = None
  BY <1>3, <1>5 DEF IInv, HostOK, Orderly, SelvesOK
<1>7. /\ IInv(told) /\ told.member = s.member /\ told.peer[a][a] = None
      /\ Orderly(told) /\ Follows(told, p)
  <2>1. CASE a = Host
    <3>1. told = Broadcast(closed, a, StartOf(p.list))
      BY <2>1
    <3>2. Says(p, p, a, StartOf(p.list))
      BY <1>1, <2>1 DEF Says
    <3>3. Orderly(told) /\ Follows(told, p)
      BY <1>1, <1>3, <1>5, <1>6, <3>1, <3>2, Tells
    <3>4. Plays(closed, p.list) /\ closed.member[Host].phase # "lobby"
      BY <1>4, <1>5 DEF Follows, InLobby
    <3>5. IInv(told) /\ told.member = closed.member
      BY <1>1, <1>3, <2>1, <3>1, <3>4, GameAnnounced DEF StartOf
    <3>6. told.peer[a][a] = None
      BY <2>1, <3>5 DEF IInv, HostOK
    <3> QED BY <1>3, <3>3, <3>5, <3>6
  <2>2. CASE a # Host
    BY <1>3, <1>5, <1>6, <2>2
  <2> QED BY <2>1, <2>2
<1> DEFINE q == [p EXCEPT !.done = p.done \cup {a}, !.busy = p.busy \ {a}]
<1>8. q \in Plans /\ q.busy = {} /\ Says(p, q, a, HasSetUp)
  BY <1>1 DEF Says, Plans
<1> HIDE DEF q
<1>9. Orderly(v) /\ Follows(v, q) /\ PlanOK(q)
  BY <1>1, <1>7, <1>8, Tells
<1>10. v.member = told.member
  <2>1. \A b \in Members \ {a} : HasSetUp \in Understood(b)
    BY <1>1, <1>8, SaysIs
  <2> QED BY <1>7, <2>1, SaidIs
<1>11. ~InLobby(v)
  BY <1>7, <1>10 DEF InLobby
<1>12. Course(v, q)
  BY <1>9, <1>11 DEF Course
<1> QED BY <1>8, <1>12 DEF OnCourse

\* A client in the lobby begins to set up the game the host has begun.
LEMMA ClientBegins ==
  ASSUME NEW w, NEW p, IInv(w), Course(w, p), ~InLobby(w), p.busy = {}, NEW c \in Clients,
         w.member[c].phase = "lobby", Contains(p.list, w.member[c].my_id),
         NEW s, s = [w EXCEPT !.member[c].phase = "setting", !.member[c].nations = p.list]
  PROVE  LET q == [p EXCEPT !.busy = {c}]
         IN  IInv(s) /\ Course(s, q) /\ s.member[c].phase = "setting" /\ ~InLobby(s)
<1> USE TheMembers
<1> DEFINE q == [p EXCEPT !.busy = {c}]
<1>1. PlanOK(p) /\ p \in Plans /\ p.list \in Seq(Ids) /\ Orderly(w) /\ Follows(w, p)
  BY DEF Course, PlanOK, Plans
<1>2. ~IsOut(w, c) /\ w.member[Host].phase # "lobby" /\ Plays(w, p.list)
  BY <1>1 DEF IsOut, InLobby, Follows
<1>3. IInv(s)
  BY <1>1, <1>2, ClientStarts
<1>4. /\ IsWorld(w) /\ MembersTyped(w.member) /\ w.member[c] \in MemberRecords
  BY Parts DEF IInv, TypeOK
<1> DEFINE r == [w.member[c] EXCEPT !.phase = "setting", !.nations = p.list]
           fm == [w.member EXCEPT ![c] = r]
<1>5. s = [w EXCEPT !.member = fm]
  BY <1>4 DEF IsWorld, MembersTyped, MemberRecords
<1>6. /\ fm[c] = r /\ (\A m \in Members : m # c => fm[m] = w.member[m])
      /\ r.phase = "setting" /\ r.my_id = w.member[c].my_id
      /\ r.nations = p.list /\ r.ended = w.member[c].ended
  BY <1>4 DEF MembersTyped, MemberRecords
<1> HIDE DEF fm, r
<1>7. s.member = fm /\ s.peer = w.peer /\ s.pending = w.pending /\ s.chan = w.chan /\ s.lobby = w.lobby
  <2>1. LET u == [w EXCEPT !.member = fm]
        IN  u.member = fm /\ u.peer = w.peer /\ u.pending = w.pending /\ u.chan = w.chan
            /\ u.lobby = w.lobby
    BY <1>4, MemberSet
  <2> QED BY <1>5, <2>1
<1>8. \A m \in Members : /\ m # c => s.member[m] = w.member[m]
                         /\ s.member[m].my_id = w.member[m].my_id
                         /\ s.member[m].ended = w.member[m].ended
  BY <1>6, <1>7
<1>9. s.member[c].phase = "setting" /\ s.member[c].nations = p.list
  BY <1>6, <1>7
<1>10. /\ \A x, y \in Members : Way(s, x, y) = Way(w, x, y)
       /\ \A x, y \in Members : \A k : Carries(s, x, y, k) <=> Carries(w, x, y, k)
       /\ \A m \in Members : \A id : HasId(s, m, id) <=> HasId(w, m, id)
       /\ \A m \in Members : \A id : IsOnWay(s, m, id) <=> IsOnWay(w, m, id)
       /\ \A m \in Members : HasLeft(s, m) <=> HasLeft(w, m)
       /\ \A m \in Members : Setting(w, m) => Setting(s, m) /\ m # c
       /\ \A m \in Members : Setting(s, m) => Setting(w, m) \/ m = c
       /\ \A m \in Members : IsEarly(s, m) => IsEarly(w, m)
       /\ \A m \in Clients : IsNew(s, m) => IsNew(w, m)
  <2>1. \A x, y \in Members : Way(s, x, y) = Way(w, x, y)
    BY <1>7 DEF Way
  <2>2. \A x, y \in Members : \A k : Carries(s, x, y, k) <=> Carries(w, x, y, k)
    BY <2>1 DEF Carries
  <2>3. \A m \in Members : \A id : /\ HasId(s, m, id) <=> HasId(w, m, id)
                                   /\ IsOnWay(s, m, id) <=> IsOnWay(w, m, id)
    BY <1>8, <2>1 DEF HasId, IsOnWay
  <2>4. \A m \in Members : /\ HasLeft(s, m) <=> HasLeft(w, m)
                           /\ Setting(w, m) => Setting(s, m) /\ m # c
                           /\ Setting(s, m) => Setting(w, m) \/ m = c
                           /\ IsEarly(s, m) => IsEarly(w, m)
    BY <1>8, <1>9 DEF HasLeft, Setting, IsEarly
  <2>5. \A m \in Clients : IsNew(s, m) => IsNew(w, m)
    BY <1>8, <1>9, <2>2 DEF IsNew
  <2> QED BY <2>1, <2>2, <2>3, <2>4, <2>5
<1>11. /\ q \in Plans /\ q.busy = {c} /\ q.list = p.list /\ q.id = p.id /\ q.done = p.done
       /\ p.done \in SUBSET Members
  BY <1>1 DEF Plans
<1> HIDE DEF q
<1>12. c \notin p.done
  BY <1>1 DEF Follows, Setting, HasLeft
<1>13. PlanOK(q)
  <2>1. w.member[c].my_id \in ToSet(p.list)
    BY DEF Contains, ToSet
  <2>2. w.member[c].my_id \in Ids
    BY <1>1, <2>1, MembersOfSeq DEF Ids
  <2>3. p.id[c] = w.member[c].my_id
    BY <1>1, <2>2 DEF Follows, HasId, HasLeft
  <2> QED BY <1>1, <1>11, <1>12, <2>1, <2>3 DEF PlanOK
<1>14. WaysOK(s)
  BY <1>1, <1>7, <1>10 DEF Orderly, WaysOK
<1>15. SelvesOK(s)
  <2>1. \A d \in Clients : IsAttached(w, d) => IsAttached(s, d)
    BY <1>7, <1>8, <1>9 DEF IsAttached
  <2> QED BY <1>1, <1>7, <1>8, <1>10, <2>1 DEF Orderly, SelvesOK
<1>16. NumbersOK(s)
  BY <1>1, <1>8, <1>10 DEF Orderly, NumbersOK
<1>17. Follows(s, q)
  <2>1. Plays(s, q.list)
    <3>1. \A m \in Members : Setting(s, m) => s.member[m].nations = q.list
      BY <1>2, <1>8, <1>9, <1>10, <1>11 DEF Plays
    <3> QED BY <1>2, <1>10, <1>11, <3>1 DEF Plays
  <2>2. /\ \A m \in Members : Setting(s, m) => m \in q.done \cup q.busy
        /\ \A m \in q.done \cup q.busy : Setting(s, m) \/ HasLeft(s, m)
    <3>1. \A m \in Members : Setting(s, m) => m \in q.done \cup q.busy
      BY <1>1, <1>10, <1>11 DEF Follows
    <3>2. Setting(s, c)
      BY <1>9 DEF Setting
    <3>3. \A m \in p.done : Setting(s, m) \/ HasLeft(s, m)
      BY <1>1, <1>10, <1>11 DEF Follows
    <3> QED BY <1>11, <3>1, <3>2, <3>3
  <2>3. /\ \A m \in Members, id \in Ids : HasId(s, m, id) /\ ~HasLeft(s, m) => q.id[m] = id
        /\ \A d \in Clients, id \in Ids : IsOnWay(s, d, id) /\ ~HasLeft(s, d) => id \notin ToSet(q.list)
        /\ \A x, y \in Members : Carries(s, x, y, "END_SETTING") => x \in q.done /\ x # y
    BY <1>1, <1>10, <1>11 DEF Follows
  <2>4. \A m \in Members : ~HasLeft(s, m) => s.member[m].ended <= Cardinality(HeardOf(s, q.done, m))
    <3>1. \A m \in Members : HeardOf(s, q.done, m) = HeardOf(w, p.done, m)
      BY <1>10, <1>11 DEF HeardOf
    <3> QED BY <1>1, <1>8, <1>10, <3>1 DEF Follows
  <2>5. \A m, n \in Members : s.member[m].phase = "playing" /\ s.member[n].my_id \in ToSet(q.list)
          => Setting(s, n)
    <3>1. \A m \in Members : s.member[m].phase = "playing" => w.member[m].phase = "playing"
      BY <1>8, <1>9
    <3> QED BY <1>1, <1>8, <1>10, <1>11, <3>1 DEF Follows
  <2> QED BY <2>1, <2>2, <2>3, <2>4, <2>5 DEF Follows
<1>18. ~InLobby(s)
  BY <1>8 DEF InLobby
<1>19. Course(s, q)
  BY <1>13, <1>14, <1>15, <1>16, <1>17, <1>18 DEF Course, Orderly
<1> QED BY <1>3, <1>9, <1>18, <1>19 DEF q

\* A client in the lobby sets up the game the host has begun.
LEMMA ClientSetUp ==
  ASSUME NEW w, NEW p, IInv(w), Course(w, p), ~InLobby(w), p.busy = {}, NEW c \in Clients,
         w.member[c].phase = "lobby", Contains(p.list, w.member[c].my_id)
  PROVE  OnCourse(SetUp(w, c, p.list))
<1> DEFINE s == [w EXCEPT !.member[c].phase = "setting", !.member[c].nations = p.list]
           q == [p EXCEPT !.busy = {c}]
           closed == disable_new_connections(s, c)
<1>1. IInv(s) /\ Course(s, q) /\ s.member[c].phase = "setting" /\ ~InLobby(s)
  BY ClientBegins
<1>2. q.busy = {c} /\ q.list = p.list
  BY DEF Course, PlanOK, Plans
<1>3. c \in Members /\ c # Host
  BY TheMembers
<1>4. SetUp(w, c, p.list) = Broadcast(closed, c, HasSetUp)
  BY <1>3 DEF SetUp, HasSetUp
<1> HIDE DEF s, q
<1>5. closed = IF c = Host THEN Broadcast(closed, c, StartOf(q.list)) ELSE closed
  BY <1>3
<1> QED BY <1>1, <1>2, <1>3, <1>4, <1>5, SetUpGoes

\* A plan with nobody about to speak
LEMMA OnCourseBy ==
  ASSUME NEW w, NEW v, NEW p, IInv(w), IInv(v), Course(w, p), p.busy = {}, Mute(w, v)
  PROVE  OnCourse(v)
<1>1. Course(v, p)
  BY MuteKeeps
<1>2. p \in Plans
  BY DEF Course, PlanOK
<1> QED BY <1>1, <1>2 DEF OnCourse

\* What the lobby of a client understands, apart from its id and the reports, matters to nobody
\* unless it begins to set up the game.
LEMMA ClientHeard ==
  ASSUME NEW w, NEW p, IInv(w), Course(w, p), p.busy = {}, NEW c \in Clients,
         w.member[c].phase = "lobby", NEW m \in ToClient,
         m.msg \notin {"CONNECT", "DISCONNECT", "PLAYER_ID", "END_SETTING"},
         m.msg = "ACCEPT_NEW_PLAYER" /\ m.id # w.member[c].my_id => m.who # c,
         m.msg = "START_GAME" => ~InLobby(w) /\ m.list = p.list,
         NEW v \in ClientHears(w, c, m), IInv(v)
  PROVE  OnCourse(v)
<1>1. w.member[c].phase # "out" /\ ~IsOut(w, c) /\ c \in Members /\ SelvesOK(w)
  BY TheMembers DEF IsOut, Course, Orderly
<1>2. ASSUME Mute(w, v) PROVE OnCourse(v)
  BY <1>2, OnCourseBy
<1>3. CASE m.msg = "ACCEPT_NEW_PLAYER"
  <2>1. m.id \in Ids /\ m.who \in Members /\ (m.who = Host => m.id = 1)
    BY <1>3, ToClientHolds
  <2> DEFINE u == add_player(w, c, m.id, m.who, m.contact)
  <2>2. v = w \/ (m.id # w.member[c].my_id /\ v = Registered(u, c, m.id))
    BY <1>3 DEF ClientHears
  <2>3. m.id # w.member[c].my_id => Mute(w, u)
    BY <1>1, <1>3, <2>1, AddPlayerIsMute
  <2>4. IInv(u)
    BY <1>1, <2>1, AddPlayerIsCalm
  <2> HIDE DEF u
  <2>5. Mute(u, Registered(u, c, m.id))
    BY <1>1, <2>4, RegisteringIsMute
  <2>6. Mute(w, v)
    BY <2>2, <2>3, <2>5, MuteTwice, NothingIsMute
  <2> QED BY <1>2, <2>6
<1>4. CASE m.msg = "PLAYER_DISCONNECT"
  <2>1. m.id \in Ids \ {1}
    BY <1>4, ToClientHolds
  <2> DEFINE u == delete_player(w, c, m.id)
  <2>2. v = Unregistered(u, c, m.id)
    BY <1>4 DEF ClientHears
  <2>3. Mute(w, u)
    BY <1>1, <2>1, DeletePlayerIsMute
  <2>4. IInv(u)
    BY <1>1, <2>1, DeletePlayerIsCalm
  <2> HIDE DEF u
  <2>5. Mute(u, Unregistered(u, c, m.id))
    BY <1>1, <2>4, RegisteringIsMute
  <2>6. Mute(w, v)
    BY <2>2, <2>3, <2>5, MuteTwice
  <2> QED BY <1>2, <2>6
<1>5. CASE m.msg = "ACCEPT_COLOR"
  <2>1. v = [w EXCEPT !.member[c].colour = m.colour]
    BY <1>5 DEF ClientHears
  <2>2. Mute(w, [w EXCEPT !.member[c].colour = m.colour])
    BY <1>1, ClientRecordMute
  <2> QED BY <1>2, <2>1, <2>2
<1>6. CASE m.msg = "REFUSE_COLOR"
  <2>1. v = w
    BY <1>6 DEF ClientHears
  <2> QED BY <1>2, <2>1, NothingIsMute
<1>7. CASE m.msg \in {"REFUSE_NEW_PLAYER", "ABORT_GAME"}
  <2>1. v = Box(w, c)
    BY <1>7 DEF ClientHears
  <2>2. Mute(w, Box(w, c))
    BY <1>1, ClientRecordMute
  <2> QED BY <1>2, <2>1, <2>2
<1>8. CASE m.msg = "START_GAME"
  <2>1. IF Contains(p.list, w.member[c].my_id) THEN v = SetUp(w, c, p.list) ELSE v = Gone(w, c)
    BY <1>8 DEF ClientHears
  <2>2. CASE Contains(p.list, w.member[c].my_id)
    <3>1. OnCourse(SetUp(w, c, p.list))
      BY <1>8, <2>2, ClientSetUp
    <3> QED BY <2>1, <2>2, <3>1
  <2>3. CASE ~Contains(p.list, w.member[c].my_id)
    <3>1. Mute(w, Gone(w, c))
      BY ClientGoneIsMute
    <3> QED BY <1>2, <2>1, <2>3, <3>1
  <2> QED BY <2>2, <2>3
<1> QED BY <1>3, <1>4, <1>5, <1>6, <1>7, <1>8, ToClientHolds

\* A client that takes a message stays on course.
LEMMA ClientTakes ==
  ASSUME NEW w, NEW p, IInv(w), Course(w, p), p.busy = {}, NEW c \in Clients,
         w.member[c].phase \in {"joining", "lobby", "box", "setting"},
         NEW b \in Members, w.chan[b][c] # <<>>,
         NEW t, t = [w EXCEPT !.chan[b][c] = Tail(@)],
         NEW v \in Handled(t, c, b, Head(w.chan[b][c])), IInv(v)
  PROVE  OnCourse(v)
<1> DEFINE m == Head(w.chan[b][c])
<1>1. c \in Members /\ c # Host /\ IsWorld(w) /\ p \in Plans
  BY TheMembers, Parts DEF Course, PlanOK
<1>2. IInv(t) /\ m \in Way(w, b, c)
  BY <1>1, TakingIsCalm
<1>3. t.member = w.member /\ t.peer = w.peer /\ t.pending = w.pending /\ t.lobby = w.lobby
  BY <1>1 DEF IsWorld
<1>4. /\ m.msg = "START_GAME" => w.member[Host].phase # "lobby" /\ Plays(w, m.list)
      /\ m.msg = "PLAYER_ID" => m.id \in Ids /\ HasId(w, c, m.id) /\ m = Numbered(m.id)
      /\ m \in ToClient
  <2>1. /\ m.msg = "START_GAME" => w.member[Host].phase # "lobby" /\ Plays(w, m.list)
        /\ m.msg = "PLAYER_ID" => m.id \in Ids /\ HasId(w, c, m.id)
        /\ m \in ToClient
    BY <1>2, WhatClientsHear
  <2>2. m.msg = "PLAYER_ID" => m = [msg |-> "PLAYER_ID", id |-> m.id]
    BY <2>1, ToClientHolds
  <2> QED BY <2>1, <2>2 DEF Numbered
<1>5. Orderly(w) /\ b # c
  <2>1. Orderly(w)
    BY DEF Course
  <2> QED BY <2>1 DEF Orderly, SelvesOK
<1>6. /\ IInv(w) /\ Course(w, p) /\ c \in Clients /\ b \in Members /\ w.chan[b][c] # <<>>
  OBVIOUS
<1>7. CASE m.msg = "PLAYER_ID" /\ b = Host /\ IsEarly(w, c)
  <2>1. w.member[c].phase = "lobby"
    <3>1. HasId(w, c, m.id) /\ m.id \in Ids
      BY <1>4, <1>7
    <3>2. ~IsNew(w, c)
      BY <1>5, <3>1 DEF Orderly, NumbersOK
    <3> QED BY <1>7, <3>2 DEF IsNew, IsEarly
  <2>2. t.peer[c][b] # None
    BY <1>3, <1>5, <1>7, <2>1 DEF Orderly, SelvesOK, IsAttached
  <2>3. v = [t EXCEPT !.member[c].my_id = m.id, !.member[c].reg = Append(@, m.id)]
    BY <1>1, <1>3, <1>7, <2>1, <2>2 DEF Handled, ClientHears, m
  <2>4. IsWorld(t) /\ MembersTyped(t.member) /\ t.member[c] \in MemberRecords
    BY <1>1, <1>2, Parts DEF IInv, TypeOK
  <2>5. t.chan = [w.chan EXCEPT ![b][c] = Tail(w.chan[b][c])]
    BY <1>1 DEF IsWorld
  <2> HIDE DEF m
  <2> DEFINE id == m.id
             r == [t.member[c] EXCEPT !.my_id = id, !.reg = Append(t.member[c].reg, id)]
             fm == [t.member EXCEPT ![c] = r]
  <2>6. v = [t EXCEPT !.member = fm]
    BY ONLY <1>1, <2>3, <2>4 DEF IsWorld, MembersTyped, MemberRecords
  <2>7. /\ fm[c] = r /\ (\A x \in Members : x # c => fm[x] = t.member[x])
        /\ r.phase = t.member[c].phase /\ r.my_id = id /\ r.ended = t.member[c].ended
    BY <1>1, <2>4 DEF MembersTyped, MemberRecords
  <2> HIDE DEF fm, r
  <2>8. v.member = fm /\ v.peer = t.peer /\ v.pending = t.pending /\ v.chan = t.chan /\ v.lobby = t.lobby
    <3>1. LET u == [t EXCEPT !.member = fm]
          IN  u.member = fm /\ u.peer = t.peer /\ u.pending = t.pending /\ u.chan = t.chan
              /\ u.lobby = t.lobby
      BY <2>4, MemberSet
    <3> QED BY <2>6, <3>1
  <2>9. id \in Ids /\ Head(w.chan[b][c]) = Numbered(id)
    BY <1>4, <1>7 DEF m
  <2> HIDE DEF id
  <2>10. /\ v.chan = [w.chan EXCEPT ![b][c] = Tail(w.chan[b][c])]
         /\ v.peer = w.peer /\ v.pending = w.pending /\ v.lobby = w.lobby
         /\ \A x \in Members : x # c => v.member[x] = w.member[x]
         /\ v.member[c].phase = "lobby" /\ v.member[c].my_id = id
         /\ v.member[c].ended = w.member[c].ended
    BY <1>3, <2>1, <2>5, <2>7, <2>8
  <2>11. Course(v, p)
    BY ONLY <1>6, <2>1, <2>9, <2>10, NumberTaken
  <2> QED BY <1>1, <2>11 DEF OnCourse
<1>8. CASE ~(m.msg = "PLAYER_ID" /\ b = Host /\ IsEarly(w, c))
  <2>1. Mute(w, t)
    BY <1>1, <1>8, TakingIsMute
  <2>2. Course(t, p)
    BY <1>2, <2>1, MuteKeeps
  <2>3. ~IsOut(t, c) /\ t.member[c].phase \in {"joining", "lobby", "box", "setting"}
    BY <1>3 DEF IsOut
  <2>4. SelvesOK(t)
    BY <2>2 DEF Course, Orderly
  <2>5. ASSUME Mute(t, v) PROVE OnCourse(v)
    BY <1>2, <2>2, <2>5, OnCourseBy
  <2> DEFINE from == IF t.peer[c][b] # None THEN t.peer[c][b].id ELSE 0
  <2>6. CASE m.msg = "CONNECT"
    <3> DEFINE u == Connected(t, c, b)
    <3>1. v \in LobbyConnects(u, c, b)
      BY <2>6 DEF Handled, m
    <3>2. IInv(u)
      <4>1. IsPregame(t, c) \/ t.member[Host].phase # "lobby"
        <5>1. t.member[c].phase = "setting" => ~(t.member[Host].phase = "lobby")
          BY <1>1, <1>2 DEF IInv, GameOK, NotStarted, Setting
        <5> QED BY <2>3, <5>1 DEF IsPregame
      <4> QED BY <1>2, <2>3, <4>1, ClientConnected
    <3>3. Mute(t, u)
      BY <1>2, <1>5, <2>3, <2>4, ConnectedIsMute
    <3> HIDE DEF u
    <3>4. Mute(u, v)
      BY <3>1, <3>2, AskingIsMute
    <3>5. Mute(t, v)
      BY <3>3, <3>4, MuteTwice
    <3> QED BY <2>5, <3>5
  <2>7. CASE m.msg = "DISCONNECT"
    <3>1. v \in LobbyDisconnects(Disconnected(t, c, b), c, from)
      BY <2>7 DEF Handled, m
    <3>2. from = IF t.peer[c][b] # None THEN t.peer[c][b].id ELSE 0
      OBVIOUS
    <3> HIDE DEF from
    <3>3. Mute(t, v)
      BY ONLY <1>2, <1>5, <1>6, <2>3, <2>4, <3>1, <3>2, ClientLosesIsMute
    <3> QED BY <2>5, <3>3
  <2>8. ASSUME m.msg = "END_SETTING", v = [t EXCEPT !.member[c].ended = @ + 1]
        PROVE  OnCourse(v)
    <3>1. ~HasLeft(w, c)
      BY DEF HasLeft
    <3>2. Course(v, p)
      BY <1>1, <2>8, <3>1, EndIsCounted
    <3> QED BY <1>1, <3>2 DEF OnCourse
  <2>9. CASE m.msg \notin {"CONNECT", "DISCONNECT"} /\ t.peer[c][b] # None /\ t.member[c].phase = "lobby"
    <3>1. v \in ClientHears(t, c, m)
      BY <1>1, <2>9 DEF Handled, m
    <3>2. m.msg = "START_GAME" => ~InLobby(t) /\ m.list = p.list
      <4>1. ASSUME m.msg = "START_GAME" PROVE ~InLobby(w)
        BY <1>4, <4>1 DEF InLobby
      <4>2. ASSUME ~InLobby(w), m.msg = "START_GAME" PROVE m.list = p.list
        BY <1>1, <1>2, <4>2 DEF Course, Follows, Plays
      <4> QED BY <1>3, <4>1, <4>2 DEF InLobby
    <3>3. m.msg = "ACCEPT_NEW_PLAYER" /\ m.id # t.member[c].my_id => m.who # c
      <4>1. ASSUME m.msg = "ACCEPT_NEW_PLAYER", m.who = c PROVE m.id = w.member[c].my_id
        <5>1. b = Host
          BY <1>2, <1>5, <4>1, TheMembers DEF Orderly, WaysOK
        <5>2. Introduced(w.chan[Host][c], c, w.member[c].my_id)
          BY <1>3, <1>5, <2>9 DEF Orderly, SelvesOK, IsEarly
        <5>3. w.chan[b][c] \in Seq(Understood(c))
          BY <1>1, Parts
        <5>4. 1 \in DOMAIN w.chan[b][c] /\ w.chan[b][c][1] = m
          BY <5>3
        <5>5. m.id = w.member[c].my_id \/ \E i \in 1..(1 - 1) : w.chan[Host][c][i] = Numbered(m.id)
          BY <4>1, <5>1, <5>2, <5>4 DEF Introduced
        <5> QED BY <5>5
      <4> QED BY <1>3, <4>1
    <3>4. m.msg \in {"PLAYER_ID", "END_SETTING"} \/ m.msg \notin {"CONNECT", "DISCONNECT", "PLAYER_ID", "END_SETTING"}
      BY <2>9
    <3>5. CASE m.msg = "PLAYER_ID"
      <4>1. b = Host
        BY <1>2, <1>5, <3>5, TheMembers DEF Orderly, WaysOK
      <4> QED BY <1>3, <1>8, <2>9, <3>5, <4>1 DEF IsEarly
    <3>6. CASE m.msg = "END_SETTING"
      <4>1. v = [t EXCEPT !.member[c].ended = @ + 1]
        BY <3>1, <3>6 DEF ClientHears
      <4> QED BY <2>8, <3>6, <4>1
    <3>7. CASE m.msg \notin {"CONNECT", "DISCONNECT", "PLAYER_ID", "END_SETTING"}
      <4> HIDE DEF m
      <4> QED BY <1>2, <1>4, <2>2, <2>9, <3>1, <3>2, <3>3, <3>7, ClientHeard
    <3> QED BY <3>4, <3>5, <3>6, <3>7
  <2>10. CASE /\ m.msg \notin {"CONNECT", "DISCONNECT"}
              /\ t.peer[c][b] # None /\ t.member[c].phase = "setting" /\ m.msg = "END_SETTING"
    <3>1. v = [t EXCEPT !.member[c].ended = @ + 1]
      BY <2>10 DEF Handled, m
    <3> QED BY <2>8, <2>10, <3>1
  <2>11. CASE /\ m.msg \notin {"CONNECT", "DISCONNECT"}
              /\ ~(t.peer[c][b] # None /\ t.member[c].phase = "lobby")
              /\ ~(t.peer[c][b] # None /\ t.member[c].phase = "setting" /\ m.msg = "END_SETTING")
    <3>1. v = t
      BY <2>11 DEF Handled, m
    <3> QED BY <2>5, <3>1, NothingIsMute
  <2> QED BY <2>6, <2>7, <2>9, <2>10, <2>11
<1> QED BY <1>7, <1>8

---------------------------------------------------------------------------
(* Nobody is ahead: what the host does in the lobby.                       *)

\* Only what the host keeps for itself changes, and nobody else is ready for it.
LEMMA HostAloneMute ==
  ASSUME NEW w, NEW v, v.chan = w.chan, v.lobby.ready \subseteq w.lobby.ready \cup {1},
         Passive(w.member[Host], v.member[Host]),
         \A c \in Clients :
           v.member[c] = w.member[c] /\ v.peer[c] = w.peer[c] /\ v.pending[c] = w.pending[c]
  PROVE  Mute(w, v)
<1> USE TheMembers
<1>1. \A m \in Members : Passive(w.member[m], v.member[m])
  BY DEF Passive
<1>2. \A d \in Clients : Aside(w, v, d)
  BY DEF Aside, IsAttached
<1> QED BY <1>1, <1>2, ChansStay, MuteBy

\* What the host forgets when a player has left
LEMMA ForgottenIs ==
  ASSUME NEW w, TypeOK(w), NEW id
  PROVE  LET v == Forgotten(w, id)
         IN  /\ v.chan = w.chan /\ v.peer = w.peer /\ v.pending = w.pending
             /\ v.lobby.ready \subseteq w.lobby.ready
             /\ Passive(w.member[Host], v.member[Host])
             /\ \A c \in Clients : v.member[c] = w.member[c]
<1> USE TheMembers
<1> DEFINE reg == RemoveFirst(w.member[Host].reg, id)
           r == [w.member[Host] EXCEPT !.reg = reg]
           fm == [w.member EXCEPT ![Host] = r]
           x == [w EXCEPT !.member = fm]
           v == Forgotten(w, id)
<1>1. /\ IsWorld(w) /\ MembersTyped(w.member) /\ LobbyTyped(w.lobby) /\ w.member[Host] \in MemberRecords
  BY DEF TypeOK, MembersTyped
<1>2. Unregistered(w, Host, id) = x
  BY <1>1 DEF Unregistered, IsWorld, MembersTyped, MemberRecords
<1>3. /\ Passive(w.member[Host], fm[Host])
      /\ \A c \in Clients : fm[c] = w.member[c]
  <2>1. Passive(w.member[Host], r)
    BY <1>1 DEF MemberRecords, Passive
  <2> HIDE DEF r
  <2> QED BY <1>1, <2>1 DEF MembersTyped
<1> HIDE DEF fm
<1>4. /\ IsWorld(x) /\ x.member = fm /\ x.peer = w.peer /\ x.pending = w.pending
      /\ x.chan = w.chan /\ x.lobby = w.lobby
  BY <1>1, MemberSet
<1> HIDE DEF x
<1> DEFINE new == [k \in DOMAIN w.lobby.colour \ {id} |-> w.lobby.colour[k]]
           free == IF id \in DOMAIN w.lobby.colour THEN w.lobby.assigned \ {w.lobby.colour[id]}
                   ELSE w.lobby.assigned
           l == [colour |-> new, assigned |-> free, ready |-> w.lobby.ready \ {id}]
<1>5. v = [x EXCEPT !.lobby = l]
  <2>1. w.lobby = [colour |-> w.lobby.colour, assigned |-> w.lobby.assigned, ready |-> w.lobby.ready]
    BY <1>1 DEF LobbyTyped
  <2> DEFINE l1 == [w.lobby EXCEPT !.ready = w.lobby.ready \ {id}]
             l2 == [l1 EXCEPT !.colour = new]
             l3 == [l2 EXCEPT !.assigned = free]
  <2>2. Forgotten(w, id) = [x EXCEPT !.lobby = l3]
    <3>1. l1.colour = w.lobby.colour
      BY <2>1
    <3>2. l2.assigned = w.lobby.assigned
      BY <2>1
    <3> HIDE DEF free
    <3>3. Forgotten(w, id) =
            [x EXCEPT !.lobby.ready = @ \ {id}, !.lobby.colour = [k \in DOMAIN @ \ {id} |-> @[k]],
              !.lobby.assigned = IF id \in DOMAIN w.lobby.colour THEN @ \ {w.lobby.colour[id]} ELSE @]
      BY <1>2 DEF Forgotten
    <3> QED BY <1>4, <2>1, <3>3 DEF IsWorld, free
  <2>3. l3 = l
    <3> DEFINE old == w.lobby.colour
               ready == w.lobby.ready \ {id}
    <3> HIDE DEF new, free, old, ready
    <3>1. l1 = [colour |-> old, assigned |-> w.lobby.assigned, ready |-> ready]
      BY <2>1 DEF old, ready
    <3> HIDE DEF l1
    <3>2. l2 = [colour |-> new, assigned |-> w.lobby.assigned, ready |-> ready]
      BY <3>1
    <3> HIDE DEF l2
    <3>3. l3 = [colour |-> new, assigned |-> free, ready |-> ready]
      BY <3>2
    <3> QED BY <3>3 DEF ready
  <2> QED BY <2>2, <2>3
<1>6. l.ready \subseteq w.lobby.ready
  OBVIOUS
<1> HIDE DEF l, v
<1>7. v.lobby = l /\ v.member = x.member /\ v.peer = x.peer /\ v.pending = x.pending /\ v.chan = x.chan
  <2>1. LET u == [x EXCEPT !.lobby = l]
        IN  u.lobby = l /\ u.member = x.member /\ u.peer = x.peer /\ u.pending = x.pending
            /\ u.chan = x.chan
    BY <1>4, LobbySet
  <2> QED BY <1>5, <2>1
<1> QED BY <1>3, <1>4, <1>6, <1>7 DEF v

\* Who is connected to the host
LEMMA HostConnectedMute ==
  ASSUME NEW w, IInv(w), ~IsOut(w, Host), NEW b \in Clients
  PROVE  Mute(w, Connected(w, Host, b))
<1> DEFINE v == Connected(w, Host, b)
<1>1. /\ Host \in Members /\ b \in Members /\ b # Host /\ Host \notin Clients
      /\ IsWorld(w) /\ w.pending[Host] = {} /\ w.peer[Host][b] \in Players \cup {None}
  BY TheMembers, Parts DEF IInv, HostOK
<1>2. ASSUME NEW u, IInv(u), NEW k \in {"CONNECT", "DISCONNECT"}
      PROVE  Mute(u, Put(u, Host, b, [msg |-> k]))
  <2> DEFINE e == [msg |-> k]
  <2>1. e \in Understood(b) /\ Mild(u, Host, b, e)
    BY <1>1, <1>2 DEF Understood, ToClient, Events, Mild
  <2>2. e.msg # "ACCEPT_NEW_PLAYER"
    BY <1>2
  <2> HIDE DEF e
  <2>3. Mute(u, Put(u, Host, b, e))
    BY <1>1, <1>2, <2>1, <2>2, PutIsMute
  <2> QED BY <2>3 DEF e
<1>3. CASE w.peer[Host][b] # None
  <2> DEFINE p == [w.peer[Host][b] EXCEPT !.state = "connected"]
             u == [w EXCEPT !.peer[Host][b] = p]
  <2>1. p \in Players /\ p.id = w.peer[Host][b].id
    <3>1. w.peer[Host][b] \in Players
      BY <1>1, <1>3
    <3> QED BY <3>1 DEF Players
  <2>2. [w EXCEPT !.peer[Host][b].state = "connected"] = u
    BY <1>1 DEF IsWorld, IInv, TypeOK, PeersTyped
  <2> HIDE DEF p
  <2>3. IInv(u)
    <3>1. p.id >= 2
      BY <1>1, <1>3, <2>1 DEF IInv, HostOK
    <3> QED BY <1>3, <2>1, <3>1, HostPeer
  <2>4. v = Put(u, Host, b, [msg |-> "CONNECT"])
    BY <1>3, <2>2 DEF Connected
  <2>5. Mute(w, u)
    BY <1>1, PeerMute
  <2> HIDE DEF u
  <2> QED BY <1>2, <2>3, <2>4, <2>5, MuteTwice
<1>4. CASE w.peer[Host][b] = None /\ IsPregame(w, Host)
  <2> DEFINE d == Player(get_avail_player_id(w), FALSE, "connected")
  <2>1. v = [w EXCEPT !.peer[Host][b] = d]
    BY <1>1, <1>4 DEF Connected
  <2> HIDE DEF d
  <2>2. Mute(w, [w EXCEPT !.peer[Host][b] = d])
    BY <1>1, PeerMute
  <2> QED BY <2>1, <2>2
<1>5. CASE w.peer[Host][b] = None /\ ~IsPregame(w, Host)
  <2>1. v = Put(w, Host, b, [msg |-> "DISCONNECT"])
    BY <1>1, <1>5 DEF Connected
  <2> QED BY <1>2, <2>1
<1> QED BY <1>3, <1>4, <1>5

\* The host loses a player, and tells the others of it in the lobby.
LEMMA HostLosesMute ==
  ASSUME NEW w, IInv(w), ~IsOut(w, Host), NEW c \in Clients,
         w.member[Host].phase = "lobby" => w.member[c].phase = "out",
         NEW from, from = IF w.peer[Host][c] # None THEN w.peer[Host][c].id ELSE 0,
         NEW v \in LobbyDisconnects(Disconnected(w, Host, c), Host, from)
  PROVE  Mute(w, v)
<1> USE TheMembers
<1> DEFINE u == Disconnected(w, Host, c)
<1>1. /\ IsWorld(w) /\ PeersTyped(w.peer) /\ PendingTyped(w.pending)
      /\ w.member[Host].phase \in {"lobby", "setting", "playing"}
  BY DEF IInv, TypeOK, HostOK, IsOut
<1> DEFINE n == [w EXCEPT !.peer[Host][c] = None]
<1>2. u = n
  <2>1. w.pending = [w.pending EXCEPT ![Host] = w.pending[Host] \cup {}]
    BY <1>1 DEF PendingTyped
  <2>2. n.pending = w.pending
    BY <1>1 DEF IsWorld
  <2>3. n = [n EXCEPT !.pending = w.pending]
    BY <1>1, <2>2 DEF IsWorld
  <2>4. u = [n EXCEPT !.pending = [w.pending EXCEPT ![Host] = w.pending[Host] \cup {}]]
    BY <1>1, <2>2 DEF Disconnected, IsWorld
  <2> HIDE DEF n
  <2> QED BY <2>1, <2>3, <2>4
<1>3. Mute(w, n) /\ n.member = w.member
  BY PeerMute
<1>4. CASE w.member[Host].phase = "lobby" /\ w.peer[Host][c] # None
  <2> DEFINE id == w.peer[Host][c].id
             x == Forgotten(n, id)
             e == [msg |-> "PLAYER_DISCONNECT", id |-> id]
  <2>1. id \in Ids \ {1} /\ from = id /\ id # 0
    <3>1. w.peer[Host][c] \in Players
      BY <1>4, Parts
    <3>2. id \in Nat
      BY <3>1 DEF Players
    <3>3. id >= 2
      BY <1>4 DEF IInv, HostOK, IsOut
    <3> QED BY <1>4, <3>2, <3>3 DEF Ids
  <2>2. IInv(x)
    BY <1>4, HostForgets
  <2>3. v = Broadcast(x, Host, e)
    <3>1. from # 0 /\ from # 1
      BY <2>1
    <3>2. v \in LobbyDisconnects(n, Host, from)
      BY <1>2
    <3> HIDE DEF n, u, x, e
    <3>3. v = Broadcast(Forgotten(n, from), Host, [msg |-> "PLAYER_DISCONNECT", id |-> from])
      BY <1>3, <1>4, <3>1, <3>2 DEF LobbyDisconnects
    <3> QED BY <2>1, <3>3 DEF x, e
  <2>4. Mute(n, x)
    <3>1. TypeOK(n)
      <4>1. n.peer = [w.peer EXCEPT ![Host][c] = None] /\ n.lobby = w.lobby
            /\ n.pending = w.pending /\ n.chan = w.chan
        BY PeerMute
      <4>2. IsWorld(n)
        BY <1>1 DEF IsWorld
      <4>3. PeersTyped(n.peer)
        BY <1>1, <4>1 DEF PeersTyped
      <4> HIDE DEF n
      <4> QED BY <1>3, <4>1, <4>2, <4>3 DEF TypeOK, IInv
    <3> HIDE DEF n, id
    <3>2. /\ x.chan = n.chan /\ x.peer = n.peer /\ x.pending = n.pending
          /\ x.lobby.ready \subseteq n.lobby.ready
          /\ Passive(n.member[Host], x.member[Host])
          /\ \A d \in Clients : x.member[d] = n.member[d]
      BY <3>1, ForgottenIs
    <3> HIDE DEF x
    <3>3. x.lobby.ready \subseteq n.lobby.ready \cup {1}
      BY <3>2
    <3> QED BY <3>2, <3>3, HostAloneMute
  <2>5. \A b \in Members \ {Host} : e \in Understood(b) /\ Mild(x, Host, b, e)
    <3> HIDE DEF id, x
    <3> QED BY <2>1 DEF Understood, ToClient, Mild
  <2>6. e.msg # "ACCEPT_NEW_PLAYER"
    OBVIOUS
  <2> HIDE DEF n, x, e
  <2>7. x.peer[Host][Host] = None
    BY <2>2 DEF IInv, HostOK
  <2>8. Mute(x, Broadcast(x, Host, e))
    BY <2>2, <2>5, <2>6, <2>7, BroadcastIsMute
  <2>9. Mute(w, x)
    BY <1>3, <2>4, MuteTwice
  <2> QED BY <2>3, <2>8, <2>9, MuteTwice
<1>5. CASE ~(w.member[Host].phase = "lobby" /\ w.peer[Host][c] # None)
  <2>1. v = n
    <3>1. v \in LobbyDisconnects(n, Host, from)
      BY <1>2
    <3> HIDE DEF n, u
    <3>2. CASE w.member[Host].phase # "lobby"
      BY <1>1, <1>3, <3>1, <3>2 DEF LobbyDisconnects
    <3>3. CASE w.member[Host].phase = "lobby"
      <4>1. from = 0
        BY <1>5, <3>3
      <4> QED BY <1>3, <3>1, <3>3, <4>1 DEF LobbyDisconnects
    <3> QED BY <3>2, <3>3
  <2> QED BY <1>3, <2>1
<1> QED BY <1>4, <1>5

\* Where neither the members nor what is on its way change, only the readiness counts.
LEMMA ReadinessCounts ==
  ASSUME NEW w, NEW v, NEW p, Course(w, p), InLobby(w),
         v.member = w.member, v.peer = w.peer, v.pending = w.pending, v.chan = w.chan,
         \A c \in Clients, id \in Ids :
           ~HasLeft(w, c) /\ IsOnWay(w, c, id) => id \notin v.lobby.ready
  PROVE  Course(v, p)
<1>1. Orderly(v)
  <2>1. Orderly(w) /\ \A m \in Members : /\ v.member[m].phase = w.member[m].phase
                                         /\ v.member[m].my_id = w.member[m].my_id
    BY DEF Course
  <2> QED BY <2>1, SameOrder
<1>2. WaitOK(v)
  <2>1. WaitOK(w)
    BY DEF Course
  <2> QED BY <2>1 DEF WaitOK, HasLeft, Carries, IsOnWay, Way
<1>3. InLobby(v)
  BY DEF InLobby
<1> QED BY <1>1, <1>2, <1>3 DEF Course

\* The host hears that a player is ready: it is one that knows its id.
LEMMA ReadyHeard ==
  ASSUME NEW w, NEW p, IInv(w), Course(w, p), InLobby(w), NEW b \in Clients,
         w.peer[Host][b] # None, HasLeft(w, b) \/ w.member[b].my_id # 0,
         NEW id, id = w.peer[Host][b].id
  PROVE  Course([w EXCEPT !.lobby.ready = @ \cup {id}], p)
<1> USE TheMembers
<1> DEFINE l == [w.lobby EXCEPT !.ready = w.lobby.ready \cup {id}]
           v == [w EXCEPT !.lobby = l]
<1>1. IsWorld(w) /\ LobbyTyped(w.lobby) /\ ~IsOut(w, Host) /\ w.member[Host].phase = "lobby"
  BY DEF IInv, TypeOK, IsOut, InLobby
<1>2. [w EXCEPT !.lobby.ready = @ \cup {id}] = v
  BY <1>1 DEF IsWorld
<1>3. l.ready = w.lobby.ready \cup {id}
  BY <1>1 DEF LobbyTyped
<1> HIDE DEF l
<1>4. v.lobby = l /\ v.member = w.member /\ v.peer = w.peer /\ v.pending = w.pending /\ v.chan = w.chan
  BY <1>1, LobbySet
<1> HIDE DEF v
<1>5. ASSUME NEW c \in Clients, NEW k \in Ids, ~HasLeft(w, c), IsOnWay(w, c, k)
      PROVE  k \notin w.lobby.ready \cup {id}
  <2>1. w.member[c].my_id = 0 /\ k \notin w.lobby.ready
    BY <1>5 DEF Course, WaitOK
  <2>2. HasId(w, c, k)
    BY <1>5 DEF IsOnWay, HasId, Numbered
  <2>3. w.peer[Host][c] # None /\ w.peer[Host][c].id = k
    BY <1>1, <1>5, <2>2 DEF IInv, ClientsOK, HasLeft
  <2>4. ASSUME k = id PROVE FALSE
    <3>1. c = b
      BY <1>1, <2>3, <2>4 DEF IInv, HostOK
    <3> QED BY <1>5, <2>1, <3>1
  <2> QED BY <2>1, <2>4
<1>6. \A c \in Clients, k \in Ids : ~HasLeft(w, c) /\ IsOnWay(w, c, k) => k \notin v.lobby.ready
  BY <1>3, <1>4, <1>5
<1>7. Course(v, p)
  BY <1>4, <1>6, ReadinessCounts
<1> QED BY <1>2, <1>7

\* A newcomer hears its id.
LEMMA NumberIsSent ==
  ASSUME NEW w, NEW p, IInv(w), Course(w, p), InLobby(w), NEW c \in Clients,
         NEW id \in Ids \ {1}, ~IsNew(w, c), \A k \in Ids : ~HasId(w, c, k),
         id \notin w.lobby.ready,
         NEW v, v = Put(w, Host, c, Numbered(id))
  PROVE  Course(v, p) /\ (Numbered(id) \in Way(v, Host, c) \/ IsOut(v, c)) /\ v.member = w.member
<1> USE TheMembers
<1>1. CASE IsOut(w, c)
  BY <1>1 DEF Put
<1>2. CASE ~IsOut(w, c)
  <2> DEFINE msg == Numbered(id)
             s == Append(w.chan[Host][c], msg)
  <2>1. w.chan[Host][c] \in Seq(Understood(c)) /\ msg \in Understood(c)
    <3>1. w.chan[Host][c] \in Seq(Understood(c))
      BY Parts
    <3>2. msg \in Understood(c)
      BY DEF Numbered, Understood, ToClient
    <3> QED BY <3>1, <3>2
  <2>2. s \in Seq(Understood(c)) /\ ToSet(s) = Way(w, Host, c) \cup {msg}
    BY <2>1, Appended DEF Way
  <2>3. IsWorld(w) /\ ChansTyped(w.chan) /\ w.member[c] \in MemberRecords
    BY Parts DEF IInv, TypeOK
  <2> HIDE DEF msg
  <2>4. /\ v.member = w.member /\ v.peer = w.peer /\ v.pending = w.pending /\ v.lobby = w.lobby
        /\ v.chan = [w.chan EXCEPT ![Host][c] = s]
    BY <1>2, <2>3, PutIs DEF msg
  <2>5. msg.msg = "PLAYER_ID" /\ msg.id = id /\ msg = Numbered(id)
    BY DEF msg, Numbered
  <2>6. Leads(w.chan[Host][c], s, c)
    BY <2>1, <2>5, AppendedThin
  <2>7. \A m \in ToSet(w.chan[Host][c]) : m.msg # "PLAYER_ID"
    <3>1. ASSUME NEW m \in ToSet(w.chan[Host][c]), m.msg = "PLAYER_ID" PROVE FALSE
      <4>1. m.id \in Ids /\ HasId(w, c, m.id)
        BY <3>1, WhatClientsHear DEF Way
      <4> QED BY <4>1
    <3> QED BY <3>1
  <2>8. \A k \in {"PLAYER_ID", "END_SETTING"} : AtMostOne(w.chan[Host][c], k) => AtMostOne(s, k)
    BY <2>1, <2>5, <2>7, AppendedOnce
  <2> HIDE DEF s
  <2>9. /\ v.chan[Host][c] = s
        /\ \A x, y \in Members : x # Host \/ y # c => v.chan[x][y] = w.chan[x][y]
    <3>1. LET g == [w.chan EXCEPT ![Host][c] = s]
          IN  /\ ChansTyped(g) /\ g[Host][c] = s
              /\ \A x, y \in Members : x # Host \/ y # c => g[x][y] = w.chan[x][y]
      BY <2>2, <2>3, OneChan
    <3> QED BY <2>4, <3>1
  <2>10. /\ Way(v, Host, c) = Way(w, Host, c) \cup {msg}
         /\ \A x, y \in Members : x # Host \/ y # c => Way(v, x, y) = Way(w, x, y)
    BY <2>2, <2>9 DEF Way
  <2>11. \A x, y \in Members : \A k : k # "PLAYER_ID" => (Carries(v, x, y, k) <=> Carries(w, x, y, k))
    <3>1. ASSUME NEW k, k # "PLAYER_ID" PROVE Carries(v, Host, c, k) <=> Carries(w, Host, c, k)
      BY <2>5, <2>10, <3>1 DEF Carries
    <3>2. ASSUME NEW x \in Members, NEW y \in Members, NEW k, x # Host \/ y # c
          PROVE  Carries(v, x, y, k) <=> Carries(w, x, y, k)
      BY <2>10, <3>2 DEF Carries
    <3> QED BY <3>1, <3>2
  <2>12. /\ \A m \in Members : \A k : m # c => (IsOnWay(v, m, k) <=> IsOnWay(w, m, k))
         /\ \A m \in Members : \A k : m # c => (HasId(v, m, k) <=> HasId(w, m, k))
         /\ \A k \in Ids : IsOnWay(v, c, k) => k = id
    <3>1. \A m \in Members : \A k : m # c =>
            (IsOnWay(v, m, k) <=> IsOnWay(w, m, k)) /\ (HasId(v, m, k) <=> HasId(w, m, k))
      BY <2>4, <2>10 DEF IsOnWay, HasId
    <3>2. ASSUME NEW k \in Ids, IsOnWay(v, c, k), k # id PROVE FALSE
      <4>1. PICK x \in Members : Numbered(k) \in Way(v, x, c)
        BY <3>2 DEF IsOnWay
      <4>2. Numbered(k) # msg
        BY <2>5, <3>2 DEF Numbered
      <4>3. Numbered(k) \in Way(w, x, c)
        BY <2>10, <4>1, <4>2
      <4>4. HasId(w, c, k)
        BY <4>3 DEF HasId, Numbered
      <4> QED BY <4>4
    <3> QED BY <3>1, <3>2
  <2>13. Orderly(w) /\ WaitOK(w)
    BY DEF Course
  <2>14. WaysOK(v)
    <3>1. ASSUME NEW x \in Members, NEW y \in Members, NEW k \in {"PLAYER_ID", "END_SETTING"}
          PROVE  AtMostOne(v.chan[x][y], k)
      BY <2>8, <2>9, <2>13 DEF Orderly, WaysOK
    <3>2. \A x \in Clients, y \in Members : Way(v, x, y) = Way(w, x, y)
      BY <2>10
    <3> QED BY <2>13, <3>1, <3>2 DEF Orderly, WaysOK
  <2>15. SelvesOK(v)
    <3>1. ASSUME NEW d \in Clients
          PROVE  /\ v.peer[d][d] = None /\ v.chan[d][d] = <<>> /\ \A e \in v.pending[d] : e.who # d
                 /\ IsAttached(v, d)
                 /\ IsEarly(v, d) => Introduced(v.chan[Host][d], d, v.member[d].my_id)
      <4>1. v.chan[d][d] = w.chan[d][d]
        BY <2>9
      <4>2. Leads(w.chan[Host][d], v.chan[Host][d], d)
        <5>1. CASE d = c
          BY <2>6, <2>9, <5>1
        <5>2. CASE d # c
          BY <2>9, <5>2 DEF Leads
        <5> QED BY <5>1, <5>2
      <4> QED BY <2>4, <2>13, <4>1, <4>2 DEF Orderly, SelvesOK, IsAttached, IsEarly, Leads
    <3> QED BY <3>1 DEF SelvesOK
  <2>16. NumbersOK(v)
    <3>1. \A d \in Clients : IsNew(v, d) <=> IsNew(w, d)
      BY <2>4, <2>11 DEF IsNew
    <3> QED BY <2>4, <2>12, <2>13, <3>1 DEF Orderly, NumbersOK, HasLeft
  <2>17. WaitOK(v)
    <3>1. w.member[c].my_id = 0
      <4>1. w.member[c].my_id \notin Ids
        BY DEF HasId
      <4> QED BY <2>3, <4>1 DEF Ids, MemberRecords
    <3>2. ASSUME NEW d \in Clients, ~HasLeft(v, d)
          PROVE  /\ Carries(v, d, Host, "READY") => v.member[d].my_id # 0
                 /\ \A k \in Ids : IsOnWay(v, d, k) => v.member[d].my_id = 0 /\ k \notin v.lobby.ready
      <4>1. Carries(v, d, Host, "READY") => v.member[d].my_id # 0
        BY <2>4, <2>11, <2>13, <3>2 DEF WaitOK, HasLeft
      <4>2. CASE d = c
        BY <2>4, <2>12, <3>1, <4>1, <4>2
      <4>3. CASE d # c
        BY <2>4, <2>12, <2>13, <3>2, <4>1, <4>3 DEF WaitOK, HasLeft
      <4> QED BY <4>2, <4>3
    <3> QED BY <2>4, <2>11, <2>13, <3>2 DEF WaitOK
  <2>18. InLobby(v)
    BY <2>4 DEF InLobby
  <2> QED BY <2>4, <2>5, <2>10, <2>14, <2>15, <2>16, <2>17, <2>18 DEF Course, Orderly
<1> QED BY <1>1, <1>2

---------------------------------------------------------------------------
(* Nobody is ahead: who is let in.                                         *)

\* A newcomer gets a place and a colour: nobody else sees it.
LEMMA AdmittedIs ==
  ASSUME NEW w, IInv(w), w.member[Host].phase = "lobby", NEW c \in Clients, w.peer[Host][c] # None,
         w.peer[Host][c].id \notin ToSet(w.member[Host].reg),
         NEW colour \in Colours, colour \notin w.lobby.assigned
  PROVE  LET id == w.peer[Host][c].id
             v == Coloured([w EXCEPT !.peer[Host][c].authorized = TRUE,
                                     !.member[Host].reg = Append(@, id),
                                     !.lobby.ready = @ \ {id}], id, colour)
         IN  /\ Mute(w, v) /\ v.chan = w.chan /\ id \notin v.lobby.ready
             /\ v.member[c] = w.member[c]
<1> USE TheMembers
<1> DEFINE id == w.peer[Host][c].id
           old == w.lobby.colour
           reg == Append(w.member[Host].reg, id)
           p == [w.peer[Host][c] EXCEPT !.authorized = TRUE]
           r == [w.member[Host] EXCEPT !.reg = reg]
           fm == [w.member EXCEPT ![Host] = r]
           fp == [w.peer EXCEPT ![Host][c] = p]
           l == [w.lobby EXCEPT !.ready = w.lobby.ready \ {id}]
           in == [w EXCEPT !.member = fm, !.peer = fp, !.lobby = l]
           v == Coloured(in, id, colour)
<1>1. /\ IsWorld(w) /\ MembersTyped(w.member) /\ PeersTyped(w.peer) /\ LobbyTyped(w.lobby)
      /\ w.member[Host] \in MemberRecords /\ TypeOK(w) /\ w.peer[Host][c] \in Players
  BY Parts DEF IInv, TypeOK
<1>2. [w EXCEPT !.peer[Host][c].authorized = TRUE, !.member[Host].reg = Append(@, id),
                !.lobby.ready = @ \ {id}] = in
  <2>1. [w EXCEPT !.peer[Host][c].authorized = TRUE, !.member[Host].reg = Append(@, id),
                  !.lobby.ready = @ \ {id}] = [w EXCEPT !.peer = fp, !.member = fm, !.lobby = l]
    BY <1>1 DEF IsWorld, MembersTyped, MemberRecords, PeersTyped
  <2> HIDE DEF fp, fm, l
  <2> QED BY <2>1, <1>1 DEF IsWorld
<1>3. /\ in.member = fm /\ in.peer = fp /\ in.lobby = l /\ in.pending = w.pending
      /\ in.chan = w.chan /\ IsWorld(in)
  <2> DEFINE v1 == [w EXCEPT !.member = fm]
             v2 == [v1 EXCEPT !.peer = fp]
             v3 == [v2 EXCEPT !.lobby = l]
  <2>1. in = v3
    OBVIOUS
  <2> HIDE DEF fm, fp, l, in
  <2>2. /\ IsWorld(v1) /\ v1.member = fm /\ v1.peer = w.peer /\ v1.pending = w.pending
        /\ v1.chan = w.chan /\ v1.lobby = w.lobby
    BY <1>1, MemberSet
  <2> HIDE DEF v1
  <2>3. /\ IsWorld(v2) /\ v2.member = fm /\ v2.peer = fp /\ v2.pending = w.pending
        /\ v2.chan = w.chan /\ v2.lobby = w.lobby
    BY <2>2, PeerSet
  <2> HIDE DEF v2
  <2>4. /\ IsWorld(v3) /\ v3.member = fm /\ v3.peer = fp /\ v3.pending = w.pending
        /\ v3.chan = w.chan /\ v3.lobby = l
    BY <2>3, LobbySet
  <2> QED BY <2>1, <2>4
<1> HIDE DEF in
<1>4. id >= 2 /\ id \in Ids /\ id # 1
  <2>1. id \in Nat
    BY <1>1 DEF Players
  <2>2. id >= 2
    BY DEF IInv, HostOK, IsOut
  <2> QED BY <2>1, <2>2 DEF Ids
<1>5. /\ l = [colour |-> old, assigned |-> w.lobby.assigned, ready |-> w.lobby.ready \ {id}]
      /\ LobbyTyped(l) /\ l.colour = old /\ l.assigned = w.lobby.assigned
      /\ l.ready = w.lobby.ready \ {id}
  <2> HIDE DEF id
  <2>1. l = [colour |-> old, assigned |-> w.lobby.assigned, ready |-> w.lobby.ready \ {id}]
    <3> DEFINE x == w.lobby.ready \ {id}
    <3>1. w.lobby = [colour |-> old, assigned |-> w.lobby.assigned, ready |-> w.lobby.ready]
      BY <1>1 DEF LobbyTyped
    <3>2. l = [w.lobby EXCEPT !.ready = x]
      OBVIOUS
    <3> HIDE DEF x, l
    <3>3. [w.lobby EXCEPT !.ready = x]
            = [colour |-> old, assigned |-> w.lobby.assigned, ready |-> x]
      BY <3>1
    <3> QED BY <3>2, <3>3 DEF x
  <2> HIDE DEF l
  <2>2. l.colour = old /\ l.assigned = w.lobby.assigned /\ l.ready = w.lobby.ready \ {id}
    BY <2>1
  <2> QED BY <1>1, <2>1, <2>2 DEF LobbyTyped
<1>6. /\ DOMAIN old = ToSet(w.member[Host].reg)
      /\ w.lobby.assigned = {old[i] : i \in DOMAIN old}
      /\ \A i, j \in DOMAIN old : old[i] = old[j] => i = j
      /\ w.lobby.ready \subseteq ToSet(w.member[Host].reg)
  BY DEF IInv, ColoursOK, IsOut
<1>7. /\ p \in Players /\ p.id = id /\ p # None
  BY <1>1, SetupAssumption DEF Players
<1>8. /\ reg \in Seq(Ids) /\ ToSet(reg) = ToSet(w.member[Host].reg) \cup {id}
      /\ reg # <<>> /\ reg[1] = 1 /\ IsInjective(reg)
  <2> DEFINE s == w.member[Host].reg
  <2>1. s \in Seq(Ids) /\ s # <<>> /\ s[1] = 1 /\ IsInjective(s)
    BY <1>1 DEF MemberRecords, IInv, HostOK, IsOut
  <2>2. id \notin ToSet(s)
    OBVIOUS
  <2> HIDE DEF s, id
  <2> DEFINE t == Append(s, id)
  <2>3. t \in Seq(Ids) /\ ToSet(t) = ToSet(s) \cup {id}
    BY <1>4, <2>1, Appended
  <2>4. /\ DOMAIN t = 1..(Len(s) + 1) /\ Len(s) \in Nat \ {0} /\ DOMAIN s = 1..Len(s)
        /\ t[Len(s) + 1] = id /\ \A i \in 1..Len(s) : t[i] = s[i]
    BY <1>4, <2>1
  <2>5. t # <<>>
    BY <1>4, <2>1
  <2> HIDE DEF t
  <2>6. \A i \in 1..Len(s) : t[i] # id
    BY <2>2, <2>4 DEF ToSet
  <2>7. IsInjective(t)
    BY <2>1, <2>4, <2>6 DEF IsInjective
  <2>8. t[1] = 1
    BY <2>1, <2>4
  <2> QED BY <2>3, <2>5, <2>7, <2>8 DEF s, t
<1> HIDE DEF l, reg
<1>20. Passive(w.member[Host], r)
  BY <1>1 DEF MemberRecords, Passive
<1>9. /\ r \in MemberRecords /\ r.reg = reg /\ r.phase = w.member[Host].phase
      /\ r.my_id = w.member[Host].my_id /\ r.nations = w.member[Host].nations
  BY <1>1, <1>8, FieldChanged DEF MemberRecords
<1> HIDE DEF r, p
<1>10. MembersTyped(fm) /\ fm[Host] = r /\ \A m \in Clients : fm[m] = w.member[m]
  BY <1>1, <1>9 DEF MembersTyped
<1>11. /\ PeersTyped(fp) /\ fp[Host][c] = p
       /\ \A n \in Members : n # c => fp[Host][n] = w.peer[Host][n]
       /\ \A m \in Clients : fp[m] = w.peer[m]
  <2> HIDE DEF id
  <2> QED BY <1>1, <1>7 DEF PeersTyped
<1> HIDE DEF fm, fp
<1>12. /\ IsWorld(v) /\ LobbyTyped(v.lobby)
       /\ v.member = fm /\ v.peer = fp /\ v.pending = w.pending /\ v.chan = w.chan
       /\ DOMAIN v.lobby.colour = DOMAIN old \cup {id}
       /\ v.lobby.assigned = {v.lobby.colour[i] : i \in DOMAIN v.lobby.colour}
       /\ \A i, j \in DOMAIN v.lobby.colour : v.lobby.colour[i] = v.lobby.colour[j] => i = j
       /\ v.lobby.ready = w.lobby.ready \ {id}
  <2>1. /\ IsWorld(in) /\ LobbyTyped(in.lobby) /\ id \in Ids /\ in.lobby.colour = old
        /\ in.lobby.assigned = {in.lobby.colour[i] : i \in DOMAIN in.lobby.colour}
        /\ \A i, j \in DOMAIN in.lobby.colour : in.lobby.colour[i] = in.lobby.colour[j] => i = j
        /\ colour \notin in.lobby.assigned /\ in.lobby.ready = w.lobby.ready \ {id}
    <3> HIDE DEF id, old
    <3> QED BY <1>3, <1>4, <1>5, <1>6
  <2> HIDE DEF id, old
  <2>2. /\ IsWorld(v) /\ LobbyTyped(v.lobby)
        /\ v.member = in.member /\ v.peer = in.peer /\ v.pending = in.pending /\ v.chan = in.chan
        /\ DOMAIN v.lobby.colour = DOMAIN in.lobby.colour \cup {id}
        /\ v.lobby.assigned = {v.lobby.colour[i] : i \in DOMAIN v.lobby.colour}
        /\ \A i, j \in DOMAIN v.lobby.colour : v.lobby.colour[i] = v.lobby.colour[j] => i = j
        /\ v.lobby.ready = in.lobby.ready
    BY <2>1, ColouredIs
  <2> QED BY <1>3, <2>1, <2>2
<1> HIDE DEF v
<1>13. Passive(w.member[Host], v.member[Host])
  BY <1>10, <1>12, <1>20
<1>14. v.lobby.ready \subseteq w.lobby.ready \cup {1}
  BY <1>12
<1>15. \A m \in Clients :
         v.member[m] = w.member[m] /\ v.peer[m] = w.peer[m] /\ v.pending[m] = w.pending[m]
  BY <1>10, <1>11, <1>12
<1>16. Mute(w, v)
  <2> HIDE DEF id, old
  <2> QED BY <1>12, <1>13, <1>14, <1>15, HostAloneMute
<1> QED BY <1>2, <1>12, <1>15, <1>16 DEF v

\* A newcomer is told of the others, not of itself.
LEMMA OthersTold ==
  ASSUME NEW w, NEW c \in Clients, NEW list \in SetToSeqs(OthersOf(w, c))
  PROVE  \A m \in ToSet(list) : m.who # c
<1> USE TheMembers
<1> DEFINE S == OthersOf(w, c)
<1>1. \A m \in S : m.who # c
  <2>1. ASSUME NEW n \in player_pool(w, Host) \ {c} PROVE Accept(w.peer[Host][n].id, n, FALSE).who # c
    BY DEF Accept
  <2>2. Accept(1, Host, FALSE).who # c
    BY DEF Accept
  <2> QED BY <2>1, <2>2 DEF OthersOf
<1>2. list \in SetToSeqs(S)
  OBVIOUS
<1> HIDE DEF S
<1>3. list \in [1..Cardinality(S) -> S]
  BY <1>2 DEF SetToSeqs
<1>4. \A i \in DOMAIN list : list[i] \in S
  BY <1>3
<1> QED BY <1>1, <1>4 DEF ToSet

\* The host lets a newcomer in, or refuses it.
LEMMA LetInGoes ==
  ASSUME NEW w, NEW p, IInv(w), Course(w, p), p.busy = {}, w.member[Host].phase = "lobby",
         NEW c \in Clients, w.peer[Host][c] # None,
         w.peer[Host][c].id \notin ToSet(w.member[Host].reg), ~IsNew(w, c),
         \A k \in Ids : ~HasId(w, c, k),
         NEW v \in NewPlayer(w, c)
  PROVE  OnCourse(v)
<1> USE TheMembers
<1> DEFINE id == w.peer[Host][c].id
           in == [w EXCEPT !.peer[Host][c].authorized = TRUE,
                           !.member[Host].reg = Append(@, id), !.lobby.ready = @ \ {id}]
<1>0. IInv(v) /\ p \in Plans
  BY NewcomerAnswered DEF Course, PlanOK
<1>1. CASE Len(w.member[Host].reg) >= MAX_NATION
  <2> DEFINE e == [msg |-> "REFUSE_NEW_PLAYER"]
  <2>1. v = Put(w, Host, c, e)
    BY <1>1 DEF NewPlayer
  <2>2. e \in Understood(c) /\ Mild(w, Host, c, e) /\ e.msg # "ACCEPT_NEW_PLAYER"
    BY DEF Understood, ToClient, Mild
  <2> HIDE DEF e
  <2>3. Mute(w, v)
    BY <2>1, <2>2, PutIsMute
  <2> QED BY <1>0, <2>3, OnCourseBy
<1>2. CASE ~(Len(w.member[Host].reg) >= MAX_NATION)
  <2>1. PICK list \in SetToSeqs(OthersOf(w, c)), x \in Colours \ w.lobby.assigned :
          v = LetIn(w, c, list, x)
    BY <1>2 DEF NewPlayer
  <2> DEFINE u1 == Coloured(in, id, x)
             u2 == Put(u1, Host, c, Numbered(id))
             a == Accept(id, c, TRUE)
             u3 == Broadcast(u2, Host, a)
             u4 == PutAll(u3, Host, c, list)
             e == [msg |-> "ACCEPT_COLOR", colour |-> x]
  <2>2. v = Put(u4, Host, c, e)
    BY <2>1 DEF LetIn, Numbered
  <2>3. id \in Ids \ {1}
    <3>1. w.peer[Host][c] \in Players
      BY Parts
    <3>2. id \in Nat
      BY <3>1 DEF Players
    <3>3. id >= 2
      BY DEF IInv, HostOK, IsOut
    <3> QED BY <3>2, <3>3 DEF Ids
  <2>4. /\ list \in Seq(Understood(c))
        /\ \A m \in ToSet(list) : m.msg = "ACCEPT_NEW_PLAYER" /\ m.who # c
    <3>1. ~IsOut(w, Host)
      BY DEF IsOut
    <3> QED BY <3>1, ToldOf, OthersTold
  <2>5. /\ IInv(u1) /\ u1.member[Host].phase = "lobby"
        /\ u1.peer[Host][c] # None /\ u1.peer[Host][c].id = id
    BY HostRegisters
  <2>6. /\ Mute(w, u1) /\ u1.chan = w.chan /\ id \notin u1.lobby.ready
        /\ u1.member[c] = w.member[c]
    BY AdmittedIs
  <2> HIDE DEF u1
  <2>7. /\ Course(u1, p) /\ InLobby(u1) /\ ~IsNew(u1, c) /\ \A k \in Ids : ~HasId(u1, c, k)
        /\ id \notin u1.lobby.ready
    <3>1. Course(u1, p)
      BY <2>5, <2>6, MuteKeeps
    <3> HIDE DEF id
    <3> QED BY <2>5, <2>6, <3>1 DEF InLobby, IsNew, HasId, Carries, Way
  <2>8. IInv(u2) /\ u2.member = u1.member
    <3> HIDE DEF id
    <3> QED BY <2>3, <2>5, NumberSent DEF Numbered
  <2>9. Course(u2, p) /\ (Numbered(id) \in Way(u2, Host, c) \/ IsOut(u2, c))
    <3> HIDE DEF id
    <3> QED BY <2>3, <2>5, <2>7, NumberIsSent
  <2> HIDE DEF u2
  <2>10. ASSUME NEW b \in Members, b # Host
         PROVE  a \in Understood(b) /\ Harmless(u2, b, a) /\ Mild(u2, Host, b, a)
    <3>1. a \in Introductions
      BY <2>3 DEF Accept, Introductions
    <3>2. a.msg = "ACCEPT_NEW_PLAYER"
      BY DEF Accept
    <3> HIDE DEF a
    <3> QED BY <2>10, <3>1, <3>2 DEF Understood, ToClient, Harmless, Mild
  <2>11. a.msg = "ACCEPT_NEW_PLAYER" /\ a.who = c /\ a.id = id
    BY DEF Accept
  <2> HIDE DEF a, id
  <2>12. IInv(u3)
    BY <2>8, <2>10, BroadcastIsCalm
  <2>13. Mute(u2, u3)
    <3>1. u2.peer[Host][Host] = None
      BY <2>8 DEF IInv, HostOK
    <3>2. \A b \in Members \ {Host} :
            Host = Host /\ a.msg = "ACCEPT_NEW_PLAYER" /\ a.who = b
              => Numbered(a.id) \in Way(u2, Host, b) \/ IsOut(u2, b)
      BY <2>9, <2>11
    <3> QED BY <2>8, <2>10, <3>1, <3>2, BroadcastIsMute
  <2> HIDE DEF u3
  <2>14. IInv(u4)
    <3>1. \A m \in ToSet(list) : Harmless(u3, c, m)
      BY <2>4 DEF Harmless
    <3> QED BY <2>4, <2>12, <3>1, PutAllIsCalm
  <2>15. Mute(u3, u4)
    BY <2>4, <2>12, PutAllIsMute
  <2> HIDE DEF u4
  <2>16. e \in Understood(c) /\ e.msg # "ACCEPT_NEW_PLAYER" /\ Mild(u4, Host, c, e)
    BY DEF Understood, ToClient, Mild
  <2> HIDE DEF e
  <2>17. Mute(u4, v)
    BY <2>2, <2>14, <2>16, PutIsMute
  <2>18. Mute(u2, v)
    BY <2>13, <2>15, <2>17, MuteTwice
  <2> QED BY <1>0, <2>8, <2>9, <2>18, OnCourseBy
<1> QED BY <1>1, <1>2

\* A colour given to a player who is registered
LEMMA ColouringIsMute ==
  ASSUME NEW w, IInv(w), ~IsOut(w, Host), NEW id \in ToSet(w.member[Host].reg),
         NEW c \in Colours, c \notin w.lobby.assigned
  PROVE  Mute(w, Coloured(w, id, c))
<1> DEFINE v == Coloured(w, id, c)
<1>1. /\ IsWorld(w) /\ LobbyTyped(w.lobby)
      /\ w.lobby.assigned = {w.lobby.colour[i] : i \in DOMAIN w.lobby.colour}
      /\ \A i, j \in DOMAIN w.lobby.colour : w.lobby.colour[i] = w.lobby.colour[j] => i = j
  BY DEF IInv, TypeOK, ColoursOK
<1>2. id \in Ids
  <2>1. w.member[Host].reg \in Seq(Ids)
    BY TheMembers, Parts DEF MemberRecords
  <2> HIDE DEF Ids
  <2> QED BY <2>1 DEF ToSet
<1>3. /\ v.member = w.member /\ v.peer = w.peer /\ v.pending = w.pending /\ v.chan = w.chan
      /\ v.lobby.ready = w.lobby.ready
  BY <1>1, <1>2, ColouredIs
<1> HIDE DEF v
<1>4. Mute(w, v)
  BY <1>3, LobbyMute
<1> QED BY <1>4 DEF v

\* The host answers a player who asks for a colour: it matters to nobody.
LEMMA ColourIsMute ==
  ASSUME NEW w, IInv(w), ~IsOut(w, Host), NEW c \in Clients, NEW colour \in Colours
  PROVE  Mute(w, AcquireColour(w, c, colour))
<1> USE TheMembers
<1> DEFINE id == w.peer[Host][c].id
           Yes == colour \notin w.lobby.assigned /\ id \in ToSet(w.member[Host].reg)
           u == Coloured(w, id, colour)
<1>1. CASE Yes
  <2> DEFINE e == [msg |-> "ACCEPT_COLOR", colour |-> colour]
  <2>1. AcquireColour(w, c, colour) = Put(u, Host, c, e)
    BY <1>1 DEF AcquireColour
  <2>2. IInv(u)
    <3> HIDE DEF id
    <3> QED BY <1>1, HostColours
  <2>3. Mute(w, u)
    BY <1>1, ColouringIsMute
  <2> HIDE DEF u
  <2>4. e \in Understood(c) /\ Mild(u, Host, c, e) /\ e.msg # "ACCEPT_NEW_PLAYER"
    BY DEF Understood, ToClient, Mild
  <2> HIDE DEF e
  <2>5. Mute(u, Put(u, Host, c, e))
    BY <2>2, <2>4, PutIsMute
  <2> QED BY <2>1, <2>3, <2>5, MuteTwice
<1>2. CASE ~Yes
  <2> DEFINE e == [msg |-> "REFUSE_COLOR"]
  <2>1. AcquireColour(w, c, colour) = Put(w, Host, c, e)
    BY <1>2 DEF AcquireColour
  <2>2. e \in Understood(c) /\ Mild(w, Host, c, e) /\ e.msg # "ACCEPT_NEW_PLAYER"
    BY DEF Understood, ToClient, Mild
  <2> HIDE DEF e
  <2> QED BY <2>1, <2>2, PutIsMute
<1> QED BY <1>1, <1>2

\* What the host in the lobby hears leaves the game on course.
LEMMA HostHeard ==
  ASSUME NEW w, NEW p, IInv(w), Course(w, p), p.busy = {}, w.member[Host].phase = "lobby",
         NEW c \in Clients, w.peer[Host][c] # None,
         NEW m \in ToHost, m.msg \notin {"CONNECT", "DISCONNECT", "END_SETTING"},
         m.msg = "NEW_PLAYER" => /\ w.peer[Host][c].id \notin ToSet(w.member[Host].reg)
                                 /\ ~IsNew(w, c) /\ \A k \in Ids : ~HasId(w, c, k),
         m.msg = "READY" => HasLeft(w, c) \/ w.member[c].my_id # 0,
         NEW v \in HostHears(w, c, m), IInv(v)
  PROVE  OnCourse(v)
<1> DEFINE id == w.peer[Host][c].id
           reg == w.member[Host].reg
<1>1. ~IsOut(w, Host) /\ InLobby(w) /\ p \in Plans
  BY DEF IsOut, InLobby, Course, PlanOK
<1>2. CASE m.msg = "NEW_PLAYER"
  <2>1. v \in NewPlayer(w, c)
    BY <1>2 DEF HostHears
  <2> QED BY <1>2, <2>1, LetInGoes
<1>3. CASE m.msg = "ACQUIRE_COLOR"
  <2>1. v = AcquireColour(w, c, m.colour) /\ m.colour \in Colours
    BY <1>3, ToHostHolds DEF HostHears
  <2>2. Mute(w, v)
    BY <1>1, <2>1, ColourIsMute
  <2> QED BY <2>2, OnCourseBy
<1>4. CASE m.msg = "READY"
  <2>1. IF id \in ToSet(reg) THEN v = [w EXCEPT !.lobby.ready = @ \cup {id}] ELSE v = w
    BY <1>4 DEF HostHears
  <2>2. Course([w EXCEPT !.lobby.ready = @ \cup {id}], p)
    <3>1. HasLeft(w, c) \/ w.member[c].my_id # 0
      BY <1>4
    <3>2. id = w.peer[Host][c].id
      OBVIOUS
    <3> HIDE DEF id
    <3> QED BY ONLY IInv(w), Course(w, p), <1>1, c \in Clients, w.peer[Host][c] # None,
                    <3>1, <3>2, ReadyHeard
  <2>3. Course(v, p)
    <3> HIDE DEF id
    <3> QED BY <2>1, <2>2
  <2> QED BY <1>1, <2>3 DEF OnCourse
<1>5. CASE m.msg = "UNREADY"
  <2> DEFINE l == [w.lobby EXCEPT !.ready = w.lobby.ready \ {id}]
  <2>1. v = [w EXCEPT !.lobby.ready = @ \ {id}]
    BY <1>5 DEF HostHears
  <2>2. IsWorld(w) /\ LobbyTyped(w.lobby)
    BY DEF IInv, TypeOK
  <2>3. v = [w EXCEPT !.lobby = l]
    BY <2>1, <2>2 DEF IsWorld
  <2>4. l.ready \subseteq w.lobby.ready
    BY <2>2 DEF LobbyTyped
  <2> HIDE DEF l
  <2>5. /\ v.member = w.member /\ v.peer = w.peer /\ v.pending = w.pending /\ v.chan = w.chan
        /\ v.lobby = l
    BY <2>2, <2>3, LobbySet
  <2>6. Mute(w, v)
    BY <2>4, <2>5, LobbyMute
  <2> QED BY <2>6, OnCourseBy
<1> QED BY <1>2, <1>3, <1>4, <1>5, ToHostHolds

\* The host that takes a message stays on course.
LEMMA HostTakes ==
  ASSUME NEW w, NEW p, IInv(w), Course(w, p), p.busy = {},
         w.member[Host].phase \in {"joining", "lobby", "box", "setting"},
         NEW b \in Members, w.chan[b][Host] # <<>>,
         NEW t, t = [w EXCEPT !.chan[b][Host] = Tail(@)],
         NEW v \in Handled(t, Host, b, Head(w.chan[b][Host])), IInv(v)
  PROVE  OnCourse(v)
<1> USE TheMembers
<1> DEFINE s == w.chan[b][Host]
           m == Head(s)
<1>0. p \in Plans
  BY DEF Course, PlanOK
<1>1. IInv(t) /\ m \in Way(w, b, Host) /\ m \in Understood(Host) /\ b \in Clients
  BY TakingIsCalm
<1>2. /\ t.member = w.member /\ t.peer = w.peer /\ t.chan[b][Host] = Tail(s)
      /\ IsWorld(w) /\ w.member[Host].phase \in {"lobby", "setting"}
  BY Parts DEF IInv, TypeOK, ChansTyped, HostOK, IsWorld
<1>3. /\ s \in Seq(Understood(Host)) /\ s # <<>> /\ Once(s)
  BY CalmAsItIs DEF Calmly
<1>4. m.msg = "NEW_PLAYER" => \A e \in ToSet(Tail(s)) : e.msg # "NEW_PLAYER"
  <2> HIDE DEF s
  <2> QED BY <1>3, TakenFirst
<1>5. m \in ToHost /\ Carries(w, b, Host, m.msg)
  <2> HIDE DEF m
  <2> QED BY <1>1 DEF Understood, Carries
<1>6. v \in Handled(t, Host, b, m)
  OBVIOUS
<1>7. Mute(w, t)
  <2>1. Mute(w, [w EXCEPT !.chan[b][Host] = Tail(@)])
    BY <1>1, TakingIsMute
  <2> QED BY <2>1
<1>8. Course(t, p)
  BY <1>1, <1>7, MuteKeeps
<1>9. ~IsOut(t, Host)
  BY <1>2 DEF IsOut
<1>10. CASE m.msg = "CONNECT"
  <2> HIDE DEF m
  <2> DEFINE u == Connected(t, Host, b)
  <2>1. v \in LobbyConnects(u, Host, b)
    BY <1>6, <1>10 DEF Handled
  <2>2. IInv(u) /\ u.member = t.member /\ Mute(t, u)
    BY <1>1, <1>9, HostConnected, HostConnectedMute
  <2> HIDE DEF u
  <2>3. v = u
    BY <1>2, <2>1, <2>2 DEF LobbyConnects
  <2> QED BY <1>1, <1>8, <2>2, <2>3, OnCourseBy
<1>11. CASE m.msg = "DISCONNECT"
  <2> HIDE DEF m
  <2> DEFINE from == IF t.peer[Host][b] # None THEN t.peer[Host][b].id ELSE 0
  <2>1. v \in LobbyDisconnects(Disconnected(t, Host, b), Host, from)
    BY <1>6, <1>11 DEF Handled
  <2>2. w.member[Host].phase = "lobby" => w.member[b].phase = "out"
    BY <1>1, <1>5, <1>11 DEF IInv, ClientsOK
  <2>3. t.member[Host].phase = "lobby" => t.member[b].phase = "out"
    BY <1>2, <2>2
  <2>4. from = IF t.peer[Host][b] # None THEN t.peer[Host][b].id ELSE 0
    OBVIOUS
  <2> HIDE DEF from
  <2>5. ASSUME NEW x \in LobbyDisconnects(Disconnected(t, Host, b), Host, from) PROVE Mute(t, x)
    <3>1. IInv(t) /\ b \in Clients
      BY <1>1
    <3> QED BY ONLY <1>9, <2>3, <2>4, <2>5, <3>1, HostLosesMute
  <2>6. Mute(t, v)
    BY <2>1, <2>5
  <2> QED BY <1>1, <1>8, <2>6, OnCourseBy
<1>12. CASE m.msg \notin {"CONNECT", "DISCONNECT"} /\ t.peer[Host][b] = None
  <2> HIDE DEF m
  <2>1. v = t
    BY <1>6, <1>12 DEF Handled
  <2> QED BY <1>0, <1>8, <2>1 DEF OnCourse
<1>13. CASE /\ m.msg \notin {"CONNECT", "DISCONNECT"} /\ t.peer[Host][b] # None
            /\ t.member[Host].phase = "lobby"
  <2> HIDE DEF m
  <2>1. v \in HostHears(t, b, m)
    BY <1>6, <1>13 DEF Handled
  <2>2. m.msg # "END_SETTING"
    BY <1>1, <1>2, <1>5, <1>13 DEF IInv, ClientsOK
  <2>3. ASSUME m.msg = "NEW_PLAYER"
        PROVE  /\ t.peer[Host][b].id \notin ToSet(t.member[Host].reg) /\ ~IsNew(t, b)
               /\ \A k \in Ids : ~HasId(t, b, k)
    <3>1. IsNew(w, b) /\ w.member[b].phase \notin {"away", "joining"}
      BY <1>1, <1>5, <2>3 DEF IInv, NewcomersOK, IsNew
    <3>2. t.peer[Host][b].id \notin ToSet(t.member[Host].reg)
      BY <1>1, <1>2, <1>13, <3>1 DEF IInv, RegistryOK
    <3>3. ~Carries(t, b, Host, "NEW_PLAYER")
      BY <1>2, <1>4, <2>3 DEF Carries, Way
    <3>4. \A k \in Ids : ~HasId(w, b, k)
      BY <1>1, <3>1 DEF Course, Orderly, NumbersOK
    <3>5. \A k \in Ids : HasId(t, b, k) => HasId(w, b, k)
      BY <1>1, <1>7, PlainLeaves DEF Mute
    <3> QED BY <1>2, <3>1, <3>2, <3>3, <3>4, <3>5 DEF IsNew
  <2>4. m.msg = "NEW_PLAYER" => /\ t.peer[Host][b].id \notin ToSet(t.member[Host].reg)
                                /\ ~IsNew(t, b) /\ \A k \in Ids : ~HasId(t, b, k)
    BY <2>3
  <2>5. m \in ToHost /\ m.msg \notin {"CONNECT", "DISCONNECT", "END_SETTING"}
    BY <1>5, <1>13, <2>2
  <2>6. t.member[Host].phase = "lobby" /\ t.peer[Host][b] # None /\ b \in Clients /\ IInv(t)
    BY <1>1, <1>13
  <2>7. m.msg = "READY" => HasLeft(t, b) \/ t.member[b].my_id # 0
    <3>1. WaitOK(w)
      BY <1>2, <1>13 DEF Course, InLobby
    <3> QED BY <1>1, <1>2, <1>5, <3>1 DEF WaitOK, HasLeft
  <2>8. ASSUME NEW x \in HostHears(t, b, m), IInv(x) PROVE OnCourse(x)
    <3>1. Course(t, p) /\ p.busy = {}
      BY <1>8
    <3> QED BY ONLY <2>4, <2>5, <2>6, <2>7, <2>8, <3>1, HostHeard, ZenonT(60)
  <2> QED BY <2>1, <2>8
<1>14. CASE /\ m.msg \notin {"CONNECT", "DISCONNECT"} /\ t.peer[Host][b] # None
            /\ t.member[Host].phase = "setting"
  <2>1. IF m.msg = "END_SETTING" THEN v = [t EXCEPT !.member[Host].ended = @ + 1] ELSE v = t
    <3> HIDE DEF m
    <3> QED BY <1>6, <1>14 DEF Handled
  <2>2. CASE m.msg # "END_SETTING"
    <3>1. v = t
      BY <2>1, <2>2
    <3> QED BY <1>0, <1>8, <3>1 DEF OnCourse
  <2>3. CASE m.msg = "END_SETTING"
    <3>1. v = [t EXCEPT !.member[Host].ended = @ + 1]
      BY <2>1, <2>3
    <3>2. ~HasLeft(w, Host)
      BY <1>2 DEF HasLeft
    <3>3. Head(w.chan[b][Host]).msg = "END_SETTING"
      BY <2>3
    <3>4. t = [w EXCEPT !.chan[b][Host] = Tail(@)] /\ Host \in Members /\ w.chan[b][Host] # <<>>
      OBVIOUS
    <3>5. Course(v, p)
      BY ONLY IInv(w), Course(w, p), b \in Members, <3>1, <3>2, <3>3, <3>4, EndIsCounted
    <3> QED BY <1>0, <3>5 DEF OnCourse
  <2> QED BY <2>2, <2>3
<1> HIDE DEF m
<1> QED BY <1>2, <1>10, <1>11, <1>12, <1>13, <1>14

---------------------------------------------------------------------------
(* Nobody is ahead: the host closes the lobby.                             *)

\* The plan of a host that begins, or leaves: all have the ids it knows them by.
PlanOf(w, list, busy) ==
  [list |-> list,
   id |-> [m \in Members |-> IF m = Host THEN 1
                             ELSE IF w.peer[Host][m] # None THEN w.peer[Host][m].id ELSE 0],
   done |-> {}, busy |-> busy]

\* Such a plan is one.
LEMMA PlanIs ==
  ASSUME NEW w, IInv(w), InLobby(w), NEW list \in Seq(Ids), NEW busy \in SUBSET {Host},
         busy # {} => 1 \in ToSet(list)
  PROVE  LET p == PlanOf(w, list, busy)
         IN  /\ PlanOK(p) /\ p.list = list /\ p.done = {} /\ p.busy = busy
             /\ p.id[Host] = 1
             /\ \A c \in Clients : w.peer[Host][c] # None => p.id[c] = w.peer[Host][c].id
<1> USE TheMembers
<1> DEFINE ids == [m \in Members |-> IF m = Host THEN 1
                             ELSE IF w.peer[Host][m] # None THEN w.peer[Host][m].id ELSE 0]
           p == PlanOf(w, list, busy)
<1>1. ~IsOut(w, Host) /\ \A m \in Members : w.peer[Host][m] \in Players \cup {None}
  BY Parts DEF InLobby, IsOut
<1>2. \A m, n \in Members : w.peer[Host][m] # None =>
        /\ w.peer[Host][m].id \in Nat /\ w.peer[Host][m].id >= 2
        /\ w.peer[Host][n] # None /\ w.peer[Host][n].id = w.peer[Host][m].id => m = n
  BY <1>1 DEF IInv, HostOK, Players
<1>3. /\ ids \in [Members -> Nat] /\ ids[Host] = 1
      /\ \A c \in Clients : w.peer[Host][c] # None => ids[c] = w.peer[Host][c].id
  BY <1>2
<1>4. \A m, n \in Members : ids[m] = ids[n] /\ ids[m] # 0 => m = n
  BY <1>2
<1> HIDE DEF ids
<1>5. p.list = list /\ p.id = ids /\ p.done = {} /\ p.busy = busy
  BY DEF PlanOf, ids
<1>6. p \in Plans
  BY <1>3 DEF PlanOf, Plans, ids
<1> HIDE DEF p
<1>7. PlanOK(p)
  BY <1>3, <1>4, <1>5, <1>6 DEF PlanOK
<1> QED BY <1>3, <1>5, <1>7 DEF p

\* Nobody has said anything yet, and who hears its id from now on does not play.
LEMMA PlanFollowed ==
  ASSUME NEW w, IInv(w), WaitOK(w), InLobby(w), NEW list \in Seq(Ids),
         ToSet(list) \subseteq w.lobby.ready,
         NEW busy \in SUBSET {Host}, busy # {} => 1 \in ToSet(list),
         NEW v, Plays(v, list),
         \A m \in Members : /\ Setting(v, m) <=> m \in busy
                            /\ v.member[m].phase # "playing" /\ v.member[m].ended = 0,
         \A c \in Clients, id \in Ids : /\ HasId(v, c, id) => HasId(w, c, id)
                                        /\ IsOnWay(v, c, id) => IsOnWay(w, c, id),
         \A c \in Clients : HasLeft(w, c) => HasLeft(v, c),
         HasLeft(v, Host) \/ \A id \in Ids : HasId(v, Host, id) => id = 1,
         \A x, y \in Members : ~Carries(v, x, y, "END_SETTING")
  PROVE  Follows(v, PlanOf(w, list, busy))
<1> USE TheMembers
<1> DEFINE p == PlanOf(w, list, busy)
<1>1. /\ p.list = list /\ p.done = {} /\ p.busy = busy
      /\ p.id[Host] = 1
      /\ \A c \in Clients : w.peer[Host][c] # None => p.id[c] = w.peer[Host][c].id
  BY PlanIs
<1> HIDE DEF p
<1>2. ASSUME NEW m \in Members, NEW id \in Ids, HasId(v, m, id), ~HasLeft(v, m) PROVE p.id[m] = id
  <2>1. CASE m = Host
    BY <1>1, <1>2, <2>1
  <2>2. CASE m # Host
    <3>1. HasId(w, m, id) /\ ~HasLeft(w, m) /\ m \in Clients
      BY <1>2, <2>2
    <3>2. w.peer[Host][m] # None /\ w.peer[Host][m].id = id
      BY <3>1 DEF IInv, ClientsOK, InLobby, HasLeft
    <3> QED BY <1>1, <3>1, <3>2
  <2> QED BY <2>1, <2>2
<1>3. \A c \in Clients, id \in Ids : IsOnWay(v, c, id) /\ ~HasLeft(v, c) => id \notin ToSet(p.list)
  BY <1>1 DEF WaitOK
<1>4. \A m \in Members : v.member[m].ended <= Cardinality(HeardOf(v, p.done, m))
  <2>1. \A m \in Members : HeardOf(v, p.done, m) = {}
    BY <1>1 DEF HeardOf
  <2>2. Cardinality({}) = 0
    BY FS_EmptySet
  <2>3. ASSUME NEW m \in Members PROVE v.member[m].ended <= Cardinality(HeardOf(v, p.done, m))
    <3>1. v.member[m].ended = 0
      OBVIOUS
    <3>2. Cardinality(HeardOf(v, p.done, m)) = 0
      BY <2>1, <2>2
    <3> QED BY <3>1, <3>2
  <2> QED BY <2>3
<1>5. Follows(v, p)
  BY <1>1, <1>2, <1>3, <1>4 DEF Follows
<1> QED BY <1>5 DEF p

\* The host begins to set up the game: those who play are ready.
LEMMA HostBegins ==
  ASSUME NEW w, NEW p, IInv(w), Course(w, p), w.member[Host].phase = "lobby",
         ToSet(w.member[Host].reg) \subseteq w.lobby.ready,
         NEW list, list = StartersOf(w),
         NEW s, s = [w EXCEPT !.member[Host].phase = "setting", !.member[Host].nations = list]
  PROVE  LET q == PlanOf(w, list, {Host})
         IN  /\ IInv(s) /\ Course(s, q) /\ s.member[Host].phase = "setting" /\ ~InLobby(s)
             /\ q.list = list /\ q.busy = {Host}
<1> USE TheMembers
<1> DEFINE q == PlanOf(w, list, {Host})
<1>1. /\ list \in Seq(Ids) /\ Contains(list, 1) /\ ToSet(list) \subseteq w.lobby.ready
      /\ 1 \in ToSet(list)
  <2>1. list \in Seq(Ids) /\ Contains(list, 1) /\ ToSet(list) \subseteq ToSet(w.member[Host].reg)
    BY StartersAre DEF IsOut
  <2>2. 1 \in ToSet(list)
    BY <2>1 DEF Contains, ToSet
  <2> QED BY <2>1, <2>2
<1>2. InLobby(w) /\ Orderly(w) /\ WaitOK(w) /\ NotStarted(w)
  BY DEF InLobby, Course, IInv, GameOK
<1>3. IInv(s) /\ Plays(s, list) /\ s.member[Host].phase = "setting"
  BY <1>1, HostStarts
<1>4. /\ IsWorld(w) /\ MembersTyped(w.member) /\ w.member[Host] \in MemberRecords
      /\ w.member[Host].my_id = 1
  BY Parts DEF IInv, TypeOK, HostOK, IsOut
<1> DEFINE r == [w.member[Host] EXCEPT !.phase = "setting", !.nations = list]
           fm == [w.member EXCEPT ![Host] = r]
<1>5. s = [w EXCEPT !.member = fm]
  BY <1>4 DEF IsWorld, MembersTyped, MemberRecords
<1>6. /\ fm[Host] = r /\ (\A m \in Members : m # Host => fm[m] = w.member[m])
      /\ r.phase = "setting" /\ r.my_id = w.member[Host].my_id
      /\ r.nations = list /\ r.ended = w.member[Host].ended
  BY <1>4 DEF MembersTyped, MemberRecords
<1> HIDE DEF fm, r
<1>7. s.member = fm /\ s.peer = w.peer /\ s.pending = w.pending /\ s.chan = w.chan /\ s.lobby = w.lobby
  <2>1. LET u == [w EXCEPT !.member = fm]
        IN  u.member = fm /\ u.peer = w.peer /\ u.pending = w.pending /\ u.chan = w.chan
            /\ u.lobby = w.lobby
    BY <1>4, MemberSet
  <2> QED BY <1>5, <2>1
<1>8. \A m \in Members : /\ m # Host => s.member[m] = w.member[m]
                         /\ s.member[m].my_id = w.member[m].my_id
                         /\ s.member[m].ended = w.member[m].ended
  BY <1>6, <1>7
<1>9. s.member[Host].phase = "setting" /\ s.member[Host].nations = list
  BY <1>6, <1>7
<1>10. /\ \A x, y \in Members : Way(s, x, y) = Way(w, x, y)
       /\ \A x, y \in Members : \A k : Carries(s, x, y, k) <=> Carries(w, x, y, k)
       /\ \A m \in Members : \A id : HasId(s, m, id) <=> HasId(w, m, id)
       /\ \A m \in Members : \A id : IsOnWay(s, m, id) <=> IsOnWay(w, m, id)
       /\ \A m \in Members : HasLeft(s, m) <=> HasLeft(w, m)
       /\ \A m \in Members : Setting(s, m) <=> m = Host
       /\ \A m \in Members : IsEarly(s, m) => IsEarly(w, m)
       /\ \A m \in Clients : IsNew(s, m) => IsNew(w, m)
  <2>1. \A x, y \in Members : Way(s, x, y) = Way(w, x, y)
    BY <1>7 DEF Way
  <2>2. \A x, y \in Members : \A k : Carries(s, x, y, k) <=> Carries(w, x, y, k)
    BY <2>1 DEF Carries
  <2>3. \A m \in Members : \A id : /\ HasId(s, m, id) <=> HasId(w, m, id)
                                   /\ IsOnWay(s, m, id) <=> IsOnWay(w, m, id)
    BY <1>8, <2>1 DEF HasId, IsOnWay
  <2>4. \A m \in Members : /\ HasLeft(s, m) <=> HasLeft(w, m)
                           /\ IsEarly(s, m) => IsEarly(w, m)
    BY <1>8, <1>9 DEF HasLeft, IsEarly
  <2>5. \A m \in Clients : IsNew(s, m) => IsNew(w, m)
    BY <1>8, <2>2 DEF IsNew
  <2>6. \A m \in Members : Setting(s, m) <=> m = Host
    BY <1>2, <1>8, <1>9 DEF Setting, NotStarted
  <2> QED BY <2>1, <2>2, <2>3, <2>4, <2>5, <2>6
<1>11. WaysOK(s)
  BY <1>2, <1>7, <1>10 DEF Orderly, WaysOK
<1>12. SelvesOK(s)
  <2>1. \A d \in Clients : IsAttached(w, d) => IsAttached(s, d)
    BY <1>7, <1>8 DEF IsAttached
  <2> QED BY <1>2, <1>7, <1>8, <1>10, <2>1 DEF Orderly, SelvesOK
<1>13. NumbersOK(s)
  BY <1>2, <1>8, <1>10 DEF Orderly, NumbersOK
<1>14. PlanOK(q) /\ q.list = list /\ q.busy = {Host}
  BY <1>1, <1>2, PlanIs
<1>15. Follows(s, q)
  <2>1. \A m \in Members : /\ Setting(s, m) <=> m \in {Host}
                           /\ s.member[m].phase # "playing" /\ s.member[m].ended = 0
    <3>1. \A m \in Members : s.member[m].ended = 0 /\ (Setting(s, m) <=> m \in {Host})
      BY <1>2, <1>8, <1>10 DEF WaitOK
    <3>2. \A m \in Members : s.member[m].phase # "playing"
      BY <1>9, <1>10 DEF Setting
    <3> QED BY <3>1, <3>2
  <2>2. \A id \in Ids : HasId(s, Host, id) => id = 1
    <3>1. \A x \in Members : \A m \in Way(s, x, Host) : m.msg # "PLAYER_ID"
      <4>1. ASSUME NEW x \in Members, NEW m \in Way(s, x, Host) PROVE m.msg # "PLAYER_ID"
        <5>1. w.chan[x][Host] \in Seq(ToHost) /\ m \in ToSet(w.chan[x][Host])
          BY <1>7, <4>1, Parts DEF Understood, Way
        <5>2. m \in ToHost
          <6> HIDE DEF ToHost
          <6> QED BY <5>1 DEF ToSet
        <5> QED BY <5>2, ToHostHolds
      <4> QED BY <4>1
    <3> QED BY <1>4, <1>8, <3>1 DEF HasId
  <2>3. \A x, y \in Members : ~Carries(s, x, y, "END_SETTING")
    BY <1>2, <1>10 DEF WaitOK
  <2> HIDE DEF q
  <2>4. Follows(s, PlanOf(w, list, {Host}))
    <3>1. {Host} \in SUBSET {Host} /\ ({Host} # {} => 1 \in ToSet(list))
      BY <1>1
    <3> QED BY <1>1, <1>2, <1>3, <1>10, <2>1, <2>2, <2>3, <3>1, PlanFollowed
  <2> QED BY <2>4 DEF q
<1>16. ~InLobby(s)
  BY <1>9 DEF InLobby
<1>17. Course(s, q)
  BY <1>11, <1>12, <1>13, <1>14, <1>15, <1>16 DEF Course, Orderly
<1> QED BY <1>3, <1>14, <1>16, <1>17 DEF q

\* The host sets up the game.
LEMMA HostSetUp ==
  ASSUME NEW w, NEW p, IInv(w), Course(w, p), w.member[Host].phase = "lobby",
         ToSet(w.member[Host].reg) \subseteq w.lobby.ready
  PROVE  OnCourse(SetUp(w, Host, StartersOf(w)))
<1> DEFINE list == StartersOf(w)
           s == [w EXCEPT !.member[Host].phase = "setting", !.member[Host].nations = list]
           q == PlanOf(w, list, {Host})
           closed == disable_new_connections(s, Host)
           told == Broadcast(closed, Host, StartOf(list))
<1>1. /\ IInv(s) /\ Course(s, q) /\ s.member[Host].phase = "setting" /\ ~InLobby(s)
      /\ q.list = list /\ q.busy = {Host}
  BY HostBegins
<1>2. Host \in Members
  BY TheMembers
<1>3. SetUp(w, Host, list) = Broadcast(told, Host, HasSetUp)
  BY DEF SetUp, HasSetUp, StartOf
<1> HIDE DEF s, q
<1>4. told = IF Host = Host THEN Broadcast(closed, Host, StartOf(q.list)) ELSE closed
  BY <1>1
<1> QED BY <1>1, <1>2, <1>3, <1>4, SetUpGoes

\* The host leaves: without a game, if it was in the lobby.
LEMMA HostGoes ==
  ASSUME NEW w, NEW p, IInv(w), Course(w, p), p.busy = {}, NEW v, v = Gone(w, Host)
  PROVE  OnCourse(v)
<1> USE TheMembers
<1>1. Plain(w, v) /\ HasLeft(v, Host)
  <2>1. LET x == Gone(w, Host) IN Plain(w, x) /\ HasLeft(x, Host)
    BY GoneIsPlain
  <2> QED BY <2>1
<1>2. Orderly(v) /\ ~InLobby(v) /\ PlanOK(p) /\ p \in Plans
  <2>1. Orderly(w) /\ PlanOK(p)
    BY DEF Course
  <2>2. Orderly(v)
    BY <1>1, <2>1, PlainIsOrderly
  <2> QED BY <1>1, <2>1, <2>2 DEF HasLeft, InLobby, PlanOK
<1>3. CASE ~InLobby(w)
  <2>1. Follows(w, p)
    BY <1>3 DEF Course
  <2>2. Follows(v, p)
    BY <1>1, <1>2, <2>1, PlainFollows
  <2> QED BY <1>2, <2>2 DEF OnCourse, Course
<1>4. CASE InLobby(w)
  <2> DEFINE q == PlanOf(w, <<>>, {})
  <2>1. WaitOK(w) /\ NotStarted(w)
    BY <1>4 DEF Course, IInv, GameOK, InLobby
  <2>2. <<>> \in Seq(Ids) /\ ToSet(<<>>) = {} /\ {} \in SUBSET {Host}
    BY NothingThere
  <2>3. PlanOK(q) /\ q.busy = {}
    <3> DEFINE none == <<>>
               nobody == {}
    <3>1. none \in Seq(Ids) /\ nobody \in SUBSET {Host} /\ (nobody # {} => 1 \in ToSet(none))
      BY <2>2
    <3>2. nobody = {} /\ q = PlanOf(w, none, nobody)
      OBVIOUS
    <3> HIDE DEF none, nobody, q
    <3>3. LET x == PlanOf(w, none, nobody) IN PlanOK(x) /\ x.busy = nobody
      BY <1>4, <3>1, PlanIs
    <3> QED BY <3>2, <3>3
  <2>4. \A m \in Members : /\ ~Setting(v, m) /\ v.member[m].ended = 0
                           /\ v.member[m].phase # "playing"
    <3>1. \A m \in Members : (Setting(v, m) => Setting(w, m)) /\ v.member[m].ended \in {w.member[m].ended, 0}
      BY <1>1, PlainLeaves
    <3> QED BY <2>1, <3>1 DEF NotStarted, WaitOK, Setting
  <2>5. \A x, y \in Members : ~Carries(v, x, y, "END_SETTING") /\ ~Carries(v, x, y, "START_GAME")
    <3>1. \A x, y \in Members : \A k \in {"END_SETTING", "START_GAME", "PLAYER_ID"} :
            Carries(v, x, y, k) => Carries(w, x, y, k)
      BY <1>1, PlainLeaves
    <3> QED BY <2>1, <3>1 DEF WaitOK, NotStarted
  <2>6. /\ \A c \in Clients, id \in Ids : /\ HasId(v, c, id) => HasId(w, c, id)
                                          /\ IsOnWay(v, c, id) => IsOnWay(w, c, id)
        /\ \A c \in Clients : HasLeft(w, c) => HasLeft(v, c)
    BY <1>1, PlainLeaves
  <2>7. Plays(v, <<>>)
    BY <2>4, <2>5 DEF Plays, Carries
  <2> HIDE DEF q
  <2>8. Follows(v, PlanOf(w, <<>>, {}))
    <3> DEFINE none == <<>>
               nobody == {}
    <3>1. /\ none \in Seq(Ids) /\ ToSet(none) \subseteq w.lobby.ready
          /\ nobody \in SUBSET {Host} /\ nobody = {}
      BY <2>2
    <3>2. Plays(v, none)
      BY <2>7
    <3>3. \A x, y \in Members : ~Carries(v, x, y, "END_SETTING")
      BY <2>5
    <3> HIDE DEF none, nobody
    <3>4. \A m \in Members : /\ Setting(v, m) <=> m \in nobody
                             /\ v.member[m].phase # "playing" /\ v.member[m].ended = 0
      BY <2>4, <3>1
    <3>5. nobody # {} => 1 \in ToSet(none)
      BY <3>1
    <3>6. HasLeft(v, Host) \/ \A id \in Ids : HasId(v, Host, id) => id = 1
      BY <1>1
    <3>7. Follows(v, PlanOf(w, none, nobody))
      BY <1>4, <2>1, <2>6, <3>1, <3>2, <3>3, <3>4, <3>5, <3>6, PlanFollowed
    <3> QED BY <3>7 DEF none, nobody
  <2>9. Follows(v, q)
    BY <2>8 DEF q
  <2>10. Course(v, q)
    BY <1>2, <2>3, <2>9 DEF Course
  <2> QED BY <2>3, <2>10 DEF OnCourse, PlanOK
<1> QED BY <1>3, <1>4

\* The host says that it closes the lobby, and leaves.
LEMMA HostAborts ==
  ASSUME NEW w, NEW p, IInv(w), Course(w, p), p.busy = {},
         NEW v, v = Gone(Broadcast(w, Host, [msg |-> "ABORT_GAME"]), Host)
  PROVE  OnCourse(v)
<1> USE TheMembers
<1> DEFINE e == [msg |-> "ABORT_GAME"]
           u == Broadcast(w, Host, e)
<1>1. \A b \in Members \ {Host} :
        /\ e \in Understood(b) /\ Mild(w, Host, b, e) /\ Harmless(w, b, e)
        /\ e.msg # "ACCEPT_NEW_PLAYER"
  BY DEF Understood, ToClient, Mild, Harmless
<1>2. v = Gone(u, Host)
  OBVIOUS
<1> HIDE DEF e
<1>3. w.peer[Host][Host] = None
  BY DEF IInv, HostOK
<1>4. Mute(w, u)
  BY <1>1, <1>3, BroadcastIsMute
<1>5. IInv(u)
  BY <1>1, BroadcastIsCalm
<1>6. Course(u, p)
  BY <1>4, <1>5, MuteKeeps
<1> HIDE DEF u
<1> QED BY <1>2, <1>5, <1>6, HostGoes

\* A client leaves.
LEMMA ClientGoes ==
  ASSUME NEW w, NEW p, IInv(w), Course(w, p), p.busy = {}, NEW c \in Clients
  PROVE  OnCourse(Gone(w, c))
<1>1. c \in Members
  BY TheMembers
<1>2. Mute(w, Gone(w, c)) /\ IInv(Gone(w, c))
  BY <1>1, ClientGoneIsMute, GoneIsCalm
<1> QED BY <1>2, OnCourseBy

---------------------------------------------------------------------------
(* Nobody is ahead: the game begins.                                       *)

\* There are not more ids of a list than it is long.
LEMMA NoMoreThanListed ==
  ASSUME NEW list \in Seq(Ids), NEW S \in SUBSET Members, NEW f,
         \A m \in S : f[m] \in ToSet(list),
         \A m, n \in S : f[m] = f[n] => m = n
  PROVE  Cardinality(S) \in Nat /\ Cardinality(S) <= Len(list)
<1> DEFINE n == Len(list)
           T == ToSet(list)
           g == [i \in 1..n |-> list[i]]
           h == [m \in S |-> f[m]]
<1>1. n \in Nat /\ DOMAIN list = 1..n
  <2> HIDE DEF Ids
  <2> QED OBVIOUS
<1>2. IsFiniteSet(1..n) /\ Cardinality(1..n) = n
  <2> HIDE DEF n
  <2> QED BY <1>1, FS_Interval
<1>3. g \in Surjection(1..n, T)
  <2>1. g \in [1..n -> T] /\ \A t \in T : \E i \in 1..n : g[i] = t
    <3> HIDE DEF n
    <3> QED BY <1>1 DEF ToSet
  <2> HIDE DEF g, T, n
  <2> QED BY <2>1 DEF Surjection
<1>4. IsFiniteSet(T) /\ Cardinality(T) <= n
  <2> HIDE DEF g, T, n
  <2> QED BY <1>2, <1>3, FS_Surjection
<1>5. h \in Injection(S, T)
  <2>1. h \in [S -> T] /\ DOMAIN h = S /\ \A a, b \in S : h[a] = h[b] => a = b
    OBVIOUS
  <2> HIDE DEF h, T
  <2>2. IsInjective(h)
    BY <2>1 DEF IsInjective
  <2> QED BY <2>1, <2>2 DEF Injection
<1>6. Cardinality(S) <= Cardinality(T)
  <2> HIDE DEF h, T
  <2> QED BY <1>4, <1>5, FS_Injection
<1>7. Cardinality(S) \in Nat /\ Cardinality(T) \in Nat
  <2>1. IsFiniteSet(S)
    BY TheMembers, FS_Subset
  <2> HIDE DEF T
  <2> QED BY <1>4, <2>1, FS_CardinalityType
<1> HIDE DEF n, T
<1>8. Cardinality(S) <= n
  BY <1>1, <1>4, <1>6, <1>7
<1> QED BY <1>7, <1>8 DEF n

\* Who has heard of all the others begins, when all those who play have set up the game.
LEMMA AllHaveSetUp ==
  ASSUME NEW w, NEW p, IInv(w), Course(w, p), p.busy = {}, ~InLobby(w),
         NEW a \in Members, w.member[a].phase = "setting",
         w.member[a].ended >= Len(w.member[a].nations) - 1,
         NEW n \in Members, w.member[n].my_id \in ToSet(p.list)
  PROVE  Setting(w, n)
<1> USE TheMembers
<1>1. /\ PlanOK(p) /\ p \in Plans /\ p.list \in Seq(Ids) /\ Follows(w, p) /\ Orderly(w)
      /\ p.done \in SUBSET Members /\ p.id \in [Members -> Nat]
  BY DEF Course, PlanOK, Plans
<1>2. Setting(w, a) /\ ~HasLeft(w, a) /\ a \in p.done /\ w.member[a].nations = p.list
  <2>1. Setting(w, a) /\ ~HasLeft(w, a)
    BY DEF Setting, HasLeft
  <2> QED BY <1>1, <2>1 DEF Follows, Plays
<1>3. w.member[a].ended \in Nat
  BY Parts DEF MemberRecords
<1> DEFINE D == p.done
           H == HeardOf(w, D, a)
           k == Len(p.list)
<1>4. w.member[a].ended <= Cardinality(H)
  BY <1>1, <1>2 DEF Follows
<1>5. H \in SUBSET (D \ {a})
  BY DEF HeardOf
<1>6. IsFiniteSet(D) /\ Cardinality(D) \in Nat
  BY <1>1, FS_Subset, FS_CardinalityType
<1> HIDE DEF H, D
<1>7. IsFiniteSet(D \ {a}) /\ Cardinality(D \ {a}) = Cardinality(D) - 1
  BY <1>2, <1>6, FS_RemoveElement DEF D
<1>8. Cardinality(H) <= Cardinality(D \ {a}) /\ Cardinality(H) \in Nat
  BY <1>5, <1>7, FS_Subset, FS_CardinalityType
<1>9. k \in Nat
  BY <1>1
<1>10. Cardinality(D) >= k
  <2>1. w.member[a].ended >= k - 1
    BY <1>2
  <2> HIDE DEF k
  <2> QED BY <1>3, <1>4, <1>6, <1>7, <1>8, <1>9, <2>1
<1>11. w.member[n].my_id \in Ids /\ w.member[n].my_id # 0 /\ ~HasLeft(w, n)
  <2>1. w.member[n].my_id \in Nat /\ w.member[n].my_id # 0
    BY <1>1, MembersOfSeq
  <2> QED BY <1>1, <2>1 DEF Orderly, NumbersOK, Ids
<1>12. p.id[n] = w.member[n].my_id
  BY <1>1, <1>11 DEF Follows, HasId
<1>13. n \in D
  <2> SUFFICES ASSUME n \notin D PROVE FALSE
    OBVIOUS
  <2> DEFINE S == D \cup {n}
  <2>1. Cardinality(S) = Cardinality(D) + 1
    BY <1>6, FS_AddElement
  <2>2. S \in SUBSET Members
    BY <1>1 DEF D
  <2>3. \A m \in S : p.id[m] \in ToSet(p.list)
    BY <1>1, <1>12 DEF PlanOK, D
  <2>4. \A m \in S : p.id[m] # 0
    BY <1>1, <2>3, MembersOfSeq
  <2>5. \A m, q \in S : p.id[m] = p.id[q] => m = q
    BY <1>1, <2>2, <2>4 DEF PlanOK
  <2> HIDE DEF S
  <2>6. Cardinality(S) <= k
    <3> DEFINE f == p.id
               list == p.list
    <3>1. list \in Seq(Ids) /\ (\A m \in S : f[m] \in ToSet(list)) /\ (\A m, q \in S : f[m] = f[q] => m = q)
      BY <1>1, <2>3, <2>5
    <3> HIDE DEF f, list
    <3>2. Cardinality(S) <= Len(list)
      BY <2>2, <3>1, NoMoreThanListed
    <3> QED BY <3>2 DEF list
  <2> HIDE DEF k
  <2> QED BY <1>6, <1>9, <1>10, <2>1, <2>6
<1> QED BY <1>1, <1>11, <1>13 DEF Follows, D

\* A member begins to play: those who will play have set up the game.
LEMMA PlayBegins ==
  ASSUME NEW w, NEW p, IInv(w), Course(w, p), p.busy = {}, NEW a \in Members,
         w.member[a].phase = "setting",
         ~InLobby(w) => \A n \in Members : w.member[n].my_id \in ToSet(p.list) => Setting(w, n),
         NEW v, v = [w EXCEPT !.member[a].phase = "playing"]
  PROVE  OnCourse(v)
<1> USE TheMembers
<1>1. ~InLobby(w)
  BY DEF IInv, GameOK, InLobby, NotStarted, Setting
<1>2. /\ PlanOK(p) /\ p \in Plans /\ Orderly(w) /\ Follows(w, p)
  BY <1>1 DEF Course, PlanOK
<1>3. /\ IsWorld(w) /\ MembersTyped(w.member) /\ w.member[a] \in MemberRecords
  BY Parts DEF IInv, TypeOK
<1> DEFINE r == [w.member[a] EXCEPT !.phase = "playing"]
           fm == [w.member EXCEPT ![a] = r]
<1>4. v = [w EXCEPT !.member = fm]
  BY <1>3 DEF IsWorld, MembersTyped, MemberRecords
<1>5. /\ fm[a] = r /\ (\A m \in Members : m # a => fm[m] = w.member[m])
      /\ r.phase = "playing" /\ r.my_id = w.member[a].my_id
      /\ r.nations = w.member[a].nations /\ r.ended = w.member[a].ended
  BY <1>3 DEF MembersTyped, MemberRecords
<1> HIDE DEF fm, r
<1>6. v.member = fm /\ v.peer = w.peer /\ v.pending = w.pending /\ v.chan = w.chan /\ v.lobby = w.lobby
  <2>1. LET u == [w EXCEPT !.member = fm]
        IN  u.member = fm /\ u.peer = w.peer /\ u.pending = w.pending /\ u.chan = w.chan
            /\ u.lobby = w.lobby
    BY <1>3, MemberSet
  <2> QED BY <1>4, <2>1
<1>7. \A m \in Members : /\ m # a => v.member[m] = w.member[m]
                         /\ v.member[m].my_id = w.member[m].my_id
                         /\ v.member[m].nations = w.member[m].nations
                         /\ v.member[m].ended = w.member[m].ended
  BY <1>5, <1>6
<1>8. v.member[a].phase = "playing"
  BY <1>5, <1>6
<1>9. /\ \A x, y \in Members : Way(v, x, y) = Way(w, x, y)
      /\ \A x, y \in Members : \A k : Carries(v, x, y, k) <=> Carries(w, x, y, k)
      /\ \A m \in Members : \A id : HasId(v, m, id) <=> HasId(w, m, id)
      /\ \A m \in Members : \A id : IsOnWay(v, m, id) <=> IsOnWay(w, m, id)
      /\ \A m \in Members : /\ HasLeft(v, m) <=> HasLeft(w, m)
                            /\ Setting(v, m) <=> Setting(w, m)
                            /\ IsEarly(v, m) <=> IsEarly(w, m)
      /\ \A m \in Clients : IsNew(v, m) => IsNew(w, m)
  <2>1. \A x, y \in Members : Way(v, x, y) = Way(w, x, y)
    BY <1>6 DEF Way
  <2>2. \A x, y \in Members : \A k : Carries(v, x, y, k) <=> Carries(w, x, y, k)
    BY <2>1 DEF Carries
  <2>3. \A m \in Members : \A id : /\ HasId(v, m, id) <=> HasId(w, m, id)
                                   /\ IsOnWay(v, m, id) <=> IsOnWay(w, m, id)
    BY <1>7, <2>1 DEF HasId, IsOnWay
  <2>4. \A m \in Members : /\ HasLeft(v, m) <=> HasLeft(w, m)
                           /\ Setting(v, m) <=> Setting(w, m)
                           /\ IsEarly(v, m) <=> IsEarly(w, m)
    BY <1>7, <1>8 DEF HasLeft, IsEarly, Setting
  <2>5. \A m \in Clients : IsNew(v, m) => IsNew(w, m)
    BY <1>7, <1>8, <2>2 DEF IsNew
  <2> QED BY <2>1, <2>2, <2>3, <2>4, <2>5
<1>10. WaysOK(v)
  BY <1>2, <1>6, <1>9 DEF Orderly, WaysOK
<1>11. SelvesOK(v)
  <2>1. \A d \in Clients : IsAttached(w, d) => IsAttached(v, d)
    BY <1>6, <1>7, <1>8 DEF IsAttached
  <2>2. \A d \in Clients : /\ v.peer[d][d] = None /\ v.chan[d][d] = <<>>
                           /\ \A e \in v.pending[d] : e.who # d
    BY <1>2, <1>6 DEF Orderly, SelvesOK
  <2>3. \A d \in Clients : IsAttached(v, d)
    BY <1>2, <2>1 DEF Orderly, SelvesOK
  <2>4. ASSUME NEW d \in Clients, IsEarly(v, d)
        PROVE  Introduced(v.chan[Host][d], d, v.member[d].my_id)
    <3>1. IsEarly(w, d) /\ v.chan = w.chan /\ v.member[d].my_id = w.member[d].my_id
      BY <1>6, <1>7, <1>9, <2>4
    <3> QED BY <1>2, <3>1 DEF Orderly, SelvesOK
  <2> QED BY <2>2, <2>3, <2>4 DEF SelvesOK
<1>12. NumbersOK(v)
  BY <1>2, <1>7, <1>9 DEF Orderly, NumbersOK
<1>13. Follows(v, p)
  <2>1. Plays(v, p.list)
    <3>1. Plays(w, p.list)
      BY <1>2 DEF Follows
    <3>2. \A m \in Members : Setting(v, m) => v.member[m].nations = p.list
      BY <1>7, <1>9, <3>1 DEF Plays
    <3>3. \A x, y \in Members : \A m \in Way(v, x, y) : m.msg = "START_GAME" => m.list = p.list
      BY <1>9, <3>1 DEF Plays
    <3> QED BY <3>2, <3>3 DEF Plays
  <2>2. /\ \A m \in Members : Setting(v, m) => m \in p.done \cup p.busy
        /\ \A m \in p.done \cup p.busy : Setting(v, m) \/ HasLeft(v, m)
    <3>1. p.done \cup p.busy \subseteq Members
      BY <1>2 DEF Plans
    <3> QED BY <1>2, <1>9, <3>1 DEF Follows
  <2>3. /\ \A m \in Members, id \in Ids : HasId(v, m, id) /\ ~HasLeft(v, m) => p.id[m] = id
        /\ \A d \in Clients, id \in Ids : IsOnWay(v, d, id) /\ ~HasLeft(v, d) => id \notin ToSet(p.list)
        /\ \A x, y \in Members : Carries(v, x, y, "END_SETTING") => x \in p.done /\ x # y
    BY <1>2, <1>9 DEF Follows
  <2>4. \A m \in Members : ~HasLeft(v, m) => v.member[m].ended <= Cardinality(HeardOf(v, p.done, m))
    <3>1. \A m \in Members : HeardOf(v, p.done, m) = HeardOf(w, p.done, m)
      BY <1>2, <1>9 DEF HeardOf, Plans
    <3> QED BY <1>2, <1>7, <1>9, <3>1 DEF Follows
  <2>5. \A n \in Members : v.member[n].my_id \in ToSet(p.list) => Setting(v, n)
    BY <1>1, <1>7, <1>9
  <2> QED BY <2>1, <2>2, <2>3, <2>4, <2>5 DEF Follows
<1>14. ~InLobby(v)
  BY <1>1, <1>7, <1>8 DEF InLobby
<1>15. Course(v, p)
  BY <1>2, <1>10, <1>11, <1>12, <1>13, <1>14 DEF Course, Orderly
<1> QED BY <1>2, <1>15 DEF OnCourse

---------------------------------------------------------------------------
(* Nobody is ahead: the steps.                                             *)

\* A step to a world on course
LEMMA ComesTo ==
  ASSUME NEW v, IsWorld(v), OnCourse(v), Become(v)
  PROVE  OnCourse(World)'
<1>1. World' = v
  BY DEF Become, World, IsWorld
<1>2. OnCourse(World')
  BY <1>1
<1> QED BY <1>2

\* A step that does not matter
LEMMA ComesMutely ==
  ASSUME Inv, Inv', OnCourse(World), NEW v, Become(v), Mute(World, v)
  PROVE  OnCourse(World)'
<1> DEFINE w == World
           x == World'
<1>1. IInv(w) /\ IInv(x) /\ OnCourse(w) /\ Mute(w, v)
  BY DEF Inv
<1>2. /\ x.member = v.member /\ x.peer = v.peer /\ x.pending = v.pending
      /\ x.chan = v.chan /\ x.lobby = v.lobby
  BY DEF Become, World
<1> HIDE DEF w, x
<1>3. Mute(v, x)
  BY <1>2, LobbyMute
<1>4. Mute(w, x)
  BY <1>1, <1>3, MuteTwice
<1>5. PICK p \in Plans : p.busy = {} /\ Course(w, p)
  BY <1>1 DEF OnCourse
<1>6. OnCourse(x)
  BY <1>1, <1>4, <1>5, OnCourseBy
<1> QED BY <1>6 DEF x

\* At first nobody knows anybody.
LEMMA BeginsOnCourse == Init => OnCourse(World)
<1> USE TheMembers
<1> SUFFICES ASSUME Init PROVE OnCourse(World)
  OBVIOUS
<1> DEFINE w == World
           none == <<>>
           p == [list |-> none, id |-> [m \in Members |-> 0], done |-> {}, busy |-> {}]
<1>1. /\ w.member = member /\ w.peer = peer /\ w.pending = pending
      /\ w.chan = chan /\ w.lobby = lobby
  BY Worlds
<1> HIDE DEF w
<1>2. /\ \A c \in Clients : w.member[c] = Newcomer
      /\ w.member[Host].phase = "lobby" /\ w.member[Host].my_id = 1 /\ w.member[Host].ended = 0
  <2>1. PICK first \in Colours :
          member = [m \in Members |->
             IF m = Host THEN [Newcomer EXCEPT !.phase = "lobby", !.my_id = 1, !.colour = first,
                                               !.reg = <<1>>]
             ELSE Newcomer]
    BY DEF Init
  <2>2. \A c \in Clients : w.member[c] = Newcomer
    BY <1>1, <2>1
  <2>3. w.member[Host] = [Newcomer EXCEPT !.phase = "lobby", !.my_id = 1, !.colour = first,
                                          !.reg = <<1>>]
    BY <1>1, <2>1
  <2> QED BY <2>2, <2>3 DEF Newcomer
<1>3. /\ \A m, n \in Members : w.peer[m][n] = None /\ w.chan[m][n] = <<>> /\ Way(w, m, n) = {}
      /\ \A m \in Members : w.pending[m] = {}
  BY <1>1, NothingThere DEF Init, Way
<1>4. /\ \A m \in Members : w.member[m].phase # "out" /\ w.member[m].ended = 0
      /\ \A c \in Clients : w.member[c].phase = "away" /\ w.member[c].my_id = 0
  BY <1>2 DEF Newcomer
<1>5. PlanOK(p) /\ p \in Plans /\ p.busy = {}
  <2>1. none \in Seq(Ids)
    BY NothingThere
  <2> HIDE DEF none
  <2>2. p \in Plans
    BY <2>1 DEF Plans
  <2> QED BY <2>2 DEF PlanOK
<1>6. WaysOK(w)
  BY <1>3 DEF WaysOK, AtMostOne
<1>7. SelvesOK(w)
  BY <1>3, <1>4 DEF SelvesOK, IsAttached, Introduced
<1>8. NumbersOK(w)
  BY <1>3, <1>4 DEF NumbersOK, HasId, HasLeft, Ids
<1>9. WaitOK(w)
  BY <1>3, <1>4 DEF WaitOK, Carries, IsOnWay
<1>10. InLobby(w)
  BY <1>2 DEF InLobby
<1>11. Course(w, p)
  BY <1>5, <1>6, <1>7, <1>8, <1>9, <1>10 DEF Course, Orderly
<1> HIDE DEF p
<1> QED BY <1>5, <1>11 DEF OnCourse, w

\* A client that joins contacts the host at once.
LEMMA JoinIsMute ==
  ASSUME NEW w, IInv(w), NEW c \in Clients, w.member[c].phase = "away",
         NEW v, v = Contact([w EXCEPT !.member[c].phase = "joining"], c, Host, 1)
  PROVE  Mute(w, v)
<1> USE TheMembers
<1> DEFINE r == [w.member[c] EXCEPT !.phase = "joining"]
           fm == [w.member EXCEPT ![c] = r]
           d == Player(1, TRUE, "connecting")
           fp == [w.peer EXCEPT ![c][Host] = d]
           s == <<[msg |-> IF IsOut(w, Host) THEN "DISCONNECT" ELSE "CONNECT"]>>
           fc == [w.chan EXCEPT ![Host][c] = s]
           x == Contact(w, c, Host, 1)
           x1 == [w EXCEPT !.peer = fp]
           x2 == [x1 EXCEPT !.chan = fc]
           v1 == [w EXCEPT !.member = fm]
           v2 == [v1 EXCEPT !.peer = fp]
           v3 == [v2 EXCEPT !.chan = fc]
<1>1. /\ IsWorld(w) /\ MembersTyped(w.member) /\ PeersTyped(w.peer) /\ ChansTyped(w.chan)
      /\ w.member[c] \in MemberRecords
  BY Parts DEF IInv, TypeOK
<1>2. /\ fm[c] = r /\ (\A m \in Members : m # c => fm[m] = w.member[m])
      /\ r.phase = "joining" /\ r.my_id = w.member[c].my_id
      /\ r.nations = w.member[c].nations /\ r.ended = w.member[c].ended
  BY <1>1 DEF MembersTyped, MemberRecords
<1>3. [w EXCEPT !.member[c].phase = "joining"] = v1
  BY <1>1 DEF IsWorld, MembersTyped, MemberRecords
<1>4. fp[c][Host] = d /\ d.id = 1 /\ d # None /\ \A n \in Members : n # Host => fp[c][n] = w.peer[c][n]
  <2>1. d.id = 1 /\ d \in Players
    BY DEF Player, Players
  <2>2. d # None
    BY <2>1, SetupAssumption
  <2> HIDE DEF d
  <2> QED BY <1>1, <2>1, <2>2 DEF PeersTyped
<1>5. /\ v1.member = fm /\ v1.peer = w.peer /\ v1.pending = w.pending /\ v1.chan = w.chan
      /\ v1.lobby = w.lobby /\ IsWorld(v1)
  <2> HIDE DEF fm
  <2> QED BY <1>1, MemberSet
<1>6. x = x2
  <2> HIDE DEF d
  <2>1. x = [[w EXCEPT !.peer[c][Host] = d] EXCEPT !.chan[Host][c] = s]
    BY DEF Contact, d
  <2> QED BY <1>1, <2>1 DEF IsWorld
<1>7. v = v3
  <2>1. IsOut(v1, Host) = IsOut(w, Host)
    <3> HIDE DEF fm, v1
    <3> QED BY <1>2, <1>5 DEF IsOut
  <2> HIDE DEF d, v1
  <2>2. v = [[v1 EXCEPT !.peer[c][Host] = d] EXCEPT !.chan[Host][c] = s]
    BY <1>3, <2>1 DEF Contact, d
  <2> QED BY <1>5, <2>2 DEF IsWorld
<1> HIDE DEF fm, fp, fc, r, d, s
<1>8. IsWorld(x1) /\ x1.peer = fp /\ x1.member = w.member /\ x1.pending = w.pending /\ x1.lobby = w.lobby
  BY <1>1, PeerSet
<1> HIDE DEF x1
<1>9. x2.chan = fc /\ x2.peer = fp /\ x2.member = w.member /\ x2.pending = w.pending /\ x2.lobby = w.lobby
  BY <1>8, ChanSet
<1> HIDE DEF x2, v1
<1>10. IsWorld(v2) /\ v2.peer = fp /\ v2.member = fm /\ v2.pending = w.pending /\ v2.lobby = w.lobby
  BY <1>5, PeerSet
<1> HIDE DEF v2
<1>11. v3.chan = fc /\ v3.peer = fp /\ v3.member = fm /\ v3.pending = w.pending /\ v3.lobby = w.lobby
  BY <1>10, ChanSet
<1> HIDE DEF v3
<1>12. Mute(w, x)
  <2>1. w.member[c].phase # "out" /\ Host # c /\ 1 \in Nat
    OBVIOUS
  <2> HIDE DEF x
  <2> QED BY <2>1, ContactIsMute DEF x
<1> HIDE DEF x
<1>13. Mute(x, v)
  <2>1. x.member[c].phase = "away" /\ Passive(x.member[c], v.member[c])
    BY <1>2, <1>6, <1>7, <1>9, <1>11 DEF Passive
  <2>2. Aside(x, v, c)
    BY <1>4, <1>6, <1>7, <1>9, <1>11 DEF Aside, IsAttached
  <2>3. /\ v.chan = x.chan /\ v.lobby = x.lobby
        /\ \A m \in Members : m # c =>
             v.member[m] = x.member[m] /\ v.peer[m] = x.peer[m] /\ v.pending[m] = x.pending[m]
    BY <1>2, <1>6, <1>7, <1>9, <1>11
  <2> QED BY <2>1, <2>2, <2>3, ClientAloneMute
<1> QED BY <1>12, <1>13, MuteTwice

\* A client contacts the host.
LEMMA JoinsOnCourse ==
  ASSUME Inv, OnCourse(World), NEW c \in Clients, Join(c)
  PROVE  OnCourse(World)'
<1> DEFINE w == World
           v == Contact([w EXCEPT !.member[c].phase = "joining"], c, Host, 1)
<1>1. IInv(w) /\ w.member[c].phase = "away" /\ Become(v)
  BY Worlds DEF Inv, Join
<1>2. Inv'
  BY Joins
<1>3. v = Contact([w EXCEPT !.member[c].phase = "joining"], c, Host, 1)
  OBVIOUS
<1> HIDE DEF v
<1>4. Mute(w, v)
  <2> HIDE DEF w
  <2> QED BY <1>1, <1>3, JoinIsMute
<1> QED BY <1>1, <1>2, <1>4, ComesMutely

\* A member takes an event or a message.
LEMMA ReceivesOnCourse ==
  ASSUME Inv, OnCourse(World), NEW a \in Members, NEW b \in Members, Receive(a, b)
  PROVE  OnCourse(World)'
<1> USE TheMembers
<1> DEFINE w == World
           t == [w EXCEPT !.chan[b][a] = Tail(@)]
<1>1. PICK v \in Handled(t, a, b, Head(w.chan[b][a])) : Become(v)
  BY Worlds DEF Receive
<1>2. /\ IInv(w) /\ OnCourse(w) /\ w.chan[b][a] # <<>>
      /\ w.member[a].phase \in {"joining", "lobby", "box", "setting"}
  BY Worlds DEF Inv, Receive
<1> HIDE DEF w
<1>3. PICK p \in Plans : p.busy = {} /\ Course(w, p)
  BY <1>2 DEF OnCourse
<1>4. IInv(v) /\ OnCourse(v)
  <2>1. t = [w EXCEPT !.chan[b][a] = Tail(@)]
    OBVIOUS
  <2> HIDE DEF t
  <2>2. CASE a \in Clients
    <3>1. IInv(v)
      BY <1>1, <1>2, <2>1, <2>2, ClientReceives
    <3>2. OnCourse(v)
      BY <1>1, <1>2, <1>3, <2>1, <2>2, <3>1, ClientTakes
    <3> QED BY <3>1, <3>2
  <2>3. CASE a = Host
    <3>1. IInv(v)
      BY <1>1, <1>2, <2>1, <2>3, HostReceives
    <3>2. OnCourse(v)
      BY <1>1, <1>2, <1>3, <2>1, <2>3, <3>1, HostTakes
    <3> QED BY <3>1, <3>2
  <2> QED BY <2>2, <2>3
<1>5. IsWorld(v)
  BY <1>4, Parts
<1> QED BY <1>1, <1>4, <1>5, ComesTo

\* A player chooses a colour.
LEMMA ChoosesOnCourse ==
  ASSUME Inv, OnCourse(World), NEW p \in Members, NEW c \in Colours, ChooseColour(p, c)
  PROVE  OnCourse(World)'
<1> USE TheMembers
<1> DEFINE w == World
           e == [msg |-> "ACQUIRE_COLOR", colour |-> c]
<1>1. IInv(w) /\ w.member[p].phase = "lobby" /\ w.lobby = lobby
  BY Worlds DEF Inv, ChooseColour
<1>2. Inv'
  BY Chooses
<1>3. CASE p = Host /\ c \notin lobby.assigned
  <2> DEFINE u == Coloured(w, 1, c)
             v == [u EXCEPT !.member[Host].colour = c]
  <2>1. Become(v)
    BY <1>3 DEF ChooseColour
  <2> HIDE DEF w
  <2>2. 1 \in ToSet(w.member[Host].reg) /\ ~IsOut(w, Host)
    <3>1. /\ w.member[Host].reg \in Seq(Ids) /\ ~IsOut(w, Host)
          /\ w.member[Host].reg # <<>> /\ w.member[Host].reg[1] = 1
      BY <1>1, <1>3, Parts DEF MemberRecords, IInv, HostOK, IsOut
    <3> DEFINE reg == w.member[Host].reg
    <3> HIDE DEF reg
    <3>2. 1 \in DOMAIN reg
      BY <3>1 DEF reg
    <3> QED BY <3>1, <3>2 DEF ToSet, reg
  <2>3. IInv(u) /\ Mute(w, u)
    BY <1>1, <1>3, <2>2, HostColours, ColouringIsMute
  <2> HIDE DEF u
  <2>4. Mute(u, v)
    BY <2>3, ClientRecordMute
  <2> HIDE DEF v
  <2>5. Mute(w, v)
    BY <2>3, <2>4, MuteTwice
  <2> QED BY <1>2, <2>1, <2>5, ComesMutely DEF w
<1>4. CASE p = Host /\ c \in lobby.assigned
  <2>1. Become(w)
    BY <1>4 DEF ChooseColour
  <2>2. Mute(w, w)
    <3> HIDE DEF w
    <3> QED BY NothingIsMute
  <2> QED BY <1>2, <2>1, <2>2, ComesMutely
<1>5. CASE p # Host
  <2> DEFINE v == Put(w, p, Host, e)
  <2>1. Become(v)
    BY <1>5 DEF ChooseColour
  <2> HIDE DEF w
  <2>2. e \in Understood(Host) /\ Mild(w, p, Host, e)
    BY DEF Understood, ToHost, Mild
  <2> HIDE DEF e
  <2>3. Mute(w, v)
    BY <1>1, <1>5, <2>2, PutIsMute
  <2> HIDE DEF v
  <2> QED BY <1>2, <2>1, <2>3, ComesMutely DEF w
<1> QED BY <1>3, <1>4, <1>5

\* A player presses the ready button.
LEMMA PressesOnCourse ==
  ASSUME Inv, OnCourse(World), NEW p \in Members, PressReady(p)
  PROVE  OnCourse(World)'
<1> USE TheMembers
<1> DEFINE ready == ~member[p].ready
           w == World
           u == [w EXCEPT !.member[p].ready = ready]
<1>1. /\ IInv(w) /\ w.member[p].phase = "lobby" /\ Contains(w.member[p].reg, w.member[p].my_id)
      /\ ready \in BOOLEAN
  BY Worlds DEF Inv, PressReady
<1>2. /\ p = Host => Become([u EXCEPT !.lobby.ready = IF ready THEN @ \cup {1} ELSE @ \ {1}])
      /\ p # Host => Become(Put(u, p, Host, [msg |-> IF ready THEN "READY" ELSE "UNREADY"]))
  BY DEF PressReady
<1>3. Inv'
  BY PressesReady
<1> HIDE DEF w, ready
<1>4. ~IsOut(w, p)
  BY <1>1 DEF IsOut
<1>5. IInv(u)
  <2>1. CASE p = Host
    BY <1>1, <1>4, <2>1, HostFields
  <2>2. CASE p \in Clients
    BY <1>1, <1>4, <2>2, ClientFields DEF IsOut
  <2> QED BY <2>1, <2>2
<1>6. Mute(w, u)
  BY <1>1, ClientRecordMute
<1>7. u.member[p].my_id = w.member[p].my_id
  BY <1>1, Parts DEF IInv, TypeOK, MembersTyped, IsWorld, MemberRecords
<1>8. w.member[p].my_id # 0
  <2>1. w.member[p].reg \in Seq(Ids)
    BY <1>1, Parts DEF MemberRecords
  <2>2. w.member[p].my_id \in Ids
    BY <1>1, <2>1 DEF Contains
  <2> QED BY <2>2 DEF Ids
<1> HIDE DEF u
<1>9. CASE p = Host
  <2> DEFINE x == IF ready THEN u.lobby.ready \cup {1} ELSE u.lobby.ready \ {1}
             l == [u.lobby EXCEPT !.ready = x]
             v == [u EXCEPT !.lobby = l]
  <2>1. IsWorld(u) /\ LobbyTyped(u.lobby)
    BY <1>5 DEF IInv, TypeOK
  <2>2. Become(v)
    <3>1. [u EXCEPT !.lobby.ready = IF ready THEN @ \cup {1} ELSE @ \ {1}] = v
      BY <2>1 DEF IsWorld
    <3> HIDE DEF v
    <3> QED BY <1>2, <1>9, <3>1
  <2>3. l.ready \subseteq u.lobby.ready \cup {1}
    <3>1. x \subseteq u.lobby.ready \cup {1}
      OBVIOUS
    <3> HIDE DEF x
    <3>2. l.ready = x
      BY <2>1 DEF LobbyTyped
    <3> QED BY <3>1, <3>2
  <2> HIDE DEF l
  <2>4. v.member = u.member /\ v.peer = u.peer /\ v.pending = u.pending /\ v.chan = u.chan /\ v.lobby = l
    BY <2>1, LobbySet
  <2> HIDE DEF v
  <2>5. Mute(u, v)
    BY <2>3, <2>4, LobbyMute
  <2>6. Mute(w, v)
    BY <1>6, <2>5, MuteTwice
  <2> QED BY <1>3, <2>2, <2>6, ComesMutely DEF w
<1>10. CASE p # Host
  <2> DEFINE e == [msg |-> IF ready THEN "READY" ELSE "UNREADY"]
             v == Put(u, p, Host, e)
  <2>1. Become(v)
    BY <1>2, <1>10
  <2>2. e \in Understood(Host) /\ Mild(u, p, Host, e)
    BY <1>7, <1>8 DEF Understood, ToHost, Mild
  <2> HIDE DEF e
  <2>3. Mute(u, v)
    BY <1>5, <1>10, <2>2, PutIsMute
  <2> HIDE DEF v
  <2>4. Mute(w, v)
    BY <1>6, <2>3, MuteTwice
  <2> QED BY <1>3, <2>1, <2>4, ComesMutely DEF w
<1> QED BY <1>9, <1>10

\* The host starts the game.
LEMMA StartsOnCourse ==
  ASSUME Inv, OnCourse(World), PressStart
  PROVE  OnCourse(World)'
<1> DEFINE w == World
           v == SetUp(w, Host, StartersOf(w))
<1>1. /\ IInv(w) /\ OnCourse(w) /\ w.member[Host].phase = "lobby" /\ Become(v)
      /\ ToSet(w.member[Host].reg) \subseteq w.lobby.ready
  BY Worlds DEF Inv, PressStart
<1> HIDE DEF w
<1>2. PICK p \in Plans : p.busy = {} /\ Course(w, p)
  BY <1>1 DEF OnCourse
<1>3. IInv(v) /\ OnCourse(v)
  BY <1>1, <1>2, HostSetsUp, HostSetUp
<1> HIDE DEF v
<1>4. IsWorld(v)
  BY <1>3, Parts
<1> QED BY <1>1, <1>3, <1>4, ComesTo

\* A member begins to play, or tires of waiting when there is nothing to wait for.
LEMMA FinishesOnCourse ==
  ASSUME Inv, OnCourse(World), NEW a \in Members, Begin(a) \/ TimeOut(a)
  PROVE  OnCourse(World)'
<1> USE TheMembers
<1> DEFINE w == World
           v == [w EXCEPT !.member[a].phase = "playing"]
<1>1. /\ IInv(w) /\ OnCourse(w) /\ w.member[a].phase = "setting" /\ Become(v)
      /\ \/ w.member[a].ended >= Len(w.member[a].nations) - 1
         \/ \A n \in Members : Contains(w.member[a].nations, w.member[n].my_id) => Setting(w, n)
  BY Worlds DEF Inv, Begin, TimeOut, AllEnded, Setting
<1> HIDE DEF w
<1>2. PICK p \in Plans : p.busy = {} /\ Course(w, p)
  BY <1>1 DEF OnCourse
<1>3. ASSUME ~InLobby(w), NEW n \in Members, w.member[n].my_id \in ToSet(p.list)
      PROVE  Setting(w, n)
  <2>1. CASE w.member[a].ended >= Len(w.member[a].nations) - 1
    BY <1>1, <1>2, <1>3, <2>1, AllHaveSetUp
  <2>2. CASE \A q \in Members : Contains(w.member[a].nations, w.member[q].my_id) => Setting(w, q)
    <3>1. w.member[a].nations = p.list
      BY <1>1, <1>2, <1>3 DEF Course, Follows, Plays, Setting
    <3>2. p.list \in Seq(Ids)
      BY <1>2 DEF Plans
    <3>3. Contains(p.list, w.member[n].my_id)
      <4> DEFINE list == p.list
      <4> HIDE DEF list, Ids
      <4>1. list \in Seq(Ids) /\ w.member[n].my_id \in ToSet(list)
        BY <1>3, <3>2 DEF list
      <4>2. Contains(list, w.member[n].my_id)
        BY <4>1 DEF Contains, ToSet
      <4> QED BY <4>2 DEF list
    <3> QED BY <2>2, <3>1, <3>3
  <2> QED BY <1>1, <2>1, <2>2
<1>4. OnCourse(v)
  <2>1. v = [w EXCEPT !.member[a].phase = "playing"]
    OBVIOUS
  <2> HIDE DEF v
  <2> QED BY <1>1, <1>2, <1>3, <2>1, PlayBegins
<1>5. IsWorld(v)
  <2> DEFINE fm == [w.member EXCEPT ![a].phase = "playing"]
  <2>1. IsWorld(w)
    BY <1>1, Parts
  <2>2. v = [w EXCEPT !.member = fm]
    BY <2>1 DEF IsWorld
  <2> HIDE DEF fm, v
  <2> QED BY <2>1, <2>2, MemberSet
<1> HIDE DEF v
<1> QED BY <1>1, <1>4, <1>5, ComesTo

\* A player leaves.
LEMMA LeavesOnCourse ==
  ASSUME Inv, OnCourse(World), NEW a \in Members, Leave(a)
  PROVE  OnCourse(World)'
<1> USE TheMembers
<1> DEFINE w == World
           e == [msg |-> "ABORT_GAME"]
           u == Broadcast(w, Host, e)
<1>1. /\ IInv(w) /\ OnCourse(w)
      /\ Become(Gone(w, a)) \/ (a = Host /\ Become(Gone(u, a)))
  BY DEF Inv, Leave
<1> HIDE DEF w
<1>2. PICK p \in Plans : p.busy = {} /\ Course(w, p)
  BY <1>1 DEF OnCourse
<1>3. CASE Become(Gone(w, a))
  <2> DEFINE v == Gone(w, a)
  <2>1. IInv(v)
    BY <1>1, GoneIsCalm
  <2>2. OnCourse(v)
    <3>1. CASE a \in Clients
      BY <1>1, <1>2, <3>1, ClientGoes
    <3>2. CASE a = Host
      BY <1>1, <1>2, <3>2, HostGoes
    <3> QED BY <3>1, <3>2
  <2>3. Become(v)
    BY <1>3
  <2> HIDE DEF v
  <2>4. IsWorld(v)
    BY <2>1, Parts
  <2> QED BY <2>2, <2>3, <2>4, ComesTo
<1>4. CASE a = Host /\ Become(Gone(u, a))
  <2> DEFINE v == Gone(u, Host)
  <2>1. IInv(u)
    <3>1. \A b \in Members : Host # Host \/ b # Host => e \in Understood(b) /\ Harmless(w, b, e)
      BY DEF Understood, ToClient, Harmless
    <3> HIDE DEF e
    <3> QED BY <1>1, <3>1, BroadcastIsCalm
  <2>2. IInv(v)
    <3> HIDE DEF u
    <3> QED BY <2>1, GoneIsCalm
  <2>3. OnCourse(v)
    BY <1>1, <1>2, HostAborts
  <2>4. Become(v)
    BY <1>4
  <2> HIDE DEF v
  <2>5. IsWorld(v)
    BY <2>2, Parts
  <2> QED BY <2>3, <2>4, <2>5, ComesTo
<1> QED BY <1>1, <1>3, <1>4

\* Nobody plays while another who will play is still in the lobby.
LEMMA CourseKeepsAll == Inv /\ OnCourse(World) => NobodyIsAhead
<1> USE TheMembers
<1> SUFFICES ASSUME Inv, OnCourse(World), NEW m \in Members, NEW n \in Members,
                    Phase(m) = "playing", Contains(member[m].nations, member[n].my_id),
                    member[n].my_id # 0
             PROVE  Phase(n) \in {"setting", "playing"}
  BY DEF NobodyIsAhead
<1> DEFINE w == World
<1>1. IInv(w) /\ OnCourse(w) /\ w.member = member
  BY Worlds DEF Inv
<1> HIDE DEF w
<1>2. PICK p \in Plans : p.busy = {} /\ Course(w, p)
  BY <1>1 DEF OnCourse
<1>3. w.member[m].phase = "playing" /\ Setting(w, m)
  BY <1>1 DEF Phase, Setting
<1>4. ~InLobby(w)
  BY <1>1, <1>3 DEF IInv, GameOK, InLobby, NotStarted
<1>5. w.member[m].nations = p.list
  BY <1>2, <1>3, <1>4 DEF Course, Follows, Plays
<1>6. w.member[n].my_id \in ToSet(p.list)
  <2> DEFINE list == p.list
  <2>1. list \in Seq(Ids)
    BY <1>2 DEF Plans
  <2>2. Contains(list, w.member[n].my_id)
    BY <1>1, <1>5
  <2> HIDE DEF list, Ids
  <2>3. w.member[n].my_id \in ToSet(list)
    BY <2>1, <2>2 DEF Contains, ToSet
  <2> QED BY <2>3 DEF list
<1>7. Setting(w, n)
  BY <1>2, <1>3, <1>4, <1>6 DEF Course, Follows
<1> QED BY <1>1, <1>7 DEF Phase, Setting

\* Nobody plays while another who will play is still in the lobby: whoever begins has heard of
\* as many as there are others on the list, and only those on the list, each once, say that
\* they have set up the game; or has waited until nobody on the list was left in the lobby.
THEOREM NobodyLeftBehind == Spec => []NobodyIsAhead
<1>1. Init => OnCourse(World)
  BY BeginsOnCourse
<1>2. Inv /\ OnCourse(World) /\ [Next]_vars => OnCourse(World)'
  <2> SUFFICES ASSUME Inv, OnCourse(World), [Next]_vars PROVE OnCourse(World)'
    OBVIOUS
  <2>1. CASE \E c \in Clients : Join(c)
    BY <2>1, JoinsOnCourse
  <2>2. CASE \E a, b \in Members : Receive(a, b)
    BY <2>2, ReceivesOnCourse
  <2>3. CASE \E p \in Members : \E c \in Colours : ChooseColour(p, c)
    BY <2>3, ChoosesOnCourse
  <2>4. CASE \E p \in Members : PressReady(p)
    BY <2>4, PressesOnCourse
  <2>5. CASE \E p \in Members : Begin(p) \/ TimeOut(p)
    BY <2>5, FinishesOnCourse
  <2>6. CASE \E p \in Members : Leave(p)
    BY <2>6, LeavesOnCourse
  <2>7. CASE PressStart
    BY <2>7, StartsOnCourse
  <2>8. CASE UNCHANGED vars
    <3>1. World' = World
      BY <2>8 DEF vars, World
    <3> QED BY <3>1
  <2> QED BY <2>1, <2>2, <2>3, <2>4, <2>5, <2>6, <2>7, <2>8 DEF Next
<1>3. Inv /\ OnCourse(World) => NobodyIsAhead
  BY CourseKeepsAll
<1> QED BY <1>1, <1>2, <1>3, SetupInvariant, PTL DEF Spec
=============================================================================
