----------------------------- MODULE Diplomacy -----------------------------
(***************************************************************************)
(* Diplomatic messages (TalkRes) and the relations they change.            *)
(*                                                                         *)
(* A message is a record of talk_msg_array and is known by its record      *)
(* number everywhere: in the news and on the reply screen of the player it *)
(* is for, in the action queue of the AI nation it is for, and in the      *)
(* command that carries the reply of a player through the queues of a      *)
(* network game.  The array gives the number of a deleted message to the   *)
(* next one.  Deciding a reply, sending it and applying it are different   *)
(* moments, and wars, treaties, deletions and other replies fall between.  *)
(*                                                                         *)
(* Every peer executes the same commands at the same frames (Lockstep), so *)
(* one copy of the world is enough; wire holds the commands in the order   *)
(* of their execution.  Cash, food and technology are left out: messages   *)
(* about them are exchanged, valid and answered like the others.           *)
(***************************************************************************)
EXTENDS Naturals, FiniteSets, SequencesExt

CONSTANTS
  Nations, AI,
  TalkIds,                   \* the messages nations think of sending
  IsRemote,                  \* remote.is_enable(): a network game
  Enhanced,                  \* Ambition's enhancements are available
  Mortal,                    \* nations that may fall
  TALK_MSG_VALID_DAYS, DISP_NEWS_DAYS, TALK_MSG_KEEP_DAYS,   \* scaled: steps of NextPeriod
  MaxRecords,                \* bound: records in talk_msg_array
  MaxWire,                   \* bound: commands on their way
  None

Humans == Nations \ AI

ASSUME DiplomacyAssumption ==
  /\ AI \subseteq Nations /\ Mortal \subseteq Nations
  /\ IsRemote \in BOOLEAN /\ Enhanced \in BOOLEAN /\ MaxRecords \in Nat
  /\ TALK_MSG_VALID_DAYS \in Nat /\ DISP_NEWS_DAYS \in Nat /\ TALK_MSG_KEEP_DAYS \in Nat
  /\ TALK_MSG_VALID_DAYS <= DISP_NEWS_DAYS /\ DISP_NEWS_DAYS <= TALK_MSG_KEEP_DAYS

VARIABLES
  nation,   \* per nation: alive, relation and trade_treaty to the others, the talk actions queued
  talk,     \* talk_msg_array: its records and its empty rooms, last in first out
  truce,    \* pairs of nations that ceased fire less than 5 days ago
  screen,   \* per player: the message to reply to (reply_talk_msg_recno), the third nations listed
            \* for a request (talk_choice_array), or None
  wire      \* commands sent and not yet executed

vars == <<nation, talk, truce, screen, wire>>

NATION_HOSTILE == 0
NATION_TENSE == 1
NATION_NEUTRAL == 2
NATION_FRIENDLY == 3
NATION_ALLIANCE == 4
Statuses == 0..4

World == [nation |-> nation, talk |-> talk, truce |-> truce, freed |-> {}]

Status(w, a, b) == w.nation[a].relation[b]
Trades(w, a, b) == w.nation[a].trade[b]
is_talk_msg_deleted(w, r) == r \notin DOMAIN w.talk.msgs \/ w.talk.msgs[r] = None
Recnos(w) == {r \in DOMAIN w.talk.msgs : w.talk.msgs[r] # None}

---------------------------------------------------------------------------
(* Relations (NationBase).                                                 *)

set_trade_treaty_OneSided(w, a, b, flag) == [w EXCEPT !.nation[a].trade[b] = flag]

set_trade_treaty(w, a, b, flag) ==
  [w EXCEPT !.nation[a].trade[b] = flag, !.nation[b].trade[a] = flag]

\* For 5 days after a cease-fire a war does not break out again.
set_relation_status_WarKeepsTrade(w, a, b, status) ==
  IF status = NATION_HOSTILE /\ Status(w, a, b) = NATION_TENSE /\ {a, b} \in w.truce THEN w
  ELSE [w EXCEPT !.nation[a].relation[b] = status, !.nation[b].relation[a] = status,
                 !.truce = IF status = NATION_TENSE THEN @ \cup {{a, b}} ELSE @ \ {{a, b}}]

set_relation_status(w, a, b, status) ==
  IF status = NATION_HOSTILE /\ Status(w, a, b) = NATION_TENSE /\ {a, b} \in w.truce THEN w
  ELSE LET v == [w EXCEPT
             !.nation[a].relation[b] = status, !.nation[b].relation[a] = status,
             !.truce = IF status = NATION_TENSE THEN @ \cup {{a, b}} ELSE @ \ {{a, b}}]
       IN  IF status = NATION_HOSTILE THEN set_trade_treaty(v, a, b, FALSE) ELSE v

form_alliance_treaty_WithoutTrade(w, a, b) == set_relation_status(w, a, b, NATION_ALLIANCE)

form_alliance_treaty(w, a, b) ==
  set_trade_treaty(set_relation_status(w, a, b, NATION_ALLIANCE), a, b, TRUE)

---------------------------------------------------------------------------
(* Messages.                                                               *)

Notices == {"END_TRADE_TREATY", "END_FRIENDLY_TREATY", "END_ALLIANCE_TREATY", "DECLARE_WAR",
            "SURRENDER"}
AboutAThird == {"REQUEST_TRADE_EMBARGO", "REQUEST_DECLARE_WAR"}

\* The relations in which a message can be sent
StatusesFor(id) ==
  CASE id = "PROPOSE_TRADE_TREATY"    -> Statuses \ {NATION_ALLIANCE, NATION_HOSTILE}
    [] id = "PROPOSE_FRIENDLY_TREATY" -> {NATION_TENSE, NATION_NEUTRAL}
    [] id = "PROPOSE_ALLIANCE_TREATY" -> {NATION_NEUTRAL, NATION_FRIENDLY}
    [] id = "END_TRADE_TREATY"        -> Statuses \ {NATION_ALLIANCE}
    [] id = "END_FRIENDLY_TREATY"     -> {NATION_FRIENDLY}
    [] id = "END_ALLIANCE_TREATY"     -> {NATION_ALLIANCE}
    [] id = "REQUEST_TRADE_EMBARGO"   -> {NATION_FRIENDLY, NATION_ALLIANCE}
    [] id = "REQUEST_CEASE_WAR"       -> {NATION_HOSTILE}
    [] id = "REQUEST_DECLARE_WAR"     -> {NATION_ALLIANCE}
    [] id = "DECLARE_WAR"             -> {NATION_TENSE, NATION_NEUTRAL}
    [] id \in {"GIVE_TRIBUTE", "DEMAND_TRIBUTE"} -> NATION_HOSTILE..NATION_NEUTRAL
    [] id \in {"GIVE_AID", "DEMAND_AID"}         -> {NATION_FRIENDLY, NATION_ALLIANCE}
    [] id \in {"REQUEST_SURRENDER", "SURRENDER"} -> Statuses

can_send_msg(w, to, from, id) ==
  /\ Status(w, from, to) \in StatusesFor(id)
  /\ id = "PROPOSE_TRADE_TREATY" => ~Trades(w, to, from)
  /\ id = "END_TRADE_TREATY" => Trades(w, to, from)
  /\ id = "REQUEST_DECLARE_WAR" =>
       \E n \in Nations \ {from} : w.nation[n].alive /\ Status(w, from, n) = NATION_HOSTILE

\* Without the check that it still exists
FitsThird_Gone(w, m) ==
  LET third == m.talk_para1
  IN  /\ m.talk_id = "REQUEST_TRADE_EMBARGO" => ~Trades(w, m.from, third) /\ Trades(w, m.to, third)
      /\ m.talk_id = "REQUEST_DECLARE_WAR" =>
           Status(w, m.from, third) = NATION_HOSTILE /\ Status(w, m.to, third) # NATION_HOSTILE

\* The third nation a request is about is (still) one the request makes sense for.
FitsThird(w, m) ==
  LET third == m.talk_para1
  IN  /\ w.nation[third].alive
      /\ m.talk_id = "REQUEST_TRADE_EMBARGO" => ~Trades(w, m.from, third) /\ Trades(w, m.to, third)
      /\ m.talk_id = "REQUEST_DECLARE_WAR" =>
           Status(w, m.from, third) = NATION_HOSTILE /\ Status(w, m.to, third) # NATION_HOSTILE

is_valid_to_reply(w, m) ==
  /\ m.age <= TALK_MSG_VALID_DAYS
  /\ w.nation[m.from].alive /\ w.nation[m.to].alive
  /\ can_send_msg(w, m.to, m.from, m.talk_id)
  /\ m.talk_id \in AboutAThird => FitsThird(w, m)

\* Messages without an answer that say the same, whatever they say it about
SameMsgs(w, from, to, id) ==
  {r \in Recnos(w) : LET m == w.talk.msgs[r]
                     IN  /\ m.from = from /\ m.to = to /\ m.talk_id = id
                         /\ m.reply_type \in {"WAITING", "NOT_NEEDED"}}

del_talk_msg_ActionStays(w, r) ==
  [w EXCEPT !.talk.msgs[r] = None, !.talk.empty = Append(@, r), !.freed = @ \cup {r}]

\* The queue without the last action for the message
WithoutAction(queue, r) ==
  LET at == {i \in DOMAIN queue : queue[i] = r}
  IN  IF at = {} THEN queue ELSE RemoveAt(queue, Max(at))

\* The message and the action that waits to process it
del_talk_msg(w, r) ==
  LET m == w.talk.msgs[r]
      gone == [w EXCEPT !.talk.msgs[r] = None, !.talk.empty = Append(@, r), !.freed = @ \cup {r}]
  IN  IF m.to \in AI /\ m.reply_type \in {"NOT_NEEDED", "WAITING"}
      THEN [gone EXCEPT !.nation[m.to].queue = WithoutAction(@, r)] ELSE gone

\* The record numbers in the order of a walk from the last record to the first
FromTheLast(w) == LET n == Len(w.talk.msgs) IN [i \in 1..n |-> (n - i) + 1]

DelFromTheLast(w, S) ==
  FoldLeft(LAMBDA v, r : IF r \in S THEN del_talk_msg(v, r) ELSE v, w, FromTheLast(w))

delete_msg_in_reverse(w, m) == DelFromTheLast(w, SameMsgs(w, m.to, m.from, m.talk_id))

\* DynArrayB::linkin
NewRecno(w) == IF w.talk.empty = <<>> THEN Len(w.talk.msgs) + 1 ELSE Last(w.talk.empty)

linkin(w, m) ==
  IF w.talk.empty = <<>> THEN [w EXCEPT !.talk.msgs = Append(@, m)]
  ELSE [w EXCEPT !.talk.msgs[NewRecno(w)] = m, !.talk.empty = Front(@)]

\* Bound: messages on their way have their room.
HasRoom(w, k) ==
  Cardinality(Recnos(w)) + k + Len(SelectSeq(wire, LAMBDA c : c.cmd = "send")) <= MaxRecords

\* What the notices to the third nation take, if there is one
HasRoomFor(w, m) == m.talk_id \in AboutAThird => HasRoom(w, 2)

\* is_valid_to_disp: messages of a nation and requests about it go with it.
Mentions_FromOrTo(m, n) == n \in {m.from, m.to}

Mentions(m, n) == n \in {m.from, m.to} \/ (m.talk_id \in AboutAThird /\ m.talk_para1 = n)

\* NationBase::deinit
DelNation(w, n) ==
  LET v == DelFromTheLast(w, {r \in Recnos(w) : Mentions(w.talk.msgs[r], n)})
  IN  [v EXCEPT !.nation[n].alive = FALSE, !.nation[n].queue = <<>>]

\* What a notice, or an accepted message, does between the two nations
Concluded(w, m) ==
  LET v == delete_msg_in_reverse(w, m)
      f == m.from
      t == m.to
  IN  CASE m.talk_id = "PROPOSE_TRADE_TREATY"    -> set_trade_treaty(v, t, f, TRUE)
        [] m.talk_id = "PROPOSE_FRIENDLY_TREATY" -> set_relation_status(v, t, f, NATION_FRIENDLY)
        [] m.talk_id = "PROPOSE_ALLIANCE_TREATY" -> form_alliance_treaty(v, t, f)
        [] m.talk_id = "END_TRADE_TREATY"        -> set_trade_treaty(v, t, f, FALSE)
        [] m.talk_id \in {"END_FRIENDLY_TREATY", "END_ALLIANCE_TREATY"} ->
             set_relation_status(v, f, t, NATION_NEUTRAL)
        [] m.talk_id = "REQUEST_CEASE_WAR"       -> set_relation_status(v, t, f, NATION_TENSE)
        [] m.talk_id = "DECLARE_WAR"             -> set_relation_status(v, t, f, NATION_HOSTILE)
        [] m.talk_id = "REQUEST_SURRENDER"       -> DelNation(v, t)
        [] m.talk_id = "SURRENDER"               -> DelNation(v, f)
        [] OTHER -> v

Msg(from, to, id, third) ==
  [from |-> from, to |-> to, talk_id |-> id, talk_para1 |-> third, age |-> 0,
   reply_type |-> IF id \in Notices THEN "NOT_NEEDED" ELSE "WAITING"]

send_talk_msg_Unchecked(w, m) ==
  LET linked == linkin(w, m)
  IN  IF m.from \in AI /\ m.reply_type = "WAITING" /\ SameMsgs(w, m.from, m.to, m.talk_id) # {}
      THEN w
      ELSE IF m.reply_type = "NOT_NEEDED" THEN Concluded(linked, m)
      ELSE IF m.to \in AI THEN [linked EXCEPT !.nation[m.to].queue = Append(@, NewRecno(w))]
      ELSE linked

\* TalkRes::send_talk_msg, when it comes back from the network or is not sent through it
send_talk_msg(w, m) ==
  LET linked == linkin(w, m)
  IN  IF m.from \in AI /\ m.reply_type = "WAITING" /\ SameMsgs(w, m.from, m.to, m.talk_id) # {}
      THEN w
      ELSE IF ~can_send_msg(w, m.to, m.from, m.talk_id) THEN w
      ELSE IF m.reply_type = "NOT_NEEDED" THEN Concluded(linked, m)
      ELSE IF m.to \in AI THEN [linked EXCEPT !.nation[m.to].queue = Append(@, NewRecno(w))]
      ELSE linked

\* Who agrees to an embargo or to a war tells the third nation.
process_accepted_reply(w, m) ==
  LET v == Concluded(w, m)
      third == m.talk_para1
      treaty == IF Status(v, m.to, third) = NATION_ALLIANCE
                THEN "END_ALLIANCE_TREATY" ELSE "END_FRIENDLY_TREATY"
      parted == send_talk_msg(v, Msg(m.to, third, treaty, None))
  IN  CASE m.talk_id = "REQUEST_TRADE_EMBARGO" ->
             send_talk_msg(v, Msg(m.to, third, "END_TRADE_TREATY", None))
        [] m.talk_id = "REQUEST_DECLARE_WAR" ->
             IF Status(v, m.from, third) = NATION_HOSTILE
             THEN send_talk_msg(IF Status(v, m.to, third) >= NATION_FRIENDLY THEN parted ELSE v,
                                Msg(m.to, third, "DECLARE_WAR", None))
             ELSE v
        [] OTHER -> v

\* TalkRes::ai_send_talk_msg, once the interval between tries is over
ai_send_talk_msg(w, m) ==
  IF can_send_msg(w, m.to, m.from, m.talk_id) THEN send_talk_msg(w, m) ELSE w

\* think_give_tribute_aid: a gift, and the rejected request again
GiftAndAgain(w, m) ==
  LET gift == IF Status(w, m.from, m.to) >= NATION_FRIENDLY THEN "GIVE_AID" ELSE "GIVE_TRIBUTE"
  IN  IF /\ m.talk_id \in {"PROPOSE_TRADE_TREATY", "PROPOSE_FRIENDLY_TREATY",
                           "PROPOSE_ALLIANCE_TREATY", "REQUEST_CEASE_WAR"}
         /\ gift \in TalkIds /\ HasRoom(w, 2)
      THEN {ai_send_talk_msg(ai_send_talk_msg(w, Msg(m.from, m.to, gift, None)),
                             Msg(m.from, m.to, m.talk_id, m.talk_para1))}
      ELSE {}

\* What an AI nation may do when a message of its own is answered
ai_notify_reply(w, r) ==
  LET m == w.talk.msgs[r]
      status == Status(w, m.from, m.to)
      answers == IF status = NATION_ALLIANCE THEN {"END_ALLIANCE_TREATY"}
                 ELSE IF status = NATION_FRIENDLY THEN {"END_FRIENDLY_TREATY"} ELSE {"DECLARE_WAR"}
      fitting == {id \in answers : id # "DECLARE_WAR" => m.talk_id # "PROPOSE_ALLIANCE_TREATY"}
  IN  IF m.reply_type = "ACCEPT" THEN {w}
      ELSE {w} \cup GiftAndAgain(w, m)
           \cup (IF HasRoom(w, 1)
                 THEN {ai_send_talk_msg(w, Msg(m.from, m.to, id, None)) : id \in fitting} ELSE {})

\* TalkRes::reply_talk_msg, when it comes back from the network or is not sent through it
reply_talk_msg(w, r, reply) ==
  LET replied == [w EXCEPT !.talk.msgs[r].reply_type = reply]
      m == replied.talk.msgs[r]
      told == IF m.from \in AI THEN ai_notify_reply(replied, r) ELSE {replied}
  IN  IF reply = "ACCEPT" THEN {process_accepted_reply(v, m) : v \in told} ELSE told

\* The record compared has both its sender and its receiver set to the receiver.
has_sent_same_msg(w, m) == SameMsgs(w, m.to, m.to, m.talk_id) # {}

Likewise == {"PROPOSE_TRADE_TREATY", "PROPOSE_FRIENDLY_TREATY", "PROPOSE_ALLIANCE_TREATY",
             "REQUEST_TRADE_EMBARGO", "REQUEST_CEASE_WAR", "REQUEST_DECLARE_WAR"}

\* The replies an AI nation may give
consider_talk_msg(w, m) ==
  IF m.talk_id \in Likewise /\ has_sent_same_msg(w, m) THEN {"ACCEPT"} ELSE {"ACCEPT", "REJECT"}

ai_process_talk_msg_Unchecked(w, r) ==
  IF is_talk_msg_deleted(w, r) THEN {w}
  ELSE UNION {reply_talk_msg(w, r, reply) : reply \in consider_talk_msg(w, w.talk.msgs[r])}

ai_process_talk_msg(w, r) ==
  IF is_talk_msg_deleted(w, r) THEN {w}
  ELSE LET m == w.talk.msgs[r]
       IN  IF is_valid_to_reply(w, m)
           THEN UNION {reply_talk_msg(w, r, reply) : reply \in consider_talk_msg(w, m)} ELSE {w}

\* TalkRes::process_talk_msg for one record: the AI takes silence for no, old messages go.
ProcessOne(w, r) ==
  IF is_talk_msg_deleted(w, r) THEN {w}
  ELSE LET m == w.talk.msgs[r]
           silent == m.from \in AI /\ m.reply_type = "WAITING" /\ m.age > DISP_NEWS_DAYS
           heard == IF silent
                    THEN ai_notify_reply([w EXCEPT !.talk.msgs[r].reply_type = "REJECT"], r)
                    ELSE {w}
       IN  IF m.age > TALK_MSG_KEEP_DAYS THEN {del_talk_msg(v, r) : v \in heard} ELSE heard

process_talk_msg_NotTheFirst(w) ==
  FoldLeft(LAMBDA S, r : UNION {ProcessOne(v, r) : v \in S}, {w},
           SelectSeq(FromTheLast(w), LAMBDA r : r # 1))

process_talk_msg(w) ==
  FoldLeft(LAMBDA S, r : UNION {ProcessOne(v, r) : v \in S}, {w}, FromTheLast(w))

---------------------------------------------------------------------------
(* The steps.                                                              *)

\* Record numbers on screens and in commands outlive the message they were taken from.  Every
\* frame closes a screen whose message is deleted, but not one whose number has been reused, and
\* ends a conversation with a nation that is gone.
Become(w, scr, cmds) ==
  LET Stale(x) == IF x.recno \in w.freed THEN [x EXCEPT !.stale = TRUE] ELSE x
      Shown(x) == IF x = None THEN None
                  ELSE IF x.shows = "thirds" THEN IF w.nation[x.to].alive THEN x ELSE None
                  ELSE IF is_talk_msg_deleted(w, x.recno) THEN None ELSE Stale(x)
  IN  /\ nation' = w.nation /\ talk' = w.talk /\ truce' = w.truce
      /\ screen' = [p \in Humans |-> Shown(scr[p])]
      /\ wire' = [i \in DOMAIN cmds |-> IF cmds[i].cmd = "reply" THEN Stale(cmds[i]) ELSE cmds[i]]

Init ==
  /\ nation = [n \in Nations |->
       [alive |-> TRUE, queue |-> <<>>,
        relation |-> [m \in Nations |-> IF m = n THEN NATION_ALLIANCE ELSE NATION_NEUTRAL],
        trade |-> [m \in Nations |-> m = n]]]
  /\ talk = [msgs |-> <<>>, empty |-> <<>>]
  /\ truce = {}
  /\ screen = [p \in Humans |-> None]
  /\ wire = <<>>

\* The third nations a request to a nation makes sense for
Thirds(w, from, to, id) ==
  {third \in Nations \ {from, to} : FitsThird(w, Msg(from, to, id, third))}

\* The messages an AI nation may think of, each chosen and sent in one call
Sendable(w, n) ==
  {m \in {Msg(n, to, id, third) : to \in Nations \ {n}, id \in TalkIds, third \in Nations \cup {None}} :
     /\ w.nation[m.to].alive
     /\ can_send_msg(w, m.to, n, m.talk_id)
     /\ IF m.talk_id \in AboutAThird THEN m.talk_para1 \in Thirds(w, n, m.to, m.talk_id)
        ELSE m.talk_para1 = None}

\* TalkRes::send_talk_msg by a player, who then has the screen scr
PlayerSent(m, scr) ==
  IF IsRemote
  THEN /\ Len(wire) < MaxWire /\ HasRoom(World, 1)
       /\ Become(World, scr, Append(wire, [cmd |-> "send", msg |-> m, crossing |-> FALSE]))
  ELSE HasRoom(World, 2) /\ Become(send_talk_msg(World, m), scr, wire)

\* A message the player may choose: those shown are refreshed every frame.
Offered(p, to, id) ==
  /\ nation[p].alive /\ screen[p] = None
  /\ nation[to].alive /\ can_send_msg(World, to, p, id)

\* TalkRes::detect_talk: a message that needs nothing more goes at the click.
PlayerSends(p) ==
  \E to \in Nations \ {p}, id \in TalkIds \ AboutAThird :
    Offered(p, to, id) /\ PlayerSent(Msg(p, to, id, None), screen)

\* A request about a third nation asks which one.  The list is not refreshed any more.
PlayerAsks(p) ==
  /\ \E to \in Nations \ {p}, id \in TalkIds \cap AboutAThird :
       /\ Offered(p, to, id)
       /\ screen' = [screen EXCEPT ![p] = [shows |-> "thirds", to |-> to, talk_id |-> id,
                                          thirds |-> Thirds(World, p, to, id)]]
  /\ UNCHANGED <<nation, talk, truce, wire>>

\* A later click names a nation of the list, fallen or not: only can_send_msg is checked again.
PlayerNames(p) ==
  /\ nation[p].alive /\ screen[p] # None /\ screen[p].shows = "thirds"
  /\ \E third \in screen[p].thirds :
       PlayerSent(Msg(p, screen[p].to, screen[p].talk_id, third), [screen EXCEPT ![p] = None])

\* TalkRes::player_reply: the player opens a message that waits for a reply.
OpenReply(p) ==
  /\ nation[p].alive /\ screen[p] = None
  /\ \E r \in Recnos(World) :
       /\ talk.msgs[r].to = p
       /\ talk.msgs[r].reply_type = "WAITING"
       /\ screen' = [screen EXCEPT ![p] = [shows |-> "message", recno |-> r, stale |-> FALSE]]
  /\ UNCHANGED <<nation, talk, truce, wire>>

\* The player leaves the screen, or cancels the request.
LeaveReply(p) ==
  /\ screen[p] # None
  /\ screen' = [screen EXCEPT ![p] = None]
  /\ UNCHANGED <<nation, talk, truce, wire>>

\* TalkRes::detect_talk on the reply screen
PlayerReplies(p) ==
  /\ nation[p].alive /\ screen[p] # None /\ screen[p].shows = "message"
  /\ LET r == screen[p].recno
         closed == [screen EXCEPT ![p] = None]
     IN  /\ Enhanced => is_valid_to_reply(World, talk.msgs[r])
         /\ \E reply \in {"ACCEPT", "REJECT"} :
              IF IsRemote
              THEN /\ Len(wire) < MaxWire
                   /\ Become(World, closed,
                             Append(wire, [cmd |-> "reply", recno |-> r, reply |-> reply,
                                           stale |-> screen[p].stale, crossing |-> FALSE]))
              ELSE /\ HasRoomFor(World, talk.msgs[r])
                   /\ \E w \in reply_talk_msg(World, r, reply) : Become(w, closed, wire)

\* RemoteMsg::send_talk_msg and RemoteMsg::reply_talk_msg, at their frame
Execute ==
  /\ wire # <<>>
  /\ LET c == Head(wire)
         rest == Tail(wire)
     IN  \/ /\ c.cmd = "send"
            /\ nation[c.msg.from].alive /\ nation[c.msg.to].alive   \* or the program has failed
            /\ Become(send_talk_msg(World, c.msg), screen, rest)
         \/ /\ c.cmd = "reply"
            /\ \E w \in IF is_talk_msg_deleted(World, c.recno) THEN {World}
                        ELSE reply_talk_msg(World, c.recno, c.reply) :
                 /\ ~is_talk_msg_deleted(World, c.recno) => HasRoomFor(World, talk.msgs[c.recno])
                 /\ Become(w, screen, rest)

\* Nation::process_action for the first talk action of the queue, which always goes
FirstProcessed(w, n) ==
  IF ~w.nation[n].alive \/ w.nation[n].queue = <<>> THEN {w}
  ELSE LET r == Head(w.nation[n].queue)
           answered == IF is_talk_msg_deleted(w, r) \/ HasRoomFor(w, w.talk.msgs[r])
                       THEN ai_process_talk_msg(w, r) ELSE {}
           After(v) == IF v.nation[n].alive THEN [v EXCEPT !.nation[n].queue = RemoveAt(@, 1)] ELSE v
       IN  {After(v) : v \in answered}

\* All of them, with those that are queued meanwhile
AllProcessed(n) ==
  FoldLeft(LAMBDA S, i : UNION {FirstProcessed(w, n) : w \in S}, {World},
           [i \in 1..MaxRecords |-> i])

\* Nation::think_diplomacy: the messages first, and then perhaps one of its own
ThinkDiplomacy(n) ==
  /\ nation[n].alive
  /\ \E w \in AllProcessed(n) :
       \/ Become(w, screen, wire)
       \/ /\ w.nation[n].alive /\ HasRoom(w, 2)
          /\ \E m \in Sendable(w, n) : Become(send_talk_msg(w, m), screen, wire)

\* NationBase::being_attacked: a treaty or peace ends with the attack.
Attack(a, b) ==
  /\ a # b /\ nation[a].alive /\ nation[b].alive
  /\ nation[b].relation[a] # NATION_HOSTILE
  /\ Become(set_relation_status(World, b, a, NATION_HOSTILE), screen, wire)

\* NationBase::next_month: tension that lasted long enough is forgotten.
Calm(a, b) ==
  /\ a # b /\ nation[a].alive /\ nation[b].alive
  /\ nation[a].relation[b] = NATION_TENSE /\ {a, b} \notin truce
  /\ Become(set_relation_status(World, a, b, NATION_NEUTRAL), screen, wire)

\* NationBase::defeated
Falls(n) ==
  /\ n \in Mortal /\ nation[n].alive
  /\ LET w == DelNation(World, n)
     IN  Become(w, [p \in Humans |-> IF p = n THEN None ELSE screen[p]], wire)

\* Time passes.  AI nations look at their messages far more often than messages age, and a
\* command takes a few frames, so that at most one end of a period falls within its way.
NextPeriod ==
  /\ \A n \in AI : nation[n].queue = <<>>
  /\ \A i \in DOMAIN wire : ~wire[i].crossing
  /\ LET Older(m) == IF m = None \/ m.age > TALK_MSG_KEEP_DAYS THEN m ELSE [m EXCEPT !.age = @ + 1]
         aged == [World EXCEPT !.talk.msgs = FoldLeft(LAMBDA s, m : Append(s, Older(m)), <<>>, @),
                               !.truce = {}]
         crossing == [i \in DOMAIN wire |-> [wire[i] EXCEPT !.crossing = TRUE]]
     IN  \E w \in process_talk_msg(aged) : Become(w, screen, crossing)

Next ==
  \/ \E p \in Humans : \/ PlayerSends(p) \/ PlayerAsks(p) \/ PlayerNames(p)
                       \/ OpenReply(p) \/ LeaveReply(p) \/ PlayerReplies(p)
  \/ Execute
  \/ \E n \in AI : ThinkDiplomacy(n)
  \/ \E a, b \in Nations : Attack(a, b) \/ Calm(a, b)
  \/ \E n \in Nations : Falls(n)
  \/ NextPeriod

Spec == Init /\ [][Next]_vars

\* Commands are executed, AI nations are processed and days pass, whatever the players do.
Fairness ==
  /\ WF_vars(Execute)
  /\ \A n \in AI : WF_vars(nation[n].queue # <<>> /\ ThinkDiplomacy(n))
  /\ SF_vars(NextPeriod)

FairSpec == Spec /\ Fairness

---------------------------------------------------------------------------
(* Properties.                                                             *)

Living == {n \in Nations : nation[n].alive}

\* Nations keep what they have together in two records that are written together.
RelationsAreMutual ==
  \A a, b \in Living : /\ nation[a].relation[b] = nation[b].relation[a]
                       /\ nation[a].trade[b] = nation[b].trade[a]

\* Allied nations trade: a treaty of trade cannot be ended under an alliance, not even by an
\* embargo agreed to when the alliance was formed.  In a network game a reply that strays to
\* another message can end it: OnlyStrayRepliesHarm.
AlliesTrade ==
  \A a, b \in Living : nation[a].relation[b] = NATION_ALLIANCE => nation[a].trade[b]

\* Nations at war do not trade.
NoTradeInWar ==
  \A a, b \in Living : nation[a].relation[b] = NATION_HOSTILE => ~nation[a].trade[b]

\* A queued talk action is for one message, which is for this nation and waits for its reply:
\* the action never outlives the message, whose number is given to the next one.
QueuedMessagesWait ==
  \A n \in AI :
    LET q == nation[n].queue
    IN  /\ Cardinality(ToSet(q)) = Len(q)
        /\ \A r \in ToSet(q) : /\ r \in Recnos(World)
                               /\ talk.msgs[r].to = n /\ talk.msgs[r].reply_type = "WAITING"

\* No message is from or to a nation that is gone.  One about a nation that is gone can only be
\* filed by a player, from a list made before the fall, and it stays without an answer: nothing
\* is ever concluded about the dead.
MessagesOfTheLiving ==
  \A r \in Recnos(World) :
    LET m == talk.msgs[r]
    IN  /\ {m.from, m.to} \subseteq Living
        /\ m.talk_para1 \notin Living \cup {None} => m.from \in Humans /\ m.reply_type = "WAITING"

\* A reply whose message is gone, and whose number may be that of another message
ReplyAstray ==
  \/ \E p \in Humans : ~IsRemote /\ screen[p] # None /\ screen[p].shows = "message" /\ screen[p].stale
  \/ wire # <<>> /\ Head(wire).cmd = "reply" /\ Head(wire).stale

\* Neither a deletion, nor a number given out again, nor a message or a reply that comes late
\* leaves an action without its message or allies without trade: a reply to a message whose
\* number has been given to another is the only thing that does.
OnlyStrayRepliesHarm ==
  [][QueuedMessagesWait /\ AlliesTrade /\ ~ReplyAstray
       => QueuedMessagesWait' /\ AlliesTrade']_vars

\* Only a message that is still valid is answered with yes, whatever was decided, concluded or
\* begun since it was sent.
OnlyValidAccepted ==
  [][\A r \in Recnos(World) \cap DOMAIN talk'.msgs :
       LET m == talk.msgs[r]
       IN  m.reply_type # "ACCEPT" /\ talk'.msgs[r] = [m EXCEPT !.reply_type = "ACCEPT"]
             => is_valid_to_reply(World, m)]_talk

\* An AI nation that has sent the same message itself does not reject it.
SameMessageIsAccepted ==
  [][\A r \in Recnos(World) \cap DOMAIN talk'.msgs :
       LET m == talk.msgs[r]
           rejected == m.reply_type = "WAITING" /\ talk'.msgs[r] = [m EXCEPT !.reply_type = "REJECT"]
       IN  m.to \in AI /\ m.talk_id \in Likewise /\ rejected
             => SameMsgs(World, m.to, m.from, m.talk_id) = {}]_talk

\* What an AI nation asked is answered, by silence if need be, or deleted.
AiGetsAnAnswer ==
  \A r \in 1..MaxRecords :
    LET asks == r \in Recnos(World) /\ talk.msgs[r].from \in AI /\ talk.msgs[r].reply_type = "WAITING"
    IN  asks ~> ~asks

=============================================================================
