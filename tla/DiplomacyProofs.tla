-------------------------- MODULE DiplomacyProofs --------------------------
(***************************************************************************)
(* Proofs about messages and relations, for any nations, messages, times   *)
(* and limits: relations and treaties of trade are mutual; in a game that  *)
(* is not played over the network, with the enhancements, nations at war   *)
(* do not trade and allied nations do; and without a network no message is *)
(* from, to or about a nation that is gone.                                *)
(*                                                                         *)
(* All three are properties of a world (a record of what the peers share)  *)
(* that every operator of the model preserves, one operator after the      *)
(* other; the steps then preserve them because each makes one world of     *)
(* another.                                                                *)
(***************************************************************************)
EXTENDS Diplomacy, FoldProofs, SequenceTheorems

-----------------------------------------------------------------------------
(* Worlds.                                                                   *)

Ids == TalkIds \cup Notices
Replies == {"WAITING", "NOT_NEEDED", "ACCEPT", "REJECT"}

NationRec == [alive : BOOLEAN, queue : Seq(Nat), relation : [Nations -> Statuses],
              trade : [Nations -> BOOLEAN]]

MessageRec == [from : Nations, to : Nations, talk_id : Ids, talk_para1 : Nations \cup {None},
               age : Nat, reply_type : Replies]

\* Only requests about a third nation name one.
Message == {m \in MessageRec : IF m.talk_id \in AboutAThird THEN m.talk_para1 \in Nations
                                                          ELSE m.talk_para1 = None}

TalkRec == [msgs : Seq(Message \cup {None}), empty : Seq(Nat)]

Worlds == [nation : [Nations -> NationRec], talk : TalkRec, truce : SUBSET SUBSET Nations,
           freed : SUBSET Nat]

SameTies(v, w) ==
  \A a, b \in Nations : Status(v, a, b) = Status(w, a, b) /\ Trades(v, a, b) = Trades(w, a, b)
SameLife(v, w) == \A n \in Nations : v.nation[n].alive = w.nation[n].alive

-----------------------------------------------------------------------------
(* Relations.                                                                *)

\* A world in which one nation has changed.
LEMMA NationUpdate ==
  ASSUME NEW w \in Worlds, NEW a \in Nations, NEW r \in NationRec
  PROVE  LET v == [w EXCEPT !.nation[a] = r]
         IN  /\ v \in Worlds /\ v.talk = w.talk /\ v.truce = w.truce /\ v.freed = w.freed
             /\ \A n \in Nations : v.nation[n] = IF n = a THEN r ELSE w.nation[n]
BY DEF Worlds

LEMMA OneSideOfTrade ==
  ASSUME NEW w \in Worlds, NEW a \in Nations, NEW b \in Nations, NEW flag \in BOOLEAN
  PROVE  LET v == set_trade_treaty_OneSided(w, a, b, flag)
         IN  /\ v \in Worlds /\ v.talk = w.talk /\ v.truce = w.truce /\ SameLife(v, w)
             /\ \A x, y \in Nations :
                  /\ Status(v, x, y) = Status(w, x, y)
                  /\ Trades(v, x, y) = IF x = a /\ y = b THEN flag ELSE Trades(w, x, y)
<1> DEFINE r == [w.nation[a] EXCEPT !.trade[b] = flag]
           v == [w EXCEPT !.nation[a] = r]
<1>1. w.nation[a] \in NationRec
  BY DEF Worlds
<1>2. /\ r \in NationRec /\ r.alive = w.nation[a].alive /\ r.relation = w.nation[a].relation
      /\ \A y \in Nations : r.trade[y] = IF y = b THEN flag ELSE w.nation[a].trade[y]
  BY <1>1 DEF NationRec
<1>3. set_trade_treaty_OneSided(w, a, b, flag) = v
  BY DEF set_trade_treaty_OneSided
<1>4. /\ v \in Worlds /\ v.talk = w.talk /\ v.truce = w.truce
      /\ \A n \in Nations : v.nation[n] = IF n = a THEN r ELSE w.nation[n]
  <2> HIDE DEF r
  <2> QED BY <1>2, NationUpdate
<1> HIDE DEF r, v
<1> QED BY <1>2, <1>3, <1>4 DEF Status, Trades, SameLife

\* The two entries the records of a and b have for each other
OfBoth(x, y, a, b) == (x = a /\ y = b) \/ (x = b /\ y = a)

\* v is w with a treaty of trade between a and b, or without it.
TradeSet(v, w, a, b, flag) ==
  /\ v \in Worlds /\ v.talk = w.talk /\ SameLife(v, w)
  /\ \A x, y \in Nations :
       /\ Status(v, x, y) = Status(w, x, y)
       /\ Trades(v, x, y) = IF OfBoth(x, y, a, b) THEN flag ELSE Trades(w, x, y)

LEMMA TradeTreaty ==
  ASSUME NEW w \in Worlds, NEW a \in Nations, NEW b \in Nations, NEW flag \in BOOLEAN
  PROVE  TradeSet(set_trade_treaty(w, a, b, flag), w, a, b, flag)
<1> DEFINE u == set_trade_treaty_OneSided(w, a, b, flag)
           v == set_trade_treaty_OneSided(u, b, a, flag)
<1>1. /\ u \in Worlds /\ u.talk = w.talk /\ SameLife(u, w)
      /\ \A x, y \in Nations :
           /\ Status(u, x, y) = Status(w, x, y)
           /\ Trades(u, x, y) = IF x = a /\ y = b THEN flag ELSE Trades(w, x, y)
  BY OneSideOfTrade
<1>2. /\ v \in Worlds /\ v.talk = u.talk /\ SameLife(v, u)
      /\ \A x, y \in Nations :
           /\ Status(v, x, y) = Status(u, x, y)
           /\ Trades(v, x, y) = IF x = b /\ y = a THEN flag ELSE Trades(u, x, y)
  <2> HIDE DEF u
  <2> QED BY <1>1, OneSideOfTrade
<1>3. set_trade_treaty(w, a, b, flag) = v
  BY DEF set_trade_treaty, set_trade_treaty_OneSided
<1> HIDE DEF u, v
<1> QED BY <1>1, <1>2, <1>3 DEF TradeSet, SameLife, OfBoth

OneSideSet(w, a, b, status) == [w EXCEPT !.nation[a].relation[b] = status]

LEMMA OneSideOfRelation ==
  ASSUME NEW w \in Worlds, NEW a \in Nations, NEW b \in Nations, NEW status \in Statuses
  PROVE  LET v == OneSideSet(w, a, b, status)
         IN  /\ v \in Worlds /\ v.talk = w.talk /\ v.truce = w.truce /\ SameLife(v, w)
             /\ \A x, y \in Nations :
                  /\ Status(v, x, y) = IF x = a /\ y = b THEN status ELSE Status(w, x, y)
                  /\ Trades(v, x, y) = Trades(w, x, y)
<1> DEFINE r == [w.nation[a] EXCEPT !.relation[b] = status]
           v == [w EXCEPT !.nation[a] = r]
<1>1. w.nation[a] \in NationRec
  BY DEF Worlds
<1>2. /\ r \in NationRec /\ r.alive = w.nation[a].alive /\ r.trade = w.nation[a].trade
      /\ \A y \in Nations : r.relation[y] = IF y = b THEN status ELSE w.nation[a].relation[y]
  BY <1>1 DEF NationRec
<1>3. /\ v \in Worlds /\ v.talk = w.talk /\ v.truce = w.truce
      /\ \A n \in Nations : v.nation[n] = IF n = a THEN r ELSE w.nation[n]
  <2> HIDE DEF r
  <2> QED BY <1>2, NationUpdate
<1>4. OneSideSet(w, a, b, status) = v
  BY DEF OneSideSet
<1> HIDE DEF r, v
<1> QED BY <1>2, <1>3, <1>4 DEF Status, Trades, SameLife

\* v is w with another relation between a and b, which ends their trade if it is a war.
RelationSet(v, w, a, b, status) ==
  /\ v \in Worlds /\ v.talk = w.talk /\ SameLife(v, w)
  /\ \A x, y \in Nations :
       /\ Status(v, x, y) = IF OfBoth(x, y, a, b) THEN status ELSE Status(w, x, y)
       /\ Trades(v, x, y) = IF OfBoth(x, y, a, b) /\ status = NATION_HOSTILE THEN FALSE
                            ELSE Trades(w, x, y)

\* A change of the relation of two nations, which the truce between them may prevent, and
\* which ends their trade if it is a war.
LEMMA RelationStatus ==
  ASSUME NEW w \in Worlds, NEW a \in Nations, NEW b \in Nations, NEW status \in Statuses
  PROVE  \/ set_relation_status(w, a, b, status) = w /\ status = NATION_HOSTILE
         \/ RelationSet(set_relation_status(w, a, b, status), w, a, b, status)
<1> DEFINE u1 == OneSideSet(w, a, b, status)
           u2 == OneSideSet(u1, b, a, status)
           t == IF status = NATION_TENSE THEN w.truce \cup {{a, b}} ELSE w.truce \ {{a, b}}
           u3 == [u2 EXCEPT !.truce = t]
           v == set_trade_treaty(u3, a, b, FALSE)
<1>1. /\ u1 \in Worlds /\ u1.talk = w.talk /\ u1.truce = w.truce /\ SameLife(u1, w)
      /\ \A x, y \in Nations :
           /\ Status(u1, x, y) = IF x = a /\ y = b THEN status ELSE Status(w, x, y)
           /\ Trades(u1, x, y) = Trades(w, x, y)
  BY OneSideOfRelation
<1>2. /\ u2 \in Worlds /\ u2.talk = u1.talk /\ u2.truce = u1.truce /\ SameLife(u2, u1)
      /\ \A x, y \in Nations :
           /\ Status(u2, x, y) = IF x = b /\ y = a THEN status ELSE Status(u1, x, y)
           /\ Trades(u2, x, y) = Trades(u1, x, y)
  <2> HIDE DEF u1
  <2> QED BY <1>1, OneSideOfRelation
<1>3. /\ u3 \in Worlds /\ u3.talk = u2.talk /\ u3.nation = u2.nation
  <2>1. t \in SUBSET SUBSET Nations
    BY DEF Worlds
  <2> HIDE DEF u1, u2, t
  <2> QED BY <1>2, <2>1 DEF Worlds
<1>4. /\ SameLife(u3, w) /\ u3.talk = w.talk
      /\ \A x, y \in Nations :
           /\ Status(u3, x, y) = IF OfBoth(x, y, a, b) THEN status ELSE Status(w, x, y)
           /\ Trades(u3, x, y) = Trades(w, x, y)
  <2> HIDE DEF u1, u2, u3
  <2> QED BY <1>1, <1>2, <1>3 DEF SameLife, Status, Trades, OfBoth
<1>5. \/ set_relation_status(w, a, b, status) = w /\ status = NATION_HOSTILE
      \/ set_relation_status(w, a, b, status) = IF status = NATION_HOSTILE THEN v ELSE u3
  BY DEF set_relation_status, OneSideSet
<1>6. CASE status # NATION_HOSTILE
  <2>1. RelationSet(u3, w, a, b, status)
    <3> HIDE DEF u3
    <3> QED BY <1>3, <1>4, <1>6 DEF RelationSet
  <2> HIDE DEF u3, v
  <2> QED BY <1>5, <1>6, <2>1
<1>7. CASE status = NATION_HOSTILE
  <2>1. TradeSet(v, u3, a, b, FALSE)
    <3> HIDE DEF u3
    <3> QED BY <1>3, TradeTreaty
  <2>2. RelationSet(v, w, a, b, status)
    <3> HIDE DEF u3, v
    <3>1. v \in Worlds /\ v.talk = w.talk /\ SameLife(v, w)
      BY <1>4, <2>1 DEF TradeSet, SameLife
    <3>2. ASSUME NEW x \in Nations, NEW y \in Nations
          PROVE  /\ Status(v, x, y) = IF OfBoth(x, y, a, b) THEN status ELSE Status(w, x, y)
                 /\ Trades(v, x, y) = IF OfBoth(x, y, a, b) THEN FALSE ELSE Trades(w, x, y)
      BY <1>4, <2>1 DEF TradeSet
    <3> QED BY <1>7, <3>1, <3>2 DEF RelationSet
  <2> HIDE DEF u3, v
  <2> QED BY <1>5, <1>7, <2>2
<1> QED BY <1>6, <1>7

-----------------------------------------------------------------------------
(* Sound worlds.                                                             *)

\* The games in which every reply is checked when it is given
Checked == Enhanced /\ ~IsRemote

Mutual(w) ==
  \A a, b \in Nations : Status(w, a, b) = Status(w, b, a) /\ Trades(w, a, b) = Trades(w, b, a)

Fitting(w) ==
  \A a, b \in Nations : /\ Status(w, a, b) = NATION_ALLIANCE => Trades(w, a, b)
                        /\ Status(w, a, b) = NATION_HOSTILE => ~Trades(w, a, b)

\* A message a player has sent and nobody has answered
Unheard(m) == m.from \in Humans /\ m.reply_type = "WAITING"

\* The nation a message is about is there.
ThirdLives(w, m) == m.talk_id \in AboutAThird => w.nation[m.talk_para1].alive

\* Those a message is from and to, and about, unless a player has named a nation from an old list
Lives(w, m) ==
  /\ w.nation[m.from].alive /\ w.nation[m.to].alive
  /\ m.talk_id \in AboutAThird => w.nation[m.talk_para1].alive \/ Unheard(m)

OnlyLiving(w) == \A i \in DOMAIN w.talk.msgs : w.talk.msgs[i] # None => Lives(w, w.talk.msgs[i])

Sound == {w \in Worlds : /\ Mutual(w)
                         /\ Checked => Fitting(w)
                         /\ Checked => OnlyLiving(w)}

\* v is sound, and the nations that live in w live in v.
SoundWith(v, w) == v \in Sound /\ SameLife(v, w)

\* The relations and the lives are what matters to the messages.
LEMMA SameTalk ==
  ASSUME NEW w \in Worlds, NEW v \in Worlds, v.talk = w.talk, SameLife(v, w), OnlyLiving(w)
  PROVE  OnlyLiving(v)
<1> SUFFICES ASSUME NEW i \in DOMAIN w.talk.msgs, w.talk.msgs[i] # None
             PROVE  Lives(v, w.talk.msgs[i])
  BY DEF OnlyLiving
<1>1. w.talk.msgs[i] \in Message
  BY DEF Worlds, TalkRec
<1>2. Lives(w, w.talk.msgs[i])
  BY DEF OnlyLiving
<1> QED BY <1>1, <1>2 DEF Lives, SameLife, Message, MessageRec

\* What two nations have together, changed on both sides at once, stays mutual.
BothChanged(v, w, a, b, status, flag) ==
  \A x, y \in Nations :
    /\ Status(v, x, y) = IF OfBoth(x, y, a, b) THEN status ELSE Status(w, x, y)
    /\ Trades(v, x, y) = IF OfBoth(x, y, a, b) THEN flag ELSE Trades(w, x, y)

LEMMA StaysMutual ==
  ASSUME NEW v, NEW w, NEW a \in Nations, NEW b \in Nations, NEW status, NEW flag,
         Mutual(w), BothChanged(v, w, a, b, status, flag)
  PROVE  Mutual(v)
<1> SUFFICES ASSUME NEW x \in Nations, NEW y \in Nations
             PROVE  Status(v, x, y) = Status(v, y, x) /\ Trades(v, x, y) = Trades(v, y, x)
  BY DEF Mutual
<1>1. OfBoth(x, y, a, b) <=> OfBoth(y, x, a, b)
  BY DEF OfBoth
<1>2. Status(w, x, y) = Status(w, y, x) /\ Trades(w, x, y) = Trades(w, y, x)
  BY DEF Mutual
<1>3. /\ Status(v, x, y) = IF OfBoth(x, y, a, b) THEN status ELSE Status(w, x, y)
      /\ Trades(v, x, y) = IF OfBoth(x, y, a, b) THEN flag ELSE Trades(w, x, y)
      /\ Status(v, y, x) = IF OfBoth(y, x, a, b) THEN status ELSE Status(w, y, x)
      /\ Trades(v, y, x) = IF OfBoth(y, x, a, b) THEN flag ELSE Trades(w, y, x)
  BY DEF BothChanged
<1> QED BY <1>1, <1>2, <1>3

LEMMA StaysFitting ==
  ASSUME NEW v, NEW w, NEW a \in Nations, NEW b \in Nations, NEW status, NEW flag \in BOOLEAN,
         Fitting(w), BothChanged(v, w, a, b, status, flag),
         status = NATION_ALLIANCE => flag, status = NATION_HOSTILE => ~flag
  PROVE  Fitting(v)
<1> SUFFICES ASSUME NEW x \in Nations, NEW y \in Nations
             PROVE  /\ Status(v, x, y) = NATION_ALLIANCE => Trades(v, x, y)
                    /\ Status(v, x, y) = NATION_HOSTILE => ~Trades(v, x, y)
  BY DEF Fitting
<1>1. CASE OfBoth(x, y, a, b)
  BY <1>1 DEF BothChanged
<1>2. CASE ~OfBoth(x, y, a, b)
  <2>1. /\ Status(w, x, y) = NATION_ALLIANCE => Trades(w, x, y)
        /\ Status(w, x, y) = NATION_HOSTILE => ~Trades(w, x, y)
    BY DEF Fitting
  <2>2. Status(v, x, y) = Status(w, x, y) /\ Trades(v, x, y) = Trades(w, x, y)
    BY <1>2 DEF BothChanged
  <2> QED BY <2>1, <2>2
<1> QED BY <1>1, <1>2

LEMMA SoundTrade ==
  ASSUME NEW w \in Sound, NEW a \in Nations, NEW b \in Nations, NEW flag \in BOOLEAN,
         Checked => Status(w, a, b) # IF flag THEN NATION_HOSTILE ELSE NATION_ALLIANCE
  PROVE  SoundWith(set_trade_treaty(w, a, b, flag), w)
<1> DEFINE v == set_trade_treaty(w, a, b, flag)
<1>1. w \in Worlds /\ Mutual(w) /\ (Checked => Fitting(w)) /\ (Checked => OnlyLiving(w))
  BY DEF Sound
<1>2. TradeSet(v, w, a, b, flag)
  BY <1>1, TradeTreaty
<1> HIDE DEF v
<1>3. v \in Worlds /\ v.talk = w.talk /\ SameLife(v, w)
  BY <1>2 DEF TradeSet
<1>4. Mutual(v)
  BY <1>1, <1>2 DEF Mutual, TradeSet, OfBoth
<1>5. Checked => Fitting(v)
  BY <1>1, <1>2 DEF Mutual, Fitting, TradeSet, OfBoth
<1>6. Checked => OnlyLiving(v)
  BY <1>1, <1>3, SameTalk
<1> QED BY <1>3, <1>4, <1>5, <1>6 DEF Sound, SoundWith, v

LEMMA SoundRelation ==
  ASSUME NEW w \in Sound, NEW a \in Nations, NEW b \in Nations,
         NEW status \in Statuses \ {NATION_ALLIANCE}
  PROVE  SoundWith(set_relation_status(w, a, b, status), w)
<1> DEFINE v == set_relation_status(w, a, b, status)
<1>1. w \in Worlds /\ Mutual(w) /\ (Checked => Fitting(w)) /\ (Checked => OnlyLiving(w))
  BY DEF Sound
<1>2. v = w \/ RelationSet(v, w, a, b, status)
  BY <1>1, RelationStatus
<1>3. CASE RelationSet(v, w, a, b, status)
  <2> HIDE DEF v
  <2>1. v \in Worlds /\ v.talk = w.talk /\ SameLife(v, w)
    BY <1>3 DEF RelationSet
  <2> DEFINE flag == status # NATION_HOSTILE /\ Trades(w, a, b)
  <2>5. BothChanged(v, w, a, b, status, flag)
    <3> SUFFICES ASSUME NEW x \in Nations, NEW y \in Nations
                 PROVE  /\ Status(v, x, y) = IF OfBoth(x, y, a, b) THEN status ELSE Status(w, x, y)
                        /\ Trades(v, x, y) = IF OfBoth(x, y, a, b) THEN flag ELSE Trades(w, x, y)
      BY DEF BothChanged
    <3>1. /\ Status(v, x, y) = IF OfBoth(x, y, a, b) THEN status ELSE Status(w, x, y)
          /\ Trades(v, x, y) = IF OfBoth(x, y, a, b) /\ status = NATION_HOSTILE THEN FALSE
                               ELSE Trades(w, x, y)
      BY <1>3 DEF RelationSet
    <3>2. Trades(w, a, b) \in BOOLEAN /\ Trades(w, a, b) = Trades(w, b, a)
      BY <1>1 DEF Mutual, Worlds, NationRec, Trades
    <3>3. OfBoth(x, y, a, b) => Trades(w, x, y) = Trades(w, a, b)
      BY <3>2 DEF OfBoth
    <3>4. CASE OfBoth(x, y, a, b) /\ status = NATION_HOSTILE
      BY <3>1, <3>4
    <3>5. CASE OfBoth(x, y, a, b) /\ status # NATION_HOSTILE
      BY <3>1, <3>2, <3>3, <3>5
    <3>6. CASE ~OfBoth(x, y, a, b)
      BY <3>1, <3>6
    <3> QED BY <3>4, <3>5, <3>6
  <2>6. flag \in BOOLEAN /\ (status = NATION_HOSTILE => ~flag)
    OBVIOUS
  <2> HIDE DEF flag
  <2>2. Mutual(v)
    BY <1>1, <2>5, StaysMutual
  <2>3. Checked => Fitting(v)
    BY <1>1, <2>5, <2>6, StaysFitting
  <2>4. Checked => OnlyLiving(v)
    BY <1>1, <2>1, SameTalk
  <2> QED BY <2>1, <2>2, <2>3, <2>4 DEF Sound, SoundWith, v
<1>4. SoundWith(w, w)
  BY DEF SoundWith, SameLife
<1> QED BY <1>2, <1>3, <1>4

LEMMA SoundAlliance ==
  ASSUME NEW w \in Sound, NEW a \in Nations, NEW b \in Nations
  PROVE  SoundWith(form_alliance_treaty(w, a, b), w)
<1> DEFINE u == set_relation_status(w, a, b, NATION_ALLIANCE)
           v == set_trade_treaty(u, a, b, TRUE)
<1>1. w \in Worlds /\ Mutual(w) /\ (Checked => Fitting(w)) /\ (Checked => OnlyLiving(w))
  BY DEF Sound
<1>2. RelationSet(u, w, a, b, NATION_ALLIANCE)
  <2>1. NATION_ALLIANCE \in Statuses /\ NATION_ALLIANCE # NATION_HOSTILE
    BY DEF NATION_ALLIANCE, NATION_HOSTILE, Statuses
  <2> QED BY <1>1, <2>1, RelationStatus
<1>3. TradeSet(v, u, a, b, TRUE)
  <2>1. u \in Worlds
    BY <1>2 DEF RelationSet
  <2> HIDE DEF u
  <2> QED BY <2>1, TradeTreaty
<1> HIDE DEF u, v
<1>4. v \in Worlds /\ v.talk = w.talk /\ SameLife(v, w)
  BY <1>2, <1>3 DEF RelationSet, TradeSet, SameLife
<1>5. BothChanged(v, w, a, b, NATION_ALLIANCE, TRUE)
  <2>1. NATION_ALLIANCE # NATION_HOSTILE
    BY DEF NATION_HOSTILE, NATION_ALLIANCE
  <2>2. ASSUME NEW x \in Nations, NEW y \in Nations
        PROVE  /\ Status(v, x, y) = Status(u, x, y)
               /\ Trades(v, x, y) = IF OfBoth(x, y, a, b) THEN TRUE ELSE Trades(u, x, y)
    BY <1>3 DEF TradeSet
  <2>3. ASSUME NEW x \in Nations, NEW y \in Nations
        PROVE  /\ Status(u, x, y) = IF OfBoth(x, y, a, b) THEN NATION_ALLIANCE ELSE Status(w, x, y)
               /\ Trades(u, x, y) = Trades(w, x, y)
    BY <1>2, <2>1 DEF RelationSet
  <2>4. ASSUME NEW x \in Nations, NEW y \in Nations
        PROVE  /\ Status(v, x, y) = IF OfBoth(x, y, a, b) THEN NATION_ALLIANCE ELSE Status(w, x, y)
               /\ Trades(v, x, y) = IF OfBoth(x, y, a, b) THEN TRUE ELSE Trades(w, x, y)
    <3>1. Status(v, x, y) = IF OfBoth(x, y, a, b) THEN NATION_ALLIANCE ELSE Status(w, x, y)
      BY <2>2, <2>3
    <3>2. Trades(v, x, y) = IF OfBoth(x, y, a, b) THEN TRUE ELSE Trades(w, x, y)
      BY <2>2, <2>3
    <3> QED BY <3>1, <3>2
  <2> QED BY <2>4 DEF BothChanged
<1>6. Mutual(v)
  BY <1>1, <1>5, StaysMutual
<1>7. Checked => Fitting(v)
  <2>1. NATION_ALLIANCE # NATION_HOSTILE
    BY DEF NATION_ALLIANCE, NATION_HOSTILE
  <2> QED BY <1>1, <1>5, <2>1, StaysFitting
<1>8. Checked => OnlyLiving(v)
  BY <1>1, <1>4, SameTalk
<1> QED BY <1>4, <1>6, <1>7, <1>8 DEF Sound, SoundWith, form_alliance_treaty, u, v

-----------------------------------------------------------------------------
(* Messages.                                                                 *)

LEMMA WithoutActionType ==
  ASSUME NEW q \in Seq(Nat), NEW r
  PROVE  WithoutAction(q, r) \in Seq(Nat)
<1> DEFINE at == {i \in DOMAIN q : q[i] = r}
<1>1. CASE at = {}
  BY <1>1 DEF WithoutAction
<1>2. CASE at # {}
  <2>1. DOMAIN q = 1..Len(q) /\ Len(q) \in Nat
    BY LenProperties
  <2>2. Max(at) \in 1..Len(q)
    <3>1. at \in SUBSET (1..Len(q))
      BY <2>1
    <3> HIDE DEF at
    <3> QED BY <1>2, <2>1, <3>1, LargestOf
  <2>3. WithoutAction(q, r) = RemoveAt(q, Max(at))
    BY <1>2 DEF WithoutAction
  <2> DEFINE last == Max(at)
  <2>4. last \in 1..Len(q) /\ WithoutAction(q, r) = RemoveAt(q, last)
    BY <2>2, <2>3
  <2> HIDE DEF last
  <2> QED BY <2>4 DEF RemoveAt
<1> QED BY <1>1, <1>2

LEMMA EntryChanged ==
  ASSUME NEW S, NEW s \in Seq(S), NEW x \in S, NEW i
  PROVE  /\ [s EXCEPT ![i] = x] \in Seq(S)
         /\ DOMAIN [s EXCEPT ![i] = x] = DOMAIN s
<1>1. s \in [1..Len(s) -> S] /\ Len(s) \in Nat
  BY LenProperties
<1>2. [s EXCEPT ![i] = x] \in [1..Len(s) -> S]
  BY <1>1
<1> QED BY <1>1, <1>2, IsASeq

\* v is w without some of its messages, all those in S among them.
Deleted(v, w, S) ==
  /\ v \in Worlds /\ SameTies(v, w) /\ SameLife(v, w)
  /\ DOMAIN v.talk.msgs = DOMAIN w.talk.msgs
  /\ \A i \in DOMAIN w.talk.msgs :
       /\ v.talk.msgs[i] = None \/ v.talk.msgs[i] = w.talk.msgs[i]
       /\ i \in S => v.talk.msgs[i] = None

\* A world in which the records of messages have changed, and the queue of a nation.
TalkSet(w, msgs, empty, freed) ==
  [w EXCEPT !.talk.msgs = msgs, !.talk.empty = empty, !.freed = freed]

LEMMA TalkUpdate ==
  ASSUME NEW w \in Worlds, NEW msgs \in Seq(Message \cup {None}), NEW empty \in Seq(Nat),
         NEW freed \in SUBSET Nat
  PROVE  LET v == TalkSet(w, msgs, empty, freed)
         IN  /\ v \in Worlds /\ v.nation = w.nation /\ v.talk.msgs = msgs
             /\ v.talk.empty = empty
BY DEF Worlds, TalkRec, TalkSet

LEMMA QueueUpdate ==
  ASSUME NEW w \in Worlds, NEW n \in Nations, NEW q \in Seq(Nat)
  PROVE  LET v == [w EXCEPT !.nation[n].queue = q]
         IN  v \in Worlds /\ SameTies(v, w) /\ SameLife(v, w) /\ v.talk = w.talk
<1> DEFINE r == [w.nation[n] EXCEPT !.queue = q]
           v == [w EXCEPT !.nation[n] = r]
<1>1. w.nation[n] \in NationRec
  BY DEF Worlds
<1>2. /\ r \in NationRec /\ r.alive = w.nation[n].alive /\ r.relation = w.nation[n].relation
      /\ r.trade = w.nation[n].trade
  BY <1>1 DEF NationRec
<1>3. /\ v \in Worlds /\ v.talk = w.talk
      /\ \A m \in Nations : v.nation[m] = IF m = n THEN r ELSE w.nation[m]
  <2> HIDE DEF r
  <2> QED BY <1>2, NationUpdate
<1>4. [w EXCEPT !.nation[n].queue = q] = v
  OBVIOUS
<1> HIDE DEF r, v
<1> QED BY <1>2, <1>3, <1>4 DEF SameTies, SameLife, Status, Trades

LEMMA DelTalkMsg ==
  ASSUME NEW w \in Worlds, NEW r \in Nat
  PROVE  Deleted(del_talk_msg(w, r), w, {r})
<1> DEFINE msgs == [w.talk.msgs EXCEPT ![r] = None]
           empty == Append(w.talk.empty, r)
           freed == w.freed \cup {r}
           gone == TalkSet(w, msgs, empty, freed)
           m == w.talk.msgs[r]
           q == WithoutAction(gone.nation[m.to].queue, r)
           v == [gone EXCEPT !.nation[m.to].queue = q]
<1>1. w.talk.msgs \in Seq(Message \cup {None}) /\ w.talk.empty \in Seq(Nat) /\ w.freed \in SUBSET Nat
  BY DEF Worlds, TalkRec
<1>2. /\ msgs \in Seq(Message \cup {None}) /\ DOMAIN msgs = DOMAIN w.talk.msgs
      /\ empty \in Seq(Nat) /\ freed \in SUBSET Nat
  <2>1. None \in Message \cup {None}
    OBVIOUS
  <2>2. msgs \in Seq(Message \cup {None}) /\ DOMAIN msgs = DOMAIN w.talk.msgs
    BY <1>1, <2>1, EntryChanged
  <2>3. empty \in Seq(Nat) /\ freed \in SUBSET Nat
    BY <1>1
  <2> QED BY <2>2, <2>3
<1>3. gone \in Worlds /\ gone.nation = w.nation /\ gone.talk.msgs = msgs
  <2> HIDE DEF msgs, empty, freed
  <2> QED BY <1>2, TalkUpdate
<1>4. \A i \in DOMAIN w.talk.msgs :
        /\ msgs[i] = None \/ msgs[i] = w.talk.msgs[i]
        /\ i = r => msgs[i] = None
  BY <1>1
<1>5. CASE del_talk_msg(w, r) = gone
  <2>1. SameTies(gone, w) /\ SameLife(gone, w)
    <3> HIDE DEF gone, msgs
    <3> QED BY <1>3 DEF SameTies, SameLife, Status, Trades
  <2> HIDE DEF gone, msgs
  <2>2. Deleted(gone, w, {r})
    BY <1>2, <1>3, <1>4, <2>1 DEF Deleted
  <2> QED BY <1>5, <2>2
<1>6. CASE m.to \in AI /\ del_talk_msg(w, r) = v
  <2>1. m.to \in Nations
    BY <1>6, DiplomacyAssumption
  <2>2. q \in Seq(Nat)
    <3>1. gone.nation[m.to].queue \in Seq(Nat)
      <4> HIDE DEF gone
      <4> QED BY <1>3, <2>1 DEF Worlds, NationRec
    <3> HIDE DEF gone
    <3> QED BY <3>1, WithoutActionType
  <2>3. v \in Worlds /\ SameTies(v, gone) /\ SameLife(v, gone) /\ v.talk = gone.talk
    <3> HIDE DEF gone, q, m
    <3> QED BY <1>3, <2>1, <2>2, QueueUpdate
  <2>4. SameTies(v, w) /\ SameLife(v, w)
    <3> HIDE DEF gone, msgs, v
    <3> QED BY <1>3, <2>3 DEF SameTies, SameLife, Status, Trades
  <2> HIDE DEF gone, msgs, v
  <2>5. Deleted(v, w, {r})
    BY <1>2, <1>3, <1>4, <2>3, <2>4 DEF Deleted
  <2> QED BY <1>6, <2>5
<1>7. del_talk_msg(w, r) = gone \/ (m.to \in AI /\ del_talk_msg(w, r) = v)
  <2>1. gone = [w EXCEPT !.talk.msgs[r] = None, !.talk.empty = Append(@, r), !.freed = @ \cup {r}]
    BY DEF Worlds, TalkRec, TalkSet
  <2> HIDE DEF msgs, empty, freed
  <2> QED BY <2>1 DEF del_talk_msg
<1> QED BY <1>5, <1>6, <1>7

LEMMA DeletedMore ==
  ASSUME NEW w, NEW v, NEW u, NEW S, NEW T, Deleted(v, w, S), Deleted(u, v, T)
  PROVE  Deleted(u, w, S \cup T)
BY DEF Deleted, SameTies, SameLife

LEMMA DelFromTheLastDeletes ==
  ASSUME NEW w \in Worlds, NEW S
  PROVE  Deleted(DelFromTheLast(w, S), w, S)
<1> DEFINE n == Len(w.talk.msgs)
           walk == FromTheLast(w)
           Step(v, r) == IF r \in S THEN del_talk_msg(v, r) ELSE v
           I == {v \in Worlds : Deleted(v, w, {})}
           op == [i \in 1..n |-> [v \in I |-> Step(v, walk[i])]]
           pick == [s \in SUBSET (1..n) |-> Max(s)]
           Iterates(g) == g = [s \in SUBSET DOMAIN walk |->
                                IF s = {} THEN w ELSE Step(g[s \ {Max(s)}], walk[Max(s)])]
           Walk == CHOOSE g : Iterates(g)
<1>1. n \in Nat /\ IsFiniteSet(1..n) /\ DOMAIN w.talk.msgs = 1..n
  <2>1. w.talk.msgs \in Seq(Message \cup {None})
    BY DEF Worlds, TalkRec
  <2>2. n \in Nat /\ DOMAIN w.talk.msgs = 1..n
    BY <2>1, LenProperties
  <2> HIDE DEF n
  <2>3. IsFiniteSet(1..n)
    BY <2>2, FS_Interval
  <2> QED BY <2>2, <2>3
<1>2. /\ DOMAIN walk = 1..n
      /\ \A i \in 1..n : walk[i] \in 1..n /\ \E k \in 1..n : walk[k] = i
  <2> HIDE DEF n
  <2>1. walk = [i \in 1..n |-> (n - i) + 1]
    BY DEF FromTheLast, n
  <2>2. ASSUME NEW i \in 1..n PROVE (n - i) + 1 \in 1..n /\ n - ((n - i) + 1) + 1 = i
    BY <1>1
  <2>3. \A i \in 1..n : walk[i] \in 1..n /\ walk[(n - i) + 1] = i
    BY <2>1, <2>2
  <2> QED BY <2>1, <2>2, <2>3
<1>3. w \in I
  BY DEF Deleted, SameTies, SameLife
<1>4. ASSUME NEW v \in I, NEW r \in 1..n
      PROVE  /\ Step(v, r) \in I
             /\ \A i \in 1..n : v.talk.msgs[i] = None \/ (i = r /\ r \in S)
                  => Step(v, r).talk.msgs[i] = None
  <2>1. Deleted(v, w, {}) /\ v \in Worlds
    OBVIOUS
  <2>2. CASE r \in S
    <3>1. Deleted(del_talk_msg(v, r), v, {r})
      BY <1>1, <2>1, DelTalkMsg
    <3>2. Step(v, r) = del_talk_msg(v, r)
      BY <2>2
    <3> DEFINE u == del_talk_msg(v, r)
    <3> HIDE DEF n, Step, u
    <3>3. Deleted(u, w, {}) /\ u \in Worlds
      BY <2>1, <3>1 DEF Deleted, SameTies, SameLife, u
    <3>4. \A i \in 1..n : v.talk.msgs[i] = None \/ i = r => u.talk.msgs[i] = None
      BY <1>1, <2>1, <3>1 DEF Deleted, u
    <3> QED BY <3>2, <3>3, <3>4 DEF u
  <2>3. CASE r \notin S
    BY <2>3
  <2> QED BY <2>2, <2>3
<1>5. \A s \in SUBSET (1..n) : s # {} => Max(s) \in s /\ Max(s) \in 1..n /\ pick[s] = Max(s)
  BY <1>1, LargestOf
<1>6. PICK h \in [SUBSET (1..n) -> I] : \A s \in SUBSET (1..n) :
        h[s] = IF s = {} THEN w ELSE op[pick[s]][h[s \ {pick[s]}]]
  <2> DEFINE Places == 1..n
  <2>1. op \in [Places -> [I -> I]]
    <3> HIDE DEF Step, I, walk, n
    <3> QED BY <1>2, <1>4
  <2>2. PicksFrom(pick, Places) /\ IsFiniteSet(Places)
    BY <1>1, <1>5 DEF PicksFrom
  <2>3. \E h \in [SUBSET Places -> I] : IsTable(h, Places, pick, w, op)
    <3> HIDE DEF op, pick, I, Places, Iterates, Walk
    <3> QED BY <1>3, <2>1, <2>2, FoldTable
  <2> HIDE DEF op, pick, I, Iterates, Walk
  <2> QED BY <2>3 DEF IsTable
<1>7. Iterates(h)
  <2> DEFINE V(s) == IF s = {} THEN w ELSE Step(h[s \ {Max(s)}], walk[Max(s)])
  <2>1. ASSUME NEW s \in SUBSET (1..n) PROVE h[s] = V(s)
    <3>1. CASE s = {}
      BY <1>6, <3>1
    <3>2. CASE s # {}
      <4>1. pick[s] = Max(s) /\ Max(s) \in 1..n /\ h[s \ {Max(s)}] \in I
        BY <1>5, <3>2
      <4>2. h[s] = op[Max(s)][h[s \ {Max(s)}]]
        BY <1>6, <3>2, <4>1
      <4> HIDE DEF Step, I, walk, n
      <4> QED BY <3>2, <4>1, <4>2
    <3> QED BY <3>1, <3>2
  <2>2. h = [s \in SUBSET (1..n) |-> V(s)]
    <3> HIDE DEF V
    <3> QED BY <2>1
  <2> QED BY <1>2, <2>2
<1>8. Iterates(Walk)
  <2> HIDE DEF Iterates
  <2> QED BY <1>7
<1>9. DelFromTheLast(w, S) = Walk[DOMAIN walk]
  BY DEF DelFromTheLast, FoldLeft, MapThenFoldSet, Max
<1>10. \A s \in SUBSET (1..n) : Walk[s] = IF s = {} THEN w ELSE Step(Walk[s \ {Max(s)}], walk[Max(s)])
  <2> HIDE DEF Walk, Step
  <2> QED BY <1>2, <1>8
<1> DEFINE B == {s \in SUBSET (1..n) : /\ Walk[s] \in I
                                      /\ \A i \in s : walk[i] \in S => Walk[s].talk.msgs[walk[i]] = None}
<1>11. {} \in B
  <2> HIDE DEF Walk, Step, I, op, Iterates
  <2> QED BY <1>3, <1>10
<1>12. ASSUME NEW s \in SUBSET (1..n), s # {}, s \ {pick[s]} \in B PROVE s \in B
  <2> DEFINE last == Max(s)
             u == Walk[s \ {last}]
  <2>1. last \in s /\ last \in 1..n /\ pick[s] = last /\ walk[last] \in 1..n
    BY <1>2, <1>5, <1>12
  <2>2. u \in I /\ \A i \in s \ {last} : walk[i] \in S => u.talk.msgs[walk[i]] = None
    <3> HIDE DEF Walk, Step, I, last
    <3> QED BY <1>12, <2>1
  <2>3. Walk[s] = Step(u, walk[last])
    <3> HIDE DEF Walk, Step
    <3> QED BY <1>10, <1>12
  <2> HIDE DEF Walk, Step, I, last, u, walk
  <2>4. Walk[s] \in I /\ \A i \in 1..n : u.talk.msgs[i] = None \/ (i = walk[last] /\ walk[last] \in S)
                           => Walk[s].talk.msgs[i] = None
    BY <1>4, <2>1, <2>2, <2>3
  <2> QED BY <1>2, <2>1, <2>2, <2>4
<1>13. 1..n \in B
  <2> DEFINE Places == 1..n
  <2>1. PicksFrom(pick, Places) /\ Completes(B, pick, Places) /\ IsFiniteSet(Places)
    <3> HIDE DEF B
    <3> QED BY <1>1, <1>5, <1>11, <1>12 DEF PicksFrom, Completes
  <2>2. SUBSET Places \subseteq B
    <3> HIDE DEF B, pick, Places
    <3> QED BY <2>1, OneByOne
  <2> HIDE DEF B
  <2> QED BY <2>2
<1>14. /\ Deleted(Walk[1..n], w, {})
       /\ \A i \in 1..n : i \in S => Walk[1..n].talk.msgs[i] = None
  <2> HIDE DEF Walk, walk, n
  <2> QED BY <1>2, <1>13
<1> HIDE DEF Walk, walk, n
<1> QED BY <1>1, <1>2, <1>9, <1>14 DEF Deleted

\* Ties and lives that are the same, and messages that are the same or of the living
LEMMA SoundTies ==
  ASSUME NEW w \in Sound, NEW v \in Worlds, SameTies(v, w), Checked => OnlyLiving(v)
  PROVE  v \in Sound
<1>1. Mutual(v)
  BY DEF Sound, Mutual, SameTies
<1>2. Checked => Fitting(v)
  BY DEF Sound, Fitting, SameTies
<1> QED BY <1>1, <1>2 DEF Sound

LEMMA SoundDeleted ==
  ASSUME NEW w \in Sound, NEW v, NEW S, Deleted(v, w, S)
  PROVE  SoundWith(v, w)
<1>1. v \in Worlds /\ w \in Worlds /\ SameTies(v, w) /\ SameLife(v, w)
  BY DEF Deleted, Sound
<1>2. ASSUME Checked PROVE OnlyLiving(v)
  <2> SUFFICES ASSUME NEW i \in DOMAIN v.talk.msgs, v.talk.msgs[i] # None
               PROVE  Lives(v, v.talk.msgs[i])
    BY DEF OnlyLiving
  <2>1. i \in DOMAIN w.talk.msgs /\ v.talk.msgs[i] = w.talk.msgs[i]
    BY DEF Deleted
  <2>2. w.talk.msgs[i] \in Message
    BY <1>1, <2>1 DEF Worlds, TalkRec
  <2>3. Lives(w, w.talk.msgs[i])
    BY <1>2, <2>1 DEF Sound, OnlyLiving
  <2> DEFINE m == w.talk.msgs[i]
  <2> HIDE DEF m
  <2>4. Lives(v, m)
    BY <1>1, <2>2, <2>3 DEF Lives, SameLife, Message, MessageRec, m
  <2> QED BY <2>1, <2>4 DEF m
<1> QED BY <1>1, <1>2, SoundTies DEF SoundWith

LEMMA SoundLinkin ==
  ASSUME NEW w \in Sound, NEW m \in Message, Checked => Lives(w, m)
  PROVE  SoundWith(linkin(w, m), w) /\ SameTies(linkin(w, m), w)
<1> DEFINE S == Message \cup {None}
           v == linkin(w, m)
<1>1. /\ w \in Worlds /\ w.talk.msgs \in Seq(S) /\ w.talk.empty \in Seq(Nat)
      /\ w.freed \in SUBSET Nat /\ m \in S
  BY DEF Sound, Worlds, TalkRec
<1>2. PICK msgs \in Seq(S), empty \in Seq(Nat) :
        /\ v = TalkSet(w, msgs, empty, w.freed)
        /\ \A i \in DOMAIN msgs :
             msgs[i] = m \/ (i \in DOMAIN w.talk.msgs /\ msgs[i] = w.talk.msgs[i])
  <2>1. CASE w.talk.empty = <<>>
    <3> DEFINE msgs == Append(w.talk.msgs, m)
    <3>1. v = TalkSet(w, msgs, w.talk.empty, w.freed)
      BY <1>1, <2>1 DEF linkin, TalkSet, Worlds, TalkRec
    <3>2. /\ msgs \in Seq(S)
          /\ \A i \in DOMAIN msgs :
               msgs[i] = m \/ (i \in DOMAIN w.talk.msgs /\ msgs[i] = w.talk.msgs[i])
      <4> HIDE DEF S
      <4> QED BY <1>1
    <3> HIDE DEF msgs, v
    <3> QED BY <1>1, <3>1, <3>2
  <2>2. CASE w.talk.empty # <<>>
    <3> DEFINE msgs == [w.talk.msgs EXCEPT ![NewRecno(w)] = m]
               empty == Front(w.talk.empty)
    <3>1. v = TalkSet(w, msgs, empty, w.freed)
      BY <1>1, <2>2 DEF linkin, TalkSet, Worlds, TalkRec
    <3>2. msgs \in Seq(S) /\ DOMAIN msgs = DOMAIN w.talk.msgs
      <4> HIDE DEF S
      <4> QED BY <1>1, EntryChanged
    <3>3. empty \in Seq(Nat)
      BY <1>1, <2>2 DEF Front
    <3>4. \A i \in DOMAIN msgs :
            msgs[i] = m \/ (i \in DOMAIN w.talk.msgs /\ msgs[i] = w.talk.msgs[i])
      OBVIOUS
    <3> HIDE DEF msgs, empty, v
    <3> QED BY <3>1, <3>2, <3>3, <3>4
  <2> QED BY <2>1, <2>2
<1>3. v \in Worlds /\ v.nation = w.nation /\ v.talk.msgs = msgs
  <2> DEFINE freed == w.freed
             u == TalkSet(w, msgs, empty, freed)
  <2>1. freed \in SUBSET Nat
    BY <1>1
  <2>2. u \in Worlds /\ u.nation = w.nation /\ u.talk.msgs = msgs
    <3>1. w \in Worlds /\ msgs \in Seq(Message \cup {None}) /\ empty \in Seq(Nat)
      BY <1>1
    <3> HIDE DEF freed, S, v
    <3> QED BY <2>1, <3>1 DEF TalkSet, Worlds, TalkRec
  <2>3. v = u
    BY <1>2
  <2> HIDE DEF u, v
  <2> QED BY <2>2, <2>3
<1>4. SameTies(v, w) /\ SameLife(v, w)
  <2> HIDE DEF v
  <2> QED BY <1>3 DEF SameTies, SameLife, Status, Trades
<1>5. ASSUME Checked PROVE OnlyLiving(v)
  <2> SUFFICES ASSUME NEW i \in DOMAIN msgs, msgs[i] # None
               PROVE  Lives(v, msgs[i])
    BY <1>3 DEF OnlyLiving
  <2> HIDE DEF v
  <2> DEFINE x == msgs[i]
  <2>1. x \in Message /\ Lives(w, x)
    <3>1. CASE msgs[i] = m
      BY <3>1, <1>5
    <3>2. CASE i \in DOMAIN w.talk.msgs /\ msgs[i] = w.talk.msgs[i]
      BY <1>1, <1>5, <3>2 DEF Sound, OnlyLiving
    <3> QED BY <1>2, <3>1, <3>2
  <2> HIDE DEF x
  <2>2. Lives(v, x)
    BY <1>4, <2>1 DEF Lives, SameLife, Message, MessageRec
  <2> QED BY <2>2 DEF x
<1> HIDE DEF v
<1>6. v \in Sound
  BY <1>3, <1>4, <1>5, SoundTies
<1> QED BY <1>4, <1>6 DEF SoundWith, v

\* The last words about a nation
LEMMA SoundDelNation ==
  ASSUME NEW w \in Sound, NEW n \in Nations
  PROVE  DelNation(w, n) \in Sound
<1> DEFINE S == {r \in Recnos(w) : Mentions(w.talk.msgs[r], n)}
           v == DelFromTheLast(w, S)
           r == [v.nation[n] EXCEPT !.alive = FALSE, !.queue = <<>>]
           u == [v EXCEPT !.nation[n] = r]
<1>1. Deleted(v, w, S) /\ w \in Worlds
  BY DelFromTheLastDeletes DEF Sound
<1>2. v \in Worlds /\ v \in Sound /\ SameLife(v, w)
  <2> HIDE DEF S, v
  <2> QED BY <1>1, SoundDeleted DEF SoundWith, Sound
<1>3. /\ r \in NationRec /\ r.relation = v.nation[n].relation /\ r.trade = v.nation[n].trade
      /\ r.alive = FALSE
  <2>1. v.nation[n] \in NationRec
    <3> HIDE DEF v
    <3> QED BY <1>2 DEF Worlds
  <2> DEFINE x == v.nation[n]
  <2>2. /\ [x EXCEPT !.alive = FALSE, !.queue = <<>>] \in NationRec
        /\ [x EXCEPT !.alive = FALSE, !.queue = <<>>].relation = x.relation
        /\ [x EXCEPT !.alive = FALSE, !.queue = <<>>].trade = x.trade
        /\ [x EXCEPT !.alive = FALSE, !.queue = <<>>].alive = FALSE
    <3> HIDE DEF x
    <3>1. <<>> \in Seq(Nat)
      OBVIOUS
    <3> QED BY <2>1, <3>1 DEF NationRec, x
  <2> QED BY <2>2
<1>4. /\ u \in Worlds /\ u.talk = v.talk
      /\ \A x \in Nations : u.nation[x] = IF x = n THEN r ELSE v.nation[x]
  <2> HIDE DEF r, v
  <2> QED BY <1>2, <1>3, NationUpdate
<1>5. DelNation(w, n) = u
  <2> HIDE DEF v
  <2>1. u = [v EXCEPT !.nation[n].alive = FALSE, !.nation[n].queue = <<>>]
    BY <1>2 DEF Worlds, NationRec
  <2> HIDE DEF u
  <2> QED BY <2>1 DEF DelNation, v
<1>6. SameTies(u, v)
  <2> HIDE DEF r, u, v
  <2> QED BY <1>3, <1>4 DEF SameTies, Status, Trades
<1>7. ASSUME Checked PROVE OnlyLiving(u)
  <2> SUFFICES ASSUME NEW i \in DOMAIN u.talk.msgs, u.talk.msgs[i] # None
               PROVE  Lives(u, u.talk.msgs[i])
    BY DEF OnlyLiving
  <2> DEFINE x == u.talk.msgs[i]
  <2>1. i \in DOMAIN v.talk.msgs /\ x = v.talk.msgs[i]
    <3> HIDE DEF u, v
    <3> QED BY <1>4
  <2>2. x \in Message /\ Lives(v, x)
    <3> HIDE DEF u, v
    <3> QED BY <1>2, <1>7, <2>1 DEF Sound, OnlyLiving, Worlds, TalkRec
  <2>3. i \in DOMAIN w.talk.msgs /\ x = w.talk.msgs[i] /\ i \notin S
    <3> HIDE DEF u, v, S
    <3> QED BY <1>1, <2>1 DEF Deleted
  <2>4. ~Mentions(x, n)
    <3> HIDE DEF u, v
    <3> QED BY <2>3 DEF Recnos
  <2> HIDE DEF u, v, r, x
  <2>5. Lives(u, x)
    BY <1>3, <1>4, <2>2, <2>4 DEF Lives, Mentions, Message, MessageRec
  <2> QED BY <2>5 DEF x
<1> HIDE DEF u, v
<1> QED BY <1>2, <1>4, <1>5, <1>6, <1>7, SoundTies

\* A message that may be concluded: without stale replies, one that can still be sent, about a
\* nation that is there
Timely(w, m) == Checked => can_send_msg(w, m.to, m.from, m.talk_id) /\ ThirdLives(w, m)

Surrenders == {"REQUEST_SURRENDER", "SURRENDER"}

\* Trade is proposed to none that one is at war with, and not ended between allies.
LEMMA TimelyTrade ==
  ASSUME NEW w \in Sound, NEW m \in Message, Timely(w, m), Checked
  PROVE  /\ m.talk_id = "PROPOSE_TRADE_TREATY" => Status(w, m.to, m.from) # NATION_HOSTILE
         /\ m.talk_id = "END_TRADE_TREATY" => Status(w, m.to, m.from) # NATION_ALLIANCE
<1>1. Status(w, m.to, m.from) \in StatusesFor(m.talk_id)
  BY DEF Timely, can_send_msg, Sound, Mutual, Message, MessageRec
<1>2. /\ StatusesFor("PROPOSE_TRADE_TREATY") = Statuses \ {NATION_ALLIANCE, NATION_HOSTILE}
      /\ StatusesFor("END_TRADE_TREATY") = Statuses \ {NATION_ALLIANCE}
  BY DEF StatusesFor
<1> QED BY <1>1, <1>2

LEMMA SoundConcluded ==
  ASSUME NEW w \in Sound, NEW m \in Message, Timely(w, m)
  PROVE  IF m.talk_id \in Surrenders THEN Concluded(w, m) \in Sound
         ELSE SoundWith(Concluded(w, m), w)
<1> DEFINE v == delete_msg_in_reverse(w, m)
           f == m.from
           t == m.to
           c == Concluded(w, m)
<1>1. f \in Nations /\ t \in Nations /\ w \in Worlds
  BY DEF Message, MessageRec, Sound
<1>2. Deleted(v, w, SameMsgs(w, m.to, m.from, m.talk_id))
  BY <1>1, DelFromTheLastDeletes DEF delete_msg_in_reverse
<1>3. SoundWith(v, w) /\ v \in Sound /\ SameTies(v, w)
  <2> HIDE DEF v
  <2> QED BY <1>2, SoundDeleted DEF Deleted, SoundWith
<1>4. /\ m.talk_id = "PROPOSE_TRADE_TREATY" /\ Checked => Status(v, t, f) # NATION_HOSTILE
      /\ m.talk_id = "END_TRADE_TREATY" /\ Checked => Status(v, t, f) # NATION_ALLIANCE
  <2> HIDE DEF v
  <2> QED BY <1>1, <1>3, TimelyTrade DEF SameTies
<1>5. ASSUME NEW u, SoundWith(u, v) PROVE SoundWith(u, w)
  <2> HIDE DEF v
  <2> QED BY <1>3, <1>5 DEF SoundWith, SameLife
<1> HIDE DEF v, f, t
<1>6. CASE m.talk_id = "PROPOSE_TRADE_TREATY"
  <2>1. SoundWith(set_trade_treaty(v, t, f, TRUE), v)
    BY <1>1, <1>3, <1>4, <1>6, SoundTrade
  <2>2. c = set_trade_treaty(v, t, f, TRUE)
    BY <1>6 DEF Concluded, v, t, f
  <2> QED BY <1>5, <1>6, <2>1, <2>2 DEF Surrenders
<1>7. CASE m.talk_id = "END_TRADE_TREATY"
  <2>1. SoundWith(set_trade_treaty(v, t, f, FALSE), v)
    BY <1>1, <1>3, <1>4, <1>7, SoundTrade
  <2>2. c = set_trade_treaty(v, t, f, FALSE)
    BY <1>7 DEF Concluded, v, t, f
  <2> QED BY <1>5, <1>7, <2>1, <2>2 DEF Surrenders
<1>8. CASE m.talk_id = "PROPOSE_ALLIANCE_TREATY"
  <2>1. SoundWith(form_alliance_treaty(v, t, f), v)
    BY <1>1, <1>3, SoundAlliance
  <2>2. c = form_alliance_treaty(v, t, f)
    BY <1>8 DEF Concluded, v, t, f
  <2> QED BY <1>5, <1>8, <2>1, <2>2 DEF Surrenders
<1>9. CASE m.talk_id = "REQUEST_SURRENDER"
  <2>1. c = DelNation(v, t)
    BY <1>9 DEF Concluded, v, t
  <2> QED BY <1>1, <1>3, <1>9, <2>1, SoundDelNation DEF Surrenders
<1>10. CASE m.talk_id = "SURRENDER"
  <2>1. c = DelNation(v, f)
    BY <1>10 DEF Concluded, v, f
  <2> QED BY <1>1, <1>3, <1>10, <2>1, SoundDelNation DEF Surrenders
<1> DEFINE Others == Statuses \ {NATION_ALLIANCE}
<1>11. ASSUME NEW x \in {f, t}, NEW y \in {f, t}, NEW status \in Others
       PROVE  SoundWith(set_relation_status(v, x, y, status), w)
  <2>1. SoundWith(set_relation_status(v, x, y, status), v)
    BY <1>1, <1>3, SoundRelation
  <2> QED BY <1>5, <2>1
<1>12. /\ NATION_HOSTILE \in Others /\ NATION_TENSE \in Others
       /\ NATION_NEUTRAL \in Others /\ NATION_FRIENDLY \in Others
  BY DEF Statuses, NATION_ALLIANCE, NATION_HOSTILE, NATION_TENSE, NATION_NEUTRAL, NATION_FRIENDLY
<1>13. CASE m.talk_id = "PROPOSE_FRIENDLY_TREATY"
  <2>1. c = set_relation_status(v, t, f, NATION_FRIENDLY)
    BY <1>13 DEF Concluded, v, t, f
  <2> QED BY <1>11, <1>12, <1>13, <2>1 DEF Surrenders
<1>14. CASE m.talk_id \in {"END_FRIENDLY_TREATY", "END_ALLIANCE_TREATY"}
  <2>1. c = set_relation_status(v, f, t, NATION_NEUTRAL)
    BY <1>14 DEF Concluded, v, t, f
  <2> QED BY <1>11, <1>12, <1>14, <2>1 DEF Surrenders
<1>15. CASE m.talk_id = "REQUEST_CEASE_WAR"
  <2>1. c = set_relation_status(v, t, f, NATION_TENSE)
    BY <1>15 DEF Concluded, v, t, f
  <2> QED BY <1>11, <1>12, <1>15, <2>1 DEF Surrenders
<1>16. CASE m.talk_id = "DECLARE_WAR"
  <2>1. c = set_relation_status(v, t, f, NATION_HOSTILE)
    BY <1>16 DEF Concluded, v, t, f
  <2> QED BY <1>11, <1>12, <1>16, <2>1 DEF Surrenders
<1>17. CASE m.talk_id \notin {"PROPOSE_TRADE_TREATY", "END_TRADE_TREATY", "PROPOSE_ALLIANCE_TREATY",
                              "REQUEST_SURRENDER", "SURRENDER", "PROPOSE_FRIENDLY_TREATY",
                              "END_FRIENDLY_TREATY", "END_ALLIANCE_TREATY", "REQUEST_CEASE_WAR",
                              "DECLARE_WAR"}
  <2>1. c = v
    BY <1>17 DEF Concluded, v, t, f
  <2> QED BY <1>3, <1>17, <2>1 DEF Surrenders
<1> QED BY <1>6, <1>7, <1>8, <1>9, <1>10, <1>13, <1>14, <1>15, <1>16, <1>17

LEMMA SoundQueue ==
  ASSUME NEW w \in Sound, NEW n \in Nations, NEW q \in Seq(Nat)
  PROVE  SoundWith([w EXCEPT !.nation[n].queue = q], w)
<1> DEFINE v == [w EXCEPT !.nation[n].queue = q]
<1>1. w \in Worlds /\ (Checked => OnlyLiving(w))
  BY DEF Sound
<1>2. v \in Worlds /\ SameTies(v, w) /\ SameLife(v, w) /\ v.talk = w.talk
  BY <1>1, QueueUpdate
<1> HIDE DEF v
<1>3. Checked => OnlyLiving(v)
  BY <1>1, <1>2, SameTalk
<1>4. v \in Sound
  BY <1>2, <1>3, SoundTies
<1> QED BY <1>2, <1>4 DEF SoundWith, v

LEMMA NewRecnoType ==
  ASSUME NEW w \in Worlds
  PROVE  NewRecno(w) \in Nat
<1>1. w.talk.empty \in Seq(Nat) /\ w.talk.msgs \in Seq(Message \cup {None})
  BY DEF Worlds, TalkRec
<1>2. CASE w.talk.empty = <<>>
  <2>1. Len(w.talk.msgs) \in Nat
    BY <1>1, LenProperties
  <2> QED BY <1>2, <2>1 DEF NewRecno
<1>3. CASE w.talk.empty # <<>>
  BY <1>1, <1>3 DEF NewRecno, Last
<1> QED BY <1>2, <1>3

\* What can be sent depends on the relations and on who lives.
LEMMA SameChoice ==
  ASSUME NEW w, NEW v, SameTies(v, w), SameLife(v, w), NEW to \in Nations, NEW from \in Nations,
         NEW id
  PROVE  can_send_msg(w, to, from, id) => can_send_msg(v, to, from, id)
BY DEF can_send_msg, SameTies, SameLife

LEMMA SoundSend ==
  ASSUME NEW w \in Sound, NEW m \in Message, Checked => Lives(w, m)
  PROVE  IF m.talk_id \in Surrenders THEN send_talk_msg(w, m) \in Sound
         ELSE SoundWith(send_talk_msg(w, m), w)
<1> DEFINE linked == linkin(w, m)
           q == Append(linked.nation[m.to].queue, NewRecno(w))
           s == send_talk_msg(w, m)
<1>1. m.from \in Nations /\ m.to \in Nations /\ w \in Worlds
  BY DEF Message, MessageRec, Sound
<1>2. SoundWith(linked, w) /\ linked \in Sound /\ SameTies(linked, w) /\ SameLife(linked, w)
  BY SoundLinkin DEF SoundWith
<1>3. \/ s = w
      \/ s = linked
      \/ /\ s = Concluded(linked, m) /\ can_send_msg(w, m.to, m.from, m.talk_id)
         /\ m.reply_type = "NOT_NEEDED"
      \/ s = [linked EXCEPT !.nation[m.to].queue = q]
  BY DEF send_talk_msg
<1>4. CASE s = w
  BY <1>4 DEF SoundWith, SameLife
<1>5. CASE s = linked
  BY <1>2, <1>5
<1>6. CASE /\ s = Concluded(linked, m) /\ can_send_msg(w, m.to, m.from, m.talk_id)
           /\ m.reply_type = "NOT_NEEDED"
  <2> HIDE DEF linked, s
  <2>1. Timely(linked, m)
    <3>1. can_send_msg(linked, m.to, m.from, m.talk_id)
      BY <1>1, <1>2, <1>6, SameChoice
    <3>2. Checked => ThirdLives(linked, m)
      BY <1>2, <1>6 DEF Lives, Unheard, ThirdLives, SameLife, Message, MessageRec
    <3> QED BY <3>1, <3>2 DEF Timely
  <2>2. IF m.talk_id \in Surrenders THEN s \in Sound ELSE SoundWith(s, linked)
    BY <1>2, <1>6, <2>1, SoundConcluded
  <2>3. SoundWith(s, linked) => SoundWith(s, w)
    BY <1>2 DEF SoundWith, SameLife
  <2> QED BY <2>2, <2>3 DEF s
<1>7. CASE s = [linked EXCEPT !.nation[m.to].queue = q]
  <2>1. q \in Seq(Nat)
    <3>1. linked.nation[m.to].queue \in Seq(Nat)
      <4> HIDE DEF linked
      <4> QED BY <1>1, <1>2 DEF Sound, Worlds, NationRec
    <3> HIDE DEF linked
    <3> QED BY <1>1, <3>1, NewRecnoType
  <2> HIDE DEF linked, q, s
  <2>2. SoundWith(s, linked)
    BY <1>1, <1>2, <1>7, <2>1, SoundQueue
  <2>3. SoundWith(s, w)
    BY <1>2, <2>2 DEF SoundWith, SameLife
  <2> QED BY <2>3 DEF s, SoundWith
<1> QED BY <1>3, <1>4, <1>5, <1>6, <1>7

\* The messages that are sent are messages.
LEMMA MsgType ==
  ASSUME NEW from \in Nations, NEW to \in Nations, NEW id \in Ids \ AboutAThird, NEW w
  PROVE  /\ Msg(from, to, id, None) \in Message
         /\ Msg(from, to, id, None).talk_id = id
         /\ w.nation[from].alive /\ w.nation[to].alive => Lives(w, Msg(from, to, id, None))
BY DEF Msg, Message, MessageRec, Replies, Lives

\* A message to a nation that lives, about nobody, which is not a surrender
LEMMA SoundNote ==
  ASSUME NEW w \in Sound, NEW from \in Nations, NEW to \in Nations,
         NEW id \in Ids \ (AboutAThird \cup Surrenders),
         Checked => w.nation[from].alive /\ w.nation[to].alive
  PROVE  /\ SoundWith(send_talk_msg(w, Msg(from, to, id, None)), w)
         /\ SoundWith(ai_send_talk_msg(w, Msg(from, to, id, None)), w)
<1> DEFINE m == Msg(from, to, id, None)
<1>1. m \in Message /\ m.talk_id = id /\ (Checked => Lives(w, m))
  BY MsgType
<1> HIDE DEF m
<1>2. SoundWith(send_talk_msg(w, m), w)
  BY <1>1, SoundSend
<1>3. SoundWith(w, w)
  BY DEF SoundWith, SameLife
<1>4. SoundWith(ai_send_talk_msg(w, m), w)
  BY <1>2, <1>3 DEF ai_send_talk_msg
<1> QED BY <1>2, <1>4 DEF m

LEMMA SoundTwice ==
  ASSUME NEW u, NEW v, NEW w, SoundWith(u, v), SoundWith(v, w)
  PROVE  SoundWith(u, w)
BY DEF SoundWith, SameLife

LEMMA NoticesOfThePart ==
  /\ \A id \in {"END_TRADE_TREATY", "END_FRIENDLY_TREATY", "END_ALLIANCE_TREATY", "DECLARE_WAR"} :
       id \in Ids \ (AboutAThird \cup Surrenders)
BY DEF Ids, Notices, AboutAThird, Surrenders

LEMMA SoundAccepted ==
  ASSUME NEW w \in Sound, NEW m \in Message, Timely(w, m), Checked => Lives(w, m)
  PROVE  process_accepted_reply(w, m) \in Sound
<1> DEFINE v == Concluded(w, m)
           third == m.talk_para1
           treaty == IF Status(v, m.to, third) = NATION_ALLIANCE
                     THEN "END_ALLIANCE_TREATY" ELSE "END_FRIENDLY_TREATY"
           parted == send_talk_msg(v, Msg(m.to, third, treaty, None))
           peace == IF Status(v, m.to, third) >= NATION_FRIENDLY THEN parted ELSE v
           p == process_accepted_reply(w, m)
<1>1. v \in Sound /\ (m.talk_id \notin Surrenders => SoundWith(v, w))
  BY SoundConcluded DEF SoundWith
<1>2. CASE m.talk_id \notin AboutAThird
  <2>1. p = v
    BY <1>2 DEF process_accepted_reply, AboutAThird
  <2> QED BY <1>1, <2>1
<1>3. CASE m.talk_id \in AboutAThird
  <2>1. /\ m.to \in Nations /\ third \in Nations /\ SoundWith(v, w)
        /\ Checked => v.nation[m.to].alive /\ v.nation[third].alive
    <3>1. SoundWith(v, w)
      <4> HIDE DEF v
      <4> QED BY <1>1, <1>3 DEF AboutAThird, Surrenders
    <3>2. m.to \in Nations /\ third \in Nations
      BY <1>3 DEF Message, MessageRec
    <3>3. Checked => w.nation[m.to].alive /\ w.nation[third].alive
      BY <1>3 DEF Timely, ThirdLives, Lives
    <3> HIDE DEF v
    <3> QED BY <3>1, <3>2, <3>3 DEF SoundWith, SameLife
  <2> HIDE DEF v, third
  <2>2. SoundWith(parted, v)
    BY <1>1, <2>1, NoticesOfThePart, SoundNote
  <2>3. peace \in Sound /\ SoundWith(peace, v)
    <3> HIDE DEF parted
    <3> QED BY <1>1, <2>2 DEF SoundWith, SameLife
  <2>4. Checked => peace.nation[m.to].alive /\ peace.nation[third].alive
    <3> HIDE DEF peace
    <3> QED BY <2>1, <2>3 DEF SoundWith, SameLife
  <2>5. send_talk_msg(v, Msg(m.to, third, "END_TRADE_TREATY", None)) \in Sound
    BY <1>1, <2>1, NoticesOfThePart, SoundNote DEF SoundWith
  <2>6. send_talk_msg(peace, Msg(m.to, third, "DECLARE_WAR", None)) \in Sound
    <3> HIDE DEF peace
    <3> QED BY <2>1, <2>3, <2>4, NoticesOfThePart, SoundNote DEF SoundWith
  <2>7. \/ p = v
        \/ p = send_talk_msg(v, Msg(m.to, third, "END_TRADE_TREATY", None))
        \/ p = send_talk_msg(peace, Msg(m.to, third, "DECLARE_WAR", None))
    BY DEF process_accepted_reply, v, third
  <2> HIDE DEF peace, p
  <2> QED BY <1>1, <2>5, <2>6, <2>7 DEF p
<1> QED BY <1>2, <1>3

-----------------------------------------------------------------------------
(* Replies.                                                                  *)

LEMMA SoundReplied ==
  ASSUME NEW w \in Sound, NEW r \in Recnos(w), NEW reply \in Replies,
         Checked => ThirdLives(w, w.talk.msgs[r])
  PROVE  LET v == [w EXCEPT !.talk.msgs[r].reply_type = reply]
             m == w.talk.msgs[r]
         IN  /\ SoundWith(v, w) /\ SameTies(v, w)
             /\ m \in Message /\ v.talk.msgs[r] = [m EXCEPT !.reply_type = reply]
             /\ [m EXCEPT !.reply_type = reply] \in Message
             /\ Checked => Lives(v, [m EXCEPT !.reply_type = reply])
<1> DEFINE S == Message \cup {None}
           m == w.talk.msgs[r]
           x == [m EXCEPT !.reply_type = reply]
           msgs == [w.talk.msgs EXCEPT ![r] = x]
           u == TalkSet(w, msgs, w.talk.empty, w.freed)
           v == [w EXCEPT !.talk.msgs[r].reply_type = reply]
<1>1. /\ w \in Worlds /\ w.talk.msgs \in Seq(S) /\ w.talk.empty \in Seq(Nat)
      /\ w.freed \in SUBSET Nat /\ r \in DOMAIN w.talk.msgs
  BY DEF Sound, Worlds, TalkRec, Recnos
<1>2. m \in Message /\ (Checked => Lives(w, m))
  BY <1>1 DEF Recnos, Sound, OnlyLiving
<1>3. /\ x \in Message /\ x.from = m.from /\ x.to = m.to /\ x.talk_id = m.talk_id
      /\ x.talk_para1 = m.talk_para1
  BY <1>2 DEF Message, MessageRec
<1>4. /\ msgs \in Seq(S) /\ DOMAIN msgs = DOMAIN w.talk.msgs
      /\ \A i \in DOMAIN msgs : msgs[i] = IF i = r THEN x ELSE w.talk.msgs[i]
  <2> HIDE DEF x
  <2>1. x \in S
    BY <1>3
  <2> HIDE DEF S
  <2> QED BY <1>1, <2>1, EntryChanged
<1>5. v = u
  BY <1>1 DEF TalkSet, Worlds, TalkRec
<1>6. v \in Worlds /\ v.nation = w.nation /\ v.talk.msgs = msgs
  <2>1. u \in Worlds /\ u.nation = w.nation /\ u.talk.msgs = msgs
    <3> HIDE DEF msgs
    <3> QED BY <1>1, <1>4 DEF TalkSet, Worlds, TalkRec
  <2> HIDE DEF msgs, u, v
  <2> QED BY <1>5, <2>1
<1>7. SameTies(v, w) /\ SameLife(v, w)
  <2> HIDE DEF v
  <2> QED BY <1>6 DEF SameTies, SameLife, Status, Trades
<1>8. Checked => Lives(v, x)
  <2>1. Checked => ThirdLives(w, m)
    OBVIOUS
  <2> HIDE DEF v, m, x
  <2> QED BY <1>2, <1>3, <1>7, <2>1 DEF Lives, ThirdLives, SameLife, Message, MessageRec
<1>9. ASSUME Checked PROVE OnlyLiving(v)
  <2> SUFFICES ASSUME NEW i \in DOMAIN msgs, msgs[i] # None
               PROVE  Lives(v, msgs[i])
    <3> HIDE DEF msgs, v
    <3> QED BY <1>6 DEF OnlyLiving
  <2>1. CASE i = r
    <3> HIDE DEF v, x, msgs
    <3> QED BY <1>4, <1>8, <1>9, <2>1
  <2>2. CASE i # r
    <3> DEFINE y == w.talk.msgs[i]
    <3> HIDE DEF v, x, msgs
    <3>1. y \in Message /\ Lives(w, y) /\ msgs[i] = y
      BY <1>1, <1>4, <1>9, <2>2 DEF Sound, OnlyLiving
    <3> HIDE DEF y
    <3>2. Lives(v, y)
      BY <1>7, <3>1 DEF Lives, SameLife, Message, MessageRec
    <3> QED BY <3>1, <3>2
  <2> QED BY <2>1, <2>2
<1>10. v.talk.msgs[r] = x
  <2> HIDE DEF v, x, msgs
  <2> QED BY <1>1, <1>4, <1>6
<1>11. v \in Sound
  <2> HIDE DEF v
  <2> QED BY <1>6, <1>7, <1>9, SoundTies
<1> HIDE DEF v, x
<1> QED BY <1>2, <1>3, <1>7, <1>8, <1>10, <1>11 DEF SoundWith, v, x

LEMMA SoundGift ==
  ASSUME NEW w \in Sound, NEW m \in Message, Checked => Lives(w, m)
  PROVE  GiftAndAgain(w, m) \subseteq Sound
<1> DEFINE gift == IF Status(w, m.from, m.to) >= NATION_FRIENDLY THEN "GIVE_AID" ELSE "GIVE_TRIBUTE"
           again == {"PROPOSE_TRADE_TREATY", "PROPOSE_FRIENDLY_TREATY",
                     "PROPOSE_ALLIANCE_TREATY", "REQUEST_CEASE_WAR"}
           u == ai_send_talk_msg(w, Msg(m.from, m.to, gift, None))
           v == ai_send_talk_msg(u, Msg(m.from, m.to, m.talk_id, m.talk_para1))
<1>1. /\ m.from \in Nations /\ m.to \in Nations /\ m.talk_id \in Ids
      /\ Checked => w.nation[m.from].alive /\ w.nation[m.to].alive
  BY DEF Message, MessageRec, Lives
<1>2. CASE gift \in TalkIds /\ m.talk_id \in again
  <2>1. /\ gift \in Ids \ (AboutAThird \cup Surrenders)
        /\ m.talk_id \in Ids \ (AboutAThird \cup Surrenders) /\ m.talk_para1 = None
    BY <1>1, <1>2 DEF Ids, AboutAThird, Surrenders, Message
  <2> HIDE DEF gift
  <2>2. SoundWith(u, w)
    BY <1>1, <2>1, SoundNote
  <2> HIDE DEF u
  <2>3. u \in Sound /\ (Checked => u.nation[m.from].alive /\ u.nation[m.to].alive)
    BY <1>1, <2>2 DEF SoundWith, SameLife
  <2>4. SoundWith(v, u)
    BY <1>1, <2>1, <2>3, SoundNote
  <2>5. GiftAndAgain(w, m) \subseteq {v}
    BY DEF GiftAndAgain, gift, u
  <2> HIDE DEF v
  <2> QED BY <2>4, <2>5 DEF SoundWith
<1>3. CASE ~(gift \in TalkIds /\ m.talk_id \in again)
  BY <1>3 DEF GiftAndAgain
<1> QED BY <1>2, <1>3

LEMMA SoundNotified ==
  ASSUME NEW w \in Sound, NEW r, w.talk.msgs[r] \in Message,
         Checked => Lives(w, w.talk.msgs[r])
  PROVE  ai_notify_reply(w, r) \subseteq Sound
<1> DEFINE m == w.talk.msgs[r]
           status == Status(w, m.from, m.to)
           answers == IF status = NATION_ALLIANCE THEN {"END_ALLIANCE_TREATY"}
                      ELSE IF status = NATION_FRIENDLY THEN {"END_FRIENDLY_TREATY"} ELSE {"DECLARE_WAR"}
           fitting == {id \in answers : id # "DECLARE_WAR" => m.talk_id # "PROPOSE_ALLIANCE_TREATY"}
           words == {"END_TRADE_TREATY", "END_FRIENDLY_TREATY", "END_ALLIANCE_TREATY", "DECLARE_WAR"}
<1>1. m \in Message /\ (Checked => Lives(w, m))
  OBVIOUS
<1>2. fitting \subseteq words
  OBVIOUS
<1>3. ASSUME NEW id \in fitting PROVE ai_send_talk_msg(w, Msg(m.from, m.to, id, None)) \in Sound
  <2>1. /\ m.from \in Nations /\ m.to \in Nations
        /\ Checked => w.nation[m.from].alive /\ w.nation[m.to].alive
    BY <1>1 DEF Message, MessageRec, Lives
  <2>2. id \in Ids \ (AboutAThird \cup Surrenders)
    BY <1>2, NoticesOfThePart
  <2> HIDE DEF fitting, m
  <2> QED BY <2>1, <2>2, SoundNote DEF SoundWith
<1>4. GiftAndAgain(w, m) \subseteq Sound
  BY <1>1, SoundGift
<1>5. ai_notify_reply(w, r) \subseteq
        {w} \cup GiftAndAgain(w, m) \cup {ai_send_talk_msg(w, Msg(m.from, m.to, id, None)) : id \in fitting}
  BY DEF ai_notify_reply
<1> HIDE DEF fitting, m
<1> QED BY <1>3, <1>4, <1>5

LEMMA SoundReply ==
  ASSUME NEW w \in Sound, NEW r \in Recnos(w), NEW reply \in {"ACCEPT", "REJECT"},
         Timely(w, w.talk.msgs[r])
  PROVE  reply_talk_msg(w, r, reply) \subseteq Sound
<1> DEFINE old == w.talk.msgs[r]
           replied == [w EXCEPT !.talk.msgs[r].reply_type = reply]
           m == replied.talk.msgs[r]
           x == [old EXCEPT !.reply_type = reply]
           told == IF m.from \in AI THEN ai_notify_reply(replied, r) ELSE {replied}
<1>1. /\ SoundWith(replied, w) /\ SameTies(replied, w) /\ old \in Message /\ m = x /\ x \in Message
      /\ Checked => Lives(replied, x)
  <2>1. reply \in Replies /\ (Checked => ThirdLives(w, old))
    BY DEF Replies, Timely
  <2> QED BY <2>1, SoundReplied
<1>2. /\ replied \in Sound /\ SameLife(replied, w) /\ m \in Message
      /\ x.reply_type = reply /\ x.from = old.from /\ x.to = old.to /\ x.talk_id = old.talk_id
      /\ x.talk_para1 = old.talk_para1 /\ old.from \in Nations /\ old.to \in Nations
  <2> HIDE DEF replied
  <2>1. /\ x.reply_type = reply /\ x.from = old.from /\ x.to = old.to /\ x.talk_id = old.talk_id
        /\ x.talk_para1 = old.talk_para1 /\ old.from \in Nations /\ old.to \in Nations
    BY <1>1 DEF Message, MessageRec
  <2> QED BY <1>1, <2>1 DEF SoundWith
<1>3. reply = "ACCEPT" => told = {replied}
  <2>1. reply = "ACCEPT" => ai_notify_reply(replied, r) = {replied}
    <3> HIDE DEF replied, x
    <3> QED BY <1>1, <1>2 DEF ai_notify_reply
  <2> HIDE DEF replied
  <2> QED BY <2>1
<1>4. told \subseteq Sound
  <2>1. ai_notify_reply(replied, r) \subseteq Sound
    <3> HIDE DEF replied, x
    <3> QED BY <1>1, <1>2, SoundNotified
  <2> HIDE DEF replied
  <2> QED BY <1>2, <2>1
<1>5. CASE reply = "ACCEPT"
  <2>1. Timely(replied, m)
    <3> HIDE DEF replied, x, old
    <3>1. ASSUME Checked PROVE can_send_msg(replied, old.to, old.from, old.talk_id)
      BY <1>1, <1>2, <1>5, <3>1, SameChoice DEF Timely, old
    <3>2. Checked => ThirdLives(w, old)
      BY DEF Timely, old
    <3>3. Checked => ThirdLives(replied, m)
      BY <1>1, <1>2, <3>2 DEF ThirdLives, SameLife, Message, MessageRec
    <3> QED BY <1>1, <1>2, <3>1, <3>3 DEF Timely
  <2>2. process_accepted_reply(replied, m) \in Sound
    <3> HIDE DEF replied, x
    <3> QED BY <1>1, <1>2, <2>1, SoundAccepted
  <2>3. reply_talk_msg(w, r, reply) = {process_accepted_reply(v, m) : v \in told}
    BY <1>5 DEF reply_talk_msg
  <2> HIDE DEF replied, m, told
  <2> QED BY <1>3, <1>5, <2>2, <2>3
<1>6. CASE reply # "ACCEPT"
  <2>1. reply_talk_msg(w, r, reply) = told
    BY <1>6 DEF reply_talk_msg
  <2> HIDE DEF told
  <2> QED BY <1>4, <2>1
<1> QED BY <1>5, <1>6

LEMMA ValidIsTimely ==
  ASSUME NEW w, NEW m, is_valid_to_reply(w, m)
  PROVE  Timely(w, m)
BY DEF is_valid_to_reply, Timely, ThirdLives, FitsThird

LEMMA SoundAiReply ==
  ASSUME NEW w \in Sound, NEW r
  PROVE  ai_process_talk_msg(w, r) \subseteq Sound
<1> DEFINE m == w.talk.msgs[r]
<1>1. CASE ~is_talk_msg_deleted(w, r) /\ is_valid_to_reply(w, m)
  <2>1. r \in Recnos(w) /\ Timely(w, m)
    BY <1>1, ValidIsTimely DEF is_talk_msg_deleted, Recnos
  <2>2. \A reply \in {"ACCEPT", "REJECT"} : reply_talk_msg(w, r, reply) \subseteq Sound
    BY <2>1, SoundReply
  <2>3. consider_talk_msg(w, m) \subseteq {"ACCEPT", "REJECT"}
    BY DEF consider_talk_msg
  <2>4. ai_process_talk_msg(w, r) = UNION {reply_talk_msg(w, r, reply) : reply \in consider_talk_msg(w, m)}
    BY <1>1 DEF ai_process_talk_msg
  <2> HIDE DEF m
  <2> QED BY <2>2, <2>3, <2>4
<1>2. CASE ~(~is_talk_msg_deleted(w, r) /\ is_valid_to_reply(w, m))
  BY <1>2 DEF ai_process_talk_msg
<1> QED BY <1>1, <1>2

LEMMA SoundFirst ==
  ASSUME NEW w \in Sound, NEW n \in Nations
  PROVE  FirstProcessed(w, n) \subseteq Sound
<1> DEFINE r == Head(w.nation[n].queue)
           answered == IF is_talk_msg_deleted(w, r) \/ HasRoomFor(w, w.talk.msgs[r])
                       THEN ai_process_talk_msg(w, r) ELSE {}
           After(v) == IF v.nation[n].alive THEN [v EXCEPT !.nation[n].queue = RemoveAt(@, 1)] ELSE v
<1>1. answered \subseteq Sound
  BY SoundAiReply
<1>2. ASSUME NEW v \in Sound PROVE After(v) \in Sound
  <2> DEFINE q == RemoveAt(v.nation[n].queue, 1)
  <2>1. v.nation[n].queue \in Seq(Nat)
    BY DEF Sound, Worlds, NationRec
  <2>2. q \in Seq(Nat)
    BY <2>1 DEF RemoveAt
  <2>3. [v EXCEPT !.nation[n].queue = q] \in Sound
    <3> HIDE DEF q
    <3> QED BY <2>2, SoundQueue DEF SoundWith
  <2> QED BY <2>3
<1>3. FirstProcessed(w, n) \subseteq {w} \cup {After(v) : v \in answered}
  BY DEF FirstProcessed
<1> HIDE DEF answered, After
<1> QED BY <1>1, <1>2, <1>3

LEMMA SoundOne ==
  ASSUME NEW w \in Sound, NEW r \in Nat
  PROVE  ProcessOne(w, r) \subseteq Sound
<1> DEFINE m == w.talk.msgs[r]
           rejected == [w EXCEPT !.talk.msgs[r].reply_type = "REJECT"]
           silent == m.from \in AI /\ m.reply_type = "WAITING" /\ m.age > DISP_NEWS_DAYS
           heard == IF silent THEN ai_notify_reply(rejected, r) ELSE {w}
<1>1. CASE is_talk_msg_deleted(w, r)
  BY <1>1 DEF ProcessOne
<1>2. CASE ~is_talk_msg_deleted(w, r)
  <2>1. r \in Recnos(w)
    BY <1>2 DEF is_talk_msg_deleted, Recnos
  <2>2. ASSUME silent
        PROVE  /\ rejected \in Sound /\ rejected.talk.msgs[r] \in Message
               /\ Checked => Lives(rejected, rejected.talk.msgs[r])
    <3>1. "REJECT" \in Replies /\ (Checked => ThirdLives(w, m))
      <4>1. (Checked => Lives(w, m)) /\ m.from \in AI
        BY <2>1, <2>2 DEF Sound, OnlyLiving, Recnos
      <4> HIDE DEF m
      <4> QED BY <4>1 DEF Replies, Lives, Unheard, ThirdLives, Humans
    <3>2. /\ SoundWith(rejected, w) /\ m \in Message
          /\ rejected.talk.msgs[r] = [m EXCEPT !.reply_type = "REJECT"]
          /\ [m EXCEPT !.reply_type = "REJECT"] \in Message
          /\ Checked => Lives(rejected, rejected.talk.msgs[r])
      BY <2>1, <3>1, SoundReplied
    <3> HIDE DEF rejected
    <3> QED BY <3>2 DEF SoundWith
  <2>3. heard \subseteq Sound
    <3>1. silent => ai_notify_reply(rejected, r) \subseteq Sound
      <4> HIDE DEF rejected, silent
      <4> QED BY <2>2, SoundNotified
    <3> HIDE DEF silent, rejected
    <3> QED BY <3>1
  <2>4. ASSUME NEW v \in Sound PROVE del_talk_msg(v, r) \in Sound
    <3>1. Deleted(del_talk_msg(v, r), v, {r})
      BY DelTalkMsg DEF Sound
    <3> QED BY <3>1, SoundDeleted DEF SoundWith
  <2>5. ProcessOne(w, r) = IF m.age > TALK_MSG_KEEP_DAYS THEN {del_talk_msg(v, r) : v \in heard} ELSE heard
    BY <1>2 DEF ProcessOne
  <2> HIDE DEF heard, m
  <2> QED BY <2>3, <2>4, <2>5
<1> QED BY <1>1, <1>2

-----------------------------------------------------------------------------
(* Walks over messages.                                                      *)

LEMMA SoundProcess ==
  ASSUME NEW w \in Sound
  PROVE  process_talk_msg(w) \subseteq Sound
<1> DEFINE n == Len(w.talk.msgs)
           walk == FromTheLast(w)
           Step(S, r) == UNION {ProcessOne(v, r) : v \in S}
           I == SUBSET Sound
           op == [i \in 1..n |-> [x \in I |-> Step(x, walk[i])]]
           pick == [s \in SUBSET (1..n) |-> Max(s)]
           Iterates(g) == g = [s \in SUBSET DOMAIN walk |->
                                IF s = {} THEN {w} ELSE Step(g[s \ {Max(s)}], walk[Max(s)])]
           Walk == CHOOSE g : Iterates(g)
<1>1. n \in Nat /\ IsFiniteSet(1..n)
  <2>1. w.talk.msgs \in Seq(Message \cup {None})
    BY DEF Sound, Worlds, TalkRec
  <2> QED BY <2>1, LenProperties, FS_Interval
<1>2. DOMAIN walk = 1..n /\ \A i \in 1..n : walk[i] \in Nat
  <2> HIDE DEF n
  <2>1. walk = [i \in 1..n |-> (n - i) + 1]
    BY DEF FromTheLast, n
  <2> QED BY <1>1, <2>1
<1>3. {w} \in I
  OBVIOUS
<1>4. \A S \in I, r \in Nat : Step(S, r) \in I
  BY SoundOne
<1>5. \A s \in SUBSET (1..n) : s # {} => Max(s) \in s /\ Max(s) \in 1..n /\ pick[s] = Max(s)
  BY <1>1, LargestOf
<1>6. PICK h \in [SUBSET (1..n) -> I] : \A s \in SUBSET (1..n) :
        h[s] = IF s = {} THEN {w} ELSE op[pick[s]][h[s \ {pick[s]}]]
  <2> DEFINE Places == 1..n
  <2>1. op \in [Places -> [I -> I]]
    <3> HIDE DEF Step, I, walk, n
    <3> QED BY <1>2, <1>4
  <2>2. PicksFrom(pick, Places) /\ IsFiniteSet(Places)
    BY <1>1, <1>5 DEF PicksFrom
  <2>3. \E h \in [SUBSET Places -> I] : IsTable(h, Places, pick, {w}, op)
    <3> DEFINE base == {w}
    <3>1. base \in I
      BY <1>3
    <3> HIDE DEF op, pick, I, Places, Iterates, Walk, base
    <3>2. \E h \in [SUBSET Places -> I] : IsTable(h, Places, pick, base, op)
      BY <2>1, <2>2, <3>1, FoldTable
    <3> QED BY <3>2 DEF base
  <2> HIDE DEF op, pick, I, Iterates, Walk
  <2> QED BY <2>3 DEF IsTable
<1>7. Iterates(h)
  <2> DEFINE V(s) == IF s = {} THEN {w} ELSE Step(h[s \ {Max(s)}], walk[Max(s)])
  <2>1. ASSUME NEW s \in SUBSET (1..n) PROVE h[s] = V(s)
    <3>1. CASE s = {}
      BY <1>6, <3>1
    <3>2. CASE s # {}
      <4>1. pick[s] = Max(s) /\ Max(s) \in 1..n /\ h[s \ {Max(s)}] \in I
        BY <1>5, <3>2
      <4>2. h[s] = op[Max(s)][h[s \ {Max(s)}]]
        BY <1>6, <3>2, <4>1
      <4> HIDE DEF Step, I, walk, n
      <4> QED BY <3>2, <4>1, <4>2
    <3> QED BY <3>1, <3>2
  <2>2. h = [s \in SUBSET (1..n) |-> V(s)]
    <3> HIDE DEF V
    <3> QED BY <2>1
  <2> QED BY <1>2, <2>2
<1>8. Iterates(Walk)
  <2> HIDE DEF Iterates
  <2> QED BY <1>7
<1>9. process_talk_msg(w) = Walk[DOMAIN walk]
  BY DEF process_talk_msg, FoldLeft, MapThenFoldSet, Max
<1>10. \A s \in SUBSET (1..n) :
         Walk[s] = IF s = {} THEN {w} ELSE Step(Walk[s \ {Max(s)}], walk[Max(s)])
  <2> HIDE DEF Walk, Step
  <2> QED BY <1>2, <1>8
<1>11. Walk[{}] \in I /\ Keeps(Walk, n, I)
  <2> HIDE DEF Walk, Step, I, walk, n
  <2>1. Walk[{}] \in I
    BY <1>3, <1>10
  <2>2. ASSUME NEW s \in SUBSET (1..n), s # {}, Walk[s \ {Max(s)}] \in I PROVE Walk[s] \in I
    <3> DEFINE last == Max(s)
    <3>1. last \in 1..n /\ Walk[s] = Step(Walk[s \ {last}], walk[last])
      BY <1>5, <1>10, <2>2
    <3>2. Walk[s \ {last}] \in I
      BY <2>2
    <3> HIDE DEF last
    <3> QED BY <1>2, <1>4, <3>1, <3>2
  <2> QED BY <2>1, <2>2 DEF Keeps
<1>12. Walk[1..n] \in I
  <2> HIDE DEF Walk, I, n
  <2> QED BY <1>1, <1>11, WalkStays
<1> HIDE DEF Walk
<1> QED BY <1>2, <1>9, <1>12

LEMMA SoundAllProcessed ==
  ASSUME World \in Sound, NEW p \in Nations
  PROVE  AllProcessed(p) \subseteq Sound
<1> DEFINE n == MaxRecords
           walk == [i \in 1..n |-> i]
           Step(S, i) == UNION {FirstProcessed(w, p) : w \in S}
           I == SUBSET Sound
           op == [i \in 1..n |-> [x \in I |-> Step(x, walk[i])]]
           pick == [s \in SUBSET (1..n) |-> Max(s)]
           Iterates(g) == g = [s \in SUBSET DOMAIN walk |->
                                IF s = {} THEN {World} ELSE Step(g[s \ {Max(s)}], walk[Max(s)])]
           Walk == CHOOSE g : Iterates(g)
<1>1. n \in Nat /\ IsFiniteSet(1..n)
  BY DiplomacyAssumption, FS_Interval
<1>2. DOMAIN walk = 1..n
  OBVIOUS
<1>3. {World} \in I
  OBVIOUS
<1>4. \A S \in I : \A i : Step(S, i) \in I
  BY SoundFirst
<1>5. \A s \in SUBSET (1..n) : s # {} => Max(s) \in s /\ Max(s) \in 1..n /\ pick[s] = Max(s)
  BY <1>1, LargestOf
<1>6. PICK h \in [SUBSET (1..n) -> I] : \A s \in SUBSET (1..n) :
        h[s] = IF s = {} THEN {World} ELSE op[pick[s]][h[s \ {pick[s]}]]
  <2> DEFINE Places == 1..n
  <2>1. op \in [Places -> [I -> I]]
    <3> HIDE DEF Step, I, walk, n
    <3> QED BY <1>2, <1>4
  <2>2. PicksFrom(pick, Places) /\ IsFiniteSet(Places)
    BY <1>1, <1>5 DEF PicksFrom
  <2>3. \E h \in [SUBSET Places -> I] : IsTable(h, Places, pick, {World}, op)
    <3> DEFINE base == {World}
    <3>1. base \in I
      BY <1>3
    <3> HIDE DEF op, pick, I, Places, Iterates, Walk, base
    <3>2. \E h \in [SUBSET Places -> I] : IsTable(h, Places, pick, base, op)
      BY <2>1, <2>2, <3>1, FoldTable
    <3> QED BY <3>2 DEF base
  <2> HIDE DEF op, pick, I, Iterates, Walk
  <2> QED BY <2>3 DEF IsTable
<1>7. Iterates(h)
  <2> DEFINE V(s) == IF s = {} THEN {World} ELSE Step(h[s \ {Max(s)}], walk[Max(s)])
  <2>1. ASSUME NEW s \in SUBSET (1..n) PROVE h[s] = V(s)
    <3>1. CASE s = {}
      BY <1>6, <3>1
    <3>2. CASE s # {}
      <4>1. pick[s] = Max(s) /\ Max(s) \in 1..n /\ h[s \ {Max(s)}] \in I
        BY <1>5, <3>2
      <4>2. h[s] = op[Max(s)][h[s \ {Max(s)}]]
        BY <1>6, <3>2, <4>1
      <4> HIDE DEF Step, I, walk, n
      <4> QED BY <3>2, <4>1, <4>2
    <3> QED BY <3>1, <3>2
  <2>2. h = [s \in SUBSET (1..n) |-> V(s)]
    <3> HIDE DEF V
    <3> QED BY <2>1
  <2> QED BY <1>2, <2>2
<1>8. Iterates(Walk)
  <2> HIDE DEF Iterates
  <2> QED BY <1>7
<1>9. AllProcessed(p) = Walk[DOMAIN walk]
  BY DEF AllProcessed, FoldLeft, MapThenFoldSet, Max
<1>10. \A s \in SUBSET (1..n) :
         Walk[s] = IF s = {} THEN {World} ELSE Step(Walk[s \ {Max(s)}], walk[Max(s)])
  <2> HIDE DEF Walk, Step
  <2> QED BY <1>2, <1>8
<1>11. Walk[{}] \in I /\ Keeps(Walk, n, I)
  <2> HIDE DEF Walk, Step, I, walk, n
  <2>1. Walk[{}] \in I
    BY <1>3, <1>10
  <2>2. ASSUME NEW s \in SUBSET (1..n), s # {}, Walk[s \ {Max(s)}] \in I PROVE Walk[s] \in I
    <3> DEFINE last == Max(s)
    <3>1. last \in 1..n /\ Walk[s] = Step(Walk[s \ {last}], walk[last])
      BY <1>5, <1>10, <2>2
    <3>2. Walk[s \ {last}] \in I
      BY <2>2
    <3> HIDE DEF last
    <3> QED BY <1>2, <1>4, <3>1, <3>2
  <2> QED BY <2>1, <2>2 DEF Keeps
<1>12. Walk[1..n] \in I
  <2> HIDE DEF Walk, I, n
  <2> QED BY <1>1, <1>11, WalkStays
<1> HIDE DEF Walk
<1> QED BY <1>2, <1>9, <1>12

\* A message a period later, and all of them
Older(m) == IF m = None \/ m.age > TALK_MSG_KEEP_DAYS THEN m ELSE [m EXCEPT !.age = @ + 1]
Aged(msgs) == FoldLeft(LAMBDA s, m : Append(s, Older(m)), <<>>, msgs)

\* The records of messages that may stand in a world like w
RecordsFor(w) ==
  {s \in Seq(Message \cup {None}) :
     Checked => \A i \in DOMAIN s : s[i] # None => Lives(w, s[i])}

LEMMA AgedRecords ==
  ASSUME NEW w, NEW msgs \in RecordsFor(w)
  PROVE  Aged(msgs) \in RecordsFor(w)
<1> DEFINE n == Len(msgs)
           M == Message \cup {None}
           Step(s, m) == Append(s, Older(m))
           I == RecordsFor(w)
           op == [i \in 1..n |-> [x \in I |-> Step(x, msgs[i])]]
           pick == [s \in SUBSET (1..n) |-> Max(s)]
           Iterates(g) == g = [s \in SUBSET DOMAIN msgs |->
                                IF s = {} THEN <<>> ELSE Step(g[s \ {Max(s)}], msgs[Max(s)])]
           Walk == CHOOSE g : Iterates(g)
<1>1. n \in Nat /\ IsFiniteSet(1..n)
  <2>1. msgs \in Seq(Message \cup {None})
    BY DEF RecordsFor
  <2> QED BY <2>1, LenProperties, FS_Interval
<1>2. DOMAIN msgs = 1..n
  <2>1. msgs \in Seq(Message \cup {None})
    BY DEF RecordsFor
  <2> QED BY <2>1, LenProperties
<1>3. <<>> \in I
  BY DEF RecordsFor
<1>4. ASSUME NEW s \in I, NEW i \in 1..n PROVE Step(s, msgs[i]) \in I
  <2> DEFINE m == msgs[i]
             x == Older(m)
  <2>1. m \in M /\ (Checked /\ m # None => Lives(w, m))
    BY <1>2 DEF RecordsFor
  <2> HIDE DEF m
  <2>2. x \in M /\ (Checked /\ x # None => Lives(w, x))
    BY <2>1 DEF Older, Lives, Unheard, Message, MessageRec
  <2>3. s \in Seq(M) /\ (Checked => \A k \in DOMAIN s : s[k] # None => Lives(w, s[k]))
    BY DEF RecordsFor
  <2> HIDE DEF x, M
  <2>4. Append(s, x) \in Seq(M)
    BY <2>2, <2>3
  <2>5. ASSUME Checked, NEW k \in DOMAIN Append(s, x), Append(s, x)[k] # None
        PROVE  Lives(w, Append(s, x)[k])
    <3>1. (k \in DOMAIN s /\ Append(s, x)[k] = s[k]) \/ Append(s, x)[k] = x
      BY <2>2, <2>3, <2>5
    <3> QED BY <2>2, <2>3, <2>5, <3>1
  <2>6. Append(s, x) \in RecordsFor(w)
    BY <2>4, <2>5 DEF RecordsFor, M
  <2> QED BY <2>6 DEF x, m
<1>5. \A s \in SUBSET (1..n) : s # {} => Max(s) \in s /\ Max(s) \in 1..n /\ pick[s] = Max(s)
  BY <1>1, LargestOf
<1>6. PICK h \in [SUBSET (1..n) -> I] : \A s \in SUBSET (1..n) :
        h[s] = IF s = {} THEN <<>> ELSE op[pick[s]][h[s \ {pick[s]}]]
  <2> DEFINE Places == 1..n
  <2>1. op \in [Places -> [I -> I]]
    <3> HIDE DEF Step, I, n
    <3> QED BY <1>2, <1>4
  <2>2. PicksFrom(pick, Places) /\ IsFiniteSet(Places)
    BY <1>1, <1>5 DEF PicksFrom
  <2>3. \E h \in [SUBSET Places -> I] : IsTable(h, Places, pick, <<>>, op)
    <3> DEFINE base == <<>>
    <3>1. base \in I
      BY <1>3
    <3> HIDE DEF op, pick, I, Places, Iterates, Walk, base
    <3>2. \E h \in [SUBSET Places -> I] : IsTable(h, Places, pick, base, op)
      BY <2>1, <2>2, <3>1, FoldTable
    <3> QED BY <3>2 DEF base
  <2> HIDE DEF op, pick, I, Iterates, Walk
  <2> QED BY <2>3 DEF IsTable
<1>7. Iterates(h)
  <2> DEFINE V(s) == IF s = {} THEN <<>> ELSE Step(h[s \ {Max(s)}], msgs[Max(s)])
  <2>1. ASSUME NEW s \in SUBSET (1..n) PROVE h[s] = V(s)
    <3>1. CASE s = {}
      BY <1>6, <3>1
    <3>2. CASE s # {}
      <4>1. pick[s] = Max(s) /\ Max(s) \in 1..n /\ h[s \ {Max(s)}] \in I
        BY <1>5, <3>2
      <4>2. h[s] = op[Max(s)][h[s \ {Max(s)}]]
        BY <1>6, <3>2, <4>1
      <4> HIDE DEF Step, I, n
      <4> QED BY <3>2, <4>1, <4>2
    <3> QED BY <3>1, <3>2
  <2>2. h = [s \in SUBSET (1..n) |-> V(s)]
    <3> HIDE DEF V
    <3> QED BY <2>1
  <2> QED BY <1>2, <2>2
<1>8. Iterates(Walk)
  <2> HIDE DEF Iterates
  <2> QED BY <1>7
<1>9. Aged(msgs) = Walk[DOMAIN msgs]
  BY DEF Aged, FoldLeft, MapThenFoldSet, Max
<1>10. \A s \in SUBSET (1..n) :
         Walk[s] = IF s = {} THEN <<>> ELSE Step(Walk[s \ {Max(s)}], msgs[Max(s)])
  <2> HIDE DEF Walk, Step
  <2> QED BY <1>2, <1>8
<1>11. Walk[{}] \in I /\ Keeps(Walk, n, I)
  <2> HIDE DEF Walk, Step, I, n
  <2>1. Walk[{}] \in I
    BY <1>3, <1>10
  <2>2. ASSUME NEW s \in SUBSET (1..n), s # {}, Walk[s \ {Max(s)}] \in I PROVE Walk[s] \in I
    <3> DEFINE last == Max(s)
    <3>1. last \in 1..n /\ Walk[s] = Step(Walk[s \ {last}], msgs[last])
      BY <1>5, <1>10, <2>2
    <3>2. Walk[s \ {last}] \in I
      BY <2>2
    <3> HIDE DEF last
    <3> QED BY <1>2, <1>4, <3>1, <3>2
  <2> QED BY <2>1, <2>2 DEF Keeps
<1>12. Walk[1..n] \in I
  <2> HIDE DEF Walk, I, n
  <2> QED BY <1>1, <1>11, WalkStays
<1> HIDE DEF Walk
<1> QED BY <1>2, <1>9, <1>12

-----------------------------------------------------------------------------
(* The inductive invariant: the world is sound, a screen that is open shows  *)
(* a message, and commands are on their way in network games only.           *)

Command ==
  [cmd : {"send"}, msg : Message, crossing : BOOLEAN] \cup
  [cmd : {"reply"}, recno : Nat, reply : {"ACCEPT", "REJECT"}, stale : BOOLEAN, crossing : BOOLEAN]

Shows ==
  [shows : {"message"}, recno : Nat, stale : BOOLEAN] \cup
  [shows : {"thirds"}, to : Nations, talk_id : TalkIds \cap AboutAThird, thirds : SUBSET Nations]

Screens == [Humans -> Shows \cup {None}]

\* What is shown is there: the message to reply to, or the nation talked to.
Shown(w, x) == IF x.shows = "message" THEN x.recno \in Recnos(w) ELSE w.nation[x.to].alive

Wires == {s \in Seq(Command) : ~IsRemote => s = <<>>}

SoundWorld == World \in Sound
ScreensShow == /\ screen \in Screens
               /\ \A p \in Humans : screen[p] # None => Shown(World, screen[p])
WireTyped == wire \in Wires

IInv == SoundWorld /\ ScreensShow /\ WireTyped

LEMMA SoundFreed ==
  ASSUME NEW w \in Sound
  PROVE  [nation |-> w.nation, talk |-> w.talk, truce |-> w.truce, freed |-> {}] \in Sound
<1> DEFINE v == [nation |-> w.nation, talk |-> w.talk, truce |-> w.truce, freed |-> {}]
<1>1. w \in Worlds /\ (Checked => OnlyLiving(w))
  BY DEF Sound
<1>2. v \in Worlds /\ v.nation = w.nation /\ v.talk = w.talk
  BY <1>1 DEF Worlds
<1> HIDE DEF v
<1>3. SameTies(v, w) /\ SameLife(v, w)
  BY <1>2 DEF SameTies, SameLife, Status, Trades
<1>4. Checked => OnlyLiving(v)
  BY <1>1, <1>2, <1>3, SameTalk
<1> QED BY <1>2, <1>3, <1>4, SoundTies DEF v

\* Every step that makes a sound world of the world leaves the invariant.
LEMMA BecomeSound ==
  ASSUME NEW w \in Sound, NEW scr \in Screens, NEW cmds \in Wires, Become(w, scr, cmds)
  PROVE  IInv'
<1>1. nation' = w.nation /\ talk' = w.talk /\ truce' = w.truce
  BY DEF Become
<1>2. SoundWorld'
  <2>1. World' = [nation |-> w.nation, talk |-> w.talk, truce |-> w.truce, freed |-> {}]
    BY <1>1 DEF World
  <2> QED BY <2>1, SoundFreed DEF SoundWorld
<1> DEFINE Stale(x) == IF x.recno \in w.freed THEN [x EXCEPT !.stale = TRUE] ELSE x
           Kept(x) == IF x = None THEN None
                      ELSE IF x.shows = "thirds" THEN IF w.nation[x.to].alive THEN x ELSE None
                      ELSE IF is_talk_msg_deleted(w, x.recno) THEN None ELSE Stale(x)
<1>3. screen' = [p \in Humans |-> Kept(scr[p])]
  BY DEF Become
<1>4. ASSUME NEW x \in Shows \cup {None}
      PROVE  Kept(x) = None \/ (Kept(x) \in Shows /\ Shown(w, Kept(x)))
  <2>1. CASE x # None /\ x.shows = "thirds" /\ w.nation[x.to].alive
    BY <1>4, <2>1 DEF Shown, Shows
  <2>2. CASE x # None /\ x.shows = "message" /\ ~is_talk_msg_deleted(w, x.recno)
    <3>1. /\ Stale(x) \in Shows /\ Stale(x).recno = x.recno /\ Stale(x).shows = "message"
      BY <1>4, <2>2 DEF Shows
    <3>2. x.recno \in Recnos(w)
      BY <2>2 DEF is_talk_msg_deleted, Recnos
    <3>3. Kept(x) = Stale(x)
      BY <2>2
    <3> HIDE DEF Stale, Kept
    <3> QED BY <3>1, <3>2, <3>3 DEF Shown
  <2>3. x # None => x.shows \in {"message", "thirds"}
    BY DEF Shows
  <2> QED BY <2>1, <2>2, <2>3
<1>5. screen' \in Screens
  <2> HIDE DEF Kept
  <2> QED BY <1>3, <1>4 DEF Screens
<1>6. ASSUME NEW p \in Humans, screen'[p] # None PROVE Shown(World', screen'[p])
  <2>1. Shown(w, screen'[p])
    <3> HIDE DEF Kept
    <3> QED BY <1>3, <1>4, <1>6 DEF Screens
  <2> QED BY <1>1, <2>1 DEF Shown, Recnos, World
<1>7. ScreensShow'
  <2>1. \A p \in Humans : screen'[p] # None => Shown(World', screen'[p])
    BY <1>6
  <2> QED BY <1>5, <2>1 DEF ScreensShow, Shown, Recnos, World
<1>8. WireTyped'
  <2> DEFINE c(i) == IF cmds[i].cmd = "reply" THEN Stale(cmds[i]) ELSE cmds[i]
  <2>1. wire' = [i \in DOMAIN cmds |-> c(i)]
    BY DEF Become
  <2>2. cmds \in Seq(Command) /\ DOMAIN cmds = 1..Len(cmds) /\ Len(cmds) \in Nat
    BY LenProperties DEF Wires
  <2>3. ASSUME NEW i \in DOMAIN cmds PROVE c(i) \in Command
    <3>1. cmds[i] \in Command
      BY <2>2
    <3> DEFINE x == cmds[i]
    <3> HIDE DEF x
    <3>2. x \in Command
      BY <3>1 DEF x
    <3>3. (IF x.cmd = "reply" THEN Stale(x) ELSE x) \in Command
      BY <3>2 DEF Command
    <3> QED BY <3>3 DEF x
  <2> HIDE DEF c
  <2>4. wire' \in Seq(Command)
    <3>1. wire' \in [1..Len(cmds) -> Command]
      BY <2>1, <2>2, <2>3
    <3> QED BY <2>2, <3>1, IsASeq
  <2>5. cmds = <<>> => wire' = <<>>
    <3>1. cmds = <<>> => DOMAIN wire' = {}
      BY <2>1
    <3> QED BY <2>4, <3>1
  <2> QED BY <2>4, <2>5 DEF WireTyped, Wires
<1> QED BY <1>2, <1>7, <1>8 DEF IInv

LEMMA SendableType ==
  ASSUME NEW w \in Sound, NEW n \in Nations, w.nation[n].alive, NEW m \in Sendable(w, n)
  PROVE  m \in Message /\ Lives(w, m)
<1>1. PICK to \in Nations \ {n}, id \in TalkIds, third \in Nations \cup {None} :
        m = Msg(n, to, id, third)
  BY DEF Sendable
<1>2. /\ w.nation[m.to].alive
      /\ IF m.talk_id \in AboutAThird
         THEN m.talk_para1 \in Thirds(w, n, m.to, m.talk_id) ELSE m.talk_para1 = None
  BY DEF Sendable
<1>3. m.from = n /\ m.to = to /\ m.talk_id = id
  BY <1>1 DEF Msg
<1>4. m \in Message
  BY <1>1, <1>2 DEF Msg, Message, MessageRec, Ids, Replies, Thirds
<1>5. m.talk_id \in AboutAThird => w.nation[m.talk_para1].alive
  BY <1>2 DEF Thirds, FitsThird, Msg
<1> QED BY <1>2, <1>3, <1>4, <1>5 DEF Lives

LEMMA InitSound == Init => IInv
<1> SUFFICES ASSUME Init PROVE IInv
  OBVIOUS
<1> DEFINE rec(n) == [alive |-> TRUE, queue |-> <<>>,
             relation |-> [m \in Nations |-> IF m = n THEN NATION_ALLIANCE ELSE NATION_NEUTRAL],
             trade |-> [m \in Nations |-> m = n]]
<1>1. nation = [n \in Nations |-> rec(n)] /\ talk = [msgs |-> <<>>, empty |-> <<>>] /\ truce = {}
      /\ screen = [p \in Humans |-> None] /\ wire = <<>>
  BY DEF Init
<1>2. ASSUME NEW n \in Nations PROVE rec(n) \in NationRec
  <2>1. <<>> \in Seq(Nat)
    OBVIOUS
  <2>2. NATION_ALLIANCE \in Statuses /\ NATION_NEUTRAL \in Statuses
    BY DEF NATION_ALLIANCE, NATION_NEUTRAL, Statuses
  <2> QED BY <2>1, <2>2 DEF NationRec
<1>3. World \in Worlds
  <2>1. nation \in [Nations -> NationRec]
    <3> HIDE DEF rec
    <3> QED BY <1>1, <1>2
  <2>2. talk \in TalkRec
    BY <1>1 DEF TalkRec
  <2>3. truce \in SUBSET SUBSET Nations
    BY <1>1
  <2> QED BY <2>1, <2>2, <2>3 DEF World, Worlds
<1>4. \A a, b \in Nations :
        /\ Status(World, a, b) = IF b = a THEN NATION_ALLIANCE ELSE NATION_NEUTRAL
        /\ Trades(World, a, b) = (b = a)
  BY <1>1 DEF World, Status, Trades
<1>5. Mutual(World)
  BY <1>4 DEF Mutual
<1>6. Fitting(World)
  <2>1. /\ NATION_ALLIANCE # NATION_HOSTILE /\ NATION_NEUTRAL # NATION_HOSTILE
        /\ NATION_NEUTRAL # NATION_ALLIANCE
    BY DEF NATION_ALLIANCE, NATION_NEUTRAL, NATION_HOSTILE
  <2> SUFFICES ASSUME NEW a \in Nations, NEW b \in Nations
               PROVE  /\ Status(World, a, b) = NATION_ALLIANCE => Trades(World, a, b)
                      /\ Status(World, a, b) = NATION_HOSTILE => ~Trades(World, a, b)
    BY DEF Fitting
  <2>2. CASE a = b
    <3>1. Status(World, a, b) = NATION_ALLIANCE /\ Trades(World, a, b)
      BY <1>4, <2>2
    <3> QED BY <2>1, <3>1
  <2>3. CASE a # b
    <3>1. Status(World, a, b) = NATION_NEUTRAL
      BY <1>4, <2>3
    <3> QED BY <2>1, <3>1
  <2> QED BY <2>2, <2>3
<1>7. OnlyLiving(World)
  BY <1>1 DEF OnlyLiving, World
<1>8. SoundWorld
  BY <1>3, <1>5, <1>6, <1>7 DEF SoundWorld, Sound
<1>9. ScreensShow
  BY <1>1 DEF ScreensShow, Screens
<1>10. WireTyped
  BY <1>1 DEF WireTyped, Wires
<1> QED BY <1>8, <1>9, <1>10 DEF IInv

-----------------------------------------------------------------------------
(* The steps.                                                                *)

LEMMA Invariants ==
  ASSUME IInv
  PROVE  /\ World \in Sound /\ World.nation = nation /\ World.talk = talk
         /\ screen \in Screens /\ wire \in Wires
         /\ \A p \in Humans : screen[p] # None => screen[p] \in Shows /\ Shown(World, screen[p])
BY DEF Screens, IInv, SoundWorld, ScreensShow, WireTyped, World

LEMMA WireGrows ==
  ASSUME NEW cmds \in Wires, NEW c \in Command, IsRemote
  PROVE  Append(cmds, c) \in Wires
BY DEF Wires

\* What a player sends, from whichever screen
LEMMA PlayerSentSound ==
  ASSUME IInv, NEW m \in Message, Lives(World, m), NEW scr \in Screens, PlayerSent(m, scr)
  PROVE  IInv'
<1>1. World \in Sound /\ wire \in Wires
  BY Invariants
<1>2. IF IsRemote
      THEN Become(World, scr, Append(wire, [cmd |-> "send", msg |-> m, crossing |-> FALSE]))
      ELSE Become(send_talk_msg(World, m), scr, wire)
  BY DEF PlayerSent
<1>3. CASE IsRemote
  <2> DEFINE c == [cmd |-> "send", msg |-> m, crossing |-> FALSE]
  <2>1. c \in Command
    BY DEF Command
  <2>2. Append(wire, c) \in Wires
    <3> HIDE DEF c
    <3> QED BY <1>1, <1>3, <2>1, WireGrows
  <2> QED BY <1>1, <1>2, <1>3, <2>2, BecomeSound
<1>4. CASE ~IsRemote
  <2>1. send_talk_msg(World, m) \in Sound
    BY <1>1, SoundSend DEF SoundWith
  <2> QED BY <1>1, <1>2, <1>4, <2>1, BecomeSound
<1> QED BY <1>3, <1>4

LEMMA PlayerSendsSound ==
  ASSUME IInv, NEW p \in Humans, PlayerSends(p)
  PROVE  IInv'
<1>1. PICK to \in Nations \ {p}, id \in TalkIds \ AboutAThird :
        Offered(p, to, id) /\ PlayerSent(Msg(p, to, id, None), screen)
  BY DEF PlayerSends
<1>2. /\ screen \in Screens /\ p \in Nations /\ id \in Ids \ AboutAThird
      /\ World.nation[p].alive /\ World.nation[to].alive
  BY <1>1, Invariants DEF Offered, Humans, Ids
<1> DEFINE m == Msg(p, to, id, None)
<1>3. m \in Message /\ Lives(World, m)
  BY <1>2, MsgType
<1> HIDE DEF m
<1> QED BY <1>1, <1>2, <1>3, PlayerSentSound DEF m

LEMMA ScreenOpens ==
  ASSUME IInv, NEW p \in Humans, NEW x \in Shows, Shown(World, x),
         screen' = [screen EXCEPT ![p] = x], UNCHANGED <<nation, talk, truce, wire>>
  PROVE  IInv'
<1>1. World' = World
  BY DEF World
<1>2. SoundWorld' /\ WireTyped'
  BY <1>1 DEF IInv, SoundWorld, WireTyped
<1>3. screen' \in Screens /\ \A q \in Humans : screen'[q] = IF q = p THEN x ELSE screen[q]
  BY Invariants DEF Screens
<1>4. ScreensShow'
  <2>1. \A q \in Humans : screen'[q] # None => Shown(World, screen'[q])
    BY <1>3, Invariants
  <2> QED BY <1>1, <1>3, <2>1 DEF ScreensShow
<1> QED BY <1>2, <1>4 DEF IInv

LEMMA PlayerAsksSound ==
  ASSUME IInv, NEW p \in Humans, PlayerAsks(p)
  PROVE  IInv'
<1>1. PICK to \in Nations \ {p}, id \in TalkIds \cap AboutAThird :
        /\ Offered(p, to, id)
        /\ screen' = [screen EXCEPT ![p] = [shows |-> "thirds", to |-> to, talk_id |-> id,
                                           thirds |-> Thirds(World, p, to, id)]]
  BY DEF PlayerAsks
<1> DEFINE x == [shows |-> "thirds", to |-> to, talk_id |-> id, thirds |-> Thirds(World, p, to, id)]
<1>2. x \in Shows /\ Shown(World, x)
  <2>1. Thirds(World, p, to, id) \in SUBSET Nations
    BY DEF Thirds
  <2>2. World.nation[to].alive
    BY <1>1 DEF Offered, World
  <2> QED BY <2>1, <2>2 DEF Shows, Shown
<1>3. UNCHANGED <<nation, talk, truce, wire>> /\ screen' = [screen EXCEPT ![p] = x]
  BY <1>1 DEF PlayerAsks
<1> HIDE DEF x
<1> QED BY <1>2, <1>3, ScreenOpens

LEMMA OpenReplySound ==
  ASSUME IInv, NEW p \in Humans, OpenReply(p)
  PROVE  IInv'
<1>1. UNCHANGED <<nation, talk, truce, wire>>
  BY DEF OpenReply
<1>3. PICK r \in Recnos(World) :
        screen' = [screen EXCEPT ![p] = [shows |-> "message", recno |-> r, stale |-> FALSE]]
  BY DEF OpenReply
<1>4. r \in Nat
  <2>1. talk.msgs \in Seq(Message \cup {None})
    BY Invariants DEF Sound, Worlds, TalkRec
  <2>2. r \in 1..Len(talk.msgs) /\ Len(talk.msgs) \in Nat
    <3>1. r \in DOMAIN talk.msgs
      BY Invariants DEF Recnos
    <3> QED BY <2>1, <3>1, LenProperties
  <2> QED BY <2>2
<1> DEFINE x == [shows |-> "message", recno |-> r, stale |-> FALSE]
<1>5. x \in Shows /\ Shown(World, x)
  BY <1>4 DEF Shows, Shown
<1> HIDE DEF x
<1> QED BY <1>1, <1>3, <1>5, ScreenOpens DEF x

\* A screen that closes
LEMMA ScreenCloses ==
  ASSUME IInv, NEW p
  PROVE  /\ [screen EXCEPT ![p] = None] \in Screens
         /\ \A q \in Humans : [screen EXCEPT ![p] = None][q] \in {None, screen[q]}
BY Invariants DEF Screens

LEMMA PlayerNamesSound ==
  ASSUME IInv, NEW p \in Humans, PlayerNames(p)
  PROVE  IInv'
<1> DEFINE closed == [screen EXCEPT ![p] = None]
           x == screen[p]
<1>1. PICK third \in x.thirds : PlayerSent(Msg(p, x.to, x.talk_id, third), closed)
  BY DEF PlayerNames
<1>2. /\ x \in Shows /\ x.shows = "thirds" /\ Shown(World, x) /\ World.nation[p].alive
      /\ p \in Nations /\ closed \in Screens
  BY Invariants, ScreenCloses DEF PlayerNames, Humans
<1> DEFINE m == Msg(p, x.to, x.talk_id, third)
<1> HIDE DEF x, closed
<1>3. /\ x.to \in Nations /\ x.talk_id \in TalkIds \cap AboutAThird /\ third \in Nations
      /\ World.nation[x.to].alive
  BY <1>1, <1>2 DEF Shows, Shown
<1>4. m.reply_type = "WAITING"
  BY <1>3 DEF Msg, AboutAThird, Notices
<1>5. m \in Message /\ Lives(World, m)
  BY <1>2, <1>3, <1>4 DEF Msg, Message, MessageRec, Ids, Replies, Lives, Unheard
<1> HIDE DEF m
<1> QED BY <1>1, <1>2, <1>5, PlayerSentSound DEF m

LEMMA LeaveReplySound ==
  ASSUME IInv, NEW p \in Humans, LeaveReply(p)
  PROVE  IInv'
<1>1. UNCHANGED <<nation, talk, truce, wire>> /\ screen' = [screen EXCEPT ![p] = None]
  BY DEF LeaveReply
<1>2. World' = World
  BY <1>1 DEF World
<1>3. SoundWorld' /\ WireTyped'
  BY <1>1, <1>2 DEF IInv, SoundWorld, WireTyped
<1>4. screen' \in Screens /\ \A q \in Humans : screen'[q] \in {None, screen[q]}
  BY <1>1, ScreenCloses
<1>5. ScreensShow'
  BY <1>2, <1>4, Invariants DEF ScreensShow
<1> QED BY <1>3, <1>5 DEF IInv

LEMMA PlayerRepliesSound ==
  ASSUME IInv, NEW p \in Humans, PlayerReplies(p)
  PROVE  IInv'
<1> DEFINE r == screen[p].recno
           closed == [screen EXCEPT ![p] = None]
           c(reply) == [cmd |-> "reply", recno |-> r, reply |-> reply, stale |-> screen[p].stale,
                        crossing |-> FALSE]
<1>1. /\ World \in Sound /\ World.talk = talk /\ screen \in Screens /\ wire \in Wires
      /\ closed \in Screens /\ r \in Recnos(World) /\ screen[p] \in Shows
  BY Invariants, ScreenCloses DEF PlayerReplies, Shown
<1>2. Enhanced => is_valid_to_reply(World, talk.msgs[r])
  BY DEF PlayerReplies
<1>3. PICK reply \in {"ACCEPT", "REJECT"} :
        IF IsRemote THEN Become(World, closed, Append(wire, c(reply)))
        ELSE \E w \in reply_talk_msg(World, r, reply) : Become(w, closed, wire)
  BY DEF PlayerReplies
<1>4. CASE IsRemote
  <2>1. c(reply) \in Command
    <3>1. screen[p].recno \in Nat /\ screen[p].stale \in BOOLEAN
      BY <1>1 DEF PlayerReplies, Shows
    <3> QED BY <3>1 DEF Command
  <2> HIDE DEF c, closed
  <2>2. Append(wire, c(reply)) \in Wires
    BY <1>1, <1>4, <2>1, WireGrows
  <2> QED BY <1>1, <1>3, <1>4, <2>2, BecomeSound
<1>5. CASE ~IsRemote
  <2>1. Timely(World, World.talk.msgs[r])
    BY <1>1, <1>2, ValidIsTimely DEF Timely, Checked
  <2>2. reply_talk_msg(World, r, reply) \subseteq Sound
    BY <1>1, <2>1, SoundReply
  <2>3. PICK w \in reply_talk_msg(World, r, reply) : Become(w, closed, wire)
    BY <1>3, <1>5
  <2> HIDE DEF closed
  <2> QED BY <1>1, <2>2, <2>3, BecomeSound
<1> QED BY <1>4, <1>5

LEMMA ExecuteSound ==
  ASSUME IInv, Execute
  PROVE  IInv'
<1> DEFINE c == Head(wire)
           rest == Tail(wire)
<1>1. World \in Sound /\ World.talk = talk /\ screen \in Screens /\ wire \in Wires
  BY Invariants
<1>2. IsRemote /\ c \in Command /\ rest \in Wires
  BY <1>1 DEF Execute, Wires
<1>3. \/ c.cmd = "send" /\ Become(send_talk_msg(World, c.msg), screen, rest)
      \/ /\ c.cmd = "reply"
         /\ \E w \in IF is_talk_msg_deleted(World, c.recno) THEN {World}
                     ELSE reply_talk_msg(World, c.recno, c.reply) : Become(w, screen, rest)
  BY DEF Execute
<1> HIDE DEF c, rest
<1>4. CASE c.cmd = "send" /\ Become(send_talk_msg(World, c.msg), screen, rest)
  <2>1. c.msg \in Message
    BY <1>2, <1>4 DEF Command
  <2>2. send_talk_msg(World, c.msg) \in Sound
    BY <1>1, <1>2, <2>1, SoundSend DEF SoundWith, Checked
  <2> QED BY <1>1, <1>2, <1>4, <2>2, BecomeSound
<1>5. ASSUME c.cmd = "reply",
             NEW w \in IF is_talk_msg_deleted(World, c.recno) THEN {World}
                       ELSE reply_talk_msg(World, c.recno, c.reply),
             Become(w, screen, rest)
      PROVE  IInv'
  <2>1. c.reply \in {"ACCEPT", "REJECT"}
    BY <1>2, <1>5 DEF Command
  <2>2. w \in Sound
    <3>1. CASE is_talk_msg_deleted(World, c.recno)
      BY <1>1, <3>1
    <3>2. CASE ~is_talk_msg_deleted(World, c.recno)
      <4>1. c.recno \in Recnos(World)
        BY <3>2 DEF is_talk_msg_deleted, Recnos
      <4>2. Timely(World, World.talk.msgs[c.recno])
        BY <1>2 DEF Timely, Checked
      <4>3. reply_talk_msg(World, c.recno, c.reply) \subseteq Sound
        BY <1>1, <2>1, <4>1, <4>2, SoundReply
      <4> QED BY <3>2, <4>3
    <3> QED BY <3>1, <3>2
  <2> QED BY <1>1, <1>2, <1>5, <2>2, BecomeSound
<1> QED BY <1>3, <1>4, <1>5

LEMMA ThinkDiplomacySound ==
  ASSUME IInv, NEW n \in AI, ThinkDiplomacy(n)
  PROVE  IInv'
<1>1. World \in Sound /\ screen \in Screens /\ wire \in Wires /\ n \in Nations
  BY Invariants, DiplomacyAssumption
<1>2. PICK w \in AllProcessed(n) :
        \/ Become(w, screen, wire)
        \/ w.nation[n].alive /\ \E m \in Sendable(w, n) : Become(send_talk_msg(w, m), screen, wire)
  BY DEF ThinkDiplomacy
<1>3. w \in Sound
  BY <1>1, SoundAllProcessed
<1>4. CASE Become(w, screen, wire)
  BY <1>1, <1>3, <1>4, BecomeSound
<1>5. ASSUME w.nation[n].alive, NEW m \in Sendable(w, n), Become(send_talk_msg(w, m), screen, wire)
      PROVE  IInv'
  <2>1. m \in Message /\ Lives(w, m)
    BY <1>1, <1>3, <1>5, SendableType
  <2>2. send_talk_msg(w, m) \in Sound
    BY <1>3, <2>1, SoundSend DEF SoundWith
  <2> QED BY <1>1, <1>5, <2>2, BecomeSound
<1> QED BY <1>2, <1>4, <1>5

LEMMA RelationStepSound ==
  ASSUME IInv, NEW a \in Nations, NEW b \in Nations, Attack(a, b) \/ Calm(a, b)
  PROVE  IInv'
<1>1. World \in Sound /\ screen \in Screens /\ wire \in Wires
  BY Invariants
<1>2. NATION_HOSTILE \in Statuses \ {NATION_ALLIANCE} /\ NATION_NEUTRAL \in Statuses \ {NATION_ALLIANCE}
  BY DEF Statuses, NATION_ALLIANCE, NATION_HOSTILE, NATION_NEUTRAL
<1>3. CASE Attack(a, b)
  <2>1. set_relation_status(World, b, a, NATION_HOSTILE) \in Sound
    BY <1>1, <1>2, SoundRelation DEF SoundWith
  <2>2. Become(set_relation_status(World, b, a, NATION_HOSTILE), screen, wire)
    BY <1>3 DEF Attack
  <2> QED BY <1>1, <2>1, <2>2, BecomeSound
<1>4. CASE Calm(a, b)
  <2>1. set_relation_status(World, a, b, NATION_NEUTRAL) \in Sound
    BY <1>1, <1>2, SoundRelation DEF SoundWith
  <2>2. Become(set_relation_status(World, a, b, NATION_NEUTRAL), screen, wire)
    BY <1>4 DEF Calm
  <2> QED BY <1>1, <2>1, <2>2, BecomeSound
<1> QED BY <1>3, <1>4

LEMMA FallsSound ==
  ASSUME IInv, NEW n \in Nations, Falls(n)
  PROVE  IInv'
<1> DEFINE scr == [p \in Humans |-> IF p = n THEN None ELSE screen[p]]
<1>1. World \in Sound /\ screen \in Screens /\ wire \in Wires
  BY Invariants
<1>2. DelNation(World, n) \in Sound
  BY <1>1, SoundDelNation
<1>3. scr \in Screens
  BY <1>1 DEF Screens
<1>4. Become(DelNation(World, n), scr, wire)
  BY DEF Falls
<1> HIDE DEF scr
<1> QED BY <1>1, <1>2, <1>3, <1>4, BecomeSound

LEMMA NextPeriodSound ==
  ASSUME IInv, NextPeriod
  PROVE  IInv'
<1> DEFINE msgs == Aged(talk.msgs)
           aged == [World EXCEPT !.talk.msgs = msgs, !.truce = {}]
           crossing == [i \in DOMAIN wire |-> [wire[i] EXCEPT !.crossing = TRUE]]
<1>1. World \in Sound /\ screen \in Screens /\ wire \in Wires /\ World.talk = talk
      /\ World \in Worlds /\ (Checked => OnlyLiving(World))
  BY Invariants DEF Sound
<1>2. msgs \in RecordsFor(World)
  <2>1. talk.msgs \in RecordsFor(World)
    BY <1>1 DEF RecordsFor, OnlyLiving, Worlds, TalkRec
  <2> QED BY <2>1, AgedRecords
<1>3. aged \in Sound
  <2> HIDE DEF msgs
  <2>1. aged \in Worlds /\ aged.nation = World.nation /\ aged.talk.msgs = msgs
    BY <1>1, <1>2 DEF RecordsFor, Worlds, TalkRec
  <2> HIDE DEF aged
  <2>2. SameTies(aged, World) /\ SameLife(aged, World)
    BY <2>1 DEF SameTies, SameLife, Status, Trades
  <2>3. ASSUME Checked PROVE OnlyLiving(aged)
    <3> SUFFICES ASSUME NEW i \in DOMAIN msgs, msgs[i] # None PROVE Lives(aged, msgs[i])
      BY <2>1 DEF OnlyLiving
    <3> DEFINE x == msgs[i]
    <3>1. x \in Message /\ Lives(World, x)
      BY <1>2, <2>3 DEF RecordsFor
    <3> HIDE DEF x
    <3>2. Lives(aged, x)
      BY <2>2, <3>1 DEF Lives, SameLife, Message, MessageRec
    <3> QED BY <3>2 DEF x
  <2> QED BY <1>1, <2>1, <2>2, <2>3, SoundTies
<1>4. crossing \in Wires
  <2>1. wire \in Seq(Command) /\ DOMAIN wire = 1..Len(wire) /\ Len(wire) \in Nat
    BY <1>1, LenProperties DEF Wires
  <2>2. ASSUME NEW i \in DOMAIN wire PROVE [wire[i] EXCEPT !.crossing = TRUE] \in Command
    <3> DEFINE x == wire[i]
    <3>1. x \in Command
      BY <2>1
    <3> HIDE DEF x
    <3>2. [x EXCEPT !.crossing = TRUE] \in Command
      BY <3>1 DEF Command
    <3> QED BY <3>2 DEF x
  <2>3. crossing \in [1..Len(wire) -> Command]
    BY <2>1, <2>2
  <2>4. crossing \in Seq(Command)
    <3> HIDE DEF crossing
    <3> QED BY <2>1, <2>3, IsASeq
  <2>5. wire = <<>> => crossing = <<>>
    <3>1. wire = <<>> => DOMAIN crossing = {}
      OBVIOUS
    <3> HIDE DEF crossing
    <3> QED BY <2>4, <3>1
  <2> HIDE DEF crossing
  <2> QED BY <1>1, <2>4, <2>5 DEF Wires
<1>5. PICK w \in process_talk_msg(aged) : Become(w, screen, crossing)
  <2>1. aged = [World EXCEPT !.talk.msgs = Aged(@), !.truce = {}]
    BY DEF World
  <2> HIDE DEF aged, msgs
  <2> QED BY <2>1 DEF NextPeriod, Aged, Older
<1>6. w \in Sound
  <2> HIDE DEF aged
  <2> QED BY <1>3, <1>5, SoundProcess
<1> HIDE DEF crossing
<1> QED BY <1>1, <1>4, <1>5, <1>6, BecomeSound

LEMMA NextSound ==
  ASSUME IInv, [Next]_vars
  PROVE  IInv'
<1>1. CASE UNCHANGED vars
  <2>1. World' = World
    BY <1>1 DEF vars, World
  <2> QED BY <1>1, <2>1 DEF vars, IInv, SoundWorld, ScreensShow, WireTyped
<1>2. CASE Next
  BY <1>2, PlayerSendsSound, PlayerAsksSound, PlayerNamesSound, OpenReplySound, LeaveReplySound, PlayerRepliesSound, ExecuteSound,
     ThinkDiplomacySound, RelationStepSound, FallsSound, NextPeriodSound DEF Next
<1> QED BY <1>1, <1>2

\* Every state of every behaviour is one of a sound world.
THEOREM SoundInvariant == Spec => []IInv
<1>1. Init => IInv
  BY InitSound
<1>2. IInv /\ [Next]_vars => IInv'
  BY NextSound
<1> QED BY <1>1, <1>2, PTL DEF Spec

LEMMA LivingNations ==
  /\ Living \subseteq Nations
  /\ \A n \in Living : nation[n].alive
BY DEF Living

\* The two records of a relation always agree, whatever is sent, replied and executed late:
\* NationBase writes both or neither.
THEOREM MutualRelations == Spec => []RelationsAreMutual
<1>1. IInv => RelationsAreMutual
  <2> SUFFICES ASSUME IInv, NEW a \in Living, NEW b \in Living
               PROVE  /\ nation[a].relation[b] = nation[b].relation[a]
                      /\ nation[a].trade[b] = nation[b].trade[a]
    BY DEF RelationsAreMutual
  <2>1. Mutual(World) /\ World.nation = nation /\ a \in Nations /\ b \in Nations
    BY Invariants, LivingNations DEF Sound
  <2> QED BY <2>1 DEF Mutual, Status, Trades
<1> QED BY <1>1, SoundInvariant, PTL

\* Where the validity of a message is checked when the reply is applied, as the enhanced game
\* does without a network, nations at war never trade: no proposal of trade outlives the peace
\* it was made in.
THEOREM TradeEndsWithWar ==
  ASSUME Enhanced, ~IsRemote
  PROVE  Spec => []NoTradeInWar
<1>1. IInv => NoTradeInWar
  <2> SUFFICES ASSUME IInv, NEW a \in Living, NEW b \in Living,
                      nation[a].relation[b] = NATION_HOSTILE
               PROVE  ~nation[a].trade[b]
    BY DEF NoTradeInWar
  <2>1. Fitting(World) /\ World.nation = nation /\ a \in Nations /\ b \in Nations
    BY Invariants, LivingNations DEF Sound, Checked
  <2> QED BY <2>1 DEF Fitting, Status, Trades
<1> QED BY <1>1, SoundInvariant, PTL

\* There, allies always trade: no treaty of trade is ended under an alliance, by an embargo
\* or by a notice.
THEOREM AlliesKeepTrading ==
  ASSUME Enhanced, ~IsRemote
  PROVE  Spec => []AlliesTrade
<1>1. IInv => AlliesTrade
  <2> SUFFICES ASSUME IInv, NEW a \in Living, NEW b \in Living,
                      nation[a].relation[b] = NATION_ALLIANCE
               PROVE  nation[a].trade[b]
    BY DEF AlliesTrade
  <2>1. Fitting(World) /\ World.nation = nation /\ a \in Nations /\ b \in Nations
    BY Invariants, LivingNations DEF Sound, Checked
  <2> QED BY <2>1 DEF Fitting, Status, Trades
<1> QED BY <1>1, SoundInvariant, PTL

\* There, no message is from or to a nation that is gone: they go with it, and nothing is sent to
\* the dead.  A message about a nation that is gone is one a player sent from a list made before
\* the fall, and it is never answered: the checks of a reply come before everything it does.
\* (In a network game a message or a reply on its way may arrive after the fall.)
THEOREM NoMessagesOfTheDead ==
  ASSUME Enhanced, ~IsRemote
  PROVE  Spec => []MessagesOfTheLiving
<1>1. IInv => MessagesOfTheLiving
  <2> SUFFICES ASSUME IInv, NEW r \in Recnos(World)
               PROVE  /\ {talk.msgs[r].from, talk.msgs[r].to} \subseteq Living
                      /\ talk.msgs[r].talk_para1 \notin Living \cup {None} => Unheard(talk.msgs[r])
    BY DEF MessagesOfTheLiving, Unheard
  <2> DEFINE m == talk.msgs[r]
  <2>1. m \in Message /\ Lives(World, m) /\ World.nation = nation
    BY Invariants DEF Sound, Checked, OnlyLiving, Worlds, TalkRec, Recnos
  <2> HIDE DEF m
  <2>2. /\ m.from \in Living /\ m.to \in Living
        /\ m.talk_para1 \notin Living \cup {None} => Unheard(m)
    BY <2>1 DEF Lives, Message, MessageRec, Living
  <2> QED BY <2>2 DEF m
<1> QED BY <1>1, SoundInvariant, PTL
=============================================================================
