------------------------ MODULE PrivateSessionProofs ------------------------
(***************************************************************************)
(* Proofs about PrivateSession, for any number of connections and events,  *)
(* any timeouts and every fault.                                           *)
(***************************************************************************)
EXTENDS PrivateSession, TLAPS

-----------------------------------------------------------------------------
(* The inductive invariant.                                                *)

HasAnswer(q) == \E i \in 1 .. Len(q) : q[i] = Response

\* The venue's answer is on the wire of confirmed subscriptions only.
AnswersConfirm ==
    \A c \in Conn :
        HasAnswer(connections[c].wire) => connections[c].sub = "confirmed"

\* The connection being set up is held, is not yet the session's, and has
\* not asked for anything before it is subscribed.
SetupIsNew ==
    pc \in {"subscribe", "await"} =>
        /\ opening \in Held /\ opening # session.conn
        /\ pc = "subscribe" => connections[opening].sub = "none"

\* The session's connection is confirmed as long as the transport holds it.
SessionIsConfirmed ==
    session.conn \in Held => connections[session.conn].sub = "confirmed"

\* It is held whenever the poll has not begun to replace it.
SessionIsHeld ==
    pc \in {"idle", "rollover"} /\ session.conn # NoConn => session.conn \in Held

\* A poll that returned, got past the watchdog or replaces a connection has
\* a session.
SessionExists ==
    /\ purpose \in {"heartbeat", "refresh", "readError"} => session.conn # NoConn
    /\ pc \in {"rollover", "read"} => session.conn # NoConn
    /\ outcome \notin {"none", "raised"} => session.conn # NoConn
    /\ outcome = "raised" => pc = "raised"

SessionInv ==
    /\ TypeOK
    /\ AnswersConfirm
    /\ SetupIsNew
    /\ SessionIsConfirmed
    /\ SessionIsHeld
    /\ SessionExists

-----------------------------------------------------------------------------
(* Type correctness.                                                       *)

LEMMA MessageShapes ==
    /\ Response \in Message /\ Refusal \in Message /\ Garbage \in Message
    /\ \A n \in Nat : Event(n) \in Message
    /\ \A m \in Message : m[2] \in Nat
  <1>1. Response \in Message /\ Refusal \in Message /\ Garbage \in Message
    BY SMT DEF Message, Response, Refusal, Garbage
  <1>2. \A n \in Nat : Event(n) \in Message
    BY SMT DEF Message, Event
  <1>3. \A m \in Message : m[2] \in Nat
    BY SMT DEF Message
  <1> QED  BY <1>1, <1>2, <1>3

LEMMA FreshConnections == Unopened \in Connection /\ Opened \in Connection
    BY DEF Unopened, Opened, Connection, Links, Subscriptions

\* A queue of messages stays one when it is consumed, appended to or garbled.
LEMMA QueueShapes ==
    ASSUME NEW q \in Seq(Message)
    PROVE  /\ q # <<>> => Head(q) \in Message /\ Tail(q) \in Seq(Message)
           /\ \A m \in Message : Append(q, m) \in Seq(Message)
           /\ q # <<>> => <<Garbage>> \o Tail(q) \in Seq(Message)
           /\ \A r \in Seq(Message) : q \o r \in Seq(Message)
    BY MessageShapes

\* Changing one field of one connection, to a value of its type.
LEMMA ConnectionUpdate ==
    ASSUME NEW k \in Connection
    PROVE  /\ k.wire \in Seq(Message) /\ k.pending \in Seq(Message)
           /\ \A x \in Seq(Message) : [k EXCEPT !.wire = x] \in Connection
           /\ \A x \in Seq(Message) : [k EXCEPT !.pending = x] \in Connection
           /\ \A x \in Subscriptions : [k EXCEPT !.sub = x] \in Connection
           /\ \A x \in Links : [k EXCEPT !.link = x] \in Connection
    BY DEF Connection

LEMMA AgeBound == AgeCap \in Nat /\ 0 <= AgeCap
    BY TimeAssumption, BoundAssumption DEF AgeCap

LEMMA InitSession == Init => SessionInv
  <1> SUFFICES ASSUME Init PROVE SessionInv
    OBVIOUS
  <1>1. TypeOK
    <2>1. session \in Session
      BY AgeBound, TimeAssumption DEF Init, Session, NoMessage
    <2>2. connections \in [Conn -> Connection]
      BY FreshConnections DEF Init
    <2>3. idle \in 0 .. MaxIdle
      BY BoundAssumption DEF Init
    <2>4. fallback \in BOOLEAN
      BY DEF Init
    <2>5. /\ emitted \in Nat /\ streak \in 0 .. 2 /\ pc = "idle"
          /\ purpose \in Purposes /\ opening = NoConn /\ delivered \in Nat
          /\ outcome \in Outcomes /\ gap = {"startup"}
      BY DEF Init, Purposes, Outcomes
    <2> QED  BY <2>1, <2>2, <2>3, <2>4, <2>5 DEF TypeOK
  <1>2. AnswersConfirm
    BY DEF Init, AnswersConfirm, HasAnswer, Unopened
  <1>3. SetupIsNew /\ SessionIsConfirmed /\ SessionIsHeld /\ SessionExists
    BY ConnAssumption
    DEF Init, SetupIsNew, SessionIsConfirmed, SessionIsHeld, SessionExists, Held
  <1> QED  BY <1>1, <1>2, <1>3 DEF SessionInv

\* What the venue does to the wire keeps every connection in shape.
LEMMA VenueType == TypeOK /\ Venue => TypeOK'
  <1> SUFFICES ASSUME TypeOK, Venue PROVE TypeOK'
    OBVIOUS
  <1> USE DEF TypeOK, venueSide, local, pollState, history
  <1>1. CASE Emit
    <2> DEFINE e == Event(emitted + 1)
    <2>1. e \in Message
      BY MessageShapes
    <2>2. \A c \in Conn : connections'[c] \in Connection
      <3> TAKE c \in Conn
      <3>1. connections[c] \in Connection
        OBVIOUS
      <3>2. Append(connections[c].wire, e) \in Seq(Message)
        BY <2>1, <3>1, ConnectionUpdate, QueueShapes
      <3>3. [connections[c] EXCEPT !.wire = Append(@, e)] \in Connection
        BY <3>1, <3>2, ConnectionUpdate
      <3> QED  BY <1>1, <3>1, <3>3 DEF Emit
    <2>3. connections' \in [Conn -> Connection] /\ emitted' \in Nat
      BY <1>1, <2>2 DEF Emit
    <2> QED  BY <1>1, <2>3 DEF Emit
  <1>2. ASSUME NEW c \in Conn,
               Activate(c) \/ Confirm(c) \/ Refuse(c) \/ Break(c) \/ Die(c) \/ Garble(c)
        PROVE  TypeOK'
    <2> DEFINE k == connections[c]
    <2>0. k \in Connection
      OBVIOUS
    <2>1. \E d \in Connection : connections' = [connections EXCEPT ![c] = d]
      <3>1. CASE Activate(c)
        <4>1. [k EXCEPT !.sub = "active"] \in Connection
          BY <2>0, ConnectionUpdate DEF Subscriptions
        <4> QED  BY <3>1, <4>1 DEF Activate
      <3>2. CASE Confirm(c)
        <4>1. Append(k.wire, Response) \in Seq(Message)
          BY <2>0, ConnectionUpdate, QueueShapes, MessageShapes
        <4>2. [k EXCEPT !.sub = "confirmed", !.wire = Append(@, Response)] \in Connection
          BY <2>0, <4>1 DEF Connection, Subscriptions
        <4> QED  BY <3>2, <4>2 DEF Confirm
      <3>3. CASE Refuse(c)
        <4>1. Append(k.wire, Refusal) \in Seq(Message)
          BY <2>0, ConnectionUpdate, QueueShapes, MessageShapes
        <4>2. [k EXCEPT !.sub = "none", !.wire = Append(@, Refusal)] \in Connection
          BY <2>0, <4>1 DEF Connection, Subscriptions
        <4> QED  BY <3>3, <4>2 DEF Refuse
      <3>4. CASE Break(c)
        <4>1. [k EXCEPT !.link = "broken"] \in Connection
          BY <2>0, ConnectionUpdate DEF Links
        <4> QED  BY <3>4, <4>1 DEF Break
      <3>5. CASE Die(c)
        <4>1. [k EXCEPT !.link = "dead"] \in Connection
          BY <2>0, ConnectionUpdate DEF Links
        <4> QED  BY <3>5, <4>1 DEF Die
      <3>6. CASE Garble(c)
        <4>1. k.wire \in Seq(Message) /\ k.wire # <<>>
          BY <2>0, <3>6, ConnectionUpdate DEF Garble
        <4>2. <<Garbage>> \o Tail(k.wire) \in Seq(Message)
          BY <4>1, QueueShapes
        <4>3. [k EXCEPT !.wire = <<Garbage>> \o Tail(k.wire)] \in Connection
          BY <2>0, <4>2, ConnectionUpdate
        <4> QED  BY <3>6, <4>3 DEF Garble
      <3> QED  BY <1>2, <3>1, <3>2, <3>3, <3>4, <3>5, <3>6
    <2>2. connections' \in [Conn -> Connection]
      BY <2>1
    <2>3. UNCHANGED <<emitted, session, streak, pc, purpose, fallback, opening,
                      idle, delivered, outcome, gap>>
      BY <1>2 DEF Activate, Confirm, Refuse, Break, Die, Garble
    <2> QED  BY <2>2, <2>3
  <1> QED  BY <1>1, <1>2 DEF Venue

LEMMA TickType == TypeOK /\ Tick => TypeOK'
  <1> SUFFICES ASSUME TypeOK, Tick PROVE TypeOK'
    OBVIOUS
  <1>1. session' \in Session
    <2> DEFINE older == IF session.age = NoMessage \/ session.age = AgeCap
                        THEN session.age ELSE session.age + 1
               left == IF session.conn = NoConn \/ session.remaining = 0
                       THEN session.remaining ELSE session.remaining - 1
    <2>1. session \in Session
      BY DEF TypeOK
    <2>2. older \in {NoMessage} \cup (0 .. AgeCap)
      BY <2>1, AgeBound DEF Session, NoMessage
    <2>3. left \in 0 .. Ttl
      BY <2>1, TimeAssumption DEF Session
    <2>4. session' = [session EXCEPT !.age = older, !.remaining = left]
      BY DEF Tick
    <2> HIDE DEF older, left
    <2> QED  BY <2>1, <2>2, <2>3, <2>4 DEF Session
  <1>2. idle' \in 0 .. MaxIdle
    BY BoundAssumption DEF Tick, TypeOK
  <1> QED
    BY <1>1, <1>2 DEF Tick, TypeOK, venueSide, pollState, history

\* The steps of a poll that touch neither a connection nor the session.
LEMMA DecisionType ==
    ASSUME TypeOK,
           \/ PollUnstarted \/ PollExpired \/ PollTolerant \/ PollOverdue
           \/ PollHealthy \/ Rollover \/ NoRollover \/ OpenFails
           \/ SubscribeFails \/ AwaitFails \/ ReadTimeout \/ ReadFails
    PROVE  TypeOK'
  <1> USE DEF TypeOK, venueSide, pollUnchanged, Start, Return
  <1>1. UNCHANGED <<emitted, connections, session, delivered, gap>>
    BY DEF PollUnstarted, PollExpired, PollTolerant, PollOverdue, PollHealthy,
           Rollover, NoRollover, OpenFails, SubscribeFails, AwaitFails,
           ReadTimeout, ReadFails, Fail
  <1>2. streak' \in 0 .. 2 /\ idle' \in 0 .. MaxIdle
    BY BoundAssumption
    DEF PollUnstarted, PollExpired, PollTolerant, PollOverdue, PollHealthy,
        Rollover, NoRollover, OpenFails, SubscribeFails, AwaitFails,
        ReadTimeout, ReadFails, Fail
  <1>3. /\ pc' \in {"idle", "rollover", "close", "open", "subscribe", "await",
                    "read", "raised"}
        /\ purpose' \in Purposes /\ opening' \in Conn \cup {NoConn}
        /\ outcome' \in Outcomes
    BY DEF PollUnstarted, PollExpired, PollTolerant, PollOverdue, PollHealthy,
           Rollover, NoRollover, OpenFails, SubscribeFails, AwaitFails,
           ReadTimeout, ReadFails, Fail, Purposes, Outcomes
  <1>4. fallback' \in BOOLEAN
    BY Zenon
    DEF PollUnstarted, PollExpired, PollTolerant, PollOverdue, PollHealthy,
        Rollover, NoRollover, OpenFails, SubscribeFails, AwaitFails,
        ReadTimeout, ReadFails, Fail
  <1> QED  BY <1>1, <1>2, <1>3, <1>4

\* The steps that set a connection up, use it or close it.
LEMMA ConnectionStepType ==
    ASSUME TypeOK,
           \/ Close \/ (\E c \in Conn : Open(c)) \/ Subscribe \/ AwaitOther
           \/ AwaitResponse \/ ReadPayload
    PROVE  TypeOK'
  <1> USE DEF TypeOK
  <1>1. CASE Close
    <2>1. connections' \in [Conn -> Connection]
      BY <1>1, FreshConnections DEF Close
    <2>2. /\ pc' = "open"
          /\ UNCHANGED <<emitted, session, streak, purpose, fallback, opening,
                         idle, delivered, outcome, gap>>
      BY <1>1 DEF Close, venueSide, history
    <2> QED  BY <2>1, <2>2
  <1>2. CASE \E c \in Conn : Open(c)
    BY <1>2, FreshConnections DEF Open, venueSide, history
  <1>3. CASE Subscribe
    <2>1. opening \in Conn =>
             [connections[opening] EXCEPT !.sub = "asked"] \in Connection
      BY ConnectionUpdate DEF Subscriptions
    <2>2. connections' = [connections EXCEPT
                            ![opening] = [connections[opening] EXCEPT !.sub = "asked"]]
      BY <1>3 DEF Subscribe
    <2>3. connections' \in [Conn -> Connection]
      BY <2>1, <2>2
    <2>4. /\ pc' = "await"
          /\ UNCHANGED <<emitted, session, streak, purpose, fallback, opening,
                         idle, delivered, outcome, gap>>
      BY <1>3 DEF Subscribe, venueSide, history
    <2> QED  BY <2>3, <2>4
  <1>4. CASE AwaitOther
    <2>1. connections' \in [Conn -> Connection]
      <3> DEFINE k == connections[opening]
      <3>1. ASSUME opening \in Conn
            PROVE  [k EXCEPT !.wire = Tail(k.wire),
                             !.pending = Append(k.pending, Head(k.wire))] \in Connection
        <4>1. k \in Connection /\ k.wire \in Seq(Message) /\ k.pending \in Seq(Message)
          BY <3>1, ConnectionUpdate
        <4>2. Tail(k.wire) \in Seq(Message) /\ Head(k.wire) \in Message
          BY <1>4, <4>1, QueueShapes DEF AwaitOther
        <4>3. Append(k.pending, Head(k.wire)) \in Seq(Message)
          BY <4>1, <4>2, QueueShapes
        <4> QED  BY <4>1, <4>2, <4>3 DEF Connection
      <3>2. connections' = [connections EXCEPT ![opening] =
                [k EXCEPT !.wire = Tail(k.wire),
                          !.pending = Append(k.pending, Head(k.wire))]]
        BY <1>4 DEF AwaitOther
      <3> QED  BY <3>1, <3>2
    <2> QED  BY <1>4, <2>1 DEF AwaitOther, venueSide, local, pollState, history
  <1>5. CASE AwaitResponse
    <2>1. connections' \in [Conn -> Connection]
      <3>1. ASSUME opening \in Conn
            PROVE  [connections[opening] EXCEPT !.wire = Tail(@)] \in Connection
        BY <1>5, <3>1, ConnectionUpdate, QueueShapes DEF AwaitResponse
      <3> QED  BY <1>5, <3>1 DEF AwaitResponse
    <2>2. session' \in Session
      BY <1>5, AgeBound, TimeAssumption DEF AwaitResponse, Established, Session
    <2>3. gap' \subseteq {"startup", "announced"} \cup Purposes
      BY <1>5 DEF AwaitResponse, Replaced
    <2>4. /\ pc' \in {"idle", "read", "rollover"} /\ purpose' = "none"
          /\ opening' = NoConn /\ outcome' \in Outcomes
          /\ UNCHANGED <<emitted, idle, delivered>>
      BY <1>5 DEF AwaitResponse, Return, Outcomes, venueSide
    <2>5. streak' \in 0 .. 2
      BY <1>5 DEF AwaitResponse
    <2>6. fallback' \in BOOLEAN
      BY <1>5, Zenon DEF AwaitResponse, Return
    <2> QED  BY <2>1, <2>2, <2>3, <2>4, <2>5, <2>6 DEF Purposes
  <1>6. CASE ReadPayload
    <2> DEFINE k == connections[session.conn]
    <2>1. k \in Connection /\ k.wire \in Seq(Message) /\ k.pending \in Seq(Message)
      BY <1>6, ConnectionUpdate DEF ReadPayload, Held
    <2>2. Unread(session.conn) \in Seq(Message) /\ Unread(session.conn) # <<>>
      BY <1>6, <2>1, QueueShapes DEF ReadPayload, Unread
    <2>3. delivered' \in Nat
      BY <1>6, <2>2, QueueShapes, MessageShapes DEF ReadPayload
    <2>4. Consumed(session.conn) \in Connection
      <3>1. CASE k.pending # <<>>
        BY <2>1, <3>1, QueueShapes, ConnectionUpdate DEF Consumed
      <3>2. CASE k.pending = <<>>
        <4>1. k.wire # <<>>
          BY <2>1, <2>2, <3>2 DEF Unread
        <4> QED  BY <2>1, <3>2, <4>1, QueueShapes, ConnectionUpdate DEF Consumed
      <3> QED  BY <3>1, <3>2
    <2>5. connections' \in [Conn -> Connection]
      BY <1>6, <2>4 DEF ReadPayload
    <2>6. session' \in Session /\ streak' \in 0 .. 2
      BY <1>6, AgeBound DEF ReadPayload, Session
    <2>7. /\ pc' = "idle" /\ purpose' = "none" /\ opening' = NoConn
          /\ outcome' = "payload" /\ gap' = {} /\ fallback' = FALSE
          /\ UNCHANGED <<emitted, idle>>
      BY <1>6 DEF ReadPayload, Return, venueSide
    <2> QED
      BY <2>3, <2>5, <2>6, <2>7 DEF Purposes, Outcomes
  <1> QED  BY <1>1, <1>2, <1>3, <1>4, <1>5, <1>6

LEMMA TypeStep == TypeOK /\ [Next]_vars => TypeOK'
  <1>1. ASSUME TypeOK, UNCHANGED vars PROVE TypeOK'
    BY <1>1 DEF TypeOK, vars
  <1> QED
    BY <1>1, VenueType, TickType, DecisionType, ConnectionStepType
    DEF Next, PollStep

\* Every variable of the session keeps its shape, for any timeouts, numbers
\* of connections and faults (the dataclass BinancePrivateStreamSession and
\* the transport's dictionaries).
THEOREM SessionTypeCorrect == Spec => []TypeOK
  <1>1. Init => TypeOK
    BY InitSession DEF SessionInv
  <1> QED  BY <1>1, TypeStep, PTL DEF Spec

-----------------------------------------------------------------------------
(* The invariant is inductive.                                             *)

LEMMA AnswerShapes ==
    ASSUME NEW q \in Seq(Message)
    PROVE  /\ ~HasAnswer(<<>>)
           /\ q # <<>> /\ HasAnswer(Tail(q)) => HasAnswer(q)
           /\ q # <<>> /\ HasAnswer(<<Garbage>> \o Tail(q)) => HasAnswer(q)
           /\ q # <<>> /\ Head(q) = Response => HasAnswer(q)
           /\ \A m \in Message :
                HasAnswer(Append(q, m)) => HasAnswer(q) \/ m = Response
  <1>1. ~HasAnswer(<<>>)
    BY DEF HasAnswer
  <1>2. ASSUME q # <<>>, HasAnswer(Tail(q)) PROVE HasAnswer(q)
    <2>1. PICK i \in 1 .. Len(Tail(q)) : Tail(q)[i] = Response
      BY <1>2 DEF HasAnswer
    <2>2. i + 1 \in 1 .. Len(q) /\ q[i + 1] = Response
      BY <1>2, <2>1
    <2> QED  BY <2>2 DEF HasAnswer
  <1>3. ASSUME q # <<>>, HasAnswer(<<Garbage>> \o Tail(q)) PROVE HasAnswer(q)
    <2>1. PICK i \in 1 .. Len(<<Garbage>> \o Tail(q)) :
                 (<<Garbage>> \o Tail(q))[i] = Response
      BY <1>3 DEF HasAnswer
    <2>2. Garbage # Response
      BY DEF Garbage, Response
    <2>3. i \in 1 .. Len(q) /\ (i # 1 => q[i] = Response) /\ i # 1
      BY <1>3, <2>1, <2>2, MessageShapes
    <2> QED  BY <2>3 DEF HasAnswer
  <1>4. ASSUME q # <<>>, Head(q) = Response PROVE HasAnswer(q)
    <2>1. 1 \in 1 .. Len(q) /\ q[1] = Response
      BY <1>4
    <2> QED  BY <2>1 DEF HasAnswer
  <1>5. ASSUME NEW m \in Message, HasAnswer(Append(q, m)), m # Response
        PROVE  HasAnswer(q)
    <2>1. PICK i \in 1 .. Len(Append(q, m)) : Append(q, m)[i] = Response
      BY <1>5 DEF HasAnswer
    <2>2. i \in 1 .. Len(q) /\ q[i] = Response
      BY <1>5, <2>1
    <2> QED  BY <2>2 DEF HasAnswer
  <1> QED  BY <1>1, <1>2, <1>3, <1>4, <1>5

\* The venue never takes a connection from the transport, and never revokes
\* what it confirmed.
LEMMA VenueKeeps ==
    ASSUME TypeOK, Venue
    PROVE  /\ UNCHANGED <<session, pc, purpose, fallback, opening, outcome>>
           /\ Held' = Held
           /\ \A c \in Conn :
                /\ connections[c].sub = "confirmed" => connections'[c].sub = "confirmed"
                /\ connections[c].sub = "none" => connections'[c].sub = "none"
  <1>1. UNCHANGED <<session, pc, purpose, fallback, opening, outcome>>
    BY DEF Venue, Emit, Activate, Confirm, Refuse, Break, Die, Garble,
           local, pollState, history
  <1>2. \A c \in Conn :
          /\ connections'[c].held = connections[c].held
          /\ connections[c].sub = "confirmed" => connections'[c].sub = "confirmed"
          /\ connections[c].sub = "none" => connections'[c].sub = "none"
    <2> TAKE c \in Conn
    <2>1. CASE Emit
      BY <2>1 DEF Emit, TypeOK, Connection
    <2>2. ASSUME NEW d \in Conn,
                 Activate(d) \/ Confirm(d) \/ Refuse(d) \/ Break(d) \/ Die(d)
                   \/ Garble(d)
          PROVE  /\ connections'[c].held = connections[c].held
                 /\ connections[c].sub = "confirmed"
                      => connections'[c].sub = "confirmed"
                 /\ connections[c].sub = "none" => connections'[c].sub = "none"
      <3>1. CASE Activate(d)
        BY <3>1 DEF Activate, TypeOK, Connection
      <3>2. CASE Confirm(d)
        BY <3>2 DEF Confirm, TypeOK, Connection
      <3>3. CASE Refuse(d)
        BY <3>3 DEF Refuse, TypeOK, Connection
      <3>4. CASE Break(d)
        BY <3>4 DEF Break, TypeOK, Connection
      <3>5. CASE Die(d)
        BY <3>5 DEF Die, TypeOK, Connection
      <3>6. CASE Garble(d)
        BY <3>6 DEF Garble, TypeOK, Connection
      <3> QED  BY <2>2, <3>1, <3>2, <3>3, <3>4, <3>5, <3>6
    <2> QED  BY <2>1, <2>2 DEF Venue
  <1> QED  BY <1>1, <1>2 DEF Held

\* The steps of a poll, by what they do to the connections.
Decision ==
    \/ PollUnstarted \/ PollExpired \/ PollTolerant \/ PollOverdue
    \/ PollHealthy \/ Rollover \/ NoRollover \/ OpenFails
    \/ SubscribeFails \/ AwaitFails \/ ReadTimeout \/ ReadFails

LEMMA DecisionKeeps == Decision => UNCHANGED <<connections, session>>
    BY DEF Decision, PollUnstarted, PollExpired, PollTolerant, PollOverdue,
           PollHealthy, Rollover, NoRollover, OpenFails, SubscribeFails,
           AwaitFails, ReadTimeout, ReadFails, Fail, pollUnchanged

LEMMA AnswersStep == SessionInv /\ Next => AnswersConfirm'
  <1> SUFFICES ASSUME SessionInv, Next, NEW c \in Conn, HasAnswer(connections'[c].wire)
               PROVE  connections'[c].sub = "confirmed"
    BY DEF AnswersConfirm, HasAnswer
  <1> USE DEF SessionInv, TypeOK
  <1>1. /\ connections[c] \in Connection
        /\ connections[c].wire \in Seq(Message)
        /\ HasAnswer(connections[c].wire) => connections[c].sub = "confirmed"
    BY ConnectionUpdate DEF AnswersConfirm
  <1>2. CASE Decision \/ Tick
    <2>1. connections' = connections
      BY <1>2, DecisionKeeps DEF Tick
    <2> QED  BY <1>1, <2>1
  <1>3. CASE Emit
    <2> DEFINE e == Event(emitted + 1)
    <2>1. e \in Message /\ e # Response
      BY MessageShapes DEF Event, Response
    <2>2. \/ connections'[c] = connections[c]
          \/ connections'[c] = [connections[c] EXCEPT !.wire = Append(@, e)]
      BY <1>3 DEF Emit
    <2>3. /\ connections'[c].sub = connections[c].sub
          /\ connections'[c].wire \in {connections[c].wire, Append(connections[c].wire, e)}
      BY <1>1, <2>2 DEF Connection
    <2>4. HasAnswer(connections[c].wire)
      BY <1>1, <2>1, <2>3, AnswerShapes
    <2> QED  BY <1>1, <2>3, <2>4
  <1>4. ASSUME NEW d \in Conn, Activate(d) \/ Break(d) \/ Die(d)
        PROVE  connections'[c].sub = "confirmed"
    <2>1. /\ connections'[c].wire = connections[c].wire
          /\ connections[c].sub = "confirmed" => connections'[c].sub = "confirmed"
      <3>1. CASE Activate(d)
        BY <1>1, <3>1 DEF Activate, Connection
      <3>2. CASE Break(d)
        BY <1>1, <3>2 DEF Break, Connection
      <3>3. CASE Die(d)
        BY <1>1, <3>3 DEF Die, Connection
      <3> QED  BY <1>4, <3>1, <3>2, <3>3
    <2> QED  BY <1>1, <2>1
  <1>5. ASSUME NEW d \in Conn, Confirm(d)
        PROVE  connections'[c].sub = "confirmed"
    <2>1. CASE c = d
      BY <1>1, <1>5, <2>1 DEF Confirm, Connection
    <2>2. CASE c # d
      <3>1. connections'[c] = connections[c]
        BY <1>5, <2>2 DEF Confirm
      <3> QED  BY <1>1, <3>1
    <2> QED  BY <2>1, <2>2
  <1>6. ASSUME NEW d \in Conn, Refuse(d)
        PROVE  connections'[c].sub = "confirmed"
    <2>1. CASE c = d
      <3>1. /\ connections[c].sub # "confirmed"
            /\ connections'[c].wire = Append(connections[c].wire, Refusal)
        BY <1>1, <1>6, <2>1 DEF Refuse, Connection
      <3>2. Refusal \in Message /\ Refusal # Response
        BY MessageShapes DEF Refusal, Response
      <3> QED  BY <1>1, <3>1, <3>2, AnswerShapes
    <2>2. CASE c # d
      <3>1. connections'[c] = connections[c]
        BY <1>6, <2>2 DEF Refuse
      <3> QED  BY <1>1, <3>1
    <2> QED  BY <2>1, <2>2
  <1>7. ASSUME NEW d \in Conn, Garble(d)
        PROVE  connections'[c].sub = "confirmed"
    <2>1. CASE c = d
      <3>1. /\ connections[c].wire # <<>>
            /\ connections'[c].sub = connections[c].sub
            /\ connections'[c].wire = <<Garbage>> \o Tail(connections[c].wire)
        BY <1>1, <1>7, <2>1 DEF Garble, Connection
      <3> QED  BY <1>1, <3>1, AnswerShapes
    <2>2. CASE c # d
      <3>1. connections'[c] = connections[c]
        BY <1>7, <2>2 DEF Garble
      <3> QED  BY <1>1, <3>1
    <2> QED  BY <2>1, <2>2
  <1>8. CASE Close \/ \E d \in Conn : Open(d)
    <2>1. connections'[c] \in {connections[c], Unopened, Opened}
      BY <1>8 DEF Close, Open
    <2>2. Unopened.wire = <<>> /\ Opened.wire = <<>>
      BY DEF Unopened, Opened
    <2>3. connections'[c] = connections[c]
      BY <1>1, <2>1, <2>2, AnswerShapes
    <2> QED  BY <1>1, <2>3
  <1>9. CASE Subscribe
    <2>1. connections[opening].sub = "none" /\ opening \in Conn
      BY <1>9 DEF Subscribe, SetupIsNew, Held
    <2>2. CASE c = opening
      <3>1. connections'[c].wire = connections[c].wire
        BY <1>1, <1>9, <2>2 DEF Subscribe, Connection
      <3> QED  BY <1>1, <2>1, <2>2, <3>1
    <2>3. CASE c # opening
      <3>1. connections'[c] = connections[c]
        BY <1>9, <2>3 DEF Subscribe
      <3> QED  BY <1>1, <3>1
    <2> QED  BY <2>2, <2>3
  <1>10. CASE AwaitOther \/ AwaitResponse \/ ReadPayload
    <2>1. /\ connections'[c].sub = connections[c].sub
          /\ \/ connections'[c].wire = connections[c].wire
             \/ /\ connections[c].wire # <<>>
                /\ connections'[c].wire = Tail(connections[c].wire)
      <3>1. CASE AwaitOther
        BY <1>1, <3>1 DEF AwaitOther, Connection
      <3>2. CASE AwaitResponse
        BY <1>1, <3>2 DEF AwaitResponse, Connection
      <3>3. CASE ReadPayload
        <4>1. CASE c = session.conn
          <5>1. connections'[c] = Consumed(c)
            BY <3>3, <4>1 DEF ReadPayload
          <5>2. connections[c].pending \in Seq(Message)
            BY <1>1, ConnectionUpdate
          <5>3. connections[c].pending # <<>> \/ connections[c].wire # <<>>
            BY <1>1, <3>3, <4>1, <5>2 DEF ReadPayload, Unread
          <5> QED  BY <1>1, <5>1, <5>3 DEF Consumed, Connection
        <4>2. CASE c # session.conn
          BY <3>3, <4>2 DEF ReadPayload
        <4> QED  BY <4>1, <4>2
      <3> QED  BY <1>10, <3>1, <3>2, <3>3
    <2> QED  BY <1>1, <2>1, AnswerShapes
  <1> QED
    BY <1>2, <1>3, <1>4, <1>5, <1>6, <1>7, <1>8, <1>9, <1>10
    DEF Next, Venue, PollStep, Decision

LEMMA SetupStep == SessionInv /\ Next => SetupIsNew'
  <1> SUFFICES ASSUME SessionInv, Next PROVE SetupIsNew'
    OBVIOUS
  <1> USE DEF SessionInv, TypeOK, SetupIsNew
  <1>1. CASE Venue
    <2>1. opening \in Held => opening \in Conn
      BY DEF Held
    <2> QED  BY <1>1, <2>1, VenueKeeps
  <1>2. CASE Decision \/ Tick \/ Close \/ AwaitResponse \/ ReadPayload
    BY <1>2
    DEF Decision, PollUnstarted, PollExpired, PollTolerant, PollOverdue,
        PollHealthy, Rollover, NoRollover, OpenFails, SubscribeFails,
        AwaitFails, ReadTimeout, ReadFails, Fail, Start, Return, pollState,
        Tick, Close, AwaitResponse, ReadPayload
  <1>3. ASSUME NEW c \in Conn, Open(c) PROVE SetupIsNew'
    <2>1. connections'[c].held /\ connections'[c].sub = "none"
      BY <1>3 DEF Open, Opened
    <2>2. opening' = c /\ c # session.conn /\ session' = session
      BY <1>3 DEF Open
    <2>3. opening' \in Held'
      BY <2>1, <2>2 DEF Held
    <2> QED  BY <2>1, <2>2, <2>3
  <1>4. CASE Subscribe
    <2>1. /\ pc' = "await" /\ UNCHANGED <<session, opening>>
          /\ opening \in Held /\ opening # session.conn
      BY <1>4 DEF Subscribe
    <2>2. connections'[opening].held
      BY <1>4, <2>1 DEF Subscribe, Held, Connection
    <2>3. opening' \in Held'
      BY <2>1, <2>2 DEF Held
    <2> QED  BY <2>1, <2>3
  <1>5. CASE AwaitOther
    <2>1. /\ pc' = "await" /\ UNCHANGED <<session, opening>>
          /\ opening \in Held /\ opening # session.conn
      BY <1>5 DEF AwaitOther, local, pollState
    <2>2. connections'[opening].held
      BY <1>5, <2>1 DEF AwaitOther, Held, Connection
    <2>3. opening' \in Held'
      BY <2>1, <2>2 DEF Held
    <2> QED  BY <2>1, <2>3
  <1> QED
    BY <1>1, <1>2, <1>3, <1>4, <1>5 DEF Next, PollStep, Decision

LEMMA ConfirmedStep == SessionInv /\ Next => SessionIsConfirmed'
  <1> SUFFICES ASSUME SessionInv, Next, session'.conn \in Held'
               PROVE  connections'[session'.conn].sub = "confirmed"
    BY DEF SessionIsConfirmed
  <1> USE DEF SessionInv, TypeOK, SessionIsConfirmed, Held
  <1>1. CASE Venue
    BY <1>1, VenueKeeps
  <1>2. CASE Decision \/ Tick
    <2>1. connections' = connections /\ session'.conn = session.conn
      BY <1>2, DecisionKeeps DEF Tick, Session
    <2> QED  BY <2>1
  <1>3. CASE Close
    <2>1. session' = session
      BY <1>3 DEF Close
    <2>2. session.conn \in Conn => ~connections'[session.conn].held
      BY <1>3 DEF Close, Unopened
    <2> QED  BY <2>1, <2>2
  <1>4. ASSUME NEW c \in Conn, Open(c)
        PROVE  connections'[session'.conn].sub = "confirmed"
    <2>1. c # session.conn /\ session' = session
      BY <1>4 DEF Open
    <2>2. session.conn \in Conn /\ connections'[session.conn] = connections[session.conn]
      BY <1>4, <2>1 DEF Open
    <2> QED  BY <2>1, <2>2
  <1>5. CASE Subscribe
    <2>1. opening # session.conn /\ session' = session
      BY <1>5 DEF Subscribe, SetupIsNew
    <2>2. session.conn \in Conn /\ connections'[session.conn] = connections[session.conn]
      BY <1>5, <2>1 DEF Subscribe
    <2> QED  BY <2>1, <2>2
  <1>6. CASE AwaitOther
    <2>1. opening # session.conn /\ session' = session
      BY <1>6 DEF AwaitOther, SetupIsNew, local
    <2>2. session.conn \in Conn /\ connections'[session.conn] = connections[session.conn]
      BY <1>6, <2>1 DEF AwaitOther
    <2> QED  BY <2>1, <2>2
  <1>7. CASE AwaitResponse
    <2>1. opening \in Conn /\ connections[opening].wire \in Seq(Message)
      BY <1>7, ConnectionUpdate DEF AwaitResponse, SetupIsNew
    <2>2. connections[opening].sub = "confirmed"
      BY <1>7, <2>1, AnswerShapes DEF AwaitResponse, AnswersConfirm
    <2>3. session'.conn = opening
      BY <1>7 DEF AwaitResponse, Established
    <2>4. connections'[opening].sub = connections[opening].sub
      BY <1>7, <2>1 DEF AwaitResponse, Connection
    <2> QED  BY <2>2, <2>3, <2>4
  <1>8. CASE ReadPayload
    <2>1. /\ session.conn \in Conn /\ session'.conn = session.conn
          /\ connections[session.conn].sub = "confirmed"
      BY <1>8 DEF ReadPayload, Session
    <2>2. connections'[session.conn] = Consumed(session.conn)
      BY <1>8, <2>1 DEF ReadPayload
    <2>3. Consumed(session.conn).sub = connections[session.conn].sub
      BY <2>1 DEF Consumed, Connection
    <2> QED  BY <2>1, <2>2, <2>3
  <1> QED
    BY <1>1, <1>2, <1>3, <1>4, <1>5, <1>6, <1>7, <1>8 DEF Next, PollStep, Decision

LEMMA HeldStep == SessionInv /\ Next => SessionIsHeld'
  <1> SUFFICES ASSUME SessionInv, Next, pc' \in {"idle", "rollover"},
                      session'.conn # NoConn
               PROVE  session'.conn \in Held'
    BY DEF SessionIsHeld
  <1> USE DEF SessionInv, TypeOK, SessionIsHeld
  <1>1. CASE Venue
    BY <1>1, VenueKeeps
  <1>2. CASE Decision \/ Tick
    <2>1. connections' = connections /\ session'.conn = session.conn
      BY <1>2, DecisionKeeps DEF Tick, Session
    <2>2. pc \in {"idle", "rollover"} \/ session.conn \in Held
      BY <1>2
      DEF Decision, PollUnstarted, PollExpired, PollTolerant, PollOverdue,
          PollHealthy, Rollover, NoRollover, OpenFails, SubscribeFails,
          AwaitFails, ReadTimeout, ReadFails, Fail, Start, Tick
    <2> QED  BY <2>1, <2>2 DEF Held
  <1>3. CASE AwaitResponse
    <2>1. opening \in Held /\ opening \in Conn /\ session'.conn = opening
      BY <1>3 DEF AwaitResponse, SetupIsNew, Established, Held
    <2>2. connections'[opening].held
      BY <1>3, <2>1 DEF AwaitResponse, Connection, Held
    <2> QED  BY <2>1, <2>2 DEF Held
  <1>4. CASE ReadPayload
    <2>1. session.conn \in Conn /\ connections[session.conn].held
      BY <1>4 DEF ReadPayload, Held
    <2>2. session'.conn = session.conn
      BY <1>4 DEF ReadPayload, Session
    <2>3. connections'[session.conn] = Consumed(session.conn)
      BY <1>4, <2>1 DEF ReadPayload
    <2>4. Consumed(session.conn).held
      BY <2>1 DEF Consumed, Connection
    <2> QED  BY <2>1, <2>2, <2>3, <2>4 DEF Held
  <1>5. CASE Close \/ (\E c \in Conn : Open(c)) \/ Subscribe \/ AwaitOther
    BY <1>5 DEF Close, Open, Subscribe, AwaitOther, local, pollState
  <1> QED
    BY <1>1, <1>2, <1>3, <1>4, <1>5 DEF Next, PollStep, Decision

LEMMA ExistsStep == SessionInv /\ Next => SessionExists'
  <1> SUFFICES ASSUME SessionInv, Next PROVE SessionExists'
    OBVIOUS
  <1> USE DEF SessionInv, TypeOK, SessionExists
  <1>1. CASE Venue
    BY <1>1, VenueKeeps
  <1>2. CASE Tick
    BY <1>2 DEF Tick, Session, pollState, history
  <1>3. CASE Decision
    BY <1>3, DecisionKeeps
    DEF Decision, PollUnstarted, PollExpired, PollTolerant, PollOverdue,
        PollHealthy, Rollover, NoRollover, OpenFails, SubscribeFails,
        AwaitFails, ReadTimeout, ReadFails, Fail, Start, Return, Held,
        pollUnchanged
  <1>4. CASE Close \/ (\E c \in Conn : Open(c)) \/ Subscribe \/ AwaitOther
    BY <1>4 DEF Close, Open, Subscribe, AwaitOther, local, pollState, history
  <1>5. CASE AwaitResponse
    <2>1. session'.conn # NoConn
      BY <1>5, ConnAssumption DEF AwaitResponse, Established, SetupIsNew, Held
    <2>2. outcome' # "raised"
      BY <1>5 DEF AwaitResponse, Return
    <2> QED  BY <2>1, <2>2
  <1>6. CASE ReadPayload
    <2>1. session'.conn # NoConn
      BY <1>6, ConnAssumption DEF ReadPayload, Held, Session
    <2> QED  BY <1>6, <2>1 DEF ReadPayload, Return
  <1> QED
    BY <1>1, <1>2, <1>3, <1>4, <1>5, <1>6 DEF Next, PollStep, Decision

LEMMA SessionInvStep == SessionInv /\ [Next]_vars => SessionInv'
  <1> SUFFICES ASSUME SessionInv, [Next]_vars PROVE SessionInv'
    OBVIOUS
  <1>1. CASE Next
    BY <1>1, TypeStep, AnswersStep, SetupStep, ConfirmedStep, HeldStep, ExistsStep
    DEF SessionInv
  <1>2. CASE UNCHANGED vars
    <2>1. TypeOK'
      BY TypeStep DEF SessionInv
    <2>2. AnswersConfirm' /\ SetupIsNew' /\ SessionIsConfirmed'
      BY <1>2
      DEF SessionInv, vars, AnswersConfirm, SetupIsNew, SessionIsConfirmed,
          HasAnswer, Held
    <2>3. SessionIsHeld' /\ SessionExists'
      BY <1>2 DEF SessionInv, vars, SessionIsHeld, SessionExists, Held
    <2> QED  BY <2>1, <2>2, <2>3 DEF SessionInv
  <1> QED  BY <1>1, <1>2

\* A poll that returns leaves the session on a connection the transport holds
\* and the venue has confirmed, whatever failed inside it: the fallback from a
\* failed reconnect to a bootstrap, a failed renewal and a failed read never
\* leave the loop polling a stream it does not listen to.
THEOREM SessionAlwaysSubscribed == Spec => []SessionIsSubscribed
  <1>1. SessionInv => SessionIsSubscribed
    BY DEF SessionInv, SessionIsSubscribed, SessionIsHeld, SessionExists,
           SessionIsConfirmed
  <1> QED  BY <1>1, InitSession, SessionInvStep, PTL DEF Spec

-----------------------------------------------------------------------------
(* How long a silent connection is kept.                                   *)

\* Two polls that do not look, or the grace window: what the watchdog adds.
Patience == IF Grace > MaxIdle THEN Grace ELSE MaxIdle

\* Before the first look no poll has seen an age beyond the timeout; after it
\* the age the last poll saw is within the patience.  A poll that got past
\* the watchdog, or renews, has a session that is not overdue.
SilenceInv ==
    /\ session.age <= HeartbeatTimeout + MaxIdle + Patience
    /\ pc = "idle" =>
         /\ session.age <= HeartbeatTimeout + Patience + idle
         /\ streak = 0 => session.age <= HeartbeatTimeout + idle
    /\ pc \in {"rollover", "read"} => session.age <= HeartbeatTimeout
    /\ pc # "idle" /\ purpose = "refresh" => session.age <= HeartbeatTimeout

LEMMA TimeShapes ==
    /\ HeartbeatTimeout \in Nat /\ Grace \in Nat /\ MaxIdle \in Nat
    /\ Ttl \in Nat /\ RolloverWindow \in Nat /\ Patience \in Nat
    /\ 0 < RolloverWindow /\ RolloverWindow <= Ttl /\ 0 < MaxIdle
    /\ Grace <= Patience /\ MaxIdle <= Patience
    /\ Patience + MaxIdle + HeartbeatTimeout < AgeCap
    /\ TypeOK => /\ session.age \in Int /\ session.remaining \in Nat
                 /\ session.age >= NoMessage /\ session.remaining <= Ttl
                 /\ idle \in Nat /\ idle <= MaxIdle /\ streak \in 0 .. 2
  <1>1. \A a \in {NoMessage} \cup (0 .. AgeCap) : a \in Int /\ a >= NoMessage
    BY AgeBound DEF NoMessage
  <1>2. TypeOK => session.age \in Int /\ session.age >= NoMessage
    BY <1>1 DEF TypeOK, Session
  <1>3. TypeOK => /\ session.remaining \in Nat /\ session.remaining <= Ttl
                  /\ idle \in Nat /\ idle <= MaxIdle /\ streak \in 0 .. 2
    BY TimeAssumption, BoundAssumption DEF TypeOK, Session
  <1> QED
    BY <1>2, <1>3, TimeAssumption, BoundAssumption DEF Patience, AgeCap

LEMMA InitSilence == Init => SilenceInv
    BY TimeShapes DEF Init, SilenceInv, NoMessage

\* A poll either leaves the age alone, or sets it back to 0 or to no message.
LEMMA SilenceStep == TypeOK /\ SilenceInv /\ [Next]_vars => SilenceInv'
  <1> SUFFICES ASSUME TypeOK, SilenceInv, [Next]_vars PROVE SilenceInv'
    OBVIOUS
  <1> USE TimeShapes DEF SilenceInv
  <1>1. CASE UNCHANGED vars
    BY <1>1 DEF vars
  <1>2. CASE Venue
    BY <1>2 DEF Venue, Emit, Activate, Confirm, Refuse, Break, Die, Garble,
                local, pollState, history
  <1>3. CASE Tick
    <2>1. /\ pc = "idle" /\ pc' = "idle" /\ idle < MaxIdle /\ idle' = idle + 1
          /\ streak' = streak
      BY <1>3 DEF Tick, pollState
    <2>2. session'.age \in {session.age, session.age + 1}
      BY <1>3 DEF Tick, TypeOK, Session
    <2> QED  BY <2>1, <2>2
  <1>4. CASE PollUnstarted \/ PollExpired \/ PollTolerant \/ PollOverdue \/ PollHealthy
    <2>1. session' = session /\ pc = "idle" /\ idle' = 0
      BY <1>4 DEF PollUnstarted, PollExpired, PollTolerant, PollOverdue,
                  PollHealthy, pollUnchanged
    <2>2. CASE PollUnstarted \/ PollExpired \/ PollOverdue
      BY <2>1, <2>2 DEF PollUnstarted, PollExpired, PollOverdue, Start
    <2>3. CASE PollTolerant
      <3>1. streak' # 0 /\ pc' = "idle"
        BY <2>3 DEF PollTolerant, Return
      <3>2. session.age <= HeartbeatTimeout + Patience
        <4>1. CASE session.age <= HeartbeatTimeout + Grace
          BY <4>1
        <4>2. CASE streak + 1 < 2
          BY <2>1, <4>2
        <4> QED  BY <2>3, <4>1, <4>2 DEF PollTolerant, Tolerated
      <3> QED  BY <2>1, <3>1, <3>2
    <2>4. CASE PollHealthy
      BY <2>1, <2>4 DEF PollHealthy, Overdue, NoMessage
    <2> QED  BY <1>4, <2>2, <2>3, <2>4
  <1>5. CASE Rollover \/ NoRollover \/ ReadTimeout \/ ReadFails
    BY <1>5 DEF Rollover, NoRollover, ReadTimeout, ReadFails, Start, Return,
                pollUnchanged
  <1>6. CASE OpenFails \/ SubscribeFails \/ AwaitFails
    BY <1>6 DEF OpenFails, SubscribeFails, AwaitFails, Fail
  <1>7. CASE Close \/ (\E c \in Conn : Open(c)) \/ Subscribe \/ AwaitOther
    BY <1>7 DEF Close, Open, Subscribe, AwaitOther, local, pollState, history
  <1>8. CASE AwaitResponse
    <2>1. session'.age \in {NoMessage, 0} \/ (purpose = "refresh" /\ session'.age = session.age)
      BY <1>8 DEF AwaitResponse, Established
    <2>2. session'.age \in Int /\ session'.age <= HeartbeatTimeout
      BY <1>8, <2>1 DEF AwaitResponse, NoMessage
    <2>3. idle' = idle
      BY <1>8 DEF AwaitResponse
    <2> QED  BY <2>2, <2>3
  <1>9. CASE ReadPayload
    <2>1. session'.age = 0
      BY <1>9 DEF ReadPayload, TypeOK, Session
    <2>2. idle' = idle
      BY <1>9 DEF ReadPayload
    <2> QED  BY <2>1, <2>2
  <1> QED
    BY <1>1, <1>2, <1>3, <1>4, <1>5, <1>6, <1>7, <1>8, <1>9 DEF Next, PollStep

\* The watchdog bounds silence, whatever fails: with two looks before it acts,
\* each at the start of a poll, a session that has seen a message is silent for
\* no longer than HeartbeatTimeout, MaxIdle to the poll that notices, and the
\* longer of grace window and another MaxIdle.  Of a session that has seen no
\* message nothing is claimed: its age is NoMessage, and the watchdog does not
\* look at it (the heartbeat branch of poll_private_payloads).
THEOREM SilenceAlwaysBounded == Spec => []SilenceIsBounded
  <1>1. TypeOK /\ SilenceInv => SilenceIsBounded
    BY DEF SilenceInv, SilenceIsBounded, Patience
  <1>2. Init => TypeOK
    BY InitSession DEF SessionInv
  <1> QED  BY <1>1, <1>2, TypeStep, InitSilence, SilenceStep, PTL DEF Spec

-----------------------------------------------------------------------------
(* Renewal comes before expiry.                                            *)

\* The lifetime that is left when a renewal falls due.
Lead == Ttl - RolloverWindow

\* The lead outlasts the polls during which an overdue heartbeat suspends the
\* renewal: the one before the first look, the grace window, the one after.
LeadAssumption == /\ Lead >= 2 * MaxIdle
                  /\ Lead + 1 >= 2 * MaxIdle + Grace

\* The session's connection is closed while a new one is set up for it,
\* except by an expiry.
ClosedBeforeSetup ==
    pc \in {"open", "subscribe", "await"} /\ purpose # "expiry"
      => session.conn \notin Held

\* The last poll left more than the lead.
LeftTheLead == session.remaining + idle >= Lead + 1

\* An earlier one did; the polls since were tolerant, and every unit of
\* lifetime they let pass is a unit of silence.
SpentOnSilence ==
    /\ streak > 0 /\ session.age # NoMessage
    /\ session.remaining + session.age >= Lead + HeartbeatTimeout + 2 - MaxIdle
    /\ \/ session.age <= HeartbeatTimeout + Grace + idle
       \/ session.remaining + idle >= Lead + 1 - MaxIdle

RenewalInv ==
    /\ session.remaining > 0
    /\ ClosedBeforeSetup
    /\ pc = "read" /\ session.conn \in Held => session.remaining >= Lead + 1
    /\ pc = "idle" => LeftTheLead \/ SpentOnSilence

LEMMA InitRenewal == Init => RenewalInv
    BY TimeShapes
    DEF Init, RenewalInv, ClosedBeforeSetup, LeftTheLead, Lead, NoMessage

LEMMA ClosedStep ==
    SessionInv /\ ClosedBeforeSetup /\ [Next]_vars => ClosedBeforeSetup'
  <1> SUFFICES ASSUME SessionInv, ClosedBeforeSetup, [Next]_vars
               PROVE  ClosedBeforeSetup'
    OBVIOUS
  <1> USE ConnAssumption DEF SessionInv, TypeOK, ClosedBeforeSetup
  <1>1. CASE UNCHANGED vars
    BY <1>1 DEF vars, Held
  <1>2. CASE Venue
    BY <1>2, VenueKeeps
  <1>3. CASE Decision \/ Tick
    <2>1. connections' = connections /\ session'.conn = session.conn
      BY <1>3, DecisionKeeps DEF Tick, Session
    <2>2. /\ Held' = Held
          /\ NoConn \notin Held
      BY <2>1 DEF Held
    <2>3. CASE PollUnstarted
      BY <2>1, <2>2, <2>3 DEF PollUnstarted
    <2>4. CASE OpenFails \/ SubscribeFails \/ AwaitFails
      BY <2>1, <2>2, <2>4 DEF OpenFails, SubscribeFails, AwaitFails, Fail
    <2>5. CASE \/ PollExpired \/ PollTolerant \/ PollOverdue \/ PollHealthy
               \/ Rollover \/ NoRollover \/ ReadTimeout \/ ReadFails \/ Tick
      BY <2>5
      DEF PollExpired, PollTolerant, PollOverdue, PollHealthy, Rollover,
          NoRollover, ReadTimeout, ReadFails, Tick, Start, Return, pollState
    <2> QED  BY <1>3, <2>3, <2>4, <2>5 DEF Decision
  <1>4. CASE Close
    <2>1. session' = session
      BY <1>4 DEF Close
    <2>2. session.conn \in Conn => ~connections'[session.conn].held
      BY <1>4 DEF Close, Unopened
    <2> QED  BY <2>1, <2>2 DEF Held
  <1>5. ASSUME NEW c \in Conn, Open(c) PROVE ClosedBeforeSetup'
    <2>1. /\ session' = session /\ c # session.conn /\ pc = "open"
          /\ UNCHANGED purpose
          /\ \A d \in Conn : d # c => connections'[d] = connections[d]
      BY <1>5 DEF Open
    <2> QED  BY <2>1 DEF Held
  <1>6. CASE Subscribe \/ AwaitOther
    <2>1. /\ session' = session /\ opening # session.conn
          /\ pc \in {"subscribe", "await"} /\ UNCHANGED purpose
          /\ \A d \in Conn : d # opening => connections'[d] = connections[d]
      BY <1>6 DEF Subscribe, AwaitOther, SetupIsNew, local, pollState
    <2> QED  BY <2>1 DEF Held
  <1>7. CASE AwaitResponse \/ ReadPayload
    BY <1>7 DEF AwaitResponse, ReadPayload, Return
  <1> QED
    BY <1>1, <1>2, <1>3, <1>4, <1>5, <1>6, <1>7 DEF Next, PollStep, Decision

\* Only the clock takes from the lifetime and only a set-up gives it back; a
\* poll that reads has renewed or had no need to.
LEMMA RenewalStep ==
    ASSUME LeadAssumption, SessionInv, SilenceInv, RenewalInv, [Next]_vars
    PROVE  RenewalInv'
  <1> USE TimeShapes DEF SessionInv
  <1>1. ClosedBeforeSetup'
    BY ClosedStep DEF RenewalInv
  <1> SUFFICES /\ session'.remaining > 0
               /\ pc' = "read" /\ session'.conn \in Held'
                    => session'.remaining >= Lead + 1
               /\ pc' = "idle" => LeftTheLead' \/ SpentOnSilence'
    BY <1>1 DEF RenewalInv
  <1>2. Lead \in Int
    BY DEF Lead
  <1> USE <1>2 DEF RenewalInv
  <1>3. CASE UNCHANGED vars
    BY <1>3 DEF vars, LeftTheLead, SpentOnSilence, Held
  <1>4. CASE Venue
    <2>1. /\ UNCHANGED <<session, pc, streak, idle>>
          /\ Held' = Held
      BY <1>4, VenueKeeps
      DEF Venue, Emit, Activate, Confirm, Refuse, Break, Die, Garble, local
    <2> QED  BY <2>1 DEF LeftTheLead, SpentOnSilence
  <1>5. CASE Tick
    <2>1. /\ pc = "idle" /\ pc' = "idle" /\ idle < MaxIdle /\ idle' = idle + 1
          /\ streak' = streak
      BY <1>5 DEF Tick, pollState
    <2>2. session.age < AgeCap
      BY <2>1, AgeBound DEF SilenceInv
    <2>3. /\ session'.age = IF session.age = NoMessage THEN session.age
                            ELSE session.age + 1
          /\ session'.remaining \in {session.remaining, session.remaining - 1}
      BY <1>5, <2>2 DEF Tick, TypeOK, Session
    <2>4. LeftTheLead => LeftTheLead' /\ session'.remaining > 0
      BY <2>1, <2>3 DEF LeftTheLead, LeadAssumption
    <2>5. ASSUME SpentOnSilence PROVE SpentOnSilence' /\ session'.remaining > 0
      <3>1. session'.age = session.age + 1 /\ session'.age \in Int
            /\ session'.remaining \in Int
        BY <2>3, <2>5 DEF SpentOnSilence
      <3>2. SpentOnSilence'
        BY <2>1, <2>3, <2>5, <3>1 DEF SpentOnSilence, NoMessage
      <3> QED  BY <2>1, <3>1, <3>2 DEF SpentOnSilence, LeadAssumption
    <2> QED  BY <2>1, <2>4, <2>5
  <1>6. CASE PollUnstarted \/ PollExpired \/ PollOverdue \/ PollHealthy
             \/ Rollover \/ ReadFails
    BY <1>6 DEF PollUnstarted, PollExpired, PollOverdue, PollHealthy, Rollover,
                ReadFails, Start, pollUnchanged
  <1>7. CASE PollTolerant
    <2>1. /\ UNCHANGED session /\ pc = "idle" /\ pc' = "idle" /\ idle' = 0
          /\ session.age > HeartbeatTimeout /\ session.age # NoMessage
          /\ streak' > 0
      BY <1>7 DEF PollTolerant, Overdue, Return, pollUnchanged
    <2>2. session.age <= HeartbeatTimeout + Grace \/ streak = 0
      BY <1>7 DEF PollTolerant, Tolerated
    <2>3. CASE LeftTheLead
      BY <2>1, <2>3 DEF LeftTheLead, SpentOnSilence
    <2>4. CASE SpentOnSilence
      BY <2>1, <2>2, <2>4 DEF SpentOnSilence
    <2> QED  BY <2>1, <2>3, <2>4
  <1>8. CASE NoRollover
    BY <1>8 DEF NoRollover, RolloverDue, Lead, pollUnchanged
  <1>9. CASE OpenFails \/ SubscribeFails \/ AwaitFails
    <2>1. /\ UNCHANGED <<session, connections>>
          /\ pc' \in {"read", "open", "raised"}
          /\ pc' = "read" => purpose = "refresh"
          /\ pc \in {"open", "subscribe", "await"}
      BY <1>9 DEF OpenFails, SubscribeFails, AwaitFails, Fail
    <2>2. Held' = Held
      BY <2>1 DEF Held
    <2> QED  BY <2>1, <2>2 DEF ClosedBeforeSetup
  <1>10. CASE ReadTimeout
    <2>1. UNCHANGED session /\ session.remaining >= Lead + 1 /\ pc' = "idle"
          /\ idle' = idle
      BY <1>10 DEF ReadTimeout, Return
    <2> QED  BY <2>1 DEF LeftTheLead
  <1>11. CASE Close \/ (\E c \in Conn : Open(c)) \/ Subscribe \/ AwaitOther
    BY <1>11 DEF Close, Open, Subscribe, AwaitOther, local, pollState
  <1>12. CASE AwaitResponse
    <2>1. session'.remaining = Ttl /\ idle' = idle
      BY <1>12 DEF AwaitResponse, Established
    <2> QED  BY <2>1 DEF LeftTheLead, Lead
  <1>13. CASE ReadPayload
    <2>1. /\ session'.remaining = session.remaining /\ idle' = idle
          /\ session.remaining >= Lead + 1 /\ pc' = "idle"
      BY <1>13 DEF ReadPayload, Return, TypeOK, Session
    <2> QED  BY <2>1 DEF LeftTheLead
  <1> QED
    BY <1>3, <1>4, <1>5, <1>6, <1>7, <1>8, <1>9, <1>10, <1>11, <1>12, <1>13
    DEF Next, PollStep

\* With a lead that outlasts the suspension, renewal keeps ahead of expiry,
\* whatever fails: the polls that skip check_session_rollover because the
\* heartbeat is overdue cannot use up the lifetime before the watchdog
\* reconnects, and a failed renewal is never read past.
THEOREM RenewalKeepsAhead == LeadAssumption => (Spec => []RenewedInTime)
  <1> SUFFICES ASSUME LeadAssumption PROVE Spec => []RenewedInTime
    OBVIOUS
  <1> DEFINE I == SessionInv /\ SilenceInv /\ RenewalInv
  <1>1. Init => I
    BY InitSession, InitSilence, InitRenewal
  <1>2. I /\ [Next]_vars => I'
    BY SessionInvStep, SilenceStep, RenewalStep DEF SessionInv
  <1>3. I => RenewedInTime
    BY DEF RenewalInv, RenewedInTime
  <1> QED  BY <1>1, <1>2, <1>3, PTL DEF Spec

-----------------------------------------------------------------------------
(* No connection is left behind.                                           *)

\* Nothing fails between the handshake and the venue's answer.
SetupsComplete == Faults \cap {"throttle", "refuse", "timeout", "garble"} = {}

\* Nothing but events and answers is on a wire.
PlainWire(k) == \A i \in 1 .. Len(k.wire) : k.wire[i][1] \in {"event", "response"}

\* A connection set up without failures: it can only go once it is confirmed.
SoundConnection(k) == PlainWire(k) /\ (k.link # "up" => k.sub = "confirmed")

\* Besides the session's connection there is only the one being set up, and
\* the answer that is awaited on it stays on the wire once it is sent.
StrayInv ==
    /\ Held \subseteq {session.conn, opening}
    /\ pc \notin {"subscribe", "await"} => opening = NoConn
    /\ purpose # "expiry"
    /\ \A c \in Conn : SoundConnection(connections[c])
    /\ pc = "await" /\ connections[opening].sub = "confirmed"
         => HasAnswer(connections[opening].wire)

LEMMA InitStray == Init => StrayInv
    BY DEF Init, StrayInv, SoundConnection, PlainWire, Held, Unopened

LEMMA PlainQueues ==
    ASSUME NEW k \in Connection, PlainWire(k), NEW j \in Connection
    PROVE  /\ j.wire = <<>> => PlainWire(j)
           /\ j.wire = k.wire => PlainWire(j)
           /\ k.wire # <<>> /\ j.wire = Tail(k.wire) => PlainWire(j)
           /\ \A m \in Message : m[1] \in {"event", "response"}
                /\ j.wire = Append(k.wire, m) => PlainWire(j)
  <1> USE ConnectionUpdate DEF PlainWire
  <1>1. j.wire = <<>> => PlainWire(j)
    OBVIOUS
  <1>2. k.wire # <<>> /\ j.wire = Tail(k.wire) => PlainWire(j)
    <2> SUFFICES ASSUME k.wire # <<>>, j.wire = Tail(k.wire),
                        NEW i \in 1 .. Len(j.wire)
                 PROVE  j.wire[i][1] \in {"event", "response"}
      OBVIOUS
    <2>1. k.wire \in Seq(Message)
      OBVIOUS
    <2>2. i + 1 \in 1 .. Len(k.wire) /\ j.wire[i] = k.wire[i + 1]
      BY <2>1
    <2> QED  BY <2>2
  <1>3. ASSUME NEW m \in Message, m[1] \in {"event", "response"},
               j.wire = Append(k.wire, m), NEW i \in 1 .. Len(j.wire)
        PROVE  j.wire[i][1] \in {"event", "response"}
    <2>1. k.wire \in Seq(Message)
      OBVIOUS
    <2>2. (i \in 1 .. Len(k.wire) /\ j.wire[i] = k.wire[i]) \/ j.wire[i] = m
      BY <1>3, <2>1
    <2> QED  BY <1>3, <2>2
  <1> QED  BY <1>1, <1>2, <1>3

\* Every step leaves sound connections sound.
LEMMA SoundStep ==
    ASSUME SetupsComplete, SessionInv, Next, NEW c \in Conn,
           \A d \in Conn : SoundConnection(connections[d])
    PROVE  SoundConnection(connections'[c])
  <1> USE DEF SessionInv, TypeOK
  <1>1. /\ connections[c] \in Connection /\ PlainWire(connections[c])
        /\ connections[c].link # "up" => connections[c].sub = "confirmed"
        /\ connections'[c] \in Connection
    BY TypeStep DEF SoundConnection
  <1> DEFINE k == connections[c]
             j == connections'[c]
  <1>2. CASE j = k
    BY <1>2
  <1>3. CASE Emit
    <2> DEFINE e == Event(emitted + 1)
    <2>1. e \in Message /\ e[1] = "event"
      BY MessageShapes DEF Event
    <2>2. /\ j.sub = k.sub /\ j.link = k.link
          /\ (j.wire = k.wire \/ j.wire = Append(k.wire, e))
      BY <1>1, <1>3 DEF Emit, Connection
    <2>3. PlainWire(j)
      BY <1>1, <2>1, <2>2, PlainQueues
    <2> QED  BY <1>1, <2>2, <2>3 DEF SoundConnection
  <1>4. ASSUME NEW d \in Conn,
               Activate(d) \/ Confirm(d) \/ Refuse(d) \/ Break(d) \/ Die(d) \/ Garble(d)
        PROVE  SoundConnection(j)
    <2>1. CASE c # d
      BY <1>2, <1>4, <2>1 DEF Activate, Confirm, Refuse, Break, Die, Garble
    <2>2. CASE c = d /\ Activate(d)
      <3>1. j.link = "up" /\ j.wire = k.wire
        BY <1>1, <2>2 DEF Activate, Connection
      <3> QED  BY <1>1, <3>1, PlainQueues DEF SoundConnection
    <2>3. CASE c = d /\ Confirm(d)
      <3>1. j.link = "up" /\ j.wire = Append(k.wire, Response)
        BY <1>1, <2>3 DEF Confirm, Connection
      <3>2. Response \in Message /\ Response[1] = "response"
        BY MessageShapes DEF Response
      <3>3. PlainWire(j)
        BY <1>1, <3>1, <3>2, PlainQueues
      <3> QED  BY <3>1, <3>3 DEF SoundConnection
    <2>4. CASE c = d /\ (Break(d) \/ Die(d))
      <3>1. j.sub = "confirmed" /\ j.wire = k.wire
        BY <1>1, <2>4 DEF Break, Die, Connection
      <3> QED  BY <1>1, <3>1, PlainQueues DEF SoundConnection
    <2>5. ~Refuse(d) /\ ~Garble(d)
      BY DEF Refuse, Garble, SetupsComplete
    <2> QED  BY <1>4, <2>1, <2>2, <2>3, <2>4, <2>5
  <1>5. CASE Decision \/ Tick
    BY <1>2, <1>5, DecisionKeeps DEF Tick
  <1>6. CASE Close \/ \E d \in Conn : Open(d)
    <2>1. j \in {k, Unopened, Opened}
      BY <1>6 DEF Close, Open
    <2>2. j = k \/ (j.wire = <<>> /\ j.link = "up")
      BY <2>1 DEF Unopened, Opened
    <2> QED  BY <1>1, <1>2, <2>2, PlainQueues DEF SoundConnection
  <1>7. CASE Subscribe
    <2>1. CASE c = opening
      <3>1. k.sub = "none"
        BY <1>7, <2>1 DEF SetupIsNew, Subscribe
      <3>2. j.link = "up" /\ j.wire = k.wire
        BY <1>1, <1>7, <2>1, <3>1 DEF Subscribe, Connection
      <3> QED  BY <1>1, <3>2, PlainQueues DEF SoundConnection
    <2>2. CASE c # opening
      BY <1>2, <1>7, <2>2 DEF Subscribe
    <2> QED  BY <2>1, <2>2
  <1>8. CASE AwaitOther \/ AwaitResponse \/ ReadPayload
    <2>1. /\ j.sub = k.sub /\ j.link = k.link
          /\ \/ j.wire = k.wire
             \/ k.wire # <<>> /\ j.wire = Tail(k.wire)
      <3>1. CASE AwaitOther
        BY <1>1, <3>1 DEF AwaitOther, Connection
      <3>2. CASE AwaitResponse
        BY <1>1, <3>2 DEF AwaitResponse, Connection
      <3>3. CASE ReadPayload
        <4>1. CASE c = session.conn
          <5>1. j = Consumed(c)
            BY <3>3, <4>1 DEF ReadPayload
          <5>2. k.pending \in Seq(Message)
            BY <1>1, ConnectionUpdate
          <5>3. k.pending # <<>> \/ k.wire # <<>>
            BY <1>1, <3>3, <4>1, <5>2 DEF ReadPayload, Unread
          <5> QED  BY <1>1, <5>1, <5>3 DEF Consumed, Connection
        <4>2. CASE c # session.conn
          BY <3>3, <4>2 DEF ReadPayload
        <4> QED  BY <4>1, <4>2
      <3> QED  BY <1>8, <3>1, <3>2, <3>3
    <2>2. PlainWire(j)
      BY <1>1, <2>1, PlainQueues
    <2> QED  BY <1>1, <2>1, <2>2 DEF SoundConnection
  <1> QED
    BY <1>3, <1>4, <1>5, <1>6, <1>7, <1>8 DEF Next, Venue, PollStep, Decision

LEMMA AnswerStays ==
    ASSUME NEW q \in Seq(Message)
    PROVE  /\ q # <<>> /\ Head(q) # Response /\ HasAnswer(q) => HasAnswer(Tail(q))
           /\ \A m \in Message : HasAnswer(q) => HasAnswer(Append(q, m))
           /\ HasAnswer(Append(q, Response))
  <1>1. ASSUME q # <<>>, Head(q) # Response, HasAnswer(q) PROVE HasAnswer(Tail(q))
    <2>1. PICK i \in 1 .. Len(q) : q[i] = Response
      BY <1>1 DEF HasAnswer
    <2>2. i - 1 \in 1 .. Len(Tail(q)) /\ Tail(q)[i - 1] = Response
      BY <1>1, <2>1
    <2> QED  BY <2>2 DEF HasAnswer
  <1>2. ASSUME NEW m \in Message, HasAnswer(q) PROVE HasAnswer(Append(q, m))
    <2>1. PICK i \in 1 .. Len(q) : q[i] = Response
      BY <1>2 DEF HasAnswer
    <2>2. i \in 1 .. Len(Append(q, m)) /\ Append(q, m)[i] = Response
      BY <2>1
    <2> QED  BY <2>2 DEF HasAnswer
  <1>3. HasAnswer(Append(q, Response))
    <2>1. /\ Len(q) + 1 \in 1 .. Len(Append(q, Response))
          /\ Append(q, Response)[Len(q) + 1] = Response
      BY MessageShapes
    <2> QED  BY <2>1 DEF HasAnswer
  <1> QED  BY <1>1, <1>2, <1>3

\* The venue sends the answer when it confirms, and takes nothing back.
LEMMA AnswerOnTheWay ==
    ASSUME SetupsComplete, SessionInv, Venue, NEW c \in Conn,
           connections[c].sub = "confirmed" => HasAnswer(connections[c].wire),
           connections'[c].sub = "confirmed"
    PROVE  HasAnswer(connections'[c].wire)
  <1> USE DEF SessionInv, TypeOK
  <1>1. connections[c] \in Connection /\ connections[c].wire \in Seq(Message)
    BY ConnectionUpdate
  <1>2. CASE connections'[c] = connections[c]
    BY <1>2
  <1>3. CASE Emit
    <2>1. Event(emitted + 1) \in Message
      BY MessageShapes
    <2>2. /\ connections'[c].sub = connections[c].sub
          /\ \/ connections'[c].wire = connections[c].wire
             \/ connections'[c].wire = Append(connections[c].wire, Event(emitted + 1))
      BY <1>1, <1>3 DEF Emit, Connection
    <2> QED  BY <1>1, <2>1, <2>2, AnswerStays
  <1>4. ASSUME NEW d \in Conn,
               Activate(d) \/ Confirm(d) \/ Refuse(d) \/ Break(d) \/ Die(d) \/ Garble(d)
        PROVE  HasAnswer(connections'[c].wire)
    <2>1. CASE c # d
      BY <1>2, <1>4, <2>1 DEF Activate, Confirm, Refuse, Break, Die, Garble
    <2>2. CASE c = d /\ Activate(d)
      BY <1>1, <2>2 DEF Activate, Connection
    <2>3. CASE c = d /\ Confirm(d)
      <3>1. connections'[c].wire = Append(connections[c].wire, Response)
        BY <1>1, <2>3 DEF Confirm, Connection
      <3> QED  BY <1>1, <3>1, AnswerStays
    <2>4. CASE c = d /\ (Break(d) \/ Die(d))
      <3>1. connections'[c].wire = connections[c].wire /\ connections[c].sub = "confirmed"
        BY <1>1, <2>4 DEF Break, Die, Connection
      <3> QED  BY <3>1
    <2>5. ~Refuse(d) /\ ~Garble(d)
      BY DEF Refuse, Garble, SetupsComplete
    <2> QED  BY <1>4, <2>1, <2>2, <2>3, <2>4, <2>5
  <1> QED  BY <1>3, <1>4 DEF Venue

\* With sound connections and an answer under way no set-up fails once its
\* connection is open.
LEMMA NoSetupFails ==
    ASSUME SetupsComplete, SessionInv, StrayInv
    PROVE  ~SubscribeFails /\ ~AwaitFails
  <1>1. ~SubscribeFails
    BY DEF SubscribeFails, SetupsComplete
  <1>2. SUFFICES ASSUME AwaitFails PROVE FALSE
    BY <1>1
  <1>3. pc = "await" /\ opening \in Conn
    BY <1>2 DEF AwaitFails, SessionInv, SetupIsNew, Held
  <1> DEFINE k == connections[opening]
  <1>4. k \in Connection /\ k.wire \in Seq(Message)
    BY <1>3, ConnectionUpdate DEF SessionInv, TypeOK
  <1>5. PlainWire(k) /\ (k.link # "up" => k.sub = "confirmed")
    BY <1>3 DEF StrayInv, SoundConnection
  <1>6. CASE k.wire # <<>>
    <2>1. 1 \in 1 .. Len(k.wire) /\ k.wire[1] = Head(k.wire)
      BY <1>4, <1>6
    <2>2. Head(k.wire)[1] \in {"event", "response"}
      BY <1>5, <2>1 DEF PlainWire
    <2> QED  BY <1>2, <1>6, <2>2 DEF AwaitFails
  <1>7. CASE k.wire = <<>>
    <2>1. k.link # "up"
      BY <1>2, <1>7 DEF AwaitFails, SetupsComplete
    <2>2. HasAnswer(k.wire)
      BY <1>3, <1>5, <2>1 DEF StrayInv
    <2> QED  BY <1>7, <2>2 DEF HasAnswer
  <1> QED  BY <1>6, <1>7

LEMMA StrayStep ==
    ASSUME SetupsComplete, SessionInv, RenewalInv, StrayInv, [Next]_vars
    PROVE  StrayInv'
  <1> USE ConnAssumption DEF SessionInv, TypeOK
  <1>1. \A c \in Conn : SoundConnection(connections'[c])
    BY SoundStep DEF StrayInv, vars
  <1> DEFINE Rest == /\ Held \subseteq {session.conn, opening}
                     /\ pc \notin {"subscribe", "await"} => opening = NoConn
                     /\ purpose # "expiry"
                     /\ pc = "await" /\ connections[opening].sub = "confirmed"
                          => HasAnswer(connections[opening].wire)
  <1>2. Rest
    BY DEF StrayInv
  <1>3. session.conn \in Held => pc \notin {"open", "subscribe", "await"}
    BY <1>2 DEF RenewalInv, ClosedBeforeSetup
  <1> SUFFICES Rest'
    BY <1>1 DEF StrayInv
  <1>4. CASE UNCHANGED vars
    BY <1>2, <1>4 DEF vars, Held, HasAnswer
  <1>5. CASE Venue
    <2>1. UNCHANGED <<session, pc, purpose, opening>> /\ Held' = Held
      BY <1>5, VenueKeeps
    <2>2. pc = "await" => opening \in Conn
      BY DEF SetupIsNew, Held
    <2>3. pc = "await" /\ connections'[opening].sub = "confirmed"
            => HasAnswer(connections'[opening].wire)
      BY <1>2, <1>5, <2>2, AnswerOnTheWay
    <2> QED  BY <1>2, <2>1, <2>3
  <1>6. CASE Tick \/ Decision
    <2>1. connections' = connections /\ session'.conn = session.conn
      BY <1>6, DecisionKeeps DEF Tick, Session
    <2>2. Held' = Held
      BY <2>1 DEF Held
    <2>3. ~PollExpired
      BY DEF PollExpired, Expired, RenewalInv
    <2>4. /\ opening' \in {opening, NoConn} /\ purpose' # "expiry"
          /\ pc' \notin {"subscribe", "await"}
          /\ pc \notin {"subscribe", "await"} \/ opening' = NoConn
      BY <1>2, <1>6, <2>3, NoSetupFails
      DEF Tick, Decision, PollUnstarted, PollTolerant, PollOverdue, PollHealthy,
          Rollover, NoRollover, OpenFails, ReadTimeout, ReadFails, Fail, Start,
          Return, pollState
    <2>5. opening \in Held => opening' = opening
      <3>1. opening \in Held => pc \in {"subscribe", "await"}
        BY <1>2 DEF Held
      <3>2. pc \in {"subscribe", "await"} => opening' = opening
        BY <1>6, <2>3, NoSetupFails
        DEF Tick, Decision, PollUnstarted, PollTolerant, PollOverdue, PollHealthy,
            Rollover, NoRollover, OpenFails, ReadTimeout, ReadFails
      <3> QED  BY <3>1, <3>2
    <2> QED  BY <1>2, <2>1, <2>2, <2>4, <2>5
  <1>7. CASE Close
    <2>1. UNCHANGED <<session, purpose, opening>> /\ pc' = "open" /\ pc = "close"
      BY <1>7 DEF Close
    <2>2. Held' \subseteq Held
      BY <1>7 DEF Close, Unopened, Held
    <2> QED  BY <1>2, <2>1, <2>2
  <1>8. ASSUME NEW c \in Conn, Open(c) PROVE Rest'
    <2>1. /\ UNCHANGED <<session, purpose>> /\ pc' = "subscribe" /\ pc = "open"
          /\ opening' = c
      BY <1>8 DEF Open
    <2>2. Held' \subseteq Held \cup {c}
      BY <1>8 DEF Open, Held
    <2>3. opening = NoConn /\ NoConn \notin Held
      BY <1>2, <2>1 DEF Held
    <2> QED  BY <1>2, <2>1, <2>2, <2>3
  <1>9. CASE Subscribe
    <2>1. /\ UNCHANGED <<session, purpose, opening>> /\ pc' = "await"
          /\ opening \in Conn
      BY <1>9 DEF Subscribe, SetupIsNew, Held
    <2>2. connections'[opening].sub = "asked"
      BY <1>9, <2>1 DEF Subscribe, Connection
    <2>3. Held' \subseteq Held
      BY <1>9 DEF Subscribe, Held, Connection
    <2> QED  BY <1>2, <2>1, <2>2, <2>3
  <1>10. CASE AwaitOther
    <2>1. /\ UNCHANGED <<session, purpose, opening, pc>> /\ pc = "await"
          /\ opening \in Conn
      BY <1>10 DEF AwaitOther, SetupIsNew, Held, local, pollState
    <2>2. /\ connections[opening] \in Connection
          /\ connections[opening].wire \in Seq(Message)
          /\ connections[opening].wire # <<>>
          /\ Head(connections[opening].wire) # Response
          /\ connections'[opening].wire = Tail(connections[opening].wire)
          /\ connections'[opening].sub = connections[opening].sub
      BY <1>10, <2>1, ConnectionUpdate DEF AwaitOther, Connection, Response
    <2>3. Held' \subseteq Held
      BY <1>10 DEF AwaitOther, Held, Connection
    <2> QED  BY <1>2, <2>1, <2>2, <2>3, AnswerStays
  <1>11. CASE AwaitResponse
    <2>1. /\ session'.conn = opening /\ purpose' = "none" /\ opening' = NoConn
          /\ pc' \notin {"subscribe", "await"} /\ pc = "await"
      BY <1>11 DEF AwaitResponse, Established, Return
    <2>2. Held' \subseteq Held
      BY <1>11 DEF AwaitResponse, Held, Connection
    <2> QED  BY <1>2, <1>3, <2>1, <2>2
  <1>12. CASE ReadPayload
    <2>1. /\ session'.conn = session.conn /\ purpose' = "none"
          /\ opening' = NoConn /\ pc' = "idle" /\ opening = NoConn
          /\ session.conn \in Conn
      BY <1>2, <1>12 DEF ReadPayload, Return, Session, Held
    <2>2. Held' \subseteq Held
      <3>1. Consumed(session.conn).held = connections[session.conn].held
        BY <2>1 DEF Consumed, Connection
      <3> QED  BY <1>12, <2>1, <3>1 DEF ReadPayload, Held
    <2> QED  BY <1>2, <2>1, <2>2
  <1> QED
    BY <1>4, <1>5, <1>6, <1>7, <1>8, <1>9, <1>10, <1>11, <1>12
    DEF Next, PollStep, Decision

\* As long as no set-up fails between handshake and answer, the transport
\* holds no connection but the session's and the one being set up: every
\* reconnect, renewal and replacement closes the old connection first, and the
\* one path that does not, the bootstrap of an expired session, is never taken.
THEOREM NothingIsLeftBehind ==
    LeadAssumption /\ SetupsComplete => (Spec => []NoStrayConnection)
  <1> SUFFICES ASSUME LeadAssumption, SetupsComplete
               PROVE  Spec => []NoStrayConnection
    OBVIOUS
  <1> DEFINE I == SessionInv /\ SilenceInv /\ RenewalInv /\ StrayInv
  <1>1. Init => I
    BY InitSession, InitSilence, InitRenewal, InitStray
  <1>2. I /\ [Next]_vars => I'
    BY SessionInvStep, SilenceStep, RenewalStep, StrayStep DEF SessionInv
  <1>3. I => NoStrayConnection
    BY DEF StrayInv, NoStrayConnection
  <1> QED  BY <1>1, <1>2, <1>3, PTL DEF Spec

-----------------------------------------------------------------------------
(* Payloads come out in order, and none is missing without a reason.       *)

\* How many answers come before position i of a wire: one at most.
AnsweredBefore(w, i) == IF \E j \in 1 .. (i - 1) : w[j] = Response THEN 1 ELSE 0

\* Kept messages p and wire w hold the events after event b, each in its
\* place: a garbled event takes a place, the venue's answer does not.
InPlace(p, w, b) ==
    /\ \A i \in 1 .. Len(p) : p[i][1] = "event" => p[i][2] = b + i
    /\ \A i \in 1 .. Len(w) :
         w[i][1] = "event" => w[i][2] = b + Len(p) + i - AnsweredBefore(w, i)
    /\ \A i, j \in 1 .. Len(w) : w[i] = Response /\ w[j] = Response => i = j

\* The number of the last event they hold.
LastIn(p, w, b) == b + Len(p) + Len(w) - AnsweredBefore(w, Len(w) + 1)

LEMMA AnswersBefore ==
    ASSUME NEW w \in Seq(Message), NEW i \in 1 .. (Len(w) + 1)
    PROVE  /\ AnsweredBefore(w, i) \in {0, 1}
           /\ AnsweredBefore(w, 1) = 0
           /\ ~HasAnswer(w) => AnsweredBefore(w, i) = 0
           /\ HasAnswer(w) => AnsweredBefore(w, Len(w) + 1) = 1
           /\ \A m \in Message : AnsweredBefore(Append(w, m), i) = AnsweredBefore(w, i)
           /\ \A m \in Message : AnsweredBefore(Append(w, m), Len(w) + 2) =
                IF m = Response THEN 1 ELSE AnsweredBefore(w, Len(w) + 1)
  <1>1. /\ AnsweredBefore(w, i) \in {0, 1} /\ AnsweredBefore(w, 1) = 0
        /\ ~HasAnswer(w) => AnsweredBefore(w, i) = 0
        /\ HasAnswer(w) => AnsweredBefore(w, Len(w) + 1) = 1
    BY DEF AnsweredBefore, HasAnswer
  <1>2. ASSUME NEW m \in Message
        PROVE  AnsweredBefore(Append(w, m), i) = AnsweredBefore(w, i)
    <2>1. \A j \in 1 .. (i - 1) : Append(w, m)[j] = w[j]
      OBVIOUS
    <2> QED  BY <2>1 DEF AnsweredBefore
  <1>3. ASSUME NEW m \in Message
        PROVE  AnsweredBefore(Append(w, m), Len(w) + 2) =
                 IF m = Response THEN 1 ELSE AnsweredBefore(w, Len(w) + 1)
    <2>1. /\ \A j \in 1 .. Len(w) : Append(w, m)[j] = w[j]
          /\ Append(w, m)[Len(w) + 1] = m
      OBVIOUS
    <2>2. CASE m = Response
      <3>1. Len(w) + 1 \in 1 .. (Len(w) + 2 - 1)
        OBVIOUS
      <3> QED  BY <2>1, <2>2, <3>1 DEF AnsweredBefore
    <2>3. CASE m # Response
      <3>1. (\E j \in 1 .. (Len(w) + 2 - 1) : Append(w, m)[j] = Response)
              <=> (\E j \in 1 .. (Len(w) + 1 - 1) : w[j] = Response)
        BY <2>1, <2>3
      <3> QED  BY <2>3, <3>1 DEF AnsweredBefore
    <2> QED  BY <2>2, <2>3
  <1> QED  BY <1>1, <1>2, <1>3

\* The same for what is left when the first message is taken off the wire.
LEMMA AnswersBeforeTail ==
    ASSUME NEW w \in Seq(Message), w # <<>>, NEW i \in 1 .. Len(w)
    PROVE  /\ Head(w) # Response
                => AnsweredBefore(Tail(w), i) = AnsweredBefore(w, i + 1)
           /\ Head(w) = Response => AnsweredBefore(w, i + 1) = 1
  <1>1. Head(w) = w[1] /\ \A j \in 1 .. (i - 1) : Tail(w)[j] = w[j + 1]
    OBVIOUS
  <1>2. ASSUME Head(w) # Response
        PROVE  (\E j \in 1 .. (i - 1) : Tail(w)[j] = Response)
                 <=> (\E j \in 1 .. (i + 1 - 1) : w[j] = Response)
    <2>1. ASSUME NEW j \in 1 .. (i - 1), Tail(w)[j] = Response
          PROVE  j + 1 \in 1 .. (i + 1 - 1) /\ w[j + 1] = Response
      BY <1>1, <2>1
    <2>2. ASSUME NEW j \in 1 .. (i + 1 - 1), w[j] = Response
          PROVE  j - 1 \in 1 .. (i - 1) /\ Tail(w)[j - 1] = Response
      BY <1>1, <1>2, <2>2
    <2> QED  BY <2>1, <2>2
  <1>3. Head(w) = Response => AnsweredBefore(w, i + 1) = 1
    <2>1. 1 \in 1 .. (i + 1 - 1)
      OBVIOUS
    <2> QED  BY <1>1, <2>1 DEF AnsweredBefore
  <1> QED  BY <1>2, <1>3 DEF AnsweredBefore

LEMMA LastIsNumber ==
    ASSUME NEW p \in Seq(Message), NEW w \in Seq(Message), NEW b \in Nat
    PROVE  LastIn(p, w, b) \in Nat
  <1>1. Len(w) + 1 \in 1 .. (Len(w) + 1)
    OBVIOUS
  <1>2. CASE w = <<>>
    <2>1. Len(w) = 0 /\ AnsweredBefore(w, 1) = 0
      BY <1>1, <1>2, AnswersBefore
    <2> QED  BY <2>1 DEF LastIn
  <1>3. CASE w # <<>>
    BY <1>1, <1>3, AnswersBefore DEF LastIn
  <1> QED  BY <1>2, <1>3

\* The venue emits the next event, answers once, or has an event garbled.
LEMMA VenueInPlace ==
    ASSUME NEW p \in Seq(Message), NEW w \in Seq(Message), NEW b \in Nat,
           InPlace(p, w, b)
    PROVE  /\ LET v == Append(w, Event(LastIn(p, w, b) + 1))
              IN InPlace(p, v, b) /\ LastIn(p, v, b) = LastIn(p, w, b) + 1
           /\ ~HasAnswer(w) =>
                LET v == Append(w, Response)
                IN InPlace(p, v, b) /\ LastIn(p, v, b) = LastIn(p, w, b)
           /\ w # <<>> /\ Head(w)[1] = "event" =>
                LET v == <<Garbage>> \o Tail(w)
                IN InPlace(p, v, b) /\ LastIn(p, v, b) = LastIn(p, w, b)
  <1>1. LastIn(p, w, b) \in Nat
    BY LastIsNumber
  <1>2. ASSUME NEW m \in Message,
               \/ m = Event(LastIn(p, w, b) + 1)
               \/ m = Response /\ ~HasAnswer(w)
        PROVE  /\ InPlace(p, Append(w, m), b)
               /\ LastIn(p, Append(w, m), b) =
                    LastIn(p, w, b) + (IF m = Response THEN 0 ELSE 1)
    <2> DEFINE v == Append(w, m)
    <2>1. /\ Len(v) = Len(w) + 1 /\ v[Len(w) + 1] = m
          /\ \A i \in 1 .. Len(w) : v[i] = w[i]
      OBVIOUS
    <2>2. \A i \in 1 .. (Len(w) + 1) : AnsweredBefore(v, i) = AnsweredBefore(w, i)
      BY AnswersBefore
    <2>3. ASSUME NEW i \in 1 .. Len(v), v[i][1] = "event"
          PROVE  v[i][2] = b + Len(p) + i - AnsweredBefore(v, i)
      <3>1. CASE i \in 1 .. Len(w)
        BY <2>1, <2>2, <2>3, <3>1 DEF InPlace
      <3>2. CASE i = Len(w) + 1
        <4>1. m = Event(LastIn(p, w, b) + 1)
          BY <1>2, <2>1, <2>3, <3>2 DEF Response
        <4>2. m[2] = LastIn(p, w, b) + 1
          BY <4>1 DEF Event
        <4>3. AnsweredBefore(v, i) = AnsweredBefore(w, Len(w) + 1)
          BY <2>2, <3>2
        <4>4. AnsweredBefore(w, Len(w) + 1) \in {0, 1}
          BY AnswersBefore
        <4> QED  BY <2>1, <3>2, <4>2, <4>3, <4>4 DEF LastIn
      <3> QED  BY <2>1, <3>1, <3>2
    <2>4. ASSUME NEW i \in 1 .. Len(v), NEW j \in 1 .. Len(v),
                 v[i] = Response, v[j] = Response
          PROVE  i = j
      <3>1. CASE m = Response
        <4>1. \A h \in 1 .. Len(w) : w[h] # Response
          BY <1>2, <3>1 DEF HasAnswer, Event, Response
        <4> QED  BY <2>1, <2>4, <4>1
      <3>2. CASE m # Response
        BY <2>1, <2>4, <3>2 DEF InPlace
      <3> QED  BY <3>1, <3>2
    <2>5. LastIn(p, v, b) = LastIn(p, w, b) + (IF m = Response THEN 0 ELSE 1)
      <3>1. /\ AnsweredBefore(v, Len(w) + 2) =
                 IF m = Response THEN 1 ELSE AnsweredBefore(w, Len(w) + 1)
            /\ AnsweredBefore(w, Len(w) + 1) \in {0, 1}
            /\ ~HasAnswer(w) => AnsweredBefore(w, Len(w) + 1) = 0
        BY AnswersBefore
      <3>2. m = Response => ~HasAnswer(w)
        BY <1>2 DEF Event, Response
      <3> QED  BY <2>1, <3>1, <3>2 DEF LastIn
    <2> QED  BY <2>3, <2>4, <2>5 DEF InPlace
  <1>3. Event(LastIn(p, w, b) + 1) \in Message /\ Event(LastIn(p, w, b) + 1) # Response
    BY <1>1, MessageShapes DEF Event, Response
  <1>4. ASSUME w # <<>>, Head(w)[1] = "event"
        PROVE  LET v == <<Garbage>> \o Tail(w)
               IN InPlace(p, v, b) /\ LastIn(p, v, b) = LastIn(p, w, b)
    <2> DEFINE v == <<Garbage>> \o Tail(w)
    <2>1. /\ Len(v) = Len(w) /\ v[1] = Garbage /\ w[1] = Head(w)
          /\ \A i \in 1 .. Len(w) : i # 1 => v[i] = w[i]
      BY <1>4, MessageShapes
    <2>2. \A i \in 1 .. Len(w) : v[i] = Response <=> w[i] = Response
      BY <1>4, <2>1 DEF Garbage, Response
    <2>3. ASSUME NEW i \in 1 .. (Len(w) + 1)
          PROVE  AnsweredBefore(v, i) = AnsweredBefore(w, i)
      BY <2>2 DEF AnsweredBefore
    <2>4. v[1][1] # "event"
      BY <2>1 DEF Garbage
    <2>5. InPlace(p, v, b)
      BY <2>1, <2>2, <2>3, <2>4 DEF InPlace
    <2> QED  BY <2>1, <2>3, <2>5 DEF LastIn
  <1>5. LET v == Append(w, Event(LastIn(p, w, b) + 1))
        IN InPlace(p, v, b) /\ LastIn(p, v, b) = LastIn(p, w, b) + 1
    BY <1>1, <1>2, <1>3
  <1>6. ~HasAnswer(w) =>
          LET v == Append(w, Response)
          IN InPlace(p, v, b) /\ LastIn(p, v, b) = LastIn(p, w, b)
    BY <1>1, <1>2, MessageShapes
  <1> QED  BY <1>4, <1>5, <1>6

\* A set-up keeps the messages before the answer, then drops the answer.
LEMMA SetupInPlace ==
    ASSUME NEW p \in Seq(Message), NEW w \in Seq(Message), NEW b \in Nat,
           InPlace(p, w, b), w # <<>>
    PROVE  /\ Head(w) # Response =>
                /\ InPlace(Append(p, Head(w)), Tail(w), b)
                /\ LastIn(Append(p, Head(w)), Tail(w), b) = LastIn(p, w, b)
           /\ Head(w) = Response =>
                /\ InPlace(p, Tail(w), b) /\ ~HasAnswer(Tail(w))
                /\ LastIn(p, Tail(w), b) = LastIn(p, w, b)
  <1> DEFINE t == Tail(w)
             q == Append(p, Head(w))
  <1>1. /\ t \in Seq(Message) /\ Len(t) = Len(w) - 1 /\ Head(w) = w[1]
        /\ \A i \in 1 .. Len(t) : t[i] = w[i + 1]
        /\ Len(w) \in 1 .. Len(w) /\ Len(w) + 1 \in 1 .. (Len(w) + 1)
    OBVIOUS
  <1>2. AnsweredBefore(w, 1) = 0
    BY <1>1, AnswersBefore
  <1>3. \A i, j \in 1 .. Len(t) : t[i] = Response /\ t[j] = Response => i = j
    BY <1>1 DEF InPlace
  <1>4. ASSUME Head(w) # Response
        PROVE  InPlace(q, t, b) /\ LastIn(q, t, b) = LastIn(p, w, b)
    <2>1. /\ Len(q) = Len(p) + 1 /\ q[Len(p) + 1] = w[1]
          /\ \A i \in 1 .. Len(p) : q[i] = p[i]
      BY <1>1, QueueShapes
    <2>2. \A i \in 1 .. Len(w) : AnsweredBefore(t, i) = AnsweredBefore(w, i + 1)
      BY <1>4, AnswersBeforeTail
    <2>3. ASSUME NEW i \in 1 .. Len(q), q[i][1] = "event" PROVE q[i][2] = b + i
      <3>1. CASE i \in 1 .. Len(p)
        BY <2>1, <2>3, <3>1 DEF InPlace
      <3>2. CASE i = Len(p) + 1
        <4>1. w[1][1] = "event" => w[1][2] = b + Len(p) + 1 - AnsweredBefore(w, 1)
          BY <1>1 DEF InPlace
        <4> QED  BY <1>2, <2>1, <2>3, <3>2, <4>1
      <3> QED  BY <2>1, <3>1, <3>2
    <2>4. ASSUME NEW i \in 1 .. Len(t), t[i][1] = "event"
          PROVE  t[i][2] = b + Len(q) + i - AnsweredBefore(t, i)
      <3>1. /\ i + 1 \in 1 .. Len(w) /\ i \in 1 .. Len(w)
            /\ i + 1 \in 1 .. (Len(w) + 1)
        BY <1>1
      <3>2. t[i][2] = b + Len(p) + (i + 1) - AnsweredBefore(w, i + 1)
        BY <1>1, <2>4, <3>1 DEF InPlace
      <3>3. /\ AnsweredBefore(w, i + 1) \in {0, 1}
            /\ AnsweredBefore(t, i) = AnsweredBefore(w, i + 1)
        BY <2>2, <3>1, AnswersBefore
      <3>4. Len(q) = Len(p) + 1 /\ Len(p) \in Nat
        BY <2>1
      <3>5. \A n \in Nat, x \in {0, 1} : b + n + (i + 1) - x = b + (n + 1) + i - x
        BY <3>1
      <3> HIDE DEF q, t
      <3> QED  BY <3>2, <3>3, <3>4, <3>5, Zenon
    <2>5. LastIn(q, t, b) = LastIn(p, w, b)
      <3>1. AnsweredBefore(t, Len(w)) = AnsweredBefore(w, Len(w) + 1)
        BY <1>1, <2>2
      <3>2. AnsweredBefore(w, Len(w) + 1) \in {0, 1}
        BY <1>1, AnswersBefore
      <3> QED  BY <1>1, <2>1, <3>1, <3>2 DEF LastIn
    <2> QED  BY <1>3, <2>3, <2>4, <2>5 DEF InPlace
  <1>5. ASSUME Head(w) = Response
        PROVE  /\ InPlace(p, t, b) /\ ~HasAnswer(t)
               /\ LastIn(p, t, b) = LastIn(p, w, b)
    <2>1. ASSUME NEW i \in 1 .. Len(t), t[i] = Response PROVE FALSE
      <3>1. 1 \in 1 .. Len(w) /\ i + 1 \in 1 .. Len(w) /\ i + 1 # 1
        BY <1>1
      <3>2. w[1] = Response /\ w[i + 1] = Response
        BY <1>1, <1>5, <2>1
      <3> QED  BY <3>1, <3>2 DEF InPlace
    <2>2. ~HasAnswer(t)
      BY <2>1 DEF HasAnswer
    <2>3. ASSUME NEW i \in 1 .. Len(t), t[i][1] = "event"
          PROVE  t[i][2] = b + Len(p) + i - AnsweredBefore(t, i)
      <3>1. /\ i + 1 \in 1 .. Len(w) /\ i \in 1 .. Len(w)
            /\ i \in 1 .. (Len(t) + 1)
        BY <1>1
      <3>2. t[i][2] = b + Len(p) + (i + 1) - AnsweredBefore(w, i + 1)
        BY <1>1, <2>3, <3>1 DEF InPlace
      <3>3. AnsweredBefore(w, i + 1) = 1
        BY <1>5, <3>1, AnswersBeforeTail
      <3>4. AnsweredBefore(t, i) = 0
        BY <1>1, <2>2, <3>1, AnswersBefore
      <3> QED  BY <3>2, <3>3, <3>4
    <2>4. LastIn(p, t, b) = LastIn(p, w, b)
      <3>1. AnsweredBefore(w, Len(w) + 1) = 1
        BY <1>1, <1>5, AnswersBeforeTail
      <3>2. Len(w) \in 1 .. (Len(t) + 1)
        BY <1>1
      <3>3. AnsweredBefore(t, Len(w)) = 0
        BY <1>1, <2>2, <3>2, AnswersBefore
      <3> QED  BY <1>1, <3>1, <3>3 DEF LastIn
    <2> QED  BY <1>3, <2>2, <2>3, <2>4 DEF InPlace
  <1> QED  BY <1>4, <1>5

\* A read takes the next event, from the kept messages or off the wire.
LEMMA ReadInPlace ==
    ASSUME NEW p \in Seq(Message), NEW w \in Seq(Message), NEW b \in Nat,
           InPlace(p, w, b), ~HasAnswer(w)
    PROVE  /\ p # <<>> =>
                /\ Head(p)[1] = "event" => Head(p)[2] = b + 1
                /\ InPlace(Tail(p), w, b + 1)
                /\ LastIn(Tail(p), w, b + 1) = LastIn(p, w, b)
           /\ p = <<>> /\ w # <<>> =>
                /\ Head(w)[1] = "event" => Head(w)[2] = b + 1
                /\ InPlace(p, Tail(w), b + 1) /\ ~HasAnswer(Tail(w))
                /\ LastIn(p, Tail(w), b + 1) = LastIn(p, w, b)
  <1>1. \A i \in 1 .. (Len(w) + 1) : AnsweredBefore(w, i) = 0
    BY AnswersBefore
  <1>2. Len(w) + 1 \in 1 .. (Len(w) + 1)
    OBVIOUS
  <1>3. ASSUME p # <<>>
        PROVE  /\ Head(p)[1] = "event" => Head(p)[2] = b + 1
               /\ InPlace(Tail(p), w, b + 1)
               /\ LastIn(Tail(p), w, b + 1) = LastIn(p, w, b)
    <2>1. /\ Len(Tail(p)) = Len(p) - 1 /\ 1 \in 1 .. Len(p) /\ Head(p) = p[1]
          /\ \A i \in 1 .. Len(Tail(p)) : Tail(p)[i] = p[i + 1] /\ i + 1 \in 1 .. Len(p)
      BY <1>3
    <2>2. \A i \in 1 .. Len(w) : AnsweredBefore(w, i) = 0
      BY <1>1
    <2>3. /\ \A i \in 1 .. Len(Tail(p)) :
               Tail(p)[i][1] = "event" => Tail(p)[i][2] = b + 1 + i
          /\ \A i \in 1 .. Len(w) :
               b + 1 + Len(Tail(p)) + i - AnsweredBefore(w, i)
                 = b + Len(p) + i - AnsweredBefore(w, i)
      <3>1. ASSUME NEW i \in 1 .. Len(Tail(p)), Tail(p)[i][1] = "event"
            PROVE  Tail(p)[i][2] = b + 1 + i
        <4>1. p[i + 1][2] = b + (i + 1)
          BY <2>1, <3>1 DEF InPlace
        <4>2. Tail(p)[i] = p[i + 1] /\ i \in Nat
          BY <2>1
        <4>3. b + (i + 1) = b + 1 + i
          BY <4>2
        <4> QED  BY <4>1, <4>2, <4>3, Zenon
      <3>2. ASSUME NEW i \in 1 .. Len(w)
            PROVE  b + 1 + Len(Tail(p)) + i - AnsweredBefore(w, i)
                     = b + Len(p) + i - AnsweredBefore(w, i)
        <4>1. \A n \in Nat, x \in {0} : b + 1 + n + i - x = b + (n + 1) + i - x
          OBVIOUS
        <4>2. Len(Tail(p)) \in Nat /\ Len(Tail(p)) + 1 = Len(p)
          BY <2>1
        <4>3. AnsweredBefore(w, i) \in {0}
          BY <2>2
        <4>4. b + 1 + Len(Tail(p)) + i - AnsweredBefore(w, i)
                = b + (Len(Tail(p)) + 1) + i - AnsweredBefore(w, i)
          BY <4>1, <4>2, <4>3, Zenon
        <4> QED  BY <4>2, <4>4, Zenon
      <3> QED  BY <3>1, <3>2
    <2>4. InPlace(Tail(p), w, b + 1)
      BY <2>3 DEF InPlace
    <2>5. LastIn(Tail(p), w, b + 1) = LastIn(p, w, b)
      <3>1. AnsweredBefore(w, Len(w) + 1) = 0
        BY <1>1, <1>2
      <3>2. Len(Tail(p)) + 1 = Len(p) /\ Len(p) \in Nat /\ Len(Tail(p)) \in Nat
        BY <2>1
      <3>3. \A n, l \in Nat : b + 1 + n + l - 0 = b + (n + 1) + l - 0
        OBVIOUS
      <3>4. Len(w) \in Nat
        OBVIOUS
      <3>5. b + 1 + Len(Tail(p)) + Len(w) - 0 = b + (Len(Tail(p)) + 1) + Len(w) - 0
        BY <3>2, <3>3, <3>4, Zenon
      <3>6. b + 1 + Len(Tail(p)) + Len(w) - 0 = b + Len(p) + Len(w) - 0
        BY <3>2, <3>5, Zenon
      <3> QED  BY <3>1, <3>6, Zenon DEF LastIn
    <2> QED  BY <2>1, <2>4, <2>5 DEF InPlace
  <1>4. ASSUME p = <<>>, w # <<>>
        PROVE  /\ Head(w)[1] = "event" => Head(w)[2] = b + 1
               /\ InPlace(p, Tail(w), b + 1) /\ ~HasAnswer(Tail(w))
               /\ LastIn(p, Tail(w), b + 1) = LastIn(p, w, b)
    <2> DEFINE t == Tail(w)
    <2>1. /\ t \in Seq(Message) /\ Len(t) = Len(w) - 1 /\ 1 \in 1 .. Len(w)
          /\ Head(w) = w[1] /\ Len(p) = 0
          /\ \A i \in 1 .. Len(t) : t[i] = w[i + 1] /\ i + 1 \in 1 .. Len(w)
      BY <1>4
    <2>2. ~HasAnswer(t)
      BY <1>4, AnswerShapes
    <2>3. \A i \in 1 .. (Len(t) + 1) : AnsweredBefore(t, i) = 0
      BY <2>1, <2>2, AnswersBefore
    <2>4. ASSUME NEW i \in 1 .. Len(t), t[i][1] = "event"
          PROVE  t[i][2] = b + 1 + Len(p) + i - AnsweredBefore(t, i)
      <3>1. w[i + 1][2] = b + Len(p) + (i + 1) - AnsweredBefore(w, i + 1)
        BY <2>1, <2>4 DEF InPlace
      <3>2. AnsweredBefore(w, i + 1) = 0 /\ AnsweredBefore(t, i) = 0
        BY <1>1, <2>1, <2>3
      <3> QED  BY <2>1, <3>1, <3>2
    <2>5. InPlace(p, t, b + 1)
      BY <2>1, <2>2, <2>4 DEF InPlace, HasAnswer
    <2>6. LastIn(p, t, b + 1) = LastIn(p, w, b)
      <3>1. Len(t) + 1 \in 1 .. (Len(t) + 1)
        BY <2>1
      <3>2. AnsweredBefore(t, Len(t) + 1) = 0
        BY <2>3, <3>1
      <3> QED  BY <1>1, <1>2, <2>1, <3>2 DEF LastIn
    <2>7. Head(w)[1] = "event" => Head(w)[2] = b + 1
      <3>1. AnsweredBefore(w, 1) = 0 /\ Len(p) = 0
        BY <1>1, <2>1
      <3>2. w[1][1] = "event" => w[1][2] = b + Len(p) + 1 - AnsweredBefore(w, 1)
        BY <2>1 DEF InPlace
      <3> QED  BY <2>1, <3>1, <3>2
    <2> QED  BY <2>2, <2>5, <2>6, <2>7
  <1> QED  BY <1>3, <1>4

\* What is unread at connection c are the events after event b, up to the
\* venue's last one while the wire is up.
Numbered(c, b) ==
    LET p == connections[c].pending
        w == connections[c].wire
    IN /\ InPlace(p, w, b)
       /\ LastIn(p, w, b) <= emitted
       /\ connections[c].link = "up" => LastIn(p, w, b) = emitted

Live(c) == connections[c].sub \in {"active", "confirmed"}

\* The stream the session reads goes on where the last payload left it, or
\* later if the gap says so; the one being set up begins no earlier.
StreamInv ==
    /\ delivered <= emitted
    /\ \A c \in Conn : connections[c].sub = "asked" =>
         connections[c].wire = <<>> /\ connections[c].pending = <<>>
    /\ pc = "subscribe" => connections[opening] = Opened
    /\ pc = "await" /\ Live(opening) =>
         \E b \in Nat : b >= delivered /\ Numbered(opening, b)
    /\ session.conn \in Held =>
         /\ ~HasAnswer(connections[session.conn].wire)
         /\ \E b \in Nat : /\ Numbered(session.conn, b)
                           /\ b >= delivered
                           /\ gap = {} => b = delivered

LEMMA InitStream == Init => StreamInv
    BY ConnAssumption DEF Init, StreamInv, Held, Unopened

\* A step that leaves a connection and the count of events alone.
LEMMA NumberedStays ==
    ASSUME NEW c, NEW b, Numbered(c, b), connections'[c] = connections[c],
           emitted' = emitted
    PROVE  Numbered(c, b)'
    BY DEF Numbered, InPlace, LastIn, AnsweredBefore

\* What the venue does to a stream that is read or awaited.
LEMMA VenueNumbers ==
    ASSUME SessionInv, Venue, NEW c \in Held, NEW b \in Nat, Live(c),
           Numbered(c, b)
    PROVE  Numbered(c, b)'
  <1> USE DEF SessionInv, TypeOK
  <1> DEFINE k == connections[c]
             j == connections'[c]
  <1>1. /\ c \in Conn /\ k \in Connection /\ k.wire \in Seq(Message)
        /\ k.pending \in Seq(Message) /\ InPlace(k.pending, k.wire, b)
        /\ LastIn(k.pending, k.wire, b) <= emitted
        /\ k.link = "up" => LastIn(k.pending, k.wire, b) = emitted
        /\ emitted \in Nat /\ LastIn(k.pending, k.wire, b) \in Nat
    BY ConnectionUpdate, LastIsNumber DEF Held, Numbered
  <1>2. ASSUME j.pending = k.pending,
               InPlace(k.pending, j.wire, b),
               LastIn(k.pending, j.wire, b) <= emitted',
               j.link = "up" => LastIn(k.pending, j.wire, b) = emitted'
        PROVE  Numbered(c, b)'
    <2>1. InPlace(j.pending, j.wire, b) /\ LastIn(j.pending, j.wire, b) <= emitted'
      BY <1>2
    <2>2. j.link = "up" => LastIn(j.pending, j.wire, b) = emitted'
      BY <1>2
    <2> QED  BY <2>1, <2>2 DEF Numbered, InPlace, LastIn, AnsweredBefore
  <1>3. CASE Emit
    <2>1. emitted' = emitted + 1
      BY <1>3 DEF Emit
    <2>2. CASE k.link = "up"
      <3>1. j = [k EXCEPT !.wire = Append(@, Event(emitted + 1))]
        BY <1>1, <1>3, <2>2 DEF Emit, Held, Live
      <3>2. /\ j.pending = k.pending /\ j.link = k.link
            /\ j.wire = Append(k.wire, Event(emitted + 1))
        BY <1>1, <3>1 DEF Connection
      <3>3. /\ InPlace(k.pending, j.wire, b)
            /\ LastIn(k.pending, j.wire, b) = emitted + 1
        BY <1>1, <2>2, <3>2, VenueInPlace
      <3> QED  BY <1>1, <1>2, <2>1, <3>2, <3>3
    <2>3. CASE k.link # "up"
      <3>1. j = k
        BY <1>1, <1>3, <2>3 DEF Emit
      <3> QED  BY <1>1, <1>2, <2>1, <2>3, <3>1
    <2> QED  BY <2>2, <2>3
  <1>4. ASSUME NEW d \in Conn,
               Activate(d) \/ Confirm(d) \/ Refuse(d) \/ Break(d) \/ Die(d) \/ Garble(d)
        PROVE  Numbered(c, b)'
    <2>1. emitted' = emitted
      BY <1>4 DEF Activate, Confirm, Refuse, Break, Die, Garble, venueSide
    <2>2. CASE c # d
      <3>1. j = k
        BY <1>1, <1>4, <2>2 DEF Activate, Confirm, Refuse, Break, Die, Garble
      <3> QED  BY <2>1, <3>1, NumberedStays
    <2>3. ~(c = d /\ (Activate(d) \/ Refuse(d)))
      BY DEF Activate, Refuse, Live
    <2>4. CASE c = d /\ Confirm(d)
      <3>1. /\ j.pending = k.pending /\ j.link = k.link
            /\ j.wire = Append(k.wire, Response)
        BY <1>1, <2>4 DEF Confirm, Connection
      <3>2. ~HasAnswer(k.wire)
        BY <1>1, <2>4 DEF Confirm, AnswersConfirm
      <3>3. /\ InPlace(k.pending, j.wire, b)
            /\ LastIn(k.pending, j.wire, b) = LastIn(k.pending, k.wire, b)
        BY <1>1, <3>1, <3>2, VenueInPlace
      <3> QED  BY <1>1, <1>2, <2>1, <3>1, <3>3
    <2>5. CASE c = d /\ (Break(d) \/ Die(d))
      <3>1. j.pending = k.pending /\ j.wire = k.wire /\ j.link # "up"
        BY <1>1, <2>5 DEF Break, Die, Connection
      <3> QED  BY <1>1, <1>2, <2>1, <3>1
    <2>6. CASE c = d /\ Garble(d)
      <3>1. /\ k.wire # <<>> /\ Head(k.wire)[1] = "event"
            /\ j.pending = k.pending /\ j.link = k.link
            /\ j.wire = <<Garbage>> \o Tail(k.wire)
        BY <1>1, <2>6 DEF Garble, Connection
      <3>2. /\ InPlace(k.pending, j.wire, b)
            /\ LastIn(k.pending, j.wire, b) = LastIn(k.pending, k.wire, b)
        BY <1>1, <3>1, VenueInPlace
      <3> QED  BY <1>1, <1>2, <2>1, <3>1, <3>2
    <2> QED  BY <1>4, <2>2, <2>3, <2>4, <2>5, <2>6
  <1> QED  BY <1>3, <1>4 DEF Venue

\* The venue answers a subscription only once.
LEMMA VenueAnswersOnce ==
    ASSUME SessionInv, Venue, NEW c \in Conn, connections[c].sub = "confirmed",
           ~HasAnswer(connections[c].wire)
    PROVE  ~HasAnswer(connections'[c].wire)
  <1> USE DEF SessionInv, TypeOK
  <1>1. connections[c] \in Connection /\ connections[c].wire \in Seq(Message)
    BY ConnectionUpdate
  <1>2. CASE Emit
    <2>1. Event(emitted + 1) \in Message /\ Event(emitted + 1) # Response
      BY MessageShapes DEF Event, Response
    <2>2. \/ connections'[c].wire = connections[c].wire
          \/ connections'[c].wire = Append(connections[c].wire, Event(emitted + 1))
      BY <1>1, <1>2 DEF Emit, Connection
    <2> QED  BY <1>1, <2>1, <2>2, AnswerShapes
  <1>3. ASSUME NEW d \in Conn,
               Activate(d) \/ Confirm(d) \/ Refuse(d) \/ Break(d) \/ Die(d) \/ Garble(d)
        PROVE  ~HasAnswer(connections'[c].wire)
    <2>1. CASE c # d
      <3>1. connections'[c] = connections[c]
        BY <1>3, <2>1 DEF Activate, Confirm, Refuse, Break, Die, Garble
      <3> QED  BY <3>1
    <2>2. ~(c = d /\ (Activate(d) \/ Confirm(d) \/ Refuse(d)))
      BY DEF Activate, Confirm, Refuse
    <2>3. CASE c = d /\ (Break(d) \/ Die(d))
      <3>1. connections'[c].wire = connections[c].wire
        BY <1>1, <2>3 DEF Break, Die, Connection
      <3> QED  BY <3>1
    <2>4. CASE c = d /\ Garble(d)
      <3>1. /\ connections[c].wire # <<>>
            /\ connections'[c].wire = <<Garbage>> \o Tail(connections[c].wire)
        BY <1>1, <2>4 DEF Garble, Connection
      <3> QED  BY <1>1, <3>1, AnswerShapes
    <2> QED  BY <1>3, <2>1, <2>2, <2>3, <2>4
  <1> QED  BY <1>2, <1>3 DEF Venue

\* A subscription that is only asked for has nothing on its wire.
LEMMA AskedIsEmpty ==
    ASSUME SessionInv, StreamInv, Next, NEW c \in Conn,
           connections'[c].sub = "asked"
    PROVE  connections'[c].wire = <<>> /\ connections'[c].pending = <<>>
  <1> USE DEF SessionInv, TypeOK
  <1>1. /\ connections[c] \in Connection
        /\ connections[c].sub = "asked" =>
             connections[c].wire = <<>> /\ connections[c].pending = <<>>
    BY DEF StreamInv
  <1>2. CASE connections'[c] = connections[c]
    BY <1>1, <1>2
  <1>3. CASE Emit
    <2>1. CASE connections[c].sub = "asked"
      BY <1>2, <1>3, <2>1 DEF Emit
    <2>2. CASE connections[c].sub # "asked"
      BY <1>1, <1>3, <2>2 DEF Emit, Connection
    <2> QED  BY <2>1, <2>2
  <1>4. ASSUME NEW d \in Conn,
               Activate(d) \/ Confirm(d) \/ Refuse(d) \/ Break(d) \/ Die(d) \/ Garble(d)
        PROVE  connections'[c].wire = <<>> /\ connections'[c].pending = <<>>
    <2>1. CASE c # d
      BY <1>2, <1>4, <2>1 DEF Activate, Confirm, Refuse, Break, Die, Garble
    <2>2. ~(c = d /\ (Activate(d) \/ Confirm(d) \/ Refuse(d) \/ Break(d) \/ Die(d)))
      BY <1>1 DEF Activate, Confirm, Refuse, Break, Die, Connection
    <2>3. ~(c = d /\ Garble(d))
      BY <1>1 DEF Garble, Connection
    <2> QED  BY <1>4, <2>1, <2>2, <2>3
  <1>5. CASE Decision \/ Tick
    BY <1>2, <1>5, DecisionKeeps DEF Tick
  <1>6. CASE Close \/ \E d \in Conn : Open(d)
    <2>1. connections'[c] \in {connections[c], Unopened, Opened}
      BY <1>6 DEF Close, Open
    <2> QED  BY <1>2, <2>1 DEF Unopened, Opened
  <1>7. CASE Subscribe
    <2>1. CASE c = opening
      <3>1. connections[opening] = Opened
        BY <1>7 DEF Subscribe, StreamInv
      <3>2. connections'[c] = [Opened EXCEPT !.sub = "asked"]
        BY <1>7, <2>1, <3>1 DEF Subscribe
      <3> QED  BY <3>2 DEF Opened
    <2>2. CASE c # opening
      BY <1>2, <1>7, <2>2 DEF Subscribe
    <2> QED  BY <2>1, <2>2
  <1>8. CASE AwaitOther \/ AwaitResponse
    <2>1. CASE c = opening
      <3>1. connections[c].wire # <<>> /\ connections'[c].sub = connections[c].sub
        BY <1>1, <1>8, <2>1 DEF AwaitOther, AwaitResponse, Connection
      <3> QED  BY <1>1, <3>1
    <2>2. CASE c # opening
      BY <1>2, <1>8, <2>2 DEF AwaitOther, AwaitResponse
    <2> QED  BY <2>1, <2>2
  <1>9. CASE ReadPayload
    <2>1. CASE c = session.conn
      <3>1. connections'[c] = Consumed(c) /\ connections[c].sub = "confirmed"
        BY <1>9, <2>1 DEF ReadPayload, SessionIsConfirmed
      <3>2. connections'[c].sub = "confirmed"
        BY <1>1, <3>1 DEF Consumed, Connection
      <3> QED  BY <3>2
    <2>2. CASE c # session.conn
      BY <1>2, <1>9, <2>2 DEF ReadPayload
    <2> QED  BY <2>1, <2>2
  <1> QED
    BY <1>3, <1>4, <1>5, <1>6, <1>7, <1>8, <1>9
    DEF Next, Venue, PollStep, Decision

LEMMA FirstUnread ==
    ASSUME NEW p \in Seq(Message), NEW w \in Seq(Message), p \o w # <<>>
    PROVE  /\ p # <<>> => Head(p \o w) = Head(p) /\ Len(p) >= 1
           /\ p = <<>> => p \o w = w /\ w # <<>> /\ Len(w) >= 1
           /\ Len(p) \in Nat /\ Len(w) \in Nat
  <1>1. p # <<>> => Len(p) >= 1 /\ Head(p) = p[1]
    OBVIOUS
  <1>2. p # <<>> => (p \o w)[1] = p[1] /\ Head(p \o w) = (p \o w)[1]
    OBVIOUS
  <1>3. p = <<>> => p \o w = w /\ w # <<>>
    OBVIOUS
  <1>4. w # <<>> => Len(w) >= 1
    OBVIOUS
  <1> QED  BY <1>1, <1>2, <1>3, <1>4

\* A read returns the event after the ones the session has passed.
LEMMA ReadNumbers ==
    ASSUME SessionInv, StreamInv, ReadPayload, NEW b \in Nat,
           Numbered(session.conn, b)
    PROVE  /\ delivered' = b + 1 /\ delivered' <= emitted
           /\ Numbered(session.conn, b + 1)'
           /\ ~HasAnswer(connections'[session.conn].wire)
  <1> USE DEF SessionInv, TypeOK
  <1> DEFINE c == session.conn
             p == connections[c].pending
             w == connections[c].wire
             j == connections'[c]
  <1>1. /\ c \in Conn /\ connections[c] \in Connection
        /\ p \in Seq(Message) /\ w \in Seq(Message)
        /\ InPlace(p, w, b) /\ ~HasAnswer(w)
        /\ LastIn(p, w, b) <= emitted /\ LastIn(p, w, b) \in Nat
        /\ connections[c].link = "up" => LastIn(p, w, b) = emitted
        /\ emitted' = emitted /\ emitted \in Nat
    BY ConnectionUpdate, LastIsNumber
    DEF ReadPayload, Held, StreamInv, Numbered, venueSide
  <1>2. /\ j = Consumed(c) /\ p \o w # <<>> /\ Head(p \o w)[1] = "event"
        /\ delivered' = Head(p \o w)[2]
    BY <1>1 DEF ReadPayload, Unread
  <1>3. /\ j.link = connections[c].link
        /\ p # <<>> => /\ Head(p \o w) = Head(p)
                       /\ j.pending = Tail(p) /\ j.wire = w
        /\ p = <<>> => /\ w # <<>> /\ Head(p \o w) = Head(w)
                       /\ j.pending = p /\ j.wire = Tail(w)
    <2>1. CASE p # <<>>
      <3>1. Head(p \o w) = Head(p)
        BY <1>1, <1>2, <2>1, FirstUnread
      <3>2. j = [connections[c] EXCEPT !.pending = Tail(p)]
        BY <1>2, <2>1 DEF Consumed
      <3> QED  BY <1>1, <2>1, <3>1, <3>2 DEF Connection
    <2>2. CASE p = <<>>
      <3>1. p \o w = w /\ w # <<>>
        BY <1>1, <1>2, <2>2, FirstUnread
      <3>2. j = [connections[c] EXCEPT !.wire = Tail(w)]
        BY <1>2, <2>2 DEF Consumed
      <3> QED  BY <1>1, <1>2, <2>2, <3>1, <3>2 DEF Connection
    <2> QED  BY <2>1, <2>2
  <1>4. /\ delivered' = b + 1 /\ ~HasAnswer(j.wire)
        /\ InPlace(j.pending, j.wire, b + 1)
        /\ LastIn(j.pending, j.wire, b + 1) = LastIn(p, w, b)
    <2> DEFINE h == Head(p \o w)
    <2>1. delivered' = h[2] /\ h[1] = "event"
      BY <1>2
    <2>2. /\ p # <<>> => h = Head(p) /\ j.pending = Tail(p) /\ j.wire = w
          /\ p = <<>> => /\ w # <<>> /\ h = Head(w)
                         /\ j.pending = p /\ j.wire = Tail(w)
      BY <1>3
    <2> HIDE DEF p, w, j, h
    <2>3. CASE p # <<>>
      <3>1. /\ Head(p)[1] = "event" => Head(p)[2] = b + 1
            /\ InPlace(Tail(p), w, b + 1)
            /\ LastIn(Tail(p), w, b + 1) = LastIn(p, w, b)
        BY <1>1, <2>3, ReadInPlace
      <3> QED  BY <1>1, <2>3, <2>1, <2>2, <3>1
    <2>4. CASE p = <<>>
      <3>1. /\ Head(w)[1] = "event" => Head(w)[2] = b + 1
            /\ InPlace(p, Tail(w), b + 1) /\ ~HasAnswer(Tail(w))
            /\ LastIn(p, Tail(w), b + 1) = LastIn(p, w, b)
        BY Zenon, <1>1, <2>4, <2>2, ReadInPlace
      <3> QED  BY <1>1, <2>4, <2>1, <2>2, <3>1
    <2> QED  BY <2>3, <2>4
  <1>5. Numbered(c, b + 1)'
    <2>1. c' = c
      BY DEF ReadPayload, Session
    <2>2. /\ LastIn(j.pending, j.wire, b + 1) <= emitted'
          /\ j.link = "up" => LastIn(j.pending, j.wire, b + 1) = emitted'
      BY <1>1, <1>3, <1>4
    <2> QED
      BY Zenon, <1>4, <2>1, <2>2 DEF Numbered, InPlace, LastIn, AnsweredBefore
  <1>6. b + 1 <= emitted
    <2>1. LastIn(p, w, b) >= b + 1
      <3>1. AnsweredBefore(w, Len(w) + 1) = 0
        <4>1. Len(w) + 1 \in 1 .. (Len(w) + 1)
          BY <1>1
        <4> QED  BY <1>1, <4>1, AnswersBefore
      <3>2. Len(p) + Len(w) >= 1 /\ Len(p) \in Nat /\ Len(w) \in Nat
        <4>1. Len(p) \in Nat /\ Len(w) \in Nat /\ (Len(p) >= 1 \/ Len(w) >= 1)
          BY <1>1, <1>2, FirstUnread
        <4> HIDE DEF p, w
        <4> QED  BY <4>1
      <3>3. LastIn(p, w, b) = b + Len(p) + Len(w) - 0
        BY <3>1 DEF LastIn
      <3> HIDE DEF p, w
      <3> QED  BY <3>2, <3>3
    <2> QED  BY <1>1, <2>1
  <1> QED  BY <1>4, <1>5, <1>6

\* Only a payload moves the last event delivered on.
LEMMA OnlyReadsDeliver ==
    Next => ReadPayload \/ (delivered' = delivered /\ (gap' = {} => gap = {}))
  <1> SUFFICES ASSUME Next, ~ReadPayload
               PROVE  delivered' = delivered /\ (gap' = {} => gap = {})
    OBVIOUS
  <1>1. CASE Venue \/ Tick
    BY <1>1 DEF Venue, Emit, Activate, Confirm, Refuse, Break, Die, Garble, Tick,
                local, history
  <1>2. CASE Decision
    BY <1>2
    DEF Decision, PollUnstarted, PollExpired, PollTolerant, PollOverdue,
        PollHealthy, Rollover, NoRollover, OpenFails, SubscribeFails,
        AwaitFails, ReadTimeout, ReadFails, Fail, pollUnchanged
  <1>3. CASE Close \/ (\E c \in Conn : Open(c)) \/ Subscribe \/ AwaitOther
    BY <1>3 DEF Close, Open, Subscribe, AwaitOther, local, history
  <1>4. CASE AwaitResponse
    BY <1>4 DEF AwaitResponse, Replaced
  <1> QED  BY <1>1, <1>2, <1>3, <1>4 DEF Next, PollStep, Decision

\* The session's stream is disturbed by the venue and by reads; a set-up
\* brings a new one, and says so in the gap.
LEMMA SessionStreamStep ==
    ASSUME SessionInv, StreamInv, Next, session'.conn \in Held'
    PROVE  /\ ~HasAnswer(connections'[session'.conn].wire)
           /\ \E b \in Nat : /\ Numbered(session.conn, b)'
                             /\ b >= delivered'
                             /\ gap' = {} => b = delivered'
  <1> USE DEF SessionInv, TypeOK
  <1> DEFINE Stream == /\ ~HasAnswer(connections[session.conn].wire)
                       /\ \E b \in Nat : /\ Numbered(session.conn, b)
                                         /\ b >= delivered
                                         /\ gap = {} => b = delivered
  <1>1. session.conn \in Held => Stream
    BY DEF StreamInv
  <1>2. ASSUME session'.conn = session.conn, session.conn \in Held,
               connections'[session.conn] = connections[session.conn],
               emitted' = emitted, ~ReadPayload
        PROVE  Stream'
    <2>1. PICK b \in Nat : /\ Numbered(session.conn, b)
                           /\ b >= delivered
                           /\ gap = {} => b = delivered
      BY <1>1, <1>2
    <2>2. Numbered(session.conn, b)'
      BY Zenon, <1>2, <2>1 DEF Numbered, InPlace, LastIn, AnsweredBefore
    <2>3. b >= delivered' /\ (gap' = {} => b = delivered')
      BY <1>2, <2>1, OnlyReadsDeliver
    <2>4. ~HasAnswer(connections'[session'.conn].wire)
      BY <1>1, <1>2
    <2> QED  BY <2>2, <2>3, <2>4
  <1>3. CASE Venue
    <2>1. /\ session' = session /\ session.conn \in Held /\ session.conn \in Conn
          /\ connections[session.conn].sub = "confirmed" /\ Live(session.conn)
          /\ UNCHANGED <<delivered, gap>>
      BY Zenon, <1>3, VenueKeeps
      DEF SessionIsConfirmed, Held, Live, Venue, Emit, Activate, Confirm, Refuse,
          Break, Die, Garble, local, history
    <2>2. PICK b \in Nat : /\ Numbered(session.conn, b)
                           /\ b >= delivered
                           /\ gap = {} => b = delivered
      BY <1>1, <2>1
    <2>3. Numbered(session.conn, b)'
      <3>1. \A c \in Held : Live(c) /\ Numbered(c, b) => Numbered(c, b)'
        BY <1>3, VenueNumbers
      <3> DEFINE c == session.conn
      <3>2. Numbered(c, b) /\ Live(c) /\ c \in Held /\ c' = c
        BY <2>1, <2>2
      <3> QED  BY <1>3, <2>1, <3>1, <3>2 DEF Numbered
    <2>4. ~HasAnswer(connections'[session.conn].wire)
      BY <1>1, <1>3, <2>1, VenueAnswersOnce
    <2> QED  BY <2>1, <2>2, <2>3, <2>4
  <1>4. CASE Decision \/ Tick
    <2>1. connections' = connections /\ session'.conn = session.conn
      BY <1>4, DecisionKeeps DEF Tick, Session
    <2>2. emitted' = emitted /\ ~ReadPayload
      BY <1>4
      DEF Decision, PollUnstarted, PollExpired, PollTolerant, PollOverdue,
          PollHealthy, Rollover, NoRollover, OpenFails, SubscribeFails,
          AwaitFails, ReadTimeout, ReadFails, Fail, pollUnchanged, Tick,
          venueSide, ReadPayload, Start, Return
    <2> QED  BY <1>2, <2>1, <2>2 DEF Held
  <1>5. CASE Close
    <2>1. session' = session
      BY <1>5 DEF Close
    <2>2. session.conn \in Conn => ~connections'[session.conn].held
      BY <1>5 DEF Close, Unopened
    <2> QED  BY <2>1, <2>2 DEF Held
  <1>6. ASSUME NEW c \in Conn, Open(c) PROVE Stream'
    <2>1. /\ session' = session /\ c # session.conn /\ emitted' = emitted
          /\ connections' = [connections EXCEPT ![c] = Opened] /\ ~ReadPayload
      BY <1>6 DEF Open, venueSide, ReadPayload
    <2>2. session.conn \in Conn /\ connections'[session.conn] = connections[session.conn]
      BY <2>1 DEF Held
    <2> QED  BY <1>2, <2>1, <2>2 DEF Held
  <1>7. CASE Subscribe \/ AwaitOther
    <2>1. /\ session' = session /\ opening # session.conn /\ emitted' = emitted
          /\ ~ReadPayload
          /\ \A c \in Conn : c # opening => connections'[c] = connections[c]
      BY <1>7 DEF Subscribe, AwaitOther, SetupIsNew, local, venueSide, ReadPayload
    <2> QED  BY <1>2, <2>1 DEF Held
  <1>8. CASE AwaitResponse
    <2> DEFINE w == connections[opening].wire
               p == connections[opening].pending
    <2>1. /\ opening \in Conn /\ connections[opening] \in Connection
          /\ w \in Seq(Message) /\ p \in Seq(Message)
          /\ w # <<>> /\ Head(w) = Response /\ pc = "await"
          /\ session'.conn = opening /\ emitted' = emitted
          /\ delivered' = delivered /\ gap' # {}
      BY <1>8, ConnectionUpdate
      DEF AwaitResponse, SetupIsNew, Held, Established, venueSide, Replaced
    <2>2. Live(opening)
      BY <2>1, AnswerShapes DEF AnswersConfirm, Live
    <2>3. PICK b \in Nat : b >= delivered /\ Numbered(opening, b)
      BY <2>1, <2>2 DEF StreamInv
    <2>4. /\ connections'[opening].wire = Tail(w)
          /\ connections'[opening].pending = p
          /\ connections'[opening].link = connections[opening].link
      BY <1>8, <2>1 DEF AwaitResponse, Connection
    <2>5. /\ InPlace(p, Tail(w), b) /\ ~HasAnswer(Tail(w))
          /\ LastIn(p, Tail(w), b) = LastIn(p, w, b)
      BY <2>1, <2>3, SetupInPlace DEF Numbered
    <2>6. Numbered(session.conn, b)'
      <3> DEFINE j == connections'[opening]
      <3>1. /\ InPlace(j.pending, j.wire, b)
            /\ LastIn(j.pending, j.wire, b) <= emitted'
            /\ j.link = "up" => LastIn(j.pending, j.wire, b) = emitted'
        BY <2>1, <2>3, <2>4, <2>5 DEF Numbered
      <3> QED
        BY <2>1, <3>1 DEF Numbered, InPlace, LastIn, AnsweredBefore
    <2> QED  BY <2>1, <2>3, <2>4, <2>5, <2>6
  <1>9. CASE ReadPayload
    <2>1. session.conn \in Held /\ session'.conn = session.conn /\ gap' = {}
      BY <1>9 DEF ReadPayload, Session
    <2>2. PICK b \in Nat : Numbered(session.conn, b)
      BY <1>1, <2>1
    <2>3. /\ delivered' = b + 1 /\ Numbered(session.conn, b + 1)'
          /\ ~HasAnswer(connections'[session.conn].wire)
      BY <1>9, <2>2, ReadNumbers
    <2> QED  BY <2>1, <2>2, <2>3
  <1> QED
    BY <1>3, <1>4, <1>5, <1>6, <1>7, <1>8, <1>9 DEF Next, PollStep, Decision

\* The stream that is set up begins with the venue's next event, and only the
\* messages before the answer are put aside.
LEMMA SetupStreamStep ==
    ASSUME SessionInv, StreamInv, Next, pc' = "await", Live(opening)'
    PROVE  \E b \in Nat : b >= delivered' /\ Numbered(opening, b)'
  <1> USE DEF SessionInv, TypeOK
  <1>1. CASE Venue
    <2>1. /\ pc = "await" /\ opening' = opening /\ opening \in Held
          /\ opening \in Conn /\ delivered' = delivered
      BY Zenon, <1>1, VenueKeeps
      DEF SetupIsNew, Held, Venue, Emit, Activate, Confirm, Refuse, Break, Die,
          Garble, local, history
    <2>2. CASE Live(opening)
      <3>1. PICK b \in Nat : b >= delivered /\ Numbered(opening, b)
        BY <2>1, <2>2 DEF StreamInv
      <3>2. \A c \in Held : Live(c) /\ Numbered(c, b) => Numbered(c, b)'
        BY <1>1, VenueNumbers
      <3> DEFINE c == opening
      <3>3. Numbered(c, b) /\ Live(c) /\ c \in Held /\ c' = c
        BY <2>1, <2>2, <3>1
      <3>4. Numbered(opening, b)'
        BY <3>2, <3>3 DEF Numbered
      <3> QED  BY <2>1, <3>1, <3>4
    <2>3. CASE ~Live(opening)
      <3> DEFINE k == connections[opening]
                 j == connections'[opening]
      <3>1. Activate(opening)
        <4>1. j.sub \in {"active", "confirmed"} /\ k.sub \notin {"active", "confirmed"}
          BY <2>1, <2>3 DEF Live
        <4>2. ~Emit
          BY <2>1, <4>1 DEF Emit
        <4>3. ASSUME NEW d \in Conn,
                     Confirm(d) \/ Refuse(d) \/ Break(d) \/ Die(d) \/ Garble(d)
                       \/ (Activate(d) /\ d # opening)
              PROVE  FALSE
          BY <2>1, <4>1, <4>3
          DEF Activate, Confirm, Refuse, Break, Die, Garble, Connection
        <4> QED  BY <1>1, <4>2, <4>3 DEF Venue
      <3>2. /\ k.wire = <<>> /\ k.pending = <<>>
            /\ j.wire = <<>> /\ j.pending = <<>> /\ emitted' = emitted
        BY <2>1, <3>1 DEF Activate, StreamInv, Connection, venueSide
      <3>3. InPlace(<<>>, <<>>, emitted) /\ LastIn(<<>>, <<>>, emitted) = emitted
        BY DEF InPlace, LastIn, AnsweredBefore
      <3>4. Numbered(opening, emitted)'
        <4>1. /\ InPlace(j.pending, j.wire, emitted')
              /\ LastIn(j.pending, j.wire, emitted') = emitted'
              /\ emitted' <= emitted'
          BY <3>2, <3>3
        <4> QED
          BY <2>1, <4>1 DEF Numbered, InPlace, LastIn, AnsweredBefore
      <3>5. emitted \in Nat /\ emitted >= delivered
        BY DEF StreamInv
      <3> QED  BY <2>1, <3>2, <3>4, <3>5
    <2> QED  BY <2>2, <2>3
  <1>2. CASE Subscribe
    <2>1. connections'[opening].sub = "asked" /\ opening' = opening
      BY <1>2 DEF Subscribe, SetupIsNew, Held, Connection
    <2> QED  BY <2>1 DEF Live
  <1>3. CASE AwaitOther
    <2> DEFINE w == connections[opening].wire
               p == connections[opening].pending
               j == connections'[opening]
    <2>1. /\ opening \in Conn /\ connections[opening] \in Connection
          /\ w \in Seq(Message) /\ p \in Seq(Message)
          /\ w # <<>> /\ Head(w) # Response /\ pc = "await"
          /\ opening' = opening /\ emitted' = emitted /\ delivered' = delivered
      BY <1>3, ConnectionUpdate
      DEF AwaitOther, SetupIsNew, Held, Response, local, pollState, history, venueSide
    <2>2. /\ j.wire = Tail(w) /\ j.pending = Append(p, Head(w))
          /\ j.link = connections[opening].link /\ j.sub = connections[opening].sub
      BY <1>3, <2>1 DEF AwaitOther, Connection
    <2>3. PICK b \in Nat : b >= delivered /\ Numbered(opening, b)
      BY <2>1, <2>2 DEF StreamInv, Live
    <2>4. /\ InPlace(j.pending, j.wire, b)
          /\ LastIn(j.pending, j.wire, b) = LastIn(p, w, b)
      BY <2>1, <2>2, <2>3, SetupInPlace DEF Numbered
    <2>5. Numbered(opening, b)'
      <3>1. /\ LastIn(j.pending, j.wire, b) <= emitted'
            /\ j.link = "up" => LastIn(j.pending, j.wire, b) = emitted'
        BY <2>1, <2>2, <2>3, <2>4 DEF Numbered
      <3> QED
        BY <2>1, <2>4, <3>1 DEF Numbered, InPlace, LastIn, AnsweredBefore
    <2> QED  BY <2>1, <2>3, <2>5
  <1>4. CASE \/ Tick \/ Decision \/ Close \/ (\E c \in Conn : Open(c))
             \/ AwaitResponse \/ ReadPayload
    BY <1>4
    DEF Decision, PollUnstarted, PollExpired, PollTolerant, PollOverdue,
        PollHealthy, Rollover, NoRollover, OpenFails, SubscribeFails,
        AwaitFails, ReadTimeout, ReadFails, Fail, Start, Return, pollState,
        Tick, Close, Open, AwaitResponse, ReadPayload
  <1> QED  BY <1>1, <1>2, <1>3, <1>4 DEF Next, PollStep, Decision

LEMMA StreamStep ==
    ASSUME SessionInv, StreamInv, [Next]_vars
    PROVE  StreamInv'
  <1>1. CASE UNCHANGED vars
    <2>1. \A c, b : Numbered(c, b) => Numbered(c, b)'
      BY Zenon, <1>1 DEF vars, Numbered, InPlace, LastIn, AnsweredBefore
    <2>2. /\ Held' = Held /\ delivered' = delivered /\ gap' = gap
          /\ session' = session /\ connections' = connections /\ pc' = pc
          /\ opening' = opening /\ emitted' = emitted
      BY <1>1 DEF vars, Held
    <2>3. Live(opening)' <=> Live(opening)
      BY <2>2 DEF Live
    <2>4. \A b : /\ Numbered(session.conn, b) => Numbered(session.conn, b)'
                 /\ Numbered(opening, b) => Numbered(opening, b)'
      BY Zenon, <1>1 DEF vars, Numbered, InPlace, LastIn, AnsweredBefore
    <2> QED  BY <2>2, <2>3, <2>4 DEF StreamInv, HasAnswer
  <1>2. CASE Next
    <2>1. (pc = "subscribe" => connections[opening] = Opened)'
      <3> SUFFICES ASSUME pc' = "subscribe" PROVE connections'[opening'] = Opened
        OBVIOUS
      <3>1. CASE Venue
        <4>1. pc = "subscribe" /\ opening' = opening /\ opening \in Conn
          BY <1>2, <3>1, VenueKeeps DEF SessionInv, SetupIsNew, Held
        <4>2. connections[opening] = Opened
          BY <4>1 DEF StreamInv
        <4>3. connections'[opening] = connections[opening]
          <5>1. /\ connections[opening].sub = "none"
                /\ connections[opening].wire = <<>>
            BY <4>2 DEF Opened
          <5>2. CASE Emit
            BY <4>1, <5>1, <5>2 DEF Emit
          <5>3. ASSUME NEW d \in Conn, \/ Activate(d) \/ Confirm(d) \/ Refuse(d)
                                       \/ Break(d) \/ Die(d) \/ Garble(d)
                PROVE  connections'[opening] = connections[opening]
            <6>1. d # opening
              BY <5>1, <5>3 DEF Activate, Confirm, Refuse, Break, Die, Garble
            <6> QED
              BY <4>1, <5>3, <6>1
              DEF Activate, Confirm, Refuse, Break, Die, Garble, SessionInv, TypeOK
          <5> QED  BY <3>1, <5>2, <5>3 DEF Venue
        <4> QED  BY <4>1, <4>2, <4>3
      <3>2. ASSUME NEW c \in Conn, Open(c)
            PROVE  connections'[opening'] = Opened
        BY <3>2 DEF Open, SessionInv, TypeOK
      <3>3. CASE \/ Tick \/ Decision \/ Close \/ Subscribe \/ AwaitOther
                 \/ AwaitResponse \/ ReadPayload
        BY <3>3
        DEF Decision, PollUnstarted, PollExpired, PollTolerant, PollOverdue,
            PollHealthy, Rollover, NoRollover, OpenFails, SubscribeFails,
            AwaitFails, ReadTimeout, ReadFails, Fail, Start, Return, local,
            pollState, Tick, Close, Subscribe, AwaitOther, AwaitResponse,
            ReadPayload
      <3> QED  BY <1>2, <3>1, <3>2, <3>3 DEF Next, PollStep, Decision
    <2>2. delivered' <= emitted'
      <3>1. CASE ReadPayload
        <4>1. \E b \in Nat : Numbered(session.conn, b)
          BY <3>1 DEF ReadPayload, StreamInv
        <4> QED  BY <3>1, <4>1, ReadNumbers DEF ReadPayload, venueSide
      <3>2. CASE ~ReadPayload
        <4>1. delivered' = delivered /\ delivered <= emitted
          BY <1>2, <3>2, OnlyReadsDeliver DEF StreamInv
        <4>2. emitted' \in {emitted, emitted + 1} /\ emitted \in Nat /\ delivered \in Nat
          BY Zenon, <1>2, <3>2
          DEF Next, Venue, PollStep, Emit, Activate, Confirm, Refuse, Break, Die,
              Garble, Tick, PollUnstarted, PollExpired, PollTolerant, PollOverdue,
              PollHealthy, Rollover, NoRollover, Close, Open, OpenFails,
              Subscribe, SubscribeFails, AwaitOther, AwaitFails, AwaitResponse,
              ReadTimeout, ReadFails, Fail, pollUnchanged, venueSide, SessionInv,
              TypeOK
        <4> QED  BY <4>1, <4>2
      <3> QED  BY <3>1, <3>2
    <2>3. \A c \in Conn : connections'[c].sub = "asked" =>
            connections'[c].wire = <<>> /\ connections'[c].pending = <<>>
      BY <1>2, AskedIsEmpty
    <2>4. (pc = "await" /\ Live(opening))' =>
            \E b \in Nat : b >= delivered' /\ Numbered(opening, b)'
      BY <1>2, SetupStreamStep
    <2>5. session'.conn \in Held' =>
            /\ ~HasAnswer(connections'[session'.conn].wire)
            /\ \E b \in Nat : /\ Numbered(session.conn, b)'
                              /\ b >= delivered'
                              /\ gap' = {} => b = delivered'
      BY <1>2, SessionStreamStep
    <2> QED  BY <2>1, <2>2, <2>3, <2>4, <2>5 DEF StreamInv, HasAnswer
  <1> QED  BY <1>1, <1>2

\* A payload a poll returns is a later event of the venue than the last one, and
\* the next one unless a connection was replaced in between.  The queue of
\* early messages and garbled frames repeat, reorder and skip nothing; closing a
\* connection (close_connection) drops what it held, read into the queue or
\* not, and that is the gap the formula asks for.
THEOREM LossAlwaysExplained == Spec => LossIsExplained
  <1>1. SessionInv /\ StreamInv /\ [Next]_vars =>
          [delivered' # delivered =>
             /\ delivered' > delivered
             /\ delivered' = delivered + 1 \/ gap # {}]_vars
    <2> SUFFICES ASSUME SessionInv, StreamInv, Next, delivered' # delivered
                 PROVE  /\ delivered' > delivered
                        /\ delivered' = delivered + 1 \/ gap # {}
      BY DEF vars
    <2>1. ReadPayload
      BY OnlyReadsDeliver
    <2>2. PICK b \in Nat : /\ Numbered(session.conn, b)
                           /\ b >= delivered
                           /\ gap = {} => b = delivered
      BY <2>1 DEF ReadPayload, StreamInv
    <2>3. delivered' = b + 1
      BY <2>1, <2>2, ReadNumbers
    <2> QED  BY <2>2, <2>3 DEF SessionInv, TypeOK
  <1> QED
    BY <1>1, InitSession, InitStream, SessionInvStep, StreamStep, PTL
    DEF Spec, LossIsExplained
=============================================================================
