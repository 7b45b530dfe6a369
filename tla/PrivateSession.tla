--------------------------- MODULE PrivateSession ---------------------------
(***************************************************************************)
(* The private-stream session of runtime2: how the payload source keeps    *)
(* one subscribed connection alive while it is polled, and what the polls  *)
(* return.                                                                 *)
(*                                                                         *)
(*   app/exchanges/binance/restricted_live_transport.py  poll, watchdog    *)
(*   app/exchanges/binance/private_stream_client.py      session lifecycle *)
(*   app/exchanges/binance/private_transport.py          the connections   *)
(*                                                                         *)
(* One poll runs in one thread; the venue sends, answers and fails at any  *)
(* moment between its steps.  Time passes between polls, in units of the   *)
(* model; a poll reads the clock once, when it starts.  The venue's events *)
(* are numbered in the order it emits them.                                *)
(***************************************************************************)
EXTENDS Integers, Sequences, FiniteSets

CONSTANTS
    Conn,              \* connection ids: bound of the model on connections held at once
    NoConn,            \* no connection
    HeartbeatTimeout,  \* heartbeat_timeout
    Grace,             \* _HEARTBEAT_RECONNECT_GRACE_WINDOW
    Ttl,               \* session_ttl, also what a subscription is granted
    RolloverWindow,    \* rollover_window
    MaxIdle,           \* bound of the model: time between two polls
    MaxEvents,         \* bound of the model: events the venue emits
    Faults             \* what may go wrong in this instance

FaultKinds == {"connect", "throttle", "refuse", "timeout", "break", "die",
               "garble"}

ASSUME ConnAssumption == NoConn \notin Conn
ASSUME TimeAssumption ==
    /\ HeartbeatTimeout \in Nat /\ Grace \in Nat
    /\ Ttl \in Nat /\ RolloverWindow \in Nat
    /\ 0 < RolloverWindow /\ RolloverWindow <= Ttl
ASSUME BoundAssumption == MaxIdle \in Nat \ {0} /\ MaxEvents \in Nat
ASSUME FaultAssumption == Faults \subseteq FaultKinds

VARIABLES
    emitted,      \* how many events the venue has emitted
    connections,  \* the transport's connections and the venue's end of them
    session,      \* _session: connection, age of last_message_at, time to expires_at
    streak,       \* heartbeat_overdue_streak, up to 2 (only "below 2" is asked)
    pc,           \* where the poll stands
    purpose,      \* why the poll is opening a connection
    fallback,     \* the reconnect has failed and a bootstrap is tried instead
    opening,      \* the connection being set up
    idle,         \* time since the last poll
    delivered,    \* number of the last event a poll returned
    outcome,      \* what the last poll returned
    gap           \* why events may be missing since the last payload

venueSide == <<emitted>>
pollState == <<pc, purpose, fallback, opening>>
history == <<delivered, outcome, gap>>
vars == <<emitted, connections, session, streak, pc, purpose, fallback,
          opening, idle, delivered, outcome, gap>>

-----------------------------------------------------------------------------
(* Data.                                                                   *)

Message == {"event", "response", "refusal", "garbage"} \X Nat
Event(n) == <<"event", n>>
Response == <<"response", 0>>
Refusal == <<"refusal", 0>>
Garbage == <<"garbage", 0>>

\* `held`: the id is in _connections; `pending` is _pending_messages of it.
\* `link` and `sub` are the wire and the venue's end.
Links == {"up", "dead", "broken"}
Subscriptions == {"none", "asked", "active", "confirmed"}
Connection ==
    [held : BOOLEAN, link : Links, sub : Subscriptions,
     wire : Seq(Message), pending : Seq(Message)]
Unopened == [held |-> FALSE, link |-> "up", sub |-> "none",
             wire |-> <<>>, pending |-> <<>>]
Opened == [held |-> TRUE, link |-> "up", sub |-> "none",
           wire |-> <<>>, pending |-> <<>>]

\* last_message_at is None.
NoMessage == -1

\* Ages beyond this are not told apart: bound of the model.
AgeCap == HeartbeatTimeout + Grace + 2 * MaxIdle + 1

Session == [conn : Conn \cup {NoConn},
            age : {NoMessage} \cup (0 .. AgeCap),
            remaining : 0 .. Ttl]

Purposes == {"none", "bootstrap", "expiry", "heartbeat", "refresh", "readError"}
Outcomes == {"none", "payload", "nothing", "terminated", "raised"}

Held == {c \in Conn : connections[c].held}

-----------------------------------------------------------------------------
(* The watchdog's view of the session.                                     *)

Expired == session.remaining = 0

Overdue == session.age # NoMessage /\ session.age > HeartbeatTimeout

\* Mutant: a third look is taken before the watchdog acts.
ToleratedThrice == session.age <= HeartbeatTimeout + Grace \/ streak + 1 < 3

\* Too early to reconnect, or the first of the two looks that it takes.
Tolerated == session.age <= HeartbeatTimeout + Grace \/ streak + 1 < 2

\* Mutant: a session is renewed when it has expired.
RolloverDueAtExpiry == session.remaining <= 0

RolloverDue == session.remaining <= Ttl - RolloverWindow

Init ==
    /\ emitted = 0
    /\ connections = [c \in Conn |-> Unopened]
    /\ session = [conn |-> NoConn, age |-> NoMessage, remaining |-> Ttl]
    /\ streak = 0
    /\ pc = "idle" /\ purpose = "none" /\ fallback = FALSE /\ opening = NoConn
    /\ idle = 0
    /\ delivered = 0 /\ outcome = "none" /\ gap = {"startup"}

-----------------------------------------------------------------------------
(* The venue, the wire and the clock.                                      *)

local == <<session, streak, pollState, idle, history>>

\* Every live subscription gets a copy, also one nobody reads any more.
Emit ==
    /\ emitted < MaxEvents
    /\ emitted' = emitted + 1
    /\ connections' =
         [c \in Conn |->
            IF /\ connections[c].held /\ connections[c].link = "up"
               /\ connections[c].sub \in {"active", "confirmed"}
            THEN [connections[c] EXCEPT !.wire = Append(@, Event(emitted + 1))]
            ELSE connections[c]]
    /\ UNCHANGED local

\* The venue takes the subscription up, then says so; events may come first.
Activate(c) ==
    /\ connections[c].held /\ connections[c].link = "up"
    /\ connections[c].sub = "asked"
    /\ connections' = [connections EXCEPT ![c].sub = "active"]
    /\ UNCHANGED <<venueSide, local>>

Confirm(c) ==
    /\ connections[c].held /\ connections[c].link = "up"
    /\ connections[c].sub = "active"
    /\ connections' = [connections EXCEPT ![c].sub = "confirmed",
                                          ![c].wire = Append(@, Response)]
    /\ UNCHANGED <<venueSide, local>>

Refuse(c) ==
    /\ "refuse" \in Faults
    /\ connections[c].held /\ connections[c].link = "up"
    /\ connections[c].sub = "asked"
    /\ connections' = [connections EXCEPT ![c].sub = "none",
                                          ![c].wire = Append(@, Refusal)]
    /\ UNCHANGED <<venueSide, local>>

\* The peer closes the connection, or it goes silent without a word.
\* (During the setup that is a timeout of the response, or a failed send.)
Break(c) ==
    /\ "break" \in Faults
    /\ connections[c].sub = "confirmed" /\ connections[c].link = "up"
    /\ connections' = [connections EXCEPT ![c].link = "broken"]
    /\ UNCHANGED <<venueSide, local>>

Die(c) ==
    /\ "die" \in Faults
    /\ connections[c].sub = "confirmed" /\ connections[c].link = "up"
    /\ connections' = [connections EXCEPT ![c].link = "dead"]
    /\ UNCHANGED <<venueSide, local>>

\* A frame that does not decode to an event.
Garble(c) ==
    /\ "garble" \in Faults
    /\ connections[c].held /\ connections[c].wire # <<>>
    /\ Head(connections[c].wire)[1] = "event"
    /\ connections' = [connections EXCEPT ![c].wire = <<Garbage>> \o Tail(@)]
    /\ UNCHANGED <<venueSide, local>>

Tick ==
    /\ pc = "idle" /\ idle < MaxIdle
    /\ idle' = idle + 1
    /\ session' =
         [session EXCEPT
            !.age = IF @ = NoMessage \/ @ = AgeCap THEN @ ELSE @ + 1,
            !.remaining = IF session.conn = NoConn \/ @ = 0 THEN @ ELSE @ - 1]
    /\ UNCHANGED <<venueSide, connections, streak, pollState, history>>

-----------------------------------------------------------------------------
(* poll_private_payloads.                                                  *)

Return(o) ==
    /\ outcome' = o
    /\ pc' = "idle" /\ purpose' = "none" /\ fallback' = FALSE
    /\ opening' = NoConn

\* Something has to be replaced: the old connection first, or just a new one.
Start(why, first) ==
    /\ pc' = first /\ purpose' = why
    /\ UNCHANGED <<fallback, opening, outcome>>

pollUnchanged == <<venueSide, connections, delivered, gap>>

PollUnstarted ==
    /\ pc = "idle" /\ session.conn = NoConn
    /\ Start("bootstrap", "open") /\ idle' = 0
    /\ UNCHANGED <<pollUnchanged, session, streak>>

\* An expired session is bootstrapped anew; its connection is not closed.
PollExpired ==
    /\ pc = "idle" /\ session.conn # NoConn /\ Expired
    /\ Start("expiry", "open") /\ idle' = 0
    /\ UNCHANGED <<pollUnchanged, session, streak>>

\* The heartbeat is overdue but not acted on: the poll returns unread.
PollTolerant ==
    /\ pc = "idle" /\ session.conn # NoConn /\ ~Expired
    /\ Overdue /\ Tolerated
    /\ streak' = IF streak < 2 THEN streak + 1 ELSE streak
    /\ Return("nothing") /\ idle' = 0
    /\ UNCHANGED <<pollUnchanged, session>>

PollOverdue ==
    /\ pc = "idle" /\ session.conn # NoConn /\ ~Expired
    /\ Overdue /\ ~Tolerated
    /\ streak' = IF streak < 2 THEN streak + 1 ELSE streak
    /\ Start("heartbeat", "close") /\ idle' = 0
    /\ UNCHANGED <<pollUnchanged, session>>

PollHealthy ==
    /\ pc = "idle" /\ session.conn # NoConn /\ ~Expired /\ ~Overdue
    /\ pc' = "rollover" /\ idle' = 0
    /\ UNCHANGED <<pollUnchanged, session, streak, purpose, fallback, opening,
                   outcome>>

\* Mutant: a renewal leaves the old connection open.
RolloverWithoutClosing ==
    /\ pc = "rollover" /\ RolloverDue
    /\ Start("refresh", "open")
    /\ UNCHANGED <<pollUnchanged, session, streak, idle>>

\* check_session_rollover, on whatever session the watchdog has left.
Rollover ==
    /\ pc = "rollover" /\ RolloverDue
    /\ Start("refresh", "close")
    /\ UNCHANGED <<pollUnchanged, session, streak, idle>>

NoRollover ==
    /\ pc = "rollover" /\ ~RolloverDue
    /\ pc' = "read" /\ purpose' = "none" /\ fallback' = FALSE
    /\ UNCHANGED <<pollUnchanged, session, streak, idle, opening, outcome>>

\* close_connection of the session's connection: what it held is dropped.
Close ==
    /\ pc = "close"
    /\ connections' = [connections EXCEPT ![session.conn] = Unopened]
    /\ pc' = "open"
    /\ UNCHANGED <<venueSide, session, streak, purpose, fallback, opening, idle,
                   history>>

\* What becomes of a failed attempt.  A failed renewal is remembered and the
\* poll reads on; a failed reconnect is followed by a bootstrap; a failed
\* bootstrap is an exception the loop does not catch.
Fail ==
    /\ opening' = NoConn
    /\ \/ /\ purpose = "refresh"
          /\ pc' = "read" /\ purpose' = "none"
          /\ UNCHANGED <<fallback, outcome>>
       \/ /\ purpose \in {"heartbeat", "readError"} /\ ~fallback
          /\ pc' = "open" /\ fallback' = TRUE
          /\ UNCHANGED <<purpose, outcome>>
       \/ /\ purpose \in {"bootstrap", "expiry"} \/ fallback
          /\ pc' = "raised" /\ outcome' = "raised"
          /\ UNCHANGED <<purpose, fallback>>
    /\ UNCHANGED <<venueSide, session, streak, idle, delivered, gap>>

\* Connection ids are never used twice: not the one the session still names.
Open(c) ==
    /\ pc = "open" /\ c \notin Held \cup {session.conn}
    /\ connections' = [connections EXCEPT ![c] = Opened]
    /\ opening' = c /\ pc' = "subscribe"
    /\ UNCHANGED <<venueSide, session, streak, purpose, fallback, idle, history>>

OpenFails ==
    /\ pc = "open" /\ "connect" \in Faults
    /\ Fail
    /\ UNCHANGED connections

Subscribe ==
    /\ pc = "subscribe"
    /\ connections' = [connections EXCEPT ![opening].sub = "asked"]
    /\ pc' = "await"
    /\ UNCHANGED <<venueSide, session, streak, purpose, fallback, opening, idle,
                   history>>

\* No request weight is left, or the request cannot be sent.  The new
\* connection stays open.
SubscribeFails ==
    /\ pc = "subscribe"
    /\ "throttle" \in Faults
    /\ Fail
    /\ UNCHANGED connections

\* _await_response keeps what is not the response for later reads.
AwaitOther ==
    /\ pc = "await"
    /\ LET w == connections[opening].wire IN
       /\ w # <<>> /\ Head(w)[1] \in {"event", "garbage"}
       /\ connections' =
            [connections EXCEPT ![opening].wire = Tail(w),
                                ![opening].pending = Append(@, Head(w))]
    /\ UNCHANGED <<venueSide, local>>

AwaitFails ==
    /\ pc = "await"
    /\ LET w == connections[opening].wire IN
       \/ w # <<>> /\ Head(w)[1] \in {"refusal", "garbage"}
       \/ /\ w = <<>>
          /\ "timeout" \in Faults \/ connections[opening].link # "up"
    /\ Fail
    /\ UNCHANGED connections

\* Mutant: the granted lifetime is added to the rollover window.
EstablishedTooLong ==
    [conn |-> opening,
     age |-> IF purpose \in {"bootstrap", "expiry"} \/ fallback THEN NoMessage
             ELSE IF purpose = "refresh" THEN session.age ELSE 0,
     remaining |-> Ttl + RolloverWindow]

\* Mutant: after a failed read the session keeps the old connection id.
EstablishedOnOldId ==
    [conn |-> IF purpose = "readError" THEN session.conn ELSE opening,
     age |-> IF purpose \in {"bootstrap", "expiry"} \/ fallback THEN NoMessage
             ELSE IF purpose = "refresh" THEN session.age ELSE 0,
     remaining |-> Ttl]

\* The session a completed setup yields: a bootstrap starts a new one, a
\* reconnect counts as a message, a renewal only moves the expiry.
Established ==
    [conn |-> opening,
     age |-> IF purpose \in {"bootstrap", "expiry"} \/ fallback THEN NoMessage
             ELSE IF purpose = "refresh" THEN session.age ELSE 0,
     remaining |-> Ttl]

Replaced == IF purpose = "readError" THEN gap \cup {"announced"}
            ELSE gap \cup {purpose}

AwaitResponse ==
    /\ pc = "await"
    /\ connections[opening].wire # <<>>
    /\ Head(connections[opening].wire) = Response
    /\ connections' = [connections EXCEPT ![opening].wire = Tail(@)]
    /\ session' = Established
    /\ streak' = IF purpose = "refresh" THEN streak ELSE 0
    /\ gap' = Replaced
    /\ \/ purpose = "readError" /\ Return("terminated")
       \/ /\ purpose = "refresh"
          /\ pc' = "read" /\ purpose' = "none" /\ opening' = NoConn
          /\ UNCHANGED <<fallback, outcome>>
       \/ /\ purpose \in {"bootstrap", "expiry", "heartbeat"}
          /\ pc' = "rollover" /\ purpose' = "none" /\ opening' = NoConn
          /\ fallback' = FALSE
          /\ UNCHANGED outcome
    /\ UNCHANGED <<venueSide, idle, delivered>>

\* read_payload: the kept messages first, then the wire.
Unread(c) == connections[c].pending \o connections[c].wire

Consumed(c) ==
    IF connections[c].pending # <<>>
    THEN [connections[c] EXCEPT !.pending = Tail(@)]
    ELSE [connections[c] EXCEPT !.wire = Tail(@)]

\* Mutant: the kept messages are read when the wire has nothing.
ReadPayloadWireFirst ==
    /\ pc = "read" /\ session.conn \in Held
    /\ LET c == session.conn
           w == connections[c].wire
           p == connections[c].pending
       IN /\ w \o p # <<>> /\ Head(w \o p)[1] = "event"
          /\ delivered' = Head(w \o p)[2]
          /\ connections' =
               IF w # <<>> THEN [connections EXCEPT ![c].wire = Tail(w)]
               ELSE [connections EXCEPT ![c].pending = Tail(p)]
    /\ session' = [session EXCEPT !.age = 0]
    /\ streak' = 0 /\ gap' = {}
    /\ Return("payload")
    /\ UNCHANGED <<venueSide, idle>>

ReadPayload ==
    /\ pc = "read" /\ session.conn \in Held
    /\ Unread(session.conn) # <<>>
    /\ Head(Unread(session.conn))[1] = "event"
    /\ delivered' = Head(Unread(session.conn))[2]
    /\ connections' = [connections EXCEPT ![session.conn] = Consumed(session.conn)]
    /\ session' = [session EXCEPT !.age = 0]
    /\ streak' = 0 /\ gap' = {}
    /\ Return("payload")
    /\ UNCHANGED <<venueSide, idle>>

ReadTimeout ==
    /\ pc = "read" /\ session.conn \in Held
    /\ Unread(session.conn) = <<>>
    /\ connections[session.conn].link # "broken"
    /\ Return("nothing")
    /\ UNCHANGED <<venueSide, connections, session, streak, idle, delivered, gap>>

\* The id is unknown after a failed renewal, the peer is gone, or the frame
\* is no event: the connection is replaced and the poll says so.
ReadFails ==
    /\ pc = "read"
    /\ \/ session.conn \notin Held
       \/ /\ Unread(session.conn) # <<>>
          /\ Head(Unread(session.conn)) = Garbage
       \/ /\ Unread(session.conn) = <<>>
          /\ connections[session.conn].link = "broken"
    /\ Start("readError", "close")
    /\ streak' = 0
    /\ UNCHANGED <<pollUnchanged, session, idle>>

-----------------------------------------------------------------------------
Venue ==
    \/ Emit
    \/ \E c \in Conn : \/ Activate(c) \/ Confirm(c) \/ Refuse(c)
                       \/ Break(c) \/ Die(c) \/ Garble(c)

PollStep ==
    \/ PollUnstarted \/ PollExpired \/ PollTolerant \/ PollOverdue \/ PollHealthy
    \/ Rollover \/ NoRollover \/ Close
    \/ (\E c \in Conn : Open(c)) \/ OpenFails
    \/ Subscribe \/ SubscribeFails
    \/ AwaitOther \/ AwaitFails \/ AwaitResponse
    \/ ReadPayload \/ ReadTimeout \/ ReadFails

Next == Venue \/ Tick \/ PollStep

Spec == Init /\ [][Next]_vars

-----------------------------------------------------------------------------
(* Properties.                                                             *)

TypeOK ==
    /\ emitted \in Nat
    /\ connections \in [Conn -> Connection]
    /\ session \in Session
    /\ streak \in 0 .. 2
    /\ pc \in {"idle", "rollover", "close", "open", "subscribe", "await",
               "read", "raised"}
    /\ purpose \in Purposes
    /\ fallback \in BOOLEAN
    /\ opening \in Conn \cup {NoConn}
    /\ idle \in 0 .. MaxIdle
    /\ delivered \in Nat
    /\ outcome \in Outcomes
    /\ gap \subseteq {"startup", "announced"} \cup Purposes

\* Whatever fails inside a poll, a poll that returns leaves the session on a
\* connection the transport holds and the venue has confirmed: the loop can
\* never go on polling a stream it does not listen to.
SessionIsSubscribed ==
    pc = "idle" /\ outcome # "none" =>
        /\ session.conn \in Held
        /\ connections[session.conn].sub = "confirmed"

\* Payloads come out once and in the venue's order, also across connections
\* and the queue of early messages; an event may only be missing when a
\* connection was replaced since the last payload, which drops what it held.
LossIsExplained ==
    [][delivered' # delivered =>
          /\ delivered' > delivered
          /\ delivered' = delivered + 1 \/ gap # {}]_vars

\* The watchdog bounds silence: once it has seen a message, a session never
\* keeps a connection that is silent for longer than the timeout, one poll
\* to notice it and, whichever is longer, the grace window or a second poll.
SilenceIsBounded ==
    session.age <= HeartbeatTimeout + MaxIdle
                     + (IF Grace > MaxIdle THEN Grace ELSE MaxIdle)

\* Renewal keeps ahead of expiry although an overdue heartbeat suspends it.
RenewedInTime == session.remaining > 0

\* The transport holds no connection but the session's and the one being set
\* up: a connection left behind would stay subscribed and fill up unread.
NoStrayConnection == Held \subseteq {session.conn, opening}
=============================================================================
