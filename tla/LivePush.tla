------------------------------- MODULE LivePush -------------------------------
(***************************************************************************)
(* Live delivery to browsers (src/ws/index.js). Every process that serves  *)
(* HTTP keeps the sockets of its own clients in rooms, one per application *)
(* and user; a broadcast goes to the sender's own rooms and through a      *)
(* Redis channel to the other processes. Workers broadcast without serving *)
(* sockets. The Redis channel is external: it hands each message to each   *)
(* subscriber once, in any order, or loses it.                             *)
(***************************************************************************)
EXTENDS Naturals, Sequences, FiniteSets

CONSTANTS Servers,    \* processes with a WebSocket server attached
          Senders,    \* processes that only broadcast
          Sockets,    \* client connections
          Users,      \* pairs of application and user: the room keys
          Strangers,  \* room keys whose api_key is unknown
          MaxEvents,  \* bound: broadcasts
          MaxBeats    \* bound: rounds of the heartbeat

ASSUME LivePushAssumption == /\ MaxEvents \in Nat
                             /\ MaxBeats \in Nat

Broadcasters == Servers \cup Senders
EventIds == 1..MaxEvents

VARIABLES sock,      \* what each connection is: its server, room, stage, health
          rooms,     \* clients: server -> room key -> registered sockets
          events,    \* events broadcast so far: sender and room key
          channel,   \* messages on their way: [event, to]
          received,  \* what each client received: number of times per event
          beats      \* rounds of the heartbeat so far, all servers together

pushVars == <<sock, rooms, events, channel, received, beats>>

NoSocket == [stage |-> "none", server |-> "none", key |-> "none", alive |-> "unset",
             ponging |-> FALSE]

PushInit ==
    /\ sock = [s \in Sockets |-> NoSocket]
    /\ rooms = [v \in Servers |-> [k \in Users |-> {}]]
    /\ events = << >>
    /\ channel = {}
    /\ received = [s \in Sockets |-> [e \in EventIds |-> 0]]
    /\ beats = 0

-----------------------------------------------------------------------------

\* The upgrade is accepted and the api_key is being looked up.
Connect(s, v, k) ==
    /\ sock[s].stage = "none"
    /\ sock' = [sock EXCEPT ![s] = [NoSocket EXCEPT !.stage = "lookup", !.server = v, !.key = k]]
    /\ UNCHANGED <<rooms, events, channel, received, beats>>

\* A registered socket counts as alive until the next round of the heartbeat.
Joined(r) == [r EXCEPT !.stage = IF @ = "lookup" THEN "open" ELSE "stale",
                           !.alive = "yes"]

\* The lookup answers: an unknown key closes the socket; a known one is entered
\* into its room. Nothing looks whether the socket was closed meanwhile.
Register(s) ==
    LET k == sock[s].key IN
    /\ sock[s].stage \in {"lookup", "leftEarly"}
    /\ IF k \in Users
       THEN /\ rooms' = [rooms EXCEPT ![sock[s].server][k] = @ \cup {s}]
            /\ sock' = [sock EXCEPT ![s] = Joined(@)]
       ELSE /\ sock' = [sock EXCEPT ![s].stage = "closed"]
            /\ UNCHANGED rooms
    /\ UNCHANGED <<events, channel, received, beats>>

\* The close event of a socket: its handler exists only once it is registered.
Closing(s) ==
    CASE sock[s].stage = "lookup" ->
           /\ sock' = [sock EXCEPT ![s].stage = "leftEarly", ![s].ponging = FALSE]
           /\ UNCHANGED rooms
      [] sock[s].stage = "open" ->
           /\ sock' = [sock EXCEPT ![s].stage = "closed", ![s].ponging = FALSE]
           /\ rooms' = [rooms EXCEPT ![sock[s].server][sock[s].key] = @ \ {s}]

\* The client leaves.
Leave(s) ==
    /\ sock[s].stage \in {"lookup", "open"}
    /\ Closing(s)
    /\ UNCHANGED <<events, channel, received, beats>>

\* A ping of a server is answered.
Pong(s) ==
    /\ sock[s].ponging
    /\ sock' = [sock EXCEPT ![s].ponging = FALSE,
                            ![s].alive = IF sock[s].stage = "open" THEN "yes" ELSE @]
    /\ UNCHANGED <<rooms, events, channel, received, beats>>

\* One round of the heartbeat of a server: who did not answer since the last one
\* is terminated, the others are pinged.
Silent(v) == {s \in Sockets : /\ sock[s].server = v
                              /\ sock[s].stage \in {"lookup", "open"}
                              /\ sock[s].alive = "no"}
Pinged(v) == {s \in Sockets : /\ sock[s].server = v
                              /\ sock[s].stage \in {"lookup", "open"}
                              /\ sock[s].alive # "no"}

Heartbeat(v) ==
    /\ beats < MaxBeats
    /\ beats' = beats + 1
    /\ sock' = [s \in Sockets |->
                  IF s \in Silent(v)
                  THEN [sock[s] EXCEPT !.stage = IF @ = "open" THEN "closed" ELSE "leftEarly",
                                       !.ponging = FALSE]
                  ELSE IF s \in Pinged(v)
                       THEN [sock[s] EXCEPT !.alive = "no", !.ponging = TRUE]
                       ELSE sock[s]]
    /\ rooms' = [rooms EXCEPT ![v] = [k \in Users |-> @[k] \ Silent(v)]]
    /\ UNCHANGED <<events, channel, received>>

\* broadcastLocal: the open sockets of the room; the others are passed over.
Receivers(v, k) == {s \in rooms[v][k] : sock[s].stage = "open"}

Deliver(v, e, k) ==
    received' = [s \in Sockets |-> IF s \in Receivers(v, k)
                              THEN [received[s] EXCEPT ![e] = @ + 1] ELSE received[s]]

\* broadcast: to the own rooms when a server is attached, then to the channel.
Broadcast(p, k) ==
    LET e == Len(events) + 1 IN
    /\ e \in EventIds
    /\ events' = Append(events, [origin |-> p, key |-> k])
    /\ channel' = channel \cup {[event |-> e, to |-> v] : v \in Servers}
    /\ IF p \in Servers THEN Deliver(p, e, k) ELSE UNCHANGED received
    /\ UNCHANGED <<sock, rooms, beats>>

IgnoredNever(v, e) == FALSE

\* The channel hands a message to a subscriber, which ignores its own.
Ignored(v, e) == events[e].origin = v

Hear(m) ==
    /\ m \in channel
    /\ channel' = channel \ {m}
    /\ IF Ignored(m.to, m.event)
       THEN UNCHANGED received
       ELSE Deliver(m.to, m.event, events[m.event].key)
    /\ UNCHANGED <<sock, rooms, events, beats>>

\* A subscriber that is not connected never gets the message.
Lose(m) ==
    /\ m \in channel
    /\ channel' = channel \ {m}
    /\ UNCHANGED <<sock, rooms, events, received, beats>>

PushNext ==
    \/ \E s \in Sockets :
          \/ \E v \in Servers, k \in Users \cup Strangers : Connect(s, v, k)
          \/ Register(s)
          \/ Leave(s)
          \/ Pong(s)
    \/ \E v \in Servers : Heartbeat(v)
    \/ \E p \in Broadcasters, k \in Users : Broadcast(p, k)
    \/ \E m \in channel : Hear(m) \/ Lose(m)

PushSpec == PushInit /\ [][PushNext]_pushVars

-----------------------------------------------------------------------------

\* A client gets an event at most once, whichever process sent it and however
\* the channel orders its messages, and only an event of its own room
\* (origin filter and rooms, src/ws/index.js:82, 229-243).
PushedOnceToItsOwner ==
    \A s \in Sockets, e \in EventIds :
        /\ received[s][e] <= 1
        /\ received[s][e] > 0 => events[e].key = sock[s].key

\* A registered client is terminated only over a ping it has not answered: the
\* heartbeat that runs while the api_key is looked up, whose pong nobody hears,
\* is not held against it (src/ws/index.js:152-161, 186, 196).
AnsweringClientsAreKept ==
    \A s \in Sockets : sock[s].stage = "open" /\ sock[s].alive = "no" => sock[s].ponging

\* Every open registered socket is in its room, and only there: no close of one
\* connection takes another one out (src/ws/index.js:173-209).
OpenSocketsAreInTheirRoom ==
    \A s \in Sockets, v \in Servers, k \in Users :
        sock[s].stage = "open" =>
            (s \in rooms[v][k] <=> v = sock[s].server /\ k = sock[s].key)
=============================================================================
