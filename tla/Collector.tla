----------------------------- MODULE Collector ------------------------------
(***************************************************************************)
(* WebSocketCollector (src/collector.ts) over UpbitWsTransport: one        *)
(* connection at a time, reconnected after every close or failed open with *)
(* exponential backoff, and a heartbeat interval while it is open.  Each   *)
(* call of connect() makes a transport; a transport is a slot, free again  *)
(* once its socket has closed.  A socket that stop() closes while its      *)
(* handshake is under way can only fail to open.                           *)
(***************************************************************************)
EXTENDS Naturals, FiniteSets

CONSTANTS
    Slots,               \* transports that may be alive at the same time
    InitialBackoff,      \* initialBackoffMs
    MaxBackoff           \* maxBackoffMs

ASSUME BackoffAssumption ==
    /\ InitialBackoff \in Nat \ {0} /\ MaxBackoff \in Nat
    /\ InitialBackoff <= MaxBackoff

NoTransport == "none"
ASSUME SlotAssumption == NoTransport \notin Slots

VARIABLES
    socket,              \* state of the socket of each transport
    transport,           \* WebSocketCollector.transport
    timers,              \* reconnects scheduled with setTimeout, not yet fired
    heartbeat,           \* whether the ping interval is set
    stopped,             \* WebSocketCollector.stopped
    backoffMs            \* WebSocketCollector.backoffMs

collectorVars == <<socket, transport, timers, heartbeat, stopped, backoffMs>>

\* Before start(): nothing is connected and nothing is scheduled.
CollectorInit ==
    /\ socket = [s \in Slots |-> "free"]
    /\ transport = NoTransport
    /\ timers = 0
    /\ heartbeat = FALSE
    /\ stopped = FALSE
    /\ backoffMs = InitialBackoff

\* connect() up to its await: a new transport becomes the current one.
Connect ==
    \E s \in Slots :
        /\ socket[s] = "free"
        /\ socket' = [socket EXCEPT ![s] = "connecting"]
        /\ transport' = s

ScheduleReconnect ==
    /\ timers' = timers + 1
    /\ backoffMs' = IF 2 * backoffMs < MaxBackoff THEN 2 * backoffMs ELSE MaxBackoff

\* start(), which the program calls once.
Start ==
    /\ transport = NoTransport
    /\ stopped' = FALSE
    /\ Connect
    /\ UNCHANGED <<timers, heartbeat, backoffMs>>

\* A reconnect timer fires.
TimerFires ==
    /\ timers > 0
    /\ timers' = timers - 1
    /\ Connect
    /\ UNCHANGED <<heartbeat, stopped, backoffMs>>

\* The handshake succeeds; connect() subscribes and starts the heartbeat.
Opens(s) ==
    /\ socket[s] = "connecting"
    /\ socket' = [socket EXCEPT ![s] = "open"]
    /\ backoffMs' = InitialBackoff
    /\ heartbeat' = TRUE
    /\ UNCHANGED <<transport, timers, stopped>>

\* The handshake fails: the catch block schedules a reconnect.  The close
\* callback is not installed before the handshake ends, so it is not called.
OpenFails(s) ==
    /\ socket[s] \in {"connecting", "aborting"}
    /\ socket' = [socket EXCEPT ![s] = "free"]
    /\ ScheduleReconnect
    /\ UNCHANGED <<transport, heartbeat, stopped>>

\* Mutant: every close schedules two reconnects.
OnCloseReconnectingTwice(s) ==
    /\ socket[s] \in {"open", "closing"}
    /\ socket' = [socket EXCEPT ![s] = "free"]
    /\ heartbeat' = FALSE
    /\ timers' = timers + 2
    /\ UNCHANGED <<transport, stopped, backoffMs>>

\* onClose(): the server dropped the socket, or the close that stop() asked for.
OnClose(s) ==
    /\ socket[s] \in {"open", "closing"}
    /\ socket' = [socket EXCEPT ![s] = "free"]
    /\ heartbeat' = FALSE
    /\ IF stopped THEN UNCHANGED <<timers, backoffMs>> ELSE ScheduleReconnect
    /\ UNCHANGED <<transport, stopped>>

CloseSocket(state) ==
    CASE state = "connecting" -> "aborting"
      [] state = "open" -> "closing"
      [] OTHER -> state

\* stop(): only the current transport, if any, is closed; no timer is cancelled.
Stop ==
    /\ stopped' = TRUE
    /\ heartbeat' = FALSE
    /\ socket' = [s \in Slots |-> IF s = transport THEN CloseSocket(socket[s]) ELSE socket[s]]
    /\ UNCHANGED <<transport, timers, backoffMs>>

NetworkEvent == \E s \in Slots : Opens(s) \/ OpenFails(s) \/ OnClose(s)

-----------------------------------------------------------------------------
(* Properties. *)

Live == {s \in Slots : socket[s] # "free"}
Streaming == \E s \in Slots : socket[s] = "open"

\* The collector holds on to exactly one lifeline: from start() until stop(),
\* either one socket is alive or one reconnect is scheduled, never both, never
\* two (each message would be stored twice) and never none (it would be dead).
OneLifeline ==
    /\ Cardinality(Live) + timers <= 1
    /\ transport # NoTransport /\ ~stopped => Cardinality(Live) + timers = 1

\* Pings go to a socket that is open, and an open socket the collector has not
\* been told to stop is always pinged (Upbit drops idle connections).
HeartbeatFollowsSocket ==
    /\ heartbeat => socket[transport] = "open"
    /\ ~stopped => \A s \in Slots : socket[s] = "open" => heartbeat

\* The delay stays within its cap, and a connection that succeeded has reset it,
\* so that the first reconnect after it waits the shortest time.
BackoffIsBoundedAndReset ==
    /\ backoffMs <= MaxBackoff
    /\ Streaming => backoffMs = InitialBackoff

\* The collector is in order: one lifeline, pinged while it is open, and a delay
\* that belongs to it, through every sequence of drops, failures and stops.
CollectorInOrder == OneLifeline /\ HeartbeatFollowsSocket /\ BackoffIsBoundedAndReset

\* Until it is stopped the collector always comes back to a streaming connection.
AlwaysReconnects == (transport # NoTransport) ~> (Streaming \/ stopped)
=============================================================================
