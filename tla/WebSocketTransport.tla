------------------------- MODULE WebSocketTransport -------------------------
(***************************************************************************)
(* WebSocketSyncTransport: one connection at a time, reconnected when it   *)
(* is lost, and requests matched to answers by id.  Everything here runs   *)
(* to completion; what interleaves are the application's calls, the        *)
(* socket's events, the server's messages and four kinds of timers, each   *)
(* of which may fire at any time after it is set.                          *)
(*                                                                         *)
(* The socket is external: a browser WebSocket or the ws package.  Its     *)
(* close() only starts the closing; the close event comes later.  Names of *)
(* Socket are used again once a socket is closed, as garbage would be.     *)
(*                                                                         *)
(* A definition whose comment begins with "Wrong:" is not part of the      *)
(* model: it shows that a property would notice a plausible mistake.       *)
(***************************************************************************)
EXTENDS Naturals

CONSTANTS
  Socket, NoSocket,
  MaxReconnectAttempts,  \* WebSocketTransportOptions; 0 is no limit
  MaxRequests            \* bound: requests in the transport's life

VARIABLES
  connectionState, ws,
  heartbeatIntervalMs,  \* the option, 0 for none; never changes
  heartbeatTimer,   \* "null" or "interval"
  pongTimer,        \* "null" or "timeout"
  reconnectTimer,   \* "null" or "timeout"
  reconnectsArmed,  \* reconnection timeouts that will fire
  reconnectAttempt, intentionalClose, disposed,
  messageIdCounter,
  pending,          \* ids in pendingRequests
  timers,           \* ids whose 30 s timeout will fire
  outcome,          \* how the promise of each request was settled, or "none"
  readyState,       \* of each socket
  attached,         \* sockets whose events reach the transport's handlers
  asked,            \* requests the server has, by the socket they came on
  thrown            \* history: the factory threw at the attempt under way

connectionVars == <<connectionState, ws, intentionalClose, disposed, thrown>>
heartbeatVars  == <<heartbeatIntervalMs, heartbeatTimer, pongTimer>>
reconnectVars  == <<reconnectTimer, reconnectsArmed>>
requestVars    == <<messageIdCounter, pending, timers, outcome, asked>>
socketVars     == <<readyState, attached>>

vars == <<connectionState, ws, intentionalClose, disposed,
          heartbeatIntervalMs, heartbeatTimer, pongTimer, reconnectTimer,
          reconnectsArmed, reconnectAttempt, messageIdCounter, pending, timers,
          outcome, asked, readyState, attached, thrown>>

RequestId == 1 .. MaxRequests

ASSUME TransportConstants ==
  /\ NoSocket \notin Socket
  /\ MaxReconnectAttempts \in Nat /\ MaxRequests \in Nat

TransportInit ==
  /\ connectionState = "DISCONNECTED" /\ ws = NoSocket
  /\ intentionalClose = FALSE /\ disposed = FALSE
  /\ heartbeatIntervalMs \in {0, 1}
  /\ heartbeatTimer = "null" /\ pongTimer = "null"
  /\ reconnectTimer = "null" /\ reconnectsArmed = 0 /\ reconnectAttempt = 0
  /\ messageIdCounter = 0 /\ pending = {} /\ timers = {} /\ asked = {}
  /\ outcome = [id \in RequestId |-> "none"]
  /\ readyState = [s \in Socket |-> "CLOSED"] /\ attached = {}
  /\ thrown = FALSE

-----------------------------------------------------------------------------
(* The socket and the timers, as the transport handles them. *)

FactoryReturns ==
  \E s \in Socket :
    /\ readyState[s] = "CLOSED"
    /\ ws' = s
    /\ readyState' = [readyState EXCEPT ![s] = "CONNECTING"]
    /\ attached' = attached \cup {s}
    /\ UNCHANGED thrown

\* There is no WebSocket here, the URL is not one, or the application's
\* factory fails.  The error goes to the caller of connect(), or to nobody;
\* the state is CONNECTING already.
FactoryThrows ==
  /\ thrown' = TRUE
  /\ UNCHANGED <<ws, socketVars>>

CreateConnection == FactoryReturns \/ FactoryThrows

\* close() is called first and the handlers are taken off at once.
CloseWs ==
  /\ ws' = NoSocket
  /\ readyState' = [s \in Socket |->
       IF s = ws /\ readyState[s] \in {"CONNECTING", "OPEN"}
         THEN "CLOSING" ELSE readyState[s]]
  /\ attached' = attached \ {ws}

\* Wrong: the heartbeat outlives the connection.
KeepHeartbeat ==
  pongTimer' = "null" /\ UNCHANGED <<heartbeatIntervalMs, heartbeatTimer>>

StopHeartbeat ==
  /\ heartbeatTimer' = "null" /\ pongTimer' = "null"
  /\ UNCHANGED heartbeatIntervalMs

StartHeartbeat ==
  /\ heartbeatTimer' = IF heartbeatIntervalMs = 0 THEN "null" ELSE "interval"
  /\ pongTimer' = "null"
  /\ UNCHANGED heartbeatIntervalMs

\* Wrong: the handle is forgotten and the timeout stays.
ForgetReconnectTimer == reconnectTimer' = "null" /\ UNCHANGED reconnectsArmed

ClearReconnectTimer ==
  /\ reconnectTimer' = "null"
  /\ reconnectsArmed' = IF reconnectTimer = "timeout" THEN reconnectsArmed - 1
                                                      ELSE reconnectsArmed

\* Wrong: RECONNECTING is announced before the attempts are counted.
ReconnectAnnounced ==
  /\ connectionState' = "RECONNECTING"
  /\ IF MaxReconnectAttempts > 0 /\ reconnectAttempt >= MaxReconnectAttempts
       THEN UNCHANGED <<reconnectTimer, reconnectsArmed, reconnectAttempt>>
       ELSE /\ reconnectAttempt' = reconnectAttempt + 1
            /\ reconnectTimer' = "timeout"
            /\ reconnectsArmed' = reconnectsArmed + 1

\* Wrong: attempts are not counted.
ReconnectForever ==
  /\ connectionState' = "RECONNECTING"
  /\ reconnectTimer' = "timeout"
  /\ reconnectsArmed' = reconnectsArmed + 1
  /\ UNCHANGED reconnectAttempt

ScheduleReconnect ==
  IF MaxReconnectAttempts > 0 /\ reconnectAttempt >= MaxReconnectAttempts
    THEN /\ connectionState' = "DISCONNECTED"
         /\ UNCHANGED <<reconnectTimer, reconnectsArmed, reconnectAttempt>>
    ELSE /\ connectionState' = "RECONNECTING"
         /\ reconnectAttempt' = reconnectAttempt + 1
         /\ reconnectTimer' = "timeout"
         /\ reconnectsArmed' = reconnectsArmed + 1

\* A promise is settled once: what comes later changes nothing.
Settle(ids, how) ==
  outcome' = [id \in RequestId |->
                IF id \in ids /\ outcome[id] = "none" THEN how ELSE outcome[id]]

\* Wrong: the timeouts of rejected requests are left to fire.
RejectAndForgetTimers(how) ==
  Settle(pending, how) /\ pending' = {} /\ UNCHANGED timers

RejectAllPending(how) ==
  Settle(pending, how) /\ pending' = {} /\ timers' = timers \ pending

Sendable == ws # NoSocket /\ readyState[ws] = "OPEN"

-----------------------------------------------------------------------------
(* The application's calls. *)

\* Wrong: connect() leaves a reconnection scheduled.
ConnectBeside ==
  /\ ~disposed
  /\ connectionState \notin {"CONNECTED", "CONNECTING"}
  /\ intentionalClose' = FALSE
  /\ connectionState' = "CONNECTING"
  /\ CreateConnection
  /\ UNCHANGED <<disposed, heartbeatVars, reconnectVars, reconnectAttempt,
                 requestVars>>

\* A call with a connection there already, or on its way, does no more than
\* clear a timer that is not set; after dispose() it throws.
Connect ==
  /\ ~disposed
  /\ connectionState \notin {"CONNECTED", "CONNECTING"}
  /\ ClearReconnectTimer
  /\ intentionalClose' = FALSE
  /\ connectionState' = "CONNECTING"
  /\ CreateConnection
  /\ UNCHANGED <<disposed, heartbeatVars, reconnectAttempt, requestVars>>

ShutConnection(state) ==
  /\ intentionalClose' = TRUE
  /\ StopHeartbeat
  /\ ClearReconnectTimer
  /\ RejectAllPending("disconnected")
  /\ CloseWs
  /\ connectionState' = state
  /\ thrown' = FALSE
  /\ UNCHANGED <<reconnectAttempt, messageIdCounter, asked>>

\* Also after dispose(), whose state it then replaces.
Disconnect == ShutConnection("DISCONNECTED") /\ UNCHANGED disposed

Dispose == ShutConnection("DISPOSED") /\ disposed' = TRUE

\* Without an open socket the promise is rejected at once.
AwaitAnswer(id) ==
  IF Sendable
    THEN /\ pending' = pending \cup {id} /\ timers' = timers \cup {id}
         /\ asked' = asked \cup {[socket |-> ws, id |-> id]}
         /\ UNCHANGED outcome
    ELSE /\ Settle({id}, "notConnected")
         /\ UNCHANGED <<pending, timers, asked>>

\* negotiateVersion, sendSyncRequest, sendSnapshotRequest.
Request ==
  /\ messageIdCounter < MaxRequests
  /\ messageIdCounter' = messageIdCounter + 1
  /\ AwaitAnswer(messageIdCounter')
  /\ UNCHANGED <<connectionVars, heartbeatVars, reconnectVars,
                 reconnectAttempt, socketVars>>

-----------------------------------------------------------------------------
(* Timers. *)

ReconnectFires ==
  /\ reconnectsArmed > 0
  /\ reconnectTimer' = "null" /\ reconnectsArmed' = reconnectsArmed - 1
  /\ connectionState' = "CONNECTING"
  /\ CreateConnection
  /\ UNCHANGED <<intentionalClose, disposed, heartbeatVars, reconnectAttempt,
                 requestVars>>

\* The PING itself is lost if there is no open socket; its timeout is set.
SendPing ==
  /\ heartbeatTimer = "interval"
  /\ pongTimer' = "timeout"
  /\ UNCHANGED <<connectionVars, heartbeatIntervalMs, heartbeatTimer,
                 reconnectVars, reconnectAttempt, requestVars, socketVars>>

PongTimeout ==
  /\ pongTimer = "timeout"
  /\ pongTimer' = "null"
  /\ CloseWs
  /\ UNCHANGED <<connectionState, intentionalClose, disposed, thrown,
                 heartbeatIntervalMs, heartbeatTimer, reconnectVars,
                 reconnectAttempt, requestVars>>

\* Wrong: the entry is dropped and the promise left alone.
RequestDropped(id) ==
  /\ id \in timers
  /\ timers' = timers \ {id} /\ pending' = pending \ {id}
  /\ UNCHANGED <<messageIdCounter, outcome, asked, connectionVars,
                 heartbeatVars, reconnectVars, reconnectAttempt, socketVars>>

RequestTimeout(id) ==
  /\ id \in timers
  /\ timers' = timers \ {id} /\ pending' = pending \ {id}
  /\ Settle({id}, "timeout")
  /\ UNCHANGED <<messageIdCounter, asked, connectionVars, heartbeatVars,
                 reconnectVars, reconnectAttempt, socketVars>>

-----------------------------------------------------------------------------
(* The socket's events.  A socket that was given up has no handlers left;  *)
(* one that is not open delivers no messages.                              *)

OnOpen ==
  /\ reconnectAttempt' = 0
  /\ connectionState' = "CONNECTED"
  /\ StartHeartbeat

SocketOpens(s) ==
  /\ readyState[s] = "CONNECTING"
  /\ readyState' = [readyState EXCEPT ![s] = "OPEN"]
  /\ IF s \in attached
       THEN OnOpen
       ELSE UNCHANGED <<reconnectAttempt, connectionState, heartbeatVars>>
  /\ UNCHANGED <<ws, intentionalClose, disposed, thrown, reconnectVars,
                 requestVars, attached>>

\* The server, or the network, begins to close.
SocketCloses(s) ==
  /\ readyState[s] = "OPEN"
  /\ readyState' = [readyState EXCEPT ![s] = "CLOSING"]
  /\ UNCHANGED <<connectionVars, heartbeatVars, reconnectVars,
                 reconnectAttempt, requestVars, attached>>

\* What waits for an answer goes on waiting, for its timeout.
OnClose ==
  /\ StopHeartbeat
  /\ ws' = NoSocket
  /\ IF disposed \/ intentionalClose
       THEN /\ connectionState' = IF connectionState = "DISPOSED"
                                    THEN "DISPOSED" ELSE "DISCONNECTED"
            /\ UNCHANGED <<reconnectVars, reconnectAttempt>>
       ELSE ScheduleReconnect

SocketClosed(s) ==
  /\ readyState[s] \in {"CONNECTING", "OPEN", "CLOSING"}
  /\ readyState' = [readyState EXCEPT ![s] = "CLOSED"]
  /\ attached' = attached \ {s}
  /\ asked' = {r \in asked : r.socket # s}
  /\ IF s \in attached
       THEN OnClose
       ELSE UNCHANGED <<ws, connectionState, heartbeatVars, reconnectVars,
                        reconnectAttempt>>
  /\ UNCHANGED <<intentionalClose, disposed, thrown, messageIdCounter, pending,
                 timers, outcome>>

Delivers(s) == s \in attached /\ readyState[s] = "OPEN"

\* An answer to what is no longer pending is ignored; one whose payload is
\* not a response makes the call throw.
Response(r) ==
  /\ r \in asked /\ Delivers(r.socket)
  /\ asked' = asked \ {r}
  /\ IF r.id \in pending
       THEN /\ pending' = pending \ {r.id} /\ timers' = timers \ {r.id}
            /\ \E how \in {"answered", "invalid"} : Settle({r.id}, how)
       ELSE UNCHANGED <<pending, timers, outcome>>
  /\ UNCHANGED <<messageIdCounter, connectionVars, heartbeatVars,
                 reconnectVars, reconnectAttempt, socketVars>>

\* An error about a request that is not pending (it may just have timed out)
\* is taken for one about the connection.
ErrorAbout(r) ==
  /\ r \in asked /\ Delivers(r.socket)
  /\ asked' = asked \ {r}
  /\ IF r.id \in pending
       THEN /\ pending' = pending \ {r.id} /\ timers' = timers \ {r.id}
            /\ Settle({r.id}, "error")
       ELSE RejectAllPending("error")
  /\ UNCHANGED <<messageIdCounter, connectionVars, heartbeatVars,
                 reconnectVars, reconnectAttempt, socketVars>>

ConnectionError(s) ==
  /\ Delivers(s)
  /\ RejectAllPending("error")
  /\ UNCHANGED <<messageIdCounter, asked, connectionVars, heartbeatVars,
                 reconnectVars, reconnectAttempt, socketVars>>

Pong(s) ==
  /\ Delivers(s)
  /\ pongTimer' = "null"
  /\ UNCHANGED <<heartbeatIntervalMs, heartbeatTimer, connectionVars,
                 reconnectVars, reconnectAttempt, requestVars, socketVars>>

-----------------------------------------------------------------------------

SocketStep(s) ==
  SocketOpens(s) \/ SocketCloses(s) \/ SocketClosed(s)
    \/ ConnectionError(s) \/ Pong(s)

TransportNext ==
  \/ Connect \/ Disconnect \/ Dispose \/ Request
  \/ ReconnectFires \/ SendPing \/ PongTimeout
  \/ \E id \in RequestId : RequestTimeout(id)
  \/ \E s \in Socket : SocketStep(s)
  \/ \E r \in asked : Response(r) \/ ErrorAbout(r)

\* A timeout fires and a closing handshake comes to an end, which a WebSocket
\* gives a timeout of its own.  Nothing is assumed of the server or of the
\* application, nor that an attempt to connect ends: the code sets no timeout
\* for one.
Fairness ==
  /\ WF_vars(ReconnectFires) /\ WF_vars(SendPing) /\ WF_vars(PongTimeout)
  /\ \A id \in RequestId : WF_vars(RequestTimeout(id))
  /\ \A s \in Socket : WF_vars(readyState[s] = "CLOSING" /\ SocketClosed(s))

TransportSpec == TransportInit /\ [][TransportNext]_vars
FairTransportSpec == TransportSpec /\ Fairness

-----------------------------------------------------------------------------
(* Properties. *)

\* Every variable has its type; no timeout is cleared that was not set.
TransportTypeOK ==
  /\ connectionState \in {"DISCONNECTED", "CONNECTING", "CONNECTED",
                          "RECONNECTING", "DISPOSED"}
  /\ ws \in Socket \cup {NoSocket}
  /\ heartbeatIntervalMs \in {0, 1} /\ thrown \in BOOLEAN
  /\ heartbeatTimer \in {"null", "interval"}
  /\ pongTimer \in {"null", "timeout"}
  /\ reconnectTimer \in {"null", "timeout"}
  /\ reconnectsArmed \in Nat /\ reconnectAttempt \in Nat
  /\ messageIdCounter \in 0 .. MaxRequests
  /\ pending \subseteq RequestId /\ timers \subseteq RequestId
  /\ readyState \in [Socket -> {"CONNECTING", "OPEN", "CLOSING", "CLOSED"}]
  /\ attached \subseteq Socket
  /\ asked \subseteq [socket : Socket, id : RequestId]

\* No connection is left behind: a socket that is open, or opening, is the
\* transport's own, whatever reconnections, late close events of earlier
\* sockets and calls of connect() came in between.
OneSocket ==
  \A s \in Socket : readyState[s] \in {"CONNECTING", "OPEN"} => s = ws

\* Every request waits for exactly as long as its timeout runs, and its promise
\* is open for exactly as long: none hangs after a disconnect or a server
\* error, and no timeout of an old request is left to fire.
WaitingIsTimed ==
  /\ timers = pending
  /\ \A id \in RequestId :
       (id \in pending) <=> (id <= messageIdCounter /\ outcome[id] = "none")

\* After disconnect() or dispose() nothing is left that could act by itself: no
\* socket, no timer, no waiting request; until connect(), which dispose() bars.
ClosedIsQuiet ==
  /\ disposed => intentionalClose
  /\ intentionalClose =>
       /\ connectionState \in {"DISCONNECTED", "DISPOSED"}
       /\ ws = NoSocket /\ attached = {} /\ pending = {} /\ timers = {}
       /\ reconnectsArmed = 0 /\ heartbeatTimer = "null" /\ pongTimer = "null"

\* What the state promises is under way.  RECONNECTING has a timeout set, one,
\* and its handle is kept; CONNECTING has a socket that is opening and whose
\* events will be heard, unless the factory threw, and then only disconnect()
\* ends it; the heartbeat runs while CONNECTED and at no other time, and only
\* if it is enabled.
StateIsBacked ==
  /\ (connectionState = "RECONNECTING") <=> (reconnectTimer = "timeout")
  /\ reconnectsArmed = (IF reconnectTimer = "timeout" THEN 1 ELSE 0)
  /\ connectionState = "CONNECTING" /\ ~thrown =>
       ws # NoSocket /\ ws \in attached /\ readyState[ws] = "CONNECTING"
  /\ thrown => connectionState = "CONNECTING" /\ ws = NoSocket /\ attached = {}
  /\ (heartbeatTimer = "interval")
       <=> (connectionState = "CONNECTED" /\ heartbeatIntervalMs # 0)

\* Every request comes to an end, without any help from the server.
RequestsSettle ==
  \A id \in RequestId :
    (id <= messageIdCounter /\ outcome[id] = "none") ~> outcome[id] # "none"

\* Every attempt of a socket to connect ends, in a connection or not.  That is
\* the network's to see to and no part of FairTransportSpec.
AttemptsEnd == \A s \in Socket : []<>(readyState[s] # "CONNECTING")

\* With a limit on attempts, connecting ends in a connection or is given up,
\* if each single attempt ends and the factory does not throw.
ConnectingEnds ==
  AttemptsEnd /\ MaxReconnectAttempts > 0 =>
    ((connectionState \in {"CONNECTING", "RECONNECTING"})
       ~> (connectionState \in {"CONNECTED", "DISCONNECTED", "DISPOSED"}
             \/ thrown))

\* The same whatever the factory does: an attempt that fails at once is one
\* that failed.
FactoryErrorsAreRetried ==
  AttemptsEnd /\ MaxReconnectAttempts > 0 =>
    ((connectionState \in {"CONNECTING", "RECONNECTING"})
       ~> (connectionState \in {"CONNECTED", "DISCONNECTED", "DISPOSED"}))

\* A connection that was closed because a PONG did not come is replaced: "onClose
\* will handle reconnection".
StaleIsReplaced ==
  (connectionState = "CONNECTED" /\ ws = NoSocket)
    ~> (connectionState # "CONNECTED")
=============================================================================
