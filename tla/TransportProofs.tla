-------------------------- MODULE TransportProofs --------------------------
(***************************************************************************)
(* Proofs about WebSocketTransport: its type invariant and the four safety *)
(* invariants its run checks, for any number of sockets and requests and   *)
(* any limit on attempts.  The state falls into two parts that steps       *)
(* seldom change together, and each has its own invariant: the connection  *)
(* with its timers (ConnectionInv) and the requests (RequestInv).          *)
(***************************************************************************)
EXTENDS WebSocketTransport, TLAPS

\* The types of the connection's variables.
ConnectionTypes ==
  /\ connectionState \in {"DISCONNECTED", "CONNECTING", "CONNECTED",
                          "RECONNECTING", "DISPOSED"}
  /\ ws \in Socket \cup {NoSocket}
  /\ heartbeatIntervalMs \in {0, 1} /\ thrown \in BOOLEAN
  /\ heartbeatTimer \in {"null", "interval"}
  /\ pongTimer \in {"null", "timeout"}
  /\ reconnectTimer \in {"null", "timeout"}
  /\ reconnectsArmed \in Nat /\ reconnectAttempt \in Nat
  /\ readyState \in [Socket -> {"CONNECTING", "OPEN", "CLOSING", "CLOSED"}]

\* Why no late event can disturb a later connection: the only socket whose
\* events are heard is the current one, and its state agrees with the
\* transport's.
Attachment ==
  /\ attached = (IF ws = NoSocket THEN {} ELSE {ws})
  /\ ws # NoSocket =>
       \/ connectionState = "CONNECTING" /\ readyState[ws] = "CONNECTING"
       \/ connectionState = "CONNECTED" /\ readyState[ws] \in {"OPEN", "CLOSING"}

\* The part of ClosedIsQuiet that is not about requests.
ConnectionClosed ==
  /\ disposed => intentionalClose
  /\ intentionalClose =>
       /\ connectionState \in {"DISCONNECTED", "DISPOSED"}
       /\ ws = NoSocket /\ attached = {}
       /\ reconnectsArmed = 0 /\ heartbeatTimer = "null" /\ pongTimer = "null"

\* A PONG is waited for only while the heartbeat runs.
PongWithHeartbeat == heartbeatTimer = "null" => pongTimer = "null"

ConnectionInv ==
  /\ ConnectionTypes /\ OneSocket /\ StateIsBacked /\ Attachment
  /\ ConnectionClosed /\ PongWithHeartbeat

LEMMA ConnectionStarts == TransportInit => ConnectionInv
<1> SUFFICES ASSUME TransportInit PROVE ConnectionInv
  OBVIOUS
<1> USE TransportConstants DEF TransportInit
<1>1. ConnectionTypes
  BY DEF ConnectionTypes
<1>2. OneSocket
  BY DEF OneSocket
<1>3. StateIsBacked
  BY DEF StateIsBacked
<1>4. Attachment /\ ConnectionClosed /\ PongWithHeartbeat
  BY DEF Attachment, ConnectionClosed, PongWithHeartbeat
<1> QED
  BY <1>1, <1>2, <1>3, <1>4 DEF ConnectionInv

\* Clearing the reconnection timer leaves none that will fire.
LEMMA ClearLeavesNone ==
  ASSUME ConnectionInv, ClearReconnectTimer
  PROVE  reconnectTimer' = "null" /\ reconnectsArmed' = 0
BY DEF ConnectionInv, ConnectionTypes, StateIsBacked, ClearReconnectTimer

\* A new socket where there was none is the only one in use, and a factory
\* that throws leaves none.
LEMMA NewSocket ==
  ASSUME ConnectionInv, CreateConnection, ws = NoSocket, ~thrown
  PROVE  /\ readyState' \in [Socket -> {"CONNECTING", "OPEN", "CLOSING", "CLOSED"}]
         /\ \A s \in Socket : readyState'[s] \in {"CONNECTING", "OPEN"} => s = ws'
         /\ \/ /\ thrown' = FALSE
               /\ ws' \in Socket /\ attached' = {ws'}
               /\ readyState'[ws'] = "CONNECTING"
            \/ thrown' = TRUE /\ ws' = NoSocket /\ attached' = {}
<1>1. attached = {}
  BY DEF ConnectionInv, Attachment
<1>2. \A t \in Socket : readyState[t] \notin {"CONNECTING", "OPEN"}
  BY TransportConstants DEF ConnectionInv, OneSocket
<1>3. CASE FactoryReturns
  <2>1. PICK s \in Socket :
          /\ readyState[s] = "CLOSED"
          /\ ws' = s
          /\ readyState' = [readyState EXCEPT ![s] = "CONNECTING"]
          /\ attached' = attached \cup {s}
          /\ UNCHANGED thrown
    BY <1>3 DEF FactoryReturns
  <2> QED
    BY <1>1, <1>2, <2>1 DEF ConnectionInv, ConnectionTypes
<1>4. CASE FactoryThrows
  BY <1>1, <1>2, <1>4
     DEF FactoryThrows, socketVars, ConnectionInv, ConnectionTypes
<1> QED
  BY <1>3, <1>4 DEF CreateConnection

\* Closing leaves no socket that is in use or heard.
LEMMA ClosedSocket ==
  ASSUME ConnectionInv, CloseWs
  PROVE  /\ ws' = NoSocket /\ attached' = {}
         /\ readyState' \in [Socket -> {"CONNECTING", "OPEN", "CLOSING", "CLOSED"}]
         /\ \A s \in Socket : readyState'[s] \notin {"CONNECTING", "OPEN"}
BY DEF ConnectionInv, ConnectionTypes, OneSocket, Attachment, CloseWs

-----------------------------------------------------------------------------
(* The connection, one action at a time. *)

LEMMA ConnectStep == ASSUME ConnectionInv, Connect PROVE ConnectionInv'
<1>1. ws = NoSocket /\ ~thrown /\ heartbeatTimer = "null" /\ pongTimer = "null"
  BY DEF Connect, ConnectionInv, ConnectionTypes, StateIsBacked, Attachment,
         PongWithHeartbeat
<1>2. reconnectTimer' = "null" /\ reconnectsArmed' = 0
  BY ClearLeavesNone DEF Connect
<1>3. /\ readyState' \in [Socket -> {"CONNECTING", "OPEN", "CLOSING", "CLOSED"}]
      /\ \A s \in Socket : readyState'[s] \in {"CONNECTING", "OPEN"} => s = ws'
      /\ \/ /\ thrown' = FALSE
            /\ ws' \in Socket /\ attached' = {ws'}
            /\ readyState'[ws'] = "CONNECTING"
         \/ thrown' = TRUE /\ ws' = NoSocket /\ attached' = {}
  BY <1>1, NewSocket DEF Connect
<1> USE TransportConstants DEF Connect, heartbeatVars, ConnectionInv
<1>4. ConnectionTypes'
  BY <1>1, <1>2, <1>3 DEF ConnectionTypes
<1>5. OneSocket'
  BY <1>1, <1>2, <1>3 DEF OneSocket
<1>6. StateIsBacked'
  BY <1>1, <1>2, <1>3 DEF StateIsBacked
<1>7. Attachment' /\ ConnectionClosed' /\ PongWithHeartbeat'
  BY <1>1, <1>2, <1>3 DEF Attachment, ConnectionClosed, PongWithHeartbeat
<1> QED
  BY <1>4, <1>5, <1>6, <1>7

LEMMA ShutStep ==
  ASSUME ConnectionInv, NEW state \in {"DISCONNECTED", "DISPOSED"},
         ShutConnection(state)
  PROVE  ConnectionInv'
<1>1. reconnectTimer' = "null" /\ reconnectsArmed' = 0
  BY ClearLeavesNone DEF ShutConnection
<1>2. /\ ws' = NoSocket /\ attached' = {}
      /\ readyState' \in [Socket -> {"CONNECTING", "OPEN", "CLOSING", "CLOSED"}]
      /\ \A s \in Socket : readyState'[s] \notin {"CONNECTING", "OPEN"}
  BY ClosedSocket DEF ShutConnection
<1>3. /\ heartbeatTimer' = "null" /\ pongTimer' = "null" /\ intentionalClose'
      /\ heartbeatIntervalMs' = heartbeatIntervalMs
  BY DEF ShutConnection, StopHeartbeat
<1> QED
  BY <1>1, <1>2, <1>3
     DEF ShutConnection, ConnectionInv, ConnectionTypes, OneSocket,
         StateIsBacked, Attachment, ConnectionClosed, PongWithHeartbeat

LEMMA ReconnectFiresStep ==
  ASSUME ConnectionInv, ReconnectFires PROVE ConnectionInv'
<1>1. /\ connectionState = "RECONNECTING" /\ reconnectsArmed' = 0
      /\ ws = NoSocket /\ heartbeatTimer = "null" /\ pongTimer = "null"
      /\ ~disposed /\ ~intentionalClose /\ ~thrown
  BY DEF ReconnectFires, ConnectionInv, ConnectionTypes, StateIsBacked,
         Attachment, ConnectionClosed, PongWithHeartbeat
<1>2. /\ readyState' \in [Socket -> {"CONNECTING", "OPEN", "CLOSING", "CLOSED"}]
      /\ \A s \in Socket : readyState'[s] \in {"CONNECTING", "OPEN"} => s = ws'
      /\ \/ /\ thrown' = FALSE
            /\ ws' \in Socket /\ attached' = {ws'}
            /\ readyState'[ws'] = "CONNECTING"
         \/ thrown' = TRUE /\ ws' = NoSocket /\ attached' = {}
  BY <1>1, NewSocket DEF ReconnectFires
<1>3. /\ reconnectTimer' = "null" /\ connectionState' = "CONNECTING"
      /\ UNCHANGED <<heartbeatIntervalMs, heartbeatTimer, pongTimer,
                     reconnectAttempt>>
  BY DEF ReconnectFires, heartbeatVars
<1>4. ConnectionTypes'
  <2>1. ws' \in Socket \cup {NoSocket} /\ thrown' \in BOOLEAN
    BY <1>2
  <2> QED
    BY <1>1, <1>2, <1>3, <2>1 DEF ConnectionInv, ConnectionTypes
<1> USE TransportConstants DEF ReconnectFires, heartbeatVars, ConnectionInv
<1>5. OneSocket'
  BY <1>1, <1>2 DEF OneSocket
<1>6. StateIsBacked'
  BY <1>1, <1>2 DEF StateIsBacked
<1>7. Attachment' /\ ConnectionClosed' /\ PongWithHeartbeat'
  BY <1>1, <1>2 DEF Attachment, ConnectionClosed, PongWithHeartbeat
<1> QED
  BY <1>4, <1>5, <1>6, <1>7

LEMMA PongTimeoutStep ==
  ASSUME ConnectionInv, PongTimeout PROVE ConnectionInv'
<1>1. /\ ws' = NoSocket /\ attached' = {}
      /\ readyState' \in [Socket -> {"CONNECTING", "OPEN", "CLOSING", "CLOSED"}]
      /\ \A s \in Socket : readyState'[s] \notin {"CONNECTING", "OPEN"}
  BY ClosedSocket DEF PongTimeout
<1>2. connectionState = "CONNECTED"
  BY DEF PongTimeout, ConnectionInv, ConnectionTypes, StateIsBacked,
         PongWithHeartbeat
<1> QED
  BY <1>1, <1>2
     DEF PongTimeout, reconnectVars, ConnectionInv, ConnectionTypes, OneSocket,
         StateIsBacked, Attachment, ConnectionClosed, PongWithHeartbeat

LEMMA SocketOpensStep ==
  ASSUME ConnectionInv, NEW s \in Socket, SocketOpens(s) PROVE ConnectionInv'
<1>1. s = ws /\ attached = {s} /\ connectionState = "CONNECTING"
  BY TransportConstants
     DEF SocketOpens, ConnectionInv, OneSocket, Attachment
<1>2. /\ reconnectAttempt' = 0 /\ connectionState' = "CONNECTED"
      /\ heartbeatTimer' = IF heartbeatIntervalMs = 0 THEN "null"
                                                      ELSE "interval"
      /\ pongTimer' = "null" /\ heartbeatIntervalMs' = heartbeatIntervalMs
      /\ ~thrown /\ ~thrown'
  BY <1>1, TransportConstants
     DEF SocketOpens, OnOpen, StartHeartbeat, ConnectionInv, StateIsBacked
<1> QED
  BY <1>1, <1>2, TransportConstants
     DEF SocketOpens, reconnectVars, ConnectionInv, ConnectionTypes, OneSocket,
         StateIsBacked, Attachment, ConnectionClosed, PongWithHeartbeat

LEMMA SocketClosesStep ==
  ASSUME ConnectionInv, NEW s \in Socket, SocketCloses(s) PROVE ConnectionInv'
BY TransportConstants
   DEF SocketCloses, connectionVars, heartbeatVars, reconnectVars,
       ConnectionInv, ConnectionTypes, OneSocket, StateIsBacked, Attachment,
       ConnectionClosed, PongWithHeartbeat

\* The close event of the current socket.
LEMMA OnCloseStep ==
  ASSUME ConnectionInv, NEW s \in Socket, SocketClosed(s), s \in attached
  PROVE  ConnectionInv'
<1>1. /\ s = ws /\ attached = {s} /\ ~disposed /\ ~intentionalClose
      /\ connectionState \in {"CONNECTING", "CONNECTED"} /\ ~thrown
  BY TransportConstants
     DEF ConnectionInv, Attachment, ConnectionClosed, StateIsBacked
<1>2. reconnectTimer = "null" /\ reconnectsArmed = 0
  BY <1>1 DEF ConnectionInv, ConnectionTypes, StateIsBacked
<1>3. /\ ws' = NoSocket /\ attached' = {}
      /\ heartbeatTimer' = "null" /\ pongTimer' = "null"
      /\ heartbeatIntervalMs' = heartbeatIntervalMs /\ thrown' = thrown
      /\ ~disposed' /\ ~intentionalClose'
  BY <1>1 DEF SocketClosed, OnClose, StopHeartbeat
<1>4. /\ readyState' \in [Socket -> {"CONNECTING", "OPEN", "CLOSING", "CLOSED"}]
      /\ \A t \in Socket : readyState'[t] \notin {"CONNECTING", "OPEN"}
  BY <1>1 DEF SocketClosed, ConnectionInv, ConnectionTypes, OneSocket
<1>5. ScheduleReconnect
  BY <1>1 DEF SocketClosed, OnClose
<1>6. /\ connectionState' \in {"DISCONNECTED", "RECONNECTING"}
      /\ reconnectTimer' \in {"null", "timeout"}
      /\ connectionState' = "RECONNECTING" <=> reconnectTimer' = "timeout"
      /\ reconnectsArmed' = (IF reconnectTimer' = "timeout" THEN 1 ELSE 0)
      /\ reconnectAttempt' \in Nat
  BY <1>2, <1>5 DEF ScheduleReconnect, ConnectionInv, ConnectionTypes
<1> QED
  BY <1>1, <1>3, <1>4, <1>6
     DEF ConnectionInv, ConnectionTypes, OneSocket, StateIsBacked, Attachment,
         ConnectionClosed, PongWithHeartbeat

LEMMA SocketClosedStep ==
  ASSUME ConnectionInv, NEW s \in Socket, SocketClosed(s) PROVE ConnectionInv'
<1>1. CASE s \in attached
  BY <1>1, OnCloseStep
<1>2. CASE s \notin attached
  <2>1. attached' = attached /\ s # ws /\ thrown' = thrown
    BY <1>2, TransportConstants
       DEF SocketClosed, ConnectionInv, Attachment
  <2> QED
    BY <1>2, <2>1
       DEF SocketClosed, heartbeatVars, reconnectVars, ConnectionInv,
           ConnectionTypes, OneSocket, StateIsBacked, Attachment,
           ConnectionClosed, PongWithHeartbeat
<1> QED
  BY <1>1, <1>2

\* Steps about requests leave the connection alone.
ConnectionUntouched ==
  UNCHANGED <<connectionVars, heartbeatVars, reconnectVars, reconnectAttempt,
              socketVars>>

LEMMA UntouchedStep ==
  ASSUME ConnectionInv, ConnectionUntouched PROVE ConnectionInv'
BY DEF ConnectionUntouched, connectionVars, heartbeatVars, reconnectVars,
       socketVars, ConnectionInv, ConnectionTypes, OneSocket, StateIsBacked,
       Attachment, ConnectionClosed, PongWithHeartbeat

LEMMA ConnectionStep ==
  ASSUME ConnectionInv, [TransportNext]_vars PROVE ConnectionInv'
<1>1. CASE Connect
  BY <1>1, ConnectStep
<1>2. CASE Disconnect
  BY <1>2, ShutStep DEF Disconnect
<1>3. CASE Dispose
  BY <1>3, ShutStep DEF Dispose
<1>4. CASE ReconnectFires
  BY <1>4, ReconnectFiresStep
<1>5. CASE SendPing
  BY <1>5 DEF SendPing, connectionVars, reconnectVars, socketVars,
     ConnectionInv, ConnectionTypes, OneSocket, StateIsBacked, Attachment,
     ConnectionClosed, PongWithHeartbeat
<1>6. CASE PongTimeout
  BY <1>6, PongTimeoutStep
<1>7. ASSUME NEW s \in Socket, SocketStep(s) PROVE ConnectionInv'
  <2>1. CASE Pong(s)
    BY <2>1 DEF Pong, connectionVars, reconnectVars, socketVars,
       ConnectionInv, ConnectionTypes, OneSocket, StateIsBacked, Attachment,
       ConnectionClosed, PongWithHeartbeat
  <2>2. CASE ConnectionError(s)
    BY <2>2, UntouchedStep DEF ConnectionError, ConnectionUntouched
  <2> QED
    BY <1>7, <2>1, <2>2, SocketOpensStep, SocketClosesStep, SocketClosedStep
       DEF SocketStep
<1>8. CASE Request
  BY <1>8, UntouchedStep DEF Request, ConnectionUntouched
<1>9. ASSUME NEW id \in RequestId, RequestTimeout(id) PROVE ConnectionInv'
  BY <1>9, UntouchedStep DEF RequestTimeout, ConnectionUntouched
<1>10. ASSUME NEW r \in asked, Response(r) \/ ErrorAbout(r)
       PROVE ConnectionInv'
  BY <1>10, UntouchedStep DEF Response, ErrorAbout, ConnectionUntouched
<1>11. CASE UNCHANGED vars
  BY <1>11, UntouchedStep
     DEF vars, ConnectionUntouched, connectionVars, heartbeatVars,
         reconnectVars, socketVars
<1> QED
  BY <1>1, <1>2, <1>3, <1>4, <1>5, <1>6, <1>7, <1>8, <1>9, <1>10, <1>11
     DEF TransportNext

THEOREM ConnectionInvariant == TransportSpec => []ConnectionInv
<1>1. ConnectionInv /\ [TransportNext]_vars => ConnectionInv'
  BY ConnectionStep
<1> QED
  BY ConnectionStarts, <1>1, PTL DEF TransportSpec

\* No connection is left behind (see OneSocket): a socket is given up only by
\* closing it, and a new one is made only when there is none.
THEOREM OneConnection == TransportSpec => []OneSocket
BY ConnectionInvariant, PTL DEF ConnectionInv

\* Every state that promises activity has it under way, unless the factory threw
\* (see StateIsBacked): then CONNECTING stays without a socket.
THEOREM NeverStuckConnecting == TransportSpec => []StateIsBacked
BY ConnectionInvariant, PTL DEF ConnectionInv

-----------------------------------------------------------------------------
(* The requests. *)

RequestInv ==
  /\ messageIdCounter \in 0 .. MaxRequests
  /\ pending \subseteq RequestId /\ timers \subseteq RequestId
  /\ WaitingIsTimed
  /\ \A id \in RequestId : id > messageIdCounter => outcome[id] = "none"
  /\ intentionalClose => pending = {}

LEMMA RequestStarts == TransportInit => RequestInv
BY TransportConstants
   DEF TransportInit, RequestInv, WaitingIsTimed, RequestId

\* Requests that stop waiting and are settled, all at once, keep the rest.
LEMMA SettleSome ==
  ASSUME RequestInv, NEW ids \in SUBSET pending, NEW how,
         how # "none", Settle(ids, how),
         pending' = pending \ ids, timers' = timers \ ids,
         UNCHANGED messageIdCounter, intentionalClose' => intentionalClose
  PROVE  RequestInv'
<1>1. /\ messageIdCounter' \in 0 .. MaxRequests
      /\ pending' \subseteq RequestId /\ timers' \subseteq RequestId
  BY DEF RequestInv
<1>2. timers' = pending'
  BY DEF RequestInv, WaitingIsTimed
<1>3. ASSUME NEW id \in RequestId
      PROVE  /\ (id \in pending') <=> (id <= messageIdCounter' /\ outcome'[id] = "none")
             /\ id > messageIdCounter' => outcome'[id] = "none"
  <2>1. outcome'[id] = IF id \in ids /\ outcome[id] = "none" THEN how ELSE outcome[id]
    BY <1>3 DEF Settle
  <2>2. CASE id \in ids
    <3>1. id \in pending /\ id <= messageIdCounter /\ outcome[id] = "none"
      BY <1>3, <2>2 DEF RequestInv, WaitingIsTimed
    <3>2. ~(id > messageIdCounter')
      BY <3>1, <1>3 DEF RequestInv, RequestId
    <3> QED
      BY <2>1, <2>2, <3>1, <3>2
  <2>3. CASE id \notin ids
    <3>1. outcome'[id] = outcome[id] /\ (id \in pending' <=> id \in pending)
      BY <2>1, <2>3
    <3> QED
      BY <1>3, <3>1 DEF RequestInv, WaitingIsTimed
  <2> QED
    BY <2>2, <2>3
<1>4. intentionalClose' => pending' = {}
  BY DEF RequestInv
<1> QED
  BY <1>1, <1>2, <1>3, <1>4 DEF RequestInv, WaitingIsTimed

\* Nothing about the requests changes, and disconnect() is not called.
LEMMA RequestsUntouched ==
  ASSUME RequestInv, UNCHANGED <<messageIdCounter, pending, timers, outcome>>,
         intentionalClose' => intentionalClose
  PROVE  RequestInv'
BY DEF RequestInv, WaitingIsTimed

LEMMA RejectAllStep ==
  ASSUME RequestInv, NEW how, how # "none", RejectAllPending(how),
         UNCHANGED messageIdCounter
  PROVE  /\ RequestInv' /\ pending' = {}
<1>1. /\ messageIdCounter' \in 0 .. MaxRequests
      /\ pending' = {} /\ timers' = {}
  BY DEF RequestInv, RejectAllPending, WaitingIsTimed
<1>2. ASSUME NEW id \in RequestId
      PROVE  /\ ~(id <= messageIdCounter' /\ outcome'[id] = "none")
             /\ id > messageIdCounter' => outcome'[id] = "none"
  <2>1. outcome'[id] = IF id \in pending /\ outcome[id] = "none" THEN how ELSE outcome[id]
    BY <1>2 DEF RejectAllPending, Settle
  <2>2. (id \in pending) <=> (id <= messageIdCounter /\ outcome[id] = "none")
    BY <1>2 DEF RequestInv, WaitingIsTimed
  <2>3. ~(id <= messageIdCounter /\ outcome'[id] = "none")
    BY <2>1, <2>2
  <2>4. id > messageIdCounter => id \notin pending /\ outcome[id] = "none"
    BY <1>2, <2>2 DEF RequestInv, RequestId
  <2> QED
    BY <2>1, <2>3, <2>4
<1> QED
  BY <1>1, <1>2 DEF RequestInv, WaitingIsTimed

LEMMA NewRequestStep ==
  ASSUME RequestInv, ConnectionInv, Request PROVE RequestInv'
<1> DEFINE new == messageIdCounter + 1
<1>1. /\ new \in RequestId /\ messageIdCounter' = new
      /\ outcome[new] = "none" /\ new \notin pending
      /\ messageIdCounter \in Nat
  BY TransportConstants DEF Request, RequestInv, WaitingIsTimed, RequestId
<1>2. ASSUME NEW id \in RequestId, id # new
      PROVE  /\ (id <= new) <=> (id <= messageIdCounter)
             /\ (id > new) => (id > messageIdCounter)
  BY <1>1, <1>2 DEF RequestId
<1>3. CASE Sendable
  <2>1. ~intentionalClose /\ ~intentionalClose'
    BY <1>3 DEF Sendable, Request, connectionVars, ConnectionInv,
                ConnectionClosed
  <2>2. /\ pending' = pending \cup {new} /\ timers' = timers \cup {new}
        /\ outcome' = outcome
    BY <1>1, <1>3 DEF Request, AwaitAnswer
  <2>3. new <= new /\ ~(new > new)
    BY <1>1
  <2> QED
    BY <1>1, <1>2, <2>1, <2>2, <2>3 DEF RequestInv, WaitingIsTimed, RequestId
<1>4. CASE ~Sendable
  <2>1. /\ pending' = pending /\ timers' = timers
        /\ outcome' = [id \in RequestId |->
                         IF id = new /\ outcome[id] = "none"
                           THEN "notConnected" ELSE outcome[id]]
    BY <1>1, <1>4 DEF Request, AwaitAnswer, Settle
  <2>2. ~(new > new)
    BY <1>1
  <2>3. intentionalClose' => pending' = {}
    BY <1>4, <2>1 DEF Request, connectionVars, RequestInv
  <2> QED
    BY <1>1, <1>2, <2>1, <2>2, <2>3 DEF RequestInv, WaitingIsTimed, RequestId
<1> QED
  BY <1>3, <1>4

LEMMA AnswerStep ==
  ASSUME RequestInv, NEW r, Response(r) \/ ErrorAbout(r) PROVE RequestInv'
<1>1. UNCHANGED messageIdCounter /\ UNCHANGED intentionalClose
  BY DEF Response, ErrorAbout, connectionVars
<1>2. CASE r.id \in pending
  <2>1. PICK how \in {"answered", "invalid", "error"} : Settle({r.id}, how)
    BY <1>2 DEF Response, ErrorAbout
  <2>2. pending' = pending \ {r.id} /\ timers' = timers \ {r.id}
    BY <1>2 DEF Response, ErrorAbout
  <2> QED
    BY <1>1, <1>2, <2>1, <2>2, SettleSome
<1>3. CASE r.id \notin pending /\ Response(r)
  BY <1>1, <1>3, RequestsUntouched DEF Response
<1>4. CASE r.id \notin pending /\ ErrorAbout(r)
  BY <1>1, <1>4, RejectAllStep DEF ErrorAbout
<1> QED
  BY <1>2, <1>3, <1>4

LEMMA RequestStep ==
  ASSUME RequestInv, ConnectionInv, [TransportNext]_vars PROVE RequestInv'
<1>1. CASE Connect
  BY <1>1, RequestsUntouched DEF Connect, requestVars
<1>2. ASSUME NEW state \in {"DISCONNECTED", "DISPOSED"}, ShutConnection(state)
      PROVE  RequestInv'
  BY <1>2, RejectAllStep DEF ShutConnection
<1>3. CASE Request
  BY <1>3, NewRequestStep
<1>4. CASE ReconnectFires \/ SendPing \/ PongTimeout
  BY <1>4, RequestsUntouched
     DEF ReconnectFires, SendPing, PongTimeout, requestVars, connectionVars
<1>5. ASSUME NEW id \in RequestId, RequestTimeout(id) PROVE RequestInv'
  <2>1. {id} \in SUBSET pending
    BY <1>5 DEF RequestTimeout, RequestInv, WaitingIsTimed
  <2> QED
    BY <1>5, <2>1, SettleSome DEF RequestTimeout, connectionVars
<1>6. ASSUME NEW s \in Socket, SocketStep(s) PROVE RequestInv'
  <2>1. CASE ConnectionError(s)
    BY <2>1, RejectAllStep DEF ConnectionError
  <2>2. CASE SocketOpens(s) \/ SocketCloses(s) \/ SocketClosed(s) \/ Pong(s)
    BY <2>2, RequestsUntouched
       DEF SocketOpens, SocketCloses, SocketClosed, Pong, requestVars,
           connectionVars
  <2> QED
    BY <1>6, <2>1, <2>2 DEF SocketStep
<1>7. ASSUME NEW r \in asked, Response(r) \/ ErrorAbout(r) PROVE RequestInv'
  BY <1>7, AnswerStep
<1>8. CASE UNCHANGED vars
  BY <1>8, RequestsUntouched DEF vars
<1> QED
  BY <1>1, <1>2, <1>3, <1>4, <1>5, <1>6, <1>7, <1>8
     DEF TransportNext, Disconnect, Dispose

THEOREM TransportInvariant == TransportSpec => [](ConnectionInv /\ RequestInv)
<1>1. ConnectionInv /\ RequestInv /\ [TransportNext]_vars
        => ConnectionInv' /\ RequestInv'
  BY ConnectionStep, RequestStep
<1> QED
  BY ConnectionStarts, RequestStarts, <1>1, PTL DEF TransportSpec

\* No request waits without a timeout and no timeout outlives its request
\* (see WaitingIsTimed), over any number of connections.
THEOREM EveryWaitIsTimed == TransportSpec => []WaitingIsTimed
BY TransportInvariant, PTL DEF RequestInv

\* disconnect() and dispose() leave nothing that acts by itself (see
\* ClosedIsQuiet).
THEOREM ClosedForGood == TransportSpec => []ClosedIsQuiet
<1>1. ConnectionInv /\ RequestInv => ClosedIsQuiet
  BY DEF ConnectionInv, RequestInv, ConnectionClosed, WaitingIsTimed,
         ClosedIsQuiet
<1> QED
  BY TransportInvariant, <1>1, PTL

-----------------------------------------------------------------------------
(* Types. *)

AskedTyped == asked \subseteq [socket : Socket, id : RequestId]

LEMMA AskedStep ==
  ASSUME AskedTyped, ConnectionInv, RequestInv, [TransportNext]_vars
  PROVE  AskedTyped'
<1>1. CASE Request
  <2>1. CASE Sendable
    <3>1. ws \in Socket /\ messageIdCounter' \in RequestId
      BY <1>1, <2>1, TransportConstants
         DEF Sendable, Request, ConnectionInv, ConnectionTypes, RequestInv,
             RequestId
    <3>2. asked' = asked \cup {[socket |-> ws, id |-> messageIdCounter']}
      BY <1>1, <2>1 DEF Request, AwaitAnswer
    <3> QED
      BY <3>1, <3>2 DEF AskedTyped
  <2>2. CASE ~Sendable
    BY <1>1, <2>2 DEF Request, AwaitAnswer, AskedTyped
  <2> QED
    BY <2>1, <2>2
<1>2. CASE ~Request
  <2>1. asked' \subseteq asked
    BY <1>2
       DEF TransportNext, vars, Connect, Disconnect, Dispose, ShutConnection,
           ReconnectFires, SendPing, PongTimeout, RequestTimeout, SocketStep,
           SocketOpens, SocketCloses, SocketClosed, ConnectionError, Pong,
           Response, ErrorAbout, requestVars
  <2> QED
    BY <2>1 DEF AskedTyped
<1> QED
  BY <1>1, <1>2

\* Every variable keeps its type, and no timeout is cleared that was not set.
THEOREM TransportTyped == TransportSpec => []TransportTypeOK
<1>1. TransportInit => AskedTyped
  BY DEF TransportInit, AskedTyped
<1>2. AskedTyped /\ ConnectionInv /\ RequestInv /\ [TransportNext]_vars
        => AskedTyped'
  BY AskedStep
<1>3. TransportSpec => []AskedTyped
  BY TransportInvariant, <1>1, <1>2, PTL DEF TransportSpec
<1>4. AskedTyped /\ ConnectionInv /\ RequestInv => TransportTypeOK
  <2>1. attached \subseteq Socket \/ ~ConnectionInv
    BY DEF ConnectionInv, ConnectionTypes, Attachment
  <2> QED
    BY <2>1 DEF AskedTyped, ConnectionInv, ConnectionTypes, RequestInv,
                TransportTypeOK
<1> QED
  BY TransportInvariant, <1>3, <1>4, PTL
=============================================================================
