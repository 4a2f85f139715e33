--------------------------- MODULE ElectronBridge ---------------------------
(***************************************************************************)
(* The Electron package: renderer clients that call, over IPC, the sync    *)
(* engine of the main process through the handlers createIPCHandler        *)
(* registers.                                                              *)
(*                                                                         *)
(* A call is a promise of the renderer; its request, the handler in the    *)
(* main process and the reply are steps, between which clients, windows    *)
(* and the registration come and go.  Electron is external: a channel that *)
(* has a handler cannot be given another, an invocation without a handler  *)
(* is rejected, messages to a window arrive in order while it is open.     *)
(* The engine is what its callers see of it: a cycle that ends or rejects, *)
(* and a state.  The states an application may push to its windows are not *)
(* here: the package sends none, and receiving one calls a callback.       *)
(***************************************************************************)
CONSTANTS
  Renderer,  \* windows
  Call       \* invocations

VARIABLES
  bridge,      \* "none", "live", "disposed"
  handlers,    \* channel -> its handler
  engineState, \* SyncEngine.syncState
  cycles,      \* the calls the engine runs a cycle for
  clients,     \* renderer -> "none", "live", "disposed"
  calls,       \* call -> its record
  ran,         \* history: the calls whose cycle the engine has completed
  custom       \* history: the calls a handler of the application answered

main == <<bridge, handlers>>
engine == <<engineState, cycles, ran>>
bridgeVars == <<main, engine, clients, calls, custom>>

CycleChannel == {"sync", "forceSnapshot"}
Channel == CycleChannel \cup {"getState"}

\* createIPCHandler registers the engine's; the application may register its
\* own on the bridge it is given, which may call the engine or answer as they
\* like, or remove one.
Handler == {"engine", "custom", "none"}

SyncState == {"LOCAL_ONLY", "SYNCING", "SYNCED"}

Made == [stage |-> "unused"]

BridgeInit ==
  /\ bridge = "none"
  /\ handlers = [ch \in Channel |-> "none"]
  /\ engineState = "LOCAL_ONLY"
  /\ cycles = {}
  /\ clients = [r \in Renderer |-> "none"]
  /\ calls = [i \in Call |-> Made]
  /\ ran = {}
  /\ custom = {}

-----------------------------------------------------------------------------
(* The main process: ElectronSyncBridge and createIPCHandler. *)

\* Once: ipcMain.handle throws when a channel has a handler, and nothing
\* takes these away, so a second registration fails.
CreateIPCHandler ==
  /\ bridge = "none"
  /\ bridge' = "live"
  /\ handlers' = [ch \in Channel |-> "engine"]
  /\ UNCHANGED <<engine, clients, calls, custom>>

\* Refused once the bridge is disposed.
RegisterHandler(ch) ==
  /\ bridge = "live"
  /\ \E handler \in {"engine", "custom"} :
       handlers' = [handlers EXCEPT ![ch] = handler]
  /\ UNCHANGED <<bridge, engine, clients, calls, custom>>

RemoveHandler(ch) ==
  /\ bridge # "none"
  /\ handlers' = [handlers EXCEPT ![ch] = "none"]
  /\ UNCHANGED <<bridge, engine, clients, calls, custom>>

\* Wrong: the bridge is marked, its handlers are kept.
MarkDisposed ==
  /\ bridge = "live"
  /\ bridge' = "disposed"
  /\ UNCHANGED <<handlers, engine, clients, calls, custom>>

\* The registration's dispose(): ipcMain keeps its handlers, which go on to
\* call this bridge.
DisposeRegistration ==
  /\ bridge = "live"
  /\ bridge' = "disposed"
  /\ handlers' = [ch \in Channel |-> "none"]
  /\ UNCHANGED <<engine, clients, calls, custom>>

Reply(i, reply) ==
  calls' = [calls EXCEPT ![i] =
    [@ EXCEPT !.stage = "answered", !.result = reply]]

AtMain(i) == calls[i].stage = "sent"

\* What the bridge has for the channel of a call; without a registration
\* Electron has nothing either.
HandlerFor(i) == handlers[calls[i].channel]

\* Wrong: a request for which there is no handler is dropped.
DropUnhandled(i) ==
  /\ AtMain(i)
  /\ HandlerFor(i) = "none"
  /\ calls' = [calls EXCEPT ![i].stage = "dropped"]
  /\ UNCHANGED <<main, engine, clients, custom>>

\* handleMessage without a handler, or Electron's own rejection.
Unhandled(i) ==
  /\ AtMain(i)
  /\ HandlerFor(i) = "none"
  /\ Reply(i, "noHandler")
  /\ UNCHANGED <<main, engine, clients, custom>>

\* engine.sync() or engine.forceSnapshotSync(), whether or not a cycle is
\* running.
StartCycle(i) ==
  /\ AtMain(i)
  /\ HandlerFor(i) = "engine"
  /\ calls[i].channel \in CycleChannel
  /\ engineState' = "SYNCING"
  /\ cycles' = cycles \cup {i}
  /\ calls' = [calls EXCEPT ![i].stage = "running"]
  /\ UNCHANGED <<ran, main, clients, custom>>

\* The handler of getState reads the engine's state.
AnswerState(i) ==
  /\ AtMain(i)
  /\ HandlerFor(i) = "engine"
  /\ calls[i].channel = "getState"
  /\ Reply(i, engineState)
  /\ UNCHANGED <<main, engine, clients, custom>>

\* handleMessage passes on whatever a handler returns, null for undefined: it
\* may well be the result of a cycle that was run for something else.
AnswerCustom(i) ==
  /\ AtMain(i)
  /\ HandlerFor(i) = "custom"
  /\ \E reply \in {"result", "SYNCED", "null", "error"} : Reply(i, reply)
  /\ custom' = custom \cup {i}
  /\ UNCHANGED <<main, engine, clients>>

\* Wrong: the reply goes to whichever call of the channel waits.
EndAnyCycle(i) ==
  /\ i \in cycles
  /\ cycles' = cycles \ {i}
  /\ \E j \in Call :
       /\ calls[j].stage = "running"
       /\ calls[j].channel = calls[i].channel
       /\ \/ /\ engineState' = "SYNCED"
             /\ ran' = ran \cup {i}
             /\ Reply(j, "result")
          \/ /\ Reply(j, "error")
             /\ UNCHANGED <<engineState, ran>>
  /\ UNCHANGED <<main, clients, custom>>

\* The cycle ends, and its handler answers the call it was started for.  A
\* rejected cycle leaves the engine's state as it is.
EndCycle(i) ==
  /\ i \in cycles
  /\ cycles' = cycles \ {i}
  /\ \/ /\ engineState' = "SYNCED"
        /\ ran' = ran \cup {i}
        /\ Reply(i, "result")
     \/ /\ Reply(i, "error")
        /\ UNCHANGED <<engineState, ran>>
  /\ UNCHANGED <<main, clients, custom>>

-----------------------------------------------------------------------------
(* The renderer process: createRendererSyncClient. *)

CreateClient(r) ==
  /\ clients[r] = "none"
  /\ clients' = [clients EXCEPT ![r] = "live"]
  /\ UNCHANGED <<main, engine, calls, custom>>

\* sync(), getSyncState() or forceSnapshotSync(); a disposed client throws.
Invoke(r, i, ch) ==
  /\ clients[r] # "none"
  /\ calls[i] = Made
  /\ calls' = [calls EXCEPT ![i] =
       IF clients[r] = "disposed"
         THEN [stage |-> "done", channel |-> ch, result |-> "disposed"]
         ELSE [stage |-> "sent", channel |-> ch, result |-> "none"]]
  /\ UNCHANGED <<main, engine, clients, custom>>

\* invokeAndValidate, then deserializeSyncCycleResult or deserializeSyncState.
OutcomeOf(c) ==
  CASE c.result \in {"error", "noHandler"} -> "failed"
    [] c.channel \in CycleChannel ->
         IF c.result = "result" THEN "ok" ELSE "invalid"
    [] c.channel = "getState" ->
         IF c.result \in SyncState THEN "ok" ELSE "invalid"

\* Disposing of the client does not take the promise back.
ReceiveReply(i) ==
  /\ calls[i].stage = "answered"
  /\ calls' = [calls EXCEPT ![i] =
       [@ EXCEPT !.stage = "done", !.result = OutcomeOf(calls[i])]]
  /\ UNCHANGED <<main, engine, clients, custom>>

DisposeClient(r) ==
  /\ clients[r] = "live"
  /\ clients' = [clients EXCEPT ![r] = "disposed"]
  /\ UNCHANGED <<main, engine, calls, custom>>

\* The window is closed or reloaded: nothing of its process is left, and
\* replies to it go nowhere.  The main process goes on.
CloseWindow(r) ==
  /\ clients[r] # "none"
  /\ clients' = [clients EXCEPT ![r] = "none"]
  /\ UNCHANGED <<main, engine, calls, custom>>

-----------------------------------------------------------------------------
MainStep(i) ==
  Unhandled(i) \/ StartCycle(i) \/ AnswerState(i) \/ AnswerCustom(i)
  \/ EndCycle(i)

BridgeNext ==
  \/ CreateIPCHandler \/ DisposeRegistration
  \/ \E ch \in Channel : RegisterHandler(ch) \/ RemoveHandler(ch)
  \/ \E i \in Call : MainStep(i) \/ ReceiveReply(i)
  \/ \E r \in Renderer, i \in Call, ch \in Channel : Invoke(r, i, ch)
  \/ \E r \in Renderer : CreateClient(r) \/ DisposeClient(r)
                         \/ CloseWindow(r)

\* IPC delivers, and the engine's cycles end: its transport answers or fails.
BridgeFairness ==
  \A i \in Call : WF_bridgeVars(MainStep(i)) /\ WF_bridgeVars(ReceiveReply(i))

BridgeSpec == BridgeInit /\ [][BridgeNext]_bridgeVars
BridgeFairSpec == BridgeSpec /\ BridgeFairness

-----------------------------------------------------------------------------
(* Properties. *)

\* What a renderer learns of its sync() is what became of the cycle run for that
\* very call, however many calls of however many windows the engine serves at
\* once and whoever replaces handlers meanwhile: its result if it completed, and
\* otherwise never a result.  A handler of the application may say what it likes,
\* and then no cycle was run.
AnsweredByEngine ==
  \A i \in Call : calls[i].stage = "done" /\ calls[i].channel \in CycleChannel =>
    IF i \in custom THEN i \notin ran
                    ELSE calls[i].result = "ok" <=> i \in ran

\* From dispose() on no renderer starts a cycle, though ipcMain still has the
\* handlers and renderers still call them.
DisposedStartsNothing ==
  [][\A i \in cycles' \ cycles : bridge = "live"]_bridgeVars

\* Every call settles: no disposal on either side and no cycle that fails
\* leaves a renderer waiting.
CallsSettle ==
  \A i \in Call : calls[i].stage = "sent" ~> calls[i].stage = "done"
=============================================================================
