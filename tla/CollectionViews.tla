--------------------------- MODULE CollectionViews ---------------------------
(***************************************************************************)
(* A Collection's change events and the views that follow them: the        *)
(* controllers of collection-logic and entity-logic, which React and Vue   *)
(* share but for names, and the hooks and composables that own them.       *)
(*                                                                         *)
(* A controller reads again whenever the collection announces a change;    *)
(* its reads overlap and none is cancelled.  A listener runs synchronously *)
(* up to its read, so an announcement is one step.  What follows a write   *)
(* in storage, its announcement, is another; what the sync engine stores   *)
(* is never announced.                                                     *)
(*                                                                         *)
(* React and Vue are external: React shows a rendering before it runs the  *)
(* effects that dispose of the previous controller; Vue runs setup once.   *)
(* The state of a view is what setState or the refs were last given; what  *)
(* its component gets of that, and shows, is Returned.                     *)
(***************************************************************************)
EXTENDS Integers, Sequences, FiniteSets, SequencesExt

CONSTANTS
  View,         \* component instances that use the hooks
  Placements,   \* what kinds of views there may be: view -> its hook
  Id,           \* the entities of the collection
  Controller,   \* the controllers that can be about at a time
  NoController,
  Ordered,      \* whether reads of the store come back in the order made
  MaxVersions,  \* bound: versions of an entity
  MaxReads      \* bound: reads under way

Kind == {"reactCollection", "reactEntity", "vueCollection", "vueEntity"}

ASSUME ViewConstants ==
  /\ Placements \subseteq [View -> Kind]
  /\ Controller \subseteq Nat /\ NoController \notin Controller
  /\ Ordered \in BOOLEAN
  /\ MaxVersions \in Nat /\ MaxReads \in Nat

VARIABLES
  kind,        \* view -> the hook it uses; never changes
  store,       \* entity -> its version in storage; 0: not there
  unannounced, \* writes that are stored and not announced yet
  syncState,   \* Collection.currentSyncState
  listeners,   \* ChangeEmitter.listeners, those of controllers
  controller,  \* controller -> its record
  reads,       \* the reads under way, in the order made
  view,        \* view -> its record
  announced    \* history: the store when a change was last announced

collection == <<store, unannounced, syncState, announced>>
viewsVars == <<kind, collection, listeners, controller, reads, view>>

IsCollection(k) == k \in {"reactCollection", "vueCollection"}
IsReact(k) == k \in {"reactCollection", "reactEntity"}

SyncStates == {"LOCAL_ONLY", "SYNCED"}

\* What a view shows of the entities in ids when none of them is there.
Nothing(ids) == [i \in ids |-> 0]

\* createInitialCollectionState and createInitialEntityState.
InitialState(ids) ==
  [shown |-> Nothing(ids), isLoading |-> TRUE, error |-> FALSE,
   syncState |-> "LOCAL_ONLY"]

\* What useCollection returns while it has no controller.
DisabledState == [InitialState({}) EXCEPT !.isLoading = FALSE]

Unused == [view |-> "none", live |-> FALSE, state |-> InitialState({})]

\* stage: React's rendering, before its effects; old: what they dispose of.
Absent == [stage |-> "absent", current |-> NoController,
           old |-> NoController, state |-> InitialState({})]

ViewsInit ==
  /\ kind \in Placements
  /\ store = Nothing(Id)
  /\ unannounced = 0
  /\ syncState = "LOCAL_ONLY"
  /\ listeners = <<>>
  /\ controller = [c \in Controller |-> Unused]
  /\ reads = <<>>
  /\ view = [v \in View |-> Absent]
  /\ announced = Nothing(Id)

-----------------------------------------------------------------------------
(* Controllers. *)

IdsOf(c) == DOMAIN controller[c].state.shown
ViewKind(c) == kind[controller[c].view]

\* getAll() or get(): the store as it is when the read is made.
ReadOf(c, ids) == [controller |-> c, found |-> [i \in ids |-> store[i]]]

\* Up to its await, refresh() sets these.
Loading(state) == [state EXCEPT !.isLoading = TRUE, !.error = FALSE]

Loaded(c, found) ==
  [controller[c].state EXCEPT
     !.shown = found, !.isLoading = FALSE,
     !.syncState = IF IsCollection(ViewKind(c)) THEN syncState ELSE @]

Failed(c) == [controller[c].state EXCEPT !.isLoading = FALSE, !.error = TRUE]

\* The ways to list the positions in I in their order, of which there is one.
Listings(I) ==
  {f \in UNION {[1..n -> I] : n \in 0..Len(listeners)} :
     /\ \A j, k \in DOMAIN f : j < k => f[j] < f[k]
     /\ \A p \in I : \E k \in DOMAIN f : f[k] = p}

\* The listeners of controllers in C, in the order of the calls.
ListenersIn(C) ==
  {[k \in DOMAIN f |-> listeners[f[k]]] :
     f \in Listings({p \in DOMAIN listeners : listeners[p] \in C})}

\* Wrong: a refresh while another is under way is left out.
AskedSkipping ==
  {c \in Controller : controller[c].live /\ \A k \in DOMAIN reads :
                                               reads[k].controller # c}

\* The controllers whose listener refreshes: refresh() of a disposed one
\* returns.
Asked == {c \in Controller : controller[c].live}

\* The view's own state is that of the controller that notified it last.
IsLastFor(v, S, k) ==
  /\ k \in DOMAIN S /\ controller[S[k]].view = v
  /\ \A j \in DOMAIN S : j > k => controller[S[j]].view # v

Notified(S, v) ==
  IF \A k \in DOMAIN S : controller[S[k]].view # v THEN NoController
  ELSE S[CHOOSE k \in DOMAIN S : IsLastFor(v, S, k)]

\* ChangeEmitter.emit
Announce ==
  /\ Len(reads) + Len(listeners) <= MaxReads
  /\ \E S \in ListenersIn(Asked) :
       /\ controller' = [c \in Controller |->
            IF c \in ToSet(S) THEN [controller[c] EXCEPT !.state = Loading(@)]
                              ELSE controller[c]]
       /\ reads' = reads \o [k \in DOMAIN S |-> ReadOf(S[k], IdsOf(S[k]))]
       /\ view' = [v \in View |->
            LET c == Notified(S, v)
            IN IF c = NoController THEN view[v]
               ELSE [view[v] EXCEPT !.state = controller'[c].state]]
  /\ UNCHANGED <<kind, listeners>>

\* A controller that nothing refers to any more is gone.
IsFree(c) ==
  /\ ~controller[c].live
  /\ \A k \in DOMAIN reads : reads[k].controller # c
  /\ \A v \in View : c \notin {view[v].current, view[v].old}

\* createCollectionController, createEntityController: subscribe, refresh.
CreateController(c, v, ids) ==
  /\ IsFree(c) /\ \A d \in Controller : IsFree(d) => c <= d
  /\ Len(reads) < MaxReads
  /\ controller' = [controller EXCEPT ![c] =
       [view |-> v, live |-> TRUE, state |-> Loading(InitialState(ids))]]
  /\ listeners' = Append(listeners, c)
  /\ reads' = Append(reads, ReadOf(c, ids))

\* Nobody looks at the state of a disposed controller.
Disposed(c) ==
  [controller[c] EXCEPT !.live = FALSE, !.state = InitialState({})]

\* Wrong: what is removed is every listener of the view.
DisposeByView(C) ==
  /\ controller' = [c \in Controller |->
       IF c \in C THEN Disposed(c) ELSE controller[c]]
  /\ listeners' \in ListenersIn({c \in Controller :
       \A d \in C \ {NoController} : controller[d].view # controller[c].view})

\* dispose() of the controllers in C.
Dispose(C) ==
  /\ controller' = [c \in Controller |->
       IF c \in C THEN Disposed(c) ELSE controller[c]]
  /\ listeners' \in ListenersIn(Controller \ C)

\* Wrong: what arrives is shown whether or not the controller is disposed.
SettleAlways(k, state) ==
  LET c == reads[k].controller
  IN /\ Ordered => k = 1
     /\ reads' = RemoveAt(reads, k)
     /\ controller' = [controller EXCEPT ![c].state = state]
     /\ view' = [view EXCEPT ![controller[c].view].state = state]
     /\ UNCHANGED <<kind, collection, listeners>>

\* The promise of the k-th read settles and leaves this state.
Settle(k, state) ==
  LET c == reads[k].controller
  IN /\ Ordered => k = 1
     /\ reads' = RemoveAt(reads, k)
     /\ IF controller[c].live
          THEN /\ controller' = [controller EXCEPT ![c].state = state]
               /\ view' = [view EXCEPT ![controller[c].view].state = state]
          ELSE UNCHANGED <<controller, view>>
     /\ UNCHANGED <<kind, collection, listeners>>

ReadSettles(hook) ==
  \E k \in DOMAIN reads :
    LET c == reads[k].controller
    IN /\ ViewKind(c) = hook
       /\ \/ Settle(k, Loaded(c, reads[k].found))
          \/ Settle(k, Failed(c))

ReactCollectionRead == ReadSettles("reactCollection")
ReactEntityRead == ReadSettles("reactEntity")
VueCollectionRead == ReadSettles("vueCollection")
VueEntityRead == ReadSettles("vueEntity")

-----------------------------------------------------------------------------
(* React: useCollection and useEntity. *)

\* A render with new dependencies: useMemo makes a new controller, or none,
\* and that is where it starts to read and to call setState.  A rendering React
\* throws away (strict mode, a suspended one) is left out: nothing would dispose
\* of its controller.
Render(v, ids) ==
  /\ view[v].stage \in {"absent", "mounted"}
  /\ \/ /\ ids = {}
        /\ view' = [view EXCEPT ![v] =
             [@ EXCEPT !.stage = "rendered", !.old = view[v].current,
                       !.current = NoController]]
        /\ UNCHANGED <<controller, listeners, reads>>
     \/ /\ ids # {}
        /\ \E c \in Controller :
             /\ CreateController(c, v, ids)
             /\ view' = [view EXCEPT ![v] =
                  [@ EXCEPT !.stage = "rendered", !.old = view[v].current,
                            !.current = c, !.state = controller'[c].state]]
  /\ UNCHANGED <<kind, collection>>

\* The effects: the cleanup of the previous rendering disposes of its own.
RunEffects(v) ==
  /\ view[v].stage = "rendered"
  /\ Dispose({view[v].old})
  /\ view' = [view EXCEPT ![v].stage = "mounted", ![v].old = NoController]
  /\ UNCHANGED <<kind, collection, reads>>

Unmount(v) ==
  /\ view[v].stage = "mounted"
  /\ Dispose({view[v].current})
  /\ view' = [view EXCEPT ![v] = Absent]
  /\ UNCHANGED <<kind, collection, reads>>

\* Its options may be { enabled: false }.
UseCollection(v) ==
  /\ kind[v] = "reactCollection"
  /\ \/ \E ids \in {Id, {}} : Render(v, ids)
     \/ RunEffects(v) \/ Unmount(v)

UseEntity(v) ==
  /\ kind[v] = "reactEntity"
  /\ \/ \E i \in Id : Render(v, {i})
     \/ RunEffects(v) \/ Unmount(v)

-----------------------------------------------------------------------------
(* Vue: useCollection and useEntity. *)

Setup(v, ids) ==
  /\ view[v].stage = "absent"
  /\ \E c \in Controller :
       /\ CreateController(c, v, ids)
       /\ view' = [view EXCEPT ![v] =
            [@ EXCEPT !.stage = "mounted", !.current = c,
                      !.state = controller'[c].state]]
  /\ UNCHANGED <<kind, collection>>

VueUseCollection(v) ==
  /\ kind[v] = "vueCollection"
  /\ Setup(v, Id) \/ Unmount(v)

VueUseEntity(v) ==
  /\ kind[v] = "vueEntity"
  /\ \/ \E i \in Id : Setup(v, {i})
     \/ Unmount(v)

\* What the hook gave its component: of Vue's refs, the values at setup.
Returned(v) ==
  IF view[v].current = NoController THEN DisabledState
  ELSE IF IsReact(kind[v]) THEN view[v].state
  ELSE InitialState(DOMAIN view[v].state.shown)

-----------------------------------------------------------------------------
(* The collection. *)

\* create, put, update or delete: stored, ...
WriteEntity(i) ==
  /\ store[i] < MaxVersions
  /\ store' = [store EXCEPT ![i] = @ + 1]
  /\ unannounced' = unannounced + 1
  /\ UNCHANGED <<kind, syncState, announced, listeners, controller, reads,
                 view>>

\* ... and announced.
EmitChange ==
  /\ unannounced > 0
  /\ unannounced' = unannounced - 1
  /\ announced' = store
  /\ Announce
  /\ UNCHANGED <<store, syncState>>

\* The engine applies a reply to the storage, past the collection.
ApplyRemote(i) ==
  /\ store[i] < MaxVersions
  /\ store' = [store EXCEPT ![i] = @ + 1]
  /\ UNCHANGED <<kind, unannounced, syncState, announced, listeners,
                 controller, reads, view>>

SetSyncState(s) ==
  /\ s # syncState
  /\ syncState' = s
  /\ announced' = store
  /\ Announce
  /\ UNCHANGED <<store, unannounced>>

-----------------------------------------------------------------------------
ReadArrives ==
  ReactCollectionRead \/ ReactEntityRead \/ VueCollectionRead \/ VueEntityRead

ViewsNext ==
  \/ \E v \in View : UseCollection(v) \/ UseEntity(v) \/ VueUseCollection(v)
                     \/ VueUseEntity(v)
  \/ ReadArrives
  \/ \E i \in Id : WriteEntity(i) \/ ApplyRemote(i)
  \/ EmitChange
  \/ \E s \in SyncStates : SetSyncState(s)

\* Reads settle, effects are run and a write's continuation comes.
ViewsFairness ==
  /\ WF_viewsVars(ReadArrives)
  /\ WF_viewsVars(EmitChange)
  /\ \A v \in View : WF_viewsVars(RunEffects(v))

ViewsSpec == ViewsInit /\ [][ViewsNext]_viewsVars
ViewsFairSpec == ViewsSpec /\ ViewsFairness

-----------------------------------------------------------------------------
(* Properties. *)

Owned(v) == {view[v].current, view[v].old} \ {NoController}

ReadsOf(v) ==
  {k \in DOMAIN reads : controller[reads[k].controller].live
                        /\ controller[reads[k].controller].view = v}

\* No listener outlives the view it is for, none is registered twice and
\* none is missing, and a view that is gone is never written to again, though
\* its reads are still under way (dispose(), the effect's cleanup).
GoneIsGone ==
  /\ \A v \in View : view[v].stage = "absent" => view[v] = Absent
  /\ ToSet(listeners) = UNION {Owned(v) : v \in View}
  /\ Cardinality(ToSet(listeners)) = Len(listeners)

Quiet(v) ==
  view[v].stage = "mounted" /\ view[v].current # NoController /\ ReadsOf(v) = {}

\* What v shows is what it was last asked for, no older than the last
\* announcement, or an error; and for a collection its sync state too.
IsCurrent(v) ==
  LET s == Returned(v)
  IN /\ ~s.isLoading
     /\ DOMAIN s.shown = IdsOf(view[v].current)
     /\ ~s.error =>
          /\ \A i \in DOMAIN s.shown : s.shown[i] >= announced[i]
          /\ IsCollection(kind[v]) => s.syncState = syncState

\* A mounted React component that waits for no read shows the current data.
\* Reads that overlap, of which those made first may be a former controller's,
\* leave nothing older behind.
QuietIsCurrent ==
  \A v \in View : IsReact(kind[v]) /\ Quiet(v) => IsCurrent(v)

\* The same of Vue: "A reactive object".
VueIsCurrent ==
  \A v \in View : ~IsReact(kind[v]) /\ Quiet(v) => IsCurrent(v)

\* Version n of entity i is announced and v is there to show it.
Expected(v, i, n) == announced[i] >= n /\ view[v].stage = "mounted"

ShownOrGone(v, i, n) ==
  \/ view[v].stage # "mounted" \/ view[v].current = NoController
  \/ Returned(v).error
  \/ i \notin DOMAIN Returned(v).shown
  \/ Returned(v).shown[i] >= n

\* A change that has been announced is eventually shown by every React
\* component that stays, unless a read fails.
ChangesAreShown ==
  \A v \in View, i \in Id, n \in 1..MaxVersions :
    IsReact(kind[v]) /\ Expected(v, i, n) ~> ShownOrGone(v, i, n)

\* The same of Vue.
VueShowsChanges ==
  \A v \in View, i \in Id, n \in 1..MaxVersions :
    ~IsReact(kind[v]) /\ Expected(v, i, n) ~> ShownOrGone(v, i, n)
=============================================================================
