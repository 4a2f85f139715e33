---------------------------- MODULE MutationSender ----------------------------
(***************************************************************************)
(* MutationSender and MutationQueue: mutations are sent one by one through *)
(* a MutationTransport, and every answer is written back to the queue.     *)
(*                                                                         *)
(* The queue is a storage collection.  Each of its status changes reads a  *)
(* record, waits, and writes back a changed copy, so that two calls of     *)
(* sendPending() under way at once may undo each other's changes; nothing  *)
(* in the code keeps them apart.  The transport, the application and the   *)
(* peer that receives the mutations are external.                          *)
(*                                                                         *)
(* A definition whose comment begins with "Wrong:" is not part of the      *)
(* model.                                                                  *)
(***************************************************************************)
EXTENDS Integers, Sequences, FiniteSets, SequencesExt

CONSTANTS
  Mutation,       \* the mutations of a collection, by sequence number
  Call,           \* calls of sendPending() that may be under way at once
  TransportError, \* what send() may reject with
  Limit,          \* the argument of sendPending()
  MaxRetries,     \* RetryConfig.maxRetries
  Faults,         \* which of "crash", "storage", "overlap" occur
  MaxFaults,      \* bound: crashes, storage errors and overlaps together
  MaxResolved     \* bound: conflicts the application resolves, per mutation

VARIABLES
  queue,     \* mutation -> its record; those not yet enqueued are absent
  calls,     \* call -> where it is
  sent,      \* history: what the transport was given, in order
  delivered, \* history: what the peer took over; both are kept until calls
             \* overlap
  disputed,  \* history: mutations the peer reported as conflicts
  faults,    \* history: the kinds of fault that have happened
  count      \* bound: how many

vars == <<queue, calls, sent, delivered, disputed, faults, count>>

ASSUME SenderConstants ==
  /\ Mutation \subseteq Nat \ {0}
  /\ Limit \in Nat \ {0}
  /\ MaxRetries \in Nat /\ MaxFaults \in Nat /\ MaxResolved \in Nat

-----------------------------------------------------------------------------
(* ErrorClassifier. *)

\* An error as the classifier sees it: its status, its code, and which of the
\* patterns its message contains.  0 and "": it has none.
Error == [status: Nat, code: STRING, words: SUBSET STRING]

ErrorClassification == {"TRANSIENT", "PERMANENT", "CONFLICT", "AUTHENTICATION",
                        "RATE_LIMITED", "UNKNOWN"}

RateCodes == {"RATE_LIMITED", "TOO_MANY_REQUESTS"}
AuthCodes == {"AUTHENTICATION_FAILED", "UNAUTHORIZED", "FORBIDDEN"}
ConflictCodes ==
  {"CONFLICT_RESOLUTION_FAILED", "CONFLICT", "REVISION_MISMATCH"}
NetworkCodes == {"NETWORK_ERROR", "TIMEOUT", "ECONNREFUSED", "ECONNRESET",
                 "ENOTFOUND", "ETIMEDOUT", "SOCKET_HANG_UP"}

ClassifyByHttpStatus(status) ==
  CASE status = 429                    -> "RATE_LIMITED"
    [] status \in {401, 403}           -> "AUTHENTICATION"
    [] status = 409                    -> "CONFLICT"
    [] status \in {500, 502, 503, 504} -> "TRANSIENT"
    [] status \in (400..499) \ {401, 403, 409, 429} -> "PERMANENT"
    [] OTHER                           -> "UNKNOWN"

ClassifyByErrorCode(code) ==
  CASE code \in RateCodes      -> "RATE_LIMITED"
    [] code \in AuthCodes      -> "AUTHENTICATION"
    [] code \in ConflictCodes  -> "CONFLICT"
    [] code = "CURSOR_TOO_OLD" -> "PERMANENT"
    [] code \in NetworkCodes   -> "TRANSIENT"
    [] OTHER                   -> "UNKNOWN"

\* The first pattern that matches decides, in this order.
ClassifyByMessage(words) ==
  IF "network" \in words       THEN "TRANSIENT"
  ELSE IF "rate" \in words     THEN "RATE_LIMITED"
  ELSE IF "auth" \in words     THEN "AUTHENTICATION"
  ELSE IF "conflict" \in words THEN "CONFLICT"
  ELSE "UNKNOWN"

Classify(e) ==
  IF e.status # 0     THEN ClassifyByHttpStatus(e.status)
  ELSE IF e.code # "" THEN ClassifyByErrorCode(e.code)
  ELSE ClassifyByMessage(e.words)

\* A StorageError of any kind has a code the classifier does not know.
StorageError == [status |-> 0, code |-> "STORAGE_ERROR", words |-> {}]

-----------------------------------------------------------------------------
(* The queue. *)

Settled == {"ACKNOWLEDGED", "FAILED", "CONFLICT"}
MutationStatus == {"PENDING", "IN_FLIGHT"} \cup Settled

\* version stands for the value: it changes when a conflict is resolved.
Record == [status: MutationStatus, version: Nat, retries: Nat,
           key: {"an entity", "no entity"}]

WithStatus(status) == {m \in DOMAIN queue : queue[m].status = status}

\* loadAllMutations sorts by sequence.
InOrder(s) == \A i, j \in DOMAIN s : i < j => s[i] < s[j]

\* Copies of the records in this order; the queue stays as it is.
Copies(s) ==
  [i \in DOMAIN s |-> [id |-> s[i], version |-> queue[s[i]].version,
                       retries |-> queue[s[i]].retries]]

\* Wrong: the queue is read in storage order, which may be any.
DequeuedUnsorted ==
  LET pending == WithStatus("PENDING")
      IsSlice(s) == /\ \A i, j \in DOMAIN s : i # j => s[i] # s[j]
                    /\ pending \subseteq ToSet(s) \/ Len(s) = Limit
  IN {Copies(s) : s \in {t \in UNION {[1..n -> pending] : n \in 1..Limit} :
                           IsSlice(t)}}

\* What dequeuePending(Limit) returns, when anything is pending: the first
\* Limit of them, or all, which leaves one choice.
Dequeued ==
  LET pending == WithStatus("PENDING")
      IsSlice(s) == /\ InOrder(s)
                    /\ \A m \in pending \ ToSet(s) :
                         Len(s) = Limit /\ \A i \in DOMAIN s : s[i] < m
  IN {Copies(s) : s \in {t \in UNION {[1..n -> pending] : n \in 1..Limit} :
                           IsSlice(t)}}

GetMutationsForEntity(key) == {m \in DOMAIN queue : queue[m].key = key}

\* enqueue(), called from the transaction of a local write.
Enqueue(m) ==
  /\ m \notin DOMAIN queue
  /\ \A n \in Mutation : n < m => n \in DOMAIN queue
  /\ queue' = [n \in DOMAIN queue \cup {m} |->
       IF n # m THEN queue[n]
       ELSE [status |-> "PENDING", version |-> 1, retries |-> 0,
             key |-> "an entity"]]
  /\ UNCHANGED <<calls, sent, delivered, disputed, faults, count>>

\* The application gives a conflicting mutation another value.
ResolveConflict(m) ==
  /\ m \in WithStatus("CONFLICT")
  /\ queue[m].version <= MaxResolved
  /\ queue' = [queue EXCEPT ![m] =
       [queue[m] EXCEPT !.status = "PENDING", !.retries = queue[m].retries + 1,
                        !.version = queue[m].version + 1]]
  /\ UNCHANGED <<calls, sent, delivered, disputed, faults, count>>

-----------------------------------------------------------------------------
(* Calls of the sender. *)

Nothing == [status |-> "none"]
Idle == [step |-> "idle", todo |-> <<>>, read |-> Nothing,
         outcome |-> "none", results |-> <<>>]

Init ==
  /\ queue = <<>>
  /\ calls = [s \in Call |-> Idle]
  /\ sent = <<>>
  /\ delivered = {}
  /\ disputed = {}
  /\ faults = {}
  /\ count = 0

Current(s) == Head(calls[s].todo)

\* The call goes on to its next mutation, or returns its results.
Proceed(s) ==
  IF Len(calls[s].todo) = 1
    THEN Idle
    ELSE [calls[s] EXCEPT !.step = "getForSend", !.todo = Tail(@),
                          !.read = Nothing, !.outcome = "none"]

Value(s) == [id |-> Current(s).id, version |-> Current(s).version]

SendPending(s) ==
  /\ calls[s].step = "idle"
  /\ LET busy == \E t \in Call : calls[t].step # "idle"
     IN /\ busy => "overlap" \in Faults /\ count < MaxFaults
        /\ faults' = IF busy THEN faults \cup {"overlap"} ELSE faults
        /\ count' = IF busy THEN count + 1 ELSE count
        /\ sent' = IF busy THEN <<>> ELSE sent
        /\ delivered' = IF busy THEN {} ELSE delivered
  /\ \E todo \in Dequeued :
       calls' = [calls EXCEPT ![s] =
         [Idle EXCEPT !.step = "getForSend", !.todo = todo]]
  /\ UNCHANGED <<queue, disputed>>

\* markInFlight and the calls that write an outcome: read the record, ...
Get(s) ==
  /\ calls[s].step \in {"getForSend", "getForOutcome"}
  /\ calls' = [calls EXCEPT
       ![s].step = IF @ = "getForSend" THEN "putInFlight" ELSE "putOutcome",
       ![s].read = queue[Current(s).id]]
  /\ UNCHANGED <<queue, sent, delivered, disputed, faults, count>>

\* ... and write it back with another status.
PutInFlight(s) ==
  /\ calls[s].step = "putInFlight"
  /\ queue' = [queue EXCEPT ![Current(s).id] =
       [calls[s].read EXCEPT !.status = "IN_FLIGHT"]]
  /\ calls' = [calls EXCEPT ![s].step = "send", ![s].read = Nothing]
  /\ UNCHANGED <<sent, delivered, disputed, faults, count>>

\* Wrong: a timeout is taken for a success, since the peer may well have it.
OptimisticOutcomeOf(class) ==
  IF class = "TRANSIENT" THEN "ACKNOWLEDGED"
  ELSE IF class = "CONFLICT" THEN "CONFLICT" ELSE "FAILED"

\* What handleSendError writes for an error of this class, whether or not
\* canRetry() holds.
OutcomeOf(class) == IF class = "CONFLICT" THEN "CONFLICT" ELSE "FAILED"

\* The class handleSendError reports to the caller.
Reported(class, retries) ==
  IF class \in {"TRANSIENT", "RATE_LIMITED", "UNKNOWN"} /\ retries >= MaxRetries
    THEN "PERMANENT" ELSE class

Result(s, class) == [id |-> Current(s).id, class |-> class]

\* The transport is given the current mutation, and the peer may take it.
Give(s, taken) ==
  LET kept == "overlap" \notin faults
  IN /\ sent' = IF kept THEN Append(sent, Value(s)) ELSE sent
     /\ delivered' = IF kept /\ taken THEN delivered \cup {Value(s)}
                                      ELSE delivered

\* The transport resolves: the peer has the mutation.
SendSucceeds(s) ==
  /\ calls[s].step = "send"
  /\ Give(s, TRUE)
  /\ calls' = [calls EXCEPT ![s].step = "getForOutcome",
                            ![s].outcome = "ACKNOWLEDGED",
                            ![s].results = Append(@, Result(s, "SUCCESS"))]
  /\ UNCHANGED <<queue, disputed, faults, count>>

\* An error by which the peer refuses a mutation over a conflict: it has a
\* status that says so, or else a code, or else a message.
Refuses(e) ==
  \/ e.status = 409
  \/ e.status = 0 /\ e.code \in ConflictCodes
  \/ e.status = 0 /\ e.code = "" /\ "conflict" \in e.words

\* The transport rejects; the peer may have the mutation all the same.
SendFails(s, e) ==
  LET class == Classify(e)
  IN /\ calls[s].step = "send"
     /\ \/ Give(s, FALSE)
        \/ class # "CONFLICT" /\ Give(s, TRUE)
     /\ disputed' = IF Refuses(e) THEN disputed \cup {Current(s).id}
                                 ELSE disputed
     /\ calls' = [calls EXCEPT
          ![s].step = "getForOutcome", ![s].outcome = OutcomeOf(class),
          ![s].results =
            Append(@, Result(s, Reported(class, Current(s).retries)))]
     /\ UNCHANGED <<queue, faults, count>>

\* acknowledge, markFailed and markConflict.
PutOutcome(s) ==
  /\ calls[s].step = "putOutcome"
  /\ queue' = [queue EXCEPT ![Current(s).id] =
       [calls[s].read EXCEPT !.status = calls[s].outcome]]
  /\ calls' = [calls EXCEPT ![s] = Proceed(s)]
  /\ UNCHANGED <<sent, delivered, disputed, faults, count>>

\* Wrong: the result of a delivered mutation stays a success.
StorageFailsUnreported(s) ==
  /\ calls[s].step \in {"getForSend", "putInFlight"} \/
     (calls[s].outcome = "ACKNOWLEDGED" /\ calls[s].step # "send")
  /\ calls[s].step # "idle"
  /\ calls' = [calls EXCEPT
       ![s].step = "getForOutcome", ![s].outcome = "FAILED",
       ![s].read = Nothing]

\* A storage call of sendOne rejects: its catch block handles the error as
\* one of the transport's, even after the mutation was delivered.
StorageFailsInSend(s) ==
  /\ calls[s].step \in {"getForSend", "putInFlight"} \/
     (calls[s].outcome = "ACKNOWLEDGED" /\ calls[s].step # "send")
  /\ calls[s].step # "idle"
  /\ LET reported == Reported(Classify(StorageError), Current(s).retries)
         results == IF calls[s].outcome = "none" THEN calls[s].results
                                                 ELSE Front(calls[s].results)
     IN calls' = [calls EXCEPT
          ![s].step = "getForOutcome", ![s].outcome = "FAILED",
          ![s].read = Nothing,
          ![s].results = Append(results, Result(s, reported))]

\* One of the catch block rejects: sendPending() rejects, and the rest of
\* its mutations are not tried.
StorageFailsInCatch(s) ==
  /\ calls[s].step \in {"getForOutcome", "putOutcome"}
  /\ calls[s].outcome \in {"FAILED", "CONFLICT"}
  /\ calls' = [calls EXCEPT ![s] = Idle]

StorageFails(s) ==
  /\ "storage" \in Faults
  /\ count < MaxFaults
  /\ StorageFailsInSend(s) \/ StorageFailsInCatch(s)
  /\ faults' = faults \cup {"storage"}
  /\ count' = count + 1
  /\ UNCHANGED <<queue, sent, delivered, disputed>>

\* retryMutation() looks among the mutations of the entity '' of the
\* collection '', of which there are none: it returns null.
RetryMutation(s, m) ==
  /\ calls[s].step = "idle"
  /\ m \in DOMAIN queue
  /\ IF m \in GetMutationsForEntity("no entity") /\ queue[m].retries < MaxRetries
       THEN /\ queue' = [queue EXCEPT ![m].status = "IN_FLIGHT",
                                      ![m].retries = @ + 1]
            /\ calls' = [calls EXCEPT ![s] = [Idle EXCEPT
                 !.step = "getForSend",
                 !.todo = <<[id |-> m, version |-> queue[m].version,
                             retries |-> queue[m].retries]>>]]
       ELSE /\ calls' = [calls EXCEPT ![s] = Idle]
            /\ UNCHANGED queue
  /\ UNCHANGED <<sent, delivered, disputed, faults, count>>

\* Wrong: nothing is reset after a crash.
RestartOnly ==
  /\ "crash" \in Faults
  /\ count < MaxFaults
  /\ calls' = [s \in Call |-> Idle]
  /\ faults' = faults \cup {"crash"}
  /\ count' = count + 1
  /\ UNCHANGED <<queue, sent, delivered, disputed>>

\* The process dies and starts again; RecoveryManager resets what was in
\* flight before anything else runs.
Restart ==
  /\ "crash" \in Faults
  /\ count < MaxFaults
  /\ calls' = [s \in Call |-> Idle]
  /\ queue' = [m \in DOMAIN queue |->
       IF queue[m].status = "IN_FLIGHT"
         THEN [queue[m] EXCEPT !.status = "PENDING"] ELSE queue[m]]
  /\ faults' = faults \cup {"crash"}
  /\ count' = count + 1
  /\ UNCHANGED <<sent, delivered, disputed>>

Sender(s) ==
  \/ SendPending(s) \/ Get(s) \/ PutInFlight(s) \/ PutOutcome(s)
  \/ SendSucceeds(s) \/ \E e \in TransportError : SendFails(s, e)

Next ==
  \/ \E m \in Mutation : Enqueue(m) \/ ResolveConflict(m)
  \/ \E s \in Call :
       \/ Sender(s) \/ StorageFails(s)
       \/ \E m \in Mutation : RetryMutation(s, m)
  \/ Restart

Spec == Init /\ [][Next]_vars

-----------------------------------------------------------------------------
(* Properties. *)

CallState ==
  [step: {"idle", "getForSend", "putInFlight", "send", "getForOutcome",
          "putOutcome"},
   todo: Seq([id: Mutation, version: Nat, retries: Nat]),
   read: Record \cup {Nothing}, outcome: Settled \cup {"none"},
   results: Seq([id: Mutation, class: ErrorClassification \cup {"SUCCESS"}])]

TypeOK ==
  /\ DOMAIN queue \subseteq Mutation
  /\ \A m \in DOMAIN queue : queue[m] \in Record
  /\ calls \in [Call -> CallState]
  /\ \A s \in Call : calls[s].step = "idle" <=> calls[s].todo = <<>>
  /\ sent \in Seq([id: Mutation, version: Nat])
  /\ delivered \subseteq [id: Mutation, version: Nat]
  /\ disputed \subseteq Mutation
  /\ faults \subseteq Faults
  /\ count \in 0..MaxFaults

SentBefore(m, p) == \E q \in 1..(p - 1) : sent[q].id = m

\* Mutations are first sent in the order of their sequence numbers, whatever
\* fails, crashes or is resolved in between, as long as calls do not overlap;
\* only one the sender never got as far as sending is passed over (INV-1).
SentInOrder ==
  "overlap" \notin faults =>
    \A p \in DOMAIN sent, m \in DOMAIN queue :
      m < sent[p].id =>
        \/ SentBefore(m, p)
        \/ /\ \A q \in DOMAIN sent : sent[q].id # m
           /\ queue[m].status = "FAILED"

\* What is marked ACKNOWLEDGED is a value the peer has: an answer for the
\* value of before a conflict was resolved is never taken for it (INV-4).
AcknowledgedWasDelivered ==
  "overlap" \notin faults =>
    \A m \in WithStatus("ACKNOWLEDGED") :
      [id |-> m, version |-> queue[m].version] \in delivered

\* Nothing is left behind IN_FLIGHT: some call is sending it, even when calls
\* overlap and overwrite each other's records, unless storage failed at the
\* attempt to write the outcome.
InFlightIsBeingSent ==
  "storage" \notin faults =>
    \A m \in WithStatus("IN_FLIGHT") :
      \E s \in Call : calls[s].todo # <<>> /\ Current(s).id = m

\* The application is asked to settle a conflict only for a mutation the peer
\* refused for that reason; the others are not blocked by the question.
ConflictWasReported ==
  WithStatus("CONFLICT") \subseteq disputed

\* The status of every mutation is true, wherever a call, a storage error or
\* a crash has left it: under way while a call sends it, taken by the peer if
\* acknowledged, refused by it if in conflict.
StatusIsTrue ==
  TypeOK /\ AcknowledgedWasDelivered /\ InFlightIsBeingSent
    /\ ConflictWasReported

\* The results a call returns are what the queue says, whatever failed in
\* between: a success is acknowledged, a conflict waits for a decision or has
\* been decided, anything else is failed.
ResultsMatchQueue ==
  [][\A s \in Call :
       (/\ calls[s].step = "putOutcome"
        /\ calls'[s].step = "idle" /\ count' = count
        /\ "overlap" \notin faults)
       => \A i \in DOMAIN calls[s].results :
            LET r == calls[s].results[i]
                status == queue'[r.id].status
            IN CASE r.class = "SUCCESS"  -> status = "ACKNOWLEDGED"
                 [] r.class = "CONFLICT" -> status \in {"CONFLICT", "PENDING"}
                 [] OTHER                -> status = "FAILED"]_vars

-----------------------------------------------------------------------------
(* Fairness: the application calls sendPending() again and again, and every *)
(* promise of the queue and of the transport settles.                       *)

FairSpec == Spec /\ \A s \in Call : WF_vars(Sender(s))

\* Unless storage fails, every mutation gets an outcome: no overlap of calls,
\* limit on a batch or crash leaves one waiting for ever (INV-4).
EveryMutationSettles ==
  []("storage" \notin faults) =>
    \A m \in Mutation :
      m \in DOMAIN queue ~> m \in DOMAIN queue /\ queue[m].status \in Settled

\* "Retry transient failures with exponential backoff (INV-9)": a mutation
\* that failed for a passing reason is sent again if the application asks for
\* it again and again.
RetrySpec == FairSpec /\ \A s \in Call, m \in Mutation : WF_vars(RetryMutation(s, m))

FailedIsRetried ==
  \A m \in Mutation :
    (m \in WithStatus("FAILED") /\ queue[m].retries < MaxRetries)
      ~> (m \notin WithStatus("FAILED"))
=============================================================================
