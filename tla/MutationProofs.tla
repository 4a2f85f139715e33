---------------------------- MODULE MutationProofs ----------------------------
(***************************************************************************)
(* Proofs about what becomes of a queued mutation, for any values of the   *)
(* constants: MutationSender, which sends it, and ConflictResolution,      *)
(* which resolves its conflicts.                                           *)
(*                                                                         *)
(* The status of every mutation is true whatever overlaps, fails or        *)
(* crashes.  Two parts of it need nothing but themselves: every step that  *)
(* leaves a mutation IN_FLIGHT or in conflict is of a call that has it     *)
(* first.                                                                  *)
(*                                                                         *)
(* The order of sending, what the peer has taken and what a call reports   *)
(* need that one call is under way at a time.  Then the copies it holds    *)
(* are those of the queue (TodoIsCurrent), it passes over nothing but what *)
(* was sent or has failed (NothingSkipped), and the results of what it is  *)
(* done with stand (ResultsStand).                                         *)
(*                                                                         *)
(* A retry changes the server's entity as the resolver decided, since it   *)
(* waits under the revision the resolution was made of (RetryStands).      *)
(***************************************************************************)
EXTENDS MutationSender, ConflictResolution, SequenceTheorems,
        WellFoundedInduction, TLAPS

-----------------------------------------------------------------------------
(* The invariant. *)

Sending == {"getForSend", "putInFlight", "send"}
Settling == {"getForOutcome", "putOutcome"}

\* What a step reads of the call and of its record.
CallTypes ==
  \A s \in Call :
    /\ calls[s].step = "idle" => calls[s] = Idle
    /\ calls[s].step \in Sending => calls[s].outcome = "none"
    /\ calls[s].step \in Settling =>
         calls[s].outcome \in Settled /\ calls[s].results # <<>>
    /\ calls[s].step \in {"putInFlight", "putOutcome"} =>
         calls[s].read \in Record /\ calls[s].read.key = "an entity"
    /\ \A i \in DOMAIN calls[s].todo : calls[s].todo[i].id \in DOMAIN queue

\* The queue has no gaps, and its mutations belong to entities.
QueueTypes ==
  /\ \A m \in DOMAIN queue : queue[m].key = "an entity"
  /\ \A m \in DOMAIN queue, n \in Mutation : n < m => n \in DOMAIN queue

SenderTypes == TypeOK /\ CallTypes /\ QueueTypes

\* An outcome that is about to be written is as true as one that is.
ConflictIsReported ==
  \A s \in Call :
    calls[s].outcome = "CONFLICT" => calls[s].todo[1].id \in disputed

StatusInv ==
  SenderTypes /\ InFlightIsBeingSent /\ ConflictWasReported /\ ConflictIsReported

-----------------------------------------------------------------------------
(* As long as calls do not overlap.                                         *)

OneCall ==
  \A s, t \in Call :
    (calls[s].step # "idle" /\ calls[t].step # "idle") => s = t

\* The copies a call holds are those of the queue: none is resolved while it
\* waits for its turn, and what the call has read is what it overwrites.
TodoIsCurrent(c) ==
  /\ \A i, j \in DOMAIN c.todo : i < j => c.todo[i].id < c.todo[j].id
  /\ \A i \in DOMAIN c.todo :
       /\ queue[c.todo[i].id].version = c.todo[i].version
       /\ i > 1 => queue[c.todo[i].id].status = "PENDING"
  /\ c.step \in {"getForSend", "putInFlight"} =>
       queue[c.todo[1].id].status = "PENDING"
  /\ c.step = "send" => queue[c.todo[1].id].status = "IN_FLIGHT"
  /\ c.step \in Settling =>
       queue[c.todo[1].id].status \in {"PENDING", "IN_FLIGHT"}
  /\ c.step \in {"putInFlight", "putOutcome"} => c.read = queue[c.todo[1].id]

\* A success is about to be written only for a value the peer has.
OutcomeIsDelivered(c) ==
  c.outcome = "ACKNOWLEDGED" =>
    [id |-> c.todo[1].id, version |-> c.todo[1].version] \in delivered

WasSent(m) == \E p \in DOMAIN sent : sent[p].id = m

\* A call passes over nothing but what was sent or has failed.
NothingSkipped(c) ==
  /\ c.step \in Settling => WasSent(c.todo[1].id) \/ c.outcome = "FAILED"
  /\ \A i \in DOMAIN c.todo : \A m \in DOMAIN queue :
       m < c.todo[i].id =>
         \/ \E j \in 1..(i - 1) : c.todo[j].id = m
         \/ WasSent(m)
         \/ queue[m].status = "FAILED"

\* What a result says of a status.
Match(class, status) ==
  CASE class = "SUCCESS"  -> status = "ACKNOWLEDGED"
    [] class = "CONFLICT" -> status \in {"CONFLICT", "PENDING"}
    [] OTHER              -> status = "FAILED"

\* The result of a mutation the call is done with.
Stands(c, r) ==
  /\ r.id \in DOMAIN queue
  /\ Match(r.class, queue[r.id].status)
  /\ \A i \in DOMAIN c.todo : c.todo[i].id # r.id

ResultsStand(c) ==
  /\ \A k \in DOMAIN c.results :
       c.step \in Sending \/ k < Len(c.results) => Stands(c, c.results[k])
  /\ c.step \in Settling =>
       /\ c.results[Len(c.results)].id = c.todo[1].id
       /\ Match(c.results[Len(c.results)].class, c.outcome)

CallIsTrue(c) ==
  TodoIsCurrent(c) /\ OutcomeIsDelivered(c) /\ NothingSkipped(c) /\ ResultsStand(c)

PeerHasIt ==
  \A m \in DOMAIN queue : queue[m].status = "ACKNOWLEDGED" =>
    [id |-> m, version |-> queue[m].version] \in delivered

SentIsQueued == \A p \in DOMAIN sent : sent[p].id \in DOMAIN queue

BeingSent(m) == \E s \in Call : calls[s].step = "send" /\ calls[s].todo[1].id = m

\* What was not sent waits, has failed, or is about to be sent.
UnsentWaits ==
  \A m \in DOMAIN queue :
    \/ WasSent(m)
    \/ queue[m].status \in {"PENDING", "FAILED"}
    \/ queue[m].status = "IN_FLIGHT" /\ BeingSent(m)

SentFirst ==
  \A p \in DOMAIN sent, m \in DOMAIN queue :
    m < sent[p].id =>
      SentBefore(m, p) \/ (~WasSent(m) /\ queue[m].status = "FAILED")

HistoryIsTrue == PeerHasIt /\ SentIsQueued /\ UnsentWaits /\ SentFirst

AloneInv ==
  "overlap" \notin faults =>
    /\ OneCall
    /\ \A s \in Call : CallIsTrue(calls[s])
    /\ HistoryIsTrue

SenderInv == StatusInv /\ AloneInv

-----------------------------------------------------------------------------
(* What the operators give. *)

\* An error that is classified as a conflict is one by which the peer refuses.
LEMMA Classified ==
  ASSUME NEW e
  PROVE  /\ Classify(e) \in ErrorClassification
         /\ Classify(e) = "CONFLICT" => Refuses(e)
<1>1. /\ ClassifyByHttpStatus(e.status) \in ErrorClassification
      /\ ClassifyByHttpStatus(e.status) = "CONFLICT" => e.status = 409
  BY DEF ClassifyByHttpStatus, ErrorClassification
<1>2. /\ ClassifyByErrorCode(e.code) \in ErrorClassification
      /\ ClassifyByErrorCode(e.code) = "CONFLICT" => e.code \in ConflictCodes
  BY DEF ClassifyByErrorCode, ErrorClassification
<1>3. /\ ClassifyByMessage(e.words) \in ErrorClassification
      /\ ClassifyByMessage(e.words) = "CONFLICT" => "conflict" \in e.words
  BY DEF ClassifyByMessage, ErrorClassification
<1>4. QED BY <1>1, <1>2, <1>3 DEF Classify, Refuses

\* The class a call reports goes with the outcome it writes.
LEMMA ReportedMatches ==
  ASSUME NEW class \in ErrorClassification, NEW retries
  PROVE  /\ Reported(class, retries) \in ErrorClassification
         /\ Match(Reported(class, retries), OutcomeOf(class))
BY DEF ErrorClassification, Reported, OutcomeOf, Match

\* An error of the storage makes a failure.
LEMMA StorageIsUnknown ==
  ASSUME NEW retries
  PROVE  /\ Reported(Classify(StorageError), retries) \in ErrorClassification
         /\ Match(Reported(Classify(StorageError), retries), "FAILED")
<1>1. Classify(StorageError) = "UNKNOWN"
  BY DEF Classify, StorageError, ClassifyByErrorCode, RateCodes, AuthCodes,
         ConflictCodes, NetworkCodes
<1>2. Classify(StorageError) \in ErrorClassification /\ OutcomeOf(Classify(StorageError)) = "FAILED"
  BY <1>1 DEF ErrorClassification, OutcomeOf
<1>3. QED BY <1>2, ReportedMatches

Entry == [id: Mutation, version: Nat, retries: Nat]

\* The fields of a call.
LEMMA CallFields ==
  ASSUME SenderTypes, NEW s \in Call
  PROVE  /\ calls[s] \in CallState
         /\ calls[s].todo \in Seq(Entry)
         /\ calls[s].step # "idle" =>
              /\ calls[s].todo # <<>>
              /\ 1 \in DOMAIN calls[s].todo
              /\ Current(s) = calls[s].todo[1]
              /\ Current(s) \in Entry
              /\ Current(s).id \in DOMAIN queue
              /\ Value(s) \in [id: Mutation, version: Nat]
              /\ Value(s).id = Current(s).id
              /\ Value(s).version = Current(s).version
<1>1. calls[s] \in CallState /\ (calls[s].step = "idle" <=> calls[s].todo = <<>>)
  BY DEF SenderTypes, TypeOK
<1>2. calls[s].todo \in Seq(Entry)
  BY <1>1 DEF CallState, Entry
<1>3. ASSUME calls[s].step # "idle"
      PROVE  /\ calls[s].todo # <<>>
             /\ 1 \in DOMAIN calls[s].todo
             /\ Current(s) = calls[s].todo[1]
             /\ Current(s) \in Entry
  BY <1>1, <1>2, <1>3 DEF Current
<1>4. ASSUME calls[s].step # "idle" PROVE Current(s).id \in DOMAIN queue
  BY <1>3, <1>4 DEF SenderTypes, CallTypes
<1>5. ASSUME calls[s].step # "idle"
      PROVE  /\ Value(s) \in [id: Mutation, version: Nat]
             /\ Value(s).id = Current(s).id
             /\ Value(s).version = Current(s).version
  BY <1>3, <1>5 DEF Value, Entry
<1>6. QED BY <1>1, <1>2, <1>3, <1>4, <1>5

LEMMA RecordFields ==
  ASSUME NEW r \in Record
  PROVE  r.version \in Nat /\ r.retries \in Nat /\ r.status \in MutationStatus
BY DEF Record

LEMMA CopyIsEntry ==
  ASSUME NEW m \in Mutation, NEW r \in Record
  PROVE  [id |-> m, version |-> r.version, retries |-> r.retries] \in Entry
BY DEF Entry, Record

\* A batch holds what is pending, in order and without gaps.
LEMMA DequeuedIs ==
  ASSUME SenderTypes, NEW todo \in Dequeued
  PROVE  /\ todo \in Seq(Entry) /\ todo # <<>>
         /\ \A i \in DOMAIN todo :
              /\ todo[i].id \in WithStatus("PENDING")
              /\ todo[i].version = queue[todo[i].id].version
         /\ \A i, j \in DOMAIN todo : i < j => todo[i].id < todo[j].id
         /\ \A i \in DOMAIN todo, m \in WithStatus("PENDING") :
              m < todo[i].id => \E j \in 1..(i - 1) : todo[j].id = m
<1> DEFINE pending == WithStatus("PENDING")
<1>1. PICK n \in 1..Limit : \E t \in [1..n -> pending] :
        /\ todo = Copies(t) /\ InOrder(t)
        /\ \A m \in pending \ ToSet(t) : Len(t) = Limit /\ \A i \in DOMAIN t : t[i] < m
  BY DEF Dequeued
<1>2. PICK t \in [1..n -> pending] :
        /\ todo = Copies(t) /\ InOrder(t)
        /\ \A m \in pending \ ToSet(t) : Len(t) = Limit /\ \A i \in DOMAIN t : t[i] < m
  BY <1>1
<1>3. n \in Nat \ {0} /\ DOMAIN t = 1..n
  BY SenderConstants
<1>4. pending \subseteq Mutation /\ \A m \in pending : m \in DOMAIN queue /\ m \in Nat
  BY SenderConstants DEF WithStatus, SenderTypes, TypeOK
<1>5. DOMAIN todo = 1..n /\ \A i \in 1..n :
        /\ todo[i] = [id |-> t[i], version |-> queue[t[i]].version,
                      retries |-> queue[t[i]].retries]
        /\ t[i] \in pending
  BY <1>2, <1>3 DEF Copies
<1>6. ASSUME NEW i \in 1..n PROVE todo[i] \in Entry
  <2>1. t[i] \in Mutation /\ queue[t[i]] \in Record
    BY <1>4, <1>5 DEF SenderTypes, TypeOK
  <2>2. [id |-> t[i], version |-> queue[t[i]].version,
         retries |-> queue[t[i]].retries] \in Entry
    BY <2>1, CopyIsEntry
  <2>3. QED BY <1>5, <2>2
<1>7. todo = [i \in 1..n |-> todo[i]]
  BY <1>2, <1>3 DEF Copies
<1>8. todo \in Seq(Entry) /\ todo # <<>>
  <2>1. todo \in [1..n -> Entry]
    BY <1>6, <1>7
  <2>2. QED BY <1>3, <1>5, <2>1
<1>9. \A i, j \in DOMAIN todo : i < j => todo[i].id < todo[j].id
  BY <1>2, <1>3, <1>5 DEF InOrder
<1>10. ASSUME NEW i \in DOMAIN todo, NEW m \in pending, m < todo[i].id
       PROVE  \E j \in 1..(i - 1) : todo[j].id = m
  <2>1. m \in ToSet(t)
    <3>1. SUFFICES ASSUME m \notin ToSet(t) PROVE FALSE
      OBVIOUS
    <3>2. t[i] < m /\ t[i] \in Nat /\ m \in Nat /\ t[i] = todo[i].id
      BY <1>2, <1>3, <1>4, <1>5, <1>10, <3>1
    <3>3. QED BY <1>10, <3>2
  <2>2. PICK j \in 1..n : t[j] = m
    BY <1>3, <2>1 DEF ToSet
  <2>3. todo[j].id = m /\ todo[i].id = t[i] /\ t[i] \in Nat /\ m \in Nat
    BY <1>4, <1>5, <1>10, <2>2
  <2>4. j < i
    <3>1. CASE i < j
      BY <1>2, <1>3, <1>5, <1>10, <2>2, <2>3, <3>1 DEF InOrder
    <3>2. CASE i = j
      BY <1>10, <2>3, <3>2
    <3>3. QED BY <1>3, <1>5, <3>1, <3>2
  <2>5. QED BY <1>3, <1>5, <2>3, <2>4
<1>11. \A i \in DOMAIN todo :
          todo[i].id \in pending /\ todo[i].version = queue[todo[i].id].version
  BY <1>5
<1>12. QED BY <1>8, <1>9, <1>10, <1>11

-----------------------------------------------------------------------------
(* What the steps do. *)

Answer == [id: Mutation, class: ErrorClassification \cup {"SUCCESS"}]

\* What a call is in any state.
CallFits(c) ==
  /\ c.step = "idle" <=> c.todo = <<>>
  /\ c.step = "idle" => c = Idle
  /\ c.step \in Sending => c.outcome = "none"
  /\ c.step \in Settling => c.outcome \in Settled /\ c.results # <<>>
  /\ c.step \in {"putInFlight", "putOutcome"} =>
       c.read \in Record /\ c.read.key = "an entity"
  /\ \A i \in DOMAIN c.todo : c.todo[i].id \in DOMAIN queue

LEMMA FrontIs ==
  ASSUME NEW T, NEW q \in Seq(T), q # <<>>
  PROVE  /\ Front(q) \in Seq(T)
         /\ Len(Front(q)) = Len(q) - 1
         /\ \A i \in 1..(Len(q) - 1) : Front(q)[i] = q[i]
<1>1. Len(q) \in Nat \ {0} /\ \A i \in 1..(Len(q) - 1) : q[i] \in T
  OBVIOUS
<1>2. /\ SubSeq(q, 1, Len(q) - 1) \in Seq(T)
      /\ Len(SubSeq(q, 1, Len(q) - 1)) = Len(q) - 1
      /\ \A i \in 1..(Len(q) - 1) : SubSeq(q, 1, Len(q) - 1)[i] = q[i]
  <2> DEFINE n == Len(q) - 1
  <2>1. n \in Int /\ 1 \in Int /\ n >= 0 /\ \A i \in 1..n : q[i] \in T
    BY <1>1
  <2> HIDE DEF n
  <2>2. /\ SubSeq(q, 1, n) \in Seq(T)
        /\ Len(SubSeq(q, 1, n)) = IF 1 <= n THEN n - 1 + 1 ELSE 0
        /\ \A i \in 1..(n - 1 + 1) : SubSeq(q, 1, n)[i] = q[1 + i - 1]
    BY <2>1, SubSeqProperties
  <2>3. Len(SubSeq(q, 1, n)) = n
    BY <2>1, <2>2
  <2>4. \A i \in 1..n : SubSeq(q, 1, n)[i] = q[i]
    BY <2>1, <2>2
  <2>5. QED BY <2>2, <2>3, <2>4 DEF n
<1>3. QED BY <1>2 DEF Front

LEMMA TailIs ==
  ASSUME NEW T, NEW q \in Seq(T), q # <<>>
  PROVE  /\ Tail(q) \in Seq(T)
         /\ Len(Tail(q)) = Len(q) - 1
         /\ \A i \in 1..(Len(q) - 1) : Tail(q)[i] = q[i + 1]
OBVIOUS

LEMMA Idles == Idle \in CallState /\ CallFits(Idle)
<1>1. <<>> \in Seq([id: Mutation, version: Nat, retries: Nat])
      /\ <<>> \in Seq(Answer)
  OBVIOUS
<1>2. Idle \in CallState
  BY <1>1 DEF Idle, CallState, Answer
<1>3. CallFits(Idle)
  BY DEF CallFits, Idle, Sending, Settling
<1>4. QED BY <1>2, <1>3

\* A call that answers: it has a result of this class, and an outcome to write.
Answered(s, done, class, o) ==
  /\ calls' = [calls EXCEPT ![s] = calls'[s]]
  /\ calls'[s] \in CallState
  /\ calls'[s].step = "getForOutcome"
  /\ calls'[s].todo = calls[s].todo
  /\ calls'[s].outcome = o
  /\ calls'[s].results = Append(done, Result(s, class))
  /\ class \in ErrorClassification \cup {"SUCCESS"} /\ o \in Settled /\ Match(class, o)
  /\ UNCHANGED queue

LEMMA SendPendingDoes ==
  ASSUME SenderTypes, NEW s \in Call, SendPending(s)
  PROVE  /\ calls[s] = Idle
         /\ calls' = [calls EXCEPT ![s] = calls'[s]]
         /\ calls'[s].step = "getForSend"
         /\ calls'[s].todo \in Dequeued
         /\ calls'[s].outcome = "none"
         /\ calls'[s].results = <<>>
         /\ calls'[s] \in CallState
         /\ UNCHANGED <<queue, disputed>>
<1>1. calls[s] = Idle
  BY DEF SendPending, SenderTypes, CallTypes
<1>2. PICK todo \in Dequeued :
        calls' = [calls EXCEPT ![s] = [Idle EXCEPT !.step = "getForSend", !.todo = todo]]
  BY DEF SendPending
<1>3. calls'[s] = [Idle EXCEPT !.step = "getForSend", !.todo = todo]
  BY <1>2 DEF SenderTypes, TypeOK
<1>4. Idle \in CallState /\ todo \in Seq(Entry)
  BY Idles, DequeuedIs
<1>5. /\ calls'[s] \in CallState
      /\ calls'[s].step = "getForSend"
      /\ calls'[s].todo = todo
      /\ calls'[s].outcome = "none"
      /\ calls'[s].results = <<>>
  BY <1>3, <1>4 DEF CallState, Idle, Entry, Answer
<1>6. calls' = [calls EXCEPT ![s] = calls'[s]]
  BY <1>2, <1>3
<1>7. QED BY <1>1, <1>5, <1>6 DEF SendPending

LEMMA GetDoes ==
  ASSUME SenderTypes, NEW s \in Call, Get(s)
  PROVE  /\ calls' = [calls EXCEPT ![s] = calls'[s]]
         /\ calls'[s].step = IF calls[s].step = "getForSend" THEN "putInFlight"
                                                             ELSE "putOutcome"
         /\ calls'[s].todo = calls[s].todo
         /\ calls'[s].read = queue[Current(s).id]
         /\ calls'[s].outcome = calls[s].outcome
         /\ calls'[s].results = calls[s].results
         /\ calls'[s] \in CallState
         /\ UNCHANGED <<queue, sent, delivered, disputed, faults, count>>
<1>1. calls \in [Call -> CallState] /\ calls[s] \in CallState /\ calls[s].step # "idle"
  BY DEF Get, SenderTypes, TypeOK
<1>2. queue[Current(s).id] \in Record
  BY <1>1, CallFields DEF SenderTypes, TypeOK
<1>3. QED BY <1>1, <1>2 DEF Get, CallState, Answer

LEMMA PutInFlightDoes ==
  ASSUME SenderTypes, NEW s \in Call, PutInFlight(s)
  PROVE  /\ calls' = [calls EXCEPT ![s] = calls'[s]]
         /\ calls'[s].step = "send"
         /\ calls'[s].todo = calls[s].todo
         /\ calls'[s].outcome = calls[s].outcome
         /\ calls'[s].results = calls[s].results
         /\ calls'[s] \in CallState
         /\ queue' = [queue EXCEPT ![Current(s).id] =
              [calls[s].read EXCEPT !.status = "IN_FLIGHT"]]
         /\ [calls[s].read EXCEPT !.status = "IN_FLIGHT"] \in Record
         /\ UNCHANGED <<sent, delivered, disputed, faults, count>>
<1>1. calls \in [Call -> CallState] /\ calls[s] \in CallState /\ calls[s].step = "putInFlight"
  BY DEF PutInFlight, SenderTypes, TypeOK
<1>2. calls[s].read \in Record
  BY <1>1 DEF SenderTypes, CallTypes
<1>3. QED BY <1>1, <1>2 DEF PutInFlight, CallState, Record, MutationStatus, Answer

LEMMA PutOutcomeDoes ==
  ASSUME SenderTypes, NEW s \in Call, PutOutcome(s)
  PROVE  /\ queue' = [queue EXCEPT ![Current(s).id] =
              [calls[s].read EXCEPT !.status = calls[s].outcome]]
         /\ [calls[s].read EXCEPT !.status = calls[s].outcome] \in Record
         /\ calls[s].outcome \in Settled
         /\ UNCHANGED <<sent, delivered, disputed, faults, count>>
         /\ calls' = [calls EXCEPT ![s] = calls'[s]]
         /\ \/ /\ Len(calls[s].todo) = 1
               /\ calls'[s] = Idle
            \/ /\ calls[s].todo # <<>>
               /\ Tail(calls[s].todo) # <<>>
               /\ calls'[s] = [step |-> "getForSend", todo |-> Tail(calls[s].todo),
                               read |-> Nothing, outcome |-> "none",
                               results |-> calls[s].results]
<1>1. calls \in [Call -> CallState] /\ calls[s] \in CallState /\ calls[s].step = "putOutcome"
  BY DEF PutOutcome, SenderTypes, TypeOK
<1>2. calls[s].read \in Record /\ calls[s].outcome \in Settled
  BY <1>1 DEF SenderTypes, CallTypes, Settling
<1>3. [calls[s].read EXCEPT !.status = calls[s].outcome] \in Record
  BY <1>2 DEF Record, MutationStatus
<1>4. calls[s].todo \in Seq(Entry) /\ calls[s].todo # <<>>
  BY <1>1, CallFields
<1>5. calls' = [calls EXCEPT ![s] = calls'[s]] /\ calls'[s] = Proceed(s)
  BY <1>1 DEF PutOutcome
<1>6. CASE Len(calls[s].todo) = 1
  BY <1>2, <1>3, <1>5, <1>6 DEF PutOutcome, Proceed
<1>7. CASE Len(calls[s].todo) # 1
  <2>1. Tail(calls[s].todo) # <<>>
    <3>1. Len(calls[s].todo) \in Nat \ {0, 1}
      BY <1>4, <1>7
    <3>2. Len(Tail(calls[s].todo)) # 0
      BY <1>4, <3>1, TailIs
    <3>3. QED BY <1>4, <3>2, TailIs, EmptySeq
  <2>2. Proceed(s) = [step |-> "getForSend", todo |-> Tail(calls[s].todo),
                      read |-> Nothing, outcome |-> "none",
                      results |-> calls[s].results]
    BY <1>1, <1>7 DEF Proceed, CallState, Answer
  <2>3. QED BY <1>2, <1>3, <1>4, <1>5, <2>1, <2>2 DEF PutOutcome
<1>8. QED BY <1>6, <1>7

LEMMA SendDoes ==
  ASSUME SenderTypes, NEW s \in Call,
         SendSucceeds(s) \/ \E e \in TransportError : SendFails(s, e)
  PROVE  \E class \in ErrorClassification \cup {"SUCCESS"}, o \in Settled,
            taken \in BOOLEAN :
           /\ calls[s].step = "send"
           /\ Answered(s, calls[s].results, class, o)
           /\ Give(s, taken)
           /\ o = "ACKNOWLEDGED" => taken
           /\ disputed' \in {disputed, disputed \cup {Current(s).id}}
           /\ o = "CONFLICT" => Current(s).id \in disputed'
           /\ UNCHANGED faults
<1>1. /\ calls \in [Call -> CallState] /\ calls[s] \in CallState
      /\ calls[s].step = "send"
  BY CallFields DEF SendSucceeds, SendFails, SenderTypes, TypeOK
<1>2. Current(s).id \in Mutation
  BY <1>1, CallFields DEF Entry
<1>3. CASE SendSucceeds(s)
  <2>1. Result(s, "SUCCESS") \in Answer
    BY <1>2 DEF Answer, Result
  <2>2. Append(calls[s].results, Result(s, "SUCCESS")) \in Seq(Answer)
    BY <1>1, <2>1 DEF Answer, CallState
  <2>3. calls' = [calls EXCEPT ![s] = calls'[s]]
    BY <1>1, <1>3 DEF SendSucceeds
  <2>4. /\ calls'[s].step = "getForOutcome"
        /\ calls'[s].todo = calls[s].todo
        /\ calls'[s].outcome = "ACKNOWLEDGED"
        /\ calls'[s].results = Append(calls[s].results, Result(s, "SUCCESS"))
        /\ calls'[s] \in CallState
    BY <1>1, <1>3, <2>2 DEF SendSucceeds, CallState, Settled, Answer
  <2>5. Answered(s, calls[s].results, "SUCCESS", "ACKNOWLEDGED")
    BY <1>3, <2>3, <2>4 DEF SendSucceeds, Answered, Settled, Match
  <2>6. Give(s, TRUE) /\ disputed' = disputed /\ UNCHANGED faults
    BY <1>3 DEF SendSucceeds
  <2> "ACKNOWLEDGED" \in Settled
    BY DEF Settled
  <2> WITNESS "SUCCESS" \in ErrorClassification \cup {"SUCCESS"},
              "ACKNOWLEDGED" \in Settled, TRUE \in BOOLEAN
  <2>7. QED BY <1>1, <2>5, <2>6
<1>4. CASE \E e \in TransportError : SendFails(s, e)
  <2>1. PICK e \in TransportError : SendFails(s, e)
    BY <1>4
  <2> DEFINE class == Classify(e)
             reported == Reported(class, Current(s).retries)
  <2>2. class \in ErrorClassification /\ (class = "CONFLICT" => Refuses(e))
    BY Classified
  <2>3. reported \in ErrorClassification /\ Match(reported, OutcomeOf(class))
    BY <2>2, ReportedMatches
  <2>4. /\ calls' = [calls EXCEPT
             ![s].step = "getForOutcome", ![s].outcome = OutcomeOf(class),
             ![s].results = Append(@, Result(s, reported))]
        /\ (Give(s, FALSE) \/ (class # "CONFLICT" /\ Give(s, TRUE)))
        /\ disputed' = IF Refuses(e) THEN disputed \cup {Current(s).id} ELSE disputed
        /\ UNCHANGED <<queue, faults, count>>
    BY <2>1 DEF SendFails
  <2>5. OutcomeOf(class) \in {"CONFLICT", "FAILED"} /\ OutcomeOf(class) \in Settled
        /\ (OutcomeOf(class) = "CONFLICT" => class = "CONFLICT")
    BY DEF OutcomeOf, Settled
  <2> HIDE DEF class, reported
  <2>6. Result(s, reported) \in Answer
    BY <1>2, <2>3 DEF Answer, Result, ErrorClassification
  <2>7. Append(calls[s].results, Result(s, reported)) \in Seq(Answer)
    BY <1>1, <2>6 DEF Answer, CallState
  <2>8. calls' = [calls EXCEPT ![s] = calls'[s]]
    BY <1>1, <2>4
  <2>9. /\ calls'[s].step = "getForOutcome"
        /\ calls'[s].todo = calls[s].todo
        /\ calls'[s].outcome = OutcomeOf(class)
        /\ calls'[s].results = Append(calls[s].results, Result(s, reported))
        /\ calls'[s] \in CallState
    BY <1>1, <2>4, <2>5, <2>7 DEF Answer, CallState
  <2>10. Answered(s, calls[s].results, reported, OutcomeOf(class))
    BY <2>3, <2>4, <2>5, <2>8, <2>9 DEF Answered
  <2>11. PICK taken \in BOOLEAN : Give(s, taken)
    BY <2>4
  <2>12. /\ OutcomeOf(class) # "ACKNOWLEDGED"
         /\ disputed' \in {disputed, disputed \cup {Current(s).id}}
         /\ OutcomeOf(class) = "CONFLICT" => Current(s).id \in disputed'
    BY <2>2, <2>4, <2>5
  <2> reported \in ErrorClassification \cup {"SUCCESS"} /\ OutcomeOf(class) \in Settled
    BY <2>3, <2>5
  <2> WITNESS reported \in ErrorClassification \cup {"SUCCESS"},
              OutcomeOf(class) \in Settled, taken \in BOOLEAN
  <2>13. QED BY <1>1, <2>4, <2>10, <2>11, <2>12
<1>5. QED BY <1>3, <1>4

\* The results of what the call is done with.
Done(s) == IF calls[s].outcome = "none" THEN calls[s].results
                                        ELSE Front(calls[s].results)

LEMMA DoneIs ==
  ASSUME SenderTypes, NEW s \in Call
  PROVE  Done(s) \in Seq(Answer)
<1> DEFINE T == Answer
<1>1. /\ calls[s] \in CallState /\ calls[s].results \in Seq(T)
      /\ calls[s].outcome # "none" => calls[s].results # <<>>
  <2>1. calls[s] \in CallState /\ calls[s].results \in Seq(T)
    BY DEF SenderTypes, TypeOK, CallState, Answer
  <2>2. calls[s].step \in Sending \cup Settling \cup {"idle"}
    BY <2>1 DEF CallState, Sending, Settling, Answer
  <2>3. calls[s].step = "idle" => calls[s] = Idle /\ Idle.outcome = "none"
    BY DEF SenderTypes, CallTypes, Idle
  <2>4. QED BY <2>1, <2>2, <2>3 DEF SenderTypes, CallTypes
<1> HIDE DEF T
<1>2. calls[s].outcome # "none" => Front(calls[s].results) \in Seq(T)
  BY <1>1, FrontIs
<1>3. Done(s) \in Seq(T)
  BY <1>1, <1>2 DEF Done
<1>4. QED BY <1>3 DEF T

LEMMA StorageInSendDoes ==
  ASSUME SenderTypes, NEW s \in Call, StorageFailsInSend(s), UNCHANGED queue
  PROVE  \E class :
           /\ Answered(s, Done(s), class, "FAILED")
           /\ \/ calls[s].step \in {"getForSend", "putInFlight"}
              \/ calls[s].outcome = "ACKNOWLEDGED" /\ calls[s].step \in Settling
<1>1. /\ calls \in [Call -> CallState] /\ calls[s] \in CallState
      /\ calls[s].step # "idle"
      /\ \/ calls[s].step \in {"getForSend", "putInFlight"}
         \/ calls[s].outcome = "ACKNOWLEDGED" /\ calls[s].step \in Settling
  BY DEF StorageFailsInSend, SenderTypes, TypeOK, CallState, Settling, Answer
<1> DEFINE reported == Reported(Classify(StorageError), Current(s).retries)
<1>2. /\ calls' = [calls EXCEPT
           ![s].step = "getForOutcome", ![s].outcome = "FAILED",
           ![s].read = Nothing,
           ![s].results = Append(Done(s), Result(s, reported))]
  BY DEF StorageFailsInSend, Done
<1>3. reported \in ErrorClassification /\ Match(reported, "FAILED")
  BY StorageIsUnknown
<1> HIDE DEF reported
<1>4. Current(s).id \in Mutation
  BY <1>1, CallFields DEF Entry
<1>5. Result(s, reported) \in Answer
  BY <1>3, <1>4 DEF Answer, Result, ErrorClassification
<1>6. Append(Done(s), Result(s, reported)) \in Seq(Answer)
  BY <1>5, DoneIs
<1>7. calls' = [calls EXCEPT ![s] = calls'[s]]
  BY <1>1, <1>2
<1>8. /\ calls'[s].step = "getForOutcome"
      /\ calls'[s].todo = calls[s].todo
      /\ calls'[s].outcome = "FAILED"
      /\ calls'[s].results = Append(Done(s), Result(s, reported))
      /\ calls'[s] \in CallState
  BY <1>1, <1>2, <1>6 DEF Answer, CallState, Settled
<1>9. Answered(s, Done(s), reported, "FAILED")
  BY <1>3, <1>7, <1>8 DEF Answered, Settled
<1>10. QED BY <1>1, <1>9

\* retryMutation() changes nothing: every mutation belongs to an entity.
LEMMA RetryDoes ==
  ASSUME SenderTypes, NEW s \in Call, NEW m \in Mutation, RetryMutation(s, m)
  PROVE  UNCHANGED vars
<1>1. m \notin GetMutationsForEntity("no entity")
  BY DEF GetMutationsForEntity, SenderTypes, QueueTypes
<1>2. calls' = [calls EXCEPT ![s] = Idle] /\ calls[s] = Idle
  BY <1>1 DEF RetryMutation, SenderTypes, CallTypes
<1>3. calls' = calls
  BY <1>2 DEF SenderTypes, TypeOK
<1>4. QED BY <1>1, <1>3 DEF RetryMutation, vars

-----------------------------------------------------------------------------
(* Types. *)

\* A step of one call keeps the types of all.
LEMMA CallTypesStep ==
  ASSUME SenderTypes, NEW s \in Call, NEW c \in CallState, CallFits(c),
         calls' = [calls EXCEPT ![s] = c], DOMAIN queue' = DOMAIN queue
  PROVE  /\ calls' \in [Call -> CallState]
         /\ \A t \in Call : calls'[t].step = "idle" <=> calls'[t].todo = <<>>
         /\ CallTypes'
<1>1. calls' \in [Call -> CallState]
  BY DEF SenderTypes, TypeOK
<1>2. calls'[s] = c /\ \A t \in Call : t # s => calls'[t] = calls[t]
  BY DEF SenderTypes, TypeOK
<1>3. ASSUME NEW t \in Call PROVE CallFits(calls'[t])
  BY <1>2 DEF SenderTypes, TypeOK, CallTypes, CallFits
<1>4. \A t \in Call : calls'[t].step = "idle" <=> calls'[t].todo = <<>>
  BY <1>3 DEF CallFits
<1>5. CallTypes'
  BY <1>3 DEF CallFits, CallTypes
<1>6. QED BY <1>1, <1>4, <1>5

\* A change of one record keeps the types of all.
LEMMA QueueTypesStep ==
  ASSUME SenderTypes, NEW m \in DOMAIN queue, NEW r \in Record, r.key = "an entity",
         queue' = [queue EXCEPT ![m] = r]
  PROVE  /\ DOMAIN queue' = DOMAIN queue
         /\ \A n \in DOMAIN queue' : queue'[n] \in Record
         /\ QueueTypes'
         /\ queue'[m] = r
         /\ \A n \in DOMAIN queue : n # m => queue'[n] = queue[n]
<1>1. DOMAIN queue' = DOMAIN queue /\ queue'[m] = r
  OBVIOUS
<1>2. \A n \in DOMAIN queue : n # m => queue'[n] = queue[n]
  OBVIOUS
<1>3. \A n \in DOMAIN queue' : queue'[n] \in Record
  BY <1>1, <1>2 DEF SenderTypes, TypeOK
<1>4. QueueTypes'
  BY <1>1, <1>2 DEF SenderTypes, QueueTypes
<1>5. QED BY <1>1, <1>2, <1>3, <1>4

\* What is left of the types when the queue and the calls are settled.
LEMMA TypesCombine ==
  ASSUME SenderTypes,
         DOMAIN queue' = DOMAIN queue,
         \A n \in DOMAIN queue' : queue'[n] \in Record,
         QueueTypes',
         calls' \in [Call -> CallState],
         \A t \in Call : calls'[t].step = "idle" <=> calls'[t].todo = <<>>,
         CallTypes',
         sent' \in Seq([id: Mutation, version: Nat]),
         delivered' \subseteq [id: Mutation, version: Nat],
         disputed' \subseteq Mutation,
         faults' \subseteq Faults,
         count' \in 0..MaxFaults
  PROVE  SenderTypes'
BY DEF SenderTypes, TypeOK

LEMMA SendPendingTypes ==
  ASSUME SenderTypes, NEW s \in Call, SendPending(s)
  PROVE  SenderTypes'
<1>1. /\ calls' = [calls EXCEPT ![s] = calls'[s]] /\ calls'[s] \in CallState
      /\ calls'[s].step = "getForSend"
      /\ calls'[s].todo \in Dequeued
      /\ calls'[s].outcome = "none"
      /\ UNCHANGED <<queue, disputed>>
  BY SendPendingDoes
<1>2. /\ calls'[s].todo # <<>>
      /\ \A i \in DOMAIN calls'[s].todo : calls'[s].todo[i].id \in WithStatus("PENDING")
  BY <1>1, DequeuedIs
<1>3. CallFits(calls'[s])
  BY <1>1, <1>2 DEF CallFits, Sending, Settling, WithStatus
<1>5. DOMAIN queue' = DOMAIN queue
  BY <1>1
<1>6. /\ calls' \in [Call -> CallState] /\ CallTypes'
      /\ \A t \in Call : calls'[t].step = "idle" <=> calls'[t].todo = <<>>
  BY <1>1, <1>3, <1>5, CallTypesStep
<1>7. QueueTypes' /\ \A n \in DOMAIN queue' : queue'[n] \in Record
  BY <1>1 DEF QueueTypes, SenderTypes, TypeOK
<1>8. sent' \in Seq([id: Mutation, version: Nat])
      /\ delivered' \subseteq [id: Mutation, version: Nat]
  BY DEF SendPending, SenderTypes, TypeOK
<1>9. faults' \subseteq Faults /\ count' \in 0..MaxFaults
  BY SenderConstants DEF SendPending, SenderTypes, TypeOK
<1>10. disputed' \subseteq Mutation
  BY <1>1 DEF SenderTypes, TypeOK
<1>11. QED BY <1>5, <1>6, <1>7, <1>8, <1>9, <1>10, TypesCombine

LEMMA GetTypes ==
  ASSUME SenderTypes, NEW s \in Call, Get(s)
  PROVE  SenderTypes'
<1>1. /\ calls' = [calls EXCEPT ![s] = calls'[s]] /\ calls'[s] \in CallState
      /\ calls'[s].step = IF calls[s].step = "getForSend" THEN "putInFlight"
                                                          ELSE "putOutcome"
      /\ calls'[s].todo = calls[s].todo
      /\ calls'[s].read = queue[Current(s).id]
      /\ calls'[s].outcome = calls[s].outcome
      /\ calls'[s].results = calls[s].results
      /\ UNCHANGED <<queue, sent, delivered, disputed, faults, count>>
  BY GetDoes
<1>2. /\ calls[s].step \in {"getForSend", "getForOutcome"}
      /\ calls[s].todo # <<>> /\ Current(s).id \in DOMAIN queue
  BY CallFields DEF Get
<1>3. queue[Current(s).id] \in Record /\ queue[Current(s).id].key = "an entity"
  BY <1>2 DEF SenderTypes, TypeOK, QueueTypes
<1>4. CallFits(calls'[s])
  BY <1>1, <1>2, <1>3 DEF CallFits, SenderTypes, CallTypes, Sending, Settling
<1>5. /\ calls' \in [Call -> CallState] /\ CallTypes'
      /\ \A t \in Call : calls'[t].step = "idle" <=> calls'[t].todo = <<>>
  BY <1>1, <1>4, CallTypesStep
<1>6. QED BY <1>1, <1>5, TypesCombine DEF SenderTypes, TypeOK, QueueTypes

LEMMA PutInFlightTypes ==
  ASSUME SenderTypes, NEW s \in Call, PutInFlight(s)
  PROVE  SenderTypes'
<1> DEFINE r == [calls[s].read EXCEPT !.status = "IN_FLIGHT"]
<1>1. /\ calls' = [calls EXCEPT ![s] = calls'[s]] /\ calls'[s] \in CallState
      /\ calls'[s].step = "send"
      /\ calls'[s].todo = calls[s].todo
      /\ calls'[s].outcome = calls[s].outcome
      /\ queue' = [queue EXCEPT ![Current(s).id] = r] /\ r \in Record
      /\ UNCHANGED <<sent, delivered, disputed, faults, count>>
  BY PutInFlightDoes
<1>2. /\ calls[s].step = "putInFlight"
      /\ calls[s].todo # <<>> /\ Current(s).id \in DOMAIN queue
  BY CallFields DEF PutInFlight
<1>3. r.key = "an entity"
  BY <1>2 DEF SenderTypes, CallTypes, Record
<1>4. CallFits(calls'[s])
  BY <1>1, <1>2 DEF CallFits, SenderTypes, CallTypes, Sending, Settling
<1> HIDE DEF r
<1>5. /\ DOMAIN queue' = DOMAIN queue /\ QueueTypes'
      /\ \A n \in DOMAIN queue' : queue'[n] \in Record
  BY <1>1, <1>2, <1>3, QueueTypesStep
<1>6. /\ calls' \in [Call -> CallState] /\ CallTypes'
      /\ \A t \in Call : calls'[t].step = "idle" <=> calls'[t].todo = <<>>
  BY <1>1, <1>4, <1>5, CallTypesStep
<1>7. QED BY <1>1, <1>5, <1>6, TypesCombine DEF SenderTypes, TypeOK

LEMMA PutOutcomeTypes ==
  ASSUME SenderTypes, NEW s \in Call, PutOutcome(s)
  PROVE  SenderTypes'
<1> DEFINE r == [calls[s].read EXCEPT !.status = calls[s].outcome]
           c == [step |-> "getForSend", todo |-> Tail(calls[s].todo),
                 read |-> Nothing, outcome |-> "none",
                 results |-> calls[s].results]
<1>1. /\ queue' = [queue EXCEPT ![Current(s).id] = r] /\ r \in Record
      /\ UNCHANGED <<sent, delivered, disputed, faults, count>>
      /\ calls' = [calls EXCEPT ![s] = calls'[s]]
      /\ \/ calls'[s] = Idle
         \/ Tail(calls[s].todo) # <<>> /\ calls'[s] = c
  BY PutOutcomeDoes
<1>2. /\ calls[s].step = "putOutcome" /\ calls[s] \in CallState
      /\ calls[s].todo \in Seq(Entry)
      /\ calls[s].todo # <<>> /\ Current(s).id \in DOMAIN queue
  BY CallFields DEF PutOutcome
<1>3. r.key = "an entity"
  BY <1>2 DEF SenderTypes, CallTypes, Record
<1>4. /\ Tail(calls[s].todo) \in Seq(Entry)
      /\ \A i \in DOMAIN Tail(calls[s].todo) :
           i + 1 \in DOMAIN calls[s].todo
           /\ Tail(calls[s].todo)[i] = calls[s].todo[i + 1]
  BY <1>2, TailIs
<1>5. c \in CallState
  BY <1>2, <1>4 DEF Answer, CallState, Entry
<1>6. ASSUME Tail(calls[s].todo) # <<>> PROVE CallFits(c)
  BY <1>4, <1>6 DEF CallFits, Sending, Settling, SenderTypes, CallTypes
<1> HIDE DEF r, c
<1>7. calls'[s] \in CallState /\ CallFits(calls'[s])
  BY <1>1, <1>5, <1>6, Idles
<1>8. /\ DOMAIN queue' = DOMAIN queue /\ QueueTypes'
      /\ \A n \in DOMAIN queue' : queue'[n] \in Record
  BY <1>1, <1>2, <1>3, QueueTypesStep
<1>9. /\ calls' \in [Call -> CallState] /\ CallTypes'
      /\ \A t \in Call : calls'[t].step = "idle" <=> calls'[t].todo = <<>>
  BY <1>1, <1>7, <1>8, CallTypesStep
<1>10. QED BY <1>1, <1>8, <1>9, TypesCombine DEF SenderTypes, TypeOK

\* An answer fits, whoever gives it.
LEMMA AnsweredTypes ==
  ASSUME SenderTypes, NEW s \in Call, calls[s].step # "idle",
         NEW done \in Seq(Answer), NEW class, NEW o,
         Answered(s, done, class, o)
  PROVE  /\ DOMAIN queue' = DOMAIN queue /\ QueueTypes'
         /\ \A n \in DOMAIN queue' : queue'[n] \in Record
         /\ calls' \in [Call -> CallState] /\ CallTypes'
         /\ \A t \in Call : calls'[t].step = "idle" <=> calls'[t].todo = <<>>
<1>1. calls[s].todo # <<>>
  BY CallFields
<1>2. calls'[s].results # <<>>
  BY DEF Answered
<1>3. CallFits(calls'[s])
  BY <1>1, <1>2 DEF Answered, CallFits, SenderTypes, CallTypes, Sending, Settling
<1>4. /\ calls' = [calls EXCEPT ![s] = calls'[s]] /\ calls'[s] \in CallState
      /\ queue' = queue
  BY DEF Answered
<1>5. /\ calls' \in [Call -> CallState] /\ CallTypes'
      /\ \A t \in Call : calls'[t].step = "idle" <=> calls'[t].todo = <<>>
  BY <1>3, <1>4, CallTypesStep
<1>6. QED BY <1>4, <1>5 DEF SenderTypes, TypeOK, QueueTypes

LEMMA GiveTypes ==
  ASSUME SenderTypes, NEW s \in Call, calls[s].step # "idle",
         NEW taken \in BOOLEAN, Give(s, taken)
  PROVE  /\ sent' \in Seq([id: Mutation, version: Nat])
         /\ delivered' \subseteq [id: Mutation, version: Nat]
<1>1. Value(s) \in [id: Mutation, version: Nat]
  BY CallFields
<1> DEFINE T == [id: Mutation, version: Nat]
<1>2. sent \in Seq(T) /\ delivered \subseteq T
  BY DEF SenderTypes, TypeOK
<1>3. Value(s) \in T
  BY <1>1
<1> HIDE DEF T
<1>4. Append(sent, Value(s)) \in Seq(T)
  BY <1>2, <1>3
<1>5. sent' \in Seq(T) /\ delivered' \subseteq T
  BY <1>2, <1>3, <1>4 DEF Give
<1>6. QED BY <1>5 DEF T

LEMMA SendTypes ==
  ASSUME SenderTypes, NEW s \in Call,
         SendSucceeds(s) \/ \E e \in TransportError : SendFails(s, e)
  PROVE  SenderTypes'
<1>1. PICK class \in ErrorClassification \cup {"SUCCESS"}, o \in Settled,
           taken \in BOOLEAN :
        /\ calls[s].step = "send"
        /\ Answered(s, calls[s].results, class, o)
        /\ Give(s, taken)
        /\ disputed' \in {disputed, disputed \cup {Current(s).id}}
        /\ UNCHANGED faults
  BY SendDoes
<1>2. count' = count
  BY DEF SendSucceeds, SendFails
<1>3. Current(s).id \in Mutation
  BY <1>1, CallFields DEF Entry
<1>4. disputed' \subseteq Mutation
  BY <1>1, <1>3 DEF SenderTypes, TypeOK
<1>5. calls[s].results \in Seq(Answer) /\ calls[s].step # "idle"
  BY <1>1 DEF SenderTypes, TypeOK, CallState, Answer
<1>6. /\ DOMAIN queue' = DOMAIN queue /\ QueueTypes'
      /\ \A n \in DOMAIN queue' : queue'[n] \in Record
      /\ calls' \in [Call -> CallState] /\ CallTypes'
      /\ \A t \in Call : calls'[t].step = "idle" <=> calls'[t].todo = <<>>
  BY <1>1, <1>5, AnsweredTypes
<1>7. /\ sent' \in Seq([id: Mutation, version: Nat])
      /\ delivered' \subseteq [id: Mutation, version: Nat]
  BY <1>1, <1>5, GiveTypes
<1>8. faults' \subseteq Faults /\ count' \in 0..MaxFaults
  BY <1>1, <1>2 DEF SenderTypes, TypeOK
<1>9. QED BY <1>4, <1>6, <1>7, <1>8, TypesCombine

LEMMA StorageTypes ==
  ASSUME SenderTypes, NEW s \in Call, StorageFails(s)
  PROVE  SenderTypes'
<1>1. /\ sent' \in Seq([id: Mutation, version: Nat])
      /\ delivered' \subseteq [id: Mutation, version: Nat]
      /\ disputed' \subseteq Mutation /\ queue' = queue
  BY DEF StorageFails, SenderTypes, TypeOK
<1>2. faults' \subseteq Faults /\ count' \in 0..MaxFaults
  BY SenderConstants DEF StorageFails, SenderTypes, TypeOK
<1>3. CASE StorageFailsInSend(s)
  <2>1. PICK class :
          Answered(s, Done(s), class, "FAILED") /\ calls[s].step # "idle"
    BY <1>1, <1>3, StorageInSendDoes DEF Settling
  <2>2. /\ DOMAIN queue' = DOMAIN queue /\ QueueTypes'
        /\ \A n \in DOMAIN queue' : queue'[n] \in Record
        /\ calls' \in [Call -> CallState] /\ CallTypes'
        /\ \A t \in Call : calls'[t].step = "idle" <=> calls'[t].todo = <<>>
    BY <2>1, DoneIs, AnsweredTypes
  <2>3. QED BY <1>1, <1>2, <2>2, TypesCombine
<1>4. CASE StorageFailsInCatch(s)
  <2>1. calls' = [calls EXCEPT ![s] = Idle]
    BY <1>4 DEF StorageFailsInCatch
  <2>2. /\ calls' \in [Call -> CallState] /\ CallTypes'
        /\ \A t \in Call : calls'[t].step = "idle" <=> calls'[t].todo = <<>>
    BY <1>1, <2>1, Idles, CallTypesStep
  <2>3. QueueTypes' /\ \A n \in DOMAIN queue' : queue'[n] \in Record
    BY <1>1 DEF QueueTypes, SenderTypes, TypeOK
  <2>4. QED BY <1>1, <1>2, <2>2, <2>3, TypesCombine
<1>5. QED BY <1>3, <1>4 DEF StorageFails

\* A new mutation is the next one.
LEMMA EnqueueDoes ==
  ASSUME SenderTypes, NEW m \in Mutation, Enqueue(m)
  PROVE  /\ m \notin DOMAIN queue
         /\ DOMAIN queue' = DOMAIN queue \cup {m}
         /\ \A n \in DOMAIN queue : queue'[n] = queue[n]
         /\ queue'[m].status = "PENDING" /\ queue'[m].version = 1
         /\ queue'[m] \in Record /\ queue'[m].key = "an entity"
         /\ \A n \in Mutation : n < m => n \in DOMAIN queue
         /\ UNCHANGED <<calls, sent, delivered, disputed, faults, count>>
BY DEF Enqueue, Record, MutationStatus

LEMMA ResolveDoes ==
  ASSUME SenderTypes, NEW m \in Mutation, ResolveConflict(m)
  PROVE  /\ m \in DOMAIN queue /\ queue[m].status = "CONFLICT"
         /\ queue' = [queue EXCEPT ![m] = queue'[m]]
         /\ queue'[m].status = "PENDING"
         /\ queue'[m] \in Record /\ queue'[m].key = "an entity"
         /\ UNCHANGED <<calls, sent, delivered, disputed, faults, count>>
<1>1. m \in DOMAIN queue /\ queue[m].status = "CONFLICT"
  BY DEF ResolveConflict, WithStatus
<1>2. queue[m] \in Record /\ queue[m].key = "an entity"
  BY <1>1 DEF SenderTypes, TypeOK, QueueTypes
<1>3. queue' = [queue EXCEPT ![m] =
        [queue[m] EXCEPT !.status = "PENDING", !.retries = queue[m].retries + 1,
                         !.version = queue[m].version + 1]]
  BY DEF ResolveConflict
<1>4. queue' = [queue EXCEPT ![m] = queue'[m]]
  BY <1>1, <1>3
<1>5. /\ queue'[m].status = "PENDING" /\ queue'[m].key = "an entity"
      /\ queue'[m] \in Record
  <2>1. queue'[m] = [queue[m] EXCEPT !.status = "PENDING",
          !.retries = queue[m].retries + 1, !.version = queue[m].version + 1]
    BY <1>1, <1>3
  <2>2. queue[m].retries + 1 \in Nat /\ queue[m].version + 1 \in Nat
    <3>1. queue[m].retries \in Nat /\ queue[m].version \in Nat
      BY <1>2, RecordFields
    <3>2. QED BY <3>1
  <2>3. "PENDING" \in MutationStatus
    BY DEF MutationStatus
  <2>4. QED BY <1>2, <2>1, <2>2, <2>3 DEF Record
<1>6. QED BY <1>1, <1>4, <1>5 DEF ResolveConflict

LEMMA RestartDoes ==
  ASSUME SenderTypes, Restart
  PROVE  /\ calls' = [s \in Call |-> Idle]
         /\ DOMAIN queue' = DOMAIN queue
         /\ \A m \in DOMAIN queue :
              /\ queue'[m] \in Record /\ queue'[m].key = "an entity"
              /\ queue'[m].version = queue[m].version
              /\ queue'[m].status = IF queue[m].status = "IN_FLIGHT"
                                      THEN "PENDING" ELSE queue[m].status
         /\ faults' = faults \cup {"crash"} /\ faults' \subseteq Faults
         /\ count' \in 0..MaxFaults /\ count' # count
         /\ UNCHANGED <<sent, delivered, disputed>>
<1>1. DOMAIN queue' = DOMAIN queue
  BY DEF Restart
<1>2. ASSUME NEW m \in DOMAIN queue
      PROVE  /\ queue'[m] \in Record /\ queue'[m].key = "an entity"
             /\ queue'[m].version = queue[m].version
             /\ queue'[m].status = IF queue[m].status = "IN_FLIGHT"
                                     THEN "PENDING" ELSE queue[m].status
  <2>1. queue[m] \in Record /\ queue[m].key = "an entity"
    BY DEF SenderTypes, TypeOK, QueueTypes
  <2>2. queue'[m] = IF queue[m].status = "IN_FLIGHT"
                      THEN [queue[m] EXCEPT !.status = "PENDING"] ELSE queue[m]
    BY DEF Restart
  <2>3. CASE queue[m].status = "IN_FLIGHT"
    <3>1. queue'[m] = [queue[m] EXCEPT !.status = "PENDING"]
      BY <2>2, <2>3
    <3>2. queue'[m].status = "PENDING" /\ queue'[m] \in Record
      BY <2>1, <3>1 DEF Record, MutationStatus
    <3>3. queue'[m].version = queue[m].version /\ queue'[m].key = queue[m].key
      BY <2>1, <3>1 DEF Record
    <3>4. QED BY <2>1, <2>3, <3>2, <3>3
  <2>4. CASE queue[m].status # "IN_FLIGHT"
    <3>1. queue'[m] = queue[m]
      BY <2>2, <2>4
    <3>2. QED BY <2>1, <2>4, <3>1
  <2>5. QED BY <2>3, <2>4
<1>3. /\ faults' = faults \cup {"crash"} /\ faults' \subseteq Faults
      /\ count' \in 0..MaxFaults /\ count' # count
  BY SenderConstants DEF Restart, SenderTypes, TypeOK
<1>4. QED BY <1>1, <1>2, <1>3 DEF Restart

LEMMA EnqueueTypes ==
  ASSUME SenderTypes, NEW m \in Mutation, Enqueue(m)
  PROVE  SenderTypes'
<1>1. /\ DOMAIN queue' = DOMAIN queue \cup {m}
      /\ \A n \in DOMAIN queue : queue'[n] = queue[n]
      /\ queue'[m] \in Record /\ queue'[m].key = "an entity"
      /\ \A n \in Mutation : n < m => n \in DOMAIN queue
      /\ UNCHANGED <<calls, sent, delivered, disputed, faults, count>>
  BY EnqueueDoes
<1>2. TypeOK'
  BY <1>1 DEF SenderTypes, TypeOK
<1>3. QueueTypes'
  BY <1>1 DEF SenderTypes, QueueTypes
<1>4. CallTypes'
  BY <1>1 DEF SenderTypes, CallTypes
<1>5. QED BY <1>2, <1>3, <1>4 DEF SenderTypes

LEMMA ResolveTypes ==
  ASSUME SenderTypes, NEW m \in Mutation, ResolveConflict(m)
  PROVE  SenderTypes'
<1>1. /\ m \in DOMAIN queue
      /\ queue' = [queue EXCEPT ![m] = queue'[m]]
      /\ queue'[m] \in Record /\ queue'[m].key = "an entity"
      /\ UNCHANGED <<calls, sent, delivered, disputed, faults, count>>
  BY ResolveDoes
<1>2. /\ DOMAIN queue' = DOMAIN queue /\ QueueTypes'
      /\ \A n \in DOMAIN queue' : queue'[n] \in Record
  BY <1>1, QueueTypesStep
<1>3. TypeOK'
  BY <1>1, <1>2 DEF SenderTypes, TypeOK
<1>4. CallTypes'
  BY <1>1, <1>2 DEF SenderTypes, CallTypes
<1>5. QED BY <1>2, <1>3, <1>4 DEF SenderTypes

LEMMA RestartTypes ==
  ASSUME SenderTypes, Restart
  PROVE  SenderTypes'
<1>1. /\ calls' = [s \in Call |-> Idle]
      /\ DOMAIN queue' = DOMAIN queue
      /\ \A m \in DOMAIN queue :
           queue'[m] \in Record /\ queue'[m].key = "an entity"
      /\ faults' \subseteq Faults /\ count' \in 0..MaxFaults
      /\ UNCHANGED <<sent, delivered, disputed>>
  BY RestartDoes
<1>2. QueueTypes'
  BY <1>1 DEF SenderTypes, QueueTypes
<1>3. calls' \in [Call -> CallState] /\ \A t \in Call : CallFits(calls'[t])
  BY <1>1, Idles
<1>4. CallTypes' /\ \A t \in Call : calls'[t].step = "idle" <=> calls'[t].todo = <<>>
  BY <1>1, <1>3 DEF CallFits, CallTypes
<1>5. sent' \in Seq([id: Mutation, version: Nat])
      /\ delivered' \subseteq [id: Mutation, version: Nat] /\ disputed' \subseteq Mutation
  BY <1>1 DEF SenderTypes, TypeOK
<1>6. QED BY <1>1, <1>2, <1>3, <1>4, <1>5, TypesCombine

LEMMA TypesStart == Init => SenderTypes
<1> SUFFICES ASSUME Init PROVE SenderTypes
  OBVIOUS
<1>1. DOMAIN queue = {}
  BY DEF Init
<1>2. calls \in [Call -> CallState] /\ \A t \in Call : CallFits(calls[t])
  BY Idles DEF Init
<1>3. CallTypes /\ \A t \in Call : calls[t].step = "idle" <=> calls[t].todo = <<>>
  BY <1>2 DEF CallFits, CallTypes
<1>4. sent \in Seq([id: Mutation, version: Nat]) /\ count \in 0..MaxFaults
  BY SenderConstants DEF Init
<1>5. QED BY <1>1, <1>2, <1>3, <1>4 DEF Init, SenderTypes, TypeOK, QueueTypes

LEMMA TypesStep == ASSUME SenderTypes, [Next]_vars PROVE SenderTypes'
<1>1. CASE UNCHANGED vars
  BY <1>1 DEF vars, SenderTypes, TypeOK, CallTypes, QueueTypes
<1>2. ASSUME NEW m \in Mutation, Enqueue(m) \/ ResolveConflict(m) PROVE SenderTypes'
  BY <1>2, EnqueueTypes, ResolveTypes
<1>3. ASSUME NEW s \in Call, Sender(s) PROVE SenderTypes'
  BY <1>3, SendPendingTypes, GetTypes, PutInFlightTypes, PutOutcomeTypes, SendTypes
     DEF Sender
<1>4. ASSUME NEW s \in Call, StorageFails(s) PROVE SenderTypes'
  BY <1>4, StorageTypes
<1>5. ASSUME NEW s \in Call, NEW m \in Mutation, RetryMutation(s, m) PROVE SenderTypes'
  BY <1>1, <1>5, RetryDoes
<1>6. CASE Restart
  BY <1>6, RestartTypes
<1>7. QED BY <1>1, <1>2, <1>3, <1>4, <1>5, <1>6 DEF Next


-----------------------------------------------------------------------------
(* The status of a mutation. *)

\* A step of one call leaves the others alone.
LEMMA OthersStay ==
  ASSUME SenderTypes, NEW s \in Call, calls' = [calls EXCEPT ![s] = calls'[s]]
  PROVE  \A t \in Call : t # s => calls'[t] = calls[t]
BY DEF SenderTypes, TypeOK

InFlight(m) == \E s \in Call : calls[s].todo # <<>> /\ Current(s).id = m

\* What is first of a call stays first while the call holds its batch.
LEMMA FirstStays ==
  ASSUME NEW m, InFlight(m), \A t \in Call : calls'[t].todo = calls[t].todo
  PROVE  InFlight(m)'
BY DEF InFlight, Current

\* Nothing else is put IN_FLIGHT: with the mutations that are, the calls that
\* send them are kept.
LEMMA InFlightKept ==
  ASSUME InFlightIsBeingSent, faults \subseteq faults',
         \A m \in DOMAIN queue' : queue'[m].status = "IN_FLIGHT" =>
           /\ m \in DOMAIN queue /\ queue[m].status = "IN_FLIGHT"
           /\ InFlight(m) => InFlight(m)'
  PROVE  InFlightIsBeingSent'
<1> SUFFICES ASSUME "storage" \notin faults',
                    NEW m \in DOMAIN queue', queue'[m].status = "IN_FLIGHT"
             PROVE  InFlight(m)'
  BY DEF InFlightIsBeingSent, WithStatus, InFlight
<1>1. m \in DOMAIN queue /\ queue[m].status = "IN_FLIGHT"
  OBVIOUS
<1>2. InFlight(m)
  BY <1>1 DEF InFlightIsBeingSent, WithStatus, InFlight
<1>3. QED BY <1>2

\* The same for conflicts.
LEMMA ConflictsKept ==
  ASSUME ConflictWasReported, disputed \subseteq disputed',
         \A m \in DOMAIN queue' : queue'[m].status = "CONFLICT" =>
           m \in disputed' \/ (m \in DOMAIN queue /\ queue[m].status = "CONFLICT")
  PROVE  ConflictWasReported'
BY DEF ConflictWasReported, WithStatus

LEMMA OutcomesKept ==
  ASSUME SenderTypes, ConflictIsReported, disputed \subseteq disputed',
         NEW s \in Call, calls' = [calls EXCEPT ![s] = calls'[s]],
         calls'[s].outcome = "CONFLICT" => calls'[s].todo[1].id \in disputed'
  PROVE  ConflictIsReported'
<1>1. \A t \in Call : t # s => calls'[t] = calls[t]
  BY OthersStay
<1>2. QED BY <1>1 DEF ConflictIsReported

LEMMA SendPendingStatus ==
  ASSUME StatusInv, NEW s \in Call, SendPending(s)
  PROVE  InFlightIsBeingSent' /\ ConflictWasReported' /\ ConflictIsReported'
<1>1. /\ calls[s] = Idle /\ calls' = [calls EXCEPT ![s] = calls'[s]]
      /\ calls'[s].outcome = "none"
      /\ UNCHANGED <<queue, disputed>>
  BY SendPendingDoes DEF StatusInv
<1>2. \A t \in Call : t # s => calls'[t] = calls[t]
  BY <1>1, OthersStay DEF StatusInv
<1>3. ASSUME NEW m, InFlight(m) PROVE InFlight(m)'
  <2>1. PICK t \in Call : calls[t].todo # <<>> /\ Current(t).id = m
    BY <1>3 DEF InFlight
  <2>2. t # s
    BY <1>1, <2>1 DEF Idle
  <2>3. calls'[t] = calls[t]
    BY <1>2, <2>2
  <2>4. QED BY <2>1, <2>3 DEF InFlight, Current
<1>4. faults \subseteq faults'
  BY DEF SendPending
<1>5. InFlightIsBeingSent'
  BY <1>1, <1>3, <1>4, InFlightKept DEF StatusInv
<1>6. ConflictWasReported'
  BY <1>1, ConflictsKept DEF StatusInv
<1>7. ConflictIsReported'
  BY <1>1, OutcomesKept DEF StatusInv
<1>8. QED BY <1>5, <1>6, <1>7

LEMMA GetStatus ==
  ASSUME StatusInv, NEW s \in Call, Get(s)
  PROVE  InFlightIsBeingSent' /\ ConflictWasReported' /\ ConflictIsReported'
<1>1. /\ calls' = [calls EXCEPT ![s] = calls'[s]]
      /\ calls'[s].todo = calls[s].todo
      /\ calls'[s].outcome = calls[s].outcome
      /\ UNCHANGED <<queue, disputed, faults>>
  BY GetDoes DEF StatusInv
<1>2. \A t \in Call : calls'[t].todo = calls[t].todo
  BY <1>1, OthersStay DEF StatusInv
<1>3. InFlightIsBeingSent'
  BY <1>1, <1>2, InFlightKept, FirstStays DEF StatusInv
<1>4. ConflictWasReported'
  BY <1>1, ConflictsKept DEF StatusInv
<1>5. ConflictIsReported'
  <2>1. calls[s].outcome = "CONFLICT" => calls[s].todo[1].id \in disputed
    BY DEF StatusInv, ConflictIsReported
  <2>2. QED BY <1>1, <2>1, OutcomesKept DEF StatusInv
<1>6. QED BY <1>3, <1>4, <1>5

LEMMA PutInFlightStatus ==
  ASSUME StatusInv, NEW s \in Call, PutInFlight(s)
  PROVE  InFlightIsBeingSent' /\ ConflictWasReported' /\ ConflictIsReported'
<1> DEFINE r == [calls[s].read EXCEPT !.status = "IN_FLIGHT"]
<1>1. /\ calls' = [calls EXCEPT ![s] = calls'[s]]
      /\ calls'[s].todo = calls[s].todo
      /\ calls'[s].outcome = calls[s].outcome
      /\ queue' = [queue EXCEPT ![Current(s).id] = r]
      /\ UNCHANGED <<disputed, faults>>
  BY PutInFlightDoes DEF StatusInv
<1>2. calls[s].step = "putInFlight" /\ calls[s].read \in Record
  BY DEF PutInFlight, StatusInv, SenderTypes, CallTypes
<1>3. r.status = "IN_FLIGHT"
  BY <1>2 DEF Record
<1> HIDE DEF r
<1>4. calls[s].todo # <<>> /\ Current(s).id \in DOMAIN queue
  BY <1>2, CallFields DEF StatusInv
<1>5. /\ DOMAIN queue' = DOMAIN queue /\ queue'[Current(s).id] = r
      /\ \A m \in DOMAIN queue : m # Current(s).id => queue'[m] = queue[m]
  BY <1>1, <1>4
<1>6. \A t \in Call : calls'[t].todo = calls[t].todo
  BY <1>1, OthersStay DEF StatusInv
<1>7. InFlightIsBeingSent'
  <2> SUFFICES ASSUME "storage" \notin faults,
                      NEW m \in DOMAIN queue, queue'[m].status = "IN_FLIGHT"
               PROVE  InFlight(m)'
    BY <1>1, <1>5 DEF InFlightIsBeingSent, WithStatus, InFlight
  <2>1. InFlight(m)
    <3>1. CASE m = Current(s).id
      BY <1>4, <3>1 DEF InFlight
    <3>2. CASE m # Current(s).id
      BY <1>5, <3>2 DEF StatusInv, InFlightIsBeingSent, WithStatus, InFlight
    <3>3. QED BY <3>1, <3>2
  <2>2. QED BY <1>6, <2>1, FirstStays
<1>8. ConflictWasReported'
  <2>1. ASSUME NEW m \in DOMAIN queue, queue'[m].status = "CONFLICT"
        PROVE  queue[m].status = "CONFLICT"
    <3>1. m # Current(s).id
      BY <1>3, <1>5, <2>1
    <3>2. QED BY <1>5, <2>1, <3>1
  <2>2. QED BY <1>1, <1>5, <2>1, ConflictsKept DEF StatusInv
<1>9. ConflictIsReported'
  <2>1. calls[s].outcome = "CONFLICT" => calls[s].todo[1].id \in disputed
    BY DEF StatusInv, ConflictIsReported
  <2>2. QED BY <1>1, <2>1, OutcomesKept DEF StatusInv
<1>10. QED BY <1>7, <1>8, <1>9

LEMMA PutOutcomeStatus ==
  ASSUME StatusInv, NEW s \in Call, PutOutcome(s)
  PROVE  InFlightIsBeingSent' /\ ConflictWasReported' /\ ConflictIsReported'
<1> DEFINE r == [calls[s].read EXCEPT !.status = calls[s].outcome]
<1>1. /\ calls' = [calls EXCEPT ![s] = calls'[s]]
      /\ calls'[s].outcome = "none"
      /\ queue' = [queue EXCEPT ![Current(s).id] = r]
      /\ calls[s].outcome \in Settled
      /\ UNCHANGED <<disputed, faults>>
  <2>1. SenderTypes
    BY DEF StatusInv
  <2>2. Idle.outcome = "none"
    BY DEF Idle
  <2>3. \/ calls'[s] = Idle
        \/ calls'[s] = [step |-> "getForSend", todo |-> Tail(calls[s].todo),
                        read |-> Nothing, outcome |-> "none",
                        results |-> calls[s].results]
    BY <2>1, PutOutcomeDoes
  <2>4. calls'[s].outcome = "none"
    BY <2>2, <2>3
  <2>5. QED BY <2>1, <2>4, PutOutcomeDoes
<1>2. calls[s].step = "putOutcome" /\ calls[s].read \in Record
  BY DEF PutOutcome, StatusInv, SenderTypes, CallTypes
<1>3. r.status = calls[s].outcome
  BY <1>2 DEF Record
<1> HIDE DEF r
<1>4. /\ calls[s].todo # <<>> /\ Current(s).id \in DOMAIN queue
      /\ Current(s) = calls[s].todo[1]
  BY <1>2, CallFields DEF StatusInv
<1>5. /\ DOMAIN queue' = DOMAIN queue /\ queue'[Current(s).id] = r
      /\ \A m \in DOMAIN queue : m # Current(s).id => queue'[m] = queue[m]
  BY <1>1, <1>4
<1>6. \A t \in Call : t # s => calls'[t] = calls[t]
  BY <1>1, OthersStay DEF StatusInv
<1>7. ASSUME NEW m, m # Current(s).id, InFlight(m) PROVE InFlight(m)'
  <2>1. PICK t \in Call : calls[t].todo # <<>> /\ Current(t).id = m
    BY <1>7 DEF InFlight
  <2>2. t # s
    BY <1>7, <2>1
  <2>3. calls'[t] = calls[t]
    BY <1>6, <2>2
  <2>4. QED BY <2>1, <2>3 DEF InFlight, Current
<1>8. InFlightIsBeingSent'
  <2>1. ASSUME NEW m \in DOMAIN queue, queue'[m].status = "IN_FLIGHT"
        PROVE  m # Current(s).id /\ queue[m].status = "IN_FLIGHT"
    <3>1. m # Current(s).id
      BY <1>1, <1>3, <1>5, <2>1 DEF Settled
    <3>2. QED BY <1>5, <2>1, <3>1
  <2>2. QED BY <1>1, <1>5, <1>7, <2>1, InFlightKept DEF StatusInv
<1>9. ConflictWasReported'
  <2>1. ASSUME NEW m \in DOMAIN queue, queue'[m].status = "CONFLICT"
        PROVE  m \in disputed \/ queue[m].status = "CONFLICT"
    <3>1. CASE m = Current(s).id
      <4>1. calls[s].outcome = "CONFLICT"
        BY <1>3, <1>5, <2>1, <3>1
      <4>2. QED BY <1>4, <3>1, <4>1 DEF StatusInv, ConflictIsReported
    <3>2. CASE m # Current(s).id
      BY <1>5, <2>1, <3>2
    <3>3. QED BY <3>1, <3>2
  <2>2. QED BY <1>1, <1>5, <2>1, ConflictsKept DEF StatusInv
<1>10. ConflictIsReported'
  BY <1>1, OutcomesKept DEF StatusInv
<1>11. QED BY <1>8, <1>9, <1>10

LEMMA SendStatus ==
  ASSUME StatusInv, NEW s \in Call,
         SendSucceeds(s) \/ \E e \in TransportError : SendFails(s, e)
  PROVE  InFlightIsBeingSent' /\ ConflictWasReported' /\ ConflictIsReported'
<1>1. PICK class \in ErrorClassification \cup {"SUCCESS"}, o \in Settled,
           taken \in BOOLEAN :
        /\ calls[s].step = "send"
        /\ Answered(s, calls[s].results, class, o)
        /\ disputed' \in {disputed, disputed \cup {Current(s).id}}
        /\ o = "CONFLICT" => Current(s).id \in disputed'
        /\ UNCHANGED faults
  BY SendDoes DEF StatusInv
<1>2. /\ calls' = [calls EXCEPT ![s] = calls'[s]]
      /\ calls'[s].todo = calls[s].todo /\ calls'[s].outcome = o
      /\ queue' = queue
  BY <1>1 DEF Answered
<1>3. \A t \in Call : calls'[t].todo = calls[t].todo
  BY <1>2, OthersStay DEF StatusInv
<1>4. Current(s) = calls[s].todo[1]
  BY <1>1, CallFields DEF StatusInv
<1>5. InFlightIsBeingSent'
  BY <1>1, <1>2, <1>3, InFlightKept, FirstStays DEF StatusInv
<1>6. disputed \subseteq disputed'
  BY <1>1
<1>7. ConflictWasReported'
  BY <1>2, <1>6, ConflictsKept DEF StatusInv
<1>8. ConflictIsReported'
  BY <1>1, <1>2, <1>4, <1>6, OutcomesKept DEF StatusInv
<1>9. QED BY <1>5, <1>7, <1>8

LEMMA StorageStatus ==
  ASSUME StatusInv, NEW s \in Call, StorageFails(s)
  PROVE  InFlightIsBeingSent' /\ ConflictWasReported' /\ ConflictIsReported'
<1>1. UNCHANGED <<queue, disputed>> /\ "storage" \in faults'
  BY DEF StorageFails
<1>2. calls' = [calls EXCEPT ![s] = calls'[s]] /\ calls'[s].outcome # "CONFLICT"
  <2>1. CASE StorageFailsInSend(s)
    BY <1>1, <2>1, StorageInSendDoes DEF StatusInv, Answered
  <2>2. CASE StorageFailsInCatch(s)
    BY <2>2 DEF StorageFailsInCatch, StatusInv, SenderTypes, TypeOK, Idle
  <2>3. QED BY <2>1, <2>2 DEF StorageFails
<1>3. InFlightIsBeingSent'
  BY <1>1 DEF InFlightIsBeingSent
<1>4. ConflictWasReported'
  BY <1>1, ConflictsKept DEF StatusInv
<1>5. ConflictIsReported'
  BY <1>1, <1>2, OutcomesKept DEF StatusInv
<1>6. QED BY <1>3, <1>4, <1>5

LEMMA QueueStatus ==
  ASSUME StatusInv, NEW m \in Mutation, Enqueue(m) \/ ResolveConflict(m)
  PROVE  InFlightIsBeingSent' /\ ConflictWasReported' /\ ConflictIsReported'
<1>1. /\ UNCHANGED <<calls, disputed, faults>>
      /\ \A n \in DOMAIN queue' :
           \/ n \in DOMAIN queue /\ queue'[n] = queue[n]
           \/ queue'[n].status = "PENDING"
  <2>1. CASE Enqueue(m)
    BY <2>1, EnqueueDoes DEF StatusInv
  <2>2. CASE ResolveConflict(m)
    BY <2>2, ResolveDoes DEF StatusInv
  <2>3. QED BY <2>1, <2>2
<1>2. InFlightIsBeingSent'
  BY <1>1, InFlightKept, FirstStays DEF StatusInv
<1>3. ConflictWasReported'
  BY <1>1, ConflictsKept DEF StatusInv
<1>4. ConflictIsReported'
  BY <1>1 DEF StatusInv, ConflictIsReported
<1>5. QED BY <1>2, <1>3, <1>4

LEMMA RestartStatus ==
  ASSUME StatusInv, Restart
  PROVE  InFlightIsBeingSent' /\ ConflictWasReported' /\ ConflictIsReported'
<1>1. /\ calls' = [s \in Call |-> Idle]
      /\ DOMAIN queue' = DOMAIN queue
      /\ \A m \in DOMAIN queue :
           queue'[m].status = IF queue[m].status = "IN_FLIGHT"
                                THEN "PENDING" ELSE queue[m].status
      /\ UNCHANGED disputed
  BY RestartDoes DEF StatusInv
<1>2. \A m \in DOMAIN queue' : queue'[m].status # "IN_FLIGHT"
  BY <1>1
<1>3. InFlightIsBeingSent'
  BY <1>2 DEF InFlightIsBeingSent, WithStatus
<1>4. ConflictWasReported'
  BY <1>1, ConflictsKept DEF StatusInv
<1>5. ConflictIsReported'
  BY <1>1 DEF ConflictIsReported, Idle
<1>6. QED BY <1>3, <1>4, <1>5

LEMMA StatusStarts == Init => StatusInv
<1> SUFFICES ASSUME Init PROVE StatusInv
  OBVIOUS
<1>1. DOMAIN queue = {} /\ \A s \in Call : calls[s].outcome = "none"
  BY DEF Init, Idle
<1>2. InFlightIsBeingSent /\ ConflictWasReported
  BY <1>1 DEF InFlightIsBeingSent, ConflictWasReported, WithStatus
<1>3. ConflictIsReported
  BY <1>1 DEF ConflictIsReported
<1>4. QED BY <1>2, <1>3, TypesStart DEF StatusInv

LEMMA StatusStep == ASSUME StatusInv, [Next]_vars PROVE StatusInv'
<1>1. SenderTypes'
  BY TypesStep DEF StatusInv
<1>2. InFlightIsBeingSent' /\ ConflictWasReported' /\ ConflictIsReported'
  <2>1. CASE UNCHANGED vars
    BY <2>1 DEF vars, StatusInv, InFlightIsBeingSent, ConflictWasReported,
                ConflictIsReported, WithStatus, Current
  <2>2. ASSUME NEW m \in Mutation, Enqueue(m) \/ ResolveConflict(m)
        PROVE  InFlightIsBeingSent' /\ ConflictWasReported' /\ ConflictIsReported'
    BY <2>2, QueueStatus
  <2>3. ASSUME NEW s \in Call, Sender(s)
        PROVE  InFlightIsBeingSent' /\ ConflictWasReported' /\ ConflictIsReported'
    BY <2>3, SendPendingStatus, GetStatus, PutInFlightStatus, PutOutcomeStatus,
       SendStatus DEF Sender
  <2>4. ASSUME NEW s \in Call, StorageFails(s)
        PROVE  InFlightIsBeingSent' /\ ConflictWasReported' /\ ConflictIsReported'
    BY <2>4, StorageStatus
  <2>5. ASSUME NEW s \in Call, NEW m \in Mutation, RetryMutation(s, m)
        PROVE  UNCHANGED vars
    BY <2>5, RetryDoes DEF StatusInv
  <2>6. CASE Restart
    BY <2>6, RestartStatus
  <2>7. QED BY <2>1, <2>2, <2>3, <2>4, <2>5, <2>6 DEF Next
<1>3. QED BY <1>1, <1>2 DEF StatusInv


-----------------------------------------------------------------------------
(* One call at a time.  In what follows h is the mutation a call has first,  *)
(* and b and c are the call before and after a step.                         *)

\* A call that is under way.
IsActive(s, b, h) ==
  /\ b = calls[s] /\ h = Current(s).id /\ Current(s) = b.todo[1]
  /\ b \in CallState /\ b.todo \in Seq(Entry) /\ b.todo # <<>>
  /\ 1 \in DOMAIN b.todo /\ b.todo[1].id = h
  /\ h \in DOMAIN queue /\ h \in Mutation
  /\ \A i \in DOMAIN b.todo : b.todo[i].id \in DOMAIN queue
  /\ \A i \in DOMAIN b.todo : i # 1 => b.todo[i].id # h
  /\ TodoIsCurrent(b) /\ OutcomeIsDelivered(b)
  /\ NothingSkipped(b) /\ ResultsStand(b)

LEMMA Active ==
  ASSUME SenderInv, "overlap" \notin faults, NEW s \in Call, calls[s].step # "idle"
  PROVE  HistoryIsTrue /\ \E b, h : IsActive(s, b, h)
<1> PICK b, h : b = calls[s] /\ h = Current(s).id
  OBVIOUS
<1>1. SenderTypes /\ CallIsTrue(b) /\ HistoryIsTrue
  BY DEF SenderInv, StatusInv, AloneInv
<1>2. /\ b \in CallState /\ b.todo \in Seq(Entry) /\ b.todo # <<>>
      /\ 1 \in DOMAIN b.todo /\ Current(s) = b.todo[1]
      /\ h \in DOMAIN queue
  BY <1>1, CallFields
<1>3. \A i \in DOMAIN b.todo : b.todo[i].id \in DOMAIN queue
  BY <1>1 DEF SenderTypes, CallTypes
<1>4. h \in Mutation
  BY <1>1, <1>2 DEF SenderTypes, TypeOK
<1>5. TodoIsCurrent(b) /\ OutcomeIsDelivered(b) /\ NothingSkipped(b) /\ ResultsStand(b)
  BY <1>1 DEF CallIsTrue
<1>6. ASSUME NEW i \in DOMAIN b.todo, i # 1 PROVE b.todo[i].id # h
  <2>1. \A j, k \in DOMAIN b.todo : j < k => b.todo[j].id < b.todo[k].id
    BY <1>5 DEF TodoIsCurrent
  <2>2. 1 < i /\ 1 \in DOMAIN b.todo
    BY <1>2, <1>6
  <2>3. b.todo[1].id < b.todo[i].id /\ b.todo[1].id \in Nat /\ b.todo[i].id \in Nat
    BY <1>2, <1>3, <1>6, <2>1, <2>2, SenderConstants, <1>1 DEF SenderTypes, TypeOK
  <2>4. QED BY <1>2, <2>3
<1>7. IsActive(s, b, h)
  BY <1>1, <1>2, <1>3, <1>4, <1>5, <1>6 DEF IsActive
<1>8. QED BY <1>1, <1>7

\* The other calls are idle, and stay so.
LEMMA OnlyCall ==
  ASSUME SenderTypes, OneCall, NEW s \in Call,
         calls[s].step # "idle" \/ \A t \in Call : calls[t].step = "idle",
         calls' = [calls EXCEPT ![s] = calls'[s]]
  PROVE  /\ \A t \in Call : t # s => calls[t] = Idle /\ calls'[t] = Idle
         /\ OneCall'
<1>1. \A t \in Call : t # s => calls[t].step = "idle"
  BY DEF OneCall
<1>2. \A t \in Call : t # s => calls[t] = Idle
  BY <1>1 DEF SenderTypes, CallTypes
<1>3. \A t \in Call : t # s => calls'[t] = Idle
  BY <1>2, OthersStay
<1>4. Idle.step = "idle"
  BY DEF Idle
<1>5. OneCall'
  BY <1>3, <1>4 DEF OneCall
<1>6. QED BY <1>2, <1>3, <1>5

LEMMA IdleIsTrue ==
  CallIsTrue(Idle)'
<1>1. /\ Idle.todo = <<>> /\ Idle.results = <<>> /\ Idle.step = "idle"
      /\ Idle.outcome = "none"
  BY DEF Idle
<1>2. DOMAIN Idle.todo = {} /\ DOMAIN Idle.results = {}
  BY <1>1
<1>3. Idle.step \notin Sending /\ Idle.step \notin Settling
  BY <1>1 DEF Sending, Settling
<1> HIDE DEF Idle
<1>4. TodoIsCurrent(Idle)'
  BY <1>1, <1>2, <1>3 DEF TodoIsCurrent
<1>5. OutcomeIsDelivered(Idle)'
  BY <1>1 DEF OutcomeIsDelivered
<1>6. NothingSkipped(Idle)'
  BY <1>2, <1>3 DEF NothingSkipped
<1>7. ResultsStand(Idle)'
  BY <1>2, <1>3 DEF ResultsStand
<1>8. QED BY <1>4, <1>5, <1>6, <1>7 DEF CallIsTrue

\* It is enough to look at the call that takes the step.
LEMMA AllCalls ==
  ASSUME NEW s \in Call, NEW c, c = calls'[s],
         \A t \in Call : t # s => calls'[t] = Idle,
         TodoIsCurrent(c)', OutcomeIsDelivered(c)', NothingSkipped(c)',
         ResultsStand(c)'
  PROVE  (\A t \in Call : CallIsTrue(calls[t]))'
<1> SUFFICES ASSUME NEW t \in Call PROVE CallIsTrue(calls[t])'
  OBVIOUS
<1>1. PICK d : d = calls'[t]
  OBVIOUS
<1>2. d = c \/ d = Idle
  BY <1>1
<1>3. TodoIsCurrent(d)' /\ OutcomeIsDelivered(d)' /\ NothingSkipped(d)' /\ ResultsStand(d)'
  <2>1. CASE d = c
    BY <2>1
  <2>2. CASE d = Idle
    BY <2>2, IdleIsTrue DEF CallIsTrue
  <2>3. QED BY <1>2, <2>1, <2>2
<1>4. TodoIsCurrent(calls[t])'
  BY <1>1, <1>3 DEF TodoIsCurrent
<1>5. OutcomeIsDelivered(calls[t])'
  BY <1>1, <1>3 DEF OutcomeIsDelivered
<1>6. NothingSkipped(calls[t])'
  BY <1>1, <1>3 DEF NothingSkipped, WasSent
<1>7. ResultsStand(calls[t])'
  BY <1>1, <1>3 DEF ResultsStand, Stands
<1>8. QED BY <1>4, <1>5, <1>6, <1>7 DEF CallIsTrue

\* A call that keeps its batch, while nothing but its first record changes.
LEMMA TodoKept ==
  ASSUME NEW b, NEW c, NEW h, TodoIsCurrent(b), c.todo = b.todo, b.todo[1].id = h,
         DOMAIN b.todo \subseteq Nat \ {0},
         \A i \in DOMAIN b.todo : b.todo[i].id \in DOMAIN queue,
         \A i \in DOMAIN b.todo : i # 1 => b.todo[i].id # h,
         \A n \in DOMAIN queue : n # h => queue'[n] = queue[n],
         queue'[h].version = queue[h].version,
         c.step \in {"getForSend", "putInFlight"} => queue'[h].status = "PENDING",
         c.step = "send" => queue'[h].status = "IN_FLIGHT",
         c.step \in Settling => queue'[h].status \in {"PENDING", "IN_FLIGHT"},
         c.step \in {"putInFlight", "putOutcome"} => c.read = queue'[h]
  PROVE  TodoIsCurrent(c)'
<1>1. \A i, j \in DOMAIN c.todo : i < j => c.todo[i].id < c.todo[j].id
  BY DEF TodoIsCurrent
<1>2. ASSUME NEW i \in DOMAIN c.todo
      PROVE  /\ queue'[c.todo[i].id].version = c.todo[i].version
             /\ i > 1 => queue'[c.todo[i].id].status = "PENDING"
  <2>1. /\ queue[c.todo[i].id].version = c.todo[i].version
        /\ i > 1 => queue[c.todo[i].id].status = "PENDING"
    BY <1>2 DEF TodoIsCurrent
  <2>2. CASE i = 1
    BY <2>1, <2>2
  <2>3. CASE i # 1
    BY <1>2, <2>1, <2>3
  <2>4. QED BY <2>2, <2>3
<1>3. QED BY <1>1, <1>2 DEF TodoIsCurrent

\* What was sent stays sent, and what has failed stays so.
LEMMA SkipKept ==
  ASSUME NEW b, NEW c, NothingSkipped(b), c.todo = b.todo,
         DOMAIN queue' = DOMAIN queue,
         \A n \in DOMAIN queue :
           queue[n].status = "FAILED" => queue'[n].status = "FAILED",
         \A n : WasSent(n) => WasSent(n)',
         c.step \in Settling => WasSent(c.todo[1].id)' \/ c.outcome = "FAILED"
  PROVE  NothingSkipped(c)'
<1>1. ASSUME NEW i \in DOMAIN c.todo, NEW m \in DOMAIN queue', m < c.todo[i].id
      PROVE  \/ \E j \in 1..(i - 1) : c.todo[j].id = m
             \/ WasSent(m)'
             \/ queue'[m].status = "FAILED"
  BY <1>1 DEF NothingSkipped
<1>2. QED BY <1>1 DEF NothingSkipped

\* A result stands as long as its mutation is left alone.
LEMMA StandsStill ==
  ASSUME NEW b, NEW c, NEW r, Stands(b, r),
         r.id \in DOMAIN queue', queue'[r.id].status = queue[r.id].status,
         \A i \in DOMAIN c.todo : c.todo[i].id # r.id
  PROVE  Stands(c, r)'
BY DEF Stands


\* The history, after a step that sends nothing.
LEMMA HistoryKept ==
  ASSUME HistoryIsTrue, UNCHANGED <<sent, delivered>>,
         DOMAIN queue \subseteq DOMAIN queue',
         \A n \in DOMAIN queue' : n \notin DOMAIN queue =>
           \A p \in DOMAIN sent : ~(n < sent[p].id),
         \A n \in DOMAIN queue :
           queue[n].status = "FAILED" => queue'[n].status = "FAILED",
         \A n \in DOMAIN queue' : queue'[n].status = "ACKNOWLEDGED" =>
           [id |-> n, version |-> queue'[n].version] \in delivered,
         \A n \in DOMAIN queue' :
           \/ WasSent(n)
           \/ queue'[n].status \in {"PENDING", "FAILED"}
           \/ queue'[n].status = "IN_FLIGHT" /\ BeingSent(n)'
  PROVE  HistoryIsTrue'
<1>1. PeerHasIt'
  BY DEF PeerHasIt
<1>2. SentIsQueued'
  BY DEF HistoryIsTrue, SentIsQueued
<1>3. ASSUME NEW n PROVE WasSent(n)' <=> WasSent(n)
  BY DEF WasSent
<1>4. UnsentWaits'
  BY <1>3 DEF UnsentWaits
<1>5. SentFirst'
  <2> SUFFICES ASSUME NEW p \in DOMAIN sent, NEW m \in DOMAIN queue',
                      m < sent[p].id
               PROVE  SentBefore(m, p)' \/ (~WasSent(m)' /\ queue'[m].status = "FAILED")
    BY DEF SentFirst
  <2>1. m \in DOMAIN queue
    OBVIOUS
  <2>2. SentBefore(m, p) \/ (~WasSent(m) /\ queue[m].status = "FAILED")
    BY <2>1 DEF HistoryIsTrue, SentFirst
  <2>3. SentBefore(m, p)' <=> SentBefore(m, p)
    BY DEF SentBefore
  <2>4. QED BY <1>3, <2>1, <2>2, <2>3
<1>6. QED BY <1>1, <1>2, <1>4, <1>5 DEF HistoryIsTrue

AloneHolds == OneCall /\ (\A t \in Call : CallIsTrue(calls[t])) /\ HistoryIsTrue

LEMMA SendPendingAlone ==
  ASSUME SenderInv, NEW s \in Call, SendPending(s), "overlap" \notin faults'
  PROVE  AloneHolds'
<1>1. /\ \A t \in Call : calls[t].step = "idle"
      /\ UNCHANGED <<sent, delivered, queue>> /\ "overlap" \notin faults
  BY DEF SendPending
<1>2. SenderTypes /\ OneCall /\ HistoryIsTrue
  BY <1>1 DEF SenderInv, StatusInv, AloneInv
<1>3. PICK c : c = calls'[s]
  OBVIOUS
<1>4. /\ calls' = [calls EXCEPT ![s] = calls'[s]]
      /\ c.step = "getForSend" /\ c.todo \in Dequeued
      /\ c.outcome = "none" /\ c.results = <<>>
  BY <1>2, <1>3, SendPendingDoes
<1>5. OneCall' /\ \A t \in Call : t # s => calls'[t] = Idle
  BY <1>1, <1>2, <1>4, OnlyCall
<1>6. /\ c.todo \in Seq(Entry) /\ c.todo # <<>>
      /\ \A i \in DOMAIN c.todo :
           /\ c.todo[i].id \in WithStatus("PENDING")
           /\ c.todo[i].version = queue[c.todo[i].id].version
      /\ \A i, j \in DOMAIN c.todo : i < j => c.todo[i].id < c.todo[j].id
      /\ \A i \in DOMAIN c.todo, m \in WithStatus("PENDING") :
           m < c.todo[i].id => \E j \in 1..(i - 1) : c.todo[j].id = m
  BY <1>2, <1>4, DequeuedIs
<1>7. 1 \in DOMAIN c.todo
  BY <1>6
<1>8. c.step \notin Settling /\ DOMAIN c.results = {}
  BY <1>4 DEF Settling
<1>9. TodoIsCurrent(c)'
  <2>1. \A i \in DOMAIN c.todo :
          /\ queue'[c.todo[i].id].version = c.todo[i].version
          /\ queue'[c.todo[i].id].status = "PENDING"
    BY <1>1, <1>6 DEF WithStatus
  <2>2. queue'[c.todo[1].id].status = "PENDING"
    BY <1>7, <2>1
  <2>3. QED BY <1>4, <1>6, <1>8, <2>1, <2>2 DEF TodoIsCurrent
<1>10. OutcomeIsDelivered(c)'
  BY <1>4 DEF OutcomeIsDelivered
<1>11. NothingSkipped(c)'
  <2>1. ASSUME NEW i \in DOMAIN c.todo, NEW m \in DOMAIN queue, m < c.todo[i].id
        PROVE  \/ \E j \in 1..(i - 1) : c.todo[j].id = m
               \/ WasSent(m) \/ queue[m].status = "FAILED"
    <3>1. CASE queue[m].status = "PENDING"
      BY <1>6, <2>1, <3>1 DEF WithStatus
    <3>2. CASE queue[m].status # "PENDING"
      <4>1. ~BeingSent(m)
        BY <1>1 DEF BeingSent
      <4>2. QED BY <1>2, <3>2, <4>1 DEF HistoryIsTrue, UnsentWaits
    <3>3. QED BY <3>1, <3>2
  <2>2. \A m : WasSent(m) => WasSent(m)'
    BY <1>1 DEF WasSent
  <2>3. QED BY <1>1, <1>8, <2>1, <2>2 DEF NothingSkipped
<1>12. ResultsStand(c)'
  BY <1>8 DEF ResultsStand
<1>13. (\A t \in Call : CallIsTrue(calls[t]))'
  BY <1>3, <1>5, <1>9, <1>10, <1>11, <1>12, AllCalls
<1>14. HistoryIsTrue'
  <2>1. \A n \in DOMAIN queue : ~BeingSent(n)
    BY <1>1 DEF BeingSent
  <2>2. \A n \in DOMAIN queue : WasSent(n) \/ queue[n].status \in {"PENDING", "FAILED"}
    BY <1>2, <2>1 DEF HistoryIsTrue, UnsentWaits
  <2>3. \A n \in DOMAIN queue : queue[n].status = "ACKNOWLEDGED" =>
          [id |-> n, version |-> queue[n].version] \in delivered
    BY <1>2 DEF HistoryIsTrue, PeerHasIt
  <2>4. QED BY <1>1, <1>2, <2>2, <2>3, HistoryKept
<1>15. QED BY <1>5, <1>13, <1>14 DEF AloneHolds

LEMMA GetAlone ==
  ASSUME SenderInv, NEW s \in Call, Get(s), "overlap" \notin faults'
  PROVE  AloneHolds'
<1>1. SenderTypes /\ "overlap" \notin faults /\ OneCall
  BY DEF Get, SenderInv, StatusInv, AloneInv
<1>2. calls[s].step \in {"getForSend", "getForOutcome"} /\ calls[s].step # "idle"
  BY DEF Get
<1> PICK b, h : IsActive(s, b, h)
  BY <1>1, <1>2, Active
<1> PICK c : c = calls'[s]
  OBVIOUS
<1>3. b.step \in {"getForSend", "getForOutcome"} /\ b = calls[s]
  BY <1>2 DEF IsActive
<1>4. /\ calls' = [calls EXCEPT ![s] = calls'[s]]
      /\ c.step = IF b.step = "getForSend" THEN "putInFlight" ELSE "putOutcome"
      /\ c.todo = b.todo /\ c.read = queue[h]
      /\ c.outcome = b.outcome /\ c.results = b.results
      /\ UNCHANGED <<queue, sent, delivered, faults>>
  BY <1>1, GetDoes DEF IsActive
<1>5. OneCall' /\ \A t \in Call : t # s => calls[t] = Idle /\ calls'[t] = Idle
  BY <1>1, <1>2, <1>4, OnlyCall
<1>6. /\ b.todo \in Seq(Entry) /\ b.todo[1].id = h /\ h \in DOMAIN queue
      /\ \A i \in DOMAIN b.todo : b.todo[i].id \in DOMAIN queue
      /\ \A i \in DOMAIN b.todo : i # 1 => b.todo[i].id # h
      /\ TodoIsCurrent(b) /\ OutcomeIsDelivered(b)
      /\ NothingSkipped(b) /\ ResultsStand(b) /\ HistoryIsTrue
  BY <1>1, <1>2, Active DEF IsActive
<1>7. /\ b.step \in Settling <=> c.step \in Settling
      /\ b.step \in Sending <=> c.step \in Sending
  BY <1>3, <1>4 DEF Sending, Settling
<1>8. \A n : WasSent(n)' <=> WasSent(n)
  BY <1>4 DEF WasSent
<1>9. TodoIsCurrent(c)'
  <2>1. /\ b.step = "getForSend" => queue[h].status = "PENDING"
        /\ b.step = "getForOutcome" => queue[h].status \in {"PENDING", "IN_FLIGHT"}
    BY <1>6 DEF TodoIsCurrent, Settling
  <2>2. /\ c.step \in {"getForSend", "putInFlight"} => queue'[h].status = "PENDING"
        /\ c.step # "send"
        /\ c.step \in Settling => queue'[h].status \in {"PENDING", "IN_FLIGHT"}
        /\ c.read = queue'[h]
    BY <1>3, <1>4, <2>1 DEF Settling
  <2>3. DOMAIN b.todo \subseteq Nat \ {0}
    BY <1>6
  <2>4. QED BY <1>4, <1>6, <2>2, <2>3, TodoKept
<1>10. OutcomeIsDelivered(c)'
  BY <1>4, <1>6 DEF OutcomeIsDelivered
<1>11. NothingSkipped(c)'
  <2>1. c.step \in Settling => WasSent(c.todo[1].id)' \/ c.outcome = "FAILED"
    BY <1>4, <1>6, <1>7, <1>8 DEF NothingSkipped
  <2>2. QED BY <1>4, <1>6, <1>8, <2>1, SkipKept
<1>12. ResultsStand(c)'
  <2>1. ASSUME NEW k \in DOMAIN c.results, c.step \in Sending \/ k < Len(c.results)
        PROVE  Stands(c, c.results[k])'
    <3>1. PICK r : r = c.results[k]
      OBVIOUS
    <3>2. Stands(b, r)
      BY <1>4, <1>6, <1>7, <2>1, <3>1 DEF ResultsStand
    <3>3. Stands(c, r)'
      BY <1>4, <3>2 DEF Stands
    <3>4. QED BY <3>1, <3>3
  <2>2. c.step \in Settling =>
          /\ c.results[Len(c.results)].id = c.todo[1].id
          /\ Match(c.results[Len(c.results)].class, c.outcome)
    BY <1>4, <1>6, <1>7 DEF ResultsStand
  <2>3. QED BY <2>1, <2>2 DEF ResultsStand
<1>13. (\A t \in Call : CallIsTrue(calls[t]))'
  BY <1>5, <1>9, <1>10, <1>11, <1>12, AllCalls
<1>14. HistoryIsTrue'
  <2>1. \A n \in DOMAIN queue : ~BeingSent(n)
    BY <1>2, <1>5 DEF BeingSent, Idle
  <2>2. \A n \in DOMAIN queue : WasSent(n) \/ queue[n].status \in {"PENDING", "FAILED"}
    BY <1>6, <2>1 DEF HistoryIsTrue, UnsentWaits
  <2>3. \A n \in DOMAIN queue : queue[n].status = "ACKNOWLEDGED" =>
          [id |-> n, version |-> queue[n].version] \in delivered
    BY <1>6 DEF HistoryIsTrue, PeerHasIt
  <2>4. QED BY <1>4, <1>6, <2>2, <2>3, HistoryKept
<1>15. QED BY <1>5, <1>13, <1>14 DEF AloneHolds


LEMMA PutInFlightAlone ==
  ASSUME SenderInv, NEW s \in Call, PutInFlight(s), "overlap" \notin faults'
  PROVE  AloneHolds'
<1>1. SenderTypes /\ "overlap" \notin faults /\ OneCall
  BY DEF PutInFlight, SenderInv, StatusInv, AloneInv
<1>2. calls[s].step = "putInFlight" /\ calls[s].read \in Record
  BY <1>1 DEF PutInFlight, SenderTypes, CallTypes
<1> PICK b, h : IsActive(s, b, h)
  BY <1>1, <1>2, Active
<1> PICK c : c = calls'[s]
  OBVIOUS
<1>3. b.step = "putInFlight" /\ b = calls[s] /\ HistoryIsTrue
  BY <1>1, <1>2, Active DEF IsActive
<1>4. /\ calls' = [calls EXCEPT ![s] = calls'[s]]
      /\ c.step = "send" /\ c.todo = b.todo
      /\ c.outcome = b.outcome /\ c.results = b.results
      /\ queue' = [queue EXCEPT ![h] = [b.read EXCEPT !.status = "IN_FLIGHT"]]
      /\ UNCHANGED <<sent, delivered, faults>>
  BY <1>1, PutInFlightDoes DEF IsActive
<1>5. OneCall' /\ \A t \in Call : t # s => calls[t] = Idle /\ calls'[t] = Idle
  BY <1>1, <1>2, <1>4, OnlyCall
<1>6. /\ b.todo \in Seq(Entry) /\ b.todo[1].id = h /\ h \in DOMAIN queue
      /\ \A i \in DOMAIN b.todo : b.todo[i].id \in DOMAIN queue
      /\ \A i \in DOMAIN b.todo : i # 1 => b.todo[i].id # h
      /\ TodoIsCurrent(b) /\ NothingSkipped(b) /\ ResultsStand(b)
  BY DEF IsActive
<1>7. b.read = queue[h] /\ queue[h].status = "PENDING" /\ b.read \in Record
  BY <1>2, <1>3, <1>6 DEF TodoIsCurrent
<1>8. /\ DOMAIN queue' = DOMAIN queue
      /\ \A n \in DOMAIN queue : n # h => queue'[n] = queue[n]
      /\ queue'[h] = [b.read EXCEPT !.status = "IN_FLIGHT"]
  BY <1>4, <1>6
<1>9. queue'[h].status = "IN_FLIGHT" /\ queue'[h].version = queue[h].version
  BY <1>7, <1>8 DEF Record
<1>10. /\ c.step \notin Settling /\ c.step \in Sending /\ b.step \in Sending
       /\ c.step \notin {"getForSend", "putInFlight", "putOutcome"}
  BY <1>3, <1>4 DEF Sending, Settling
<1>11. \A n : WasSent(n)' <=> WasSent(n)
  BY <1>4 DEF WasSent
<1>12. TodoIsCurrent(c)'
  <2>1. DOMAIN b.todo \subseteq Nat \ {0}
    BY <1>6
  <2>2. c.todo = b.todo /\ \A n \in DOMAIN queue : n # h => queue'[n] = queue[n]
    BY <1>4, <1>8
  <2>3. /\ c.step \in {"getForSend", "putInFlight"} => queue'[h].status = "PENDING"
        /\ c.step = "send" => queue'[h].status = "IN_FLIGHT"
        /\ c.step \in Settling => queue'[h].status \in {"PENDING", "IN_FLIGHT"}
        /\ c.step \in {"putInFlight", "putOutcome"} => c.read = queue'[h]
    BY <1>9, <1>10
  <2>4. QED BY <1>6, <1>9, <2>1, <2>2, <2>3, TodoKept
<1>13. OutcomeIsDelivered(c)'
  <2>1. b.outcome = "none"
    BY <1>1, <1>3, <1>10 DEF SenderTypes, CallTypes
  <2>2. QED BY <1>4, <2>1 DEF OutcomeIsDelivered
<1>14. NothingSkipped(c)'
  <2>1. \A n \in DOMAIN queue :
          queue[n].status = "FAILED" => queue'[n].status = "FAILED"
    BY <1>7, <1>8
  <2>2. QED BY <1>4, <1>6, <1>8, <1>10, <1>11, <2>1, SkipKept
<1>15. ResultsStand(c)'
  <2>1. ASSUME NEW k \in DOMAIN c.results PROVE Stands(c, c.results[k])'
    <3>1. PICK r : r = c.results[k]
      OBVIOUS
    <3>2. Stands(b, r)
      BY <1>4, <1>6, <1>10, <2>1, <3>1 DEF ResultsStand
    <3>3. r.id # h /\ r.id \in DOMAIN queue /\ \A i \in DOMAIN c.todo : c.todo[i].id # r.id
      BY <1>4, <3>2 DEF Stands, IsActive
    <3>4. queue'[r.id].status = queue[r.id].status /\ r.id \in DOMAIN queue'
      BY <1>8, <3>3
    <3>5. Stands(c, r)'
      BY <3>2, <3>3, <3>4, StandsStill
    <3>6. QED BY <3>1, <3>5
  <2>2. QED BY <1>10, <2>1 DEF ResultsStand
<1>16. (\A t \in Call : CallIsTrue(calls[t]))'
  BY <1>5, <1>12, <1>13, <1>14, <1>15, AllCalls
<1>17. HistoryIsTrue'
  <2>1. \A n \in DOMAIN queue : ~BeingSent(n)
    BY <1>2, <1>5 DEF BeingSent, Idle
  <2>2. \A n \in DOMAIN queue : WasSent(n) \/ queue[n].status \in {"PENDING", "FAILED"}
    BY <1>3, <2>1 DEF HistoryIsTrue, UnsentWaits
  <2>3. BeingSent(h)'
    <3>1. calls'[s].step = "send" /\ calls'[s].todo[1].id = h
      BY <1>4, <1>6
    <3>2. QED BY <3>1 DEF BeingSent
  <2>4. ASSUME NEW n \in DOMAIN queue'
        PROVE  \/ WasSent(n)
               \/ queue'[n].status \in {"PENDING", "FAILED"}
               \/ queue'[n].status = "IN_FLIGHT" /\ BeingSent(n)'
    <3>1. CASE n = h
      BY <1>9, <2>3, <3>1
    <3>2. CASE n # h
      BY <1>8, <2>2, <2>4, <3>2
    <3>3. QED BY <3>1, <3>2
  <2>5. \A n \in DOMAIN queue : queue[n].status = "ACKNOWLEDGED" =>
          [id |-> n, version |-> queue[n].version] \in delivered
    BY <1>3 DEF HistoryIsTrue, PeerHasIt
  <2>6. \A n \in DOMAIN queue' : queue'[n].status = "ACKNOWLEDGED" =>
          [id |-> n, version |-> queue'[n].version] \in delivered
    BY <1>8, <1>9, <2>5
  <2>7. \A n \in DOMAIN queue :
          queue[n].status = "FAILED" => queue'[n].status = "FAILED"
    BY <1>7, <1>8
  <2>8. QED BY <1>3, <1>4, <1>8, <2>4, <2>6, <2>7, HistoryKept
<1>18. QED BY <1>5, <1>16, <1>17 DEF AloneHolds

\* An answer of the transport or of a storage that failed.
LEMMA AnsweredAlone ==
  ASSUME SenderInv, "overlap" \notin faults, NEW s \in Call, calls[s].step # "idle",
         NEW b, NEW h, IsActive(s, b, h),
         NEW done \in Seq(Answer), NEW class, NEW o, Answered(s, done, class, o),
         \A k \in DOMAIN done : Stands(b, done[k]),
         queue[h].status \in {"PENDING", "IN_FLIGHT"},
         o = "ACKNOWLEDGED" => Value(s) \in delivered',
         \A n : WasSent(n) => WasSent(n)',
         WasSent(h)' \/ o = "FAILED"
  PROVE  /\ OneCall' /\ (\A t \in Call : CallIsTrue(calls[t]))'
         /\ \A t \in Call : t # s => calls[t] = Idle
<1>1. SenderTypes /\ OneCall
  BY DEF SenderInv, StatusInv, AloneInv
<1> PICK c : c = calls'[s]
  OBVIOUS
<1>2. /\ calls' = [calls EXCEPT ![s] = calls'[s]]
      /\ c.step = "getForOutcome" /\ c.todo = b.todo
      /\ c.outcome = o /\ c.results = Append(done, Result(s, class))
      /\ class \in ErrorClassification \cup {"SUCCESS"} /\ Match(class, o)
      /\ queue' = queue
  BY DEF Answered, IsActive
<1>3. OneCall' /\ \A t \in Call : t # s => calls[t] = Idle /\ calls'[t] = Idle
  BY <1>1, <1>2, OnlyCall
<1>4. /\ b.todo \in Seq(Entry) /\ b.todo[1].id = h /\ h \in Mutation
      /\ \A i \in DOMAIN b.todo : b.todo[i].id \in DOMAIN queue
      /\ \A i \in DOMAIN b.todo : i # 1 => b.todo[i].id # h
      /\ TodoIsCurrent(b) /\ NothingSkipped(b)
      /\ Value(s) = [id |-> b.todo[1].id, version |-> b.todo[1].version]
  BY DEF IsActive, Value
<1>5. /\ c.step \in Settling /\ c.step \notin Sending
      /\ c.step \notin {"getForSend", "putInFlight", "send", "putOutcome"}
  BY <1>2 DEF Sending, Settling
<1>6. TodoIsCurrent(c)'
  <2>1. DOMAIN b.todo \subseteq Nat \ {0}
    BY <1>4
  <2>2. QED BY <1>2, <1>4, <1>5, <2>1, TodoKept
<1>7. OutcomeIsDelivered(c)'
  BY <1>2, <1>4 DEF OutcomeIsDelivered
<1>8. NothingSkipped(c)'
  BY <1>2, <1>4, SkipKept
<1>9. Result(s, class) \in Answer /\ Result(s, class).id = h
      /\ Result(s, class).class = class
  BY <1>2, <1>4 DEF Result, Answer, IsActive
<1>10. /\ Len(c.results) = Len(done) + 1 /\ DOMAIN c.results = 1..(Len(done) + 1)
       /\ \A k \in 1..Len(done) : c.results[k] = done[k]
       /\ c.results[Len(done) + 1] = Result(s, class)
       /\ Len(done) \in Nat /\ DOMAIN done = 1..Len(done)
  <2>1. /\ Append(done, Result(s, class)) \in Seq(Answer)
        /\ Len(Append(done, Result(s, class))) = Len(done) + 1
        /\ \A k \in 1..Len(done) : Append(done, Result(s, class))[k] = done[k]
        /\ Append(done, Result(s, class))[Len(done) + 1] = Result(s, class)
    BY <1>9, AppendProperties
  <2>2. QED BY <1>2, <2>1
<1>11. ResultsStand(c)'
  <2>1. ASSUME NEW k \in DOMAIN c.results, k < Len(c.results)
        PROVE  Stands(c, c.results[k])'
    <3>1. PICK r : r = c.results[k]
      OBVIOUS
    <3>2. k \in DOMAIN done /\ r = done[k]
      BY <1>10, <2>1, <3>1
    <3>3. Stands(b, r)
      BY <3>2
    <3>4. Stands(c, r)'
      BY <1>2, <3>3 DEF Stands
    <3>5. QED BY <3>1, <3>4
  <2>2. /\ c.results[Len(c.results)].id = c.todo[1].id
        /\ Match(c.results[Len(c.results)].class, c.outcome)
    BY <1>2, <1>4, <1>9, <1>10
  <2>3. QED BY <1>5, <2>1, <2>2 DEF ResultsStand
<1>12. (\A t \in Call : CallIsTrue(calls[t]))'
  BY <1>3, <1>6, <1>7, <1>8, <1>11, AllCalls
<1>13. QED BY <1>3, <1>12

LEMMA SendAlone ==
  ASSUME SenderInv, NEW s \in Call, "overlap" \notin faults',
         SendSucceeds(s) \/ \E e \in TransportError : SendFails(s, e)
  PROVE  AloneHolds'
<1>1. SenderTypes
  BY DEF SenderInv, StatusInv
<1>2. PICK class \in ErrorClassification \cup {"SUCCESS"}, o \in Settled,
           taken \in BOOLEAN :
        /\ calls[s].step = "send"
        /\ Answered(s, calls[s].results, class, o)
        /\ Give(s, taken)
        /\ o = "ACKNOWLEDGED" => taken
        /\ UNCHANGED faults
  BY <1>1, SendDoes
<1>3. "overlap" \notin faults /\ calls[s].step # "idle"
  BY <1>2
<1> PICK b, h : IsActive(s, b, h)
  BY <1>3, Active
<1> DEFINE v == Value(s)
<1>4. /\ b = calls[s] /\ b.step = "send" /\ HistoryIsTrue
      /\ b.todo[1].id = h /\ h \in DOMAIN queue /\ h \in Mutation /\ 1 \in DOMAIN b.todo
      /\ TodoIsCurrent(b) /\ NothingSkipped(b) /\ ResultsStand(b)
  BY <1>2, <1>3, Active DEF IsActive
<1>5. v \in [id: Mutation, version: Nat] /\ v.id = h
  BY <1>1, <1>3, CallFields DEF IsActive
<1> HIDE DEF v
<1>6. /\ queue' = queue
      /\ sent' = Append(sent, v)
      /\ delivered' = IF taken THEN delivered \cup {v} ELSE delivered
  BY <1>2, <1>3 DEF Answered, Give, v
<1>7. sent \in Seq([id: Mutation, version: Nat])
  BY <1>1 DEF SenderTypes, TypeOK
<1>8. /\ Len(sent) \in Nat /\ DOMAIN sent = 1..Len(sent)
      /\ DOMAIN sent' = 1..(Len(sent) + 1)
      /\ \A p \in DOMAIN sent : sent'[p] = sent[p]
      /\ sent'[Len(sent) + 1] = v
  <2> DEFINE T == [id: Mutation, version: Nat]
  <2>1. sent \in Seq(T) /\ v \in T
    BY <1>5, <1>7
  <2> HIDE DEF T
  <2>2. /\ Append(sent, v) \in Seq(T)
        /\ Len(Append(sent, v)) = Len(sent) + 1
        /\ \A p \in 1..Len(sent) : Append(sent, v)[p] = sent[p]
        /\ Append(sent, v)[Len(sent) + 1] = v
    BY <2>1, AppendProperties
  <2>3. Len(sent) \in Nat /\ DOMAIN sent = 1..Len(sent)
    BY <2>1
  <2>4. QED BY <1>6, <2>2, <2>3
<1>9. ASSUME NEW n, WasSent(n) PROVE WasSent(n)'
  BY <1>8, <1>9 DEF WasSent
<1>10. WasSent(h)'
  BY <1>5, <1>8 DEF WasSent
<1>11. queue[h].status = "IN_FLIGHT"
  BY <1>4 DEF TodoIsCurrent
<1>12. calls[s].results \in Seq(Answer) /\ \A k \in DOMAIN b.results : Stands(b, b.results[k])
  <2>1. b.step \in Sending
    BY <1>4 DEF Sending
  <2>2. QED BY <1>1, <1>4, <2>1 DEF ResultsStand, IsActive, CallState, Answer
<1>13. o = "ACKNOWLEDGED" => Value(s) \in delivered'
  BY <1>2, <1>6 DEF v
<1>14. /\ OneCall' /\ (\A t \in Call : CallIsTrue(calls[t]))'
       /\ \A t \in Call : t # s => calls[t] = Idle
  <2>1. \A k \in DOMAIN calls[s].results : Stands(b, calls[s].results[k])
    BY <1>4, <1>12
  <2>2. queue[h].status \in {"PENDING", "IN_FLIGHT"}
    BY <1>11
  <2>3. Answered(s, calls[s].results, class, o)
    BY <1>2
  <2>4. QED BY <1>3, <1>9, <1>10, <1>12, <1>13, <2>1, <2>2, <2>3, AnsweredAlone
<1>15. PeerHasIt'
  <2>1. delivered \subseteq delivered'
    BY <1>6
  <2>2. QED BY <1>4, <1>6, <2>1 DEF HistoryIsTrue, PeerHasIt
<1>16. SentIsQueued'
  <2>1. \A p \in DOMAIN sent : sent[p].id \in DOMAIN queue
    BY <1>4 DEF HistoryIsTrue, SentIsQueued
  <2>2. QED BY <1>4, <1>5, <1>6, <1>8, <2>1 DEF SentIsQueued
<1>17. UnsentWaits'
  <2>1. ASSUME NEW n \in DOMAIN queue
        PROVE  WasSent(n)' \/ queue[n].status \in {"PENDING", "FAILED"}
    <3>1. CASE WasSent(n)
      BY <1>9, <3>1
    <3>2. CASE BeingSent(n)
      <4>1. n = h
        BY <1>4, <1>14, <3>2 DEF BeingSent, Idle
      <4>2. QED BY <1>10, <4>1
    <3>3. QED BY <1>4, <3>1, <3>2 DEF HistoryIsTrue, UnsentWaits
  <2>2. QED BY <1>6, <2>1 DEF UnsentWaits
<1>18. SentFirst'
  <2> SUFFICES ASSUME NEW p \in DOMAIN sent', NEW m \in DOMAIN queue,
                      m < sent'[p].id
               PROVE  SentBefore(m, p)' \/ (~WasSent(m)' /\ queue[m].status = "FAILED")
    BY <1>6 DEF SentFirst
  <2>1. m \in Nat /\ h \in Nat
    BY <1>1, <1>4, SenderConstants DEF SenderTypes, TypeOK
  <2>2. ASSUME m # h, ~WasSent(m) PROVE ~WasSent(m)'
    BY <1>5, <1>8, <2>2 DEF WasSent
  <2>3. CASE p \in DOMAIN sent
    <3>1. SentBefore(m, p) \/ (~WasSent(m) /\ queue[m].status = "FAILED")
      BY <1>4, <1>8, <2>3 DEF HistoryIsTrue, SentFirst
    <3>2. SentBefore(m, p) => SentBefore(m, p)'
      BY <1>8, <2>3 DEF SentBefore
    <3>3. queue[m].status = "FAILED" => m # h
      BY <1>11
    <3>4. QED BY <2>2, <3>1, <3>2, <3>3
  <2>4. CASE p = Len(sent) + 1
    <3>1. m < h
      BY <1>5, <1>8, <2>4
    <3>2. ~ \E j \in 1..(1 - 1) : b.todo[j].id = m
      OBVIOUS
    <3>3. WasSent(m) \/ queue[m].status = "FAILED"
      BY <1>4, <3>1, <3>2 DEF NothingSkipped
    <3>4. WasSent(m) => SentBefore(m, p)'
      BY <1>8, <2>4 DEF WasSent, SentBefore
    <3>5. QED BY <2>1, <2>2, <3>1, <3>3, <3>4
  <2>5. QED BY <1>8, <2>3, <2>4
<1>19. QED BY <1>14, <1>15, <1>16, <1>17, <1>18 DEF AloneHolds, HistoryIsTrue

LEMMA StorageAlone ==
  ASSUME SenderInv, NEW s \in Call, StorageFails(s), "overlap" \notin faults'
  PROVE  AloneHolds'
<1>1. /\ SenderTypes /\ OneCall /\ "overlap" \notin faults
      /\ UNCHANGED <<queue, sent, delivered>>
  BY DEF StorageFails, SenderInv, StatusInv, AloneInv
<1>2. calls[s].step # "idle"
  BY DEF StorageFails, StorageFailsInSend, StorageFailsInCatch
<1> PICK b, h : IsActive(s, b, h)
  BY <1>1, <1>2, Active
<1>3. /\ b = calls[s] /\ HistoryIsTrue /\ b.todo \in Seq(Entry) /\ b \in CallState
      /\ b.todo[1].id = h /\ h \in DOMAIN queue /\ 1 \in DOMAIN b.todo
      /\ TodoIsCurrent(b) /\ NothingSkipped(b) /\ ResultsStand(b)
  BY <1>1, <1>2, Active DEF IsActive
<1>4. \A n : WasSent(n)' <=> WasSent(n)
  BY <1>1 DEF WasSent
<1>5. /\ OneCall' /\ (\A t \in Call : CallIsTrue(calls[t]))'
      /\ \A t \in Call : t # s => calls[t] = Idle
      /\ calls[s].step # "send"
  <2>1. CASE StorageFailsInSend(s)
    <3>1. PICK class :
            /\ Answered(s, Done(s), class, "FAILED")
            /\ \/ calls[s].step \in {"getForSend", "putInFlight"}
               \/ calls[s].outcome = "ACKNOWLEDGED" /\ calls[s].step \in Settling
      BY <1>1, <2>1, StorageInSendDoes
    <3>2. calls[s].step # "send"
      BY <3>1 DEF Settling
    <3>3. queue[h].status \in {"PENDING", "IN_FLIGHT"}
      BY <1>3, <3>1 DEF TodoIsCurrent
    <3>4. Done(s) \in Seq(Answer)
      BY <1>1, DoneIs
    <3>5. \A k \in DOMAIN Done(s) : Stands(b, Done(s)[k])
      <4>1. CASE b.step \in {"getForSend", "putInFlight"}
        <5>1. b.step \in Sending /\ b.outcome = "none"
          BY <1>1, <1>3, <4>1 DEF Sending, SenderTypes, CallTypes
        <5>2. Done(s) = b.results
          BY <1>3, <5>1 DEF Done
        <5>3. QED BY <1>3, <5>1, <5>2 DEF ResultsStand
      <4>2. CASE b.outcome = "ACKNOWLEDGED" /\ b.step \in Settling
        <5>1. b.results # <<>> /\ b.results \in Seq(Answer)
          BY <1>1, <1>3, <4>2 DEF SenderTypes, CallTypes, CallState, Answer
        <5>2. Done(s) = Front(b.results)
          BY <1>3, <4>2 DEF Done
        <5>3. Len(b.results) \in Nat \ {0} /\ DOMAIN b.results = 1..Len(b.results)
          BY <5>1
        <5>4. /\ DOMAIN Done(s) = 1..(Len(b.results) - 1)
              /\ \A k \in 1..(Len(b.results) - 1) : Done(s)[k] = b.results[k]
          BY <5>1, <5>2, <5>3, FrontIs
        <5>5. QED BY <1>3, <5>3, <5>4 DEF ResultsStand
      <4>3. QED BY <1>3, <3>1, <4>1, <4>2
    <3>6. QED BY <1>1, <1>2, <1>4, <3>1, <3>2, <3>3, <3>4, <3>5, AnsweredAlone
  <2>2. CASE StorageFailsInCatch(s)
    <3>1. calls' = [calls EXCEPT ![s] = Idle] /\ calls[s].step # "send"
      BY <2>2 DEF StorageFailsInCatch
    <3>2. calls'[s] = Idle /\ calls' = [calls EXCEPT ![s] = calls'[s]]
      BY <1>1, <3>1 DEF SenderTypes, TypeOK
    <3>3. OneCall' /\ \A t \in Call : t # s => calls[t] = Idle /\ calls'[t] = Idle
      BY <1>1, <1>2, <3>2, OnlyCall
    <3>4. /\ TodoIsCurrent(Idle)' /\ OutcomeIsDelivered(Idle)'
          /\ NothingSkipped(Idle)' /\ ResultsStand(Idle)'
      BY IdleIsTrue DEF CallIsTrue
    <3>5. (\A t \in Call : CallIsTrue(calls[t]))'
      BY <3>2, <3>3, <3>4, AllCalls
    <3>6. QED BY <3>1, <3>3, <3>5
  <2>3. QED BY <2>1, <2>2 DEF StorageFails
<1>6. HistoryIsTrue'
  <2>1. \A n \in DOMAIN queue : ~BeingSent(n)
    BY <1>5 DEF BeingSent, Idle
  <2>2. \A n \in DOMAIN queue : WasSent(n) \/ queue[n].status \in {"PENDING", "FAILED"}
    BY <1>3, <2>1 DEF HistoryIsTrue, UnsentWaits
  <2>3. \A n \in DOMAIN queue : queue[n].status = "ACKNOWLEDGED" =>
          [id |-> n, version |-> queue[n].version] \in delivered
    BY <1>3 DEF HistoryIsTrue, PeerHasIt
  <2>4. QED BY <1>1, <1>3, <2>2, <2>3, HistoryKept
<1>7. QED BY <1>5, <1>6 DEF AloneHolds


\* What an outcome that is written does.
LEMMA OutcomeIsWritten ==
  ASSUME SenderInv, NEW s \in Call, PutOutcome(s), "overlap" \notin faults,
         NEW b, NEW h, IsActive(s, b, h)
  PROVE  /\ DOMAIN queue' = DOMAIN queue
         /\ \A n \in DOMAIN queue : n # h => queue'[n] = queue[n]
         /\ queue'[h].status = b.outcome
         /\ queue'[h].version = b.todo[1].version
         /\ queue[h].status \in {"PENDING", "IN_FLIGHT"}
         /\ b.outcome \in Settled
         /\ \A k \in DOMAIN b.results :
              Match(b.results[k].class, queue'[b.results[k].id].status)
<1>1. SenderTypes /\ calls[s].step = "putOutcome" /\ calls[s].read \in Record
  BY DEF SenderInv, StatusInv, SenderTypes, CallTypes, PutOutcome
<1>2. /\ b = calls[s] /\ b.step = "putOutcome" /\ b.read \in Record /\ b \in CallState
      /\ b.todo[1].id = h /\ 1 \in DOMAIN b.todo /\ h \in DOMAIN queue
      /\ TodoIsCurrent(b) /\ ResultsStand(b)
  BY <1>1 DEF IsActive
<1>3. /\ queue' = [queue EXCEPT ![h] = [b.read EXCEPT !.status = b.outcome]]
      /\ b.outcome \in Settled
  BY <1>1, <1>2, PutOutcomeDoes DEF IsActive
<1>4. /\ b.step \in Settling /\ b.step \notin Sending
      /\ b.step \in {"putInFlight", "putOutcome"}
  BY <1>2 DEF Settling, Sending
<1>5. /\ b.read = queue[h] /\ queue[h].status \in {"PENDING", "IN_FLIGHT"}
      /\ queue[h].version = b.todo[1].version
  BY <1>2, <1>4 DEF TodoIsCurrent
<1>6. /\ DOMAIN queue' = DOMAIN queue
      /\ \A n \in DOMAIN queue : n # h => queue'[n] = queue[n]
      /\ queue'[h] = [b.read EXCEPT !.status = b.outcome]
  BY <1>2, <1>3
<1>7. queue'[h].status = b.outcome /\ queue'[h].version = b.read.version
  BY <1>2, <1>6 DEF Record
<1>8. ASSUME NEW k \in DOMAIN b.results
      PROVE  Match(b.results[k].class, queue'[b.results[k].id].status)
  <2>1. Len(b.results) \in Nat /\ DOMAIN b.results = 1..Len(b.results)
    BY <1>2 DEF CallState
  <2>2. CASE k < Len(b.results)
    <3>1. Stands(b, b.results[k])
      BY <1>2, <1>8, <2>2 DEF ResultsStand
    <3>2. /\ b.results[k].id \in DOMAIN queue /\ b.results[k].id # h
          /\ Match(b.results[k].class, queue[b.results[k].id].status)
      BY <1>2, <3>1 DEF Stands
    <3>3. queue'[b.results[k].id] = queue[b.results[k].id]
      BY <1>6, <3>2
    <3>4. QED BY <3>2, <3>3
  <2>3. CASE k = Len(b.results)
    <3>1. b.results[k].id = h /\ Match(b.results[k].class, b.outcome)
      BY <1>2, <1>4, <2>3 DEF ResultsStand
    <3>2. queue'[b.results[k].id].status = b.outcome
      BY <1>7, <3>1
    <3>3. QED BY <3>1, <3>2
  <2>4. QED BY <1>8, <2>1, <2>2, <2>3
<1>9. QED BY <1>3, <1>5, <1>6, <1>7, <1>8

LEMMA PutOutcomeAlone ==
  ASSUME SenderInv, NEW s \in Call, PutOutcome(s), "overlap" \notin faults'
  PROVE  AloneHolds'
<1>1. /\ SenderTypes /\ OneCall /\ "overlap" \notin faults
      /\ calls[s].step = "putOutcome" /\ calls[s].step # "idle"
      /\ UNCHANGED <<sent, delivered>>
  BY DEF PutOutcome, SenderInv, StatusInv, AloneInv
<1> PICK b, h : IsActive(s, b, h)
  BY <1>1, Active
<1> PICK c : c = calls'[s]
  OBVIOUS
<1>2. /\ b = calls[s] /\ b.step = "putOutcome" /\ HistoryIsTrue /\ b \in CallState
      /\ b.todo \in Seq(Entry) /\ b.todo # <<>>
      /\ b.todo[1].id = h /\ h \in DOMAIN queue /\ h \in Mutation /\ 1 \in DOMAIN b.todo
      /\ \A i \in DOMAIN b.todo : b.todo[i].id \in DOMAIN queue
      /\ \A i \in DOMAIN b.todo : i # 1 => b.todo[i].id # h
      /\ TodoIsCurrent(b) /\ NothingSkipped(b) /\ ResultsStand(b) /\ OutcomeIsDelivered(b)
  BY <1>1, Active DEF IsActive
<1>3. /\ DOMAIN queue' = DOMAIN queue
      /\ \A n \in DOMAIN queue : n # h => queue'[n] = queue[n]
      /\ queue'[h].status = b.outcome
      /\ queue'[h].version = b.todo[1].version
      /\ queue[h].status \in {"PENDING", "IN_FLIGHT"}
      /\ b.outcome \in Settled
      /\ \A k \in DOMAIN b.results :
           Match(b.results[k].class, queue'[b.results[k].id].status)
  BY <1>1, OutcomeIsWritten
<1>4. /\ calls' = [calls EXCEPT ![s] = calls'[s]]
      /\ \/ c = Idle
         \/ c = [step |-> "getForSend", todo |-> Tail(b.todo), read |-> Nothing,
                 outcome |-> "none", results |-> b.results]
            /\ Tail(b.todo) # <<>>
  BY <1>1, <1>2, PutOutcomeDoes
<1>5. OneCall' /\ \A t \in Call : t # s => calls[t] = Idle /\ calls'[t] = Idle
  BY <1>1, <1>4, OnlyCall
<1>6. \A n : WasSent(n)' <=> WasSent(n)
  BY <1>1 DEF WasSent
<1>7. b.step \in Settling
  BY <1>2 DEF Settling
<1>8. WasSent(h) \/ b.outcome = "FAILED"
  BY <1>2, <1>7 DEF NothingSkipped
<1>9. TodoIsCurrent(c)' /\ OutcomeIsDelivered(c)' /\ NothingSkipped(c)' /\ ResultsStand(c)'
  <2>1. CASE c = Idle
    BY <2>1, IdleIsTrue DEF CallIsTrue
  <2>2. CASE c = [step |-> "getForSend", todo |-> Tail(b.todo), read |-> Nothing,
                  outcome |-> "none", results |-> b.results] /\ Tail(b.todo) # <<>>
    <3>1. /\ c.step = "getForSend" /\ c.todo = Tail(b.todo) /\ c.outcome = "none"
          /\ c.results = b.results
      BY <2>2
    <3>2. /\ c.step \notin Settling /\ c.step \in Sending
          /\ c.step \notin {"send", "putInFlight", "putOutcome"}
      BY <3>1 DEF Sending, Settling
    <3>3. /\ Len(b.todo) \in Nat \ {0} /\ DOMAIN b.todo = 1..Len(b.todo)
          /\ DOMAIN c.todo = 1..(Len(b.todo) - 1)
          /\ \A i \in 1..(Len(b.todo) - 1) : c.todo[i] = b.todo[i + 1]
          /\ c.todo # <<>> /\ c.todo \in Seq(Entry)
      BY <1>2, <2>2, <3>1, TailIs
    <3>4. 1 \in DOMAIN c.todo
      BY <3>3
    <3>5. \A i \in DOMAIN c.todo :
            /\ i + 1 \in DOMAIN b.todo /\ c.todo[i] = b.todo[i + 1]
            /\ i + 1 > 1 /\ i \in Nat \ {0}
      BY <3>3
    <3>6. \A i \in DOMAIN c.todo :
            /\ c.todo[i].id # h /\ c.todo[i].id \in DOMAIN queue
            /\ queue[c.todo[i].id].version = c.todo[i].version
            /\ queue[c.todo[i].id].status = "PENDING"
      BY <1>2, <3>5 DEF TodoIsCurrent
    <3>7. \A i \in DOMAIN c.todo :
            /\ queue'[c.todo[i].id].version = c.todo[i].version
            /\ queue'[c.todo[i].id].status = "PENDING"
      BY <1>3, <3>6
    <3>8. \A i, j \in DOMAIN c.todo : i < j => c.todo[i].id < c.todo[j].id
      <4> SUFFICES ASSUME NEW i \in DOMAIN c.todo, NEW j \in DOMAIN c.todo, i < j
                   PROVE  c.todo[i].id < c.todo[j].id
        OBVIOUS
      <4>1. i + 1 < j + 1 /\ i + 1 \in DOMAIN b.todo /\ j + 1 \in DOMAIN b.todo
        BY <3>5
      <4>2. b.todo[i + 1].id < b.todo[j + 1].id
        BY <1>2, <4>1 DEF TodoIsCurrent
      <4>3. QED BY <3>5, <4>2
    <3>9. TodoIsCurrent(c)'
      BY <3>1, <3>2, <3>4, <3>7, <3>8 DEF TodoIsCurrent
    <3>10. OutcomeIsDelivered(c)'
      BY <3>1 DEF OutcomeIsDelivered
    <3>11. NothingSkipped(c)'
      <4>1. ASSUME NEW i \in DOMAIN c.todo, NEW m \in DOMAIN queue, m < c.todo[i].id
            PROVE  \/ \E j \in 1..(i - 1) : c.todo[j].id = m
                   \/ WasSent(m)
                   \/ queue'[m].status = "FAILED"
        <5>1. i + 1 \in DOMAIN b.todo /\ m < b.todo[i + 1].id
          BY <3>5, <4>1
        <5>2. \/ \E j \in 1..(i + 1 - 1) : b.todo[j].id = m
              \/ WasSent(m) \/ queue[m].status = "FAILED"
          <6>1. PICK n : n = i + 1
            OBVIOUS
          <6>2. n \in DOMAIN b.todo /\ m < b.todo[n].id
            BY <5>1, <6>1
          <6>3. \/ \E j \in 1..(n - 1) : b.todo[j].id = m
                \/ WasSent(m) \/ queue[m].status = "FAILED"
            BY <1>2, <4>1, <6>2 DEF NothingSkipped
          <6>4. QED BY <3>5, <4>1, <6>1, <6>3
        <5>3. CASE m = h
          BY <1>3, <1>8, <5>3
        <5>4. CASE m # h
          <6>1. queue'[m] = queue[m]
            BY <1>3, <4>1, <5>4
          <6>2. CASE \E j \in 1..(i + 1 - 1) : b.todo[j].id = m
            <7>1. PICK j \in 1..(i + 1 - 1) : b.todo[j].id = m
              BY <6>2
            <7>2. j # 1
              BY <1>2, <5>4, <7>1
            <7>3. j - 1 \in 1..(i - 1) /\ j - 1 \in DOMAIN c.todo /\ (j - 1) + 1 = j
              BY <3>3, <4>1, <7>1, <7>2
            <7>4. c.todo[j - 1].id = m
              BY <3>5, <7>1, <7>3
            <7>5. QED BY <7>3, <7>4
          <6>3. QED BY <5>2, <6>1, <6>2
        <5>5. QED BY <5>3, <5>4
      <4>2. QED BY <1>3, <1>6, <3>2, <4>1 DEF NothingSkipped
    <3>12. ResultsStand(c)'
      <4>1. ASSUME NEW k \in DOMAIN c.results PROVE Stands(c, c.results[k])'
        <5>1. PICK r : r = c.results[k]
          OBVIOUS
        <5>2. Match(r.class, queue'[r.id].status)
          BY <1>3, <3>1, <4>1, <5>1
        <5>3. r.id \in DOMAIN queue /\ \A i \in DOMAIN c.todo : c.todo[i].id # r.id
          <6>1. Len(b.results) \in Nat /\ DOMAIN b.results = 1..Len(b.results)
            BY <1>2 DEF CallState
          <6>2. CASE k < Len(b.results)
            <7>1. Stands(b, r)
              BY <1>2, <3>1, <4>1, <5>1, <6>2 DEF ResultsStand
            <7>2. QED BY <3>5, <7>1 DEF Stands
          <6>3. CASE k = Len(b.results)
            <7>1. r.id = h
              BY <1>2, <1>7, <3>1, <5>1, <6>3 DEF ResultsStand
            <7>2. QED BY <1>2, <3>6, <7>1
          <6>4. QED BY <3>1, <4>1, <6>1, <6>2, <6>3
        <5>4. Stands(c, r)'
          BY <1>3, <5>2, <5>3 DEF Stands
        <5>5. QED BY <5>1, <5>4
      <4>2. QED BY <3>2, <4>1 DEF ResultsStand
    <3>13. QED BY <3>9, <3>10, <3>11, <3>12
  <2>3. QED BY <1>4, <2>1, <2>2
<1>10. (\A t \in Call : CallIsTrue(calls[t]))'
  BY <1>5, <1>9, AllCalls
<1>11. HistoryIsTrue'
  <2>1. \A n \in DOMAIN queue : ~BeingSent(n)
    BY <1>1, <1>5 DEF BeingSent, Idle
  <2>2. \A n \in DOMAIN queue : WasSent(n) \/ queue[n].status \in {"PENDING", "FAILED"}
    BY <1>2, <2>1 DEF HistoryIsTrue, UnsentWaits
  <2>3. ASSUME NEW n \in DOMAIN queue'
        PROVE  WasSent(n) \/ queue'[n].status \in {"PENDING", "FAILED"}
    <3>1. CASE n = h
      BY <1>3, <1>8, <3>1
    <3>2. CASE n # h
      BY <1>3, <2>2, <2>3, <3>2
    <3>3. QED BY <3>1, <3>2
  <2>4. ASSUME NEW n \in DOMAIN queue', queue'[n].status = "ACKNOWLEDGED"
        PROVE  [id |-> n, version |-> queue'[n].version] \in delivered
    <3>1. CASE n = h
      BY <1>2, <1>3, <2>4, <3>1 DEF OutcomeIsDelivered
    <3>2. CASE n # h
      BY <1>2, <1>3, <2>4, <3>2 DEF HistoryIsTrue, PeerHasIt
    <3>3. QED BY <3>1, <3>2
  <2>5. \A n \in DOMAIN queue :
          queue[n].status = "FAILED" => queue'[n].status = "FAILED"
    BY <1>3
  <2>6. QED BY <1>1, <1>2, <1>3, <2>3, <2>4, <2>5, HistoryKept
<1>12. QED BY <1>5, <1>10, <1>11 DEF AloneHolds


\* Mutations that are enqueued or resolved are none a call holds.
LEMMA QueueAlone ==
  ASSUME SenderInv, NEW m \in Mutation, Enqueue(m) \/ ResolveConflict(m),
         "overlap" \notin faults'
  PROVE  AloneHolds'
<1>1. /\ UNCHANGED <<calls, sent, delivered, faults>>
      /\ DOMAIN queue \subseteq DOMAIN queue' /\ DOMAIN queue' \subseteq Mutation
      /\ \A n \in DOMAIN queue :
           \/ queue'[n] = queue[n]
           \/ queue[n].status = "CONFLICT" /\ queue'[n].status = "PENDING"
      /\ \A n \in DOMAIN queue' : n \notin DOMAIN queue =>
           /\ queue'[n].status = "PENDING"
           /\ \A k \in DOMAIN queue : ~(n < k)
  <2>1. SenderTypes /\ DOMAIN queue \subseteq Mutation
    BY DEF SenderInv, StatusInv, SenderTypes, TypeOK
  <2>2. CASE Enqueue(m)
    <3>1. \A n \in DOMAIN queue, k \in Mutation : k < n => k \in DOMAIN queue
      BY <2>1 DEF SenderTypes, QueueTypes
    <3>2. QED BY <2>1, <2>2, <3>1, EnqueueDoes
  <2>3. CASE ResolveConflict(m)
    <3>1. /\ m \in DOMAIN queue /\ queue[m].status = "CONFLICT"
          /\ queue' = [queue EXCEPT ![m] = queue'[m]] /\ queue'[m].status = "PENDING"
          /\ UNCHANGED <<calls, sent, delivered, faults>>
      BY <2>1, <2>3, ResolveDoes
    <3>2. DOMAIN queue' = DOMAIN queue /\ \A n \in DOMAIN queue : n # m => queue'[n] = queue[n]
      BY <3>1
    <3>3. QED BY <2>1, <3>1, <3>2
  <2>4. QED BY <2>2, <2>3
<1>2. /\ SenderTypes /\ OneCall /\ HistoryIsTrue
      /\ \A t \in Call : CallIsTrue(calls[t])
  BY <1>1 DEF SenderInv, StatusInv, AloneInv
<1>3. \A n : WasSent(n)' <=> WasSent(n)
  BY <1>1 DEF WasSent
<1>4. OneCall'
  BY <1>1, <1>2 DEF OneCall
<1>5. ASSUME NEW t \in Call, NEW b, b = calls[t]
      PROVE  TodoIsCurrent(b)' /\ OutcomeIsDelivered(b)' /\ NothingSkipped(b)'
             /\ ResultsStand(b)'
  <2>1. /\ TodoIsCurrent(b) /\ OutcomeIsDelivered(b) /\ NothingSkipped(b)
        /\ ResultsStand(b)
    BY <1>2, <1>5 DEF CallIsTrue
  <2>2. /\ b \in CallState /\ b.todo \in Seq(Entry)
        /\ b.step = "idle" <=> b.todo = <<>>
        /\ \A i \in DOMAIN b.todo : b.todo[i].id \in DOMAIN queue
    BY <1>2, <1>5, CallFields DEF SenderTypes, TypeOK, CallTypes
  <2>3. ASSUME NEW i \in DOMAIN b.todo
        PROVE  /\ queue[b.todo[i].id].status \in {"PENDING", "IN_FLIGHT"}
               /\ queue'[b.todo[i].id] = queue[b.todo[i].id]
    <3>1. b.step \in {"getForSend", "putInFlight", "send"} \cup Settling
      <4>1. b.todo # <<>>
        BY <2>2, <2>3
      <4>2. QED BY <2>2, <4>1 DEF CallState, Settling
    <3>2. i \in Nat \ {0}
      BY <2>2, <2>3
    <3>3. CASE i = 1
      <4>1. queue[b.todo[1].id].status \in {"PENDING", "IN_FLIGHT"}
        BY <2>1, <3>1 DEF TodoIsCurrent
      <4>2. QED BY <1>1, <2>2, <2>3, <3>3, <4>1
    <3>4. CASE i > 1
      <4>1. queue[b.todo[i].id].status = "PENDING"
        BY <2>1, <2>3, <3>4 DEF TodoIsCurrent
      <4>2. QED BY <1>1, <2>2, <2>3, <4>1
    <3>5. QED BY <3>2, <3>3, <3>4
  <2>4. TodoIsCurrent(b)'
    <3>1. CASE b.todo = <<>>
      <4>1. b.step = "idle" /\ DOMAIN b.todo = {}
        BY <2>2, <3>1
      <4>2. QED BY <4>1 DEF TodoIsCurrent, Settling
    <3>2. CASE b.todo # <<>>
      <4>1. 1 \in DOMAIN b.todo
        BY <2>2, <3>2
      <4>2. queue'[b.todo[1].id] = queue[b.todo[1].id]
        BY <2>3, <4>1
      <4>3. \A i \in DOMAIN b.todo : queue'[b.todo[i].id] = queue[b.todo[i].id]
        BY <2>3
      <4>4. QED BY <2>1, <4>2, <4>3 DEF TodoIsCurrent
    <3>3. QED BY <3>1, <3>2
  <2>5. OutcomeIsDelivered(b)'
    BY <1>1, <2>1 DEF OutcomeIsDelivered
  <2>6. NothingSkipped(b)'
    <3>1. ASSUME NEW i \in DOMAIN b.todo, NEW n \in DOMAIN queue', n < b.todo[i].id
          PROVE  \/ \E j \in 1..(i - 1) : b.todo[j].id = n
                 \/ WasSent(n)' \/ queue'[n].status = "FAILED"
      <4>1. n \in DOMAIN queue
        BY <1>1, <2>2, <3>1
      <4>2. \/ \E j \in 1..(i - 1) : b.todo[j].id = n
            \/ WasSent(n) \/ queue[n].status = "FAILED"
        BY <2>1, <3>1, <4>1 DEF NothingSkipped
      <4>3. queue[n].status = "FAILED" => queue'[n].status = "FAILED"
        BY <1>1, <4>1
      <4>4. QED BY <1>3, <4>2, <4>3
    <3>2. b.step \in Settling => WasSent(b.todo[1].id)' \/ b.outcome = "FAILED"
      BY <1>3, <2>1 DEF NothingSkipped
    <3>3. QED BY <3>1, <3>2 DEF NothingSkipped
  <2>7. ResultsStand(b)'
    <3>1. ASSUME NEW r, Stands(b, r) PROVE Stands(b, r)'
      <4>1. r.id \in DOMAIN queue /\ Match(r.class, queue[r.id].status)
        BY <3>1 DEF Stands
      <4>2. Match(r.class, queue'[r.id].status)
        <5>1. CASE queue'[r.id] = queue[r.id]
          BY <4>1, <5>1
        <5>2. CASE queue[r.id].status = "CONFLICT" /\ queue'[r.id].status = "PENDING"
          BY <4>1, <5>2 DEF Match
        <5>3. QED BY <1>1, <4>1, <5>1, <5>2
      <4>3. QED BY <1>1, <3>1, <4>1, <4>2 DEF Stands
    <3>2. ASSUME NEW k \in DOMAIN b.results, b.step \in Sending \/ k < Len(b.results)
          PROVE  Stands(b, b.results[k])'
      <4>1. PICK r : r = b.results[k]
        OBVIOUS
      <4>2. Stands(b, r)
        BY <2>1, <3>2, <4>1 DEF ResultsStand
      <4>3. QED BY <3>1, <4>1, <4>2
    <3>3. b.step \in Settling =>
            /\ b.results[Len(b.results)].id = b.todo[1].id
            /\ Match(b.results[Len(b.results)].class, b.outcome)
      BY <2>1 DEF ResultsStand
    <3>4. QED BY <3>2, <3>3 DEF ResultsStand
  <2>8. QED BY <2>4, <2>5, <2>6, <2>7
<1>6. (\A t \in Call : CallIsTrue(calls[t]))'
  <2> SUFFICES ASSUME NEW t \in Call PROVE CallIsTrue(calls[t])'
    OBVIOUS
  <2>1. PICK b : b = calls[t]
    OBVIOUS
  <2>2. TodoIsCurrent(b)' /\ OutcomeIsDelivered(b)' /\ NothingSkipped(b)' /\ ResultsStand(b)'
    BY <1>5, <2>1
  <2>3. b = calls'[t]
    BY <1>1, <2>1
  <2>4. TodoIsCurrent(calls[t])'
    BY <2>2, <2>3 DEF TodoIsCurrent
  <2>5. OutcomeIsDelivered(calls[t])'
    BY <2>2, <2>3 DEF OutcomeIsDelivered
  <2>6. NothingSkipped(calls[t])'
    BY <2>2, <2>3 DEF NothingSkipped, WasSent
  <2>7. ResultsStand(calls[t])'
    BY <2>2, <2>3 DEF ResultsStand, Stands
  <2>8. QED BY <2>4, <2>5, <2>6, <2>7 DEF CallIsTrue
<1>7. HistoryIsTrue'
  <2>1. ASSUME NEW n PROVE BeingSent(n)' <=> BeingSent(n)
    BY <1>1 DEF BeingSent
  <2>2. ASSUME NEW n \in DOMAIN queue'
        PROVE  \/ WasSent(n)
               \/ queue'[n].status \in {"PENDING", "FAILED"}
               \/ queue'[n].status = "IN_FLIGHT" /\ BeingSent(n)'
    <3>1. CASE queue'[n].status = "PENDING"
      BY <3>1
    <3>2. CASE queue'[n].status # "PENDING"
      <4>1. n \in DOMAIN queue /\ queue'[n] = queue[n]
        BY <1>1, <2>2, <3>2
      <4>2. QED BY <1>2, <2>1, <4>1 DEF HistoryIsTrue, UnsentWaits
    <3>3. QED BY <3>1, <3>2
  <2>3. ASSUME NEW n \in DOMAIN queue', queue'[n].status = "ACKNOWLEDGED"
        PROVE  [id |-> n, version |-> queue'[n].version] \in delivered
    <3>1. n \in DOMAIN queue /\ queue'[n] = queue[n]
      BY <1>1, <2>3
    <3>2. QED BY <1>2, <2>3, <3>1 DEF HistoryIsTrue, PeerHasIt
  <2>4. \A n \in DOMAIN queue :
          queue[n].status = "FAILED" => queue'[n].status = "FAILED"
    BY <1>1
  <2>5. \A n \in DOMAIN queue' : n \notin DOMAIN queue =>
          \A p \in DOMAIN sent : ~(n < sent[p].id)
    BY <1>1, <1>2 DEF HistoryIsTrue, SentIsQueued
  <2>6. QED BY <1>1, <1>2, <2>2, <2>3, <2>4, <2>5, HistoryKept
<1>8. QED BY <1>4, <1>6, <1>7 DEF AloneHolds

LEMMA RestartAlone ==
  ASSUME SenderInv, Restart, "overlap" \notin faults'
  PROVE  AloneHolds'
<1>1. SenderTypes
  BY DEF SenderInv, StatusInv
<1>2. /\ calls' = [t \in Call |-> Idle]
      /\ DOMAIN queue' = DOMAIN queue
      /\ \A n \in DOMAIN queue :
           /\ queue'[n].version = queue[n].version
           /\ queue'[n].status = IF queue[n].status = "IN_FLIGHT"
                                   THEN "PENDING" ELSE queue[n].status
      /\ faults' = faults \cup {"crash"}
      /\ UNCHANGED <<sent, delivered>>
  BY <1>1, RestartDoes
<1>3. HistoryIsTrue
  BY <1>2 DEF SenderInv, AloneInv
<1>4. Idle.step = "idle" /\ \A t \in Call : calls'[t] = Idle
  BY <1>2 DEF Idle
<1>5. OneCall'
  BY <1>4 DEF OneCall
<1>6. (\A t \in Call : CallIsTrue(calls[t]))'
  <2>1. CASE Call = {}
    BY <2>1
  <2>2. CASE Call # {}
    <3>1. PICK s \in Call : TRUE
      BY <2>2
    <3>2. /\ TodoIsCurrent(Idle)' /\ OutcomeIsDelivered(Idle)'
          /\ NothingSkipped(Idle)' /\ ResultsStand(Idle)'
      BY IdleIsTrue DEF CallIsTrue
    <3>3. QED BY <1>4, <3>1, <3>2, AllCalls
  <2>3. QED BY <2>1, <2>2
<1>7. HistoryIsTrue'
  <2>1. ASSUME NEW n \in DOMAIN queue'
        PROVE  WasSent(n) \/ queue'[n].status \in {"PENDING", "FAILED"}
    BY <1>2, <1>3, <2>1 DEF HistoryIsTrue, UnsentWaits
  <2>2. \A n \in DOMAIN queue' : queue'[n].status = "ACKNOWLEDGED" =>
          [id |-> n, version |-> queue'[n].version] \in delivered
    BY <1>2, <1>3 DEF HistoryIsTrue, PeerHasIt
  <2>3. \A n \in DOMAIN queue :
          queue[n].status = "FAILED" => queue'[n].status = "FAILED"
    BY <1>2
  <2>4. QED BY <1>2, <1>3, <2>1, <2>2, <2>3, HistoryKept
<1>8. QED BY <1>5, <1>6, <1>7 DEF AloneHolds

-----------------------------------------------------------------------------
(* The invariant, and what follows from it. *)

LEMMA SenderStarts == Init => SenderInv
<1> SUFFICES ASSUME Init PROVE SenderInv
  OBVIOUS
<1>1. DOMAIN queue = {} /\ DOMAIN sent = {} /\ \A t \in Call : calls[t] = Idle
  BY DEF Init
<1>2. /\ Idle.todo = <<>> /\ Idle.results = <<>> /\ Idle.step = "idle"
      /\ Idle.outcome = "none"
  BY DEF Idle
<1>3. DOMAIN Idle.todo = {} /\ DOMAIN Idle.results = {}
  BY <1>2
<1>4. OneCall
  BY <1>1, <1>2 DEF OneCall
<1>5. Idle.step \notin Sending /\ Idle.step \notin Settling
  BY <1>2 DEF Sending, Settling
<1> HIDE DEF Idle
<1>6. TodoIsCurrent(Idle) /\ OutcomeIsDelivered(Idle)
  BY <1>2, <1>3, <1>5 DEF TodoIsCurrent, OutcomeIsDelivered
<1>7. NothingSkipped(Idle) /\ ResultsStand(Idle)
  BY <1>3, <1>5 DEF NothingSkipped, ResultsStand
<1>8. \A t \in Call : CallIsTrue(calls[t])
  BY <1>1, <1>6, <1>7 DEF CallIsTrue
<1>9. HistoryIsTrue
  BY <1>1 DEF HistoryIsTrue, PeerHasIt, SentIsQueued, UnsentWaits, SentFirst
<1>10. QED BY <1>4, <1>8, <1>9, StatusStarts DEF SenderInv, AloneInv

LEMMA AloneStep ==
  ASSUME SenderInv, [Next]_vars, "overlap" \notin faults'
  PROVE  AloneHolds'
<1>1. CASE UNCHANGED vars
  <2>1. OneCall /\ (\A t \in Call : CallIsTrue(calls[t])) /\ HistoryIsTrue
    BY <1>1 DEF SenderInv, AloneInv, vars
  <2>2. OneCall'
    BY <1>1, <2>1 DEF OneCall, vars
  <2>3. (\A t \in Call : CallIsTrue(calls[t]))'
    BY <1>1, <2>1 DEF CallIsTrue, TodoIsCurrent, OutcomeIsDelivered, NothingSkipped,
                      ResultsStand, Stands, WasSent, vars
  <2>4. HistoryIsTrue'
    BY <1>1, <2>1 DEF HistoryIsTrue, PeerHasIt, SentIsQueued, UnsentWaits, SentFirst,
                      SentBefore, WasSent, BeingSent, vars
  <2>5. QED BY <2>2, <2>3, <2>4 DEF AloneHolds
<1>2. ASSUME NEW m \in Mutation, Enqueue(m) \/ ResolveConflict(m) PROVE AloneHolds'
  BY <1>2, QueueAlone
<1>3. ASSUME NEW s \in Call, Sender(s) PROVE AloneHolds'
  BY <1>3, SendPendingAlone, GetAlone, PutInFlightAlone, PutOutcomeAlone, SendAlone
     DEF Sender
<1>4. ASSUME NEW s \in Call, StorageFails(s) PROVE AloneHolds'
  BY <1>4, StorageAlone
<1>5. ASSUME NEW s \in Call, NEW m \in Mutation, RetryMutation(s, m) PROVE UNCHANGED vars
  BY <1>5, RetryDoes DEF SenderInv, StatusInv
<1>6. CASE Restart
  BY <1>6, RestartAlone
<1>7. QED BY <1>1, <1>2, <1>3, <1>4, <1>5, <1>6 DEF Next

LEMMA SenderStep == ASSUME SenderInv, [Next]_vars PROVE SenderInv'
<1>1. StatusInv'
  BY StatusStep DEF SenderInv
<1>2. AloneInv'
  BY AloneStep DEF AloneInv, AloneHolds
<1>3. QED BY <1>1, <1>2 DEF SenderInv

LEMMA SenderKeeps == Spec => []SenderInv
<1>1. Init => SenderInv
  BY SenderStarts
<1>2. SenderInv /\ [Next]_vars => SenderInv'
  BY SenderStep
<1>3. QED BY <1>1, <1>2, PTL DEF Spec

\* Unless calls of sendPending() overlap, mutations are first sent in the order
\* of their sequence numbers, whatever fails, crashes or is resolved.
THEOREM SendsInOrder == Spec => []SentInOrder
<1>1. SenderInv => SentInOrder
  BY DEF SenderInv, AloneInv, HistoryIsTrue, SentFirst, WasSent, SentInOrder
<1>2. QED BY <1>1, SenderKeeps, PTL

\* The status of every mutation is true: acknowledged if the peer took this
\* value of it, in conflict if the peer refused it, IN_FLIGHT while it is sent.
THEOREM EveryStatusIsTrue == Spec => []StatusIsTrue
<1>1. SenderInv => AcknowledgedWasDelivered
  BY DEF SenderInv, AloneInv, HistoryIsTrue, PeerHasIt, AcknowledgedWasDelivered,
         WithStatus
<1>2. SenderInv => StatusIsTrue
  BY <1>1 DEF SenderInv, StatusInv, SenderTypes, StatusIsTrue
<1>3. QED BY <1>2, SenderKeeps, PTL

\* What a call returns is what the queue says when it returns.
THEOREM ResultsAreTrue == Spec => ResultsMatchQueue
<1> DEFINE Matches ==
      \A s \in Call :
        (/\ calls[s].step = "putOutcome"
         /\ calls'[s].step = "idle" /\ count' = count
         /\ "overlap" \notin faults)
        => \A i \in DOMAIN calls[s].results :
             LET r == calls[s].results[i]
                 status == queue'[r.id].status
             IN CASE r.class = "SUCCESS"  -> status = "ACKNOWLEDGED"
                  [] r.class = "CONFLICT" -> status \in {"CONFLICT", "PENDING"}
                  [] OTHER                -> status = "FAILED"
<1>1. ASSUME SenderInv, [Next]_vars PROVE [Matches]_vars
  <2> SUFFICES ASSUME NEW s \in Call, calls[s].step = "putOutcome",
                      calls'[s].step = "idle", count' = count, "overlap" \notin faults,
                      NEW i \in DOMAIN calls[s].results
               PROVE  Match(calls[s].results[i].class,
                            queue'[calls[s].results[i].id].status)
    BY DEF Match
  <2>1. SenderTypes
    BY <1>1 DEF SenderInv, StatusInv
  <2>2. PutOutcome(s)
    <3>1. CASE UNCHANGED vars
      BY <3>1 DEF vars
    <3>2. ASSUME NEW m \in Mutation, Enqueue(m) \/ ResolveConflict(m) PROVE FALSE
      BY <3>2 DEF Enqueue, ResolveConflict
    <3>3. ASSUME NEW t \in Call, t # s, calls' = [calls EXCEPT ![t] = calls'[t]] PROVE FALSE
      BY <2>1, <3>3, OthersStay
    <3>4. ASSUME NEW t \in Call, Sender(t) PROVE PutOutcome(s)
      <4>1. CASE SendPending(t)
        BY <2>1, <3>3, <4>1, SendPendingDoes DEF SendPending
      <4>2. CASE Get(t)
        BY <2>1, <3>3, <4>2, GetDoes DEF Get
      <4>3. CASE PutInFlight(t)
        BY <2>1, <3>3, <4>3, PutInFlightDoes
      <4>4. CASE PutOutcome(t)
        BY <2>1, <3>3, <4>4, PutOutcomeDoes
      <4>5. CASE SendSucceeds(t) \/ \E e \in TransportError : SendFails(t, e)
        BY <2>1, <3>3, <4>5, SendDoes DEF Answered
      <4>6. QED BY <3>4, <4>1, <4>2, <4>3, <4>4, <4>5 DEF Sender
    <3>5. ASSUME NEW t \in Call, StorageFails(t) PROVE FALSE
      BY <2>1, <3>5 DEF StorageFails, SenderTypes, TypeOK
    <3>6. ASSUME NEW t \in Call, NEW m \in Mutation, RetryMutation(t, m) PROVE FALSE
      BY <2>1, <3>1, <3>6, RetryDoes DEF vars
    <3>7. CASE Restart
      BY <2>1, <3>7, RestartDoes
    <3>8. QED BY <1>1, <3>1, <3>2, <3>4, <3>5, <3>6, <3>7 DEF Next
  <2>3. calls[s].step # "idle"
    OBVIOUS
  <2>4. PICK b, h : IsActive(s, b, h)
    BY <1>1, <2>3, Active
  <2>5. \A k \in DOMAIN b.results :
          Match(b.results[k].class, queue'[b.results[k].id].status)
    BY <1>1, <2>2, <2>4, OutcomeIsWritten
  <2>6. QED BY <2>4, <2>5 DEF IsActive
<1>2. Spec => [][Matches]_vars
  BY <1>1, SenderKeeps, PTL DEF Spec
<1>3. QED BY <1>2 DEF ResultsMatchQueue

-----------------------------------------------------------------------------
(* ConflictResolution: data.                                                *)

LEMMA ExceptIsData ==
  ASSUME NEW d, NEW field, NEW value
  PROVE  /\ IsData([d EXCEPT ![field] = value])
         /\ DOMAIN [d EXCEPT ![field] = value] = DOMAIN d
  BY DEF IsData

\* Whatever is done to an object leaves an object.
LEMMA AppliedIsData ==
  ASSUME NEW d, NEW m, IsData(d), m.operation \in Operation,
         m.operation = "set" => IsData(m.value)
  PROVE  IsData(ServerApply(d, m))
  <1>1. CASE m.operation = "set"
    BY <1>1 DEF ServerApply
  <1>2. CASE m.operation = "patch"
    BY <1>2, ExceptIsData DEF ServerApply
  <1>3. CASE m.operation = "increment"
    BY <1>3, ExceptIsData DEF ServerApply
  <1>4. CASE m.operation = "decrement"
    BY <1>4, ExceptIsData DEF ServerApply
  <1>5. CASE m.operation = "add"
    BY <1>5, ExceptIsData DEF ServerApply
  <1>6. CASE m.operation = "remove"
    BY <1>6, ExceptIsData DEF ServerApply
  <1> QED BY <1>1, <1>2, <1>3, <1>4, <1>5, <1>6 DEF Operation, FieldOperation

LEMMA MergedIsData ==
  ASSUME NEW d, NEW m, IsData(d)
  PROVE  IsData(ApplyFieldOperation(d, m))
  <1>1. CASE m.operation = "increment"
    BY <1>1, ExceptIsData DEF ApplyFieldOperation
  <1>2. CASE m.operation = "decrement"
    BY <1>2, ExceptIsData DEF ApplyFieldOperation
  <1>3. CASE m.operation = "add"
    BY <1>3, ExceptIsData DEF ApplyFieldOperation
  <1>4. CASE m.operation = "remove"
    BY <1>4, ExceptIsData DEF ApplyFieldOperation
  <1>5. CASE m.operation \notin {"increment", "decrement", "add", "remove"}
    <2>1. ApplyFieldOperation(d, m) = d
      BY <1>5 DEF ApplyFieldOperation
    <2> QED BY <2>1
  <1> QED BY <1>1, <1>2, <1>3, <1>4, <1>5

LEMMA DeepMergeIsData ==
  ASSUME NEW d, NEW patch
  PROVE  IsData(MergeDeep(d, patch))
  BY ExceptIsData DEF MergeDeep

\* The field merge does what the server would do, but for an item that is there.
LEMMA MergeIsReapplied ==
  ASSUME NEW d, NEW m, IsData(d), m.operation \in FieldOperation
  PROVE  ApplyFieldOperation(d, m) =
           IF m.operation = "add" /\ Contains(d.items, m.value)
             THEN d ELSE ServerApply(d, m)
  <1>1. CASE m.operation = "increment"
    BY <1>1 DEF ServerApply, ApplyFieldOperation
  <1>2. CASE m.operation = "decrement"
    BY <1>2 DEF ServerApply, ApplyFieldOperation
  <1>3. CASE m.operation = "add" /\ Contains(d.items, m.value)
    <2>1. ApplyFieldOperation(d, m) = [d EXCEPT !.items = d.items]
      BY <1>3 DEF ApplyFieldOperation
    <2>2. [d EXCEPT !.items = d.items] = d
      BY DEF IsData
    <2> QED BY <1>3, <2>1, <2>2
  <1>4. CASE m.operation = "add" /\ ~Contains(d.items, m.value)
    BY <1>4 DEF ServerApply, ApplyFieldOperation
  <1>5. CASE m.operation = "remove"
    BY <1>5 DEF ServerApply, ApplyFieldOperation
  <1> QED BY <1>1, <1>2, <1>3, <1>4, <1>5 DEF FieldOperation

-----------------------------------------------------------------------------
(* What a strategy says of its resolution is what it did. *)

Faithful(r, k) ==
  r.resolved =>
    /\ IsData(r.data)
    /\ r.outcome = "SERVER_WINS" => r.data = k.server.data
    /\ r.outcome = "MERGED" =>
         /\ k.mutation.operation \in FieldOperation
         /\ r.data = ApplyFieldOperation(k.server.data, k.mutation)

AllFaithful(R, k) == \A r \in R : Faithful(r, k)

IsContext(k) == IsData(k.server.data) /\ IsData(k.local.data)

LEMMA ServerWinsFaithful ==
  ASSUME NEW k, IsContext(k)
  PROVE  AllFaithful(ServerWins(k), k)
  BY DEF AllFaithful, Faithful, ServerWins, Resolution, IsContext

LEMMA ClientWinsFaithful ==
  ASSUME NEW k, IsContext(k)
  PROVE  AllFaithful(ClientWins(k), k)
  <1> DEFINE data ==
        CASE k.mutation.operation = "set"   -> k.local.data
          [] k.mutation.operation = "patch" ->
               MergeDeep(k.server.data, k.mutation.value)
          [] OTHER -> ApplyFieldOperation(k.server.data, k.mutation)
  <1>1. CASE k.mutation.operation = "set"
    BY <1>1 DEF AllFaithful, Faithful, ClientWins, Resolution, IsContext
  <1>2. CASE k.mutation.operation = "patch"
    <2>1. data = MergeDeep(k.server.data, k.mutation.value)
      BY <1>2
    <2>2. IsData(data)
      BY <2>1, DeepMergeIsData
    <2> QED BY <2>2 DEF AllFaithful, Faithful, ClientWins, Resolution
  <1>3. CASE k.mutation.operation \notin {"set", "patch"}
    <2>1. data = ApplyFieldOperation(k.server.data, k.mutation)
      BY <1>3
    <2>2. IsData(data)
      BY <2>1, MergedIsData DEF IsContext
    <2> QED BY <2>2 DEF AllFaithful, Faithful, ClientWins, Resolution
  <1> QED BY <1>1, <1>2, <1>3

LEMMA SimpleFaithful ==
  ASSUME NEW k, IsContext(k), NEW strategy \in SimpleStrategy
  PROVE  AllFaithful(Simple(strategy, k), k)
  <1>1. strategy.kind \in
          {"SERVER_WINS", "CLIENT_WINS", "LAST_WRITE_WINS", "MANUAL"}
    BY DEF SimpleStrategy
  <1>2. CASE strategy.kind = "SERVER_WINS"
    BY <1>2, ServerWinsFaithful DEF Simple
  <1>3. CASE strategy.kind = "CLIENT_WINS"
    BY <1>3, ClientWinsFaithful DEF Simple
  <1>4. CASE strategy.kind = "LAST_WRITE_WINS"
    <2>1. Simple(strategy, k) = ClientWins(k) \cup ServerWins(k)
      BY <1>4 DEF Simple, LastWriteWins
    <2> QED BY <2>1, ServerWinsFaithful, ClientWinsFaithful DEF AllFaithful
  <1>5. CASE strategy.kind = "MANUAL"
    <2>1. Simple(strategy, k) = Unresolved
      BY <1>5 DEF Simple
    <2> QED BY <2>1 DEF Unresolved, AllFaithful, Faithful
  <1> QED BY <1>1, <1>2, <1>3, <1>4, <1>5

LEMMA BasicFaithful ==
  ASSUME NEW k, IsContext(k), NEW strategy \in BasicStrategy
  PROVE  AllFaithful(Basic(strategy, k), k)
  <1>1. CASE strategy.kind = "FIELD_MERGE"
    <2>1. strategy.fallback \in SimpleStrategy
      BY <1>1 DEF BasicStrategy, SimpleStrategy
    <2>2. CASE k.mutation.operation \in FieldOperation
      <3> DEFINE data == ApplyFieldOperation(k.server.data, k.mutation)
      <3>1. Basic(strategy, k) = Resolution("MERGED", data)
        BY <1>1, <2>2 DEF Basic, FieldMerge
      <3>2. IsData(data)
        BY MergedIsData DEF IsContext
      <3> HIDE DEF data
      <3>3. \A r \in Resolution("MERGED", data) :
              r.outcome = "MERGED" /\ r.data = data
        BY DEF Resolution
      <3>4. ASSUME NEW r \in Basic(strategy, k) PROVE Faithful(r, k)
        BY <2>2, <3>1, <3>2, <3>3 DEF Faithful, data
      <3> QED BY <3>4 DEF AllFaithful
    <2>3. CASE k.mutation.operation \notin FieldOperation
      <3>1. Basic(strategy, k) = Simple(strategy.fallback, k)
        BY <1>1, <2>3 DEF Basic, FieldMerge
      <3> QED BY <2>1, <3>1, SimpleFaithful
    <2> QED BY <2>2, <2>3
  <1>2. CASE strategy.kind # "FIELD_MERGE"
    <2>1. strategy \in SimpleStrategy
      BY <1>2 DEF BasicStrategy
    <2>2. Basic(strategy, k) = Simple(strategy, k)
      BY <1>2 DEF Basic
    <2> QED BY <2>1, <2>2, SimpleFaithful
  <1> QED BY <1>1, <1>2

LEMMA StrategyFaithful ==
  ASSUME NEW k, IsContext(k), NEW strategy \in Strategy
  PROVE  AllFaithful(StrategyResolutions(strategy, k), k)
  <1>1. CASE strategy.kind = "OPERATION_AWARE"
    <2>1. /\ strategy.commutative \in BasicStrategy
          /\ strategy.nonCommutative \in BasicStrategy
      BY <1>1 DEF Strategy, BasicStrategy, SimpleStrategy
    <2>2. StrategyResolutions(strategy, k) = OperationAware(strategy, k)
      BY <1>1 DEF StrategyResolutions
    <2>3. \/ OperationAware(strategy, k) = Basic(strategy.commutative, k)
          \/ OperationAware(strategy, k) = Basic(strategy.nonCommutative, k)
      BY DEF OperationAware
    <2> QED BY <2>1, <2>2, <2>3, BasicFaithful
  <1>2. CASE strategy.kind # "OPERATION_AWARE"
    <2>1. strategy \in BasicStrategy
      BY <1>2 DEF Strategy
    <2>2. StrategyResolutions(strategy, k) = Basic(strategy, k)
      BY <1>2 DEF StrategyResolutions
    <2> QED BY <2>1, <2>2, BasicFaithful
  <1> QED BY <1>1, <1>2

LEMMA FirstOf ==
  ASSUME NEW T \in SUBSET Nat, T # {}
  PROVE  \E x \in T : \A y \in T : x <= y
  <1>1. IsWellFoundedOn(OpToRel(<, Nat), Nat)
    BY NatLessThanWellFounded
  <1>2. PICK x \in T : \A y \in T : ~(<<y, x>> \in OpToRel(<, Nat))
    BY <1>1, WFMin
  <1>3. \A y \in T : ~(y < x)
    BY <1>2 DEF OpToRel
  <1> QED
    BY <1>3

\* Which strategy the manager ends at makes no difference.
LEMMA ResolveFaithful ==
  ASSUME manager \in ConflictResolutionManager, NEW k, IsContext(k)
  PROVE  AllFaithful(Resolve(k), k)
  <1> DEFINE first == IF manager.collection = NoStrategy
                        THEN manager.default ELSE manager.collection
             primary == StrategyResolutions(first, k)
             attempts(i) == StrategyResolutions(manager.chain[i], k)
             resolving == {i \in DOMAIN manager.chain : attempts(i) # Unresolved}
             chosen == CHOOSE i \in resolving : \A j \in resolving : i <= j
  <1>1. Resolve(k) = IF primary = Unresolved /\ resolving # {}
                       THEN attempts(chosen) ELSE primary
    BY DEF Resolve
  <1>2. first \in Strategy /\ manager.chain \in Seq(Strategy)
    BY DEF ConflictResolutionManager
  <1>3. AllFaithful(primary, k)
    BY <1>2, StrategyFaithful
  <1>4. CASE resolving # {}
    <2>1. DOMAIN manager.chain \subseteq Nat
      BY <1>2, LenProperties
    <2>2. \E i \in resolving : \A j \in resolving : i <= j
      BY <1>4, <2>1, FirstOf
    <2>3. chosen \in resolving
      BY <2>2
    <2>4. chosen \in 1..Len(manager.chain)
      BY <1>2, <2>3, LenProperties
    <2>5. manager.chain[chosen] \in Strategy
      BY <1>2, <2>4, ElementOfSeq
    <2>6. AllFaithful(attempts(chosen), k)
      BY <2>5, StrategyFaithful
    <2> QED BY <1>1, <1>3, <2>6
  <1>5. CASE resolving = {}
    BY <1>1, <1>3, <1>5
  <1> QED BY <1>4, <1>5

-----------------------------------------------------------------------------
(* The invariant. *)

IsEntity(e) ==
  /\ e \in [data : {e.data}, revision : Int]
  /\ IsData(e.data)

IsMutation(m) ==
  /\ m \in [author : Client, operation : Operation, value : {m.value},
            status : {"PENDING", "ACKNOWLEDGED", "CONFLICT"},
            conflicts : 0..2, outcome : {m.outcome}, edit : {m.edit}]
  /\ m.operation = "set" => IsData(m.value)

IsReply(r) ==
  /\ r \in [mutation : Nat, accepted : BOOLEAN, server : {r.server}]
  /\ IsEntity(r.server)

IsSeq(s) == s \in Seq(Range(s))

EntityTypes ==
  /\ IsEntity(server)
  /\ DOMAIN local = Client /\ \A c \in Client : IsEntity(local[c])
  /\ cursor \in [Client -> Int]

MutationTypes ==
  IsSeq(mutations) /\ \A i \in DOMAIN mutations : IsMutation(mutations[i])

ReplyTypes ==
  DOMAIN reply = Client /\ \A c \in Client : reply[c] # NoReply => IsReply(reply[c])

ManagerTypes == manager \in ConflictResolutionManager

ResolutionTypes == EntityTypes /\ MutationTypes /\ ReplyTypes /\ ManagerTypes

InTurn(c, i) == i \in PendingOf(c) /\ \A j \in PendingOf(c) : i <= j

\* A reply is about the oldest mutation its client has left.
SentInTurn ==
  \A c \in Client : reply[c] # NoReply => InTurn(c, reply[c].mutation)

\* What no conflict has touched is what the application recorded.
UntouchedIsEdit ==
  \A i \in DOMAIN mutations :
    mutations[i].conflicts = 0 =>
      /\ mutations[i].operation = mutations[i].edit.operation
      /\ mutations[i].value = mutations[i].edit.value

\* The entity of a reply is the server's as long as the revisions agree.
ReplyIsServer ==
  \A c \in Client : reply[c] # NoReply =>
    /\ reply[c].server.revision <= server.revision
    /\ reply[c].server.revision = server.revision => reply[c].server = server

\* A retry does to the server's entity what its outcome says.
Told(i) ==
  /\ mutations[i].outcome = "SERVER_WINS" => mutations[i].value = server.data
  /\ mutations[i].outcome = "MERGED" => mutations[i].value = Reapplied(mutations[i])

\* So does a retry that waits, until the server has a newer revision than the
\* one its author has stored.
RetryStands ==
  \A c \in Client : \A i \in PendingOf(c) :
    mutations[i].conflicts = 1 =>
      /\ InTurn(c, i)
      /\ mutations[i].operation = "set"
      /\ local[c].revision <= server.revision
      /\ local[c].revision = server.revision => Told(i)

MergeInv ==
  ResolutionTypes /\ SentInTurn /\ UntouchedIsEdit /\ ReplyIsServer /\ RetryStands

LEMMA GrownSeq ==
  ASSUME NEW s, IsSeq(s), NEW e
  PROVE  /\ IsSeq(Append(s, e))
         /\ DOMAIN s = 1..Len(s) /\ Len(s) \in Nat
         /\ DOMAIN Append(s, e) = 1..(Len(s) + 1)
         /\ \A i \in 1..Len(s) : Append(s, e)[i] = s[i]
         /\ Append(s, e)[Len(s) + 1] = e
  <1> DEFINE S == Range(s) \cup {e}
             t == Append(s, e)
  <1>1. s \in Seq(S)
    BY SeqMonotonic DEF IsSeq
  <1>2. Len(s) \in Nat /\ DOMAIN s = 1..Len(s)
    BY <1>1, LenProperties
  <1>3. /\ t \in Seq(S)
        /\ Len(t) = Len(s) + 1
        /\ \A i \in 1..Len(s) : t[i] = s[i]
        /\ t[Len(s) + 1] = e
    BY <1>1, AppendProperties
  <1>4. DOMAIN t = 1..(Len(s) + 1) /\ t \in [1..Len(t) -> S]
    BY <1>3, LenProperties
  <1> HIDE DEF t
  <1>5. t \in [1..Len(t) -> Range(t)]
    BY <1>3, <1>4 DEF Range
  <1>6. IsSeq(t)
    BY <1>2, <1>3, <1>5 DEF IsSeq, Seq
  <1> QED BY <1>2, <1>3, <1>4, <1>6 DEF t

LEMMA ChangedSeq ==
  ASSUME NEW s, IsSeq(s), NEW j \in DOMAIN s, NEW e
  PROVE  /\ IsSeq([s EXCEPT ![j] = e])
         /\ DOMAIN [s EXCEPT ![j] = e] = DOMAIN s
         /\ [s EXCEPT ![j] = e][j] = e
         /\ \A i \in DOMAIN s : i # j => [s EXCEPT ![j] = e][i] = s[i]
  <1> DEFINE S == Range(s) \cup {e}
             t == [s EXCEPT ![j] = e]
  <1>1. s \in Seq(S) /\ s \in Seq(Range(s))
    BY SeqMonotonic DEF IsSeq
  <1>2. Len(s) \in Nat /\ DOMAIN s = 1..Len(s)
    BY <1>1, LenProperties
  <1>3. DOMAIN t = DOMAIN s
    OBVIOUS
  <1>4. \A i \in DOMAIN s : t[i] = IF i = j THEN e ELSE s[i]
    OBVIOUS
  <1>5. t \in Seq(S) /\ Len(t) = Len(s)
    BY <1>1, <1>2, ExceptSeq
  <1>6. t \in [1..Len(t) -> S]
    BY <1>5, LenProperties
  <1> HIDE DEF t
  <1>7. t \in [1..Len(t) -> Range(t)]
    BY <1>6 DEF Range
  <1>8. IsSeq(t)
    BY <1>2, <1>5, <1>7 DEF IsSeq, Seq
  <1> QED BY <1>3, <1>4, <1>8 DEF t

-----------------------------------------------------------------------------
(* The end of an exchange, however it ends: the mutation becomes e, the     *)
(* stored entity l.                                                         *)

Ends(c, e, l) ==
  /\ reply[c] # NoReply
  /\ mutations' = [mutations EXCEPT ![reply[c].mutation] = e]
  /\ local' = [local EXCEPT ![c] = l]
  /\ EndExchange(c)

\* What may become of it.
MayEnd(j, e, l) ==
  /\ IsMutation(e) /\ IsEntity(l)
  /\ e.author = mutations[j].author
  /\ e.conflicts = 0 => e.operation = e.edit.operation /\ e.value = e.edit.value
  /\ (e.status = "PENDING" /\ e.conflicts = 1) =>
       /\ e.operation = "set"
       /\ l.revision <= server.revision
       /\ l.revision = server.revision =>
            /\ e.outcome = "SERVER_WINS" => e.value = server.data
            /\ e.outcome = "MERGED" => e.value = Reapplied(e)

LEMMA EndedShape ==
  ASSUME MergeInv, NEW c \in Client, NEW e, NEW l, Ends(c, e, l)
  PROVE  /\ reply[c].mutation \in DOMAIN mutations
         /\ IsSeq(mutations')
         /\ DOMAIN mutations' = DOMAIN mutations
         /\ mutations'[reply[c].mutation] = e
         /\ \A i \in DOMAIN mutations :
              i # reply[c].mutation => mutations'[i] = mutations[i]
         /\ DOMAIN local' = Client
         /\ local'[c] = l
         /\ \A d \in Client : d # c => local'[d] = local[d]
         /\ DOMAIN reply' = Client
         /\ reply'[c] = NoReply
         /\ \A d \in Client : d # c => reply'[d] = reply[d]
         /\ server' = server
  <1>1. reply[c].mutation \in DOMAIN mutations
    BY DEF MergeInv, SentInTurn, InTurn, PendingOf, Ends
  <1>2. IsSeq(mutations)
    BY DEF MergeInv, ResolutionTypes, MutationTypes
  <1>3. mutations' = [mutations EXCEPT ![reply[c].mutation] = e]
    BY DEF Ends
  <1>4. /\ IsSeq(mutations')
        /\ DOMAIN mutations' = DOMAIN mutations
        /\ mutations'[reply[c].mutation] = e
        /\ \A i \in DOMAIN mutations :
             i # reply[c].mutation => mutations'[i] = mutations[i]
    BY <1>1, <1>2, <1>3, ChangedSeq
  <1>5. /\ DOMAIN local' = Client
        /\ local'[c] = l
        /\ \A d \in Client : d # c => local'[d] = local[d]
    BY DEF MergeInv, ResolutionTypes, EntityTypes, Ends
  <1>6. /\ DOMAIN reply' = Client
        /\ reply'[c] = NoReply
        /\ \A d \in Client : d # c => reply'[d] = reply[d]
        /\ server' = server
    BY DEF MergeInv, ResolutionTypes, ReplyTypes, Ends, EndExchange
  <1> QED BY <1>1, <1>4, <1>5, <1>6

LEMMA EndedTypes ==
  ASSUME MergeInv, NEW c \in Client, NEW e, NEW l, Ends(c, e, l),
         IsMutation(e), IsEntity(l)
  PROVE  ResolutionTypes'
  <1>1. EntityTypes'
    <2>1. IsEntity(server)'
      BY EndedShape DEF MergeInv, ResolutionTypes, EntityTypes, IsEntity
    <2>2. ASSUME NEW d \in Client PROVE IsEntity(local[d])'
      <3>1. IsEntity(local[d])
        BY DEF MergeInv, ResolutionTypes, EntityTypes
      <3>2. local'[d] = l \/ local'[d] = local[d]
        BY EndedShape
      <3> QED BY <3>1, <3>2 DEF IsEntity
    <2>3. cursor' \in [Client -> Int]
      <3>1. cursor' = [cursor EXCEPT ![c] = reply[c].server.revision]
        BY DEF Ends, EndExchange
      <3>2. reply[c].server.revision \in Int
        BY DEF MergeInv, ResolutionTypes, ReplyTypes, IsReply, IsEntity, Ends
      <3> QED BY <3>1, <3>2 DEF MergeInv, ResolutionTypes, EntityTypes
    <2> QED BY <2>1, <2>2, <2>3, EndedShape DEF EntityTypes
  <1>2. MutationTypes'
    <2>1. ASSUME NEW i \in DOMAIN mutations PROVE IsMutation(mutations[i])'
      <3>1. IsMutation(mutations[i])
        BY DEF MergeInv, ResolutionTypes, MutationTypes
      <3>2. mutations'[i] = e \/ mutations'[i] = mutations[i]
        BY EndedShape
      <3> QED BY <3>1, <3>2 DEF IsMutation
    <2>2. IsSeq(mutations)' /\ DOMAIN mutations' = DOMAIN mutations
      BY EndedShape DEF IsSeq
    <2> QED BY <2>1, <2>2 DEF MutationTypes
  <1>3. ReplyTypes'
    <2>1. ASSUME NEW d \in Client, reply'[d] # NoReply PROVE IsReply(reply[d])'
      <3>1. d # c /\ reply'[d] = reply[d]
        BY <2>1, EndedShape
      <3>2. IsReply(reply[d])
        BY <2>1, <3>1 DEF MergeInv, ResolutionTypes, ReplyTypes
      <3> QED BY <3>1, <3>2 DEF IsReply, IsEntity
    <2> QED BY <2>1, EndedShape DEF ReplyTypes
  <1>4. ManagerTypes'
    BY DEF MergeInv, ResolutionTypes, ManagerTypes, Ends, EndExchange
  <1> QED BY <1>1, <1>2, <1>3, <1>4 DEF ResolutionTypes

LEMMA EndedKeeps ==
  ASSUME MergeInv, NEW c \in Client, NEW e, NEW l, Ends(c, e, l),
         MayEnd(reply[c].mutation, e, l)
  PROVE  MergeInv'
  <1> DEFINE j == reply[c].mutation
  <1>1. ResolutionTypes'
    BY EndedTypes DEF MayEnd
  <1>2. PICK k \in DOMAIN mutations : k = j
    BY EndedShape
  <1> HIDE DEF j
  <1>3. /\ DOMAIN mutations' = DOMAIN mutations /\ mutations'[k] = e
        /\ \A i \in DOMAIN mutations : i # k => mutations'[i] = mutations[i]
        /\ local'[c] = l
        /\ \A d \in Client : d # c => local'[d] = local[d]
        /\ reply'[c] = NoReply
        /\ \A d \in Client : d # c => reply'[d] = reply[d]
        /\ server' = server
    BY <1>2, EndedShape DEF j
  <1>4. InTurn(c, k)
    BY <1>2 DEF MergeInv, SentInTurn, Ends, j
  <1>5. mutations[k].author = c /\ e.author = c
    BY <1>2, <1>4 DEF InTurn, PendingOf, MayEnd, j
  <1>6. \A d \in Client : PendingOf(d)' \subseteq PendingOf(d)
    BY <1>3, <1>4, <1>5 DEF PendingOf, InTurn
  <1>7. \A d \in Client : d # c => PendingOf(d)' = PendingOf(d)
    BY <1>3, <1>5 DEF PendingOf
  <1>8. SentInTurn'
    <2>1. ASSUME NEW d \in Client, reply'[d] # NoReply
          PROVE  InTurn(d, reply[d].mutation)'
      <3>1. d # c /\ reply'[d] = reply[d]
        BY <1>3, <2>1
      <3>2. InTurn(d, reply[d].mutation)
        BY <2>1, <3>1 DEF MergeInv, SentInTurn
      <3> QED BY <1>7, <3>1, <3>2 DEF InTurn
    <2> QED BY <2>1 DEF SentInTurn
  <1>9. UntouchedIsEdit'
    <2>1. ASSUME NEW i \in DOMAIN mutations, mutations'[i].conflicts = 0
          PROVE  /\ mutations'[i].operation = mutations'[i].edit.operation
                 /\ mutations'[i].value = mutations'[i].edit.value
      <3>1. CASE i = k
        BY <1>3, <2>1, <3>1 DEF MayEnd
      <3>2. CASE i # k
        BY <1>3, <2>1, <3>2 DEF MergeInv, UntouchedIsEdit
      <3> QED BY <3>1, <3>2
    <2> QED BY <1>3, <2>1 DEF UntouchedIsEdit
  <1>10. ReplyIsServer'
    BY <1>3 DEF MergeInv, ReplyIsServer
  <1>11. RetryStands'
    <2>1. ASSUME NEW d \in Client, NEW i \in PendingOf(d)',
                 mutations'[i].conflicts = 1
          PROVE  /\ InTurn(d, i)'
                 /\ mutations'[i].operation = "set"
                 /\ local'[d].revision <= server'.revision
                 /\ local'[d].revision = server'.revision => Told(i)'
      <3>1. i \in PendingOf(d) /\ i \in DOMAIN mutations
        BY <1>6, <2>1 DEF PendingOf
      <3>2. CASE d # c
        <4>1. i # k
          BY <1>5, <3>1, <3>2 DEF PendingOf
        <4>2. mutations'[i] = mutations[i] /\ local'[d] = local[d]
          BY <1>3, <3>1, <3>2, <4>1
        <4>3. /\ InTurn(d, i)
              /\ mutations[i].operation = "set"
              /\ local[d].revision <= server.revision
              /\ local[d].revision = server.revision => Told(i)
          BY <2>1, <3>1, <4>2 DEF MergeInv, RetryStands
        <4>4. InTurn(d, i)'
          BY <1>7, <3>2, <4>3 DEF InTurn
        <4>5. Told(i) => Told(i)'
          BY <1>3, <4>2 DEF Told, Reapplied
        <4> QED BY <1>3, <4>2, <4>3, <4>4, <4>5
      <3>3. CASE d = c
        <4>1. i = k
          <5>1. CASE i # k
            <6>1. mutations'[i] = mutations[i]
              BY <1>3, <3>1, <5>1
            <6>2. InTurn(c, i)
              BY <2>1, <3>1, <3>3, <6>1 DEF MergeInv, RetryStands
            <6>3. i <= k /\ k <= i /\ i \in Nat /\ k \in Nat
              <7>1. IsSeq(mutations)
                BY DEF MergeInv, ResolutionTypes, MutationTypes
              <7>2. DOMAIN mutations \subseteq Nat
                BY <7>1, LenProperties DEF IsSeq
              <7> QED BY <1>4, <3>1, <6>2, <7>2 DEF InTurn
            <6> QED BY <6>3
          <5> QED BY <5>1
        <4>2. e.status = "PENDING" /\ e.conflicts = 1
          BY <1>3, <2>1, <4>1 DEF PendingOf
        <4>3. /\ e.operation = "set"
              /\ l.revision <= server.revision
              /\ l.revision = server.revision =>
                   /\ e.outcome = "SERVER_WINS" => e.value = server.data
                   /\ e.outcome = "MERGED" => e.value = Reapplied(e)
          BY <4>2 DEF MayEnd
        <4>4. InTurn(c, k)'
          BY <1>4, <1>6, <2>1, <3>3, <4>1 DEF InTurn
        <4>5. l.revision = server.revision => Told(k)'
          BY <1>3, <4>3 DEF Told, Reapplied
        <4> QED BY <1>3, <3>3, <4>1, <4>3, <4>4, <4>5
      <3> QED BY <3>2, <3>3
    <2> QED BY <2>1 DEF RetryStands
  <1> QED BY <1>1, <1>8, <1>9, <1>10, <1>11 DEF MergeInv

-----------------------------------------------------------------------------
(* The actions. *)

\* What a client holds while a reply is under way.
LEMMA Holds ==
  ASSUME MergeInv, NEW c \in Client, reply[c] # NoReply,
         NEW j, j = reply[c].mutation
  PROVE  /\ IsEntity(server)
         /\ IsEntity(reply[c].server)
         /\ IsEntity(Received(c))
         /\ j \in DOMAIN mutations
         /\ IsMutation(mutations[j])
         /\ mutations[j].conflicts = 0 =>
              /\ mutations[j].operation = mutations[j].edit.operation
              /\ mutations[j].value = mutations[j].edit.value
         /\ reply[c].server.revision <= server.revision
         /\ reply[c].server.revision = server.revision => reply[c].server = server
  <1>1. IsEntity(server) /\ IsEntity(local[c])
    BY DEF MergeInv, ResolutionTypes, EntityTypes
  <1>2. IsEntity(reply[c].server)
    BY DEF MergeInv, ResolutionTypes, ReplyTypes, IsReply
  <1>3. IsEntity(Received(c))
    BY <1>1, <1>2 DEF Received
  <1>4. j \in DOMAIN mutations
    BY DEF MergeInv, SentInTurn, InTurn, PendingOf
  <1>5. IsMutation(mutations[j])
    BY <1>4 DEF MergeInv, ResolutionTypes, MutationTypes
  <1>6. mutations[j].conflicts = 0 =>
          /\ mutations[j].operation = mutations[j].edit.operation
          /\ mutations[j].value = mutations[j].edit.value
    BY <1>4 DEF MergeInv, UntouchedIsEdit
  <1> QED BY <1>1, <1>2, <1>3, <1>4, <1>5, <1>6 DEF MergeInv, ReplyIsServer

LEMMA AcknowledgeKeeps ==
  ASSUME MergeInv, NEW c \in Client, Acknowledge(c)
  PROVE  MergeInv'
  <1>1. PICK j, m, e, l :
          /\ j = reply[c].mutation
          /\ m = mutations[j]
          /\ e = [m EXCEPT !.status = "ACKNOWLEDGED"]
          /\ l = Received(c)
    OBVIOUS
  <1>2. reply[c] # NoReply
    BY DEF Acknowledge
  <1>3. Ends(c, e, l)
    BY <1>1 DEF Acknowledge, Ends
  <1>4. /\ IsMutation(m) /\ IsEntity(l)
        /\ m.conflicts = 0 => m.operation = m.edit.operation /\ m.value = m.edit.value
    BY <1>1, <1>2, Holds
  <1>5. IsMutation(e)
    BY <1>1, <1>4 DEF IsMutation
  <1>6. /\ e.status = "ACKNOWLEDGED" /\ e.author = m.author
        /\ e.conflicts = m.conflicts /\ e.operation = m.operation
        /\ e.value = m.value /\ e.edit = m.edit
    BY <1>1, <1>4 DEF IsMutation
  <1>7. MayEnd(j, e, l)
    BY <1>1, <1>4, <1>5, <1>6 DEF MayEnd
  <1> QED BY <1>1, <1>3, <1>7, EndedKeeps

LEMMA LeaveKeeps ==
  ASSUME MergeInv, NEW c \in Client, LeaveToApplication(c)
  PROVE  MergeInv'
  <1>1. PICK j, m, e, l :
          /\ j = reply[c].mutation
          /\ m = mutations[j]
          /\ e = MarkedConflict(m)
          /\ l = Received(c)
    OBVIOUS
  <1>2. reply[c] # NoReply
    BY DEF LeaveToApplication
  <1>3. j \in DOMAIN mutations /\ IsMutation(m) /\ IsEntity(l)
    BY <1>1, <1>2, Holds
  <1>4. mutations' = [mutations EXCEPT ![j] = e]
    BY <1>1 DEF LeaveToApplication
  <1>5. Ends(c, e, l)
    BY <1>1, <1>4 DEF LeaveToApplication, Ends
  <1>6. OneMore(m.conflicts) \in 1..2
    BY <1>3 DEF IsMutation, OneMore
  <1>7. e = [author |-> m.author, operation |-> m.operation, value |-> m.value,
             status |-> "CONFLICT", conflicts |-> OneMore(m.conflicts),
             outcome |-> m.outcome, edit |-> m.edit]
    BY <1>1, <1>3 DEF IsMutation, MarkedConflict
  <1>8. /\ IsMutation(e)
        /\ e.status = "CONFLICT" /\ e.author = m.author /\ e.conflicts # 0
    BY <1>3, <1>6, <1>7 DEF IsMutation
  <1>9. MayEnd(j, e, l)
    BY <1>1, <1>3, <1>8 DEF MayEnd
  <1> QED BY <1>1, <1>5, <1>9, EndedKeeps

\* Resolved for the first time, the mutation is still what was recorded, and
\* the resolution was made of the server's entity.
LEMMA AutoResolveKeeps ==
  ASSUME MergeInv, NEW c \in Client, AutoResolve(c)
  PROVE  MergeInv'
  <1>1. PICK r \in Resolve(ConflictContext(c)) :
          /\ r.resolved
          /\ local' = [local EXCEPT ![c] =
               [data |-> r.data, revision |-> reply[c].server.revision]]
          /\ mutations' = [mutations EXCEPT ![reply[c].mutation] =
                             Retried(mutations[reply[c].mutation], r)]
    BY DEF AutoResolve
  <1>2. PICK j, m, k, e, l :
          /\ j = reply[c].mutation
          /\ m = mutations[j]
          /\ k = ConflictContext(c)
          /\ e = Retried(m, r)
          /\ l = [data |-> r.data, revision |-> reply[c].server.revision]
    OBVIOUS
  <1>3. reply[c] # NoReply
    BY DEF AutoResolve
  <1>4. /\ IsEntity(server) /\ IsEntity(reply[c].server) /\ IsEntity(Received(c))
        /\ IsMutation(m)
        /\ m.conflicts = 0 => m.operation = m.edit.operation /\ m.value = m.edit.value
        /\ reply[c].server.revision <= server.revision
        /\ reply[c].server.revision = server.revision => reply[c].server = server
    BY <1>2, <1>3, Holds
  <1>5. k.mutation = m /\ k.server = reply[c].server /\ k.local = Received(c)
    BY <1>2 DEF ConflictContext
  <1>6. Faithful(r, k)
    <2>1. IsContext(k)
      BY <1>4, <1>5 DEF IsContext, IsEntity
    <2>2. manager \in ConflictResolutionManager
      BY DEF MergeInv, ResolutionTypes, ManagerTypes
    <2> QED BY <1>1, <1>2, <2>1, <2>2, ResolveFaithful DEF AllFaithful
  <1>7. Ends(c, e, l)
    BY <1>1, <1>2, <1>3 DEF AutoResolve, Ends
  <1>8. IsEntity(l)
    BY <1>1, <1>2, <1>4, <1>6 DEF IsEntity, Faithful
  <1>9. OneMore(m.conflicts) \in 1..2 /\ (OneMore(m.conflicts) = 1 => m.conflicts = 0)
    BY <1>4 DEF IsMutation, OneMore
  <1>10. /\ e.author = m.author /\ e.operation = "set" /\ e.value = r.data
         /\ e.status = m.status /\ e.conflicts = OneMore(m.conflicts)
         /\ e.outcome = r.outcome /\ e.edit = m.edit
    BY <1>2, <1>4 DEF IsMutation, Retried
  <1>11. IsMutation(e)
    <2>1. e = [author |-> m.author, operation |-> "set", value |-> r.data,
               status |-> m.status, conflicts |-> OneMore(m.conflicts),
               outcome |-> r.outcome, edit |-> m.edit]
      BY <1>2, <1>4 DEF IsMutation, Retried
    <2>2. IsData(e.value)
      BY <1>1, <1>6, <1>10 DEF Faithful
    <2> QED BY <1>4, <1>9, <2>1, <2>2 DEF IsMutation, Operation
  <1>12. ASSUME e.conflicts = 1, l.revision = server.revision
         PROVE  /\ e.outcome = "SERVER_WINS" => e.value = server.data
                /\ e.outcome = "MERGED" => e.value = Reapplied(e)
    <2>1. reply[c].server = server
      BY <1>2, <1>4, <1>12
    <2>2. m.operation = m.edit.operation /\ m.value = m.edit.value
      BY <1>4, <1>9, <1>10, <1>12
    <2>3. ASSUME e.outcome = "MERGED" PROVE e.value = Reapplied(e)
      <3>1. /\ m.operation \in FieldOperation
            /\ e.value = ApplyFieldOperation(server.data, m)
        BY <1>1, <1>5, <1>6, <1>10, <2>1, <2>3 DEF Faithful
      <3>2. IsData(server.data)
        BY <1>4 DEF IsEntity
      <3>3. e.value = IF m.operation = "add" /\ Contains(server.data.items, m.value)
                        THEN server.data ELSE ServerApply(server.data, m)
        BY <3>1, <3>2, MergeIsReapplied
      <3>4. ServerApply(server.data, m) = ServerApply(server.data, e.edit)
        BY <1>10, <2>2 DEF ServerApply
      <3> QED BY <1>10, <2>2, <3>3, <3>4 DEF Reapplied
    <2> QED BY <1>1, <1>5, <1>6, <1>10, <2>1, <2>3 DEF Faithful
  <1>13. MayEnd(j, e, l)
    BY <1>2, <1>4, <1>8, <1>9, <1>10, <1>11, <1>12 DEF MayEnd
  <1> QED BY <1>2, <1>7, <1>13, EndedKeeps

LEMMA ExchangeTypes ==
  ASSUME MergeInv, NEW c \in Client, Exchange(c)
  PROVE  ResolutionTypes'
  <1>1. PICK i \in PendingOf(c) :
          /\ server' = IF local[c].revision = server.revision
                         THEN [data |-> ServerApply(server.data, mutations[i]),
                               revision |-> server.revision + 1]
                         ELSE server
          /\ reply' = [reply EXCEPT ![c] =
               [mutation |-> i, accepted |-> local[c].revision = server.revision,
                server |-> server']]
    BY DEF Exchange
  <1>2. UNCHANGED <<local, cursor, mutations, manager>>
    BY DEF Exchange
  <1>3. i \in DOMAIN mutations /\ i \in Nat
    <2>1. IsSeq(mutations)
      BY DEF MergeInv, ResolutionTypes, MutationTypes
    <2>2. DOMAIN mutations \subseteq Nat
      BY <2>1, LenProperties DEF IsSeq
    <2> QED BY <2>2 DEF PendingOf
  <1>4. IsEntity(server)'
    <2>1. IsEntity(server)
      BY DEF MergeInv, ResolutionTypes, EntityTypes
    <2>2. IsMutation(mutations[i])
      BY <1>3 DEF MergeInv, ResolutionTypes, MutationTypes
    <2>3. IsData(ServerApply(server.data, mutations[i]))
      BY <2>1, <2>2, AppliedIsData DEF IsEntity, IsMutation
    <2> QED BY <1>1, <2>1, <2>3 DEF IsEntity
  <1>5. EntityTypes'
    <2>1. ASSUME NEW d \in Client PROVE IsEntity(local[d])'
      BY <1>2 DEF MergeInv, ResolutionTypes, EntityTypes, IsEntity
    <2> QED
      BY <1>2, <1>4, <2>1 DEF MergeInv, ResolutionTypes, EntityTypes
  <1>6. MutationTypes'
    BY <1>2 DEF MergeInv, ResolutionTypes, MutationTypes, IsMutation, IsSeq
  <1>7. ReplyTypes'
    <2>1. PICK r :
            r = [mutation |-> i, accepted |-> local[c].revision = server.revision,
                 server |-> server']
      OBVIOUS
    <2>2. r.server = server' /\ IsEntity(r.server)
      BY <1>4, <2>1 DEF IsEntity
    <2>3. IsReply(r)
      BY <1>3, <2>1, <2>2 DEF IsReply
    <2>4. /\ DOMAIN reply' = Client
          /\ \A d \in Client : reply'[d] = r \/ reply'[d] = reply[d]
      BY <1>1, <2>1 DEF MergeInv, ResolutionTypes, ReplyTypes
    <2>5. ASSUME NEW d \in Client, reply'[d] # NoReply PROVE IsReply(reply[d])'
      <3>1. reply'[d] = r \/ (reply'[d] = reply[d] /\ IsReply(reply[d]))
        BY <2>4, <2>5 DEF MergeInv, ResolutionTypes, ReplyTypes
      <3> QED BY <2>3, <3>1 DEF IsReply, IsEntity
    <2> QED BY <2>4, <2>5 DEF ReplyTypes
  <1>8. ManagerTypes'
    BY <1>2 DEF MergeInv, ResolutionTypes, ManagerTypes
  <1> QED BY <1>5, <1>6, <1>7, <1>8 DEF ResolutionTypes

\* The server stays as it is or reaches a revision nobody has.
LEMMA ExchangeKeeps ==
  ASSUME MergeInv, NEW c \in Client, Exchange(c)
  PROVE  MergeInv'
  <1>0. PICK i \in PendingOf(c) :
          /\ \A j \in PendingOf(c) : i <= j
          /\ reply' = [reply EXCEPT ![c] =
               [mutation |-> i, accepted |-> local[c].revision = server.revision,
                server |-> server']]
    BY DEF Exchange
  <1>1. PICK r :
          r = [mutation |-> i, accepted |-> local[c].revision = server.revision,
               server |-> server']
    OBVIOUS
  <1>2. UNCHANGED <<local, cursor, mutations, manager>>
    BY DEF Exchange
  <1>3. server' = server \/ server'.revision = server.revision + 1
    BY DEF Exchange
  <1>4. /\ reply'[c] = r
        /\ \A d \in Client : d # c => reply'[d] = reply[d]
    BY <1>0, <1>1 DEF MergeInv, ResolutionTypes, ReplyTypes
  <1>5. ResolutionTypes'
    BY ExchangeTypes
  <1>6. server.revision \in Int
    BY DEF MergeInv, ResolutionTypes, EntityTypes, IsEntity
  <1>7. \A d \in Client : PendingOf(d)' = PendingOf(d)
    BY <1>2 DEF PendingOf
  <1>8. SentInTurn'
    <2>1. ASSUME NEW d \in Client, reply'[d] # NoReply
          PROVE  InTurn(d, reply[d].mutation)'
      <3>1. CASE d = c
        BY <1>0, <1>1, <1>4, <1>7, <3>1 DEF InTurn
      <3>2. CASE d # c
        BY <1>4, <1>7, <2>1, <3>2 DEF MergeInv, SentInTurn, InTurn
      <3> QED BY <3>1, <3>2
    <2> QED BY <2>1 DEF SentInTurn
  <1>9. UntouchedIsEdit'
    BY <1>2 DEF MergeInv, UntouchedIsEdit
  <1>10. ReplyIsServer'
    <2>1. ASSUME NEW d \in Client, reply'[d] # NoReply
          PROVE  /\ reply'[d].server.revision <= server'.revision
                 /\ reply'[d].server.revision = server'.revision =>
                      reply'[d].server = server'
      <3>1. CASE d = c
        BY <1>1, <1>3, <1>4, <1>6, <3>1
      <3>2. CASE d # c
        <4>1. /\ reply'[d] = reply[d]
              /\ reply[d].server.revision <= server.revision
              /\ reply[d].server.revision = server.revision =>
                   reply[d].server = server
          BY <1>4, <2>1, <3>2 DEF MergeInv, ReplyIsServer
        <4>2. reply[d].server.revision \in Int
          BY <2>1, <4>1
             DEF MergeInv, ResolutionTypes, ReplyTypes, IsReply, IsEntity
        <4> QED BY <1>3, <1>6, <4>1, <4>2
      <3> QED BY <3>1, <3>2
    <2> QED BY <2>1 DEF ReplyIsServer
  <1>11. RetryStands'
    <2>1. ASSUME NEW d \in Client, NEW h \in PendingOf(d)',
                 mutations'[h].conflicts = 1
          PROVE  /\ InTurn(d, h)'
                 /\ mutations'[h].operation = "set"
                 /\ local'[d].revision <= server'.revision
                 /\ local'[d].revision = server'.revision => Told(h)'
      <3>1. /\ InTurn(d, h)
            /\ mutations[h].operation = "set"
            /\ local[d].revision <= server.revision
            /\ local[d].revision = server.revision => Told(h)
        BY <1>2, <1>7, <2>1 DEF MergeInv, RetryStands
      <3>2. InTurn(d, h)'
        BY <1>7, <3>1 DEF InTurn
      <3>3. local[d].revision \in Int
        BY DEF MergeInv, ResolutionTypes, EntityTypes, IsEntity
      <3>4. server' = server => (Told(h) => Told(h)')
        BY <1>2 DEF Told, Reapplied
      <3> QED BY <1>2, <1>3, <1>6, <3>1, <3>2, <3>3, <3>4
    <2> QED BY <2>1 DEF RetryStands
  <1> QED BY <1>5, <1>8, <1>9, <1>10, <1>11 DEF MergeInv

\* A client with a retry has something to send, and fetches nothing.
LEMMA FetchKeeps ==
  ASSUME MergeInv, NEW c \in Client, Fetch(c)
  PROVE  MergeInv'
  <1>1. /\ PendingOf(c) = {}
        /\ local' = [local EXCEPT ![c] = server]
        /\ cursor' = [cursor EXCEPT ![c] = server.revision]
        /\ UNCHANGED <<server, mutations, reply, manager>>
    BY DEF Fetch
  <1>2. IsEntity(server)
    BY DEF MergeInv, ResolutionTypes, EntityTypes
  <1>3. /\ DOMAIN local' = Client
        /\ \A d \in Client : local'[d] = server \/ local'[d] = local[d]
        /\ \A d \in Client : d # c => local'[d] = local[d]
    BY <1>1 DEF MergeInv, ResolutionTypes, EntityTypes
  <1>4. EntityTypes'
    <2>1. IsEntity(server)'
      BY <1>1, <1>2 DEF IsEntity
    <2>2. ASSUME NEW d \in Client PROVE IsEntity(local[d])'
      BY <1>2, <1>3 DEF MergeInv, ResolutionTypes, EntityTypes, IsEntity
    <2>3. cursor' \in [Client -> Int]
      BY <1>1, <1>2 DEF MergeInv, ResolutionTypes, EntityTypes, IsEntity
    <2> QED BY <1>3, <2>1, <2>2, <2>3 DEF EntityTypes
  <1>5. ResolutionTypes'
    BY <1>1, <1>4 DEF MergeInv, ResolutionTypes, MutationTypes, ReplyTypes,
                      ManagerTypes, IsMutation, IsReply, IsEntity, IsSeq
  <1>6. \A d \in Client : PendingOf(d)' = PendingOf(d)
    BY <1>1 DEF PendingOf
  <1>7. SentInTurn'
    BY <1>1, <1>6 DEF MergeInv, SentInTurn, InTurn
  <1>8. UntouchedIsEdit' /\ ReplyIsServer'
    BY <1>1 DEF MergeInv, UntouchedIsEdit, ReplyIsServer
  <1>9. RetryStands'
    <2>1. ASSUME NEW d \in Client, NEW h \in PendingOf(d)',
                 mutations'[h].conflicts = 1
          PROVE  /\ InTurn(d, h)'
                 /\ mutations'[h].operation = "set"
                 /\ local'[d].revision <= server'.revision
                 /\ local'[d].revision = server'.revision => Told(h)'
      <3>1. d # c
        BY <1>1, <1>6, <2>1
      <3>2. /\ InTurn(d, h)
            /\ mutations[h].operation = "set"
            /\ local[d].revision <= server.revision
            /\ local[d].revision = server.revision => Told(h)
        BY <1>1, <1>6, <2>1 DEF MergeInv, RetryStands
      <3>3. InTurn(d, h)' /\ (Told(h) => Told(h)')
        BY <1>1, <1>6, <3>2 DEF InTurn, Told, Reapplied
      <3> QED BY <1>1, <1>3, <3>1, <3>2, <3>3
    <2> QED BY <2>1 DEF RetryStands
  <1> QED BY <1>5, <1>7, <1>8, <1>9 DEF MergeInv

LEMMA StrategyKeeps ==
  ASSUME MergeInv, NEW strategy \in Overrides, SetCollectionStrategy(strategy)
  PROVE  MergeInv'
  <1>1. /\ manager' = [manager EXCEPT !.collection = strategy]
        /\ UNCHANGED <<server, local, cursor, mutations, reply>>
    BY DEF SetCollectionStrategy
  <1>2. ManagerTypes'
    <2>1. strategy \in Strategy
      BY ManagersAssumption
    <2> QED
      BY <1>1, <2>1
         DEF MergeInv, ResolutionTypes, ManagerTypes, ConflictResolutionManager
  <1>3. ResolutionTypes'
    BY <1>1, <1>2 DEF MergeInv, ResolutionTypes, EntityTypes, MutationTypes,
                      ReplyTypes, IsMutation, IsReply, IsEntity, IsSeq
  <1>4. SentInTurn' /\ UntouchedIsEdit' /\ ReplyIsServer' /\ RetryStands'
    BY <1>1 DEF MergeInv, SentInTurn, UntouchedIsEdit, ReplyIsServer,
                RetryStands, InTurn, PendingOf, Told, Reapplied
  <1> QED BY <1>3, <1>4 DEF MergeInv

\* Edits leave the stored revision alone, which the server alone sets.
EditsKeepRevision == Bumps = {0}

LEMMA RecordShape ==
  ASSUME MergeInv, EditsKeepRevision,
         NEW c \in Client, NEW edit \in Edits, RecordEdit(c, edit)
  PROVE  \E m : \E l : \E n \in Nat :
           /\ IsMutation(m) /\ IsEntity(l)
           /\ m.conflicts = 0 /\ m.operation = m.edit.operation
           /\ m.value = m.edit.value /\ m.author = c
           /\ l.revision = local[c].revision
           /\ DOMAIN mutations = 1..n /\ DOMAIN mutations' = 1..(n + 1)
           /\ IsSeq(mutations')
           /\ mutations'[n + 1] = m
           /\ \A i \in 1..n : mutations'[i] = mutations[i]
           /\ local' = [local EXCEPT ![c] = l]
           /\ UNCHANGED <<server, cursor, reply, manager>>
  <1> DEFINE n == Len(mutations)
  <1>1. PICK m, l :
          /\ m = NewMutation(c, edit)
          /\ l = [data |-> ServerApply(local[c].data, edit),
                  revision |-> local[c].revision + 0]
    OBVIOUS
  <1>2. /\ mutations' = Append(mutations, m)
        /\ local' = [local EXCEPT ![c] = l]
        /\ UNCHANGED <<server, cursor, reply, manager>>
    BY <1>1 DEF RecordEdit, EditsKeepRevision
  <1>3. /\ edit.operation \in Operation
        /\ edit.operation = "set" => IsData(edit.value)
    BY EditsAssumption
  <1>4. /\ m.conflicts = 0 /\ m.operation = m.edit.operation
        /\ m.value = m.edit.value /\ m.author = c
    BY <1>1 DEF NewMutation
  <1>5. IsMutation(m)
    BY <1>1, <1>3 DEF NewMutation, IsMutation
  <1>6. IsEntity(local[c])
    BY DEF MergeInv, ResolutionTypes, EntityTypes
  <1>7. IsData(ServerApply(local[c].data, edit))
    BY <1>3, <1>6, AppliedIsData DEF IsEntity
  <1>8. IsEntity(l) /\ l.revision = local[c].revision
    BY <1>1, <1>6, <1>7 DEF IsEntity
  <1>9. /\ n \in Nat /\ DOMAIN mutations = 1..n
        /\ DOMAIN mutations' = 1..(n + 1)
        /\ IsSeq(mutations')
        /\ mutations'[n + 1] = m
        /\ \A i \in 1..n : mutations'[i] = mutations[i]
    BY <1>2, GrownSeq DEF MergeInv, ResolutionTypes, MutationTypes
  <1> HIDE DEF n
  <1> QED BY <1>2, <1>4, <1>5, <1>8, <1>9

\* The new mutation waits behind the others.
LEMMA RecordKeeps ==
  ASSUME MergeInv, EditsKeepRevision,
         NEW c \in Client, NEW edit \in Edits, RecordEdit(c, edit)
  PROVE  MergeInv'
  <1>1. PICK m : \E l : \E n \in Nat :
          /\ IsMutation(m) /\ IsEntity(l)
          /\ m.conflicts = 0 /\ m.operation = m.edit.operation
          /\ m.value = m.edit.value /\ m.author = c
          /\ l.revision = local[c].revision
          /\ DOMAIN mutations = 1..n /\ DOMAIN mutations' = 1..(n + 1)
          /\ IsSeq(mutations')
          /\ mutations'[n + 1] = m
          /\ \A i \in 1..n : mutations'[i] = mutations[i]
          /\ local' = [local EXCEPT ![c] = l]
          /\ UNCHANGED <<server, cursor, reply, manager>>
    BY RecordShape
  <1>2. PICK l, n :
          /\ n \in Nat
          /\ IsMutation(m) /\ IsEntity(l)
          /\ m.conflicts = 0 /\ m.operation = m.edit.operation
          /\ m.value = m.edit.value /\ m.author = c
          /\ l.revision = local[c].revision
          /\ DOMAIN mutations = 1..n /\ DOMAIN mutations' = 1..(n + 1)
          /\ IsSeq(mutations')
          /\ mutations'[n + 1] = m
          /\ \A i \in 1..n : mutations'[i] = mutations[i]
          /\ local' = [local EXCEPT ![c] = l]
          /\ UNCHANGED <<server, cursor, reply, manager>>
    BY <1>1
  <1>3. /\ DOMAIN local' = Client
        /\ \A d \in Client : local'[d] = l \/ local'[d] = local[d]
        /\ \A d \in Client : local'[d].revision = local[d].revision
    BY <1>2 DEF MergeInv, ResolutionTypes, EntityTypes
  <1>4. EntityTypes'
    <2>1. ASSUME NEW d \in Client PROVE IsEntity(local[d])'
      BY <1>2, <1>3 DEF MergeInv, ResolutionTypes, EntityTypes, IsEntity
    <2>2. IsEntity(server)' /\ cursor' \in [Client -> Int]
      BY <1>2 DEF MergeInv, ResolutionTypes, EntityTypes, IsEntity
    <2> QED BY <1>3, <2>1, <2>2 DEF EntityTypes
  <1>5. MutationTypes'
    <2>1. ASSUME NEW i \in 1..(n + 1) PROVE IsMutation(mutations[i])'
      <3>1. CASE i = n + 1
        BY <1>2, <3>1 DEF IsMutation
      <3>2. CASE i # n + 1
        <4>1. i \in 1..n
          BY <1>2, <2>1, <3>2
        <4>2. mutations'[i] = mutations[i] /\ IsMutation(mutations[i])
          BY <1>2, <4>1 DEF MergeInv, ResolutionTypes, MutationTypes
        <4> QED BY <4>2 DEF IsMutation
      <3> QED BY <3>1, <3>2
    <2>2. IsSeq(mutations)'
      BY <1>2 DEF IsSeq
    <2> QED BY <1>2, <2>1, <2>2 DEF MutationTypes
  <1>6. ResolutionTypes'
    BY <1>2, <1>4, <1>5
       DEF MergeInv, ResolutionTypes, ReplyTypes, ManagerTypes, IsReply, IsEntity
  <1>7. \A d \in Client : \A i \in PendingOf(d)' :
          i = n + 1 \/ (i \in 1..n /\ i \in PendingOf(d))
    BY <1>2 DEF PendingOf
  <1>8. \A d \in Client : \A i \in PendingOf(d) :
          i \in 1..n /\ i \in PendingOf(d)'
    BY <1>2 DEF PendingOf
  <1>9. ASSUME NEW d \in Client, NEW i, InTurn(d, i) PROVE InTurn(d, i)'
    BY <1>2, <1>7, <1>8, <1>9 DEF InTurn
  <1>10. SentInTurn'
    <2>1. ASSUME NEW d \in Client, reply'[d] # NoReply
          PROVE  InTurn(d, reply[d].mutation)'
      <3>1. PICK i : i = reply[d].mutation
        OBVIOUS
      <3>2. InTurn(d, i)'
        BY <1>2, <1>9, <2>1, <3>1 DEF MergeInv, SentInTurn
      <3> QED BY <1>2, <3>1, <3>2 DEF InTurn
    <2> QED BY <2>1 DEF SentInTurn
  <1>11. UntouchedIsEdit'
    <2>1. ASSUME NEW i \in 1..(n + 1), mutations'[i].conflicts = 0
          PROVE  /\ mutations'[i].operation = mutations'[i].edit.operation
                 /\ mutations'[i].value = mutations'[i].edit.value
      <3>1. CASE i = n + 1
        BY <1>2, <3>1
      <3>2. CASE i # n + 1
        BY <1>2, <2>1, <3>2 DEF MergeInv, UntouchedIsEdit
      <3> QED BY <3>1, <3>2
    <2> QED BY <1>2, <2>1 DEF UntouchedIsEdit
  <1>12. ReplyIsServer'
    BY <1>2 DEF MergeInv, ReplyIsServer
  <1>13. RetryStands'
    <2>1. ASSUME NEW d \in Client, NEW h \in PendingOf(d)',
                 mutations'[h].conflicts = 1
          PROVE  /\ InTurn(d, h)'
                 /\ mutations'[h].operation = "set"
                 /\ local'[d].revision <= server'.revision
                 /\ local'[d].revision = server'.revision => Told(h)'
      <3>1. h \in 1..n /\ h \in PendingOf(d)
        BY <1>2, <1>7, <2>1
      <3>2. mutations'[h] = mutations[h]
        BY <1>2, <3>1
      <3>3. /\ InTurn(d, h)
            /\ mutations[h].operation = "set"
            /\ local[d].revision <= server.revision
            /\ local[d].revision = server.revision => Told(h)
        BY <2>1, <3>1, <3>2 DEF MergeInv, RetryStands
      <3>4. InTurn(d, h)'
        BY <1>9, <3>3
      <3>5. Told(h) => Told(h)'
        BY <1>2, <3>2 DEF Told, Reapplied
      <3> QED BY <1>2, <1>3, <3>2, <3>3, <3>4, <3>5
    <2> QED BY <2>1 DEF RetryStands
  <1> QED BY <1>6, <1>10, <1>11, <1>12, <1>13 DEF MergeInv

LEMMA MergeInit ==
  ASSUME ResolutionInit PROVE MergeInv
  <1>1. IsData(FirstData)
    BY DEF IsData, FirstData
  <1>2. server = [data |-> FirstData, revision |-> 1]
    BY DEF ResolutionInit
  <1>3. IsEntity(server)
    BY <1>1, <1>2 DEF IsEntity
  <1>4. EntityTypes
    BY <1>3 DEF ResolutionInit, EntityTypes
  <1>5. mutations = <<>> /\ IsSeq(mutations) /\ DOMAIN mutations = {}
    <2>1. mutations = <<>>
      BY DEF ResolutionInit
    <2>2. mutations \in Seq(Range(mutations)) /\ Len(mutations) = 0
      BY <2>1, EmptySeq
    <2>3. DOMAIN mutations = 1..Len(mutations)
      BY <2>2, LenProperties
    <2> QED BY <2>1, <2>2, <2>3 DEF IsSeq
  <1>6. MutationTypes
    BY <1>5 DEF MutationTypes
  <1>7. DOMAIN reply = Client /\ \A c \in Client : reply[c] = NoReply
    BY DEF ResolutionInit
  <1>8. ReplyTypes
    BY <1>7 DEF ReplyTypes
  <1>9. ManagerTypes
    BY ManagersAssumption DEF ResolutionInit, ManagerTypes
  <1>10. SentInTurn /\ ReplyIsServer
    BY <1>7 DEF SentInTurn, ReplyIsServer
  <1>11. UntouchedIsEdit /\ RetryStands
    BY <1>5 DEF UntouchedIsEdit, RetryStands, PendingOf
  <1> QED
    BY <1>4, <1>6, <1>8, <1>9, <1>10, <1>11 DEF MergeInv, ResolutionTypes

LEMMA MergeStep ==
  ASSUME MergeInv, EditsKeepRevision, [ResolutionNext]_resolutionVars
  PROVE  MergeInv'
  <1>1. ASSUME NEW c \in Client, Cycle(c) PROVE MergeInv'
    BY <1>1, ExchangeKeeps, AcknowledgeKeeps, AutoResolveKeeps, LeaveKeeps DEF Cycle
  <1>2. ASSUME NEW c \in Client, Fetch(c) PROVE MergeInv'
    BY <1>2, FetchKeeps
  <1>3. ASSUME NEW c \in Client, NEW edit \in Edits, RecordEdit(c, edit)
        PROVE  MergeInv'
    BY <1>3, RecordKeeps
  <1>4. ASSUME NEW strategy \in Overrides, SetCollectionStrategy(strategy)
        PROVE  MergeInv'
    BY <1>4, StrategyKeeps
  <1>5. CASE UNCHANGED resolutionVars
    BY <1>5 DEF resolutionVars, MergeInv, ResolutionTypes, EntityTypes,
                MutationTypes, ReplyTypes, ManagerTypes, IsMutation, IsReply,
                IsEntity, IsSeq, SentInTurn, UntouchedIsEdit, ReplyIsServer,
                RetryStands, InTurn, PendingOf, Told, Reapplied
  <1> QED BY <1>1, <1>2, <1>3, <1>4, <1>5 DEF ResolutionNext

\* A reply that accepts something new is the server's answer of this step.
MergesOnce ==
  \A c \in Client :
    (reply'[c] # reply[c] /\ reply'[c] # NoReply /\ reply'[c].accepted) =>
      LET m == mutations[reply'[c].mutation]
      IN m.conflicts = 1 =>
           /\ m.outcome = "SERVER_WINS" => server'.data = server.data
           /\ m.outcome = "MERGED" => server'.data = Reapplied(m)

LEMMA ExchangeMerges ==
  ASSUME MergeInv, NEW c \in Client, Exchange(c)
  PROVE  MergesOnce
  <1>1. PICK i \in PendingOf(c) :
          /\ server' = IF local[c].revision = server.revision
                         THEN [data |-> ServerApply(server.data, mutations[i]),
                               revision |-> server.revision + 1]
                         ELSE server
          /\ reply' = [reply EXCEPT ![c] =
               [mutation |-> i, accepted |-> local[c].revision = server.revision,
                server |-> server']]
    BY DEF Exchange
  <1>2. \A d \in Client : d # c => reply'[d] = reply[d]
    BY <1>1
  <1>3. reply'[c].mutation = i
        /\ reply'[c].accepted = (local[c].revision = server.revision)
    BY <1>1 DEF MergeInv, ResolutionTypes, ReplyTypes
  <1>4. ASSUME local[c].revision = server.revision, mutations[i].conflicts = 1
        PROVE  /\ mutations[i].outcome = "SERVER_WINS" => server'.data = server.data
               /\ mutations[i].outcome = "MERGED" =>
                    server'.data = Reapplied(mutations[i])
    <2>1. mutations[i].operation = "set" /\ Told(i)
      BY <1>4 DEF MergeInv, RetryStands
    <2>2. ServerApply(server.data, mutations[i]) = mutations[i].value
      BY <2>1 DEF ServerApply
    <2>3. server'.data = mutations[i].value
      BY <1>1, <1>4, <2>2
    <2> QED BY <2>1, <2>3 DEF Told
  <1> QED BY <1>2, <1>3, <1>4 DEF MergesOnce

LEMMA StepMerges ==
  ASSUME MergeInv, [ResolutionNext]_resolutionVars
  PROVE  MergesOnce
  <1>1. ASSUME NEW c \in Client, Exchange(c) PROVE MergesOnce
    BY <1>1, ExchangeMerges
  <1>2. ASSUME NEW c \in Client, EndExchange(c) PROVE MergesOnce
    <2>1. \A d \in Client : reply'[d] = reply[d] \/ reply'[d] = NoReply
      BY <1>2 DEF EndExchange, MergeInv, ResolutionTypes, ReplyTypes
    <2> QED BY <2>1 DEF MergesOnce
  <1>3. ASSUME UNCHANGED reply PROVE MergesOnce
    BY <1>3 DEF MergesOnce
  <1>4. ASSUME NEW c \in Client, Cycle(c) PROVE MergesOnce
    BY <1>1, <1>2, <1>4 DEF Cycle, Acknowledge, AutoResolve, LeaveToApplication
  <1> QED
    BY <1>3, <1>4 DEF ResolutionNext, Fetch, RecordEdit, SetCollectionStrategy,
                      resolutionVars

\* OneConflictIsMerged: whatever strategies are configured and changed while
\* requests are under way, a mutation that met one conflict does to the server
\* just what the resolver decided, once the server takes it, as long as edits
\* leave the stored revision alone (FieldMergeStrategy, resolveConflict).
THEOREM OneConflictMerges ==
  EditsKeepRevision => (ResolutionSpec => OneConflictIsMerged)
  <1> SUFFICES ASSUME EditsKeepRevision
               PROVE  ResolutionSpec => OneConflictIsMerged
    OBVIOUS
  <1>1. ResolutionInit => MergeInv
    BY MergeInit
  <1>2. MergeInv /\ [ResolutionNext]_resolutionVars => MergeInv'
    BY MergeStep
  <1>3. MergeInv /\ [ResolutionNext]_resolutionVars => [MergesOnce]_resolutionVars
    BY StepMerges
  <1>4. OneConflictIsMerged <=> [][MergesOnce]_resolutionVars
    BY PTL DEF OneConflictIsMerged, MergesOnce
  <1> QED
    BY <1>1, <1>2, <1>3, <1>4, PTL DEF ResolutionSpec
=============================================================================
