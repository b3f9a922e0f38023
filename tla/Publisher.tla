------------------------------ MODULE Publisher ------------------------------
(***************************************************************************)
(* KafkaPredictionPublisher (src/src/tripml/publication.py) with the part  *)
(* of the /v1/eta endpoint that turns its outcome into an HTTP answer      *)
(* (src/src/tripml/serving.py).                                            *)
(*                                                                         *)
(* The threads are the request threads that call publish, the daemon       *)
(* thread that polls delivery callbacks, and the callers of close.  They   *)
(* share the admission lock, three flags and, per request, the completion  *)
(* event and delivery_error of its `delivered` closure.  The Kafka client  *)
(* and the broker are external: they are modelled from how the class uses  *)
(* them and from the producer settings it passes.  One lifetime of one     *)
(* publisher is modelled; each member of Requests calls publish at most    *)
(* once, which names the bound on the number of calls.                     *)
(***************************************************************************)
EXTENDS Naturals, FiniteSets

CONSTANTS Requests,    \* calls of publish, each with its own prediction
          Closers,     \* calls of close
          Poller,      \* the daemon thread
          NoOne,       \* nobody: a free lock, a thread outside any callback
          QueueMax     \* queue.buffering.max.messages

ASSUME PublisherAssumption ==
  /\ Requests \cap Closers = {}
  /\ Poller \notin Requests \cup Closers
  /\ NoOne \notin Requests \cup Closers \cup {Poller}
  /\ QueueMax \in Nat \ {0}

VARIABLES
  pc,          \* where each request is in publish
  outcome,     \* the PublicationOutcome each request ended with
  lock,        \* the holder of _lock
  closed,      \* _closed
  stop,        \* _stop.is_set()
  pollFailed,  \* _poll_failed.is_set()
  poller,      \* where the daemon thread is in _poll
  closer,      \* where each caller is in close
  completed,   \* completed.is_set() of each request
  failed,      \* delivery_error is not None, of each request
  callback,    \* the request whose callback a dispatching thread is running
  queue,       \* external: accepted by produce and not yet resolved by the client
  wire,        \* external: on its way to the broker, resolved or not
  reports,     \* external: resolved, callback not dispatched: request -> result
  topic        \* external: the predictions the topic holds a record of

requestVars == <<pc, outcome>>
flagVars    == <<closed, stop, pollFailed>>
threadVars  == <<poller, closer>>
reportVars  == <<completed, failed, callback>>
kafkaVars   == <<queue, wire, reports, topic>>
vars == <<requestVars, lock, flagVars, threadVars, reportVars, kafkaVars>>

Dispatchers == Closers \cup {Poller}

Outcomes == {"acknowledged", "queue_full", "failed", "timeout", "closed"}
RequestStates == {"idle", "locking", "admitting", "producing", "waiting", "answered"}
PollerStates == {"checking", "polling", "ended"}
CloserStates == {"idle", "locking", "closing", "stopping", "joining", "flushing",
                 "drained", "abandoned", "returned"}
Results == {"none", "delivered", "error"}

(***************************************************************************)
(* What the client still counts against its queue limit and flush waits    *)
(* for: a message leaves when its callback has returned.                   *)
(***************************************************************************)
Reported == {r \in Requests : reports[r] # "none"}
InCallback == {r \in Requests : \E d \in Dispatchers : callback[d] = r}
Outstanding == queue \cup Reported \cup InCallback

Init ==
  /\ pc = [r \in Requests |-> "idle"]
  /\ outcome = [r \in Requests |-> "none"]
  /\ lock = NoOne
  /\ closed = FALSE
  /\ stop = FALSE
  /\ pollFailed = FALSE
  /\ poller = "checking"
  /\ closer = [c \in Closers |-> "idle"]
  /\ completed = [r \in Requests |-> FALSE]
  /\ failed = [r \in Requests |-> FALSE]
  /\ callback = [d \in Dispatchers |-> NoOne]
  /\ queue = {}
  /\ wire = {}
  /\ reports = [r \in Requests |-> "none"]
  /\ topic = {}

------------------------------------------------------------------------------
(* Request threads: publish.                                               *)

Call(r) == /\ pc[r] = "idle"
           /\ pc' = [pc EXCEPT ![r] = "locking"]
           /\ UNCHANGED <<outcome, lock, flagVars, threadVars, reportVars, kafkaVars>>

TakeLock(r) == /\ pc[r] = "locking"
               /\ lock = NoOne
               /\ lock' = r
               /\ pc' = [pc EXCEPT ![r] = "admitting"]
               /\ UNCHANGED <<outcome, flagVars, threadVars, reportVars, kafkaVars>>

(* publish ends with o: a return, or a PublicationError that carries o. *)
Answer(r, o) == /\ outcome' = [outcome EXCEPT ![r] = o]
                /\ pc' = [pc EXCEPT ![r] = "answered"]

(* Leaving `with self._lock` with a PublicationError. *)
Refuse(r, o) == /\ lock' = NoOne
                /\ Answer(r, o)
                /\ UNCHANGED <<flagVars, threadVars, reportVars, kafkaVars>>

RefuseClosed(r) == /\ pc[r] = "admitting"
                   /\ closed
                   /\ Refuse(r, "closed")

RefusePollFailed(r) == /\ pc[r] = "admitting"
                       /\ ~closed
                       /\ pollFailed
                       /\ Refuse(r, "failed")

(* A mutant: the lock covers the checks only. *)
PassAdmissionUnlocked(r) ==
  /\ pc[r] = "admitting"
  /\ ~closed
  /\ ~pollFailed
  /\ lock' = NoOne
  /\ pc' = [pc EXCEPT ![r] = "producing"]
  /\ UNCHANGED <<outcome, flagVars, threadVars, reportVars, kafkaVars>>

(* The lock is kept from the two checks to produce. *)
PassAdmission(r) ==
  /\ pc[r] = "admitting"
  /\ ~closed
  /\ ~pollFailed
  /\ pc' = [pc EXCEPT ![r] = "producing"]
  /\ UNCHANGED <<outcome, lock, flagVars, threadVars, reportVars, kafkaVars>>

(* produce raises BufferError. *)
RefuseQueueFull(r) == /\ pc[r] = "producing"
                      /\ Cardinality(Outstanding) >= QueueMax
                      /\ Refuse(r, "queue_full")

(* produce raises KafkaException: the client refuses the message. *)
RefuseProduce(r) == /\ pc[r] = "producing"
                    /\ Refuse(r, "failed")

Enqueue(r) == /\ pc[r] = "producing"
              /\ Cardinality(Outstanding) < QueueMax
              /\ queue' = queue \cup {r}
              /\ lock' = NoOne
              /\ pc' = [pc EXCEPT ![r] = "waiting"]
              /\ UNCHANGED <<outcome, flagVars, threadVars, reportVars,
                             wire, reports, topic>>

(* completed.wait returned true: the closure's delivery_error decides. *)
FinishWait(r) ==
  /\ pc[r] = "waiting"
  /\ completed[r]
  /\ Answer(r, IF failed[r] THEN "failed" ELSE "acknowledged")
  /\ UNCHANGED <<lock, flagVars, threadVars, reportVars, kafkaVars>>

(* A mutant: a wait without a timeout. *)
TimeOutNever(r) == FALSE /\ UNCHANGED vars

(* completed.wait expired.  Its callback may still run later. *)
TimeOut(r) ==
  /\ pc[r] = "waiting"
  /\ ~completed[r]
  /\ Answer(r, "timeout")
  /\ UNCHANGED <<lock, flagVars, threadVars, reportVars, kafkaVars>>

------------------------------------------------------------------------------
(* Delivery callbacks, run by a thread inside poll or flush.               *)

(* A dispatching thread is inside poll or inside flush. *)
Dispatching(d) == IF d = Poller THEN poller = "polling" ELSE closer[d] = "flushing"

(* A mutant: completed.set() before the assignment of delivery_error. *)
EnterCallbackSwapped(d, r) ==
  /\ Dispatching(d)
  /\ callback[d] = NoOne
  /\ reports[r] # "none"
  /\ reports' = [reports EXCEPT ![r] = "none"]
  /\ callback' = [callback EXCEPT ![d] = r]
  /\ completed' = [completed EXCEPT ![r] = TRUE]
  /\ UNCHANGED <<requestVars, lock, flagVars, threadVars, failed, queue, wire, topic>>

(* `delivered` of r starts on thread d: delivery_error = error. *)
EnterCallback(d, r) ==
  /\ Dispatching(d)
  /\ callback[d] = NoOne
  /\ reports[r] # "none"
  /\ failed' = [failed EXCEPT ![r] = (reports[r] = "error")]
  /\ reports' = [reports EXCEPT ![r] = "none"]
  /\ callback' = [callback EXCEPT ![d] = r]
  /\ UNCHANGED <<requestVars, lock, flagVars, threadVars, completed,
                 queue, wire, topic>>

(* `delivered` ends: completed.set(). *)
LeaveCallback(d) ==
  /\ callback[d] # NoOne
  /\ completed' = [completed EXCEPT ![callback[d]] = TRUE]
  /\ callback' = [callback EXCEPT ![d] = NoOne]
  /\ UNCHANGED <<requestVars, lock, flagVars, threadVars, failed, kafkaVars>>

------------------------------------------------------------------------------
(* The daemon thread: _poll.                                               *)

PollerStep(from, to) == /\ poller = from
                        /\ poller' = to
                        /\ UNCHANGED <<requestVars, lock, closed, stop, closer,
                                       reportVars, kafkaVars>>

(* The loop condition, and the call of poll. *)
PollerChecks == /\ PollerStep("checking", IF stop THEN "ended" ELSE "polling")
                /\ UNCHANGED pollFailed

PollReturns == /\ callback[Poller] = NoOne
               /\ PollerStep("polling", "checking")
               /\ UNCHANGED pollFailed

(* poll raises: the thread records it and ends, for good. *)
PollRaises == /\ callback[Poller] = NoOne
              /\ PollerStep("polling", "ended")
              /\ pollFailed' = TRUE

------------------------------------------------------------------------------
(* Callers of close: the application's shutdown, or any other owner.       *)

CloserStep(c, from, to) == /\ closer[c] = from
                           /\ closer' = [closer EXCEPT ![c] = to]
                           /\ UNCHANGED <<requestVars, pollFailed, poller,
                                          reportVars, kafkaVars>>

CallClose(c) == CloserStep(c, "idle", "locking") /\ UNCHANGED <<lock, closed, stop>>

CloserTakesLock(c) == /\ lock = NoOne
                      /\ lock' = c
                      /\ CloserStep(c, "locking", "closing")
                      /\ UNCHANGED <<closed, stop>>

(* A second close returns at once, while the first may still be flushing. *)
AlreadyClosed(c) == /\ closed
                    /\ lock' = NoOne
                    /\ CloserStep(c, "closing", "returned")
                    /\ UNCHANGED <<closed, stop>>

(* A mutant: _closed is never set. *)
MarkClosedForgotten(c) == /\ ~closed
                          /\ lock' = NoOne
                          /\ CloserStep(c, "closing", "stopping")
                          /\ UNCHANGED <<closed, stop>>

MarkClosed(c) == /\ ~closed
                 /\ closed' = TRUE
                 /\ lock' = NoOne
                 /\ CloserStep(c, "closing", "stopping")
                 /\ UNCHANGED stop

SetStop(c) == /\ CloserStep(c, "stopping", "joining")
              /\ stop' = TRUE
              /\ UNCHANGED <<lock, closed>>

(* join(timeout=0.1) returns whether or not the daemon thread has ended. *)
JoinPoller(c) == CloserStep(c, "joining", "flushing") /\ UNCHANGED <<lock, closed, stop>>

(* flush returns 0: nothing is outstanding. *)
FlushDrains(c) == /\ Outstanding = {}
                  /\ CloserStep(c, "flushing", "drained")
                  /\ UNCHANGED <<lock, closed, stop>>

(* A mutant: a flush without a timeout. *)
FlushExpiresNever(c) == FALSE /\ UNCHANGED vars

(* flush returns after shutdown_timeout_seconds with messages remaining. *)
FlushExpires(c) == /\ Outstanding # {}
                   /\ callback[c] = NoOne
                   /\ CloserStep(c, "flushing", "abandoned")
                   /\ UNCHANGED <<lock, closed, stop>>

------------------------------------------------------------------------------
(* External: the Kafka client and the broker.                              *)

KafkaUnchanged == UNCHANGED <<requestVars, lock, flagVars, threadVars, reportVars>>

(* A send or a resend of a message the client still holds. *)
Transmit(r) == /\ r \in queue
               /\ wire' = wire \cup {r}
               /\ UNCHANGED <<queue, reports, topic>>
               /\ KafkaUnchanged

(* The broker receives a send, however late.  That a resend leaves no      *)
(* second record is the promise of enable.idempotence, and not modelled.   *)
Append(r) == /\ r \in wire
             /\ wire' = wire \ {r}
             /\ topic' = topic \cup {r}
             /\ UNCHANGED <<queue, reports>>
             /\ KafkaUnchanged

Lose(r) == /\ r \in wire
           /\ wire' = wire \ {r}
           /\ UNCHANGED <<queue, reports, topic>>
           /\ KafkaUnchanged

(* The client resolves a message: its callback is due. *)
Resolve(r, result) == /\ r \in queue
                      /\ queue' = queue \ {r}
                      /\ reports' = [reports EXCEPT ![r] = result]
                      /\ UNCHANGED <<wire, topic>>
                      /\ KafkaUnchanged

(* acks=all: the acknowledgment of an appended record arrives. *)
Acknowledge(r) == r \in topic /\ Resolve(r, "delivered")

(* delivery.timeout.ms or a broker error; the record may exist all the same. *)
GiveUp(r) == Resolve(r, "error")

------------------------------------------------------------------------------
RequestStep(r) ==
  \/ TakeLock(r) \/ RefuseClosed(r) \/ RefusePollFailed(r) \/ PassAdmission(r)
  \/ RefuseQueueFull(r) \/ RefuseProduce(r) \/ Enqueue(r)
  \/ FinishWait(r) \/ TimeOut(r)

DispatchStep(d) == LeaveCallback(d) \/ \E r \in Requests : EnterCallback(d, r)

PollLoop == PollerChecks \/ PollReturns \/ PollRaises

CloserProgress(c) ==
  \/ CloserTakesLock(c) \/ AlreadyClosed(c) \/ MarkClosed(c) \/ SetStop(c)
  \/ JoinPoller(c) \/ FlushDrains(c) \/ FlushExpires(c)

KafkaStep(r) ==
  Transmit(r) \/ Append(r) \/ Lose(r) \/ Acknowledge(r) \/ GiveUp(r)

Next ==
  \/ \E r \in Requests : Call(r) \/ RequestStep(r) \/ KafkaStep(r)
  \/ \E d \in Dispatchers : DispatchStep(d)
  \/ PollLoop
  \/ \E c \in Closers : CallClose(c) \/ CloserProgress(c)

Spec == Init /\ [][Next]_vars

(***************************************************************************)
(* Every thread that can take a step takes one, and every wait has its     *)
(* timer.  Nothing is assumed of the client, the broker, or of who calls.  *)
(***************************************************************************)
Fairness ==
  /\ \A r \in Requests : WF_vars(RequestStep(r))
  /\ \A d \in Dispatchers : WF_vars(DispatchStep(d))
  /\ WF_vars(PollerChecks \/ PollReturns)
  /\ \A c \in Closers : WF_vars(CloserProgress(c))

FairSpec == Spec /\ Fairness

------------------------------------------------------------------------------
(* The endpoint's answer.                                                  *)

(* Mutants: one outcome too many is reported as definite. *)
TimeoutIsDefinite(o) == o \notin {"queue_full", "closed", "timeout"}
FailureIsDefinite(o) == o \notin {"queue_full", "closed", "failed"}

(* "delivery_unknown" of the 503 answer to an outcome. *)
DeliveryUnknown(o) == o \notin {"queue_full", "closed"}

(* The endpoint answers 200 exactly when publish returned. *)
HttpAnswer(r) == IF pc[r] # "answered" THEN "none"
                 ELSE IF outcome[r] = "acknowledged" THEN "published"
                 ELSE IF DeliveryUnknown(outcome[r]) THEN "unknown"
                 ELSE "not_published"

------------------------------------------------------------------------------
(* Properties.                                                             *)

(* The variables have the types the code gives them. *)
TypeOK ==
  /\ pc \in [Requests -> RequestStates]
  /\ outcome \in [Requests -> Outcomes \cup {"none"}]
  /\ lock \in Requests \cup Closers \cup {NoOne}
  /\ closed \in BOOLEAN
  /\ stop \in BOOLEAN
  /\ pollFailed \in BOOLEAN
  /\ poller \in PollerStates
  /\ closer \in [Closers -> CloserStates]
  /\ completed \in [Requests -> BOOLEAN]
  /\ failed \in [Requests -> BOOLEAN]
  /\ callback \in [Dispatchers -> Requests \cup {NoOne}]
  /\ queue \subseteq Requests
  /\ wire \subseteq Requests
  /\ reports \in [Requests -> Results]
  /\ topic \subseteq Requests

(* HTTP 200 is answered only for a prediction the topic holds (ADR-0010:   *)
(* "require its delivery callback to report success before returning HTTP  *)
(* 200"): no other request's callback, no half-run callback and no callback *)
(* of an abandoned message may complete the wait.                          *)
AcknowledgedIsInTopic ==
  \A r \in Requests : HttpAnswer(r) = "published" => r \in topic

(* A 503 with delivery_unknown = false is definite: the prediction is not  *)
(* in the topic, and no copy the client or the network still holds can put *)
(* it there later.                                                         *)
DefiniteRejectionIsFinal ==
  \A r \in Requests :
    HttpAnswer(r) = "not_published" => r \notin topic \cup wire \cup Outstanding

(* Once close has set _closed nothing enters the producer's queue, however *)
(* publish, close and the poller interleave ("Admission takes a short lock *)
(* so shutdown cannot race with enqueueing").                              *)
NoAdmissionAfterClose == [][closed => queue' \subseteq queue]_vars

(* When close's flush reports nothing remaining, no request that was ever  *)
(* admitted still waits for a callback: each has its completion event set  *)
(* and will be answered by its own result, not by its timer.               *)
DrainedCloseLeavesNobodyWaiting ==
  (\E c \in Closers : closer[c] = "drained") =>
    \A r \in Requests : pc[r] \in {"producing", "waiting"} => completed[r]

(* publish and the client implement the contract of PublicationContract:   *)
(* one truthful answer per prediction, and no append after a definite      *)
(* rejection.                                                              *)
Contract == INSTANCE PublicationContract
              WITH Predictions <- Requests,
                   answer <- [r \in Requests |-> HttpAnswer(r)],
                   appended <- topic

ImplementsContract == Contract!Spec

(* Every call of publish is answered, with the broker gone, the poller     *)
(* dead or the publisher closing around it ("in-flight waits remain        *)
(* bounded").                                                              *)
EveryCallIsAnswered ==
  \A r \in Requests : (pc[r] # "idle") ~> (pc[r] = "answered")

(* Every close returns, whatever the broker and the waiting requests do.   *)
EveryCloseReturns ==
  \A c \in Closers :
    (closer[c] # "idle") ~> (closer[c] \in {"drained", "abandoned", "returned"})
==============================================================================
