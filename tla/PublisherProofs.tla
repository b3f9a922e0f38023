--------------------------- MODULE PublisherProofs ---------------------------
(***************************************************************************)
(* Proofs about Publisher, for every set of requests and closers and every *)
(* queue size: the type invariant, the safety invariants the runs check,   *)
(* that each delivery callback runs once, and that Publisher implements    *)
(* PublicationContract.                                                    *)
(***************************************************************************)
EXTENDS Publisher, TLAPS

(* One action of a thread or of the client, named, for the case splits. *)
LEMMA NextCases ==
  ASSUME Next
  PROVE  \/ \E r \in Requests :
              \/ Call(r) \/ TakeLock(r) \/ RefuseClosed(r) \/ RefusePollFailed(r)
              \/ PassAdmission(r) \/ RefuseQueueFull(r) \/ RefuseProduce(r)
              \/ Enqueue(r) \/ FinishWait(r) \/ TimeOut(r)
              \/ Transmit(r) \/ Append(r) \/ Lose(r) \/ Acknowledge(r) \/ GiveUp(r)
         \/ \E d \in Dispatchers :
              LeaveCallback(d) \/ \E r \in Requests : EnterCallback(d, r)
         \/ PollerChecks \/ PollReturns \/ PollRaises
         \/ \E c \in Closers :
              \/ CallClose(c) \/ CloserTakesLock(c) \/ AlreadyClosed(c) \/ MarkClosed(c)
              \/ SetStop(c) \/ JoinPoller(c) \/ FlushDrains(c) \/ FlushExpires(c)
  BY DEF Next, RequestStep, KafkaStep, DispatchStep, PollLoop, CloserProgress

------------------------------------------------------------------------------
(* Type correctness.                                                       *)

LEMMA TypeInit == Init => TypeOK
<1> SUFFICES ASSUME Init
             PROVE  TypeOK
  OBVIOUS
<1>1. /\ pc \in [Requests -> RequestStates]
      /\ outcome \in [Requests -> Outcomes \cup {"none"}]
      /\ lock \in Requests \cup Closers \cup {NoOne}
  BY DEF Init, RequestStates
<1>2. /\ closed \in BOOLEAN /\ stop \in BOOLEAN /\ pollFailed \in BOOLEAN
      /\ poller \in PollerStates
      /\ closer \in [Closers -> CloserStates]
  BY DEF Init, PollerStates, CloserStates
<1>3. /\ completed \in [Requests -> BOOLEAN]
      /\ failed \in [Requests -> BOOLEAN]
      /\ callback \in [Dispatchers -> Requests \cup {NoOne}]
  BY DEF Init
<1>4. /\ queue \subseteq Requests /\ wire \subseteq Requests
      /\ reports \in [Requests -> Results]
      /\ topic \subseteq Requests
  BY DEF Init, Results
<1> QED BY <1>1, <1>2, <1>3, <1>4 DEF TypeOK

LEMMA TypeStep == TypeOK /\ [Next]_vars => TypeOK'
<1> SUFFICES ASSUME TypeOK, [Next]_vars
             PROVE  TypeOK'
  OBVIOUS
<1> USE DEF TypeOK, requestVars, flagVars, threadVars, reportVars, kafkaVars
<1>1. ASSUME NEW r \in Requests,
             \/ Call(r) \/ TakeLock(r) \/ RefuseClosed(r) \/ RefusePollFailed(r)
             \/ PassAdmission(r) \/ RefuseQueueFull(r) \/ RefuseProduce(r)
             \/ Enqueue(r) \/ FinishWait(r) \/ TimeOut(r)
      PROVE  TypeOK'
  <2> USE DEF RequestStates, Outcomes, Answer, Refuse
  <2>1. CASE Call(r)             BY <2>1 DEF Call
  <2>2. CASE TakeLock(r)         BY <2>2 DEF TakeLock
  <2>3. CASE RefuseClosed(r)     BY <2>3 DEF RefuseClosed
  <2>4. CASE RefusePollFailed(r) BY <2>4 DEF RefusePollFailed
  <2>5. CASE PassAdmission(r)    BY <2>5 DEF PassAdmission
  <2>6. CASE RefuseQueueFull(r)  BY <2>6 DEF RefuseQueueFull
  <2>7. CASE RefuseProduce(r)    BY <2>7 DEF RefuseProduce
  <2>8. CASE Enqueue(r)          BY <2>8 DEF Enqueue
  <2>9. CASE FinishWait(r)       BY <2>9 DEF FinishWait
  <2>10. CASE TimeOut(r)         BY <2>10 DEF TimeOut
  <2> QED BY <1>1, <2>1, <2>2, <2>3, <2>4, <2>5, <2>6, <2>7, <2>8, <2>9, <2>10
<1>2. ASSUME NEW r \in Requests,
             Transmit(r) \/ Append(r) \/ Lose(r) \/ Acknowledge(r) \/ GiveUp(r)
      PROVE  TypeOK'
  <2> USE DEF KafkaUnchanged, Results
  <2>1. CASE Transmit(r)    BY <2>1 DEF Transmit
  <2>2. CASE Append(r)      BY <2>2 DEF Append
  <2>3. CASE Lose(r)        BY <2>3 DEF Lose
  <2>4. CASE Acknowledge(r) BY <2>4 DEF Acknowledge, Resolve
  <2>5. CASE GiveUp(r)      BY <2>5 DEF GiveUp, Resolve
  <2> QED BY <1>2, <2>1, <2>2, <2>3, <2>4, <2>5
<1>3. ASSUME NEW d \in Dispatchers, LeaveCallback(d)
      PROVE  TypeOK'
  BY <1>3 DEF LeaveCallback
<1>4. ASSUME NEW d \in Dispatchers, NEW r \in Requests, EnterCallback(d, r)
      PROVE  TypeOK'
  BY <1>4 DEF EnterCallback, Results
<1>5. CASE PollerChecks \/ PollReturns \/ PollRaises
  BY <1>5 DEF PollerChecks, PollReturns, PollRaises, PollerStep, PollerStates
<1>6. ASSUME NEW c \in Closers,
             \/ CallClose(c) \/ CloserTakesLock(c) \/ AlreadyClosed(c) \/ MarkClosed(c)
             \/ SetStop(c) \/ JoinPoller(c) \/ FlushDrains(c) \/ FlushExpires(c)
      PROVE  TypeOK'
  <2> USE DEF CloserStep, CloserStates
  <2>1. CASE CallClose(c)       BY <2>1 DEF CallClose
  <2>2. CASE CloserTakesLock(c) BY <2>2 DEF CloserTakesLock
  <2>3. CASE AlreadyClosed(c)   BY <2>3 DEF AlreadyClosed
  <2>4. CASE MarkClosed(c)      BY <2>4 DEF MarkClosed
  <2>5. CASE SetStop(c)         BY <2>5 DEF SetStop
  <2>6. CASE JoinPoller(c)      BY <2>6 DEF JoinPoller
  <2>7. CASE FlushDrains(c)     BY <2>7 DEF FlushDrains
  <2>8. CASE FlushExpires(c)    BY <2>8 DEF FlushExpires
  <2> QED BY <1>6, <2>1, <2>2, <2>3, <2>4, <2>5, <2>6, <2>7, <2>8
<1>7. CASE UNCHANGED vars
  BY <1>7 DEF vars
<1> QED BY <1>1, <1>2, <1>3, <1>4, <1>5, <1>6, <1>7, NextCases

(* The type invariant of the publisher, its threads and its client. *)
THEOREM TypeCorrect == Spec => []TypeOK
  BY TypeInit, TypeStep, PTL DEF Spec

------------------------------------------------------------------------------
(* The inductive invariant.  The lock and the closed flag keep a request   *)
(* that is past its admission check apart from a closer; a request that    *)
(* never enqueued left no trace in the client or the topic; and whatever   *)
(* could complete a wait without an error stands for a record that exists. *)

LockInv == /\ \A r \in Requests :
                lock = r <=> pc[r] \in {"admitting", "producing"}
           /\ \A c \in Closers : lock = c <=> closer[c] = "closing"

ClosedInv == /\ \A r \in Requests : pc[r] = "producing" => ~closed
             /\ \A c \in Closers :
                  closer[c] \notin {"idle", "locking", "closing"} => closed

NeverEnqueued(r) == \/ pc[r] \in {"idle", "locking", "admitting", "producing"}
                    \/ outcome[r] \in {"queue_full", "closed"}

Untouched(r) == /\ r \notin queue \cup wire
                /\ reports[r] = "none"
                /\ \A d \in Dispatchers : callback[d] # r
                /\ r \notin topic

UntouchedInv == \A r \in Requests : NeverEnqueued(r) => Untouched(r)

OutcomeInv == \A r \in Requests : pc[r] # "answered" => outcome[r] = "none"

ResultInv ==
  \A r \in Requests :
    /\ reports[r] = "delivered" => r \in topic
    /\ ~failed[r] /\ (\E d \in Dispatchers : callback[d] = r) => r \in topic
    /\ ~failed[r] /\ completed[r] => r \in topic
    /\ outcome[r] = "acknowledged" => r \in topic

(* A request that waits without its event set is still with the client.    *)
WaitingInv == \A r \in Requests :
                pc[r] = "waiting" /\ ~completed[r] => r \in Outstanding

DrainedInv == (\E c \in Closers : closer[c] = "drained") => Outstanding = {}

PublisherInv == /\ LockInv
                /\ ClosedInv
                /\ UntouchedInv
                /\ OutcomeInv
                /\ ResultInv
                /\ WaitingInv
                /\ DrainedInv

LEMMA InvInit == Init => PublisherInv
<1> SUFFICES ASSUME Init
             PROVE  PublisherInv
  OBVIOUS
<1>1. LockInv /\ ClosedInv
  BY PublisherAssumption DEF Init, LockInv, ClosedInv
<1>2. UntouchedInv
  BY PublisherAssumption DEF Init, UntouchedInv, Untouched
<1>3. OutcomeInv /\ ResultInv /\ WaitingInv
  BY PublisherAssumption DEF Init, OutcomeInv, ResultInv, WaitingInv
<1>4. DrainedInv
  BY DEF Init, DrainedInv
<1> QED BY <1>1, <1>2, <1>3, <1>4 DEF PublisherInv

LEMMA InvStep == TypeOK /\ PublisherInv /\ [Next]_vars => PublisherInv'
<1> SUFFICES ASSUME TypeOK, PublisherInv, [Next]_vars
             PROVE  PublisherInv'
  OBVIOUS
<1> USE PublisherAssumption
    DEF TypeOK, requestVars, flagVars, threadVars, reportVars, kafkaVars,
        PublisherInv, LockInv, ClosedInv, UntouchedInv, Untouched, NeverEnqueued,
        OutcomeInv, ResultInv, WaitingInv, DrainedInv,
        Outstanding, Reported, InCallback
<1>1. ASSUME NEW r \in Requests,
             \/ Call(r) \/ TakeLock(r) \/ RefuseClosed(r) \/ RefusePollFailed(r)
             \/ PassAdmission(r) \/ RefuseQueueFull(r) \/ RefuseProduce(r)
             \/ Enqueue(r) \/ FinishWait(r) \/ TimeOut(r)
      PROVE  PublisherInv'
  <2> USE DEF RequestStates, Outcomes, Answer, Refuse
  <2>1. CASE Call(r) BY <2>1 DEF Call
  <2>2. CASE TakeLock(r) BY <2>2 DEF TakeLock
  <2>3. CASE RefuseClosed(r) BY <2>3 DEF RefuseClosed
  <2>4. CASE RefusePollFailed(r) BY <2>4 DEF RefusePollFailed
  <2>5. CASE PassAdmission(r) BY <2>5 DEF PassAdmission
  <2>6. CASE RefuseQueueFull(r) BY <2>6 DEF RefuseQueueFull
  <2>7. CASE RefuseProduce(r) BY <2>7 DEF RefuseProduce
  <2>8. CASE Enqueue(r) BY <2>8 DEF Enqueue
  <2>9. CASE FinishWait(r) BY <2>9 DEF FinishWait
  <2>10. CASE TimeOut(r) BY <2>10 DEF TimeOut
  <2> QED BY <1>1, <2>1, <2>2, <2>3, <2>4, <2>5, <2>6, <2>7, <2>8, <2>9, <2>10
<1>2. ASSUME NEW r \in Requests,
             Transmit(r) \/ Append(r) \/ Lose(r) \/ Acknowledge(r) \/ GiveUp(r)
      PROVE  PublisherInv'
  <2> USE DEF KafkaUnchanged, Resolve, Results
  <2>1. CASE Transmit(r) BY <2>1 DEF Transmit
  <2>2. CASE Append(r) BY <2>2 DEF Append
  <2>3. CASE Lose(r) BY <2>3 DEF Lose
  <2>4. CASE Acknowledge(r) BY <2>4 DEF Acknowledge
  <2>5. CASE GiveUp(r) BY <2>5 DEF GiveUp
  <2> QED BY <1>2, <2>1, <2>2, <2>3, <2>4, <2>5
<1>3. ASSUME NEW d \in Dispatchers, LeaveCallback(d)
      PROVE  PublisherInv'
  BY <1>3 DEF LeaveCallback
<1>4. ASSUME NEW d \in Dispatchers, NEW r \in Requests, EnterCallback(d, r)
      PROVE  PublisherInv'
  <2> USE <1>4 DEF EnterCallback, Results
  <2>1. (LockInv /\ ClosedInv /\ OutcomeInv)'
    OBVIOUS
  <2>2. UntouchedInv'
    OBVIOUS
  <2>3. ResultInv'
    <3> SUFFICES ASSUME NEW q \in Requests
                 PROVE  /\ reports'[q] = "delivered" => q \in topic'
                        /\ ~failed'[q] /\ (\E e \in Dispatchers : callback'[e] = q)
                             => q \in topic'
                        /\ ~failed'[q] /\ completed'[q] => q \in topic'
                        /\ outcome'[q] = "acknowledged" => q \in topic'
      OBVIOUS
    <3>1. CASE q = r
      <4>1. reports[r] = "delivered" \/ reports[r] = "error"
        OBVIOUS
      <4>2. failed'[r] = (reports[r] = "error")
        <5>1. failed \in [Requests -> BOOLEAN]
          BY DEF TypeOK
        <5>2. failed' = [failed EXCEPT ![r] = (reports[r] = "error")]
          BY <1>4 DEF EnterCallback
        <5> HIDE <1>4 DEF TypeOK, EnterCallback, PublisherInv
        <5> QED BY <5>1, <5>2, Zenon
      <4>3. topic' = topic /\ outcome'[r] = outcome[r] /\ reports'[r] = "none"
        OBVIOUS
      <4> QED BY <3>1, <4>1, <4>2, <4>3
    <3>2. CASE q # r
      BY <3>2
    <3> QED BY <3>1, <3>2
  <2>4. WaitingInv'
    OBVIOUS
  <2>5. DrainedInv'
    OBVIOUS
  <2> QED BY <2>1, <2>2, <2>3, <2>4, <2>5
<1>5. CASE PollerChecks \/ PollReturns \/ PollRaises
  BY <1>5 DEF PollerChecks, PollReturns, PollRaises, PollerStep
<1>6. ASSUME NEW c \in Closers,
             \/ CallClose(c) \/ CloserTakesLock(c) \/ AlreadyClosed(c) \/ MarkClosed(c)
             \/ SetStop(c) \/ JoinPoller(c) \/ FlushDrains(c) \/ FlushExpires(c)
      PROVE  PublisherInv'
  <2> USE DEF CloserStep, CloserStates
  <2>1. CASE CallClose(c) BY <2>1 DEF CallClose
  <2>2. CASE CloserTakesLock(c) BY <2>2 DEF CloserTakesLock
  <2>3. CASE AlreadyClosed(c) BY <2>3 DEF AlreadyClosed
  <2>4. CASE MarkClosed(c) BY <2>4 DEF MarkClosed
  <2>5. CASE SetStop(c) BY <2>5 DEF SetStop
  <2>6. CASE JoinPoller(c) BY <2>6 DEF JoinPoller
  <2>7. CASE FlushDrains(c) BY <2>7 DEF FlushDrains
  <2>8. CASE FlushExpires(c) BY <2>8 DEF FlushExpires
  <2> QED BY <1>6, <2>1, <2>2, <2>3, <2>4, <2>5, <2>6, <2>7, <2>8
<1>7. CASE UNCHANGED vars
  BY <1>7 DEF vars
<1> QED BY <1>1, <1>2, <1>3, <1>4, <1>5, <1>6, <1>7, NextCases

LEMMA InvCorrect == Spec => [](TypeOK /\ PublisherInv)
<1>1. Init => TypeOK /\ PublisherInv
  BY TypeInit, InvInit
<1>2. TypeOK /\ PublisherInv /\ [Next]_vars => (TypeOK /\ PublisherInv)'
  BY TypeStep, InvStep
<1> QED BY <1>1, <1>2, PTL DEF Spec

------------------------------------------------------------------------------
(* The safety properties.                                                  *)

(* A 200 answer stands for a record in the topic.                          *)
THEOREM AcknowledgedCorrect == Spec => []AcknowledgedIsInTopic
<1>1. TypeOK /\ PublisherInv => AcknowledgedIsInTopic
  BY DEF PublisherInv, ResultInv, AcknowledgedIsInTopic, HttpAnswer
<1> QED BY <1>1, InvCorrect, PTL

(* A definite rejection stays true.                                        *)
THEOREM DefiniteRejectionCorrect == Spec => []DefiniteRejectionIsFinal
<1>1. TypeOK /\ PublisherInv => DefiniteRejectionIsFinal
  <2> SUFFICES ASSUME PublisherInv, NEW r \in Requests,
                      HttpAnswer(r) = "not_published"
               PROVE  r \notin topic \cup wire \cup Outstanding
    BY DEF DefiniteRejectionIsFinal
  <2>1. NeverEnqueued(r)
    BY DEF HttpAnswer, DeliveryUnknown, NeverEnqueued
  <2>2. Untouched(r)
    BY <2>1 DEF PublisherInv, UntouchedInv
  <2> QED BY <2>2 DEF Untouched, Outstanding, Reported, InCallback
<1> QED BY <1>1, InvCorrect, PTL

(* A drained close leaves no request waiting for its timer.                *)
THEOREM DrainedCloseCorrect == Spec => []DrainedCloseLeavesNobodyWaiting
<1>1. TypeOK /\ PublisherInv => DrainedCloseLeavesNobodyWaiting
  BY DEF PublisherInv, ClosedInv, WaitingInv, DrainedInv,
         DrainedCloseLeavesNobodyWaiting
<1> QED BY <1>1, InvCorrect, PTL

(* Only Enqueue adds to the queue, and it holds the lock that MarkClosed   *)
(* needs: after _closed is set, nothing enters.                            *)
THEOREM NoAdmissionCorrect == Spec => NoAdmissionAfterClose
<1>1. TypeOK /\ PublisherInv /\ [Next]_vars => [closed => queue' \subseteq queue]_vars
  <2> SUFFICES ASSUME TypeOK, PublisherInv, Next, closed
               PROVE  queue' \subseteq queue
    OBVIOUS
  <2> USE DEF requestVars, flagVars, threadVars, reportVars, kafkaVars
  <2>1. ASSUME NEW r \in Requests,
               \/ Call(r) \/ TakeLock(r) \/ RefuseClosed(r) \/ RefusePollFailed(r)
               \/ PassAdmission(r) \/ RefuseQueueFull(r) \/ RefuseProduce(r)
               \/ Enqueue(r) \/ FinishWait(r) \/ TimeOut(r)
        PROVE  queue' \subseteq queue
    <3>1. CASE Enqueue(r)
      BY <3>1, closed DEF Enqueue, PublisherInv, ClosedInv
    <3>2. CASE ~Enqueue(r)
      BY <2>1, <3>2 DEF Call, TakeLock, RefuseClosed, RefusePollFailed, PassAdmission,
                        RefuseQueueFull, RefuseProduce, FinishWait, TimeOut, Refuse
    <3> QED BY <3>1, <3>2
  <2>2. ASSUME NEW r \in Requests,
               Transmit(r) \/ Append(r) \/ Lose(r) \/ Acknowledge(r) \/ GiveUp(r)
        PROVE  queue' \subseteq queue
    BY <2>2 DEF Transmit, Append, Lose, Acknowledge, GiveUp, Resolve
  <2>3. ASSUME NEW d \in Dispatchers,
               LeaveCallback(d) \/ \E r \in Requests : EnterCallback(d, r)
        PROVE  queue' \subseteq queue
    BY <2>3 DEF LeaveCallback, EnterCallback
  <2>4. CASE PollerChecks \/ PollReturns \/ PollRaises
    BY <2>4 DEF PollerChecks, PollReturns, PollRaises, PollerStep
  <2>5. ASSUME NEW c \in Closers,
               \/ CallClose(c) \/ CloserTakesLock(c) \/ AlreadyClosed(c)
               \/ MarkClosed(c) \/ SetStop(c) \/ JoinPoller(c)
               \/ FlushDrains(c) \/ FlushExpires(c)
        PROVE  queue' \subseteq queue
    BY <2>5 DEF CallClose, CloserTakesLock, AlreadyClosed, MarkClosed, SetStop,
                JoinPoller, FlushDrains, FlushExpires, CloserStep
  <2> QED BY <2>1, <2>2, <2>3, <2>4, <2>5, NextCases
<1> QED BY <1>1, InvCorrect, PTL DEF Spec, NoAdmissionAfterClose

------------------------------------------------------------------------------
(* Delivery callbacks.  The poller and every flush of a close dispatch     *)
(* them, at the same time; a request reads delivery_error without a lock   *)
(* once its event is set, or leaves before that.                           *)

(* A message is in one place on its way from produce to the return of its  *)
(* callback, and in none after it. *)
ReportInv(r) ==
  /\ r \in queue => reports[r] = "none"
  /\ r \in queue \/ reports[r] # "none" => ~completed[r] /\ \A d \in Dispatchers : callback[d] # r
  /\ \A d, e \in Dispatchers : callback[d] = r /\ callback[e] = r => d = e
  /\ \A d \in Dispatchers : callback[d] = r => ~completed[r]
  /\ pc[r] \in {"idle", "locking", "admitting", "producing"} => ~completed[r]

ReportsInv == \A r \in Requests : ReportInv(r)

(* The event stays set, and what the callback assigned before it stays.    *)
ResultStep ==
  \A r \in Requests : completed[r] => completed'[r] /\ failed'[r] = failed[r]

(* A callback begins on one thread, for a request no thread has begun.     *)
OnceStep ==
  \A r \in Requests, d \in Dispatchers :
    callback[d] # r /\ callback'[d] = r =>
      ~completed[r] /\ \A e \in Dispatchers : callback[e] # r

LEMMA ReportsInit == Init => ReportsInv
  BY PublisherAssumption DEF Init, ReportsInv, ReportInv, Dispatchers

(* A request's own step leaves the reports alone, and enqueues at most it, *)
(* out of produce.                                                         *)
LEMMA RequestEffects ==
  ASSUME TypeOK, NEW r \in Requests,
         \/ Call(r) \/ TakeLock(r) \/ RefuseClosed(r) \/ RefusePollFailed(r)
         \/ PassAdmission(r) \/ RefuseQueueFull(r) \/ RefuseProduce(r)
         \/ Enqueue(r) \/ FinishWait(r) \/ TimeOut(r)
  PROVE  /\ UNCHANGED <<completed, failed, callback, reports>>
         /\ queue' = queue \/ (queue' = queue \cup {r} /\ pc[r] = "producing")
         /\ \A q \in Requests : pc'[q] \in {"idle", "locking", "admitting", "producing"} =>
                                  pc[q] \in {"idle", "locking", "admitting", "producing"}
<1> USE DEF TypeOK, requestVars, flagVars, threadVars, reportVars, kafkaVars, Answer, Refuse
<1>1. CASE Call(r) \/ TakeLock(r) \/ PassAdmission(r)
  BY <1>1 DEF Call, TakeLock, PassAdmission
<1>2. CASE RefuseClosed(r) \/ RefusePollFailed(r) \/ RefuseQueueFull(r) \/ RefuseProduce(r)
  BY <1>2 DEF RefuseClosed, RefusePollFailed, RefuseQueueFull, RefuseProduce
<1>3. CASE Enqueue(r)
  BY <1>3 DEF Enqueue
<1>4. CASE FinishWait(r) \/ TimeOut(r)
  BY <1>4 DEF FinishWait, TimeOut
<1> QED BY <1>1, <1>2, <1>3, <1>4

LEMMA ReportsStep ==
  TypeOK /\ PublisherInv /\ ReportsInv /\ [Next]_vars => ReportsInv' /\ ResultStep /\ OnceStep
<1> SUFFICES ASSUME TypeOK, PublisherInv, ReportsInv, [Next]_vars
             PROVE  ReportsInv' /\ ResultStep /\ OnceStep
  OBVIOUS
<1>t. /\ pc \in [Requests -> RequestStates] /\ completed \in [Requests -> BOOLEAN]
      /\ failed \in [Requests -> BOOLEAN]
      /\ callback \in [Dispatchers -> Requests \cup {NoOne}] /\ NoOne \notin Requests
      /\ queue \subseteq Requests /\ reports \in [Requests -> Results]
  BY PublisherAssumption DEF TypeOK
<1>e. \A r \in Requests : pc[r] = "producing" => Untouched(r)
  BY DEF PublisherInv, UntouchedInv, NeverEnqueued
<1>0. ASSUME UNCHANGED <<completed, failed, callback>>
      PROVE  ResultStep /\ OnceStep
  BY <1>0 DEF ResultStep, OnceStep
<1>1. ASSUME NEW r \in Requests,
             \/ Call(r) \/ TakeLock(r) \/ RefuseClosed(r) \/ RefusePollFailed(r)
             \/ PassAdmission(r) \/ RefuseQueueFull(r) \/ RefuseProduce(r)
             \/ Enqueue(r) \/ FinishWait(r) \/ TimeOut(r)
      PROVE  ReportsInv' /\ ResultStep /\ OnceStep
  <2>1. /\ UNCHANGED <<completed, failed, callback, reports>>
        /\ queue' = queue \/ (queue' = queue \cup {r} /\ pc[r] = "producing")
        /\ \A q \in Requests : pc'[q] \in {"idle", "locking", "admitting", "producing"} =>
                                 pc[q] \in {"idle", "locking", "admitting", "producing"}
    BY <1>1, RequestEffects
  <2>2. ASSUME NEW q \in Requests
        PROVE  ReportInv(q)'
    <3>1. ReportInv(q)
      BY DEF ReportsInv
    <3>2. CASE queue' = queue \/ q # r
      BY <2>1, <3>1, <3>2 DEF ReportInv
    <3>3. CASE q = r /\ pc[r] = "producing"
      BY <1>e, <2>1, <3>1, <3>3 DEF ReportInv, Untouched
    <3> QED BY <2>1, <3>2, <3>3
  <2> QED BY <1>0, <2>1, <2>2 DEF ReportsInv
<1>2. ASSUME NEW r \in Requests,
             Transmit(r) \/ Append(r) \/ Lose(r) \/ Acknowledge(r) \/ GiveUp(r)
      PROVE  ReportsInv' /\ ResultStep /\ OnceStep
  <2>1. /\ UNCHANGED <<pc, completed, failed, callback>>
        /\ \/ UNCHANGED <<queue, reports>>
           \/ /\ r \in queue /\ queue' = queue \ {r}
              /\ \E result \in Results : reports' = [reports EXCEPT ![r] = result]
    BY <1>2 DEF Transmit, Append, Lose, Acknowledge, GiveUp, Resolve, KafkaUnchanged, Results,
                requestVars, reportVars
  <2>2. ASSUME NEW q \in Requests
        PROVE  ReportInv(q)'
    <3>1. ReportInv(q)
      BY DEF ReportsInv
    <3> QED BY <1>t, <2>1, <3>1 DEF ReportInv
  <2> QED BY <1>0, <2>1, <2>2 DEF ReportsInv
<1>3. ASSUME NEW d \in Dispatchers, LeaveCallback(d)
      PROVE  ReportsInv' /\ ResultStep /\ OnceStep
  <2>1. PICK r \in Requests : r = callback[d]
    BY <1>3, <1>t DEF LeaveCallback
  <2>2. /\ UNCHANGED <<pc, failed, queue, reports>>
        /\ completed' = [completed EXCEPT ![r] = TRUE]
        /\ callback' = [callback EXCEPT ![d] = NoOne]
    BY <1>3, <2>1 DEF LeaveCallback, requestVars, kafkaVars
  <2>3. ASSUME NEW q \in Requests
        PROVE  ReportInv(q)'
    <3>1. ReportInv(q) /\ (q = r => pc[q] \notin {"idle", "locking", "admitting", "producing"})
      BY <2>1, <1>t DEF ReportsInv, PublisherInv, UntouchedInv, NeverEnqueued, Untouched
    <3> QED BY <1>t, <2>1, <2>2, <3>1 DEF ReportInv
  <2>4. ResultStep /\ OnceStep
    BY <1>t, <2>2 DEF ResultStep, OnceStep
  <2> QED BY <2>3, <2>4 DEF ReportsInv
<1>4. ASSUME NEW d \in Dispatchers, NEW r \in Requests, EnterCallback(d, r)
      PROVE  ReportsInv' /\ ResultStep /\ OnceStep
  <2>1. /\ UNCHANGED <<pc, completed, queue>> /\ reports[r] # "none" /\ callback[d] = NoOne
        /\ failed' = [failed EXCEPT ![r] = (reports[r] = "error")]
        /\ reports' = [reports EXCEPT ![r] = "none"]
        /\ callback' = [callback EXCEPT ![d] = r]
    BY <1>4 DEF EnterCallback, requestVars
  <2>2. ReportInv(r)
    BY DEF ReportsInv
  <2>3. ASSUME NEW q \in Requests
        PROVE  ReportInv(q)'
    <3>1. ReportInv(q)
      BY DEF ReportsInv
    <3> QED BY <1>t, <2>1, <2>2, <3>1 DEF ReportInv
  <2>4. ResultStep
    <3>1. ~completed[r] /\ \A q \in Requests : q # r => failed'[q] = failed[q]
      BY <1>t, <2>1, <2>2 DEF ReportInv
    <3> QED BY <2>1, <3>1 DEF ResultStep
  <2>5. OnceStep
    BY <1>t, <2>1, <2>2 DEF OnceStep, ReportInv
  <2> QED BY <2>3, <2>4, <2>5 DEF ReportsInv
<1>5. ASSUME UNCHANGED <<pc, completed, failed, callback, queue, reports>>
      PROVE  ReportsInv' /\ ResultStep /\ OnceStep
  BY <1>0, <1>5 DEF ReportsInv, ReportInv
<1>6. CASE PollerChecks \/ PollReturns \/ PollRaises
  BY <1>5, <1>6 DEF PollerChecks, PollReturns, PollRaises, PollerStep, requestVars, reportVars,
                    kafkaVars
<1>7. ASSUME NEW c \in Closers,
             \/ CallClose(c) \/ CloserTakesLock(c) \/ AlreadyClosed(c) \/ MarkClosed(c)
             \/ SetStop(c) \/ JoinPoller(c) \/ FlushDrains(c) \/ FlushExpires(c)
      PROVE  ReportsInv' /\ ResultStep /\ OnceStep
  BY <1>5, <1>7 DEF CallClose, CloserTakesLock, AlreadyClosed, MarkClosed, SetStop, JoinPoller,
                    FlushDrains, FlushExpires, CloserStep, requestVars, reportVars, kafkaVars
<1>8. CASE UNCHANGED vars
  BY <1>5, <1>8 DEF vars, requestVars, reportVars, kafkaVars
<1> QED BY <1>1, <1>2, <1>3, <1>4, <1>6, <1>7, <1>8, NextCases

(* However the poller and the flushes of several closes interleave, the    *)
(* callback of a prediction runs once, and the result a request finds when *)
(* its event is set is never overwritten: a late or second delivery report *)
(* cannot turn an answer that was given into a false one.                  *)
THEOREM ResultsAreFinal == Spec => [][ResultStep /\ OnceStep]_vars
<1>1. Init => TypeOK /\ PublisherInv /\ ReportsInv
  BY TypeInit, InvInit, ReportsInit
<1>2. TypeOK /\ PublisherInv /\ ReportsInv /\ [Next]_vars => (TypeOK /\ PublisherInv /\ ReportsInv)'
  BY TypeStep, InvStep, ReportsStep
<1>3. TypeOK /\ PublisherInv /\ ReportsInv /\ [Next]_vars => [ResultStep /\ OnceStep]_vars
  BY ReportsStep
<1> QED BY <1>1, <1>2, <1>3, PTL DEF Spec

------------------------------------------------------------------------------
(* Refinement.                                                             *)

(* A step that answers nobody and appends nothing is a stutter.            *)
LEMMA Stutter ==
  ASSUME UNCHANGED <<pc, outcome, topic>>
  PROVE  UNCHANGED Contract!contractVars
  BY DEF Contract!contractVars, HttpAnswer

(* publish ending with o is the contract's Reply of the answer o maps to.  *)
LEMMA AnswerReplies ==
  ASSUME TypeOK, NEW r \in Requests, NEW o \in Outcomes,
         Answer(r, o), UNCHANGED topic,
         pc[r] # "answered",
         o = "acknowledged" => r \in topic,
         o \in {"queue_full", "closed"} => r \notin topic
  PROVE  Contract!Next
<1> DEFINE a == IF o = "acknowledged" THEN "published"
                ELSE IF DeliveryUnknown(o) THEN "unknown" ELSE "not_published"
<1>1. a \in Contract!Answers \ {"none"}
  BY DEF Contract!Answers
<1>2. topic' = topic
  OBVIOUS
<1>3. pc' = [pc EXCEPT ![r] = "answered"] /\ outcome' = [outcome EXCEPT ![r] = o]
  BY DEF Answer
<1>4. HttpAnswer(r) = "none" /\ HttpAnswer(r)' = a
  BY <1>3 DEF HttpAnswer, TypeOK, Outcomes, DeliveryUnknown
<1>5. ASSUME NEW q \in Requests, q # r
      PROVE  HttpAnswer(q)' = HttpAnswer(q)
  BY <1>3, <1>5 DEF HttpAnswer, TypeOK, DeliveryUnknown
<1>6. [q \in Requests |-> HttpAnswer(q)]'
        = [[q \in Requests |-> HttpAnswer(q)] EXCEPT ![r] = a]
  BY <1>4, <1>5
<1>7. Contract!Reply(r, a)
  BY <1>1, <1>2, <1>4, <1>6 DEF Contract!Reply, DeliveryUnknown
<1> QED BY <1>1, <1>7 DEF Contract!Next

(* Every step maps to a step of the contract or to a stutter.              *)
LEMMA StepImplements ==
  TypeOK /\ PublisherInv /\ [Next]_vars => [Contract!Next]_(Contract!contractVars)
<1> SUFFICES ASSUME TypeOK, PublisherInv, [Next]_vars
             PROVE  Contract!Next \/ UNCHANGED Contract!contractVars
  OBVIOUS
<1> USE DEF requestVars, flagVars, threadVars, reportVars, kafkaVars
<1>1. ASSUME NEW r \in Requests,
             \/ RefuseClosed(r) \/ RefusePollFailed(r)
             \/ RefuseQueueFull(r) \/ RefuseProduce(r)
      PROVE  Contract!Next
  <2>1. PICK o \in {"closed", "failed", "queue_full"} :
          Answer(r, o) /\ UNCHANGED topic /\ pc[r] \in {"admitting", "producing"}
    BY <1>1 DEF RefuseClosed, RefusePollFailed, RefuseQueueFull, RefuseProduce, Refuse
  <2>2. r \notin topic
    BY <2>1 DEF PublisherInv, UntouchedInv, NeverEnqueued, Untouched
  <2> QED BY <2>1, <2>2, AnswerReplies DEF Outcomes
<1>2. ASSUME NEW r \in Requests, FinishWait(r)
      PROVE  Contract!Next
  <2>1. PICK o \in {"failed", "acknowledged"} :
          /\ Answer(r, o) /\ UNCHANGED topic /\ pc[r] = "waiting"
          /\ o = "acknowledged" => ~failed[r] /\ completed[r]
    BY <1>2 DEF FinishWait
  <2>2. o = "acknowledged" => r \in topic
    BY <2>1 DEF PublisherInv, ResultInv
  <2> QED BY <2>1, <2>2, AnswerReplies DEF Outcomes
<1>3. ASSUME NEW r \in Requests, TimeOut(r)
      PROVE  Contract!Next
  BY <1>3, AnswerReplies DEF TimeOut, Outcomes
<1>4. ASSUME NEW r \in Requests, Append(r)
      PROVE  Contract!Next \/ UNCHANGED Contract!contractVars
  <2>1. \A q \in Requests : HttpAnswer(q)' = HttpAnswer(q)
    BY <1>4 DEF Append, KafkaUnchanged, HttpAnswer, DeliveryUnknown
  <2>2. CASE r \in topic
    <3>1. UNCHANGED topic
      BY <1>4, <2>2 DEF Append
    <3> QED BY <1>4, <3>1, Stutter DEF Append, KafkaUnchanged
  <2>3. CASE r \notin topic
    <3>2. topic' = topic \cup {r}
      BY <1>4 DEF Append
    <3>3. ~NeverEnqueued(r)
      BY <1>4 DEF Append, PublisherInv, UntouchedInv, Untouched
    <3>4. HttpAnswer(r) \in {"none", "unknown"}
      BY <2>3, <3>3 DEF HttpAnswer, DeliveryUnknown, NeverEnqueued, TypeOK, Outcomes,
                        PublisherInv, ResultInv
    <3>5. Contract!AppendRecord(r)
      BY <2>1, <2>3, <3>2, <3>4 DEF Contract!AppendRecord
    <3> QED BY <3>5 DEF Contract!Next
  <2> QED BY <2>2, <2>3
<1>5. ASSUME NEW r \in Requests,
             \/ Call(r) \/ TakeLock(r) \/ PassAdmission(r) \/ Enqueue(r)
      PROVE  UNCHANGED Contract!contractVars
  <2>1. pc[r] # "answered" /\ pc' # pc
        /\ UNCHANGED <<outcome, topic>>
        /\ \E s \in RequestStates \ {"answered"} : pc' = [pc EXCEPT ![r] = s]
    BY <1>5 DEF Call, TakeLock, PassAdmission, Enqueue, RequestStates, TypeOK
  <2>2. \A q \in Requests : HttpAnswer(q)' = HttpAnswer(q)
    BY <2>1 DEF HttpAnswer, DeliveryUnknown, TypeOK
  <2> QED BY <2>1, <2>2 DEF Contract!contractVars
<1>6. ASSUME NEW r \in Requests,
             Transmit(r) \/ Lose(r) \/ Acknowledge(r) \/ GiveUp(r)
      PROVE  UNCHANGED Contract!contractVars
  BY <1>6, Stutter DEF Transmit, Lose, Acknowledge, GiveUp, Resolve, KafkaUnchanged
<1>7. ASSUME NEW d \in Dispatchers,
             LeaveCallback(d) \/ \E r \in Requests : EnterCallback(d, r)
      PROVE  UNCHANGED Contract!contractVars
  BY <1>7, Stutter DEF LeaveCallback, EnterCallback
<1>8. CASE PollerChecks \/ PollReturns \/ PollRaises
  BY <1>8, Stutter DEF PollerChecks, PollReturns, PollRaises, PollerStep
<1>9. ASSUME NEW c \in Closers,
             \/ CallClose(c) \/ CloserTakesLock(c) \/ AlreadyClosed(c) \/ MarkClosed(c)
             \/ SetStop(c) \/ JoinPoller(c) \/ FlushDrains(c) \/ FlushExpires(c)
      PROVE  UNCHANGED Contract!contractVars
  BY <1>9, Stutter DEF CallClose, CloserTakesLock, AlreadyClosed, MarkClosed, SetStop,
                       JoinPoller, FlushDrains, FlushExpires, CloserStep
<1>10. CASE UNCHANGED vars
  BY <1>10, Stutter DEF vars
<1> QED BY <1>1, <1>2, <1>3, <1>4, <1>5, <1>6, <1>7, <1>8, <1>9, <1>10, NextCases

(* Publisher implements PublicationContract: what a caller concludes from  *)
(* its answer is true, and stays true.                                     *)
THEOREM ContractImplemented == Spec => ImplementsContract
<1>1. Init => Contract!Init
  BY DEF Init, Contract!Init, HttpAnswer
<1>2. TypeOK /\ PublisherInv /\ [Next]_vars => [Contract!Next]_(Contract!contractVars)
  BY StepImplements
<1> QED BY <1>1, <1>2, InvCorrect, PTL DEF Spec, ImplementsContract, Contract!Spec
==============================================================================
