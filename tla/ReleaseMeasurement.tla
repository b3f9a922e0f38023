-------------------------- MODULE ReleaseMeasurement --------------------------
(***************************************************************************)
(* One phase of scripts/release-operations-driver.py: the benchmark of     *)
(* LoadGenerator against the prediction API, the checks of its report, and *)
(* the readback that compares what the broker holds with what the clients  *)
(* were told.                                                              *)
(*                                                                         *)
(* The API and its publisher are given by PublicationContract, which       *)
(* Publisher implements: a prediction is answered once and truthfully, and *)
(* may reach the topic after an answer that left this open.  The API of    *)
(* the release serves its static model with the identity and the header    *)
(* the benchmark expects, so that a client sees an answer, its own         *)
(* deadline, or a broken connection.  The broker is external; it may be    *)
(* down during the phase, and may fail once in one of three ways, which    *)
(* is the bound on faults.                                                 *)
(***************************************************************************)
EXTENDS LoadGenerator, Sequences

CONSTANTS Partitions,    \* of the prediction topic
          PartitionOf,   \* trip -> the partition its key selects
          MaxErrors      \* settings.max_error_rate * settings.requests

ASSUME MeasurementAssumption ==
  /\ PartitionOf \in [Trips -> Partitions]
  /\ MaxErrors \in Nat

VARIABLES
  outage,      \* the broker is down while the phase is measured
  answer,      \* what the API answered about each prediction
  appended,    \* predictions the publisher got into the topic
  log,         \* external: the records of each partition
  faulted,     \* external: the broker has lost, repeated or altered a record
  readback,    \* the readback and its verdict
  ends,        \* the high watermarks read so far, by partition
  positions,   \* how far each partition has been consumed
  seen,        \* `seen`: how many records of each prediction were consumed
  matched,     \* `matched`
  mismatched,  \* `mismatched`
  ambiguous    \* `ambiguous`

topicVars == <<answer, appended, log, faulted>>
readbackVars == <<readback, ends, positions, seen, matched, mismatched, ambiguous>>
vars == <<generatorVars, outage, topicVars, readbackVars>>

Contract == INSTANCE PublicationContract WITH Predictions <- Trips

Readbacks == {"idle", "reading", "passed", "failed", "expired"}

(* A record is what the API answered, under another envelope, or differs. *)
Records == [trip : Trips, content : {"genuine", "envelope", "altered"}]

MeasurementInit ==
  /\ Init
  /\ outage \in BOOLEAN
  /\ Contract!Init
  /\ log = [p \in Partitions |-> <<>>]
  /\ faulted = FALSE
  /\ readback = "idle"
  /\ ends = [p \in {} |-> 0]
  /\ positions = [p \in Partitions |-> 0]
  /\ seen = [t \in Trips |-> 0]
  /\ matched = {}
  /\ mismatched = FALSE
  /\ ambiguous = {}

------------------------------------------------------------------------------
(* The API, the publisher and the broker.                                  *)

(* After an interruption nobody looks at the topic. *)
Sent(t) == outcome[t] \notin {"unissued", Overflow} /\ phase # "interrupted"
BrokerUp == ~outage \/ phase \notin {"warming", "measuring"}

Put(t, content) ==
  LET p == PartitionOf[t]
  IN log' = [log EXCEPT ![p] = Append(@, [trip |-> t, content |-> content])]

(* Answers that no client waits for any more decide nothing here. *)
Reply(t, a) ==
  /\ phase # "interrupted"
  /\ outcome[t] = "running"
  /\ Contract!Reply(t, a)
  /\ UNCHANGED <<generatorVars, outage, log, faulted, readbackVars>>

AppendRecord(t) ==
  /\ BrokerUp
  /\ Sent(t)
  /\ Contract!AppendRecord(t)
  /\ Put(t, "genuine")
  /\ UNCHANGED <<generatorVars, outage, faulted, readbackVars>>

Fault == /\ ~faulted
         /\ faulted' = TRUE
         /\ UNCHANGED <<generatorVars, outage, answer, readbackVars>>

(* The record of a prediction is not what the API answered. *)
AppendWrong(t, content) ==
  /\ BrokerUp
  /\ Sent(t)
  /\ Contract!AppendRecord(t)
  /\ Put(t, content)
  /\ Fault

(* A prediction is in the topic a second time. *)
Repeat(t) == /\ BrokerUp
             /\ t \in appended
             /\ Put(t, "genuine")
             /\ Fault
             /\ UNCHANGED appended

(* The newest record of a partition is lost before it is read back. *)
Lose(p) == /\ readback = "idle"
           /\ log[p] # <<>>
           /\ log' = [log EXCEPT ![p] = SubSeq(@, 1, Len(@) - 1)]
           /\ Fault
           /\ UNCHANGED appended

(* The client receives the answer: HTTP 200, or 503. *)
Receive(t) ==
  /\ answer[t] # "none"
  /\ Answered(t, IF answer[t] = "published" THEN "success" ELSE "http_error")
  /\ UNCHANGED <<outage, topicVars, readbackVars>>

Disconnect(t) == /\ Answered(t, "transport_error")
                 /\ UNCHANGED <<outage, topicVars, readbackVars>>

ClientTimeOut(t) == /\ TimeOut(t)
                    /\ UNCHANGED <<outage, topicVars, readbackVars>>

Generate == /\ Coroutine \/ Interrupt
            /\ UNCHANGED <<outage, topicVars, readbackVars>>

------------------------------------------------------------------------------
(* The checks of the report: summarize, phase_checks.                      *)

Successes == {t \in Trips : outcome[t] = "success"}

(* A mutant: the gates look at the requests that were sent. *)
BenchmarkPassedOfSent ==
  LET sent == {t \in Measured : outcome[t] # Overflow}
  IN Successes \cap sent # {} /\ Cardinality(sent \ Successes) <= MaxErrors

BenchmarkPassed ==
  /\ \A t \in Measured : recorded[t] = 1 /\ outcome[t] # Overflow
  /\ Successes \cap Measured # {}
  /\ Cardinality(Measured \ Successes) <= MaxErrors

(* The outage phase is measured without warm-ups in the code; they have no *)
(* part in its checks.                                                     *)
PhaseChecks ==
  IF outage THEN \A t \in Measured : outcome[t] = "http_error"
            ELSE BenchmarkPassed /\ Warmups \subseteq Successes

------------------------------------------------------------------------------
(* readback: a consumer of its own group, assigned all partitions.         *)

ReadWatermark(p) ==
  /\ phase = "measured"
  /\ readback = "idle"
  /\ p \notin DOMAIN ends
  /\ ends' = [q \in DOMAIN ends \cup {p} |-> IF q = p THEN Len(log[p]) ELSE ends[q]]
  /\ UNCHANGED <<generatorVars, outage, topicVars,
                 readback, positions, seen, matched, mismatched, ambiguous>>

StartConsuming ==
  /\ readback = "idle"
  /\ DOMAIN ends = Partitions
  /\ readback' = "reading"
  /\ UNCHANGED <<generatorVars, outage, topicVars,
                 ends, positions, seen, matched, mismatched, ambiguous>>

Unfinished == \E p \in Partitions : positions[p] < ends[p]

(* A mutant: only a definite answer makes a record ambiguous. *)
AmbiguousHttpOnly == {"http_error"}

(* What was not confirmed to the client may be in the topic all the same. *)
AmbiguousOutcomes == {"http_error", "timeout", "transport_error"}

(* The envelope is right and the content is that of a successful sample. *)
Matches(r) == r.content = "genuine" /\ outcome[r.trip] = "success"

(* One message of one partition, possibly beyond the watermark. *)
Consume(p) ==
  /\ readback = "reading"
  /\ Unfinished
  /\ positions[p] < Len(log[p])
  /\ positions' = [positions EXCEPT ![p] = @ + 1]
  /\ LET r == log[p][positions'[p]]
         excused == r.content # "envelope" /\ outcome[r.trip] \in AmbiguousOutcomes
     IN /\ seen' = [seen EXCEPT ![r.trip] = @ + 1]
        /\ matched' = IF Matches(r) THEN matched \cup {r.trip} ELSE matched
        /\ ambiguous' = IF excused THEN ambiguous \cup {r.trip} ELSE ambiguous
        /\ mismatched' = (mismatched \/ ~(Matches(r) \/ excused))
  /\ UNCHANGED <<generatorVars, outage, topicVars, readback, ends>>

(* The mutant of the verdict: a repeated record goes unnoticed. *)
ChecksWithoutCounts == matched = Successes /\ ~mismatched

Checks == /\ matched = Successes
          /\ ~mismatched
          /\ \A t \in Trips : seen[t] <= 1

FinishReadback ==
  /\ readback = "reading"
  /\ ~Unfinished
  /\ readback' = IF Checks THEN "passed" ELSE "failed"
  /\ UNCHANGED <<generatorVars, outage, topicVars,
                 ends, positions, seen, matched, mismatched, ambiguous>>

(* More than 90 seconds: the readback raises. *)
ExpireReadback ==
  /\ readback = "reading"
  /\ Unfinished
  /\ readback' = "expired"
  /\ UNCHANGED <<generatorVars, outage, topicVars,
                 ends, positions, seen, matched, mismatched, ambiguous>>

------------------------------------------------------------------------------
ApiStep(t) == AppendRecord(t) \/ \E a \in Contract!Answers \ {"none"} : Reply(t, a)

BrokerFault == \/ \E t \in Trips : Repeat(t)
                                   \/ \E c \in {"envelope", "altered"} : AppendWrong(t, c)
               \/ \E p \in Partitions : Lose(p)

Driver == \/ StartConsuming
          \/ \E p \in Partitions : ReadWatermark(p) \/ Consume(p)
          \/ FinishReadback
          \/ ExpireReadback

MeasurementNext ==
  \/ Generate
  \/ \E t \in Trips : ApiStep(t) \/ Receive(t) \/ Disconnect(t) \/ ClientTimeOut(t)
  \/ BrokerFault
  \/ Driver

(***************************************************************************)
(* The event loop runs what is due and the driver runs on; every request   *)
(* has its deadline.  Nothing is assumed of the API or of the broker.      *)
(***************************************************************************)
MeasurementFairness ==
  /\ WF_vars(Generate /\ phase' # "interrupted")
  /\ \A t \in Trips : WF_vars(ClientTimeOut(t))
  /\ WF_vars(Driver)

MeasurementSpec == MeasurementInit /\ [][MeasurementNext]_vars /\ MeasurementFairness

------------------------------------------------------------------------------
(* Properties.                                                             *)

(* The variables have the types the code gives them. *)
TypeOK ==
  /\ GeneratorTypeOK
  /\ outage \in BOOLEAN
  /\ answer \in [Trips -> Contract!Answers]
  /\ appended \subseteq Trips
  /\ log \in [Partitions -> Seq(Records)]
  /\ faulted \in BOOLEAN
  /\ readback \in Readbacks
  /\ \E P \in SUBSET Partitions : ends \in [P -> Nat]
  /\ positions \in [Partitions -> Nat]
  /\ seen \in [Trips -> Nat]
  /\ matched \subseteq Trips
  /\ mismatched \in BOOLEAN
  /\ ambiguous \subseteq Trips

(* The records of a trip below the watermarks. *)
ReadRecords(t) ==
  LET p == PartitionOf[t]
  IN {i \in 1 .. Len(log[p]) : i <= ends[p] /\ log[p][i].trip = t}

(* A readback that passes is evidence: whatever the broker did, each       *)
(* prediction a client was told of, warm-ups included, was in the topic    *)
(* exactly once, as it was answered ("independently consumes broker        *)
(* records and compares each successful response's prediction hash and     *)
(* envelope").                                                             *)
PassedReadbackIsTrue ==
  readback = "passed" =>
    \A t \in Successes : \E i \in ReadRecords(t) :
      ReadRecords(t) = {i} /\ log[PartitionOf[t]][i].content = "genuine"

(* The verdict of a healthy phase, the report's and the readback's, holds  *)
(* for the arrivals that were scheduled, not for those that were sent or   *)
(* answered: all but the errors allowed are in the topic, once each.       *)
PassedPhaseIsDelivered ==
  phase = "measured" /\ ~outage /\ PhaseChecks /\ readback = "passed" =>
    LET delivered == {t \in Trips : Cardinality(ReadRecords(t)) = 1}
    IN Warmups \subseteq delivered /\ Cardinality(delivered \cap Measured) >= Arrivals - MaxErrors

(* A readback never blames a broker that did nothing wrong: neither a late *)
(* arrival of an unconfirmed prediction nor one that is appended while the *)
(* topic is read makes it fail, after an outage or a healthy phase         *)
(* ("Readback reports any such ambiguous deliveries separately").          *)
FaultlessReadbackPasses == readback = "failed" => faulted

(* The measurement ends, with a verdict or an exception, whatever the API  *)
(* and the broker do or fail to do.                                        *)
MeasurementEnds ==
  <>(phase = "interrupted" \/ readback \in {"passed", "failed", "expired"})
==============================================================================
