---------------------------- MODULE LoadGenerator ----------------------------
(***************************************************************************)
(* The open-loop load generator of src/src/tripml/benchmark.py: _measure   *)
(* and the requests it creates.                                            *)
(*                                                                         *)
(* One coroutine issues the arrivals at their scheduled times, whatever    *)
(* the service does; each request is a task of its own.  Tasks interleave  *)
(* only where they await, so that an arrival collects the finished tasks,  *)
(* compares and creates its task in one step.  The service is external:    *)
(* it may answer anything at any time, or never.  Times are left out       *)
(* except for what they decide: that a request ends by its deadline.       *)
(***************************************************************************)
EXTENDS Naturals, FiniteSets

CONSTANTS Warmup,       \* settings.warmup: sequential requests before measuring
          Arrivals,     \* settings.requests: scheduled arrivals
          Concurrency   \* settings.concurrency

ASSUME LoadGeneratorAssumption ==
  /\ Warmup \in Nat
  /\ Arrivals \in Nat \ {0}
  /\ Concurrency \in Nat \ {0}

VARIABLES
  phase,      \* where _measure is
  next,       \* how many requests have been issued or dropped
  pending,    \* `pending`: tasks created and not yet collected
  outcome,    \* the outcome of each request's sample
  recorded    \* how often each request's sample is in `samples` or `warmup`

generatorVars == <<phase, next, pending, outcome, recorded>>

(* Each request has a trip identifier of its own; warm-ups come first. *)
Trips == 1 .. (Warmup + Arrivals)
Warmups == 1 .. Warmup
Measured == Trips \ Warmups

(* What _request makes of an answer, and of the lack of one. *)
AnsweredOutcomes == {"success", "http_error", "trip_id_mismatch",
                     "publication_mismatch", "feature_mode_mismatch",
                     "invalid_prediction", "transport_error"}
TaskOutcomes == AnsweredOutcomes \cup {"timeout"}
Overflow == "load_generator_overflow"
SampleOutcomes == TaskOutcomes \cup {"unissued", "running", Overflow}

Phases == {"warming", "measuring", "measured", "interrupted"}

Running == {t \in Trips : outcome[t] = "running"}
Done(t) == outcome[t] \in TaskOutcomes

Init ==
  /\ phase = "warming"
  /\ next = 0
  /\ pending = {}
  /\ outcome = [t \in Trips |-> "unissued"]
  /\ recorded = [t \in Trips |-> 0]

(* samples.extend, warmup.append *)
Record(S) == recorded' = [t \in Trips |-> IF t \in S THEN recorded[t] + 1
                                                     ELSE recorded[t]]

------------------------------------------------------------------------------
(* The coroutine: _measure.                                                *)

(* `await _request(...)` for the next warm-up, once the last has ended. *)
StartWarmup ==
  /\ phase = "warming"
  /\ next < Warmup
  /\ \A t \in 1 .. next : recorded[t] = 1
  /\ next' = next + 1
  /\ outcome' = [outcome EXCEPT ![next + 1] = "running"]
  /\ UNCHANGED <<phase, pending, recorded>>

EndWarmup ==
  /\ phase = "warming"
  /\ next > 0
  /\ Done(next)
  /\ recorded[next] = 0
  /\ Record({next})
  /\ UNCHANGED <<phase, next, pending, outcome>>

StartMeasuring ==
  /\ phase = "warming"
  /\ next = Warmup
  /\ \A t \in Warmups : recorded[t] = 1
  /\ phase' = "measuring"
  /\ UNCHANGED <<next, pending, outcome, recorded>>

(* A mutant: finished tasks are collected after the comparison. *)
KeptUncollected == pending

(* The tasks an arrival collects, and those that stay pending. *)
Completed == {t \in pending : Done(t)}
Kept == pending \ Completed

Full == Cardinality(Kept) >= Concurrency

(* The sleep of the next arrival is over: it is issued as a task ... *)
Dispatch ==
  /\ phase = "measuring"
  /\ next < Warmup + Arrivals
  /\ ~Full
  /\ next' = next + 1
  /\ Record(Completed)
  /\ pending' = Kept \cup {next + 1}
  /\ outcome' = [outcome EXCEPT ![next + 1] = "running"]
  /\ UNCHANGED phase

(* ... or dropped, with a sample that says so. *)
Drop ==
  /\ phase = "measuring"
  /\ next < Warmup + Arrivals
  /\ Full
  /\ next' = next + 1
  /\ Record(Completed \cup {next + 1})
  /\ pending' = Kept
  /\ outcome' = [outcome EXCEPT ![next + 1] = Overflow]
  /\ UNCHANGED phase

(* A mutant: the tasks still pending after the last arrival are forgotten. *)
LeaveGroupForgetful ==
  /\ phase = "measuring"
  /\ next = Warmup + Arrivals
  /\ \A t \in pending : Done(t)
  /\ phase' = "measured"
  /\ UNCHANGED <<next, pending, outcome, recorded>>

(* The task group ends when its last task has: the rest is collected. *)
LeaveGroup ==
  /\ phase = "measuring"
  /\ next = Warmup + Arrivals
  /\ \A t \in pending : Done(t)
  /\ Record(pending)
  /\ phase' = "measured"
  /\ UNCHANGED <<next, pending, outcome>>

(* An interruption or an unexpected exception: the group cancels its tasks *)
(* and nothing is reported.                                                *)
Interrupt ==
  /\ phase \in {"warming", "measuring"}
  /\ phase' = "interrupted"
  /\ UNCHANGED <<next, pending, outcome, recorded>>

------------------------------------------------------------------------------
(* The tasks: _request.                                                    *)

End(t, o) ==
  /\ phase \in {"warming", "measuring"}
  /\ outcome[t] = "running"
  /\ outcome' = [outcome EXCEPT ![t] = o]
  /\ UNCHANGED <<phase, next, pending, recorded>>

(* The service answers, or the connection fails. *)
Answered(t, o) == o \in AnsweredOutcomes /\ End(t, o)

(* A mutant: the per-operation timeouts of the client, which a service     *)
(* that keeps the connection busy never lets expire.                       *)
TimeOutNever(t) == FALSE /\ UNCHANGED generatorVars

(* asyncio.timeout: the deadline of the whole request. *)
TimeOut(t) == End(t, "timeout")

------------------------------------------------------------------------------
Coroutine == StartWarmup \/ EndWarmup \/ StartMeasuring \/ Dispatch \/ Drop \/ LeaveGroup

Next ==
  \/ Coroutine
  \/ Interrupt
  \/ \E t \in Trips : TimeOut(t) \/ \E o \in AnsweredOutcomes : Answered(t, o)

Spec == Init /\ [][Next]_generatorVars

------------------------------------------------------------------------------
(* Properties.                                                             *)

(* The variables of the generator have the types the code gives them. *)
GeneratorTypeOK ==
  /\ phase \in Phases
  /\ next \in 0 .. (Warmup + Arrivals)
  /\ pending \subseteq Trips
  /\ outcome \in [Trips -> SampleOutcomes]
  /\ recorded \in [Trips -> Nat]

(* The generator never has more requests under way than its limit, however *)
(* arrivals and answers interleave, warm-ups included.                     *)
ConcurrencyIsBounded == Cardinality(Running) <= Concurrency

(* An arrival is dropped only when the service really holds as many        *)
(* requests as the limit: a request that has ended but was not collected   *)
(* yet never costs an arrival ("load_generator_overflow" fails the gate    *)
(* no_load_generator_overflow).                                            *)
DropsOnlyAtTheLimit ==
  [][\A t \in Trips :
       outcome'[t] = Overflow /\ outcome[t] # Overflow
         => Cardinality(Running) = Concurrency]_generatorVars

(* Once the run has been measured every arrival and every warm-up has one  *)
(* sample, with its final outcome: none is lost between the collections,   *)
(* none counted twice ("all_arrivals_accounted_for").                      *)
EverySampleOnce ==
  phase = "measured" =>
    \A t \in Trips : recorded[t] = 1 /\ outcome[t] \in TaskOutcomes \cup {Overflow}
==============================================================================
