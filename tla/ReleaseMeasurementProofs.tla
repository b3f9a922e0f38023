----------------------- MODULE ReleaseMeasurementProofs -----------------------
(***************************************************************************)
(* Proofs about the load generator, for every number of warm-ups, arrivals *)
(* and requests under way, and about the phase of a release that runs it:  *)
(* the phase implements the generator, so that what holds of the generator *)
(* alone holds of the measurement, and it keeps the publication contract,  *)
(* so that its readback can be compared with what callers were told.       *)
(***************************************************************************)
EXTENDS ReleaseMeasurement, FiniteSetTheorems, SequenceTheorems, TLAPS

USE LoadGeneratorAssumption

(* The inductive invariant of the generator: an arrival is unissued, a     *)
(* pending task, or has exactly one sample with its final outcome; of the  *)
(* warm-ups only the last may be under way.                                *)
IssuedInv ==
  \A t \in Trips :
    /\ t > next <=> outcome[t] = "unissued"
    /\ recorded[t] \in {0, 1}
    /\ recorded[t] = 1 => outcome[t] \in TaskOutcomes \cup {Overflow}
    /\ outcome[t] = Overflow => recorded[t] = 1

(* Who has no sample yet. *)
UnrecordedInv ==
  /\ phase = "warming" => next <= Warmup /\ pending = {}
  /\ phase \in {"measuring", "measured"} => next >= Warmup
  /\ phase = "measured" => next = Warmup + Arrivals
  /\ phase \in {"warming", "measuring", "interrupted"} =>
       \A t \in pending : t <= next /\ t > Warmup /\ recorded[t] = 0
  /\ phase = "measuring" => \A t \in Trips \ pending : t <= next => recorded[t] = 1
  /\ phase = "warming" => \A t \in Trips : t < next => recorded[t] = 1
  /\ phase = "measured" => \A t \in Trips : recorded[t] = 1

(* The limit. *)
LimitInv ==
  /\ Cardinality(pending) <= Concurrency
  /\ phase = "warming" => Running \subseteq {next}
  /\ phase = "measuring" => Running \subseteq pending
  /\ phase \in {"measured", "interrupted"} => Cardinality(Running) <= Concurrency

GeneratorInv == GeneratorTypeOK /\ IssuedInv /\ UnrecordedInv /\ LimitInv

LEMMA OutcomesDiffer ==
  /\ "running" \notin TaskOutcomes /\ "unissued" \notin TaskOutcomes
  /\ Overflow \notin TaskOutcomes /\ Overflow # "running" /\ Overflow # "unissued"
  /\ TaskOutcomes \subseteq SampleOutcomes
BY DEF TaskOutcomes, AnsweredOutcomes, Overflow, SampleOutcomes

LEMMA TripsFinite ==
  ASSUME NEW S \in SUBSET Trips
  PROVE  IsFiniteSet(S) /\ Cardinality(S) \in Nat
<1>1. IsFiniteSet(Trips)
  BY FS_Interval DEF Trips
<1> QED BY <1>1, FS_Subset, FS_CardinalityType

LEMMA AtMostOne ==
  ASSUME NEW x, NEW S \in SUBSET {x}
  PROVE  Cardinality(S) \in Nat /\ Cardinality(S) <= 1
<1>1. IsFiniteSet({x}) /\ Cardinality({x}) = 1
  BY FS_Singleton
<1> QED BY <1>1, FS_Subset, FS_CardinalityType

LEMMA GeneratorInit == Init => GeneratorInv
<1> SUFFICES ASSUME Init
             PROVE  GeneratorInv
  OBVIOUS
<1>1. GeneratorTypeOK
  BY DEF Init, GeneratorTypeOK, Phases, SampleOutcomes, Trips
<1>2. IssuedInv
  <2>1. \A t \in Trips : t > 0
    BY DEF Trips
  <2> QED BY <2>1, OutcomesDiffer DEF Init, IssuedInv
<1>3. UnrecordedInv
  BY DEF Init, UnrecordedInv, Trips
<1>4. LimitInv
  <2>1. Running = {}
    BY DEF Init, Running
  <2>2. Cardinality(pending) = 0
    BY FS_EmptySet DEF Init
  <2> QED BY <2>1, <2>2 DEF Init, LimitInv
<1> QED BY <1>1, <1>2, <1>3, <1>4 DEF GeneratorInv

LEMMA RecordTyped ==
  ASSUME recorded \in [Trips -> Nat], NEW S, Record(S)
  PROVE  recorded' \in [Trips -> Nat]
BY DEF Record

LEMMA GeneratorTypeStep == GeneratorTypeOK /\ [Next]_generatorVars => GeneratorTypeOK'
<1> SUFFICES ASSUME GeneratorTypeOK, [Next]_generatorVars
             PROVE  GeneratorTypeOK'
  OBVIOUS
<1> USE DEF GeneratorTypeOK
<1>1. CASE StartWarmup
  BY <1>1 DEF StartWarmup, SampleOutcomes, Trips, Phases
<1>2. CASE EndWarmup
  BY <1>2, RecordTyped DEF EndWarmup
<1>3. CASE StartMeasuring
  BY <1>3 DEF StartMeasuring, Phases
<1>4. ASSUME Dispatch \/ Drop PROVE GeneratorTypeOK'
  <2>1. next + 1 \in Trips /\ next + 1 \in 0 .. (Warmup + Arrivals)
    BY <1>4 DEF Dispatch, Drop, Trips
  <2>2. pending' \subseteq Trips /\ recorded' \in [Trips -> Nat]
    BY <1>4, <2>1, RecordTyped DEF Dispatch, Drop, Kept
  <2>3. outcome' \in [Trips -> SampleOutcomes]
    BY <1>4, <2>1 DEF Dispatch, Drop, SampleOutcomes
  <2> QED BY <1>4, <2>1, <2>2, <2>3 DEF Dispatch, Drop
<1>6. CASE LeaveGroup
  BY <1>6, RecordTyped DEF LeaveGroup, Phases
<1>7. CASE Interrupt
  BY <1>7 DEF Interrupt, Phases
<1>8. ASSUME NEW t \in Trips, NEW o \in TaskOutcomes, End(t, o)
      PROVE  GeneratorTypeOK'
  BY <1>8, OutcomesDiffer DEF End
<1>9. CASE UNCHANGED generatorVars
  BY <1>9 DEF generatorVars
<1> QED BY <1>1, <1>2, <1>3, <1>4, <1>6, <1>7, <1>8, <1>9
        DEF Next, Coroutine, TimeOut, Answered, TaskOutcomes

(* What each kind of step does to a sample. *)
LEMMA RecordStep ==
  ASSUME GeneratorTypeOK, NEW S, Record(S)
  PROVE  /\ \A t \in Trips \cap S : recorded'[t] = recorded[t] + 1
         /\ \A t \in Trips \ S : recorded'[t] = recorded[t]
BY DEF Record, GeneratorTypeOK

LEMMA IssuedStep ==
  ASSUME GeneratorInv, [Next]_generatorVars
  PROVE  IssuedInv'
<1> USE DEF GeneratorInv, GeneratorTypeOK
<1>i. \A t \in Trips : t \in Nat /\ t > 0
  BY DEF Trips
<1>1. CASE StartWarmup
  BY <1>1, <1>i, OutcomesDiffer DEF StartWarmup, IssuedInv
<1>2. CASE EndWarmup
  <2>1. next \in Trips /\ recorded[next] = 0 /\ outcome[next] \in TaskOutcomes
    BY <1>2 DEF EndWarmup, Done, Trips, UnrecordedInv
  <2> QED BY <1>2, <2>1, RecordStep DEF EndWarmup, IssuedInv
<1>3. CASE StartMeasuring
  BY <1>3 DEF StartMeasuring, IssuedInv
<1>4. ASSUME Dispatch \/ Drop PROVE IssuedInv'
  <2>1. \A t \in Completed : t \in Trips /\ t <= next /\ recorded[t] = 0
                             /\ outcome[t] \in TaskOutcomes
    BY <1>4 DEF Dispatch, Drop, Completed, Done, UnrecordedInv
  <2>2. /\ next \in Nat /\ next + 1 \in Trips /\ next + 1 \notin Completed
        /\ next' = next + 1 /\ outcome[next + 1] = "unissued" /\ recorded[next + 1] = 0
    BY <1>4, <2>1, OutcomesDiffer DEF Dispatch, Drop, Trips, IssuedInv
  <2>3. \A t \in Trips : t > next + 1 <=> t > next /\ t # next + 1
    BY <1>i, <2>2
  <2>4. CASE Dispatch
    BY <2>1, <2>2, <2>3, <2>4, RecordStep, OutcomesDiffer DEF Dispatch, IssuedInv
  <2>5. CASE Drop
    BY <2>1, <2>2, <2>3, <2>5, RecordStep, OutcomesDiffer DEF Drop, IssuedInv
  <2> QED BY <1>4, <2>4, <2>5
<1>5. CASE LeaveGroup
  <2>1. \A t \in pending : t \in Trips /\ recorded[t] = 0 /\ outcome[t] \in TaskOutcomes
    BY <1>5 DEF LeaveGroup, Done, UnrecordedInv
  <2> QED BY <1>5, <2>1, RecordStep, OutcomesDiffer DEF LeaveGroup, IssuedInv
<1>6. CASE Interrupt
  BY <1>6 DEF Interrupt, IssuedInv
<1>7. ASSUME NEW t \in Trips, NEW o \in TaskOutcomes, End(t, o)
      PROVE  IssuedInv'
  BY <1>7, OutcomesDiffer DEF End, IssuedInv
<1>8. CASE UNCHANGED generatorVars
  BY <1>8 DEF generatorVars, IssuedInv
<1> QED BY <1>1, <1>2, <1>3, <1>4, <1>5, <1>6, <1>7, <1>8
        DEF Next, Coroutine, TimeOut, Answered, TaskOutcomes

LEMMA UnrecordedStep ==
  ASSUME GeneratorInv, [Next]_generatorVars
  PROVE  UnrecordedInv'
<1> USE DEF GeneratorInv, GeneratorTypeOK
<1>i. /\ \A t \in Trips : t \in Nat /\ t > 0
      /\ next \in Nat /\ Warmup \in Nat
  BY DEF Trips
<1>1. CASE StartWarmup
  <2>1. \A t \in Trips : t < next + 1 => t \in 1 .. next
    BY <1>i
  <2> QED BY <1>1, <1>i, <2>1 DEF StartWarmup, UnrecordedInv
<1>2. CASE EndWarmup
  <2>1. \A t \in Trips : t < next => t \notin {next}
    BY <1>i
  <2> QED BY <1>2, <1>i, <2>1, RecordStep DEF EndWarmup, UnrecordedInv
<1>3. CASE StartMeasuring
  <2>1. \A t \in Trips : t <= next => t \in Warmups
    BY <1>3, <1>i DEF StartMeasuring, Warmups
  <2> QED BY <1>3, <1>i, <2>1 DEF StartMeasuring, UnrecordedInv
<1>4. ASSUME Dispatch \/ Drop PROVE UnrecordedInv'
  <2>1. /\ Completed \subseteq pending /\ Kept = pending \ Completed
        /\ pending \subseteq Trips /\ next >= Warmup
        /\ phase' = "measuring" /\ next' = next + 1
    BY <1>4 DEF Dispatch, Drop, Completed, Kept, UnrecordedInv
  <2>2. /\ next + 1 \in Trips /\ next + 1 \notin pending /\ recorded[next + 1] = 0
        /\ \A t \in pending : t <= next /\ t > Warmup /\ recorded[t] = 0
        /\ \A t \in Trips \ pending : t <= next => recorded[t] = 1
    BY <1>4, <1>i, OutcomesDiffer DEF Dispatch, Drop, Trips, IssuedInv, UnrecordedInv
  <2>3. \A t \in Trips : t <= next + 1 => t <= next \/ t = next + 1
    BY <1>i
  <2>4. CASE Dispatch
    <3>1. pending' = Kept \cup {next + 1} /\ Record(Completed)
      BY <2>4 DEF Dispatch
    <3>2. \A t \in pending' : t <= next' /\ t > Warmup /\ recorded'[t] = 0
      BY <1>i, <2>1, <2>2, <3>1, RecordStep
    <3>3. \A t \in Trips \ pending' : t <= next' => recorded'[t] = 1
      BY <1>i, <2>1, <2>2, <2>3, <3>1, RecordStep
    <3> QED BY <1>i, <2>1, <3>2, <3>3 DEF UnrecordedInv
  <2>5. CASE Drop
    <3>1. pending' = Kept /\ Record(Completed \cup {next + 1})
      BY <2>5 DEF Drop
    <3>2. \A t \in pending' : t <= next' /\ t > Warmup /\ recorded'[t] = 0
      BY <1>i, <2>1, <2>2, <3>1, RecordStep
    <3>3. \A t \in Trips \ pending' : t <= next' => recorded'[t] = 1
      <4> SUFFICES ASSUME NEW t \in Trips \ pending', t <= next'
                   PROVE  recorded'[t] = 1
        OBVIOUS
      <4>1. CASE t \in Completed \cup {next + 1}
        BY <2>2, <2>1, <3>1, <4>1, RecordStep
      <4>2. CASE t \notin Completed \cup {next + 1}
        BY <2>1, <2>2, <2>3, <3>1, <4>2, RecordStep
      <4> QED BY <4>1, <4>2
    <3> QED BY <1>i, <2>1, <3>2, <3>3 DEF UnrecordedInv
  <2> QED BY <1>4, <2>4, <2>5
<1>5. CASE LeaveGroup
  <2>1. \A t \in Trips : recorded'[t] = 1
    BY <1>5, <1>i, RecordStep DEF LeaveGroup, UnrecordedInv, Trips
  <2> QED BY <1>5, <1>i, <2>1 DEF LeaveGroup, UnrecordedInv
<1>6. CASE Interrupt
  BY <1>6 DEF Interrupt, UnrecordedInv
<1>7. ASSUME NEW t \in Trips, NEW o \in TaskOutcomes, End(t, o)
      PROVE  UnrecordedInv'
  BY <1>7 DEF End, UnrecordedInv
<1>8. CASE UNCHANGED generatorVars
  BY <1>8 DEF generatorVars, UnrecordedInv
<1> QED BY <1>1, <1>2, <1>3, <1>4, <1>5, <1>6, <1>7, <1>8
        DEF Next, Coroutine, TimeOut, Answered, TaskOutcomes

(* While the arrivals are issued the tasks that stay pending are running,  *)
(* and no other request is.                                                *)
LEMMA KeptAreRunning ==
  ASSUME GeneratorInv, phase = "measuring"
  PROVE  Kept = Running
<1> USE DEF GeneratorInv, GeneratorTypeOK
<1>1. \A t \in pending : t \in Trips /\ ~Done(t) => outcome[t] = "running"
  BY OutcomesDiffer DEF IssuedInv, UnrecordedInv, Done, SampleOutcomes, Trips
<1>2. Running \subseteq pending /\ \A t \in Running : ~Done(t)
  BY OutcomesDiffer DEF LimitInv, Running, Done
<1> QED BY <1>1, <1>2, OutcomesDiffer DEF Kept, Completed, Running, Done

LEMMA LimitStep ==
  ASSUME GeneratorInv, [Next]_generatorVars
  PROVE  LimitInv'
<1> USE DEF GeneratorInv, GeneratorTypeOK
<1>i. /\ \A t \in Trips : t \in Nat /\ t > 0
      /\ next \in Nat /\ Warmup \in Nat /\ Concurrency \in Nat /\ Concurrency >= 1
  BY DEF Trips
<1>f. \A S \in SUBSET Trips : \A T \in SUBSET S :
        IsFiniteSet(S) /\ Cardinality(T) \in Nat /\ Cardinality(T) <= Cardinality(S)
  BY TripsFinite, FS_Subset
<1>r. Running \in SUBSET Trips /\ pending \in SUBSET Trips
  BY DEF Running
<1>1. CASE StartWarmup
  <2>1. \A t \in Trips : t <= next => outcome[t] # "running"
    BY <1>1, <1>i, OutcomesDiffer DEF StartWarmup, IssuedInv
  <2>2. \A t \in Trips : t > next => outcome[t] # "running"
    BY OutcomesDiffer DEF IssuedInv
  <2>3. Running' \subseteq {next'}
    BY <1>1, <1>i, <2>1, <2>2 DEF StartWarmup, Running
  <2> QED BY <1>1, <2>3 DEF StartWarmup, LimitInv
<1>2. CASE EndWarmup
  BY <1>2 DEF EndWarmup, LimitInv, Running
<1>3. CASE StartMeasuring
  <2>1. next \notin Running
    BY <1>3, <1>i, OutcomesDiffer DEF StartMeasuring, Running, IssuedInv, Warmups
  <2>2. Running' = Running /\ Running = {}
    BY <1>3, <2>1 DEF StartMeasuring, LimitInv, Running
  <2> QED BY <1>3, <2>2 DEF StartMeasuring, LimitInv
<1>4. CASE Dispatch
  <2>1. Kept = Running
    BY <1>4, KeptAreRunning DEF Dispatch
  <2>2. Running' \subseteq pending'
    BY <1>4, <2>1 DEF Dispatch, Running
  <2>3. IsFiniteSet(Kept) /\ Cardinality(Kept) \in Nat /\ Cardinality(Kept) < Concurrency
    BY <1>4, <1>f, <1>i, <1>r, <2>1 DEF Dispatch, Full
  <2>4. Cardinality(pending') <= Cardinality(Kept) + 1
    BY <1>4, <2>3, FS_AddElement DEF Dispatch
  <2>5. Cardinality(pending') \in Nat
    BY <1>4, <2>3, FS_AddElement, FS_CardinalityType DEF Dispatch
  <2>6. Cardinality(pending') <= Concurrency
    BY <1>i, <2>3, <2>4, <2>5
  <2> QED BY <1>4, <2>2, <2>6 DEF Dispatch, LimitInv
<1>5. CASE Drop
  <2>1. Kept = Running /\ Kept \subseteq pending
    BY <1>5, KeptAreRunning DEF Drop, Kept
  <2>2. Running' \subseteq Running
    BY <1>5 DEF Drop, Running, Overflow
  <2>3. Cardinality(Kept) <= Cardinality(pending) /\ Cardinality(Kept) \in Nat
        /\ Cardinality(pending) \in Nat
    BY <1>f, <1>r, <2>1
  <2> QED BY <1>5, <1>i, <2>1, <2>2, <2>3 DEF Drop, LimitInv
<1>6. CASE LeaveGroup
  <2>1. Running' = Running /\ Running \subseteq pending
    BY <1>6 DEF LeaveGroup, LimitInv, Running
  <2>2. Cardinality(Running) <= Cardinality(pending) /\ Cardinality(Running) \in Nat
        /\ Cardinality(pending) \in Nat
    BY <1>f, <1>r, <2>1
  <2>3. Cardinality(Running) <= Concurrency
    BY <1>i, <2>2 DEF LimitInv
  <2> QED BY <1>6, <2>1, <2>3 DEF LeaveGroup, LimitInv
<1>7. CASE Interrupt
  <2>1. Running' = Running
    BY <1>7 DEF Interrupt, Running
  <2>2. CASE phase = "warming"
    <3>1. Cardinality(Running) <= 1 /\ Cardinality(Running) \in Nat
      BY <2>2, AtMostOne DEF LimitInv
    <3> QED BY <1>7, <1>i, <2>1, <3>1 DEF Interrupt, LimitInv
  <2>3. CASE phase = "measuring"
    <3>1. Running \subseteq pending
      BY <2>3 DEF LimitInv
    <3>2. Cardinality(Running) <= Cardinality(pending) /\ Cardinality(Running) \in Nat
          /\ Cardinality(pending) \in Nat
      BY <1>f, <1>r, <3>1
    <3>3. Cardinality(Running) <= Concurrency
      BY <1>i, <3>2 DEF LimitInv
    <3> QED BY <1>7, <2>1, <3>3 DEF Interrupt, LimitInv
  <2> QED BY <1>7, <2>2, <2>3 DEF Interrupt
<1>8. ASSUME NEW t \in Trips, NEW o \in TaskOutcomes, End(t, o)
      PROVE  LimitInv'
  <2>1. Running' \subseteq Running
    BY <1>8, OutcomesDiffer DEF End, Running
  <2> QED BY <1>8, <2>1 DEF End, LimitInv
<1>9. CASE UNCHANGED generatorVars
  BY <1>9 DEF generatorVars, LimitInv, Running
<1> QED BY <1>1, <1>2, <1>3, <1>4, <1>5, <1>6, <1>7, <1>8, <1>9
        DEF Next, Coroutine, TimeOut, Answered, TaskOutcomes

LEMMA GeneratorStep == GeneratorInv /\ [Next]_generatorVars => GeneratorInv'
BY GeneratorTypeStep, IssuedStep, UnrecordedStep, LimitStep DEF GeneratorInv

LEMMA LimitHolds == ASSUME GeneratorInv PROVE ConcurrencyIsBounded
<1> USE DEF GeneratorInv, GeneratorTypeOK
<1>1. Running \in SUBSET Trips /\ pending \in SUBSET Trips
  BY DEF Running
<1>2. /\ IsFiniteSet(pending) /\ Cardinality(pending) \in Nat
      /\ Cardinality(Running) \in Nat /\ Concurrency \in Nat /\ Concurrency >= 1
  BY <1>1, TripsFinite
<1>3. CASE phase = "warming"
  <2>1. Cardinality(Running) <= 1
    BY <1>3, AtMostOne DEF LimitInv
  <2> QED BY <1>2, <2>1 DEF ConcurrencyIsBounded
<1>4. CASE phase = "measuring"
  <2>1. Cardinality(Running) <= Cardinality(pending)
    BY <1>2, <1>4, FS_Subset DEF LimitInv
  <2> QED BY <1>2, <2>1 DEF ConcurrencyIsBounded, LimitInv
<1> QED BY <1>3, <1>4 DEF Phases, LimitInv, ConcurrencyIsBounded

LEMMA SamplesHold == ASSUME GeneratorInv PROVE EverySampleOnce
BY DEF GeneratorInv, IssuedInv, UnrecordedInv, EverySampleOnce

(* A step that marks an arrival as dropped finds the service at its limit. *)
LEMMA DropStep ==
  ASSUME GeneratorInv, Next
  PROVE  \A t \in Trips : outcome'[t] = Overflow /\ outcome[t] # Overflow
                            => Cardinality(Running) = Concurrency
<1> USE DEF GeneratorInv, GeneratorTypeOK
<1>1. CASE Drop
  <2>1. Kept = Running /\ Kept \subseteq pending
    BY <1>1, KeptAreRunning DEF Drop, Kept
  <2>2. /\ Cardinality(Kept) <= Cardinality(pending)
        /\ Cardinality(Kept) \in Nat /\ Cardinality(pending) \in Nat
    BY <2>1, TripsFinite, FS_Subset DEF Running
  <2> QED BY <1>1, <2>1, <2>2 DEF Drop, Full, LimitInv
<1>2. ASSUME NEW t \in Trips, NEW o \in TaskOutcomes, End(t, o), NEW u \in Trips
      PROVE  outcome'[u] = Overflow => outcome[u] = Overflow
  BY <1>2, OutcomesDiffer DEF End
<1>3. CASE StartWarmup \/ Dispatch
  BY <1>3, OutcomesDiffer DEF StartWarmup, Dispatch
<1>4. CASE EndWarmup \/ StartMeasuring \/ LeaveGroup \/ Interrupt
  BY <1>4 DEF EndWarmup, StartMeasuring, LeaveGroup, Interrupt
<1> QED BY <1>1, <1>2, <1>3, <1>4 DEF Next, Coroutine, TimeOut, Answered, TaskOutcomes
------------------------------------------------------------------------------
(* The steps of the measurement, by what they change.                      *)

Generating ==
  Generate \/ \E t \in Trips : Receive(t) \/ Disconnect(t) \/ ClientTimeOut(t)

Replying(t, a) == Reply(t, a)

(* A record of t is appended: its first, or after it a second one. *)
Appending(t, c) ==
  /\ Put(t, c)
  /\ \/ /\ t \notin appended /\ answer[t] \in {"none", "unknown"} /\ Sent(t)
        /\ appended' = appended \cup {t}
        /\ \/ c = "genuine" /\ faulted' = faulted
           \/ faulted' = TRUE
     \/ t \in appended /\ ~faulted /\ faulted' = TRUE /\ appended' = appended
  /\ UNCHANGED <<generatorVars, outage, answer, readbackVars>>

LEMMA Steps ==
  ASSUME [MeasurementNext]_vars
  PROVE  \/ Generating
         \/ \E t \in Trips, a \in Contract!Answers \ {"none"} : Replying(t, a)
         \/ \E t \in Trips, c \in {"genuine", "envelope", "altered"} : Appending(t, c)
         \/ \E p \in Partitions : Lose(p)
         \/ Driver
         \/ UNCHANGED vars
<1>1. ASSUME NEW t \in Trips, AppendRecord(t)
      PROVE  Appending(t, "genuine")
  BY <1>1 DEF AppendRecord, Appending, Contract!AppendRecord, topicVars
<1>2. ASSUME NEW t \in Trips, NEW c \in {"envelope", "altered"}, AppendWrong(t, c)
      PROVE  Appending(t, c)
  BY <1>2 DEF AppendWrong, Appending, Contract!AppendRecord, Fault
<1>3. ASSUME NEW t \in Trips, Repeat(t)
      PROVE  Appending(t, "genuine")
  BY <1>3 DEF Repeat, Appending, Fault
<1> QED BY <1>1, <1>2, <1>3 DEF MeasurementNext, ApiStep, BrokerFault, Generating, Replying

LEMMA GeneratingIsNext ==
  ASSUME Generating
  PROVE  Next /\ UNCHANGED <<outage, topicVars, readbackVars>>
<1>1. CASE Generate
  BY <1>1 DEF Generate, Next
<1>2. ASSUME NEW t \in Trips, Receive(t)
      PROVE  Next /\ UNCHANGED <<outage, topicVars, readbackVars>>
  <2>1. PICK o : Answered(t, o)
    BY <1>2 DEF Receive
  <2> QED BY <1>2, <2>1 DEF Receive, Next, Answered
<1>3. ASSUME NEW t \in Trips, Disconnect(t)
      PROVE  Next /\ UNCHANGED <<outage, topicVars, readbackVars>>
  BY <1>3 DEF Disconnect, Next, Answered
<1>4. ASSUME NEW t \in Trips, ClientTimeOut(t)
      PROVE  Next /\ UNCHANGED <<outage, topicVars, readbackVars>>
  BY <1>4 DEF ClientTimeOut, Next
<1> QED BY <1>1, <1>2, <1>3, <1>4 DEF Generating

LEMMA DriverKeeps ==
  ASSUME Driver
  PROVE  UNCHANGED <<generatorVars, outage, topicVars>>
BY DEF Driver, StartConsuming, ReadWatermark, Consume, FinishReadback, ExpireReadback

(* Each step of a measurement is one of the generator or leaves it alone. *)
LEMMA MeasurementRefines ==
  ASSUME [MeasurementNext]_vars
  PROVE  [Next]_generatorVars
<1>1. CASE Generating
  BY <1>1, GeneratingIsNext
<1>2. CASE UNCHANGED generatorVars
  BY <1>2
<1>3. ASSUME NEW t \in Trips, NEW a, Replying(t, a)
      PROVE  UNCHANGED generatorVars
  BY <1>3 DEF Replying, Reply
<1>4. ASSUME NEW t \in Trips, NEW c, Appending(t, c)
      PROVE  UNCHANGED generatorVars
  BY <1>4 DEF Appending
<1>5. ASSUME NEW p \in Partitions, Lose(p)
      PROVE  UNCHANGED generatorVars
  BY <1>5 DEF Lose, Fault
<1> QED BY <1>1, <1>2, <1>3, <1>4, <1>5, Steps, DriverKeeps DEF vars

------------------------------------------------------------------------------
(* Type correctness.                                                       *)

(* What one record more, or one less, makes of the topic. *)
LEMMA PutLog ==
  ASSUME MeasurementAssumption, log \in [Partitions -> Seq(Records)],
         NEW t \in Trips, NEW c \in {"genuine", "envelope", "altered"}, Put(t, c)
  PROVE  /\ log' \in [Partitions -> Seq(Records)]
         /\ \A p \in Partitions :
              /\ Len(log[p]) \in Nat /\ Len(log'[p]) \in Nat
              /\ \A i \in 1 .. Len(log[p]) : log'[p][i] = log[p][i]
              /\ p # PartitionOf[t] => Len(log'[p]) = Len(log[p])
              /\ p = PartitionOf[t] => Len(log'[p]) = Len(log[p]) + 1
              /\ p = PartitionOf[t] =>
                   log'[p][Len(log[p]) + 1] = [trip |-> t, content |-> c]
<1> DEFINE r == [trip |-> t, content |-> c]
<1>1. r \in Records /\ PartitionOf[t] \in Partitions
  BY DEF Records, MeasurementAssumption
<1>2. log' = [log EXCEPT ![PartitionOf[t]] = Append(@, r)]
  BY DEF Put
<1>3. log'[PartitionOf[t]] = Append(log[PartitionOf[t]], r)
  BY <1>1, <1>2
<1>4. \A p \in Partitions : p # PartitionOf[t] => log'[p] = log[p]
  BY <1>2
<1>5. \A p \in Partitions : log[p] \in Seq(Records)
  OBVIOUS
<1> HIDE DEF r
<1>6. \A q \in Seq(Records) :
        /\ Append(q, r) \in Seq(Records)
        /\ Len(q) \in Nat /\ Len(Append(q, r)) = Len(q) + 1
        /\ \A i \in 1 .. Len(q) : Append(q, r)[i] = q[i]
        /\ Append(q, r)[Len(q) + 1] = r
  BY <1>1
<1>7. log' \in [Partitions -> Seq(Records)]
  BY <1>1, <1>2, <1>5, <1>6
<1>8. ASSUME NEW p \in Partitions, p # PartitionOf[t]
      PROVE  log'[p] = log[p] /\ log[p] \in Seq(Records) /\ Len(log[p]) \in Nat
  BY <1>4, <1>5, <1>6, <1>8
<1>9. /\ Len(log[PartitionOf[t]]) \in Nat
      /\ Len(log'[PartitionOf[t]]) = Len(log[PartitionOf[t]]) + 1
      /\ \A i \in 1 .. Len(log[PartitionOf[t]]) :
           log'[PartitionOf[t]][i] = log[PartitionOf[t]][i]
      /\ log'[PartitionOf[t]][Len(log[PartitionOf[t]]) + 1] = r
  BY <1>1, <1>3, <1>5, <1>6
<1> SUFFICES ASSUME NEW p \in Partitions
             PROVE  /\ Len(log[p]) \in Nat /\ Len(log'[p]) \in Nat
                    /\ \A i \in 1 .. Len(log[p]) : log'[p][i] = log[p][i]
                    /\ p # PartitionOf[t] => Len(log'[p]) = Len(log[p])
                    /\ p = PartitionOf[t] => Len(log'[p]) = Len(log[p]) + 1
                    /\ p = PartitionOf[t] => log'[p][Len(log[p]) + 1] = r
  BY <1>7 DEF r
<1>10. CASE p # PartitionOf[t]
  BY <1>8, <1>10
<1>11. CASE p = PartitionOf[t]
  BY <1>9, <1>11
<1> QED BY <1>10, <1>11

LEMMA LoseLog ==
  ASSUME log \in [Partitions -> Seq(Records)], NEW p \in Partitions, Lose(p)
  PROVE  /\ log' \in [Partitions -> Seq(Records)]
         /\ \A q \in Partitions : q # p => log'[q] = log[q]
         /\ Len(log[p]) \in Nat /\ Len(log[p]) > 0
         /\ Len(log'[p]) = Len(log[p]) - 1
         /\ \A i \in 1 .. Len(log'[p]) : log'[p][i] = log[p][i]
<1>1. log[p] \in Seq(Records) /\ log[p] # <<>>
  BY DEF Lose
<1>2. log' = [log EXCEPT ![p] = SubSeq(@, 1, Len(@) - 1)]
  BY DEF Lose
<1>3. log'[p] = SubSeq(log[p], 1, Len(log[p]) - 1)
  BY <1>2
<1>4. \A q \in Seq(Records) : q # <<>> =>
        /\ Len(q) \in Nat /\ Len(q) > 0
        /\ SubSeq(q, 1, Len(q) - 1) \in Seq(Records)
        /\ Len(SubSeq(q, 1, Len(q) - 1)) = Len(q) - 1
        /\ \A i \in 1 .. (Len(q) - 1) : SubSeq(q, 1, Len(q) - 1)[i] = q[i]
  <2> SUFFICES ASSUME NEW q \in Seq(Records), q # <<>>
               PROVE  /\ Len(q) \in Nat /\ Len(q) > 0
                      /\ SubSeq(q, 1, Len(q) - 1) \in Seq(Records)
                      /\ Len(SubSeq(q, 1, Len(q) - 1)) = Len(q) - 1
                      /\ \A i \in 1 .. (Len(q) - 1) : SubSeq(q, 1, Len(q) - 1)[i] = q[i]
    OBVIOUS
  <2>1. Len(q) \in Nat /\ Len(q) > 0 /\ \A i \in 1 .. Len(q) : q[i] \in Records
    OBVIOUS
  <2>0. Len(q) - 1 \in Nat
    BY <2>1
  <2>2. PICK n \in Nat : n = Len(q) - 1
    BY <2>0
  <2>3. /\ SubSeq(q, 1, n) \in Seq(Records)
        /\ Len(SubSeq(q, 1, n)) = IF 1 <= n THEN n - 1 + 1 ELSE 0
        /\ \A i \in 1 .. n - 1 + 1 : SubSeq(q, 1, n)[i] = q[1 + i - 1]
    <3>1. \A i \in 1 .. n : q[i] \in Records
      BY <2>1, <2>2
    <3> QED BY <3>1, SubSeqProperties
  <2>4. \A i \in 1 .. n : 1 + i - 1 = i
    OBVIOUS
  <2> QED BY <2>1, <2>2, <2>3, <2>4
<1> QED BY <1>1, <1>2, <1>3, <1>4

LEMMA MeasurementTypeInit == ASSUME MeasurementInit PROVE TypeOK
<1>1. GeneratorTypeOK
  BY GeneratorInit DEF MeasurementInit, GeneratorInv
<1>2. ends \in [{} -> Nat]
  BY DEF MeasurementInit
<1>3. log \in [Partitions -> Seq(Records)]
  BY DEF MeasurementInit
<1>4. answer \in [Trips -> Contract!Answers] /\ appended = {}
  BY DEF MeasurementInit, Contract!Init, Contract!Answers
<1> QED BY <1>1, <1>2, <1>3, <1>4 DEF MeasurementInit, TypeOK, Readbacks

LEMMA MeasurementTypeStep ==
  ASSUME MeasurementAssumption, TypeOK, [MeasurementNext]_vars
  PROVE  TypeOK'
<1> USE DEF TypeOK
<1>g. GeneratorTypeOK'
  BY MeasurementRefines, GeneratorTypeStep
<1>1. CASE Generating
  BY <1>1, <1>g, GeneratingIsNext DEF topicVars, readbackVars
<1>2. ASSUME NEW t \in Trips, NEW a \in Contract!Answers \ {"none"}, Replying(t, a)
      PROVE  TypeOK'
  <2>1. answer' \in [Trips -> Contract!Answers] /\ appended' = appended
    BY <1>2 DEF Replying, Reply, Contract!Reply
  <2> QED BY <1>2, <1>g, <2>1 DEF Replying, Reply, readbackVars
<1>3. ASSUME NEW t \in Trips, NEW c \in {"genuine", "envelope", "altered"}, Appending(t, c)
      PROVE  TypeOK'
  <2>1. log' \in [Partitions -> Seq(Records)]
    BY <1>3, PutLog DEF Appending
  <2> QED BY <1>3, <1>g, <2>1 DEF Appending, readbackVars
<1>4. ASSUME NEW p \in Partitions, Lose(p)
      PROVE  TypeOK'
  <2>1. log' \in [Partitions -> Seq(Records)]
    BY <1>4, LoseLog
  <2> QED BY <1>4, <1>g, <2>1 DEF Lose, Fault, readbackVars
<1>5. CASE Driver
  <2>u. UNCHANGED <<outage, answer, appended, log, faulted>>
    BY <1>5, DriverKeeps DEF topicVars
  <2>1. ASSUME NEW p \in Partitions, ReadWatermark(p) PROVE TypeOK'
    <3>1. PICK P \in SUBSET Partitions : ends \in [P -> Nat]
      OBVIOUS
    <3>2. Len(log[p]) \in Nat
      BY <2>u
    <3>3. ends' \in [P \cup {p} -> Nat] /\ P \cup {p} \in SUBSET Partitions
      BY <2>1, <3>1, <3>2 DEF ReadWatermark
    <3> QED BY <2>1, <2>u, <1>g, <3>3 DEF ReadWatermark
  <2>2. CASE StartConsuming
    BY <2>2, <2>u, <1>g DEF StartConsuming, Readbacks
  <2>3. ASSUME NEW p \in Partitions, Consume(p) PROVE TypeOK'
    <3>1. positions[p] \in Nat /\ positions' = [positions EXCEPT ![p] = positions[p] + 1]
          /\ positions[p] < Len(log[p]) /\ Len(log[p]) \in Nat /\ log[p] \in Seq(Records)
      BY <2>3 DEF Consume
    <3>2. positions'[p] = positions[p] + 1 /\ positions' \in [Partitions -> Nat]
      BY <3>1
    <3>3. log[p][positions'[p]] \in Records
      BY <3>1, <3>2
    <3>4. PICK r \in Records : r = log[p][positions'[p]]
      BY <3>3
    <3>5. r.trip \in Trips
      BY DEF Records
    <3>6. seen' \in [Trips -> Nat]
      BY <2>3, <3>4, <3>5 DEF Consume
    <3>7. matched' \subseteq Trips /\ ambiguous' \subseteq Trips /\ mismatched' \in BOOLEAN
      BY <2>3, <3>4, <3>5 DEF Consume
    <3> QED BY <2>3, <2>u, <1>g, <3>2, <3>6, <3>7 DEF Consume
  <2>4. CASE FinishReadback \/ ExpireReadback
    BY <2>4, <2>u, <1>g DEF FinishReadback, ExpireReadback, Readbacks
  <2> QED BY <1>5, <2>1, <2>2, <2>3, <2>4 DEF Driver
<1>6. CASE UNCHANGED vars
  BY <1>6, <1>g DEF vars, topicVars, readbackVars
<1> QED BY <1>1, <1>2, <1>3, <1>4, <1>5, <1>6, Steps

------------------------------------------------------------------------------
(* The inductive invariant of a phase and its readback.                    *)

IsRecord(t, i) == /\ i \in 1 .. Len(log[PartitionOf[t]])
                  /\ log[PartitionOf[t]][i].trip = t

(* What a client was told is true, and nothing comes of what was not sent. *)
ClientInv ==
  /\ \A t \in Trips : answer[t] = "published" => t \in appended
  /\ \A t \in Trips : outcome[t] = "success" => answer[t] = "published"
  /\ \A t \in appended : outcome[t] \notin {"unissued", Overflow}
  /\ \A t \in Trips :
       outcome[t] \in {"unissued", "running", Overflow, "success"} \cup AmbiguousOutcomes

(* Until the broker errs, the topic has one genuine record of each         *)
(* prediction that was appended, and of no other.                          *)
LogInv ==
  /\ \A p \in Partitions : \A i \in 1 .. Len(log[p]) :
       PartitionOf[log[p][i].trip] = p /\ log[p][i].trip \in appended
  /\ ~faulted =>
       /\ \A t \in appended : \E i \in Nat : IsRecord(t, i)
       /\ \A t \in Trips : \A i, j \in Nat : IsRecord(t, i) /\ IsRecord(t, j) => i = j
       /\ \A p \in Partitions : \A i \in 1 .. Len(log[p]) : log[p][i].content = "genuine"

(* Below a watermark is each prediction that was confirmed, unless it was  *)
(* lost; then no record of it will ever be seen.                           *)
EndsInv ==
  /\ DOMAIN ends \subseteq Partitions
  /\ \A p \in DOMAIN ends : phase = "measured"
  /\ readback # "idle" => DOMAIN ends = Partitions /\ phase = "measured"
  /\ \A t \in Trips :
       answer[t] = "published" /\ PartitionOf[t] \in DOMAIN ends =>
         \/ \E i \in Nat : IsRecord(t, i) /\ i <= ends[PartitionOf[t]]
         \/ faulted /\ \A i \in Nat : ~IsRecord(t, i)

USE DEF Contract!Answers

LEMMA GeneratingOutcomes ==
  ASSUME GeneratorInv, Generating
  PROVE  /\ phase \in {"warming", "measuring"}
         /\ \A t \in Trips :
              \/ outcome'[t] = outcome[t]
              \/ outcome[t] = "unissued" /\ outcome'[t] \in {"running", Overflow}
              \/ outcome[t] = "running" /\ outcome'[t] = "success" /\ answer[t] = "published"
              \/ outcome[t] = "running" /\ outcome'[t] \in AmbiguousOutcomes
<1> USE DEF GeneratorInv, GeneratorTypeOK
<1>1. CASE StartWarmup \/ Dispatch \/ Drop
  <2>1. next + 1 \in Trips /\ outcome[next + 1] = "unissued"
    BY <1>1 DEF StartWarmup, Dispatch, Drop, IssuedInv, Trips
  <2>2. \/ outcome' = [outcome EXCEPT ![next + 1] = "running"]
        \/ outcome' = [outcome EXCEPT ![next + 1] = Overflow]
    BY <1>1 DEF StartWarmup, Dispatch, Drop
  <2> QED BY <1>1, <2>1, <2>2 DEF StartWarmup, Dispatch, Drop
<1>2. CASE EndWarmup \/ StartMeasuring \/ LeaveGroup \/ Interrupt
  BY <1>2 DEF EndWarmup, StartMeasuring, LeaveGroup, Interrupt
<1>3. ASSUME NEW t \in Trips, NEW o, End(t, o)
      PROVE  /\ phase \in {"warming", "measuring"}
             /\ outcome[t] = "running" /\ outcome'[t] = o
             /\ \A u \in Trips \ {t} : outcome'[u] = outcome[u]
  BY <1>3 DEF End
<1>4. ASSUME NEW t \in Trips, Receive(t)
      PROVE  \/ End(t, "success") /\ answer[t] = "published"
             \/ End(t, "http_error")
  BY <1>4 DEF Receive, Answered
<1>5. ASSUME NEW t \in Trips, Disconnect(t) \/ ClientTimeOut(t)
      PROVE  End(t, "transport_error") \/ End(t, "timeout")
  BY <1>5 DEF Disconnect, ClientTimeOut, Answered, TimeOut
<1>6. CASE Generate
  BY <1>1, <1>2, <1>6 DEF Generate, Coroutine
<1>7. ASSUME NEW t \in Trips, Receive(t) \/ Disconnect(t) \/ ClientTimeOut(t)
      PROVE  /\ phase \in {"warming", "measuring"}
             /\ outcome[t] = "running"
             /\ \A u \in Trips \ {t} : outcome'[u] = outcome[u]
             /\ \/ outcome'[t] = "success" /\ answer[t] = "published"
                \/ outcome'[t] \in AmbiguousOutcomes
  BY <1>3, <1>4, <1>5, <1>7 DEF AmbiguousOutcomes
<1> QED BY <1>6, <1>7 DEF Generating

LEMMA ClientStep ==
  ASSUME TypeOK, GeneratorInv, ClientInv, [MeasurementNext]_vars
  PROVE  ClientInv'
<1>1. CASE Generating
  <2>1. UNCHANGED <<answer, appended>>
    BY <1>1, GeneratingIsNext DEF topicVars
  <2>2. \A t \in Trips :
          \/ outcome'[t] = outcome[t]
          \/ outcome[t] = "unissued" /\ outcome'[t] \in {"running", Overflow}
          \/ outcome[t] = "running" /\ outcome'[t] = "success" /\ answer[t] = "published"
          \/ outcome[t] = "running" /\ outcome'[t] \in AmbiguousOutcomes
    BY <1>1, GeneratingOutcomes
  <2>3. "running" \notin AmbiguousOutcomes /\ "unissued" \notin AmbiguousOutcomes
        /\ Overflow \notin AmbiguousOutcomes /\ "success" \notin AmbiguousOutcomes
        /\ Overflow # "success" /\ Overflow # "running" /\ Overflow # "unissued"
    BY DEF AmbiguousOutcomes, Overflow
  <2>4. \A t \in Trips : outcome'[t] = "success" => answer'[t] = "published"
    BY <2>1, <2>2, <2>3 DEF ClientInv
  <2>5. \A t \in appended' : outcome'[t] \notin {"unissued", Overflow}
    BY <2>1, <2>2, <2>3 DEF ClientInv, TypeOK
  <2>6. \A t \in Trips :
          outcome'[t] \in {"unissued", "running", Overflow, "success"} \cup AmbiguousOutcomes
    BY <2>2 DEF ClientInv
  <2> QED BY <2>1, <2>4, <2>5, <2>6 DEF ClientInv
<1>2. ASSUME NEW t \in Trips, NEW a \in Contract!Answers \ {"none"}, Replying(t, a)
      PROVE  ClientInv'
  <2>1. /\ UNCHANGED <<outcome, appended>> /\ outcome[t] = "running"
        /\ answer' = [answer EXCEPT ![t] = a]
        /\ a = "published" => t \in appended
    BY <1>2 DEF Replying, Reply, Contract!Reply, generatorVars
  <2> QED BY <2>1 DEF ClientInv, TypeOK
<1>3. ASSUME NEW t \in Trips, NEW c \in {"genuine", "envelope", "altered"}, Appending(t, c)
      PROVE  ClientInv'
  BY <1>3 DEF Appending, ClientInv, Sent, generatorVars
<1>4. ASSUME NEW p \in Partitions, Lose(p)
      PROVE  ClientInv'
  BY <1>4 DEF Lose, Fault, ClientInv, generatorVars
<1>5. CASE Driver
  BY <1>5, DriverKeeps DEF ClientInv, generatorVars, topicVars
<1>6. CASE UNCHANGED vars
  BY <1>6 DEF vars, ClientInv, generatorVars, topicVars
<1> QED BY <1>1, <1>2, <1>3, <1>4, <1>5, <1>6, Steps

(* A record more leaves the others where and as they are. *)
LEMMA PutRecords ==
  ASSUME MeasurementAssumption, TypeOK,
         NEW t \in Trips, NEW c \in {"genuine", "envelope", "altered"}, Put(t, c)
  PROVE  /\ \A u \in Trips : \A i : IsRecord(u, i) =>
              /\ IsRecord(u, i)'
              /\ log'[PartitionOf[u]][i] = log[PartitionOf[u]][i]
         /\ \A u \in Trips : \A i :
              IsRecord(u, i)' => \/ IsRecord(u, i)
                                 \/ u = t /\ i = Len(log[PartitionOf[t]]) + 1
<1>0. PartitionOf \in [Trips -> Partitions] /\ log \in [Partitions -> Seq(Records)]
  BY DEF MeasurementAssumption, TypeOK
<1>1. \A p \in Partitions :
        /\ Len(log[p]) \in Nat /\ Len(log'[p]) \in Nat
        /\ \A i \in 1 .. Len(log[p]) : log'[p][i] = log[p][i]
        /\ p # PartitionOf[t] => Len(log'[p]) = Len(log[p])
        /\ p = PartitionOf[t] => Len(log'[p]) = Len(log[p]) + 1
        /\ p = PartitionOf[t] => log'[p][Len(log[p]) + 1] = [trip |-> t, content |-> c]
  BY <1>0, PutLog
<1>2. ASSUME NEW u \in Trips, NEW i, IsRecord(u, i)
      PROVE  IsRecord(u, i)' /\ log'[PartitionOf[u]][i] = log[PartitionOf[u]][i]
  <2>1. PICK p \in Partitions : p = PartitionOf[u]
    BY <1>0
  <2>2. i \in 1 .. Len(log[p]) /\ log[p][i].trip = u
    BY <1>2, <2>1 DEF IsRecord
  <2>3. i \in 1 .. Len(log'[p]) /\ log'[p][i] = log[p][i]
    BY <1>1, <2>2
  <2> QED BY <2>1, <2>2, <2>3 DEF IsRecord
<1>3. ASSUME NEW u \in Trips, NEW i, IsRecord(u, i)'
      PROVE  IsRecord(u, i) \/ (u = t /\ i = Len(log[PartitionOf[t]]) + 1)
  <2>1. PICK p \in Partitions : p = PartitionOf[u]
    BY <1>0
  <2>2. i \in 1 .. Len(log'[p]) /\ log'[p][i].trip = u
    BY <1>3, <2>1 DEF IsRecord
  <2>3. CASE i \in 1 .. Len(log[p])
    BY <1>1, <2>1, <2>2, <2>3 DEF IsRecord
  <2>4. CASE i \notin 1 .. Len(log[p])
    <3>1. p = PartitionOf[t] /\ i = Len(log[p]) + 1
      BY <1>1, <2>2, <2>4
    <3>2. log'[p][i].trip = t
      BY <1>1, <3>1
    <3> QED BY <2>2, <3>1, <3>2
  <2> QED BY <2>3, <2>4
<1> QED BY <1>2, <1>3

LEMMA LogStep ==
  ASSUME MeasurementAssumption, TypeOK, LogInv, [MeasurementNext]_vars
  PROVE  LogInv'
<1> USE DEF TypeOK
<1>0. ASSUME UNCHANGED <<log, appended, faulted>> PROVE LogInv'
  BY <1>0 DEF LogInv, IsRecord
<1>1. CASE Generating
  BY <1>0, <1>1, GeneratingIsNext DEF topicVars
<1>2. ASSUME NEW t \in Trips, NEW a \in Contract!Answers \ {"none"}, Replying(t, a)
      PROVE  LogInv'
  BY <1>0, <1>2 DEF Replying, Reply, Contract!Reply
<1>3. ASSUME NEW t \in Trips, NEW c \in {"genuine", "envelope", "altered"}, Appending(t, c)
      PROVE  LogInv'
  <2>0. PartitionOf \in [Trips -> Partitions]
    BY DEF MeasurementAssumption
  <2>1. PICK p0 \in Partitions : p0 = PartitionOf[t]
    BY <2>0
  <2>2. PICK n \in Nat : n = Len(log[p0])
    BY <2>1
  <2>3. Put(t, c) /\ t \in appended' /\ appended \subseteq appended'
    BY <1>3 DEF Appending
  <2>4. \A p \in Partitions :
          /\ Len(log[p]) \in Nat /\ Len(log'[p]) \in Nat
          /\ \A i \in 1 .. Len(log[p]) : log'[p][i] = log[p][i]
          /\ p # PartitionOf[t] => Len(log'[p]) = Len(log[p])
          /\ p = PartitionOf[t] => Len(log'[p]) = Len(log[p]) + 1
          /\ p = PartitionOf[t] => log'[p][Len(log[p]) + 1] = [trip |-> t, content |-> c]
    BY <1>3, <2>3, PutLog
  <2>5. /\ Len(log'[p0]) = n + 1
        /\ log'[p0][n + 1].trip = t /\ log'[p0][n + 1].content = c
    BY <2>1, <2>2, <2>4
  <2>6. ASSUME NEW p \in Partitions, NEW i \in 1 .. Len(log'[p])
        PROVE  \/ i \in 1 .. Len(log[p]) /\ log'[p][i] = log[p][i]
               \/ p = p0 /\ i = n + 1
    <3>1. CASE p = p0
      BY <2>1, <2>2, <2>4, <2>5, <2>6, <3>1
    <3>2. CASE p # p0
      BY <2>1, <2>4, <2>6, <3>2
    <3> QED BY <3>1, <3>2
  <2>7. ASSUME NEW p \in Partitions, NEW i \in 1 .. Len(log'[p])
        PROVE  PartitionOf[log'[p][i].trip] = p /\ log'[p][i].trip \in appended'
    <3>1. CASE i \in 1 .. Len(log[p]) /\ log'[p][i] = log[p][i]
      BY <2>3, <3>1 DEF LogInv
    <3>2. CASE p = p0 /\ i = n + 1
      BY <2>1, <2>3, <2>5, <3>2
    <3> QED BY <2>6, <2>7, <3>1, <3>2
  <2>8. ASSUME ~faulted'
        PROVE  /\ ~faulted /\ t \notin appended /\ appended' = appended \cup {t}
               /\ c = "genuine"
    BY <1>3, <2>8 DEF Appending
  <2>9. \A u \in Trips : \A i : IsRecord(u, i) => IsRecord(u, i)'
    BY <2>3, PutRecords
  <2>10. \A u \in Trips : \A i : IsRecord(u, i)' => IsRecord(u, i) \/ (u = t /\ i = n + 1)
    BY <2>1, <2>2, <2>3, PutRecords
  <2>11. IsRecord(t, n + 1)'
    <3>1. n + 1 \in 1 .. Len(log'[p0]) /\ log'[p0][n + 1].trip = t
      BY <2>5
    <3> QED BY <2>1, <3>1 DEF IsRecord
  <2>12. t \notin appended => \A i : ~IsRecord(t, i)
    BY <2>1 DEF LogInv, IsRecord
  <2>13. ASSUME ~faulted', NEW u \in appended'
         PROVE  \E i \in Nat : IsRecord(u, i)'
    <3>1. CASE u = t
      BY <2>11, <3>1
    <3>2. CASE u # t
      BY <2>8, <2>9, <2>13, <3>2 DEF LogInv
    <3> QED BY <3>1, <3>2
  <2>14. ASSUME ~faulted', NEW u \in Trips, NEW i \in Nat, NEW j \in Nat,
                IsRecord(u, i)', IsRecord(u, j)'
         PROVE  i = j
    <3>1. CASE u = t
      <4>1. ~IsRecord(u, i) /\ ~IsRecord(u, j)
        BY <2>8, <2>12, <2>14, <3>1
      <4> QED BY <2>10, <2>14, <4>1
    <3>2. CASE u # t
      BY <2>8, <2>10, <2>14, <3>2 DEF LogInv
    <3> QED BY <3>1, <3>2
  <2>15. ASSUME ~faulted', NEW p \in Partitions, NEW i \in 1 .. Len(log'[p])
         PROVE  log'[p][i].content = "genuine"
    <3>1. CASE i \in 1 .. Len(log[p]) /\ log'[p][i] = log[p][i]
      BY <2>8, <2>15, <3>1 DEF LogInv
    <3>2. CASE p = p0 /\ i = n + 1
      BY <2>5, <2>8, <2>15, <3>2
    <3> QED BY <2>6, <2>15, <3>1, <3>2
  <2> QED BY <2>7, <2>13, <2>14, <2>15 DEF LogInv
<1>4. ASSUME NEW p \in Partitions, Lose(p)
      PROVE  LogInv'
  <2>1. faulted' /\ appended' = appended
    BY <1>4 DEF Lose, Fault
  <2>2. ASSUME NEW q \in Partitions, NEW i \in 1 .. Len(log'[q])
        PROVE  i \in 1 .. Len(log[q]) /\ log'[q][i] = log[q][i]
    <3>1. CASE q = p
      BY <1>4, <2>2, <3>1, LoseLog
    <3>2. CASE q # p
      BY <1>4, <2>2, <3>2, LoseLog
    <3> QED BY <3>1, <3>2
  <2>3. ASSUME NEW q \in Partitions, NEW i \in 1 .. Len(log'[q])
        PROVE  PartitionOf[log'[q][i].trip] = q /\ log'[q][i].trip \in appended'
    BY <2>1, <2>2, <2>3 DEF LogInv
  <2> QED BY <2>1, <2>3 DEF LogInv
<1>5. CASE Driver
  BY <1>0, <1>5, DriverKeeps DEF topicVars
<1>6. CASE UNCHANGED vars
  BY <1>0, <1>6 DEF vars, topicVars
<1> QED BY <1>1, <1>2, <1>3, <1>4, <1>5, <1>6, Steps

LEMMA EndsStep ==
  ASSUME MeasurementAssumption, TypeOK, GeneratorInv, ClientInv, LogInv, EndsInv,
         [MeasurementNext]_vars
  PROVE  EndsInv'
<1> USE DEF TypeOK
<1>0. ASSUME UNCHANGED <<phase, answer, log, faulted, readback, ends>> PROVE EndsInv'
  BY <1>0 DEF EndsInv, IsRecord
<1>p. PartitionOf \in [Trips -> Partitions]
  BY DEF MeasurementAssumption
<1>1. CASE Generating
  <2>1. DOMAIN ends = {} /\ readback = "idle"
    BY <1>1, GeneratingOutcomes DEF EndsInv
  <2>2. UNCHANGED <<ends, readback>>
    BY <1>1, GeneratingIsNext DEF readbackVars
  <2> QED BY <2>1, <2>2 DEF EndsInv
<1>2. ASSUME NEW t \in Trips, NEW a \in Contract!Answers \ {"none"}, Replying(t, a)
      PROVE  EndsInv'
  <2>1. UNCHANGED <<ends, readback>> /\ outcome[t] = "running"
    BY <1>2 DEF Replying, Reply, readbackVars
  <2>2. phase # "measured"
    BY <2>1, SamplesHold, OutcomesDiffer DEF EverySampleOnce
  <2>3. DOMAIN ends = {} /\ readback = "idle"
    BY <2>2 DEF EndsInv
  <2> QED BY <2>1, <2>3 DEF EndsInv
<1>3. ASSUME NEW t \in Trips, NEW c \in {"genuine", "envelope", "altered"}, Appending(t, c)
      PROVE  EndsInv'
  <2>1. /\ UNCHANGED <<phase, answer, readback, ends>> /\ Put(t, c)
        /\ faulted => faulted' /\ t \notin appended
    BY <1>3 DEF Appending, generatorVars, readbackVars
  <2>2. /\ \A u \in Trips : \A i : IsRecord(u, i) => IsRecord(u, i)'
        /\ \A u \in Trips : \A i : IsRecord(u, i)' => IsRecord(u, i) \/ u = t
    BY <2>1, PutRecords
  <2>3. t \notin appended => answer[t] # "published"
    BY DEF ClientInv
  <2>4. ASSUME NEW u \in Trips, answer'[u] = "published", PartitionOf[u] \in DOMAIN ends'
        PROVE  \/ \E i \in Nat : IsRecord(u, i)' /\ i <= ends'[PartitionOf[u]]
               \/ faulted' /\ \A i \in Nat : ~IsRecord(u, i)'
    <3>1. \/ \E i \in Nat : IsRecord(u, i) /\ i <= ends[PartitionOf[u]]
          \/ faulted /\ \A i \in Nat : ~IsRecord(u, i)
      BY <2>1, <2>4 DEF EndsInv
    <3>2. CASE \E i \in Nat : IsRecord(u, i) /\ i <= ends[PartitionOf[u]]
      BY <2>1, <2>2, <3>2
    <3>3. CASE faulted /\ \A i \in Nat : ~IsRecord(u, i)
      BY <2>1, <2>2, <2>3, <2>4, <3>3
    <3> QED BY <3>1, <3>2, <3>3
  <2> QED BY <2>1, <2>4 DEF EndsInv
<1>4. ASSUME NEW p \in Partitions, Lose(p)
      PROVE  EndsInv'
  <2>1. UNCHANGED <<phase, answer, readback, ends>> /\ ~faulted /\ faulted'
    BY <1>4 DEF Lose, Fault, generatorVars, readbackVars
  <2>2. ASSUME NEW u \in Trips, NEW i, IsRecord(u, i)'
        PROVE  IsRecord(u, i)
    <3>1. PICK q \in Partitions : q = PartitionOf[u]
      BY <1>p
    <3>2. i \in 1 .. Len(log'[q]) /\ log'[q][i].trip = u
      BY <2>2, <3>1 DEF IsRecord
    <3>3. i \in 1 .. Len(log[q]) /\ log'[q][i] = log[q][i]
      <4>1. CASE q = p
        BY <1>4, <3>2, <4>1, LoseLog
      <4>2. CASE q # p
        BY <1>4, <3>2, <4>2, LoseLog
      <4> QED BY <4>1, <4>2
    <3> QED BY <3>1, <3>2, <3>3 DEF IsRecord
  <2>3. ASSUME NEW u \in Trips, answer'[u] = "published", PartitionOf[u] \in DOMAIN ends'
        PROVE  \/ \E i \in Nat : IsRecord(u, i)' /\ i <= ends'[PartitionOf[u]]
               \/ faulted' /\ \A i \in Nat : ~IsRecord(u, i)'
    <3>1. PICK i \in Nat : IsRecord(u, i) /\ i <= ends[PartitionOf[u]]
      BY <2>1, <2>3 DEF EndsInv
    <3>2. \A j \in Nat : IsRecord(u, j)' => j = i
      BY <2>1, <2>2, <3>1 DEF LogInv
    <3> QED BY <2>1, <3>1, <3>2
  <2> QED BY <2>1, <2>3 DEF EndsInv
<1>5. CASE Driver
  <2>u. UNCHANGED <<phase, answer, appended, log, faulted>>
    BY <1>5, DriverKeeps DEF generatorVars, topicVars
  <2>1. ASSUME NEW p \in Partitions, ReadWatermark(p) PROVE EndsInv'
    <3>1. /\ phase = "measured" /\ readback = "idle" /\ readback' = readback
          /\ ends' = [q \in DOMAIN ends \cup {p} |-> IF q = p THEN Len(log[p]) ELSE ends[q]]
          /\ p \notin DOMAIN ends
      BY <2>1 DEF ReadWatermark
    <3>2. \A q \in DOMAIN ends : ends'[q] = ends[q]
      BY <3>1
    <3>3. DOMAIN ends' = DOMAIN ends \cup {p} /\ ends'[p] = Len(log[p])
      BY <3>1
    <3>4. ASSUME NEW u \in Trips, answer'[u] = "published", PartitionOf[u] \in DOMAIN ends'
          PROVE  \/ \E i \in Nat : IsRecord(u, i)' /\ i <= ends'[PartitionOf[u]]
                 \/ faulted' /\ \A i \in Nat : ~IsRecord(u, i)'
      <4>0. \A i : IsRecord(u, i)' <=> IsRecord(u, i)
        BY <2>u DEF IsRecord
      <4>1. CASE PartitionOf[u] \in DOMAIN ends
        <5>1. \/ \E i \in Nat : IsRecord(u, i) /\ i <= ends[PartitionOf[u]]
              \/ faulted /\ \A i \in Nat : ~IsRecord(u, i)
          BY <2>u, <3>4, <4>1 DEF EndsInv
        <5>2. ends'[PartitionOf[u]] = ends[PartitionOf[u]]
          BY <3>2, <4>1
        <5> QED BY <2>u, <4>0, <5>1, <5>2
      <4>2. CASE PartitionOf[u] = p
        <5>1. \A i \in Nat : IsRecord(u, i) => i <= Len(log[p])
          BY <4>2 DEF IsRecord
        <5>2. ~faulted => \E i \in Nat : IsRecord(u, i)
          BY <2>u, <3>4 DEF LogInv, ClientInv
        <5> QED BY <2>u, <3>3, <4>0, <4>2, <5>1, <5>2
      <4> QED BY <3>3, <3>4, <4>1, <4>2
    <3> QED BY <2>u, <3>1, <3>3, <3>4 DEF EndsInv
  <2>2. CASE StartConsuming
    <3>1. /\ DOMAIN ends = Partitions /\ UNCHANGED ends
          /\ \A i, u : IsRecord(u, i)' <=> IsRecord(u, i)
      BY <2>2, <2>u DEF StartConsuming, IsRecord
    <3>2. Partitions # {}
      BY <1>p, LoadGeneratorAssumption DEF Trips
    <3> QED BY <2>2, <2>u, <3>1, <3>2 DEF EndsInv
  <2>3. CASE \/ \E p \in Partitions : Consume(p)
             \/ FinishReadback \/ ExpireReadback
    <3>1. readback # "idle" /\ UNCHANGED ends
          /\ \A i, u : IsRecord(u, i)' <=> IsRecord(u, i)
      BY <2>3, <2>u DEF Consume, FinishReadback, ExpireReadback, IsRecord
    <3> QED BY <2>u, <3>1 DEF EndsInv
  <2> QED BY <1>5, <2>1, <2>2, <2>3 DEF Driver
<1>6. CASE UNCHANGED vars
  BY <1>0, <1>6 DEF vars, generatorVars, topicVars, readbackVars
<1> QED BY <1>1, <1>2, <1>3, <1>4, <1>5, <1>6, Steps

(* What the readback has noted is what it consumed.                        *)
IsRead(t, i) == IsRecord(t, i) /\ i <= positions[PartitionOf[t]]

Genuine(t, i) == log[PartitionOf[t]][i].content = "genuine"

ReadInv ==
  /\ \A p \in Partitions : positions[p] <= Len(log[p])
  /\ readback = "idle" => \A p \in Partitions : positions[p] = 0
  /\ \A t \in Trips : seen[t] = 0 => \A i \in Nat : ~IsRead(t, i)
  /\ \A t \in Trips : seen[t] <= 1 =>
       \A i, j \in Nat : IsRead(t, i) /\ IsRead(t, j) => i = j
  /\ \A t \in matched : outcome[t] = "success" /\ \E i \in Nat : IsRead(t, i) /\ Genuine(t, i)
  /\ readback = "passed" =>
       /\ matched = Successes
       /\ \A t \in Trips : seen[t] <= 1
       /\ \A p \in Partitions : positions[p] >= ends[p]

(* Without a fault it has noted nothing else, and nothing is against it.   *)
FaultlessInv ==
  ~faulted =>
    /\ readback # "failed"
    /\ ~mismatched
    /\ \A t \in Trips : seen[t] <= 1
    /\ \A t \in Trips : seen[t] = 1 => \E i \in Nat : IsRead(t, i)
    /\ \A t \in Successes : \A i \in Nat : IsRead(t, i) => t \in matched

(* What a step that consumes a record does, the record being t's.          *)
Consuming(p, t, i) ==
  /\ readback = "reading" /\ Unfinished
  /\ i = positions[p] + 1 /\ i \in 1 .. Len(log[p])
  /\ t = log[p][i].trip
  /\ positions' = [positions EXCEPT ![p] = i]
  /\ seen' = [seen EXCEPT ![t] = @ + 1]
  /\ matched' = IF Matches(log[p][i]) THEN matched \cup {t} ELSE matched
  /\ mismatched' = (mismatched \/ ~(Matches(log[p][i]) \/ (log[p][i].content # "envelope"
                                      /\ outcome[t] \in AmbiguousOutcomes)))
  /\ UNCHANGED <<generatorVars, outage, topicVars, readback, ends>>

LEMMA ConsumeIs ==
  ASSUME MeasurementAssumption, TypeOK, LogInv, NEW p \in Partitions, Consume(p)
  PROVE  \E t \in Trips, i \in Nat : /\ Consuming(p, t, i) /\ PartitionOf[t] = p
                                    /\ IsRecord(t, i) /\ t \in appended
<1> USE DEF TypeOK
<1>1. positions[p] \in Nat /\ Len(log[p]) \in Nat /\ positions[p] < Len(log[p])
      /\ log[p] \in Seq(Records)
  BY DEF Consume
<1>2. PICK i \in Nat : i = positions[p] + 1
  BY <1>1
<1>3. i \in 1 .. Len(log[p]) /\ positions' = [positions EXCEPT ![p] = i] /\ positions'[p] = i
  BY <1>1, <1>2 DEF Consume
<1>4. PICK r \in Records : r = log[p][i]
  BY <1>1, <1>3
<1>5. PICK t \in Trips : t = r.trip
  BY DEF Records
<1>6. PartitionOf[t] = p /\ t \in appended
  BY <1>3, <1>4, <1>5 DEF LogInv
<1>7. /\ seen' = [seen EXCEPT ![t] = @ + 1]
      /\ matched' = IF Matches(r) THEN matched \cup {t} ELSE matched
      /\ mismatched' = (mismatched \/ ~(Matches(r) \/ (r.content # "envelope"
                                         /\ outcome[t] \in AmbiguousOutcomes)))
  BY <1>3, <1>4, <1>5 DEF Consume
<1>8. Consuming(p, t, i)
  BY <1>2, <1>3, <1>4, <1>5, <1>7 DEF Consume, Consuming
<1>9. IsRecord(t, i)
  BY <1>3, <1>4, <1>5, <1>6 DEF IsRecord
<1> QED BY <1>6, <1>8, <1>9

(* Consuming adds one record to what has been read. *)
LEMMA ReadRecordsGrow ==
  ASSUME MeasurementAssumption, TypeOK, NEW p \in Partitions, NEW t \in Trips, NEW i \in Nat,
         Consuming(p, t, i), PartitionOf[t] = p, IsRecord(t, i)
  PROVE  /\ IsRead(t, i)'
         /\ \A u \in Trips, j \in Nat : IsRead(u, j) => IsRead(u, j)'
         /\ \A u \in Trips, j \in Nat : IsRead(u, j)' => IsRead(u, j) \/ (u = t /\ j = i)
         /\ \A u \in Trips, j \in Nat : Genuine(u, j)' <=> Genuine(u, j)
         /\ ~IsRead(t, i)
<1>0. PartitionOf \in [Trips -> Partitions] /\ positions \in [Partitions -> Nat]
  BY DEF MeasurementAssumption, TypeOK
<1>1. log' = log /\ positions' = [positions EXCEPT ![p] = i] /\ i = positions[p] + 1
  BY DEF Consuming, topicVars
<1>2. positions'[p] = i /\ \A q \in Partitions : q # p => positions'[q] = positions[q]
  BY <1>0, <1>1
<1>3. \A u \in Trips, j \in Nat : IsRecord(u, j)' <=> IsRecord(u, j)
  BY <1>1 DEF IsRecord
<1>4. IsRead(t, i)' /\ ~IsRead(t, i)
  BY <1>0, <1>1, <1>2, <1>3 DEF IsRead
<1>5. ASSUME NEW u \in Trips, NEW j \in Nat
      PROVE  IsRead(u, j)' <=> IsRead(u, j) \/ (u = t /\ j = i)
  <2>1. CASE PartitionOf[u] # p
    <3>1. positions'[PartitionOf[u]] = positions[PartitionOf[u]] /\ u # t
      BY <1>0, <1>2, <2>1
    <3> QED BY <1>3, <3>1 DEF IsRead
  <2>2. CASE PartitionOf[u] = p
    <3>1. j <= i <=> j <= positions[p] \/ j = i
      BY <1>0, <1>1
    <3>2. IsRecord(u, i) => u = t
      BY <2>2 DEF IsRecord
    <3>3. IsRead(u, j)' <=> IsRecord(u, j) /\ j <= i
      BY <1>2, <1>3, <2>2 DEF IsRead
    <3>4. IsRead(u, j) <=> IsRecord(u, j) /\ j <= positions[p]
      BY <2>2 DEF IsRead
    <3> QED BY <3>1, <3>2, <3>3, <3>4
  <2> QED BY <2>1, <2>2
<1>6. \A u \in Trips, j \in Nat : Genuine(u, j)' <=> Genuine(u, j)
  BY <1>1 DEF Genuine
<1> QED BY <1>4, <1>5, <1>6

LEMMA ReadStep ==
  ASSUME MeasurementAssumption, TypeOK, GeneratorInv, ClientInv, LogInv, EndsInv, ReadInv,
         [MeasurementNext]_vars
  PROVE  ReadInv'
<1> USE DEF TypeOK
<1>0. ASSUME UNCHANGED <<outcome, log, readbackVars>> PROVE ReadInv'
  BY <1>0 DEF ReadInv, IsRead, IsRecord, Genuine, readbackVars, Successes
<1>p. PartitionOf \in [Trips -> Partitions]
  BY DEF MeasurementAssumption
<1>1. CASE Generating
  <2>1. readback = "idle"
    BY <1>1, <1>p, GeneratingOutcomes, LoadGeneratorAssumption DEF EndsInv
  <2>2. UNCHANGED <<log, readbackVars>>
    BY <1>1, GeneratingIsNext DEF topicVars
  <2>3. \A t \in Trips, i \in Nat : ~IsRead(t, i)
    BY <1>p, <2>1 DEF ReadInv, IsRead, IsRecord
  <2>4. matched = {}
    BY <2>3 DEF ReadInv
  <2> QED BY <2>1, <2>2, <2>4 DEF ReadInv, IsRead, IsRecord, readbackVars
<1>2. ASSUME NEW t \in Trips, NEW a \in Contract!Answers \ {"none"}, Replying(t, a)
      PROVE  ReadInv'
  BY <1>0, <1>2 DEF Replying, Reply, generatorVars
<1>3. ASSUME NEW t \in Trips, NEW c \in {"genuine", "envelope", "altered"}, Appending(t, c)
      PROVE  ReadInv'
  <2>1. /\ UNCHANGED <<outcome, readback, ends, positions, seen, matched>> /\ Put(t, c)
        /\ Successes' = Successes
    BY <1>3 DEF Appending, generatorVars, readbackVars, Successes
  <2>2. ASSUME NEW p \in Partitions PROVE positions'[p] <= Len(log'[p])
    <3>1. /\ Len(log[p]) \in Nat /\ Len(log'[p]) \in Nat
          /\ Len(log'[p]) = Len(log[p]) \/ Len(log'[p]) = Len(log[p]) + 1
      BY <1>3, <2>1, PutLog
    <3>2. positions[p] \in Nat /\ positions[p] <= Len(log[p]) /\ positions'[p] = positions[p]
      BY <2>1 DEF ReadInv
    <3> QED BY <3>1, <3>2
  <2>3. /\ \A u \in Trips : \A i : IsRecord(u, i) =>
             /\ IsRecord(u, i)'
             /\ log'[PartitionOf[u]][i] = log[PartitionOf[u]][i]
        /\ \A u \in Trips : \A i :
             IsRecord(u, i)' => IsRecord(u, i) \/ (u = t /\ i = Len(log[PartitionOf[t]]) + 1)
    BY <2>1, PutRecords
  <2>4. positions[PartitionOf[t]] <= Len(log[PartitionOf[t]])
        /\ positions[PartitionOf[t]] \in Nat /\ Len(log[PartitionOf[t]]) \in Nat
    BY <1>p DEF ReadInv
  <2>5. ASSUME NEW u \in Trips, NEW i \in Nat
        PROVE  /\ IsRead(u, i)' <=> IsRead(u, i)
               /\ IsRead(u, i) => (Genuine(u, i)' <=> Genuine(u, i))
    BY <2>1, <2>3, <2>4 DEF IsRead, Genuine
  <2> QED BY <2>1, <2>2, <2>5 DEF ReadInv
<1>4. ASSUME NEW p \in Partitions, Lose(p)
      PROVE  ReadInv'
  <2>1. readback = "idle" /\ UNCHANGED <<generatorVars, readbackVars>>
    BY <1>4 DEF Lose, Fault
  <2>2. \A t \in Trips, i \in Nat : ~IsRead(t, i)
    BY <1>p, <2>1 DEF ReadInv, IsRead, IsRecord
  <2>3. matched = {}
    BY <2>2 DEF ReadInv
  <2>4. \A q \in Partitions : positions'[q] = 0 /\ Len(log'[q]) \in Nat
    BY <1>4, <2>1, LoseLog DEF ReadInv, readbackVars
  <2>5. \A t \in Trips, i \in Nat : ~IsRead(t, i)'
    BY <1>p, <2>4 DEF IsRead, IsRecord
  <2> QED BY <2>1, <2>3, <2>4, <2>5 DEF ReadInv, readbackVars
<1>5. ASSUME NEW p \in Partitions, Consume(p)
      PROVE  ReadInv'
  <2>1. PICK t \in Trips, i \in Nat : /\ Consuming(p, t, i) /\ PartitionOf[t] = p
                                      /\ IsRecord(t, i) /\ t \in appended
    BY <1>5, ConsumeIs
  <2>2. /\ IsRead(t, i)' /\ ~IsRead(t, i)
        /\ \A u \in Trips, j \in Nat : IsRead(u, j) => IsRead(u, j)'
        /\ \A u \in Trips, j \in Nat : IsRead(u, j)' => IsRead(u, j) \/ (u = t /\ j = i)
        /\ \A u \in Trips, j \in Nat : Genuine(u, j)' <=> Genuine(u, j)
    BY <2>1, ReadRecordsGrow
  <2>3. /\ readback = "reading" /\ readback' = "reading"
        /\ UNCHANGED <<outcome, log>>
        /\ positions' = [positions EXCEPT ![p] = i] /\ i <= Len(log[p])
        /\ seen' = [seen EXCEPT ![t] = seen[t] + 1]
        /\ matched' = IF Matches(log[p][i]) THEN matched \cup {t} ELSE matched
        /\ t = log[p][i].trip
    BY <2>1 DEF Consuming, generatorVars, topicVars
  <2>4. \A q \in Partitions : positions'[q] <= Len(log'[q])
    BY <2>3 DEF ReadInv
  <2>5. /\ seen[t] \in Nat /\ seen'[t] = seen[t] + 1
        /\ \A u \in Trips \ {t} : seen'[u] = seen[u]
    BY <2>3
  <2>6. ASSUME NEW u \in Trips, seen'[u] = 0, NEW j \in Nat
        PROVE  ~IsRead(u, j)'
    <3>1. u # t /\ seen[u] = 0
      BY <2>5, <2>6
    <3>2. ~IsRead(u, j)
      BY <3>1 DEF ReadInv
    <3> QED BY <2>2, <3>1, <3>2
  <2>7. ASSUME NEW u \in Trips, seen'[u] <= 1, NEW j \in Nat, NEW k \in Nat,
               IsRead(u, j)', IsRead(u, k)'
        PROVE  j = k
    <3>1. CASE u = t
      <4>1. seen[t] = 0
        BY <2>5, <2>7, <3>1
      <4>2. ~IsRead(u, j) /\ ~IsRead(u, k)
        BY <3>1, <4>1 DEF ReadInv
      <4> QED BY <2>2, <2>7, <4>2
    <3>2. CASE u # t
      BY <2>2, <2>5, <2>7, <3>2 DEF ReadInv
    <3> QED BY <3>1, <3>2
  <2>8. Matches(log[p][i]) => outcome[t] = "success" /\ Genuine(t, i)
    BY <2>1, <2>3 DEF Matches, Genuine
  <2>9. ASSUME NEW u \in matched'
        PROVE  outcome'[u] = "success" /\ \E j \in Nat : IsRead(u, j)' /\ Genuine(u, j)'
    <3>1. CASE u \in matched
      BY <2>2, <2>3, <3>1 DEF ReadInv
    <3>2. CASE u = t /\ Matches(log[p][i])
      BY <2>2, <2>3, <2>8, <3>2
    <3> QED BY <2>3, <2>9, <3>1, <3>2
  <2> QED BY <2>3, <2>4, <2>6, <2>7, <2>9 DEF ReadInv
<1>6. CASE StartConsuming \/ FinishReadback \/ ExpireReadback \/ \E p \in Partitions : ReadWatermark(p)
  <2>1. UNCHANGED <<outcome, log, positions, seen, matched>> /\ Successes' = Successes
        /\ (readback' = "idle" => readback = "idle")
    BY <1>6 DEF StartConsuming, FinishReadback, ExpireReadback, ReadWatermark,
                generatorVars, topicVars, Successes
  <2>2. /\ \A t, i : IsRead(t, i)' <=> IsRead(t, i)
        /\ \A t, i : Genuine(t, i)' <=> Genuine(t, i)
    BY <2>1 DEF IsRead, IsRecord, Genuine
  <2>3. ASSUME readback' = "passed"
        PROVE  /\ matched' = Successes'
               /\ \A t \in Trips : seen'[t] <= 1
               /\ \A p \in Partitions : positions'[p] >= ends'[p]
    <3>1. FinishReadback
      BY <1>6, <2>3 DEF StartConsuming, ExpireReadback, ReadWatermark
    <3>2. DOMAIN ends = Partitions /\ ends' = ends /\ Checks
          /\ \A p \in Partitions : ~(positions[p] < ends[p])
      BY <2>3, <3>1 DEF FinishReadback, EndsInv, Unfinished
    <3>3. ASSUME NEW p \in Partitions PROVE positions[p] >= ends[p]
      <4>1. ends[p] \in Nat /\ positions[p] \in Nat
        BY <3>2
      <4> QED BY <3>2, <4>1
    <3> QED BY <2>1, <3>2, <3>3 DEF Checks
  <2>4. \A p \in Partitions : positions'[p] <= Len(log'[p])
    BY <2>1 DEF ReadInv
  <2>5. \A t \in matched' : outcome'[t] = "success" /\ \E i \in Nat : IsRead(t, i)' /\ Genuine(t, i)'
    BY <2>1, <2>2 DEF ReadInv
  <2>6. readback' = "idle" => \A p \in Partitions : positions'[p] = 0
    BY <2>1 DEF ReadInv
  <2>7. ASSUME NEW t \in Trips
        PROVE  /\ seen'[t] = 0 => \A i \in Nat : ~IsRead(t, i)'
               /\ seen'[t] <= 1 =>
                    \A i, j \in Nat : IsRead(t, i)' /\ IsRead(t, j)' => i = j
    BY <2>1, <2>2 DEF ReadInv
  <2> QED BY <2>3, <2>4, <2>5, <2>6, <2>7 DEF ReadInv
<1>7. CASE UNCHANGED vars
  BY <1>0, <1>7 DEF vars, generatorVars, topicVars
<1> QED BY <1>1, <1>2, <1>3, <1>4, <1>5, <1>6, <1>7, Steps DEF Driver

LEMMA FaultlessStep ==
  ASSUME MeasurementAssumption, TypeOK, GeneratorInv, ClientInv, LogInv, EndsInv, ReadInv,
         FaultlessInv, [MeasurementNext]_vars
  PROVE  FaultlessInv'
<1> USE DEF TypeOK
<1> SUFFICES ASSUME ~faulted'
             PROVE  FaultlessInv'
  BY DEF FaultlessInv
<1>p. PartitionOf \in [Trips -> Partitions]
  BY DEF MeasurementAssumption
<1>0. ASSUME UNCHANGED <<outcome, log, faulted, readbackVars>> PROVE FaultlessInv'
  BY <1>0 DEF FaultlessInv, IsRead, IsRecord, readbackVars, Successes
<1>1. CASE Generating
  <2>1. readback = "idle"
    BY <1>1, <1>p, GeneratingOutcomes, LoadGeneratorAssumption DEF EndsInv
  <2>2. UNCHANGED <<log, faulted, readbackVars>>
    BY <1>1, GeneratingIsNext DEF topicVars
  <2>3. \A t \in Trips, i \in Nat : ~IsRead(t, i) /\ ~IsRead(t, i)'
    BY <1>p, <2>1, <2>2 DEF ReadInv, IsRead, IsRecord, readbackVars
  <2>4. Successes' \subseteq Trips
    BY DEF Successes
  <2> QED BY <2>1, <2>2, <2>3, <2>4 DEF FaultlessInv, readbackVars
<1>2. ASSUME NEW t \in Trips, NEW a \in Contract!Answers \ {"none"}, Replying(t, a)
      PROVE  FaultlessInv'
  BY <1>0, <1>2 DEF Replying, Reply, generatorVars
<1>3. ASSUME NEW t \in Trips, NEW c \in {"genuine", "envelope", "altered"}, Appending(t, c)
      PROVE  FaultlessInv'
  <2>1. /\ UNCHANGED <<outcome, readbackVars>> /\ Put(t, c) /\ ~faulted
        /\ Successes' = Successes /\ Successes \subseteq Trips
    BY <1>3 DEF Appending, generatorVars, Successes
  <2>2. /\ \A u \in Trips : \A i : IsRecord(u, i) => IsRecord(u, i)'
        /\ \A u \in Trips : \A i :
             IsRecord(u, i)' => IsRecord(u, i) \/ (u = t /\ i = Len(log[PartitionOf[t]]) + 1)
    BY <1>3, <2>1, PutRecords
  <2>3. positions[PartitionOf[t]] <= Len(log[PartitionOf[t]])
        /\ positions[PartitionOf[t]] \in Nat /\ Len(log[PartitionOf[t]]) \in Nat
    BY <1>p DEF ReadInv
  <2>4. \A u \in Trips, i \in Nat : IsRead(u, i)' <=> IsRead(u, i)
    BY <2>1, <2>2, <2>3 DEF IsRead, readbackVars
  <2> QED BY <2>1, <2>4 DEF FaultlessInv, readbackVars
<1>4. ASSUME NEW p \in Partitions, Lose(p)
      PROVE  FaultlessInv'
  BY <1>4 DEF Lose, Fault
<1>5. ASSUME NEW p \in Partitions, Consume(p)
      PROVE  FaultlessInv'
  <2>1. PICK t \in Trips, i \in Nat : /\ Consuming(p, t, i) /\ PartitionOf[t] = p
                                      /\ IsRecord(t, i) /\ t \in appended
    BY <1>5, ConsumeIs
  <2>2. /\ IsRead(t, i)' /\ ~IsRead(t, i)
        /\ \A u \in Trips, j \in Nat : IsRead(u, j) => IsRead(u, j)'
        /\ \A u \in Trips, j \in Nat : IsRead(u, j)' => IsRead(u, j) \/ (u = t /\ j = i)
    BY <2>1, ReadRecordsGrow
  <2>3. /\ readback = "reading" /\ readback' = "reading" /\ ~faulted
        /\ outcome' = outcome /\ phase = "measured" /\ i \in 1 .. Len(log[p])
        /\ seen' = [seen EXCEPT ![t] = seen[t] + 1]
        /\ matched' = IF Matches(log[p][i]) THEN matched \cup {t} ELSE matched
        /\ mismatched' = (mismatched \/ ~(Matches(log[p][i]) \/ (log[p][i].content # "envelope"
                                          /\ outcome[t] \in AmbiguousOutcomes)))
        /\ t = log[p][i].trip
    BY <2>1 DEF Consuming, generatorVars, topicVars, EndsInv
  <2>4. log[p][i].content = "genuine"
    BY <2>3 DEF LogInv
  <2>5. outcome[t] \in {"success"} \cup AmbiguousOutcomes
    BY <2>1, <2>3, SamplesHold, OutcomesDiffer DEF ClientInv, EverySampleOnce
  <2>6. ~mismatched'
    BY <2>3, <2>4, <2>5 DEF FaultlessInv, Matches
  <2>7. outcome[t] = "success" => matched' = matched \cup {t}
    BY <2>3, <2>4 DEF Matches
  <2>8. seen[t] = 0
    <3>1. seen[t] <= 1 /\ seen[t] \in Nat
      BY <2>3 DEF FaultlessInv
    <3>2. seen[t] # 1
      <4>1. ASSUME seen[t] = 1 PROVE FALSE
        <5>1. PICK j \in Nat : IsRead(t, j)
          BY <2>3, <4>1 DEF FaultlessInv
        <5>2. IsRecord(t, j) /\ IsRecord(t, i) => j = i
          BY <2>3 DEF LogInv
        <5> QED BY <2>1, <2>2, <5>1, <5>2 DEF IsRead
      <4> QED BY <4>1
    <3> QED BY <3>1, <3>2
  <2>9. seen'[t] = 1 /\ \A u \in Trips \ {t} : seen'[u] = seen[u]
    BY <2>3, <2>8
  <2>10. ASSUME NEW u \in Trips
         PROVE  seen'[u] <= 1 /\ (seen'[u] = 1 => \E j \in Nat : IsRead(u, j)')
    BY <2>2, <2>3, <2>9 DEF FaultlessInv
  <2>11. ASSUME NEW u \in Successes', NEW j \in Nat, IsRead(u, j)'
         PROVE  u \in matched'
    <3>1. u \in Trips /\ u \in Successes /\ outcome[u] = "success"
      BY <2>3 DEF Successes
    <3>2. CASE u = t
      BY <2>7, <3>1, <3>2
    <3>3. CASE u # t
      BY <2>2, <2>3, <2>11, <3>1, <3>3 DEF FaultlessInv
    <3> QED BY <3>2, <3>3
  <2> QED BY <2>3, <2>6, <2>10, <2>11 DEF FaultlessInv
<1>6. CASE FinishReadback
  <2>1. /\ UNCHANGED <<outcome, log, faulted, positions, seen, matched, mismatched>>
        /\ Successes' = Successes /\ ~faulted /\ ~Unfinished
        /\ readback' = IF Checks THEN "passed" ELSE "failed"
        /\ DOMAIN ends = Partitions
    BY <1>6 DEF FinishReadback, generatorVars, topicVars, Successes, EndsInv
  <2>2. \A t, i : IsRead(t, i)' <=> IsRead(t, i)
    BY <2>1 DEF IsRead, IsRecord
  <2>3. ASSUME NEW t \in Successes PROVE t \in matched
    <3>1. t \in Trips /\ answer[t] = "published"
      BY <2>3 DEF Successes, ClientInv
    <3>2. PICK i \in Nat : IsRecord(t, i) /\ i <= ends[PartitionOf[t]]
      BY <1>p, <2>1, <3>1 DEF EndsInv
    <3>3. /\ ~(positions[PartitionOf[t]] < ends[PartitionOf[t]])
          /\ positions[PartitionOf[t]] \in Nat /\ ends[PartitionOf[t]] \in Nat
      BY <1>p, <2>1, <3>1 DEF Unfinished
    <3>4. IsRead(t, i)
      BY <3>2, <3>3 DEF IsRead
    <3> QED BY <2>1, <2>3, <3>4 DEF FaultlessInv
  <2>4. matched \subseteq Successes
    BY DEF ReadInv, Successes
  <2>5. Checks
    BY <2>1, <2>3, <2>4 DEF Checks, FaultlessInv
  <2> QED BY <2>1, <2>2, <2>5 DEF FaultlessInv
<1>7. CASE StartConsuming \/ ExpireReadback \/ \E p \in Partitions : ReadWatermark(p)
  <2>1. /\ UNCHANGED <<outcome, log, faulted, positions, seen, matched, mismatched>>
        /\ Successes' = Successes /\ (readback' = "failed" => readback = "failed")
    BY <1>7 DEF StartConsuming, ExpireReadback, ReadWatermark, generatorVars, topicVars, Successes
  <2>2. \A t, i : IsRead(t, i)' <=> IsRead(t, i)
    BY <2>1 DEF IsRead, IsRecord
  <2> QED BY <2>1, <2>2 DEF FaultlessInv
<1>8. CASE UNCHANGED vars
  BY <1>0, <1>8 DEF vars, generatorVars, topicVars
<1> QED BY <1>1, <1>2, <1>3, <1>4, <1>5, <1>6, <1>7, <1>8, Steps DEF Driver

------------------------------------------------------------------------------
(* The theorems.                                                           *)

MeasurementInv ==
  TypeOK /\ GeneratorInv /\ ClientInv /\ LogInv /\ EndsInv /\ ReadInv /\ FaultlessInv

LEMMA MeasurementInvInit == MeasurementAssumption /\ MeasurementInit => MeasurementInv
<1> SUFFICES ASSUME MeasurementAssumption, MeasurementInit
             PROVE  MeasurementInv
  OBVIOUS
<1>0. \A p \in Partitions : log[p] = <<>> /\ Len(log[p]) = 0 /\ positions[p] = 0
  BY DEF MeasurementInit
<1>p. PartitionOf \in [Trips -> Partitions]
  BY DEF MeasurementAssumption
<1>1. TypeOK /\ GeneratorInv
  BY MeasurementTypeInit, GeneratorInit DEF MeasurementInit
<1>2. ClientInv
  BY DEF MeasurementInit, Init, Contract!Init, ClientInv
<1>r. \A t \in Trips : \A i : ~IsRecord(t, i)
  BY <1>0, <1>p DEF IsRecord
<1>3. LogInv
  BY <1>0, <1>r DEF LogInv, MeasurementInit, Contract!Init
<1>4. EndsInv
  BY DEF EndsInv, MeasurementInit
<1>5. ReadInv /\ FaultlessInv
  BY <1>0, <1>r DEF ReadInv, FaultlessInv, IsRead, Successes, MeasurementInit
<1> QED BY <1>1, <1>2, <1>3, <1>4, <1>5 DEF MeasurementInv

LEMMA MeasurementInvStep ==
  MeasurementAssumption /\ MeasurementInv /\ [MeasurementNext]_vars => MeasurementInv'
<1> SUFFICES ASSUME MeasurementAssumption, MeasurementInv, [MeasurementNext]_vars
             PROVE  MeasurementInv'
  OBVIOUS
<1> USE DEF MeasurementInv
<1>1. TypeOK' /\ GeneratorInv'
  BY MeasurementTypeStep, MeasurementRefines, GeneratorStep
<1>2. ClientInv' /\ LogInv' /\ EndsInv'
  BY ClientStep, LogStep, EndsStep
<1>3. ReadInv' /\ FaultlessInv'
  BY ReadStep, FaultlessStep
<1> QED BY <1>1, <1>2, <1>3

LEMMA MeasurementInvariant == MeasurementSpec => []MeasurementInv
<1>1. MeasurementInit => MeasurementInv
  BY MeasurementInvInit, MeasurementAssumption
<1>2. MeasurementInv /\ [MeasurementNext]_vars => MeasurementInv'
  BY MeasurementInvStep, MeasurementAssumption
<1> QED BY <1>1, <1>2, PTL DEF MeasurementSpec

(* The variables of a phase keep their types. *)
THEOREM TypeCorrect == MeasurementSpec => []TypeOK
<1>1. MeasurementInv => TypeOK
  BY DEF MeasurementInv
<1> QED BY <1>1, MeasurementInvariant, PTL

(* A phase of a release implements the load generator, which alone knows   *)
(* nothing of the API, the publisher and the broker.                       *)
THEOREM GeneratorImplemented == MeasurementSpec => Spec
<1>1. MeasurementInit => Init
  BY DEF MeasurementInit
<1>2. [MeasurementNext]_vars => [Next]_generatorVars
  BY MeasurementRefines
<1> QED BY <1>1, <1>2, PTL DEF MeasurementSpec, Spec

(* The generator itself, whatever the service does, never exceeds its      *)
(* limit, and drops an arrival only when the service holds that many.      *)
THEOREM GeneratorLimits == Spec => []ConcurrencyIsBounded /\ DropsOnlyAtTheLimit
<1>1. Init => GeneratorInv
  BY GeneratorInit
<1>2. GeneratorInv /\ [Next]_generatorVars => GeneratorInv'
  BY GeneratorStep
<1>3. GeneratorInv => ConcurrencyIsBounded
  BY LimitHolds
<1>4. GeneratorInv /\ [Next]_generatorVars =>
        [\A t \in Trips : outcome'[t] = Overflow /\ outcome[t] # Overflow
           => Cardinality(Running) = Concurrency]_generatorVars
  BY DropStep
<1> QED BY <1>1, <1>2, <1>3, <1>4, PTL DEF Spec, DropsOnlyAtTheLimit

(* In a phase no more requests are under way than the limit. *)
THEOREM ConcurrencyBounded == MeasurementSpec => []ConcurrencyIsBounded
BY GeneratorImplemented, GeneratorLimits, PTL

(* In a phase no arrival is dropped below the limit. *)
THEOREM DropsCorrect == MeasurementSpec => DropsOnlyAtTheLimit
BY GeneratorImplemented, GeneratorLimits, PTL

(* A phase that was measured has one sample of each request. *)
THEOREM SamplesCorrect == MeasurementSpec => []EverySampleOnce
<1>1. MeasurementInv => EverySampleOnce
  BY SamplesHold DEF MeasurementInv
<1> QED BY <1>1, MeasurementInvariant, PTL

(* Of a prediction the client was told of, one record is below the         *)
(* watermarks when the readback has passed, and it is genuine.             *)
LEMMA PassedHolds == ASSUME MeasurementAssumption, MeasurementInv PROVE PassedReadbackIsTrue
<1> USE DEF MeasurementInv, TypeOK
<1> SUFFICES ASSUME readback = "passed", NEW t \in Successes
             PROVE  \E i \in ReadRecords(t) :
                      ReadRecords(t) = {i} /\ log[PartitionOf[t]][i].content = "genuine"
  BY DEF PassedReadbackIsTrue
<1>p. PartitionOf \in [Trips -> Partitions]
  BY DEF MeasurementAssumption
<1>1. t \in Trips /\ t \in matched /\ seen[t] <= 1 /\ DOMAIN ends = Partitions
      /\ answer[t] = "published"
  BY DEF ReadInv, EndsInv, ClientInv, Successes
<1>2. PICK p \in Partitions : p = PartitionOf[t]
  BY <1>1, <1>p
<1>3. /\ positions[p] >= ends[p] /\ positions[p] \in Nat
      /\ ends[p] \in Nat /\ Len(log[p]) \in Nat
  BY <1>1 DEF ReadInv
<1>4. PICK i \in Nat : IsRead(t, i) /\ Genuine(t, i)
  BY <1>1 DEF ReadInv
<1>5. \A j \in Nat : IsRead(t, j) => j = i
  BY <1>1, <1>4 DEF ReadInv
<1>6. PICK k \in Nat : IsRecord(t, k) /\ k <= ends[p]
  BY <1>1, <1>2, <1>4 DEF EndsInv, IsRead
<1>7. IsRead(t, k) /\ k = i
  BY <1>2, <1>3, <1>5, <1>6 DEF IsRead
<1>8. \A j : j \in ReadRecords(t) <=> j \in Nat /\ IsRecord(t, j) /\ j <= ends[p]
  BY <1>2, <1>3 DEF ReadRecords, IsRecord
<1>9. \A j \in Nat : IsRecord(t, j) /\ j <= ends[p] => j = i
  BY <1>2, <1>3, <1>5 DEF IsRead
<1>10. ReadRecords(t) = {i}
  BY <1>6, <1>7, <1>8, <1>9
<1> QED BY <1>4, <1>10 DEF Genuine

(* A readback that passes is evidence of what is in the topic. *)
THEOREM PassedReadbackCorrect == MeasurementSpec => []PassedReadbackIsTrue
<1>1. MeasurementInv => PassedReadbackIsTrue
  BY PassedHolds, MeasurementAssumption
<1> QED BY <1>1, MeasurementInvariant, PTL

(* The arrivals scheduled are as many as asked for. *)
LEMMA MeasuredCount == IsFiniteSet(Measured) /\ Cardinality(Measured) = Arrivals
<1>1. Measured = (Warmup + 1) .. (Warmup + Arrivals)
  BY DEF Measured, Trips, Warmups
<1>2. /\ IsFiniteSet((Warmup + 1) .. (Warmup + Arrivals))
      /\ Cardinality((Warmup + 1) .. (Warmup + Arrivals)) =
           (IF Warmup + 1 > Warmup + Arrivals THEN 0
                                             ELSE (Warmup + Arrivals) - (Warmup + 1) + 1)
  BY FS_Interval
<1> QED BY <1>1, <1>2

(* The verdict of a phase covers the arrivals that were scheduled. *)
LEMMA PhaseHolds == ASSUME MeasurementAssumption, MeasurementInv PROVE PassedPhaseIsDelivered
<1> DEFINE delivered == {t \in Trips : Cardinality(ReadRecords(t)) = 1}
<1> SUFFICES ASSUME ~outage, PhaseChecks, readback = "passed"
             PROVE  /\ Warmups \subseteq delivered
                    /\ Cardinality(delivered \cap Measured) >= Arrivals - MaxErrors
  BY DEF PassedPhaseIsDelivered
<1>1. Successes \subseteq delivered
  <2> SUFFICES ASSUME NEW t \in Successes PROVE t \in delivered
    OBVIOUS
  <2>1. PICK i : ReadRecords(t) = {i}
    BY PassedHolds DEF PassedReadbackIsTrue
  <2>2. Cardinality({i}) = 1
    BY FS_Singleton
  <2> QED BY <2>1, <2>2 DEF Successes
<1>2. Warmups \subseteq Successes /\ Cardinality(Measured \ Successes) <= MaxErrors
  BY DEF PhaseChecks, BenchmarkPassed
<1>3. IsFiniteSet(Measured) /\ Cardinality(Measured) = Arrivals
  BY MeasuredCount
<1>4. /\ IsFiniteSet(Measured \ delivered) /\ IsFiniteSet(Measured \ Successes)
      /\ IsFiniteSet(delivered \cap Measured)
  BY <1>3, FS_Subset
<1>5. Cardinality(Measured \ delivered) <= Cardinality(Measured \ Successes)
  BY <1>1, <1>4, FS_Subset
<1>6. Cardinality(Measured \ delivered) = Cardinality(Measured) - Cardinality(Measured \cap delivered)
  BY <1>3, FS_Difference
<1>7. Measured \cap delivered = delivered \cap Measured
  OBVIOUS
<1>8. /\ Cardinality(Measured \ delivered) \in Nat /\ Cardinality(Measured \ Successes) \in Nat
      /\ Cardinality(delivered \cap Measured) \in Nat /\ MaxErrors \in Nat
  BY <1>4, FS_CardinalityType DEF MeasurementAssumption
<1>9. Cardinality(delivered \cap Measured) >= Arrivals - MaxErrors
  <2> HIDE DEF delivered
  <2> QED BY <1>2, <1>3, <1>5, <1>6, <1>7, <1>8
<1> QED BY <1>1, <1>2, <1>9

(* A phase that passes delivered all but the errors allowed, once each. *)
THEOREM PassedPhaseCorrect == MeasurementSpec => []PassedPhaseIsDelivered
<1>1. MeasurementInv => PassedPhaseIsDelivered
  BY PhaseHolds, MeasurementAssumption
<1> QED BY <1>1, MeasurementInvariant, PTL

(* A readback fails only a broker that erred. *)
THEOREM FaultlessReadbackCorrect == MeasurementSpec => []FaultlessReadbackPasses
<1>1. MeasurementInv => FaultlessReadbackPasses
  BY DEF MeasurementInv, FaultlessInv, FaultlessReadbackPasses
<1> QED BY <1>1, MeasurementInvariant, PTL
------------------------------------------------------------------------------
(* What a readback may call ambiguous                                      *)

(* A confirmed prediction has been appended, a definitely rejected one has *)
(* not and never will be.                                                  *)
AnswersAreTrue ==
  \A t \in Trips : /\ answer[t] = "published" => t \in appended
                   /\ answer[t] = "not_published" => t \notin appended

LEMMA AnswersStep ==
  ASSUME TypeOK, AnswersAreTrue, [MeasurementNext]_vars
  PROVE  AnswersAreTrue'
<1>1. ASSUME NEW t \in Trips, NEW a \in Contract!Answers \ {"none"}, Replying(t, a)
      PROVE  AnswersAreTrue'
  <2>1. /\ answer' = [answer EXCEPT ![t] = a] /\ appended' = appended
        /\ a = "published" => t \in appended
        /\ a = "not_published" => t \notin appended
    BY <1>1 DEF Replying, Reply, Contract!Reply
  <2>2. \A u \in Trips : answer'[u] = IF u = t THEN a ELSE answer[u]
    BY <2>1 DEF TypeOK
  <2> QED BY <2>1, <2>2 DEF AnswersAreTrue
<1>2. ASSUME NEW t \in Trips, NEW c, Appending(t, c)
      PROVE  AnswersAreTrue'
  BY <1>2 DEF Appending, AnswersAreTrue
<1>3. ASSUME NEW p \in Partitions, Lose(p)
      PROVE  AnswersAreTrue'
  BY <1>3 DEF Lose, Fault, AnswersAreTrue
<1>4. CASE Generating
  BY <1>4, GeneratingIsNext DEF topicVars, AnswersAreTrue
<1>5. CASE Driver
  BY <1>5, DriverKeeps DEF topicVars, AnswersAreTrue
<1>6. CASE UNCHANGED vars
  BY <1>6 DEF vars, topicVars, AnswersAreTrue
<1> QED BY <1>1, <1>2, <1>3, <1>4, <1>5, <1>6, Steps

LEMMA AnswersInvariant == MeasurementSpec => []AnswersAreTrue
<1>1. MeasurementInit => AnswersAreTrue
  BY DEF MeasurementInit, Contract!Init, AnswersAreTrue
<1>2. MeasurementInv => TypeOK
  BY DEF MeasurementInv
<1>3. TypeOK /\ AnswersAreTrue /\ [MeasurementNext]_vars => AnswersAreTrue'
  BY AnswersStep
<1> QED BY <1>1, <1>2, <1>3, MeasurementInvariant, PTL DEF MeasurementSpec

(* What the readback reports as ambiguous deliveries is that: predictions  *)
(* that were appended, that no client was told of, and that the API did    *)
(* not definitely reject ("reported separately as ambiguous delivery"),    *)
(* whatever the broker does.                                               *)
AmbiguousDeliveriesAreReal ==
  \A t \in ambiguous : /\ t \in appended
                       /\ outcome[t] \in AmbiguousOutcomes
                       /\ answer[t] # "not_published"

AmbiguousInv ==
  \A t \in ambiguous : t \in appended /\ outcome[t] \in AmbiguousOutcomes

LEMMA AmbiguousStep ==
  ASSUME MeasurementAssumption, MeasurementInv, AmbiguousInv, [MeasurementNext]_vars
  PROVE  AmbiguousInv'
<1> USE DEF MeasurementInv
<1>t. ambiguous \subseteq Trips
  BY DEF TypeOK
<1>1. CASE Generating
  <2>1. UNCHANGED <<appended, ambiguous>>
    BY <1>1, GeneratingIsNext DEF topicVars, readbackVars
  <2>2. \A t \in Trips : outcome[t] \in AmbiguousOutcomes => outcome'[t] = outcome[t]
    <3>1. "running" \notin AmbiguousOutcomes /\ "unissued" \notin AmbiguousOutcomes
      BY DEF AmbiguousOutcomes
    <3> QED BY <1>1, <3>1, GeneratingOutcomes
  <2> QED BY <1>t, <2>1, <2>2 DEF AmbiguousInv
<1>2. ASSUME NEW t \in Trips, NEW a, Replying(t, a)
      PROVE  AmbiguousInv'
  BY <1>2 DEF Replying, Reply, Contract!Reply, AmbiguousInv, generatorVars, readbackVars
<1>3. ASSUME NEW t \in Trips, NEW c, Appending(t, c)
      PROVE  AmbiguousInv'
  BY <1>3 DEF Appending, AmbiguousInv, generatorVars, readbackVars
<1>4. ASSUME NEW p \in Partitions, Lose(p)
      PROVE  AmbiguousInv'
  BY <1>4 DEF Lose, Fault, AmbiguousInv, generatorVars, readbackVars
<1>5. ASSUME NEW p \in Partitions, Consume(p)
      PROVE  AmbiguousInv'
  <2>1. positions[p] + 1 \in 1 .. Len(log[p]) /\ positions'[p] = positions[p] + 1
    BY <1>5 DEF Consume, TypeOK
  <2>2. PICK r : r = log[p][positions'[p]]
    OBVIOUS
  <2>3. r.trip \in appended
    BY <2>1, <2>2 DEF LogInv
  <2>4. /\ ambiguous' = IF r.content # "envelope" /\ outcome[r.trip] \in AmbiguousOutcomes
                        THEN ambiguous \cup {r.trip} ELSE ambiguous
        /\ UNCHANGED <<outcome, appended>>
    BY <1>5, <2>2 DEF Consume, generatorVars, topicVars
  <2> QED BY <2>3, <2>4 DEF AmbiguousInv
<1>6. CASE Driver /\ \A p \in Partitions : ~Consume(p)
  BY <1>6 DEF Driver, StartConsuming, ReadWatermark, FinishReadback, ExpireReadback,
              AmbiguousInv, generatorVars, topicVars
<1>7. CASE UNCHANGED vars
  BY <1>7 DEF vars, generatorVars, topicVars, readbackVars, AmbiguousInv
<1> QED BY <1>1, <1>2, <1>3, <1>4, <1>5, <1>6, <1>7, Steps

(* See AmbiguousDeliveriesAreReal and AnswersAreTrue: for any number of    *)
(* requests and partitions, and after any fault of the broker.             *)
THEOREM AmbiguousCorrect == MeasurementSpec => [](AnswersAreTrue /\ AmbiguousDeliveriesAreReal)
<1>1. MeasurementInit => AmbiguousInv
  BY DEF MeasurementInit, AmbiguousInv
<1>2. MeasurementInv /\ AmbiguousInv /\ [MeasurementNext]_vars => AmbiguousInv'
  BY AmbiguousStep, MeasurementAssumption
<1>3. MeasurementInv /\ AnswersAreTrue /\ AmbiguousInv => AmbiguousDeliveriesAreReal
  BY DEF MeasurementInv, TypeOK, AnswersAreTrue, AmbiguousInv, AmbiguousDeliveriesAreReal
<1> QED BY <1>1, <1>2, <1>3, MeasurementInvariant, AnswersInvariant, PTL DEF MeasurementSpec

(* While the broker is down nothing is confirmed: no client of an outage   *)
(* phase is told of a success, the API publishes no answer to that effect, *)
(* and the readback that follows matches nothing, whenever the records     *)
(* that were left unknown arrive.                                          *)
OutageConfirmsNothing ==
  outage => /\ Successes = {}
            /\ matched = {}
            /\ \A t \in Trips : answer[t] # "published"

OutageInv ==
  outage => /\ phase \in {"warming", "measuring"} => appended = {}
            /\ \A t \in Trips : answer[t] # "published"

LEMMA OutageStep ==
  ASSUME MeasurementInv, OutageInv, [MeasurementNext]_vars
  PROVE  OutageInv'
<1>i. /\ answer \in [Trips -> Contract!Answers]
      /\ GeneratorInv /\ phase \in Phases
  BY DEF MeasurementInv, TypeOK, GeneratorTypeOK
<1>1. CASE Generating
  <2>1. UNCHANGED <<outage, answer, appended>>
    BY <1>1, GeneratingIsNext DEF topicVars
  <2>2. phase \in {"warming", "measuring"}
    BY <1>1, <1>i, GeneratingOutcomes
  <2> QED BY <2>1, <2>2 DEF OutageInv
<1>2. ASSUME NEW t \in Trips, NEW a \in Contract!Answers \ {"none"}, Reply(t, a)
      PROVE  OutageInv'
  <2>1. /\ outcome[t] = "running" /\ phase # "interrupted"
        /\ answer' = [answer EXCEPT ![t] = a]
        /\ a = "published" => t \in appended
        /\ UNCHANGED <<phase, outage, appended>>
    BY <1>2 DEF Reply, Contract!Reply, generatorVars
  <2>2. phase # "measured"
    <3>1. SUFFICES ASSUME phase = "measured" PROVE FALSE
      OBVIOUS
    <3>2. outcome[t] \in TaskOutcomes \cup {Overflow}
      BY <1>i, <3>1 DEF GeneratorInv, UnrecordedInv, IssuedInv
    <3> QED BY <2>1, <3>2, OutcomesDiffer
  <2>3. phase \in {"warming", "measuring"}
    BY <1>i, <2>1, <2>2 DEF Phases
  <2>4. \A u \in Trips : answer'[u] = IF u = t THEN a ELSE answer[u]
    BY <1>i, <2>1
  <2> QED BY <2>1, <2>3, <2>4 DEF OutageInv
<1>3. ASSUME NEW t \in Trips, AppendRecord(t) \/ Repeat(t)
                                \/ \E c \in {"envelope", "altered"} : AppendWrong(t, c)
      PROVE  OutageInv'
  <2>1. BrokerUp /\ UNCHANGED <<phase, outage, answer>>
    BY <1>3 DEF AppendRecord, Repeat, AppendWrong, Fault, Contract!AppendRecord, generatorVars
  <2> QED BY <2>1 DEF BrokerUp, OutageInv
<1>4. ASSUME NEW p \in Partitions, Lose(p)
      PROVE  OutageInv'
  BY <1>4 DEF Lose, Fault, OutageInv, generatorVars
<1>5. CASE Driver
  BY <1>5, DriverKeeps DEF topicVars, generatorVars, OutageInv
<1>6. CASE UNCHANGED vars
  BY <1>6 DEF vars, topicVars, generatorVars, OutageInv
<1> QED BY <1>1, <1>2, <1>3, <1>4, <1>5, <1>6
        DEF MeasurementNext, ApiStep, BrokerFault, Generating

(* See OutageConfirmsNothing: for any load and any faults of the broker.   *)
THEOREM OutageCorrect == MeasurementSpec => []OutageConfirmsNothing
<1>1. MeasurementInit => OutageInv
  BY DEF MeasurementInit, Contract!Init, OutageInv
<1>2. MeasurementInv /\ OutageInv /\ [MeasurementNext]_vars => OutageInv'
  BY OutageStep
<1>3. MeasurementInv /\ OutageInv => OutageConfirmsNothing
  <2> SUFFICES ASSUME MeasurementInv, OutageInv, outage
               PROVE  Successes = {} /\ matched = {} /\ \A t \in Trips : answer[t] # "published"
    BY DEF OutageConfirmsNothing
  <2>1. \A t \in Trips : answer[t] # "published" /\ outcome[t] # "success"
    BY DEF OutageInv, MeasurementInv, ClientInv
  <2> QED BY <2>1 DEF Successes, MeasurementInv, ReadInv, TypeOK
<1> QED BY <1>1, <1>2, <1>3, MeasurementInvariant, PTL DEF MeasurementSpec

===============================================================================
