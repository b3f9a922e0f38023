------------------------ MODULE ReleaseOperationsProofs ------------------------
(***************************************************************************)
(* Proofs about the release harness, for any number of restarts of the     *)
(* API: the types, what is kept of the evidence, the broker of the failure *)
(* run, and what a passing result says of the phases that were run and of  *)
(* the process that was measured.                                          *)
(***************************************************************************)
EXTENDS ReleaseOperations, FiniteSetTheorems, SequenceTheorems, TLAPS

USE OperationsAssumption
USE DEF control, flags, checks, outputs, harnessVars, places, broker, driving, history,
        clusterVars, vars

(* What the two programs have in common: where they end, what only the     *)
(* failure run has.                                                        *)
LEMMA ProgramFacts ==
  ASSUME at \in DOMAIN Program
  PROVE  /\ at \in Nat
         /\ Step # "result" => at + 1 \in DOMAIN Program
         /\ Step = "export" => Program[at + 1] = "result"
         /\ Step = "namespace" => failure
<1>1. CASE failure
  BY <1>1 DEF Program, Step, FailureProgram
<1>2. CASE ~failure
  BY <1>2 DEF Program, Step, LoadProgram
<1> QED BY <1>1, <1>2

(* The program does not change, and only a step that is not the last one   *)
(* goes on to the next.                                                    *)
LEMMA Advances ==
  ASSUME [Next]_vars
  PROVE  /\ failure' = failure
         /\ \/ at' = at
            \/ at' = at + 1 /\ status = "try" /\ Step # "result"
<1>1. CASE Setup
  BY <1>1 DEF Setup, CreateNamespace, Install, CreateDriverPod, Proceed, Trying
<1>2. CASE Identify
  BY <1>2 DEF Identify, ReadPod, ReadStart, Proceed, Trying, Identifications
<1>3. CASE Drive
  BY <1>3 DEF Drive, StartDriver, DriverExits, DriverIsCutOff, DriverTimesOut,
              Proceed, Trying, Invocations, Benchmarks
<1>4. CASE Poll \/ Raise \/ Interrupt \/ Kill
  BY <1>4 DEF Poll, Raise, Interrupt, Kill
<1>5. CASE Failure
  BY <1>5 DEF Failure, StopBroker, AwaitStop, OutageProbe, RestoreBroker, Recovered,
              GiveUpRecovery, Proceed, Trying
<1>6. CASE Conclude
  BY <1>6 DEF Conclude, Export, Result, HandleException, RestoreInFinally, Delete, Retain, Trying
<1>7. CASE Cluster
  BY <1>7 DEF Cluster, BrokerFollows, RestartApi, Straggle
<1>8. CASE UNCHANGED vars
  BY <1>8
<1> QED BY <1>1, <1>2, <1>3, <1>4, <1>5, <1>6, <1>7, <1>8 DEF Next, Harness

------------------------------------------------------------------------------
(* Type correctness.  The process identifiers stay within the bound        *)
(* because a pod has a new process each time it is replaced.               *)

OperationsTypeInv == TypeOK /\ process.uid <= process.start

LEMMA OperationsTypeInit == Init => OperationsTypeInv
<1> SUFFICES ASSUME Init
             PROVE  OperationsTypeInv
  OBVIOUS
<1>1. at \in DOMAIN Program
  BY DEF Init, Program, LoadProgram, FailureProgram
<1>2. process \in [uid : 0 .. MaxRestarts, start : 0 .. MaxRestarts]
      /\ process.uid <= process.start
  BY DEF Init
<1>3. /\ failure \in BOOLEAN /\ namespace \in {"absent", "present", "deleted"}
      /\ replicas \in {0, 1} /\ brokerUp \in BOOLEAN
  BY DEF Init
<1>4. /\ status = "try" /\ created = FALSE /\ exported = FALSE
      /\ DOMAIN identity = Identifications /\ ok = TRUE /\ verdict = "none"
      /\ returned = {} /\ kept = {} /\ refused = {} /\ polling = FALSE /\ pod = "absent"
      /\ inPod = {} /\ evidence = {} /\ served = {} /\ outageBroken = FALSE
  BY DEF Init
<1> QED BY <1>1, <1>2, <1>3, <1>4 DEF OperationsTypeInv, TypeOK

LEMMA OperationsTypeStep == OperationsTypeInv /\ [Next]_vars => OperationsTypeInv'
<1> SUFFICES ASSUME OperationsTypeInv, [Next]_vars
             PROVE  TypeOK' /\ process'.uid <= process'.start
  BY DEF OperationsTypeInv
<1> USE DEF OperationsTypeInv
<1>a. at' \in DOMAIN Program'
  BY Advances, ProgramFacts DEF Program, TypeOK
<1>b. TypeOK /\ process.uid <= process.start
  OBVIOUS
<1> HIDE DEF OperationsTypeInv
<1> USE <1>a, <1>b DEF TypeOK, Proceed
<1>1. CASE CreateNamespace
  <2>1. created' \in BOOLEAN /\ status' \in {status, "except"}
    BY <1>1 DEF CreateNamespace
  <2> QED BY <1>1, <2>1 DEF CreateNamespace
<1>2. CASE Install
  <2>1. brokerUp' \in BOOLEAN /\ status' \in {status, "except"}
    BY <1>2 DEF Install
  <2> QED BY <1>2, <2>1 DEF Install
<1>3. CASE CreateDriverPod
  BY <1>3 DEF CreateDriverPod
<1>4. ASSUME NEW s \in Identifications, ReadPod(s) PROVE TypeOK' /\ process'.uid <= process'.start
  BY <1>4 DEF ReadPod
<1>5. ASSUME NEW s \in Identifications, ReadStart(s) PROVE TypeOK' /\ process'.uid <= process'.start
  BY <1>5 DEF ReadStart
<1>6. ASSUME NEW a \in Invocations, StartDriver(a) PROVE TypeOK' /\ process'.uid <= process'.start
  BY <1>6 DEF StartDriver, Observe
<1>7. ASSUME NEW a \in Invocations, DriverExits(a) PROVE TypeOK' /\ process'.uid <= process'.start
  <2>1. polling' \in BOOLEAN /\ ok' \in BOOLEAN
    BY <1>7 DEF DriverExits
  <2> QED BY <1>7, <2>1 DEF DriverExits
<1>8. ASSUME NEW a \in Invocations, DriverIsCutOff(a) PROVE TypeOK' /\ process'.uid <= process'.start
  <2>1. polling' \in BOOLEAN /\ ok' \in BOOLEAN
    BY <1>8 DEF DriverIsCutOff
  <2> QED BY <1>8, <2>1 DEF DriverIsCutOff
<1>9. ASSUME NEW a \in Invocations, DriverTimesOut(a) PROVE TypeOK' /\ process'.uid <= process'.start
  <2>1. polling' \in BOOLEAN
    BY <1>9 DEF DriverTimesOut
  <2> QED BY <1>9, <2>1 DEF DriverTimesOut
<1>10. CASE Poll
  BY <1>10 DEF Poll
<1>11. CASE Raise
  BY <1>11 DEF Raise
<1>12. CASE Interrupt
  <2>1. polling' \in BOOLEAN
    BY <1>12 DEF Interrupt
  <2> QED BY <1>12, <2>1 DEF Interrupt
<1>13. CASE Kill
  BY <1>13 DEF Kill
<1>14. CASE StopBroker
  BY <1>14 DEF StopBroker
<1>15. CASE AwaitStop
  BY <1>15 DEF AwaitStop
<1>16. CASE OutageProbe
  <2>1. ok' \in BOOLEAN
    BY <1>16 DEF OutageProbe
  <2> QED BY <1>16, <2>1 DEF OutageProbe
<1>17. CASE RestoreBroker
  BY <1>17 DEF RestoreBroker
<1>18. CASE Recovered
  <2>1. polling' \in BOOLEAN
    BY <1>18 DEF Recovered
  <2> QED BY <1>18, <2>1 DEF Recovered
<1>19. CASE GiveUpRecovery
  <2>1. polling' \in BOOLEAN /\ ok' \in BOOLEAN
    BY <1>19 DEF GiveUpRecovery
  <2> QED BY <1>19, <2>1 DEF GiveUpRecovery
<1>20. CASE Export
  <2>1. exported' \in BOOLEAN /\ kept' \subseteq Invocations
    BY <1>20 DEF Export, Copy, ExportRaises
  <2> QED BY <1>20, <2>1 DEF Export, Copy, ExportRaises
<1>21. CASE Result
  BY <1>21 DEF Result
<1>22. CASE HandleException
  <2>1. exported' \in BOOLEAN /\ kept' \subseteq Invocations
    BY <1>22 DEF HandleException, Copy, ExportRaises
  <2> QED BY <1>22, <2>1 DEF HandleException, Copy, ExportRaises
<1>23. CASE RestoreInFinally
  <2>1. replicas' \in {0, 1} /\ refused' \subseteq {"restore", "delete"} /\ status' \in {"delete", "ended"}
    BY <1>23 DEF RestoreInFinally
  <2> QED BY <1>23, <2>1 DEF RestoreInFinally
<1>24. CASE Delete
  BY <1>24 DEF Delete
<1>25. CASE Retain
  BY <1>25 DEF Retain
<1>26. CASE BrokerFollows
  BY <1>26 DEF BrokerFollows, Observe
<1>27. CASE RestartApi
  <2>1. PICK u \in {process.uid, process.uid + 1} :
          process' = [uid |-> u, start |-> process.start + 1]
    BY <1>27 DEF RestartApi
  <2>2. /\ process.uid \in 0 .. MaxRestarts /\ process.start \in 0 .. MaxRestarts
        /\ process.uid <= process.start /\ process.start < MaxRestarts
    BY <1>27 DEF RestartApi
  <2>3. /\ process' \in [uid : 0 .. MaxRestarts, start : 0 .. MaxRestarts]
        /\ process'.uid <= process'.start
    BY <2>1, <2>2
  <2> QED BY <1>27, <2>3 DEF RestartApi, Observe
<1>28. ASSUME NEW a \in Invocations, Straggle(a) PROVE TypeOK' /\ process'.uid <= process'.start
  BY <1>28 DEF Straggle
<1>29. CASE UNCHANGED vars
  BY <1>29
<1> HIDE DEF TypeOK, Proceed
<1> QED BY <1>1, <1>2, <1>3, <1>4, <1>5, <1>6, <1>7, <1>8, <1>9, <1>10, <1>11, <1>12, <1>13, <1>14, <1>15, <1>16, <1>17, <1>18, <1>19, <1>20, <1>21, <1>22, <1>23, <1>24, <1>25, <1>26, <1>27, <1>28, <1>29
        DEF Next, Harness, Setup, Identify, Drive, Failure, Conclude, Cluster

(* The harness keeps its types, however often the API is restarted. *)
THEOREM TypeCorrect == Spec => []TypeOK
<1>1. OperationsTypeInv => TypeOK
  BY DEF OperationsTypeInv
<1> QED BY <1>1, OperationsTypeInit, OperationsTypeStep, PTL DEF Spec

------------------------------------------------------------------------------
(* The evidence: what the harness saw ending is in the pod until it has    *)
(* been copied, and after the copy no phase is run.                        *)

EvidenceInv ==
  /\ returned \subseteq evidence
  /\ exported => returned \subseteq kept
  /\ exported /\ status = "try" => Step = "result"
  /\ pod = "deleted" => exported

(* The steps that touch the evidence, and what the others do not do. *)
LEMMA EvidenceSteps ==
  ASSUME [Next]_vars
  PROVE  \/ Export \/ HandleException \/ Delete
         \/ \E a \in Invocations : DriverExits(a) \/ Straggle(a)
         \/ /\ UNCHANGED <<returned, evidence, exported, kept>>
            /\ pod' \in {pod, "present"}
            /\ status' = "try" => status = "try"
<1> DEFINE Idle == /\ UNCHANGED <<returned, evidence, exported, kept>>
                   /\ pod' \in {pod, "present"}
                   /\ status' = "try" => status = "try"
<1>1. CASE Setup
  BY <1>1 DEF Setup, CreateNamespace, Install, CreateDriverPod, Proceed, Trying
<1>2. CASE Identify
  BY <1>2 DEF Identify, ReadPod, ReadStart, Proceed, Trying
<1>3. ASSUME NEW a \in Invocations, StartDriver(a) \/ DriverIsCutOff(a) \/ DriverTimesOut(a)
      PROVE  Idle
  BY <1>3 DEF StartDriver, DriverIsCutOff, DriverTimesOut, Proceed, Trying
<1>4. CASE Poll \/ Raise \/ Interrupt \/ Kill
  BY <1>4 DEF Poll, Raise, Interrupt, Kill
<1>5. CASE Failure
  BY <1>5 DEF Failure, StopBroker, AwaitStop, OutageProbe, RestoreBroker, Recovered,
              GiveUpRecovery, Proceed, Trying
<1>6. CASE Result \/ RestoreInFinally \/ Retain
  BY <1>6 DEF Result, RestoreInFinally, Retain
<1>7. CASE BrokerFollows \/ RestartApi
  BY <1>7 DEF BrokerFollows, RestartApi
<1>8. CASE UNCHANGED vars
  BY <1>8
<1> QED BY <1>1, <1>2, <1>3, <1>4, <1>5, <1>6, <1>7, <1>8
        DEF Next, Harness, Drive, Conclude, Cluster

LEMMA EvidenceStep ==
  ASSUME OperationsTypeInv, EvidenceInv, [Next]_vars
  PROVE  EvidenceInv'
<1>t. at \in DOMAIN Program
  BY DEF OperationsTypeInv, TypeOK
<1>s. Step # "result" \/ at' = at
  BY Advances
<1>p. failure' = failure /\ Program' = Program
  BY Advances DEF Program
<1>1. CASE Export
  <2>1. at' = at + 1 \/ status' = "except"
    BY <1>1 DEF Export, Copy
  <2>2. at' = at + 1 => Step' = "result"
    BY <1>1, <1>t, <1>p, ProgramFacts DEF Export, Trying, Step
  <2>3. UNCHANGED <<returned, evidence, pod>>
    BY <1>1 DEF Export
  <2>4. \/ kept' = kept \cup evidence /\ exported'
        \/ UNCHANGED <<kept, exported>>
    BY <1>1 DEF Export, Copy, ExportRaises
  <2> QED BY <2>1, <2>2, <2>3, <2>4 DEF EvidenceInv
<1>2. CASE HandleException
  <2>1. UNCHANGED <<returned, evidence, pod>> /\ status' = "finally"
    BY <1>2 DEF HandleException
  <2>2. \/ kept' = kept \cup evidence /\ exported'
        \/ UNCHANGED <<kept, exported>>
    BY <1>2 DEF HandleException, Copy, ExportRaises
  <2> QED BY <2>1, <2>2 DEF EvidenceInv
<1>3. CASE Delete
  BY <1>3 DEF Delete, EvidenceInv
<1>4. ASSUME NEW a \in Invocations, DriverExits(a)
      PROVE  EvidenceInv'
  <2>1. Step # "result" /\ status = "try"
    BY <1>4 DEF DriverExits, Trying, Invocations, Benchmarks
  <2>2. ~exported /\ exported' = exported /\ pod' = pod
    BY <1>4, <2>1 DEF DriverExits, EvidenceInv
  <2> QED BY <1>4, <2>2 DEF DriverExits, EvidenceInv
<1>5. ASSUME NEW a \in Invocations, Straggle(a)
      PROVE  EvidenceInv'
  BY <1>5, <1>p DEF Straggle, EvidenceInv, Step
<1>6. CASE /\ UNCHANGED <<returned, evidence, exported, kept>>
           /\ pod' \in {pod, "present"}
           /\ status' = "try" => status = "try"
  BY <1>6, <1>p, <1>s DEF EvidenceInv, Step
<1> QED BY <1>1, <1>2, <1>3, <1>4, <1>5, <1>6, EvidenceSteps

(* Whatever fails, the pod is not deleted before what the harness saw is   *)
(* in the output directory.                                                *)
THEOREM EvidenceCorrect == Spec => []EvidenceIsExportedFirst
<1>1. Init => EvidenceInv
  BY DEF Init, EvidenceInv
<1>2. OperationsTypeInv /\ EvidenceInv /\ [Next]_vars => EvidenceInv'
  BY EvidenceStep
<1>3. EvidenceInv => EvidenceIsExportedFirst
  BY DEF EvidenceInv, EvidenceIsExportedFirst
<1> QED BY <1>1, <1>2, <1>3, OperationsTypeInit, OperationsTypeStep, PTL DEF Spec

------------------------------------------------------------------------------
(* What a passing result says of the phases.  A phase that raises ends the *)
(* program, one that is cut off ends a passing result, and the result is   *)
(* written after the export.                                               *)

Phases == {a \in Invocations : \E i \in DOMAIN Program : Program[i] = a}
Due == {a \in Invocations : \E i \in 1 .. at - 1 : Program[i] = a}

PassedIsComplete == verdict = "passed" => Phases \subseteq returned \cap kept

PhasesInv ==
  /\ ok => Due \subseteq returned
  /\ status = "try" /\ Step = "result" => exported
  /\ PassedIsComplete

(* The last step, and the one before it. *)
LEMMA LastSteps ==
  ASSUME at \in DOMAIN Program
  PROVE  /\ at \in Nat /\ DOMAIN Program = 1 .. Len(Program) /\ Len(Program) \in Nat
         /\ Step = "result" => at = Len(Program)
         /\ at + 1 \in DOMAIN Program /\ Program[at + 1] = "result" => Step = "export"
         /\ "result" \notin Invocations /\ "export" \notin Invocations
<1>1. CASE failure
  BY <1>1 DEF Program, Step, FailureProgram, Invocations, Benchmarks
<1>2. CASE ~failure
  BY <1>2 DEF Program, Step, LoadProgram, Invocations, Benchmarks
<1> QED BY <1>1, <1>2

(* A phase is left with its return, or for good; what has been copied and  *)
(* what has failed stays so; a passing result is written by Result alone.  *)
LEMMA PhaseSteps ==
  ASSUME [Next]_vars
  PROVE  /\ ok' => ok
         /\ returned \subseteq returned' /\ kept \subseteq kept' /\ (exported => exported')
         /\ status' = "try" => status = "try"
         /\ at' # at /\ Step \in Invocations => Step \in returned' \/ ~ok'
         /\ at' # at /\ Step = "export" => exported'
         /\ \/ verdict' = verdict
            \/ /\ status = "try" /\ Step = "result" /\ UNCHANGED <<at, ok, returned, kept>>
               /\ verdict' = "passed" => ok
<1> DEFINE Goal == /\ ok' => ok
                   /\ returned \subseteq returned' /\ kept \subseteq kept' /\ (exported => exported')
                   /\ status' = "try" => status = "try"
                   /\ at' # at /\ Step \in Invocations => Step \in returned' \/ ~ok'
                   /\ at' # at /\ Step = "export" => exported'
                   /\ \/ verdict' = verdict
                      \/ /\ status = "try" /\ Step = "result" /\ UNCHANGED <<at, ok, returned, kept>>
                         /\ verdict' = "passed" => ok
<1>n. /\ Identifications \cap (Invocations \cup {"export", "result"}) = {}
      /\ Invocations \cap {"namespace", "install", "driver_pod", "stop", "stopped", "outage_probe",
                           "restore", "recovery", "export", "result"} = {}
  BY DEF Identifications, Invocations, Benchmarks
<1>1. CASE Setup
  BY <1>1, <1>n DEF Setup, CreateNamespace, Install, CreateDriverPod, Proceed, Trying
<1>2. CASE Identify
  BY <1>2, <1>n DEF Identify, ReadPod, ReadStart, Proceed, Trying
<1>3. CASE Drive
  <2>1. ASSUME NEW a \in Invocations, StartDriver(a) \/ DriverTimesOut(a)
        PROVE  Goal
    BY <2>1 DEF StartDriver, DriverTimesOut, Trying
  <2>2. ASSUME NEW a \in Invocations, DriverExits(a)
        PROVE  Goal
    <3>1. ok' => ok
      BY <2>2, Zenon DEF DriverExits
    <3>2. /\ returned' = returned \cup {a} /\ UNCHANGED <<kept, exported, verdict>>
          /\ status = "try" /\ Step = a
      BY <2>2 DEF DriverExits, Trying
    <3> QED BY <1>n, <3>1, <3>2
  <2>3. ASSUME NEW a \in Invocations, DriverIsCutOff(a)
        PROVE  Goal
    BY <2>3, <1>n DEF DriverIsCutOff, Proceed, Trying
  <2> QED BY <1>3, <2>1, <2>2, <2>3 DEF Drive
<1>4. CASE Poll \/ Raise \/ Interrupt \/ Kill
  BY <1>4 DEF Poll, Raise, Interrupt, Kill
<1>5. CASE Failure
  <2>1. ok' => ok
    BY <1>5, Zenon DEF Failure, StopBroker, AwaitStop, OutageProbe, RestoreBroker, Recovered,
                       GiveUpRecovery
  <2>2. /\ UNCHANGED <<returned, kept, exported, verdict>> /\ status = "try"
        /\ Step \in {"stop", "stopped", "outage_probe", "restore", "recovery"}
    BY <1>5 DEF Failure, StopBroker, AwaitStop, OutageProbe, RestoreBroker, Recovered,
                GiveUpRecovery, Trying
  <2> QED BY <1>n, <2>1, <2>2
<1>6. CASE Conclude
  <2>1. CASE Export
    BY <2>1, <1>n DEF Export, Copy, ExportRaises, Trying
  <2>2. CASE Result
    BY <2>2 DEF Result, Passed, Trying
  <2>3. CASE HandleException \/ RestoreInFinally \/ Delete \/ Retain
    BY <2>3 DEF HandleException, Copy, ExportRaises, RestoreInFinally, Delete, Retain
  <2> QED BY <1>6, <2>1, <2>2, <2>3 DEF Conclude
<1>7. CASE Cluster
  BY <1>7 DEF Cluster, BrokerFollows, RestartApi, Straggle
<1>8. CASE UNCHANGED vars
  BY <1>8
<1> QED BY <1>1, <1>2, <1>3, <1>4, <1>5, <1>6, <1>7, <1>8 DEF Next, Harness

LEMMA PhasesStep ==
  ASSUME OperationsTypeInv, EvidenceInv, PhasesInv, [Next]_vars
  PROVE  PhasesInv'
<1>t. at \in DOMAIN Program /\ at' \in DOMAIN Program
  <2>1. OperationsTypeInv'
    BY OperationsTypeStep
  <2> QED BY <2>1, Advances DEF OperationsTypeInv, TypeOK, Program
<1>p. /\ Program' = Program /\ Phases' = Phases
      /\ at' = at \/ (at' = at + 1 /\ status = "try" /\ Step # "result")
  BY Advances DEF Program, Phases
<1>l. /\ at \in Nat /\ DOMAIN Program = 1 .. Len(Program) /\ Len(Program) \in Nat
      /\ Step = "result" => at = Len(Program)
      /\ at + 1 \in DOMAIN Program /\ Program[at + 1] = "result" => Step = "export"
      /\ "result" \notin Invocations
  BY <1>t, LastSteps
<1>1. ok' => Due' \subseteq returned'
  <2> SUFFICES ASSUME ok', NEW a \in Due'
               PROVE  a \in returned'
    OBVIOUS
  <2>1. ok /\ Due \subseteq returned /\ returned \subseteq returned'
    BY PhaseSteps DEF PhasesInv
  <2>2. PICK i \in 1 .. at' - 1 : Program[i] = a
    BY <1>p DEF Due
  <2>3. a \in Invocations
    BY DEF Due
  <2>4. CASE i \in 1 .. at - 1
    BY <2>1, <2>2, <2>3, <2>4 DEF Due
  <2>5. CASE i \notin 1 .. at - 1
    <3>1. /\ i \in 1 .. at' - 1 /\ at \in Nat
          /\ at' = at \/ at' = at + 1
      BY <1>p, <1>l, <2>2
    <3>2. i = at /\ at' # at
      BY <2>5, <3>1
    <3> QED BY <2>2, <2>3, <3>2, PhaseSteps DEF Step
  <2> QED BY <2>4, <2>5
<1>2. status' = "try" /\ Step' = "result" => exported'
  <2> SUFFICES ASSUME status' = "try", Step' = "result"
               PROVE  exported'
    OBVIOUS
  <2>1. CASE at' = at
    BY <1>p, <2>1, PhaseSteps DEF PhasesInv, Step
  <2>2. CASE at' = at + 1
    <3>1. Step = "export" /\ at' # at
      BY <1>p, <1>t, <1>l, <2>2 DEF Step
    <3> QED BY <3>1, PhaseSteps
  <2> QED BY <1>p, <2>1, <2>2
<1>3. PassedIsComplete'
  <2>1. CASE verdict' = verdict
    BY <1>p, <2>1, PhaseSteps DEF PhasesInv, PassedIsComplete
  <2>2. CASE verdict' # verdict
    <3> SUFFICES ASSUME verdict' = "passed"
                 PROVE  Phases \subseteq returned \cap kept
      BY <1>p, <2>2, PhaseSteps DEF PassedIsComplete
    <3>1. status = "try" /\ Step = "result" /\ ok
      BY <2>2, PhaseSteps
    <3>2. Phases \subseteq Due
      BY <1>l, <3>1 DEF Phases, Due, Step
    <3>3. returned \subseteq kept /\ Due \subseteq returned
      BY <3>1 DEF PhasesInv, EvidenceInv
    <3> QED BY <3>2, <3>3
  <2> QED BY <2>1, <2>2
<1> QED BY <1>1, <1>2, <1>3 DEF PhasesInv

(* A passing result was written after every phase of the mode had returned *)
(* under the harness's eyes, with its evidence in the output directory:    *)
(* none is skipped, cut off or left running, whatever raises on the way.   *)
THEOREM PassedIsCompleteCorrect == Spec => []PassedIsComplete
<1>1. Init => EvidenceInv /\ PhasesInv
  BY DEF Init, EvidenceInv, PhasesInv, PassedIsComplete, Due, Step, Program, LoadProgram,
         FailureProgram
<1>2. OperationsTypeInv /\ EvidenceInv /\ PhasesInv /\ [Next]_vars => EvidenceInv' /\ PhasesInv'
  BY EvidenceStep, PhasesStep
<1>3. PhasesInv => PassedIsComplete
  BY DEF PhasesInv
<1> QED BY <1>1, <1>2, <1>3, OperationsTypeInit, OperationsTypeStep, PTL DEF Spec

------------------------------------------------------------------------------
(* The broker of a failure run.                                            *)

RestoreInv ==
  /\ created => failure
  /\ status = "delete" /\ created /\ "restore" \notin refused => replicas = 1
  /\ BrokerIsRestored

LEMMA RestoreSteps ==
  ASSUME [Next]_vars
  PROVE  \/ CreateNamespace \/ RestoreInFinally \/ Delete \/ Retain
         \/ /\ created' = created
            /\ \/ status' \notin {"delete", "ended"}
               \/ UNCHANGED <<status, replicas, refused, namespace>>
<1> DEFINE Idle == /\ created' = created
                   /\ \/ status' \notin {"delete", "ended"}
                      \/ UNCHANGED <<status, replicas, refused, namespace>>
<1>1. CASE Install \/ CreateDriverPod
  BY <1>1 DEF Install, CreateDriverPod, Proceed, Trying
<1>2. CASE Identify
  BY <1>2 DEF Identify, ReadPod, ReadStart, Proceed, Trying
<1>3. CASE Drive
  BY <1>3 DEF Drive, StartDriver, DriverExits, DriverIsCutOff, DriverTimesOut, Proceed, Trying
<1>4. CASE Poll \/ Raise \/ Interrupt \/ Kill
  BY <1>4 DEF Poll, Raise, Interrupt, Kill
<1>5. CASE Failure
  BY <1>5 DEF Failure, StopBroker, AwaitStop, OutageProbe, RestoreBroker, Recovered,
              GiveUpRecovery, Proceed, Trying
<1>6. CASE Export \/ Result \/ HandleException
  BY <1>6 DEF Export, Result, HandleException, Trying
<1>7. CASE Cluster
  BY <1>7 DEF Cluster, BrokerFollows, RestartApi, Straggle
<1>8. CASE UNCHANGED vars
  BY <1>8
<1> QED BY <1>1, <1>2, <1>3, <1>4, <1>5, <1>6, <1>7, <1>8
        DEF Next, Harness, Setup, Conclude

LEMMA RestoreStep ==
  ASSUME OperationsTypeInv, RestoreInv, [Next]_vars
  PROVE  RestoreInv'
<1>t. at \in DOMAIN Program /\ failure' = failure
  BY Advances DEF OperationsTypeInv, TypeOK
<1> USE DEF RestoreInv, BrokerIsRestored
<1>1. CASE CreateNamespace
  <2>1. failure /\ status' \in {"try", "except"}
    BY <1>1, <1>t, ProgramFacts DEF CreateNamespace, Trying
  <2> QED BY <1>t, <2>1
<1>2. CASE RestoreInFinally
  BY <1>2, <1>t DEF RestoreInFinally, MustRestore
<1>3. CASE Delete
  BY <1>3, <1>t DEF Delete
<1>4. CASE Retain
  BY <1>4, <1>t DEF Retain
<1>5. CASE /\ created' = created
           /\ \/ status' \notin {"delete", "ended"}
              \/ UNCHANGED <<status, replicas, refused, namespace>>
  BY <1>5, <1>t
<1> QED BY <1>1, <1>2, <1>3, <1>4, <1>5, RestoreSteps

(* The broker that was stopped is wanted again when the harness ends. *)
THEOREM RestoreCorrect == Spec => []BrokerIsRestored
<1>1. Init => RestoreInv
  BY DEF Init, RestoreInv, BrokerIsRestored
<1>2. OperationsTypeInv /\ RestoreInv /\ [Next]_vars => RestoreInv'
  BY RestoreStep
<1>3. RestoreInv => BrokerIsRestored
  BY DEF RestoreInv
<1> QED BY <1>1, <1>2, <1>3, OperationsTypeInit, OperationsTypeStep, PTL DEF Spec

------------------------------------------------------------------------------
(* What a passing result says of the process.  The identity is read in two *)
(* calls before the phases and in two after them; the start of a process   *)
(* is later than that of any process before it, so that two equal readings *)
(* leave no room for another process between them.                         *)

BeforeAt == IF failure THEN 4 ELSE 2
FirstAt == IF failure THEN 6 ELSE 3      \* the first benchmark phase
AfterAt == IF failure THEN 17 ELSE 6

LEMMA Positions ==
  ASSUME at \in DOMAIN Program
  PROVE  /\ at \in Nat
         /\ Step = "before" <=> at = BeforeAt
         /\ Step = "after" <=> at = AfterAt
         /\ Step \in Invocations => BeforeAt < at /\ at < AfterAt
         /\ at = FirstAt => Step \in Benchmarks
         /\ Step = "result" => at > AfterAt
         /\ failure => /\ Step = "stop" <=> at = 7
                       /\ Step = "stopped" <=> at = 8
                       /\ Step = "broker-down" <=> at = 10
                       /\ Step = "restore" <=> at = 11
                       /\ Step = "install" <=> at = 2
         /\ ~failure => Step # "broker-down"
<1>1. CASE failure
  BY <1>1 DEF Program, Step, FailureProgram, BeforeAt, FirstAt, AfterAt, Invocations, Benchmarks
<1>2. CASE ~failure
  BY <1>2 DEF Program, Step, LoadProgram, BeforeAt, FirstAt, AfterAt, Invocations, Benchmarks
<1> QED BY <1>1, <1>2

(* The broker stays away from the end of "stopped" until it is restored. *)
OutageInv ==
  failure /\ status = "try" =>
    /\ at \in 8 .. 11 => replicas = 0
    /\ at \in 9 .. 11 => ~brokerUp

LEMMA BrokerSteps ==
  ASSUME [Next]_vars, status' = "try"
  PROVE  /\ status = "try"
         /\ at' # at /\ Step = "stop" => replicas' = 0
         /\ at' # at /\ Step = "stopped" => ~brokerUp
         /\ \/ replicas' = replicas
            \/ at' = at + 1 /\ Step \in {"stop", "restore", "install"}
         /\ \/ brokerUp' = brokerUp
            \/ at' = at + 1 /\ Step = "install"
            \/ at' = at /\ brokerUp' = (replicas = 1)
<1>1. CASE Setup
  BY <1>1 DEF Setup, CreateNamespace, Install, CreateDriverPod, Proceed, Trying
<1>2. CASE Identify
  BY <1>2 DEF Identify, ReadPod, ReadStart, Proceed, Trying, Identifications
<1>3. CASE Drive
  BY <1>3 DEF Drive, StartDriver, DriverExits, DriverIsCutOff, DriverTimesOut,
              Proceed, Trying, Invocations, Benchmarks
<1>4. CASE Poll \/ Raise \/ Interrupt \/ Kill
  BY <1>4 DEF Poll, Raise, Interrupt, Kill
<1>5. CASE Failure
  BY <1>5 DEF Failure, StopBroker, AwaitStop, OutageProbe, RestoreBroker, Recovered,
              GiveUpRecovery, Proceed, Trying, BrokerIsGone
<1>6. CASE Conclude
  BY <1>6 DEF Conclude, Export, Result, HandleException, RestoreInFinally, Delete, Retain, Trying
<1>7. CASE Cluster
  BY <1>7 DEF Cluster, BrokerFollows, RestartApi, Straggle
<1>8. CASE UNCHANGED vars
  BY <1>8
<1> QED BY <1>1, <1>2, <1>3, <1>4, <1>5, <1>6, <1>7, <1>8 DEF Next, Harness

LEMMA OutageStep ==
  ASSUME OperationsTypeInv, OutageInv, [Next]_vars
  PROVE  OutageInv'
<1> SUFFICES ASSUME failure, status' = "try"
             PROVE  /\ at' \in 8 .. 11 => replicas' = 0
                    /\ at' \in 9 .. 11 => ~brokerUp'
  BY Advances DEF OutageInv
<1>1. /\ at \in Nat /\ status = "try"
      /\ Step = "stop" <=> at = 7
      /\ Step = "stopped" <=> at = 8
      /\ Step = "restore" <=> at = 11
      /\ Step = "install" <=> at = 2
      /\ at' = at \/ at' = at + 1
  BY Positions, BrokerSteps, Advances DEF OperationsTypeInv, TypeOK
<1>2. /\ at \in 8 .. 11 => replicas = 0
      /\ at \in 9 .. 11 => ~brokerUp
  BY <1>1 DEF OutageInv
<1>3. at' \in 8 .. 11 => replicas' = 0
  <2>1. CASE at' = at
    <3>1. at # at + 1
      BY <1>1
    <3>2. replicas' = replicas
      BY <2>1, <3>1, BrokerSteps
    <3> QED BY <1>2, <2>1, <3>2
  <2>2. CASE at' = at + 1
    <3>1. at' # at
      BY <1>1, <2>2
    <3>2. at' \in 8 .. 11 => at = 7 \/ (at \in 8 .. 11 /\ at # 11 /\ at # 2 /\ at # 7)
      BY <1>1, <2>2
    <3>3. at = 7 => replicas' = 0
      BY <1>1, <3>1, BrokerSteps
    <3>4. at # 11 /\ at # 2 /\ at # 7 => replicas' = replicas
      BY <1>1, BrokerSteps
    <3> QED BY <1>2, <3>2, <3>3, <3>4
  <2> QED BY <1>1, <2>1, <2>2
<1>4. at' \in 9 .. 11 => ~brokerUp'
  <2>1. CASE at' = at
    <3>1. at \in 9 .. 11 => ~brokerUp /\ replicas # 1
      BY <1>1, <1>2
    <3>2. at # at + 1
      BY <1>1
    <3>3. brokerUp' = brokerUp \/ brokerUp' = (replicas = 1)
      BY <2>1, <3>2, BrokerSteps
    <3> QED BY <2>1, <3>1, <3>3
  <2>2. CASE at' = at + 1
    <3>1. at' # at
      BY <1>1, <2>2
    <3>2. at' \in 9 .. 11 => at # 2 /\ (at = 8 \/ at \in 9 .. 11)
      BY <1>1, <2>2
    <3>3. at' \in 9 .. 11 => ~brokerUp
      BY <1>1, <1>2, <3>1, <3>2, BrokerSteps
    <3> QED BY <1>1, <3>1, <3>2, <3>3, BrokerSteps
  <2> QED BY <1>1, <2>1, <2>2
<1> QED BY <1>3, <1>4

(* The readings so far, and where the harness is when it has them. *)
Processes == [uid : 0 .. MaxRestarts, start : 0 .. MaxRestarts]

Reading(s) ==
  \/ identity[s] = <<>>
  \/ \E q \in Processes : identity[s] = <<q>> /\ q.start <= process.start
  \/ \E q \in Processes, n \in 0 .. MaxRestarts :
       identity[s] = <<q, n>> /\ q.start <= n /\ n <= process.start

Whole(s) == \E q, n : identity[s] = <<q, n>>

PositionInv ==
  /\ \A s \in {"before", "after"} : Reading(s)
  /\ at > BeforeAt => Whole("before")
  /\ at < AfterAt => identity["after"] = <<>>
  /\ at <= BeforeAt => served = {} /\ inPod = {}
  /\ at > FirstAt => served # {}
  /\ inPod \cap Benchmarks # {} => served # {}
  /\ status = "try" => verdict = "none"

(* A step that reads nothing, runs nothing and decides nothing. *)
Quiet ==
  /\ UNCHANGED <<identity, served, outageBroken, process, inPod, verdict>>
  /\ ok' => ok
  /\ status # "try" => ok' = ok
  /\ status' = "try" => status = "try"
  /\ \/ at' = at
     \/ /\ status = "try" /\ at' = at + 1
        /\ Step \notin {"before", "after", "result"} \cup Invocations

LEMMA ProcessSteps ==
  ASSUME OperationsTypeInv, [Next]_vars
  PROVE  \/ \E s \in Identifications : ReadPod(s) \/ ReadStart(s)
         \/ \E a \in Invocations : \/ StartDriver(a) \/ DriverExits(a) \/ DriverIsCutOff(a)
                                   \/ DriverTimesOut(a) \/ Straggle(a)
         \/ Result \/ RestartApi \/ BrokerFollows
         \/ Quiet
<1>1. CASE Setup
  BY <1>1 DEF Setup, CreateNamespace, Install, CreateDriverPod, Proceed, Trying,
              Quiet, Invocations, Benchmarks
<1>2. CASE Poll \/ Raise \/ Interrupt \/ Kill
  BY <1>2 DEF Poll, Raise, Interrupt, Kill, Quiet
<1>3. CASE StopBroker \/ AwaitStop \/ OutageProbe \/ RestoreBroker
  BY <1>3 DEF StopBroker, AwaitStop, OutageProbe, RestoreBroker, Proceed, Trying,
              Quiet, Invocations, Benchmarks
<1>4. CASE Recovered \/ GiveUpRecovery
  BY <1>4 DEF Recovered, GiveUpRecovery, Proceed, Trying, Quiet, Invocations, Benchmarks
<1>5. CASE Export \/ HandleException \/ RestoreInFinally \/ Delete \/ Retain
  BY <1>5 DEF Export, HandleException, RestoreInFinally, Delete, Retain, Trying,
              Quiet, Invocations, Benchmarks
<1>6. CASE UNCHANGED vars
  BY <1>6 DEF Quiet
<1> QED BY <1>1, <1>2, <1>3, <1>4, <1>5, <1>6
        DEF Next, Harness, Identify, Drive, Failure, Conclude, Cluster

LEMMA AppendPair == ASSUME NEW x, NEW y PROVE Append(<<x>>, y) = <<x, y>>
<1> DEFINE S == {x, y}
<1>1. <<x>> \in Seq(S) /\ <<x, y>> \in Seq(S) /\ y \in S
  OBVIOUS
<1>2. Append(<<x>>, y) \in Seq(S) /\ Len(Append(<<x>>, y)) = 2
  BY <1>1, AppendProperties
<1>3. Append(<<x>>, y)[1] = x /\ Append(<<x>>, y)[2] = y
  BY <1>1, AppendProperties
<1> HIDE DEF S
<1>4. Len(<<x, y>>) = 2 /\ <<x, y>>[1] = x /\ <<x, y>>[2] = y
  OBVIOUS
<1>5. \A i \in 1 .. Len(Append(<<x>>, y)) : Append(<<x>>, y)[i] = <<x, y>>[i]
  <2>1. \A i \in 1 .. 2 : i = 1 \/ i = 2
    OBVIOUS
  <2> QED BY <1>2, <1>3, <1>4, <2>1
<1> QED BY <1>1, <1>2, <1>3, <1>4, <1>5, SeqEqual

(* What the two calls add to a reading. *)
LEMMA ReadingStep ==
  ASSUME OperationsTypeInv, NEW s \in Identifications, ReadPod(s) \/ ReadStart(s),
         s \in {"before", "after"} => Reading(s)
  PROVE  /\ UNCHANGED <<process, served, outageBroken, inPod, ok, verdict, failure>>
         /\ Trying(s)
         /\ \A r \in Identifications \ {s} : identity'[r] = identity[r]
         /\ \/ at' = at /\ status' = "try" /\ ReadPod(s)
            \/ at' = at + 1 /\ status' = "try" /\ ReadStart(s)
            \/ at' = at /\ status' = "except"
         /\ ReadPod(s) => identity'[s] = <<process>>
         /\ s \in {"before", "after"} /\ ReadStart(s) =>
              \E q \in Processes : /\ q.start <= process.start /\ identity[s] = <<q>>
                                  /\ identity'[s] = <<q, process.start>>
<1>1. s \in DOMAIN identity
  BY DEF OperationsTypeInv, TypeOK
<1>2. CASE ReadPod(s)
  <2>1. identity' = [identity EXCEPT ![s] = <<process>>]
    BY <1>2 DEF ReadPod, PodIdentity
  <2>2. identity[s] = <<>>
    BY <1>2 DEF ReadPod
  <2>3. ~ReadStart(s)
    BY <2>2 DEF ReadStart
  <2> QED BY <1>1, <1>2, <2>1, <2>3 DEF ReadPod, Trying
<1>3. CASE ReadStart(s)
  <2>1. identity' = [identity EXCEPT ![s] = Append(identity[s], process.start)]
        /\ Len(identity[s]) = 1
    BY <1>3 DEF ReadStart
  <2>2. ~ReadPod(s)
    BY <2>1 DEF ReadPod
  <2>3. ASSUME s \in {"before", "after"}
        PROVE  \E q \in Processes : /\ q.start <= process.start /\ identity[s] = <<q>>
                                   /\ identity'[s] = <<q, process.start>>
    <3>1. PICK q \in Processes : identity[s] = <<q>> /\ q.start <= process.start
      BY <2>1, <2>3 DEF Reading
    <3>2. Append(<<q>>, process.start) = <<q, process.start>>
      BY AppendPair
    <3> QED BY <1>1, <2>1, <3>1, <3>2
  <2>4. \/ at' = at + 1 /\ status' = "try"
        \/ at' = at /\ status' = "except"
    BY <1>3 DEF ReadStart, Proceed, Trying
  <2> QED BY <1>1, <1>3, <2>1, <2>2, <2>3, <2>4 DEF ReadStart
<1> QED BY <1>2, <1>3

LEMMA PositionStep ==
  ASSUME OperationsTypeInv, PositionInv, [Next]_vars
  PROVE  PositionInv'
<1>t. /\ at \in DOMAIN Program /\ failure' = failure
      /\ BeforeAt' = BeforeAt /\ FirstAt' = FirstAt /\ AfterAt' = AfterAt
      /\ process \in Processes
  BY Advances DEF OperationsTypeInv, TypeOK, BeforeAt, FirstAt, AfterAt, Processes
<1>i. /\ at \in Nat /\ BeforeAt \in Nat /\ FirstAt \in Nat /\ AfterAt \in Nat
      /\ BeforeAt < FirstAt /\ FirstAt < AfterAt
  BY <1>t, Positions DEF BeforeAt, FirstAt, AfterAt
<1>p. /\ Step = "before" <=> at = BeforeAt
      /\ Step = "after" <=> at = AfterAt
      /\ Step \in Invocations => BeforeAt < at /\ at < AfterAt
      /\ at = FirstAt => Step \in Benchmarks
      /\ Benchmarks \subseteq Invocations
  BY <1>t, Positions DEF Invocations
<1>1. ASSUME NEW s \in Identifications, ReadPod(s) \/ ReadStart(s)
      PROVE  PositionInv'
  <2>1. /\ UNCHANGED <<process, served, outageBroken, inPod, ok, verdict, failure>>
        /\ Step = s /\ status = "try"
        /\ \A r \in Identifications \ {s} : identity'[r] = identity[r]
        /\ \/ at' = at /\ status' = "try" /\ ReadPod(s)
           \/ at' = at + 1 /\ status' = "try" /\ ReadStart(s)
           \/ at' = at /\ status' = "except"
        /\ ReadPod(s) => identity'[s] = <<process>>
        /\ s \in {"before", "after"} /\ ReadStart(s) =>
             \E q \in Processes : /\ q.start <= process.start /\ identity[s] = <<q>>
                                 /\ identity'[s] = <<q, process.start>>
    BY <1>1, ReadingStep DEF PositionInv, Trying
  <2>2. process.start \in 0 .. MaxRestarts /\ {"before", "after"} \subseteq Identifications
    BY <1>t DEF Processes, Identifications
  <2>3. \A r \in {"before", "after"} \ {s} : Reading(r)'
    BY <2>1, <2>2 DEF PositionInv, Reading
  <2>4. s \in {"before", "after"} => Reading(s)'
    <3>1. CASE ReadPod(s)
      BY <1>t, <2>1, <2>2, <3>1 DEF Reading
    <3>2. CASE ReadStart(s)
      BY <1>t, <2>1, <2>2, <3>2 DEF Reading
    <3> QED BY <1>1, <3>1, <3>2
  <2>5. Step \notin Benchmarks
    BY <2>1 DEF Identifications, Benchmarks
  <2>6. at' > BeforeAt => Whole("before")'
    <3>1. CASE s = "before"
      <4>1. at = BeforeAt
        BY <1>p, <2>1, <3>1
      <4>2. at' > BeforeAt => ReadStart(s)
        BY <1>i, <2>1, <4>1
      <4> QED BY <2>1, <3>1, <4>2 DEF Whole
    <3>2. CASE s # "before"
      <4>1. at # BeforeAt /\ identity'["before"] = identity["before"]
        BY <1>p, <2>1, <2>2, <3>2
      <4>2. at' > BeforeAt => at > BeforeAt
        BY <1>i, <2>1, <4>1
      <4> QED BY <4>1, <4>2 DEF PositionInv, Whole
    <3> QED BY <3>1, <3>2
  <2>7. at' < AfterAt => identity'["after"] = <<>>
    <3>1. at' < AfterAt => at < AfterAt /\ s # "after"
      BY <1>i, <1>p, <2>1
    <3> QED BY <2>1, <2>2, <3>1 DEF PositionInv
  <2>8. at' <= BeforeAt => served' = {} /\ inPod' = {}
    BY <1>i, <2>1 DEF PositionInv
  <2>9. at' > FirstAt => served' # {}
    BY <1>i, <1>p, <2>1, <2>5 DEF PositionInv
  <2> QED BY <1>t, <2>1, <2>3, <2>4, <2>6, <2>7, <2>8, <2>9 DEF PositionInv
<1>2. ASSUME NEW a \in Invocations, StartDriver(a)
      PROVE  PositionInv'
  <2>1. /\ UNCHANGED <<at, status, identity, verdict, process>>
        /\ Step = a /\ inPod' = inPod \cup {a}
        /\ served' = IF {a} \cap Benchmarks # {} THEN served \cup {process} ELSE served
    BY <1>2 DEF StartDriver, Observe, Trying
  <2>2. at > BeforeAt
    BY <1>p, <2>1
  <2>3. \A s : Reading(s)' <=> Reading(s)
    BY <2>1 DEF Reading
  <2>4. ~(at <= BeforeAt)
    BY <1>i, <2>2
  <2> QED BY <1>t, <2>1, <2>3, <2>4 DEF PositionInv, Whole
<1>3. ASSUME NEW a \in Invocations,
             DriverExits(a) \/ DriverIsCutOff(a) \/ DriverTimesOut(a) \/ Straggle(a)
      PROVE  PositionInv'
  <2>1. /\ UNCHANGED <<identity, served, process, verdict>> /\ inPod' \subseteq inPod
        /\ a \in inPod /\ (status' = "try" => status = "try")
        /\ at' = at \/ (at' = at + 1 /\ Step = a)
    BY <1>3 DEF DriverExits, DriverIsCutOff, DriverTimesOut, Straggle, Proceed, Trying
  <2>2. \A s : Reading(s)' <=> Reading(s)
    BY <2>1 DEF Reading
  <2>3. at > BeforeAt
    BY <1>i, <2>1 DEF PositionInv
  <2>4. at' > BeforeAt /\ (at' < AfterAt => at < AfterAt)
    BY <1>i, <2>1, <2>3
  <2>5. at' > FirstAt => served # {}
    BY <1>i, <1>p, <2>1 DEF PositionInv
  <2>6. ~(at' <= BeforeAt)
    BY <1>i, <2>1, <2>4
  <2> QED BY <1>t, <2>1, <2>2, <2>3, <2>4, <2>5, <2>6 DEF PositionInv, Whole
<1>4. CASE Result
  BY <1>4, <1>t DEF Result, PositionInv, Reading, Whole
<1>5. CASE RestartApi \/ BrokerFollows
  <2>1. /\ UNCHANGED <<at, status, identity, verdict, inPod>>
        /\ served' = IF inPod \cap Benchmarks # {} THEN served \cup {process'} ELSE served
        /\ process' = process \/ process'.start = process.start + 1
    BY <1>5 DEF RestartApi, BrokerFollows, Observe
  <2>2. \A s : Reading(s) => Reading(s)'
    <3>1. process.start \in Nat
      BY <1>t DEF Processes
    <3>2. ASSUME NEW n \in Nat, n <= process.start PROVE n <= process'.start
      BY <2>1, <3>1, <3>2
    <3>3. \A q \in Processes : q.start \in Nat
      BY DEF Processes
    <3> QED BY <2>1, <3>2, <3>3 DEF Reading
  <2>3. at <= BeforeAt => served' = {}
    BY <2>1 DEF PositionInv
  <2> QED BY <1>t, <2>1, <2>2, <2>3 DEF PositionInv, Whole
<1>6. CASE Quiet
  <2>1. /\ UNCHANGED <<identity, served, process, inPod, verdict>>
        /\ status' = "try" => status = "try"
        /\ at' = at \/ (at' = at + 1 /\ Step \notin {"before", "after", "result"} \cup Invocations)
    BY <1>6 DEF Quiet
  <2>2. \A s : Reading(s)' <=> Reading(s)
    BY <2>1 DEF Reading
  <2>3. /\ at' > BeforeAt => at > BeforeAt
        /\ at' < AfterAt => at < AfterAt
        /\ at' <= BeforeAt => at <= BeforeAt
        /\ at' > FirstAt => at > FirstAt
    BY <1>i, <1>p, <2>1
  <2> QED BY <1>t, <2>1, <2>2, <2>3 DEF PositionInv, Whole
<1> QED BY <1>1, <1>2, <1>3, <1>4, <1>5, <1>6, ProcessSteps

(* The processes of the benchmark phases, in the order in which they ran,  *)
(* are not older than the first reading and, as long as nothing has gone   *)
(* wrong, not newer than the second.                                       *)
Deciding == ok /\ status = "try"

ProcessInv ==
  /\ \A p \in served : p.start <= process.start /\ (p.start = process.start => p = process)
  /\ \A p, r \in served : p.start = r.start => p = r
  /\ \A q, n : identity["before"] = <<q, n>> => \A p \in served : n <= p.start
  /\ Deciding /\ at >= AfterAt /\ identity["after"] # <<>> =>
       \A p \in served : p.start <= identity["after"][1].start
  /\ Deciding => inPod \subseteq {Step} /\ ~outageBroken
  /\ verdict = "passed" => inPod = {} /\ PassedMeansOneProcess

(* The verdict: two equal readings enclose one process. *)
LEMMA OneProcess ==
  ASSUME OperationsTypeInv, PositionInv, ProcessInv, Deciding, Step = "result", Passed
  PROVE  Cardinality(served) = 1 /\ inPod = {}
<1>t. /\ at \in DOMAIN Program /\ served \subseteq Processes
  BY DEF OperationsTypeInv, TypeOK, Processes
<1>1. /\ at \in Nat /\ at > AfterAt /\ at > BeforeAt /\ at > FirstAt /\ at >= AfterAt
      /\ Step \notin Invocations
  BY <1>t, Positions DEF BeforeAt, AfterAt, FirstAt, Invocations, Benchmarks
<1>2. PICK q, n : identity["before"] = <<q, n>>
  BY <1>1 DEF PositionInv, Whole
<1>3. identity["after"] = <<q, n>>
  BY <1>2 DEF Passed
<1>4. q.start <= n /\ q.start \in Nat /\ n \in Nat
  <2>1. Reading("before")
    BY DEF PositionInv
  <2>2. PICK r \in Processes, m \in 0 .. MaxRestarts : <<q, n>> = <<r, m>> /\ r.start <= m
    <3>1. <<q, n>> # <<>> /\ \A r : <<q, n>> # <<r>>
      OBVIOUS
    <3> QED BY <1>2, <2>1, <3>1 DEF Reading
  <2>3. q = r /\ n = m
    BY <2>2
  <2> QED BY <2>2, <2>3 DEF Processes
<1>5. \A p \in served : p.start \in Nat /\ n <= p.start /\ p.start <= q.start
  <2>1. \A p \in served : n <= p.start
    BY <1>2 DEF ProcessInv
  <2>2. identity["after"] # <<>> /\ identity["after"][1] = q
    BY <1>3
  <2>3. \A p \in served : p.start <= q.start
    BY <1>1, <2>2 DEF ProcessInv
  <2> QED BY <1>t, <2>1, <2>3 DEF Processes
<1>6. \A p \in served : p.start = q.start
  BY <1>4, <1>5
<1>7. PICK p \in served : TRUE
  BY <1>1 DEF PositionInv
<1>8. served = {p}
  BY <1>6, <1>7 DEF ProcessInv
<1>9. Cardinality({p}) = 1
  BY FS_Singleton
<1>10. inPod \subseteq {Step} /\ inPod \subseteq Invocations
  BY DEF ProcessInv, OperationsTypeInv, TypeOK
<1> QED BY <1>1, <1>8, <1>9, <1>10

(* What a step does to the process, the phases that see it and the reading. *)
LEMMA ServedSteps ==
  ASSUME OperationsTypeInv, PositionInv, [Next]_vars
  PROVE  /\ process' = process \/ process'.start = process.start + 1
         /\ \/ served' = served
            \/ /\ served' = served \cup {process'} /\ identity' = identity
               /\ status = "try" \/ inPod # {}
               /\ Step \in Invocations \/ inPod \cap Benchmarks # {}
         /\ \A s \in {"before", "after"} :
              identity'[s] = identity[s] \/ (Step = s /\ (ReadPod(s) \/ ReadStart(s)))
<1>1. ASSUME NEW s \in Identifications, ReadPod(s) \/ ReadStart(s)
      PROVE  /\ process' = process /\ served' = served /\ Step = s
             /\ \A r \in {"before", "after"} : identity'[r] = identity[r] \/ r = s
  <2>1. {"before", "after"} \subseteq Identifications
    BY DEF Identifications
  <2>2. s \in {"before", "after"} => Reading(s)
    BY DEF PositionInv
  <2> QED BY <1>1, <2>1, <2>2, ReadingStep DEF Trying
<1>2. ASSUME NEW a \in Invocations, StartDriver(a)
      PROVE  /\ UNCHANGED <<process, identity>> /\ Step \in Invocations /\ status = "try"
             /\ served' = served \/ served' = served \cup {process'}
  BY <1>2 DEF StartDriver, Observe, Trying
<1>3. ASSUME NEW a \in Invocations,
             DriverExits(a) \/ DriverIsCutOff(a) \/ DriverTimesOut(a) \/ Straggle(a)
      PROVE  UNCHANGED <<process, identity, served>>
  BY <1>3 DEF DriverExits, DriverIsCutOff, DriverTimesOut, Straggle
<1>4. CASE Result
  BY <1>4 DEF Result
<1>5. CASE RestartApi \/ BrokerFollows
  <2>1. /\ identity' = identity
        /\ process' = process \/ process'.start = process.start + 1
        /\ served' = IF inPod \cap Benchmarks # {} THEN served \cup {process'} ELSE served
    BY <1>5 DEF RestartApi, BrokerFollows, Observe
  <2>2. inPod \cap Benchmarks # {} => inPod # {}
    OBVIOUS
  <2> QED BY <2>1, <2>2
<1>6. CASE Quiet
  BY <1>6 DEF Quiet
<1> QED BY <1>1, <1>2, <1>3, <1>4, <1>5, <1>6, ProcessSteps

(* As long as nothing has gone wrong, only the invocation of the step that *)
(* is under way runs in the pod, and the outage is one.                    *)
LEMMA DecidingStep ==
  ASSUME OperationsTypeInv, PositionInv, OutageInv, ProcessInv, [Next]_vars, Deciding'
  PROVE  Deciding /\ inPod' \subseteq {Step'} /\ ~outageBroken'
<1>t. /\ at \in DOMAIN Program /\ inPod \subseteq Invocations
      /\ ok \in BOOLEAN /\ failure' = failure
  BY Advances DEF OperationsTypeInv, TypeOK
<1>d. Deciding => inPod \subseteq {Step} /\ ~outageBroken
  BY DEF ProcessInv
<1>s. at' = at => Step' = Step
  BY <1>t DEF Step, Program
<1>b. ok' /\ status' = "try"
  BY DEF Deciding
<1>o. "broker-down" = Step => failure /\ at = 10
  BY <1>t, Positions
<1>1. ASSUME NEW s \in Identifications, ReadPod(s) \/ ReadStart(s)
      PROVE  Deciding /\ inPod' \subseteq {Step'} /\ ~outageBroken'
  <2>1. s \in {"before", "after"} => Reading(s)
    BY DEF PositionInv
  <2>2. UNCHANGED <<outageBroken, inPod, ok>> /\ Step = s /\ status = "try"
    BY <1>1, <2>1, ReadingStep DEF Trying
  <2>3. s \notin Invocations
    BY DEF Identifications, Invocations, Benchmarks
  <2> QED BY <1>t, <1>b, <1>d, <2>2, <2>3 DEF Deciding
<1>2. ASSUME NEW a \in Invocations, StartDriver(a)
      PROVE  Deciding /\ inPod' \subseteq {Step'} /\ ~outageBroken'
  <2>1. /\ UNCHANGED <<at, status, ok>> /\ Step = a /\ inPod' = inPod \cup {a}
        /\ outageBroken' = (outageBroken \/ ("broker-down" \in {a} /\ brokerUp))
    BY <1>2 DEF StartDriver, Observe, Trying
  <2>2. Deciding
    BY <1>b, <2>1 DEF Deciding
  <2>3. a = "broker-down" => ~brokerUp
    BY <1>b, <1>o, <2>1 DEF OutageInv
  <2> QED BY <1>s, <1>d, <2>1, <2>2, <2>3
<1>3. ASSUME NEW a \in Invocations,
             DriverExits(a) \/ DriverIsCutOff(a) \/ DriverTimesOut(a) \/ Straggle(a)
      PROVE  Deciding /\ inPod' \subseteq {Step'} /\ ~outageBroken'
  <2>1. CASE DriverExits(a)
    <3>1. /\ Step = a /\ status = "try" /\ inPod' = inPod \ {a}
          /\ ok' \in {ok, FALSE} /\ outageBroken' = outageBroken
      BY <2>1 DEF DriverExits, Trying
    <3>2. Deciding
      BY <1>b, <1>t, <3>1 DEF Deciding
    <3> QED BY <1>d, <3>1, <3>2
  <2>2. CASE DriverIsCutOff(a) \/ DriverTimesOut(a)
    BY <1>b, <2>2 DEF DriverIsCutOff, DriverTimesOut
  <2>3. CASE Straggle(a)
    <3>1. UNCHANGED <<at, status, ok, outageBroken>> /\ inPod' = inPod \ {a}
      BY <2>3 DEF Straggle
    <3> QED BY <1>b, <1>d, <1>s, <3>1 DEF Deciding
  <2> QED BY <1>3, <2>1, <2>2, <2>3
<1>4. CASE Result
  BY <1>4, <1>b DEF Result
<1>5. CASE RestartApi \/ BrokerFollows
  <2>1. /\ UNCHANGED <<at, status, ok, inPod>>
        /\ \/ brokerUp' = brokerUp /\ outageBroken' = (outageBroken \/ ("broker-down" \in inPod /\ brokerUp))
           \/ /\ brokerUp' = (replicas = 1)
              /\ outageBroken' = (outageBroken \/ ("broker-down" \in inPod /\ brokerUp'))
    BY <1>5 DEF RestartApi, BrokerFollows, Observe
  <2>2. Deciding
    BY <1>b, <2>1 DEF Deciding
  <2>3. "broker-down" \in inPod => ~brokerUp /\ replicas # 1
    <3>1. "broker-down" \in inPod => failure /\ at = 10
      BY <1>d, <1>o, <2>2
    <3> QED BY <3>1, <2>2 DEF OutageInv, Deciding
  <2> QED BY <1>d, <1>s, <2>1, <2>2, <2>3
<1>6. CASE Quiet
  <2>1. UNCHANGED <<inPod, outageBroken>> /\ Deciding
    BY <1>6, <1>b DEF Quiet, Deciding
  <2>2. at' = at \/ Step \notin Invocations
    BY <1>6 DEF Quiet
  <2> QED BY <1>d, <1>s, <1>t, <2>1, <2>2
<1> QED BY <1>1, <1>2, <1>3, <1>4, <1>5, <1>6, ProcessSteps

LEMMA ProcessStep ==
  ASSUME OperationsTypeInv, PositionInv, OutageInv, ProcessInv, [Next]_vars
  PROVE  ProcessInv'
<1>t. /\ at \in DOMAIN Program /\ process \in Processes /\ served \subseteq Processes
      /\ AfterAt' = AfterAt
  BY Advances DEF OperationsTypeInv, TypeOK, Processes, AfterAt
<1>p. /\ process' = process \/ process'.start = process.start + 1
      /\ \/ served' = served
         \/ /\ served' = served \cup {process'} /\ identity' = identity
            /\ status = "try" \/ inPod # {}
            /\ Step \in Invocations \/ inPod \cap Benchmarks # {}
      /\ \A s \in {"before", "after"} :
           identity'[s] = identity[s] \/ (Step = s /\ (ReadPod(s) \/ ReadStart(s)))
  BY ServedSteps
<1>i. /\ at \in Nat /\ AfterAt \in Nat /\ BeforeAt \in Nat
      /\ Step = "before" => at = BeforeAt
      /\ Step = "after" => at = AfterAt
      /\ Step \in Invocations => at < AfterAt
  BY <1>t, Positions DEF AfterAt, BeforeAt
<1>n. /\ process.start \in Nat /\ \A p \in served : p.start \in Nat
      /\ process.start <= process'.start
      /\ process' # process => process.start < process'.start
  <2>1. \A p \in Processes : p.start \in Nat
    BY DEF Processes
  <2> QED BY <1>t, <1>p, <2>1
<1>h. /\ \A p \in served : p.start <= process.start /\ (p.start = process.start => p = process)
      /\ \A p, r \in served : p.start = r.start => p = r
  BY DEF ProcessInv
<1>1. \A p \in served' : p.start <= process'.start /\ (p.start = process'.start => p = process')
  <2>1. \A p \in served : p.start <= process'.start /\ (p.start = process'.start => p = process')
    <3> SUFFICES ASSUME NEW p \in served
                 PROVE  p.start <= process'.start /\ (p.start = process'.start => p = process')
      OBVIOUS
    <3>1. CASE process' = process
      BY <1>h, <3>1
    <3>2. CASE process'.start = process.start + 1
      BY <1>h, <1>n, <3>2
    <3> QED BY <1>p, <3>1, <3>2
  <2>2. process'.start <= process'.start
    BY <1>n, <1>p
  <2> QED BY <1>p, <2>1, <2>2
<1>2. \A p, r \in served' : p.start = r.start => p = r
  <2>1. \A p \in served : p.start = process'.start => p = process'
    <3> SUFFICES ASSUME NEW p \in served, p.start = process'.start
                 PROVE  p = process'
      OBVIOUS
    <3>1. CASE process' = process
      BY <1>h, <3>1
    <3>2. CASE process'.start = process.start + 1
      BY <1>h, <1>n, <3>2
    <3> QED BY <1>p, <3>1, <3>2
  <2> QED BY <1>p, <1>h, <2>1
<1>3. \A q, n : identity'["before"] = <<q, n>> => \A p \in served' : n <= p.start
  <2> SUFFICES ASSUME NEW q, NEW n, identity'["before"] = <<q, n>>, NEW p \in served'
               PROVE  n <= p.start
    OBVIOUS
  <2>1. CASE identity'["before"] = identity["before"]
    <3>1. n \in Nat /\ n <= process.start
      <4>1. <<q, n>> # <<>> /\ \A r : <<q, n>> # <<r>>
        OBVIOUS
      <4>2. PICK r \in Processes, m \in 0 .. MaxRestarts : <<q, n>> = <<r, m>> /\ m <= process.start
        BY <2>1, <4>1 DEF PositionInv, Reading
      <4>3. n = m
        BY <4>2
      <4> QED BY <4>2, <4>3
    <3>2. \A r \in served : n <= r.start
      BY <2>1 DEF ProcessInv
    <3>3. n <= process'.start
      BY <1>n, <1>p, <3>1
    <3> QED BY <1>p, <3>2, <3>3
  <2>2. CASE Step = "before"
    <3>1. served = {} /\ inPod = {}
      BY <1>i, <2>2 DEF PositionInv
    <3>2. Step \notin Invocations
      BY <2>2 DEF Invocations, Benchmarks
    <3> QED BY <1>p, <3>1, <3>2
  <2> QED BY <1>p, <2>1, <2>2
<1>4. ASSUME Deciding', at' >= AfterAt, identity'["after"] # <<>>, NEW p \in served'
      PROVE  p.start <= identity'["after"][1].start
  <2>1. Deciding /\ inPod \subseteq {Step} /\ inPod \subseteq Invocations
    BY <1>4, DecidingStep DEF ProcessInv, OperationsTypeInv, TypeOK
  <2>2. at >= AfterAt
    <3>1. CASE Step = "after"
      BY <1>i, <3>1
    <3>2. CASE Step # "after"
      BY <1>4, <1>i, <1>p, <3>2 DEF PositionInv
    <3> QED BY <3>1, <3>2
  <2>3. Step \notin Invocations /\ inPod = {}
    BY <1>i, <2>1, <2>2
  <2>4. served' = served
    BY <1>p, <2>3
  <2>5. CASE identity'["after"] = identity["after"]
    BY <1>4, <2>1, <2>2, <2>4, <2>5 DEF ProcessInv
  <2>6. CASE ReadPod("after") \/ ReadStart("after")
    <3>1. "after" \in Identifications /\ Reading("after")
      BY DEF Identifications, PositionInv
    <3>2. /\ ReadPod("after") => identity'["after"] = <<process>>
          /\ ReadStart("after") =>
               \E q \in Processes : /\ q.start <= process.start /\ identity["after"] = <<q>>
                                   /\ identity'["after"] = <<q, process.start>>
      BY <2>6, <3>1, ReadingStep
    <3>3. CASE ReadPod("after")
      BY <1>h, <2>4, <3>2, <3>3
    <3>4. CASE ReadStart("after")
      <4>1. PICK q \in Processes : /\ identity["after"] = <<q>>
                                   /\ identity'["after"] = <<q, process.start>>
        BY <3>2, <3>4
      <4>2. identity["after"] # <<>> /\ identity["after"][1] = q /\ identity'["after"][1] = q
        BY <4>1
      <4> QED BY <2>1, <2>2, <2>4, <4>2 DEF ProcessInv
    <3> QED BY <2>6, <3>3, <3>4
  <2> QED BY <1>p, <2>5, <2>6
<1>5. ASSUME verdict' = "passed"
      PROVE  inPod' = {} /\ PassedMeansOneProcess'
  <2>1. CASE verdict = "passed"
    <3>1. /\ inPod = {} /\ Cardinality(served) = 1 /\ ~outageBroken /\ status # "try"
      BY <2>1 DEF ProcessInv, PassedMeansOneProcess, PositionInv
    <3>2. UNCHANGED <<inPod, served, outageBroken>>
      <4>1. \A a : StartDriver(a) => FALSE
        BY <3>1 DEF StartDriver, Trying
      <4>2. \A a : DriverExits(a) \/ DriverIsCutOff(a) \/ DriverTimesOut(a) \/ Straggle(a) => FALSE
        BY <3>1 DEF DriverExits, DriverIsCutOff, DriverTimesOut, Straggle
      <4>3. \A s : ReadPod(s) \/ ReadStart(s) => FALSE
        BY <3>1 DEF ReadPod, ReadStart, Trying
      <4>4. ASSUME BrokerFollows
            PROVE  UNCHANGED <<inPod, served, outageBroken>>
        <5>1. inPod \cap Benchmarks = {} /\ "broker-down" \notin inPod
          BY <3>1
        <5>2. inPod' = inPod /\ served' = served
          BY <4>4, <5>1 DEF BrokerFollows, Observe
        <5>3. outageBroken' = outageBroken
          BY <4>4, <5>1 DEF BrokerFollows, Observe, OperationsTypeInv, TypeOK
        <5> QED BY <5>2, <5>3
      <4>5. ~Result /\ ~RestartApi
        BY <3>1 DEF Result, RestartApi, Trying
      <4>6. CASE Quiet
        BY <4>6 DEF Quiet
      <4> QED BY <4>1, <4>2, <4>3, <4>4, <4>5, <4>6, ProcessSteps
    <3> QED BY <3>1, <3>2 DEF PassedMeansOneProcess
  <2>2. CASE verdict # "passed"
    <3>1. Result
      <4>1. \A a : StartDriver(a) \/ DriverExits(a) \/ DriverIsCutOff(a) \/ DriverTimesOut(a)
                     \/ Straggle(a) => verdict' = verdict
        BY DEF StartDriver, DriverExits, DriverIsCutOff, DriverTimesOut, Straggle
      <4>2. \A s : ReadPod(s) \/ ReadStart(s) => verdict' = verdict
        BY DEF ReadPod, ReadStart
      <4>3. BrokerFollows \/ RestartApi \/ Quiet => verdict' = verdict
        BY DEF BrokerFollows, RestartApi, Quiet
      <4> QED BY <1>5, <2>2, <4>1, <4>2, <4>3, ProcessSteps
    <3>2. /\ Step = "result" /\ status = "try" /\ Passed
          /\ UNCHANGED <<inPod, served, outageBroken>>
      BY <1>5, <3>1 DEF Result, Trying
    <3>3. Deciding
      BY <3>2 DEF Passed, Deciding
    <3>4. Cardinality(served) = 1 /\ inPod = {} /\ ~outageBroken
      BY <3>2, <3>3, OneProcess DEF ProcessInv
    <3> QED BY <3>2, <3>4 DEF PassedMeansOneProcess
  <2> QED BY <2>1, <2>2
<1>6. Deciding' => inPod' \subseteq {Step'} /\ ~outageBroken'
  BY DecidingStep
<1> QED BY <1>t, <1>1, <1>2, <1>3, <1>4, <1>5, <1>6 DEF ProcessInv

(* A passing result was measured on one process of the API, and its outage *)
(* phase without a broker, for any number of restarts.                     *)
THEOREM PassedCorrect == Spec => []PassedMeansOneProcess
<1>1. Init => OperationsTypeInv /\ PositionInv /\ OutageInv /\ ProcessInv
  <2> SUFFICES ASSUME Init
               PROVE  PositionInv /\ OutageInv /\ ProcessInv
    BY OperationsTypeInit
  <2>1. /\ at = 1 /\ served = {} /\ inPod = {} /\ verdict = "none" /\ ~outageBroken
        /\ identity["before"] = <<>> /\ identity["after"] = <<>>
    BY DEF Init, Identifications
  <2>2. PositionInv
    BY <2>1 DEF PositionInv, Reading, BeforeAt, FirstAt
  <2>3. OutageInv
    BY <2>1 DEF OutageInv
  <2>4. \A q, n : <<q, n>> # <<>>
    OBVIOUS
  <2>5. ProcessInv
    BY <2>1, <2>4 DEF ProcessInv
  <2> QED BY <2>2, <2>3, <2>5
<1>2. OperationsTypeInv /\ PositionInv /\ OutageInv /\ ProcessInv /\ [Next]_vars
        => (OperationsTypeInv /\ PositionInv /\ OutageInv /\ ProcessInv)'
  BY OperationsTypeStep, PositionStep, OutageStep, ProcessStep
<1>3. ProcessInv => PassedMeansOneProcess
  BY DEF ProcessInv, PassedMeansOneProcess
<1> QED BY <1>1, <1>2, <1>3, PTL DEF Spec

================================================================================
