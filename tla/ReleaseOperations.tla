--------------------------- MODULE ReleaseOperations ---------------------------
(***************************************************************************)
(* The harness scripts/run-release-operations.py: it sets up a load pod,   *)
(* and with --failure a namespace with its own broker, runs the phases     *)
(* through the driver in the pod, compares the API's process before and    *)
(* after, exports the evidence and cleans up.                              *)
(*                                                                         *)
(* Each kubectl call is a step.  It may raise, before or after the cluster *)
(* has done what it asks for; the harness may be interrupted or killed.    *)
(* The cluster is external: the broker follows its replica count in its    *)
(* own time, or never, and the API's process may be restarted, in its pod  *)
(* or in a new one, MaxRestarts times.  What a phase's verdict means is    *)
(* the subject of ReleaseMeasurement.                                      *)
(***************************************************************************)
EXTENDS Naturals, Sequences, FiniteSets

CONSTANT MaxRestarts

ASSUME OperationsAssumption == MaxRestarts \in Nat

VARIABLES
  failure,     \* args.failure
  at,          \* the step of main that is under way
  status,      \* the block of main it is in
  created,     \* run.created
  exported,    \* run.exported
  identity,    \* process_identity by step, complete or half read
  ok,          \* all steps so far came out as the result wants them
  verdict,     \* result.json
  returned,    \* driver invocations that ended under the harness's eyes
  kept,        \* evidence exported to the output directory
  refused,     \* the calls of the cleanup that failed
  polling,     \* flips with every turn of the polling loop it is in
  namespace, pod,          \* external: the namespace and the load pod
  replicas, brokerUp,      \* external: the broker, wanted and actual
  process,                 \* external: the API's process
  inPod,                   \* external: driver invocations running in the pod
  evidence,                \* external: /tmp/release-check
  served,                  \* processes that ran during a benchmark phase
  outageBroken             \* the broker was up during the outage phase

control == <<at, status, polling>>
flags == <<failure, created, exported>>
checks == <<identity, ok, verdict, returned>>
outputs == <<kept, refused>>
harnessVars == <<control, flags, checks, outputs>>
places == <<namespace, pod>>
broker == <<replicas, brokerUp>>
driving == <<inPod, evidence>>
history == <<served, outageBroken>>
clusterVars == <<places, broker, process, driving, history>>
vars == <<harnessVars, clusterVars>>

(* The steps of main, setup_failure, setup_driver and failure, in order. *)
LoadProgram ==
  <<"driver_pod", "before", "healthy", "monitor", "readback", "after",
    "export", "result">>

FailureProgram ==
  <<"namespace", "install", "driver_pod", "before", "failure_before", "baseline",
    "stop", "stopped", "outage_probe", "broker-down", "restore", "recovery",
    "recovered", "failure_after", "monitor", "readback", "after",
    "export", "result">>

Program == IF failure THEN FailureProgram ELSE LoadProgram
Step == Program[at]

Identifications == {"before", "failure_before", "failure_after", "after"}
Benchmarks == {"healthy", "baseline", "broker-down", "recovered"}
Invocations == Benchmarks \cup {"monitor", "readback"}
Init ==
  /\ failure \in BOOLEAN
  /\ at = 1
  /\ status = "try"
  /\ created = FALSE
  /\ exported = FALSE
  /\ identity = [s \in Identifications |-> <<>>]
  /\ ok = TRUE
  /\ verdict = "none"
  /\ returned = {}
  /\ kept = {}
  /\ refused = {}
  /\ polling = FALSE
  /\ namespace = IF failure THEN "absent" ELSE "present"
  /\ pod = "absent"
  /\ replicas = IF failure THEN 0 ELSE 1
  /\ brokerUp = ~failure
  /\ process = [uid |-> 0, start |-> 0]
  /\ inPod = {}
  /\ evidence = {}
  /\ served = {}
  /\ outageBroken = FALSE

Trying(s) == status = "try" /\ Step = s

(* A call of the step returns, or raises having done what it does. *)
Proceed == \/ at' = at + 1 /\ UNCHANGED status
           \/ status' = "except" /\ UNCHANGED at

(* A benchmark phase sees the process and the broker while it runs. *)
Observe(running, proc, up) ==
  /\ served' = IF running \cap Benchmarks # {} THEN served \cup {proc} ELSE served
  /\ outageBroken' = (outageBroken \/ ("broker-down" \in running /\ up))

------------------------------------------------------------------------------
(* setup_failure and setup_driver.                                         *)

CreateNamespace ==
  /\ Trying("namespace")
  /\ namespace' = "present"
  /\ \/ created' = TRUE /\ at' = at + 1 /\ UNCHANGED status
     \/ status' = "except" /\ UNCHANGED <<at, created>>
  /\ UNCHANGED <<polling, failure, exported, checks, outputs, pod,
                 broker, process, driving, history>>

Install ==
  /\ Trying("install")
  /\ replicas' = 1
  /\ \/ brokerUp' = TRUE /\ at' = at + 1 /\ UNCHANGED status
     \/ status' = "except" /\ UNCHANGED <<at, brokerUp>>
  /\ UNCHANGED <<polling, flags, checks, outputs, places, process, driving, history>>

CreateDriverPod ==
  /\ Trying("driver_pod")
  /\ pod' = "present"
  /\ Proceed
  /\ UNCHANGED <<polling, flags, checks, outputs, namespace,
                 broker, process, driving, history>>

------------------------------------------------------------------------------
(* process_identity: two calls, between which the process may change.      *)

(* uid, container_id, restarts, image_id. *)
PodIdentity == process

ReadPod(s) ==
  /\ Trying(s)
  /\ identity[s] = <<>>
  /\ identity' = [identity EXCEPT ![s] = <<PodIdentity>>]
  /\ UNCHANGED <<control, flags, ok, verdict, returned, outputs, clusterVars>>

(* process_start_ticks, read inside the container. *)
ReadStart(s) ==
  /\ Trying(s)
  /\ Len(identity[s]) = 1
  /\ identity' = [identity EXCEPT ![s] = Append(@, process.start)]
  /\ Proceed
  /\ UNCHANGED <<polling, flags, ok, verdict, returned, outputs, clusterVars>>

------------------------------------------------------------------------------
(* driver: one invocation in the pod, polled until it ends.                *)

StartDriver(a) ==
  /\ Trying(a)
  /\ pod = "present"
  /\ a \notin inPod
  /\ inPod' = inPod \cup {a}
  /\ Observe({a}, process, brokerUp)
  /\ UNCHANGED <<harnessVars, places, broker, process, evidence>>

(* It exits with code 0 or another; its evidence is in the pod. *)
DriverExits(a) ==
  /\ Trying(a)
  /\ a \in inPod
  /\ inPod' = inPod \ {a}
  /\ evidence' = evidence \cup {a}
  /\ returned' = returned \cup {a}
  /\ ok' \in {ok, FALSE}
  /\ Proceed
  /\ polling' = FALSE
  /\ UNCHANGED <<flags, identity, verdict, outputs,
                 places, broker, process, history>>

(* The connection to the pod is lost: kubectl exits, the invocation goes on *)
(* (at most one does at a time, which is a bound).                          *)
DriverIsCutOff(a) ==
  /\ Trying(a)
  /\ inPod = {a}
  /\ ok' = FALSE
  /\ Proceed
  /\ polling' = FALSE
  /\ UNCHANGED <<flags, identity, verdict, returned, outputs, clusterVars>>

(* A turn of driver's loop, or of the one that probes for recovery. *)
Poll ==
  /\ status = "try"
  /\ Step \in inPod \cup {"recovery"}
  /\ polling' = ~polling
  /\ UNCHANGED <<at, status, flags, checks, outputs, clusterVars>>

(* After six minutes, or when an observation fails, kubectl is terminated; *)
(* the invocation goes on in the pod and may end later.                    *)
DriverTimesOut(a) ==
  /\ Trying(a)
  /\ a \in inPod
  /\ status' = "except"
  /\ polling' = FALSE
  /\ UNCHANGED <<at, flags, checks, outputs, clusterVars>>

Straggle(a) ==
  /\ a \in inPod
  /\ ~Trying(a)
  /\ pod = "present"
  /\ inPod' = inPod \ {a}
  /\ evidence' = evidence \cup {a}
  /\ UNCHANGED <<harnessVars, places, broker, process, history>>

------------------------------------------------------------------------------
(* failure: the broker is stopped and restored.                            *)

StopBroker ==
  /\ Trying("stop")
  /\ replicas' = 0
  /\ Proceed
  /\ UNCHANGED <<polling, flags, checks, outputs, places,
                 brokerUp, process, driving, history>>

(* A mutant: the phase starts while the broker's pod terminates. *)
BrokerIsGoneAtOnce == TRUE

(* kubectl wait --for=delete. *)
BrokerIsGone == ~brokerUp

AwaitStop ==
  /\ Trying("stopped")
  /\ BrokerIsGone
  /\ Proceed
  /\ UNCHANGED <<polling, flags, checks, outputs, clusterVars>>

(* One recovery_probe; the result wants a 503 that leaves delivery open. *)
OutageProbe ==
  /\ Trying("outage_probe")
  /\ ok' \in {ok, FALSE}
  /\ Proceed
  /\ UNCHANGED <<polling, flags, identity, verdict, returned, outputs, clusterVars>>

RestoreBroker ==
  /\ Trying("restore")
  /\ replicas' = 1
  /\ Proceed
  /\ UNCHANGED <<polling, flags, checks, outputs, places,
                 brokerUp, process, driving, history>>

(* A probe is answered with an acknowledged prediction within a minute. *)
Recovered ==
  /\ Trying("recovery")
  /\ brokerUp
  /\ Proceed
  /\ polling' = FALSE
  /\ UNCHANGED <<flags, checks, outputs, clusterVars>>

(* A mutant: the harness probes until it succeeds. *)
GiveUpRecoveryNever == FALSE /\ UNCHANGED vars

(* The minute is over: the next phase runs all the same. *)
GiveUpRecovery ==
  /\ Trying("recovery")
  /\ ok' = FALSE
  /\ Proceed
  /\ polling' = FALSE
  /\ UNCHANGED <<flags, identity, verdict, returned, outputs, clusterVars>>

------------------------------------------------------------------------------
(* main: export, result, except and finally.                               *)

(* A mutant: the flag is set before the copy. *)
ExportRaisesFlagged == exported' = TRUE

(* export sets exported after the copy. *)
ExportRaises == UNCHANGED exported

Copy == /\ pod = "present"
        /\ kept' = kept \cup evidence
        /\ exported' = TRUE

Export ==
  /\ Trying("export")
  /\ \/ Copy /\ at' = at + 1 /\ UNCHANGED status
     \/ ExportRaises /\ status' = "except" /\ UNCHANGED <<at, kept>>
  /\ UNCHANGED <<polling, failure, created, checks, refused, clusterVars>>

Passed ==
  /\ ok
  /\ identity["before"] = identity["after"]
  /\ failure => identity["failure_before"] = identity["failure_after"]

Result ==
  /\ Trying("result")
  /\ verdict' = IF Passed THEN "passed" ELSE "failed"
  /\ status' \in {"finally", "except"}
  /\ UNCHANGED <<at, polling, flags, identity, ok, returned, outputs, clusterVars>>

(* A call raises without having done anything. *)
Raise ==
  /\ status = "try"
  /\ ~(Step \in Invocations /\ Step \in inPod)
  /\ status' = "except"
  /\ UNCHANGED <<at, polling, flags, checks, outputs, clusterVars>>

(* failure.json is written and an export attempted; either may fail. *)
HandleException ==
  /\ status = "except"
  /\ status' = "finally"
  /\ Copy \/ (ExportRaises /\ UNCHANGED kept)
  /\ UNCHANGED <<at, polling, failure, created, checks, refused, clusterVars>>

(* Ctrl-C is not an Exception: the finally block runs at once. *)
Interrupt ==
  /\ status \in {"try", "except"}
  /\ status' = "finally"
  /\ polling' = FALSE
  /\ UNCHANGED <<at, flags, checks, outputs, clusterVars>>

(* A mutant: the broker is restored after a result only. *)
MustRestoreOnResult == failure /\ created /\ verdict # "none"

MustRestore == failure /\ created

(* kubectl scale without check: only its timeout raises, and ends main. *)
RestoreInFinally ==
  /\ status = "finally"
  /\ \/ /\ MustRestore
        /\ replicas' = 1
        /\ status' = "delete"
        /\ UNCHANGED refused
     \/ /\ MustRestore
        /\ refused' = refused \cup {"restore"}
        /\ status' \in {"delete", "ended"}
        /\ UNCHANGED replicas
     \/ /\ ~MustRestore
        /\ status' = "delete"
        /\ UNCHANGED <<replicas, refused>>
  /\ UNCHANGED <<at, polling, flags, checks, kept, places,
                 brokerUp, process, driving, history>>

(* The namespace of a failure run, or the load pod, if it was exported. *)
Delete ==
  /\ status = "delete"
  /\ exported
  /\ status' = "ended"
  /\ IF failure /\ created
     THEN namespace' = "deleted" /\ pod' = "deleted" /\ replicas' = 0
     ELSE pod' = "deleted" /\ UNCHANGED <<namespace, replicas>>
  /\ UNCHANGED <<at, polling, flags, checks, outputs,
                 brokerUp, process, driving, history>>

Retain ==
  /\ status = "delete"
  /\ refused' = IF exported THEN refused \cup {"delete"} ELSE refused
  /\ status' = "ended"
  /\ UNCHANGED <<at, polling, flags, checks, kept, clusterVars>>

(* SIGKILL, or a second Ctrl-C inside the finally block, which leaves it. *)
Kill ==
  /\ status \notin {"ended", "killed"}
  /\ status' = "killed"
  /\ UNCHANGED <<at, polling, flags, checks, outputs, clusterVars>>

------------------------------------------------------------------------------
(* The cluster.                                                            *)

(* The broker's pod starts or ends as its replica count says. *)
BrokerFollows ==
  /\ brokerUp # (replicas = 1)
  /\ brokerUp' = (replicas = 1)
  /\ Observe(inPod, process, brokerUp')
  /\ UNCHANGED <<harnessVars, places, replicas, process, driving>>

RestartApi ==
  /\ status = "try"
  /\ process.start < MaxRestarts
  /\ \E u \in {process.uid, process.uid + 1} :
       process' = [uid |-> u, start |-> process.start + 1]
  /\ Observe(inPod, process', brokerUp)
  /\ UNCHANGED <<harnessVars, places, broker, driving>>

------------------------------------------------------------------------------
Setup == CreateNamespace \/ Install \/ CreateDriverPod

Failure == StopBroker \/ AwaitStop \/ OutageProbe \/ RestoreBroker \/ Recovered \/ GiveUpRecovery

Identify == \E s \in Identifications : ReadPod(s) \/ ReadStart(s)

Drive == \E a \in Invocations : StartDriver(a) \/ DriverExits(a) \/ DriverIsCutOff(a)
                                   \/ DriverTimesOut(a)

Conclude == Export \/ Result \/ HandleException \/ RestoreInFinally \/ Delete \/ Retain

Harness == Setup \/ Identify \/ Drive \/ Poll \/ Failure \/ Conclude \/ Raise

Cluster == BrokerFollows \/ RestartApi \/ \E a \in Invocations : Straggle(a)

Next == Harness \/ Interrupt \/ Kill \/ Cluster

(* Every subprocess has a timeout, which ends as a raise, so that the      *)
(* harness takes a step; and the deadline of a loop passes, however often  *)
(* the loop has turned.  Nothing is assumed of the cluster.                *)
Fairness == /\ WF_vars(Harness)
            /\ WF_vars(GiveUpRecovery)
            /\ WF_vars(\E a \in Invocations : DriverTimesOut(a))

Spec == Init /\ [][Next]_vars /\ Fairness

------------------------------------------------------------------------------
(* Properties.                                                             *)

(* The variables have the types the code gives them. *)
TypeOK ==
  /\ failure \in BOOLEAN
  /\ at \in DOMAIN Program
  /\ status \in {"try", "except", "finally", "delete", "ended", "killed"}
  /\ created \in BOOLEAN /\ exported \in BOOLEAN
  /\ DOMAIN identity = Identifications
  /\ ok \in BOOLEAN
  /\ verdict \in {"none", "passed", "failed"}
  /\ returned \subseteq Invocations /\ kept \subseteq Invocations
  /\ refused \subseteq {"restore", "delete"} /\ polling \in BOOLEAN
  /\ namespace \in {"absent", "present", "deleted"}
  /\ pod \in {"absent", "present", "deleted"}
  /\ replicas \in {0, 1} /\ brokerUp \in BOOLEAN
  /\ process \in [uid : 0 .. MaxRestarts, start : 0 .. MaxRestarts]
  /\ inPod \subseteq Invocations /\ evidence \subseteq Invocations
  /\ served \subseteq [uid : 0 .. MaxRestarts, start : 0 .. MaxRestarts]
  /\ outageBroken \in BOOLEAN

(* Whatever fails, and wherever: what the invocations that ended under the *)
(* harness's eyes wrote is in the output directory before the load pod or  *)
(* its namespace is deleted.                                               *)
EvidenceIsExportedFirst == pod = "deleted" => returned \subseteq kept

(* No evidence is deleted with the pod, that of an invocation included     *)
(* which the harness gave up and which went on in the pod ("It exports     *)
(* evidence before deleting its load pod or isolated namespace, including  *)
(* failed attempts.").                                                     *)
NoEvidenceIsDeleted == pod = "deleted" => evidence \subseteq kept

(* A passing result vouches for what it was measured on: one process of the *)
(* API served every phase, although its identity is read only before and    *)
(* after and in two calls, and the outage phase never saw a broker ("The    *)
(* API pod UID, container identity, restart count and process start time    *)
(* must remain unchanged").                                                 *)
PassedMeansOneProcess ==
  verdict = "passed" => Cardinality(served) = 1 /\ ~outageBroken

(* An exception or an interruption between stopping the broker and         *)
(* restoring it does not leave it stopped, unless kubectl itself fails or   *)
(* the finally block is interrupted too ("attempts to restore its broker    *)
(* in `finally` before cleanup").                                           *)
BrokerIsRestored ==
  status = "ended" /\ created /\ "restore" \notin refused
    => replicas = 1 \/ namespace = "deleted"

(* The harness ends, whatever the cluster does or fails to do. *)
HarnessEnds == <>(status \in {"ended", "killed"})
================================================================================
