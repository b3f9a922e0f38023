-------------------------------- MODULE Serving --------------------------------
(***************************************************************************)
(* The prediction API's processes: provisioning in the init container,     *)
(* the lifespan of create_app in src/src/tripml/serving.py, the handler of *)
(* /v1/eta step by step in worker threads, and the replacement of one pod  *)
(* by another while the production alias moves.                            *)
(*                                                                         *)
(* `model`, `store` and `sink` are variables that the lifespan writes and  *)
(* the handlers read without a lock.  uvicorn is external: it accepts      *)
(* requests only between the lifespan's startup and a stop, and runs the   *)
(* shutdown once the requests under way have ended, however long they      *)
(* take, unless it was given a limit.  Kubernetes is external: it stops a  *)
(* pod of a rollout as the strategy of the chart allows.  One process may  *)
(* be killed at any point, which is the bound on faults.                   *)
(***************************************************************************)
EXTENDS TopicProvisioning, FiniteSets

CONSTANTS Requests,        \* requests to /v1/eta
          UnknownCount,    \* those without a passenger count
          Models,          \* registered versions the alias may name
          StaticPrimary,   \* versions promoted as static models
          NullableCount,   \* versions of the gold-features-v2 contract
          NoModel, NoPod

ASSUME ServingAssumption ==
  /\ UnknownCount \subseteq Requests
  /\ StaticPrimary \subseteq Models
  /\ NullableCount \subseteq Models
  /\ NoModel \notin Models
  /\ NoPod \notin Pods

VARIABLES
  origin,     \* where `store` and `sink` come from
  alias,      \* the version the production alias names
  promoted,   \* versions the alias has named
  pod,        \* the state of each pod
  failing,    \* an exception left the startup
  model, store, sink,   \* the application's variables, by pod
  killed,     \* a process has been killed
  handler,    \* where the handler of each request is
  target,     \* the pod that accepted the request
  answer      \* what the handler answered

processVars == <<origin, pod, failing, model, store, sink>>
requestVars == <<handler, target, answer>>
registryVars == <<alias, promoted>>
vars == <<provisioningVars, processVars, requestVars, registryVars, killed>>

(* Not configured, created by the application, or passed to create_app. *)
Origins == {"none", "owned", "injected"}

(* A variable holds None, a resource in use, or one that has been closed. *)
Holds == {"None", "open", "closed"}
Initially(o) == IF o = "injected" THEN "open" ELSE "None"

Ended == {"exited", "failed", "killed"}
PodStates == {"absent", "provisioning", "loading", "opening_store", "opening_sink",
              "serving", "draining", "clearing", "closing_sink", "dropping_sink",
              "closing_store"} \cup Ended
HandlerStates == {"idle", "model", "count", "predict", "sink", "publish", "done"}
Answers == {"none", "acknowledged", "unconfirmed", "disabled", "not_ready",
            "unprocessable", "unavailable", "closed", "error", "lost"}

Init ==
  /\ ProvisioningInit
  /\ origin \in [{"store", "sink"} -> Origins]
  /\ alias \in Models \cup {NoModel}
  /\ promoted = {alias}
  /\ pod = [p \in Pods |-> "absent"]
  /\ failing = [p \in Pods |-> FALSE]
  /\ model = [p \in Pods |-> NoModel]
  /\ store = [p \in Pods |-> Initially(origin["store"])]
  /\ sink = [p \in Pods |-> Initially(origin["sink"])]
  /\ killed = FALSE
  /\ handler = [r \in Requests |-> "idle"]
  /\ target = [r \in Requests |-> NoPod]
  /\ answer = [r \in Requests |-> "none"]

Become(p, s) == pod' = [pod EXCEPT ![p] = s]

------------------------------------------------------------------------------
(* The registry and Kubernetes.                                            *)

(* Promotion moves the alias; each version is promoted at most once here. *)
Promote(m) ==
  /\ m \notin promoted
  /\ alias' = m
  /\ promoted' = promoted \cup {m}
  /\ UNCHANGED <<provisioningVars, processVars, requestVars, killed>>

(* /readyz, which can be reached only while uvicorn accepts requests. *)
Ready(p) == pod[p] = "serving" /\ model[p] # NoModel

CreatePod(p) ==
  /\ pod[p] = "absent"
  /\ Become(p, "provisioning")
  /\ UNCHANGED <<provisioningVars, origin, failing, model, store, sink,
                 requestVars, registryVars, killed>>

Provision(p) ==
  /\ pod[p] = "provisioning"
  /\ EnsureStep(p)
  /\ UNCHANGED <<processVars, requestVars, registryVars, killed>>

(* A new process, once provisioning has succeeded or after the last one of *)
(* the pod failed: create_app starts from its arguments.                   *)
StartProcess(p) ==
  /\ \/ pod[p] = "provisioning" /\ ensure[p] = "ensured"
     \/ pod[p] \in {"failed", "killed"}
  /\ Become(p, "loading")
  /\ failing' = [failing EXCEPT ![p] = FALSE]
  /\ model' = [model EXCEPT ![p] = NoModel]
  /\ store' = [store EXCEPT ![p] = Initially(origin["store"])]
  /\ sink' = [sink EXCEPT ![p] = Initially(origin["sink"])]
  /\ UNCHANGED <<provisioningVars, origin, requestVars, registryVars, killed>>

(* maxUnavailable: 0 with one replica: another pod has to be ready. *)
MayStop(p) == \E q \in Pods \ {p} : Ready(q)

Stop(p) ==
  /\ pod[p] = "serving"
  /\ MayStop(p)
  /\ Become(p, "draining")
  /\ UNCHANGED <<provisioningVars, origin, failing, model, store, sink,
                 requestVars, registryVars, killed>>

(* Out of memory, the end of the grace period, a second interrupt: no      *)
(* shutdown runs, and the requests under way have no answer.               *)
Kill(p) ==
  /\ ~killed
  /\ pod[p] \notin Ended \cup {"absent", "provisioning"}
  /\ killed' = TRUE
  /\ Become(p, "killed")
  /\ handler' = [r \in Requests |-> IF target[r] = p THEN "done" ELSE handler[r]]
  /\ answer' = [r \in Requests |-> IF target[r] = p /\ handler[r] # "done"
                                   THEN "lost" ELSE answer[r]]
  /\ UNCHANGED <<provisioningVars, origin, failing, model, store, sink, target, registryVars>>

------------------------------------------------------------------------------
(* lifespan, up to its yield.                                              *)

LoadModel(p) ==
  /\ pod[p] = "loading"
  /\ alias # NoModel
  /\ model' = [model EXCEPT ![p] = alias]
  /\ Become(p, "opening_store")
  /\ UNCHANGED <<provisioningVars, origin, failing, store, sink,
                 requestVars, registryVars, killed>>

(* No alias, a bundle that fails a check, or no registry: the exception is *)
(* raised before the try block, and nothing is held yet.                   *)
LoadRaises(p) ==
  /\ pod[p] = "loading"
  /\ Become(p, "failed")
  /\ UNCHANGED <<provisioningVars, origin, failing, model, store, sink,
                 requestVars, registryVars, killed>>

NeedsStore(p) == /\ model[p] \notin StaticPrimary
                 /\ store[p] = "None"
                 /\ origin["store"] = "owned"

OpenStore(p) ==
  /\ pod[p] = "opening_store"
  /\ store' = [store EXCEPT ![p] = IF NeedsStore(p) THEN "open" ELSE @]
  /\ Become(p, "opening_sink")
  /\ UNCHANGED <<provisioningVars, origin, failing, model, sink,
                 requestVars, registryVars, killed>>

NeedsSink(p) == sink[p] = "None" /\ origin["sink"] = "owned"

OpenSink(p) ==
  /\ pod[p] = "opening_sink"
  /\ sink' = [sink EXCEPT ![p] = IF NeedsSink(p) THEN "open" ELSE @]
  /\ Become(p, "serving")
  /\ UNCHANGED <<provisioningVars, origin, failing, model, store,
                 requestVars, registryVars, killed>>

(* The windows are not those of the features, or a client is refused its   *)
(* configuration: the finally block runs.                                  *)
OpenRaises(p) ==
  /\ \/ pod[p] = "opening_store" /\ NeedsStore(p)
     \/ pod[p] = "opening_sink" /\ NeedsSink(p)
  /\ failing' = [failing EXCEPT ![p] = TRUE]
  /\ Become(p, "clearing")
  /\ UNCHANGED <<provisioningVars, origin, model, store, sink,
                 requestVars, registryVars, killed>>

------------------------------------------------------------------------------
(* lifespan, its finally block.                                            *)

(* A mutant: `tripml serve` gives uvicorn a timeout_graceful_shutdown. *)
WaitsForRequestsUntilTimeout(p) == TRUE

(* uvicorn.run without one: it waits for the requests under way. *)
WaitsForRequests(p) == \A r \in Requests : target[r] = p => handler[r] = "done"

Drained(p) ==
  /\ pod[p] = "draining"
  /\ WaitsForRequests(p)
  /\ Become(p, "clearing")
  /\ UNCHANGED <<provisioningVars, origin, failing, model, store, sink,
                 requestVars, registryVars, killed>>

ClearModel(p) ==
  /\ pod[p] = "clearing"
  /\ model' = [model EXCEPT ![p] = NoModel]
  /\ Become(p, IF sink[p] # "None" /\ origin["sink"] # "injected"
               THEN "closing_sink" ELSE "closing_store")
  /\ UNCHANGED <<provisioningVars, origin, failing, store, sink,
                 requestVars, registryVars, killed>>

EndState(p) == IF failing[p] THEN "failed" ELSE "exited"

(* A mutant: the two close calls follow one another. *)
AfterCloseRaisesUnnested(p) == EndState(p)

(* The inner try: the store is closed even if the flush failed. *)
AfterCloseRaises(p) == "closing_store"

(* sink.close returns, or raises out of the flush. *)
CloseSink(p) ==
  /\ pod[p] = "closing_sink"
  /\ sink' = [sink EXCEPT ![p] = "closed"]
  /\ \E s \in {"dropping_sink", AfterCloseRaises(p)} : Become(p, s)
  /\ UNCHANGED <<provisioningVars, origin, failing, model, store,
                 requestVars, registryVars, killed>>

DropSink(p) ==
  /\ pod[p] = "dropping_sink"
  /\ sink' = [sink EXCEPT ![p] = "None"]
  /\ Become(p, "closing_store")
  /\ UNCHANGED <<provisioningVars, origin, failing, model, store,
                 requestVars, registryVars, killed>>

CloseStore(p) ==
  /\ pod[p] = "closing_store"
  /\ store' = [store EXCEPT ![p] = IF origin["store"] = "injected" THEN @ ELSE "None"]
  /\ Become(p, EndState(p))
  /\ UNCHANGED <<provisioningVars, origin, failing, model, sink,
                 requestVars, registryVars, killed>>

------------------------------------------------------------------------------
(* The handler of /v1/eta, in a worker thread.                             *)

Advance(r, s) == /\ handler' = [handler EXCEPT ![r] = s]
                 /\ UNCHANGED <<provisioningVars, processVars, target, answer,
                                registryVars, killed>>

Respond(r, a) == /\ handler' = [handler EXCEPT ![r] = "done"]
                 /\ answer' = [answer EXCEPT ![r] = a]
                 /\ UNCHANGED <<provisioningVars, processVars, target, registryVars, killed>>

Accept(r, p) ==
  /\ handler[r] = "idle"
  /\ pod[p] = "serving"
  /\ handler' = [handler EXCEPT ![r] = "model"]
  /\ target' = [target EXCEPT ![r] = p]
  /\ UNCHANGED <<provisioningVars, processVars, answer, registryVars, killed>>

CheckModel(r) ==
  /\ handler[r] = "model"
  /\ IF model[target[r]] = NoModel THEN Respond(r, "not_ready") ELSE Advance(r, "count")

(* model is read again, and an exception here has no handler. *)
CheckCount(r) ==
  /\ handler[r] = "count"
  /\ IF r \notin UnknownCount THEN Advance(r, "predict")
     ELSE IF model[target[r]] = NoModel THEN Respond(r, "error")
     ELSE IF model[target[r]] \in NullableCount THEN Advance(r, "predict")
     ELSE Respond(r, "unprocessable")

(* The lookup and the inference, in one try block. *)
Predict(r) ==
  /\ handler[r] = "predict"
  /\ \/ model[target[r]] # NoModel /\ Advance(r, "sink")
     \/ Respond(r, "unavailable")

CheckSink(r) ==
  /\ handler[r] = "sink"
  /\ IF sink[target[r]] = "None" THEN Respond(r, "disabled") ELSE Advance(r, "publish")

(* sink is read again; every exception of the call is a 503. *)
Publish(r) ==
  /\ handler[r] = "publish"
  /\ \E a \in CASE sink[target[r]] = "open"   -> {"acknowledged", "unconfirmed"}
                [] sink[target[r]] = "closed" -> {"closed"}
                [] sink[target[r]] = "None"   -> {"unconfirmed"} : Respond(r, a)

------------------------------------------------------------------------------
Lifespan(p) ==
  \/ LoadModel(p) \/ LoadRaises(p) \/ OpenStore(p) \/ OpenSink(p) \/ OpenRaises(p)
  \/ Drained(p) \/ ClearModel(p) \/ CloseSink(p) \/ DropSink(p) \/ CloseStore(p)

Kubernetes(p) == CreatePod(p) \/ Provision(p) \/ StartProcess(p) \/ Stop(p)

HandlerStep(r) ==
  \/ CheckModel(r)
  \/ CheckCount(r)
  \/ Predict(r)
  \/ CheckSink(r)
  \/ Publish(r)

Next ==
  \/ \E m \in Models : Promote(m)
  \/ \E p \in Pods : Kubernetes(p) \/ Lifespan(p) \/ Kill(p)
  \/ \E r \in Requests : HandlerStep(r) \/ \E p \in Pods : Accept(r, p)

Spec == Init /\ [][Next]_vars

------------------------------------------------------------------------------
(* Properties.                                                             *)

(* The variables have the types the code gives them. *)
TypeOK ==
  /\ ProvisioningTypeOK
  /\ origin \in [{"store", "sink"} -> Origins]
  /\ alias \in Models \cup {NoModel}
  /\ promoted \subseteq Models \cup {NoModel}
  /\ pod \in [Pods -> PodStates]
  /\ failing \in [Pods -> BOOLEAN]
  /\ model \in [Pods -> Models \cup {NoModel}]
  /\ store \in [Pods -> Holds]
  /\ sink \in [Pods -> Holds]
  /\ killed \in BOOLEAN
  /\ handler \in [Requests -> HandlerStates]
  /\ target \in [Requests -> Pods \cup {NoPod}]
  /\ answer \in [Requests -> Answers]

(* No request that was accepted runs into a shutdown: between the handler's *)
(* tests of model and sink and their uses the lifespan clears neither, so   *)
(* that no handler fails without an answer of its own, and none answers 200 *)
(* without publication where a broker is configured ("publish every valid   *)
(* inference result ... before returning HTTP 200").                        *)
RequestsSeeAWholeApp ==
  \A r \in Requests :
    /\ answer[r] \notin {"error", "not_ready", "closed"}
    /\ answer[r] = "disabled" => origin["sink"] = "none"

(* A process that ends by itself, after a stop or a failed startup, has     *)
(* closed what it opened, even if closing the publisher raised, and has     *)
(* left open what the caller of create_app passed in.                       *)
OwnedResourcesAreReleased ==
  \A p \in Pods : pod[p] \in {"exited", "failed"} =>
    /\ origin["store"] = "owned" => store[p] # "open"
    /\ origin["sink"] = "owned" => sink[p] # "open"
    /\ origin["store"] = "injected" => store[p] = "open"
    /\ origin["sink"] = "injected" => sink[p] = "open"

(* What a handler may read changes neither under it nor with a restart.    *)
AppStep ==
  \A r \in Requests : handler[r] \notin {"idle", "done"} =>
    /\ target'[r] = target[r]
    /\ model'[target[r]] = model[target[r]]
    /\ store'[target[r]] = store[target[r]]
    /\ sink'[target[r]] = sink[target[r]]

(* The handler tests `model` and `sink` and reads them again later, without *)
(* a lock: no startup, shutdown, restart or promotion swaps the model, the  *)
(* feature store or the publisher between two of its reads.                 *)
AHandlerSeesOneApp == [][AppStep]_vars

(* Whichever release a pod belongs to, what it publishes goes to a topic of *)
(* the layout that release asked for.                                       *)
ServesOnItsLayout ==
  \A p \in Pods : pod[p] \notin {"absent", "provisioning"} => topic = wanted[p]
==============================================================================
