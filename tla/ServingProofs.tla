----------------------------- MODULE ServingProofs -----------------------------
(***************************************************************************)
(* Proofs about the serving pods, for any number of pods, requests, models *)
(* and layouts: the types, provisioning, the resources of a process, and   *)
(* what a request sees of them, from its first read of them to its last.   *)
(***************************************************************************)
EXTENDS Serving, TLAPS

USE DEF provisioningVars, processVars, requestVars, registryVars, vars

------------------------------------------------------------------------------
(* Type correctness.                                                       *)

(* A request that was accepted has a pod. *)
TypeInv == TypeOK /\ \A r \in Requests : handler[r] # "idle" => target[r] \in Pods

LEMMA TypeInit == Init => TypeInv
<1> SUFFICES ASSUME Init
             PROVE  TypeOK /\ \A r \in Requests : handler[r] = "idle"
  BY DEF TypeInv
<1>1. ProvisioningTypeOK
  BY DEF Init, ProvisioningInit, ProvisioningTypeOK, EnsureStates
<1>2. /\ Initially(origin["store"]) \in Holds /\ Initially(origin["sink"]) \in Holds
  BY DEF Initially, Holds
<1>3. /\ store \in [Pods -> Holds] /\ sink \in [Pods -> Holds]
  BY <1>2 DEF Init
<1>4. /\ origin \in [{"store", "sink"} -> Origins]
      /\ alias \in Models \cup {NoModel} /\ promoted \subseteq Models \cup {NoModel}
      /\ pod \in [Pods -> PodStates] /\ failing \in [Pods -> BOOLEAN]
      /\ model \in [Pods -> Models \cup {NoModel}]
  BY DEF Init, PodStates
<1>5. killed \in BOOLEAN
  BY DEF Init
<1>6. /\ handler \in [Requests -> HandlerStates] /\ answer \in [Requests -> Answers]
      /\ target \in [Requests -> Pods \cup {NoPod}]
  BY DEF Init, HandlerStates, Answers
<1>7. \A r \in Requests : handler[r] = "idle"
  BY DEF Init
<1> QED BY <1>1, <1>3, <1>4, <1>5, <1>6, <1>7 DEF TypeOK

LEMMA ProvisioningTypeStep ==
  ASSUME ProvisioningTypeOK, NEW p \in Pods, EnsureStep(p)
  PROVE  ProvisioningTypeOK'
<1>1. CASE StartEnsure(p)
  BY <1>1 DEF StartEnsure, Goto, ProvisioningTypeOK, EnsureStates
<1>2. CASE ListTopics(p)
  BY <1>2 DEF ListTopics, Goto, ProvisioningTypeOK, EnsureStates
<1>3. CASE CreateTopic(p)
  BY <1>3 DEF CreateTopic, Goto, ProvisioningTypeOK, EnsureStates
<1>4. CASE AlreadyExists(p)
  BY <1>4 DEF AlreadyExists, AfterAlreadyExists, Goto, ProvisioningTypeOK, EnsureStates
<1>5. CASE RelistTopics(p)
  BY <1>5 DEF RelistTopics, Goto, ProvisioningTypeOK, EnsureStates
<1>6. CASE BrokerError(p)
  BY <1>6 DEF BrokerError, Goto, ProvisioningTypeOK, EnsureStates
<1>7. CASE VerifyLayout(p)
  BY <1>7 DEF VerifyLayout, Goto, ProvisioningTypeOK, EnsureStates
<1> QED BY <1>1, <1>2, <1>3, <1>4, <1>5, <1>6, <1>7 DEF EnsureStep

LEMMA LifespanTypeStep ==
  ASSUME TypeOK, NEW p \in Pods, Lifespan(p)
  PROVE  TypeOK'
<1>1. CASE LoadModel(p)
  BY <1>1 DEF LoadModel, Become, TypeOK, ProvisioningTypeOK, PodStates
<1>2. CASE LoadRaises(p)
  BY <1>2 DEF LoadRaises, Become, TypeOK, ProvisioningTypeOK, PodStates, Ended
<1>3. CASE OpenStore(p)
  BY <1>3 DEF OpenStore, Become, TypeOK, ProvisioningTypeOK, PodStates, Holds
<1>4. CASE OpenSink(p)
  BY <1>4 DEF OpenSink, Become, TypeOK, ProvisioningTypeOK, PodStates, Holds
<1>5. CASE OpenRaises(p)
  BY <1>5 DEF OpenRaises, Become, TypeOK, ProvisioningTypeOK, PodStates
<1>6. CASE Drained(p)
  BY <1>6 DEF Drained, Become, TypeOK, ProvisioningTypeOK, PodStates
<1>7. CASE ClearModel(p)
  BY <1>7 DEF ClearModel, Become, TypeOK, ProvisioningTypeOK, PodStates
<1>8. CASE CloseSink(p)
  BY <1>8 DEF CloseSink, AfterCloseRaises, Become, TypeOK, ProvisioningTypeOK, PodStates, Holds
<1>9. CASE DropSink(p)
  BY <1>9 DEF DropSink, Become, TypeOK, ProvisioningTypeOK, PodStates, Holds
<1>10. CASE CloseStore(p)
  BY <1>10 DEF CloseStore, EndState, Become, TypeOK, ProvisioningTypeOK, PodStates, Ended, Holds
<1> QED BY <1>1, <1>2, <1>3, <1>4, <1>5, <1>6, <1>7, <1>8, <1>9, <1>10 DEF Lifespan

(* What a step of a handler may change. *)
LEMMA HandlerEffects ==
  ASSUME TypeInv, NEW r \in Requests, HandlerStep(r)
  PROVE  /\ UNCHANGED <<provisioningVars, processVars, target, registryVars, killed>>
         /\ handler[r] \notin {"idle", "done"}
         /\ \E s \in HandlerStates \ {"idle"}, a \in Answers \cup {answer[r]} :
              /\ handler' = [handler EXCEPT ![r] = s]
              /\ answer' = answer \/ answer' = [answer EXCEPT ![r] = a]
<1>1. ASSUME NEW s \in HandlerStates \ {"idle"}, Advance(r, s)
      PROVE  /\ UNCHANGED <<provisioningVars, processVars, target, registryVars, killed>>
             /\ \E t \in HandlerStates \ {"idle"}, a \in Answers \cup {answer[r]} :
                  /\ handler' = [handler EXCEPT ![r] = t]
                  /\ answer' = answer \/ answer' = [answer EXCEPT ![r] = a]
  BY <1>1 DEF Advance
<1>2. ASSUME NEW a \in Answers, Respond(r, a)
      PROVE  /\ UNCHANGED <<provisioningVars, processVars, target, registryVars, killed>>
             /\ \E t \in HandlerStates \ {"idle"}, b \in Answers \cup {answer[r]} :
                  /\ handler' = [handler EXCEPT ![r] = t]
                  /\ answer' = answer \/ answer' = [answer EXCEPT ![r] = b]
  <2>1. "done" \in HandlerStates \ {"idle"}
    BY DEF HandlerStates
  <2> QED BY <1>2, <2>1 DEF Respond
<1>3. {"count", "predict", "sink", "publish"} \subseteq HandlerStates \ {"idle"}
  BY DEF HandlerStates
<1>4. {"acknowledged", "unconfirmed", "disabled", "not_ready", "unprocessable",
       "unavailable", "closed", "error"} \subseteq Answers
  BY DEF Answers
<1>5. CASE CheckModel(r)
  BY <1>1, <1>2, <1>3, <1>4, <1>5 DEF CheckModel
<1>6. CASE CheckCount(r)
  BY <1>1, <1>2, <1>3, <1>4, <1>6 DEF CheckCount
<1>7. CASE Predict(r)
  BY <1>1, <1>2, <1>3, <1>4, <1>7 DEF Predict
<1>8. CASE CheckSink(r)
  BY <1>1, <1>2, <1>3, <1>4, <1>8 DEF CheckSink
<1>9. CASE Publish(r)
  <2>1. handler[r] = "publish"
    BY <1>9 DEF Publish
  <2>2. \E a \in Answers : Respond(r, a)
    <3>1. PICK a \in CASE sink[target[r]] = "open"   -> {"acknowledged", "unconfirmed"}
                       [] sink[target[r]] = "closed" -> {"closed"}
                       [] sink[target[r]] = "None"   -> {"unconfirmed"} : Respond(r, a)
      BY <1>9 DEF Publish
    <3>2. sink[target[r]] \in {"None", "open", "closed"}
      BY <2>1 DEF TypeInv, TypeOK, Holds
    <3> QED BY <1>4, <3>1, <3>2
  <2> QED BY <1>2, <2>1, <2>2
<1> QED BY <1>5, <1>6, <1>7, <1>8, <1>9 DEF HandlerStep

LEMMA TypeStep == TypeInv /\ [Next]_vars => TypeInv'
<1> SUFFICES ASSUME TypeInv, [Next]_vars
             PROVE  TypeInv'
  OBVIOUS
<1> USE DEF TypeInv
<1>1. ASSUME NEW m \in Models, Promote(m) PROVE TypeInv'
  BY <1>1 DEF Promote, TypeOK, ProvisioningTypeOK
<1>2. ASSUME NEW p \in Pods, Kubernetes(p) PROVE TypeInv'
  <2>1. CASE CreatePod(p)
    BY <2>1 DEF CreatePod, Become, TypeOK, ProvisioningTypeOK, PodStates
  <2>2. CASE Provision(p)
    BY <2>2, ProvisioningTypeStep DEF Provision, TypeOK
  <2>3. CASE StartProcess(p)
    <3>1. Initially(origin["store"]) \in Holds /\ Initially(origin["sink"]) \in Holds
      BY DEF Initially, Holds
    <3> QED BY <2>3, <3>1 DEF StartProcess, Become, TypeOK, ProvisioningTypeOK, PodStates
  <2>4. CASE Stop(p)
    BY <2>4 DEF Stop, Become, TypeOK, ProvisioningTypeOK, PodStates
  <2> QED BY <1>2, <2>1, <2>2, <2>3, <2>4 DEF Kubernetes
<1>3. ASSUME NEW p \in Pods, Kill(p) PROVE TypeInv'
  <2>1. /\ handler' \in [Requests -> HandlerStates] /\ answer' \in [Requests -> Answers]
    BY <1>3 DEF Kill, TypeOK, HandlerStates, Answers
  <2>2. killed' \in BOOLEAN
    BY <1>3 DEF Kill
  <2>3. \A r \in Requests : handler'[r] # "idle" => target'[r] \in Pods
    BY <1>3 DEF Kill, TypeOK
  <2> QED BY <1>3, <2>1, <2>2, <2>3 DEF Kill, Become, TypeOK, ProvisioningTypeOK, PodStates, Ended
<1>4. ASSUME NEW r \in Requests, HandlerStep(r) PROVE TypeInv'
  <2>1. PICK s \in HandlerStates \ {"idle"}, a \in Answers \cup {answer[r]} :
          /\ handler' = [handler EXCEPT ![r] = s]
          /\ answer' = answer \/ answer' = [answer EXCEPT ![r] = a]
    BY <1>4, HandlerEffects
  <2>2. UNCHANGED <<provisioningVars, processVars, target, registryVars, killed>>
    BY <1>4, HandlerEffects
  <2>3. handler[r] # "idle"
    BY <1>4, HandlerEffects
  <2> QED BY <2>1, <2>2, <2>3 DEF TypeOK, ProvisioningTypeOK
<1>5. ASSUME NEW r \in Requests, NEW p \in Pods, Accept(r, p) PROVE TypeInv'
  BY <1>5 DEF Accept, TypeOK, ProvisioningTypeOK, HandlerStates
<1>6. CASE UNCHANGED vars
  BY <1>6 DEF TypeOK, ProvisioningTypeOK
<1>7. ASSUME NEW p \in Pods, Lifespan(p) PROVE TypeInv'
  <2>1. UNCHANGED <<handler, target>>
    BY <1>7 DEF Lifespan, LoadModel, LoadRaises, OpenStore, OpenSink, OpenRaises, Drained,
                ClearModel, CloseSink, DropSink, CloseStore
  <2> QED BY <1>7, <2>1, LifespanTypeStep
<1> QED BY <1>1, <1>2, <1>3, <1>4, <1>5, <1>6, <1>7 DEF Next

(* The variables have their types. *)
THEOREM TypeCorrect == Spec => []TypeOK
<1>1. TypeInv => TypeOK
  BY DEF TypeInv
<1> QED BY <1>1, TypeInit, TypeStep, PTL DEF Spec

------------------------------------------------------------------------------
(* Provisioning: metadata that show the topic show its layout, which never *)
(* changes.                                                                *)

EnsureInv(p) ==
  /\ ensure[p] \in {"relisting", "verifying", "ensured"} => topic # NoTopic
  /\ ensure[p] = "verifying" =>
       listed[p] = topic \/ (listed[p] = NoTopic /\ refused[p])
  /\ ensure[p] = "ensured" => topic = wanted[p]
  /\ ensure[p] = "raised" => refused[p] \/ (topic # NoTopic /\ topic # wanted[p])
  /\ pod[p] = "absent" => ensure[p] = "idle"
  /\ pod[p] \notin {"absent", "provisioning"} => ensure[p] = "ensured"

LEMMA EnsureOfOne ==
  ASSUME ProvisioningTypeOK, NEW p \in Pods, EnsureStep(p), EnsureInv(p),
         pod[p] = "provisioning", pod' = pod
  PROVE  EnsureInv(p)' /\ (topic # NoTopic => topic' = topic) /\ wanted' = wanted
<1>t. /\ ensure \in [Pods -> EnsureStates] /\ refused \in [Pods -> BOOLEAN]
      /\ listed \in [Pods -> Layouts \cup {NoTopic}] /\ wanted[p] \in Layouts
      /\ NoTopic \notin Layouts
  BY ProvisioningAssumption DEF ProvisioningTypeOK
<1>1. CASE StartEnsure(p)
  BY <1>1, <1>t DEF StartEnsure, Goto, EnsureInv
<1>2. CASE ListTopics(p)
  BY <1>2, <1>t DEF ListTopics, Goto, EnsureInv
<1>3. CASE CreateTopic(p)
  BY <1>3, <1>t DEF CreateTopic, Goto, EnsureInv
<1>4. CASE AlreadyExists(p)
  BY <1>4, <1>t DEF AlreadyExists, AfterAlreadyExists, Goto, EnsureInv
<1>5. CASE RelistTopics(p)
  BY <1>5, <1>t DEF RelistTopics, Goto, EnsureInv
<1>6. CASE BrokerError(p)
  BY <1>6, <1>t DEF BrokerError, Goto, EnsureInv
<1>7. CASE VerifyLayout(p)
  BY <1>7, <1>t DEF VerifyLayout, Verified, Goto, EnsureInv
<1> QED BY <1>1, <1>2, <1>3, <1>4, <1>5, <1>6, <1>7 DEF EnsureStep

LEMMA EnsureOfOthers ==
  ASSUME TypeOK, NEW p \in Pods, EnsureStep(p), pod' = pod, NEW q \in Pods, q # p,
         EnsureInv(q), topic # NoTopic => topic' = topic, wanted' = wanted
  PROVE  EnsureInv(q)'
<1>1. /\ ensure'[q] = ensure[q] /\ listed'[q] = listed[q] /\ refused'[q] = refused[q]
  BY DEF EnsureStep, StartEnsure, ListTopics, CreateTopic, AlreadyExists, RelistTopics,
         BrokerError, VerifyLayout, Goto, TypeOK, ProvisioningTypeOK
<1> QED BY <1>1 DEF EnsureInv

(* The other steps start provisioning, or follow its success. *)
LEMMA PodSteps ==
  ASSUME TypeInv, [Next]_vars
  PROVE  \/ \E p \in Pods : Provision(p)
         \/ /\ UNCHANGED provisioningVars
            /\ \A p \in Pods : \/ pod'[p] = pod[p]
                               \/ pod[p] = "absent" /\ pod'[p] = "provisioning"
                               \/ pod[p] = "provisioning" /\ ensure[p] = "ensured"
                               \/ pod[p] \notin {"absent", "provisioning"}
            /\ \A p \in Pods : pod'[p] = "absent" => pod[p] = "absent"
<1>p. pod \in [Pods -> PodStates]
  BY DEF TypeInv, TypeOK
<1>1. ASSUME NEW m \in Models, Promote(m)
      PROVE  UNCHANGED <<provisioningVars, pod>>
  BY <1>1 DEF Promote
<1>2. ASSUME NEW p \in Pods, CreatePod(p) \/ StartProcess(p) \/ Stop(p) \/ Kill(p) \/ Lifespan(p)
      PROVE  /\ UNCHANGED provisioningVars
             /\ \A q \in Pods : \/ pod'[q] = pod[q]
                                \/ pod[q] = "absent" /\ pod'[q] = "provisioning"
                                \/ pod[q] = "provisioning" /\ ensure[q] = "ensured"
                                \/ pod[q] \notin {"absent", "provisioning"}
             /\ \A q \in Pods : pod'[q] = "absent" => pod[q] = "absent"
  <2>1. CASE CreatePod(p)
    BY <1>p, <2>1 DEF CreatePod, Become
  <2>2. CASE StartProcess(p)
    BY <1>p, <2>2 DEF StartProcess, Become
  <2>3. CASE Stop(p) \/ Kill(p)
    BY <1>p, <2>3 DEF Stop, Kill, Become
  <2>4. CASE Lifespan(p)
    <3>1. PICK s \in PodStates \ {"absent", "provisioning"} : Become(p, s)
      <4>1. {"opening_store", "opening_sink", "serving", "clearing", "closing_sink",
             "dropping_sink", "closing_store", "failed", "exited"}
              \subseteq PodStates \ {"absent", "provisioning"}
        BY DEF PodStates, Ended
      <4> QED BY <2>4, <4>1 DEF Lifespan, LoadModel, LoadRaises, OpenStore, OpenSink, OpenRaises,
                  Drained, ClearModel, CloseSink, DropSink, CloseStore, AfterCloseRaises, EndState
    <3>2. pod[p] \notin {"absent", "provisioning"} /\ UNCHANGED provisioningVars
      BY <2>4 DEF Lifespan, LoadModel, LoadRaises, OpenStore, OpenSink, OpenRaises,
                  Drained, ClearModel, CloseSink, DropSink, CloseStore
    <3> QED BY <1>p, <3>1, <3>2 DEF Become
  <2> QED BY <1>2, <2>1, <2>2, <2>3, <2>4
<1>3. ASSUME NEW r \in Requests, HandlerStep(r) \/ \E p \in Pods : Accept(r, p)
      PROVE  UNCHANGED <<provisioningVars, pod>>
  BY <1>3, HandlerEffects DEF Accept
<1>4. CASE UNCHANGED vars
  BY <1>4
<1> QED BY <1>1, <1>2, <1>3, <1>4 DEF Next, Kubernetes

ProvisionedInv == \A p \in Pods : EnsureInv(p)

LEMMA ProvisionedStep == TypeInv /\ ProvisionedInv /\ [Next]_vars => ProvisionedInv'
<1> SUFFICES ASSUME TypeInv, ProvisionedInv, [Next]_vars
             PROVE  ProvisionedInv'
  OBVIOUS
<1>1. ASSUME NEW p \in Pods, Provision(p) PROVE ProvisionedInv'
  <2>1. /\ pod[p] = "provisioning" /\ pod' = pod /\ EnsureStep(p)
        /\ ProvisioningTypeOK /\ TypeOK /\ \A q \in Pods : EnsureInv(q)
    BY <1>1 DEF Provision, TypeInv, TypeOK, ProvisionedInv
  <2>2. EnsureInv(p)' /\ (topic # NoTopic => topic' = topic) /\ wanted' = wanted
    BY <2>1, EnsureOfOne
  <2> QED BY <2>1, <2>2, EnsureOfOthers DEF ProvisionedInv
<1>2. CASE ~ \E p \in Pods : Provision(p)
  <2>1. UNCHANGED <<wanted, topic, ensure, listed, refused>>
    BY <1>2, PodSteps
  <2>2. ASSUME NEW p \in Pods PROVE EnsureInv(p)'
    <3>1. EnsureInv(p)
      BY DEF ProvisionedInv
    <3>2. \/ pod'[p] = pod[p]
          \/ pod[p] = "absent" /\ pod'[p] = "provisioning"
          \/ pod[p] = "provisioning" /\ ensure[p] = "ensured"
          \/ pod[p] \notin {"absent", "provisioning"}
      BY <1>2, PodSteps
    <3>3. pod'[p] = "absent" => pod[p] = "absent"
      BY <1>2, PodSteps
    <3> QED BY <2>1, <3>1, <3>2, <3>3 DEF EnsureInv
  <2> QED BY <2>2 DEF ProvisionedInv
<1> QED BY <1>1, <1>2

LEMMA ProvisionedInit == Init => ProvisionedInv
<1> SUFFICES ASSUME Init, NEW p \in Pods
             PROVE  EnsureInv(p)
  BY DEF ProvisionedInv
<1>1. ensure[p] = "idle" /\ pod[p] = "absent"
  BY DEF Init, ProvisioningInit
<1> QED BY <1>1 DEF EnsureInv

(* Provisioning never fails for having lost the race to create the topic.  *)
THEOREM CreatesAreTolerated == Spec => []ConcurrentCreatesAreTolerated
<1>1. ProvisionedInv => ConcurrentCreatesAreTolerated
  BY DEF ProvisionedInv, EnsureInv, ConcurrentCreatesAreTolerated
<1> QED BY <1>1, TypeInit, TypeStep, ProvisionedInit, ProvisionedStep, PTL DEF Spec

(* A pod past its provisioning serves on the layout its release asked for. *)
THEOREM LayoutCorrect == Spec => []ServesOnItsLayout
<1>1. ProvisionedInv => ServesOnItsLayout
  BY DEF ProvisionedInv, EnsureInv, ServesOnItsLayout
<1> QED BY <1>1, TypeInit, TypeStep, ProvisionedInit, ProvisionedStep, PTL DEF Spec

------------------------------------------------------------------------------
(* The resources of a process, by where its lifespan is.                   *)

InService == {"serving", "draining"}
Opening == {"opening_store", "opening_sink"}
Fresh == {"absent", "provisioning", "loading", "opening_store"}

StoreInv(p) ==
  /\ origin["store"] = "injected" => store[p] = "open"
  /\ origin["store"] = "owned" /\ pod[p] \in Fresh \cup {"exited", "failed"} => store[p] = "None"

SinkInv(p) ==
  /\ pod[p] \in {"closing_sink", "dropping_sink"} => origin["sink"] = "owned"
  /\ origin["sink"] = "injected" => sink[p] = "open"
  /\ origin["sink"] = "none" => sink[p] = "None"
  /\ origin["sink"] = "owned" =>
       /\ pod[p] \in Fresh \cup {"opening_sink"} => sink[p] = "None"
       /\ pod[p] \in InService => sink[p] = "open"
       /\ pod[p] \in {"clearing", "closing_sink"} => sink[p] # "closed"
       /\ pod[p] \in {"closing_store", "exited", "failed"} => sink[p] # "open"

ModelInv(p) == pod[p] \in Opening \cup InService => model[p] # NoModel

LifeInv(p) == StoreInv(p) /\ SinkInv(p) /\ ModelInv(p)

LEMMA LifeOfOthers ==
  ASSUME TypeOK, NEW p \in Pods, NEW q \in Pods, q # p, LifeInv(q),
         Lifespan(p) \/ Kubernetes(p) \/ Kill(p)
  PROVE  LifeInv(q)'
<1>1. /\ pod'[q] = pod[q] /\ model'[q] = model[q] /\ store'[q] = store[q] /\ sink'[q] = sink[q]
      /\ origin' = origin
  <2>0. /\ pod \in [Pods -> PodStates] /\ model \in [Pods -> Models \cup {NoModel}]
        /\ store \in [Pods -> Holds] /\ sink \in [Pods -> Holds]
    BY DEF TypeOK
  <2>1. ASSUME NEW s, Become(p, s) PROVE pod'[q] = pod[q]
    BY <2>0, <2>1 DEF Become
  <2>2. CASE Lifespan(p)
    BY <2>0, <2>1, <2>2 DEF Lifespan, LoadModel, LoadRaises, OpenStore, OpenSink, OpenRaises,
       Drained, ClearModel, CloseSink, DropSink, CloseStore
  <2>3. CASE Kubernetes(p)
    BY <2>0, <2>1, <2>3 DEF Kubernetes, CreatePod, Provision, StartProcess, Stop
  <2>4. CASE Kill(p)
    BY <2>1, <2>4 DEF Kill
  <2> QED BY <2>2, <2>3, <2>4
<1> QED BY <1>1 DEF LifeInv, StoreInv, SinkInv, ModelInv

LEMMA LifespanLife ==
  ASSUME TypeOK, NEW p \in Pods, Lifespan(p), LifeInv(p)
  PROVE  LifeInv(p)'
<1> USE DEF LifeInv, StoreInv, SinkInv, ModelInv, Fresh, InService, Opening, Become
<1>t. /\ pod \in [Pods -> PodStates] /\ model \in [Pods -> Models \cup {NoModel}]
      /\ store \in [Pods -> Holds] /\ sink \in [Pods -> Holds]
      /\ origin["store"] \in Origins /\ origin["sink"] \in Origins
  BY DEF TypeOK
<1>1. CASE LoadModel(p)
  BY <1>1, <1>t DEF LoadModel
<1>2. CASE LoadRaises(p)
  BY <1>2, <1>t DEF LoadRaises
<1>3. CASE OpenStore(p)
  BY <1>3, <1>t DEF OpenStore, NeedsStore
<1>4. CASE OpenSink(p)
  BY <1>4, <1>t DEF OpenSink, NeedsSink
<1>5. CASE OpenRaises(p)
  BY <1>5, <1>t DEF OpenRaises, NeedsStore, NeedsSink
<1>6. CASE Drained(p)
  BY <1>6, <1>t DEF Drained
<1>7. CASE ClearModel(p)
  BY <1>7, <1>t DEF ClearModel, Origins, Holds
<1>8. CASE CloseSink(p)
  BY <1>8, <1>t DEF CloseSink, AfterCloseRaises
<1>9. CASE DropSink(p)
  BY <1>9, <1>t DEF DropSink
<1>10. CASE CloseStore(p)
  BY <1>10, <1>t DEF CloseStore, EndState
<1> QED BY <1>1, <1>2, <1>3, <1>4, <1>5, <1>6, <1>7, <1>8, <1>9, <1>10 DEF Lifespan

LEMMA KubernetesLife ==
  ASSUME TypeOK, NEW p \in Pods, Kubernetes(p) \/ Kill(p), LifeInv(p)
  PROVE  LifeInv(p)'
<1> USE DEF LifeInv, StoreInv, SinkInv, ModelInv, Fresh, InService, Opening, Become
<1>t. /\ pod \in [Pods -> PodStates] /\ model \in [Pods -> Models \cup {NoModel}]
      /\ store \in [Pods -> Holds] /\ sink \in [Pods -> Holds]
      /\ origin["store"] \in Origins /\ origin["sink"] \in Origins
  BY DEF TypeOK
<1>1. CASE CreatePod(p)
  BY <1>1, <1>t DEF CreatePod
<1>2. CASE Provision(p)
  BY <1>2, <1>t DEF Provision
<1>3. CASE StartProcess(p)
  BY <1>3, <1>t DEF StartProcess, Initially, Origins
<1>4. CASE Stop(p)
  BY <1>4, <1>t DEF Stop
<1>5. CASE Kill(p)
  BY <1>5, <1>t DEF Kill
<1> QED BY <1>1, <1>2, <1>3, <1>4, <1>5 DEF Kubernetes

LifecycleInv == \A p \in Pods : LifeInv(p)

LEMMA LifecycleInit == Init => LifecycleInv
<1> SUFFICES ASSUME Init, NEW p \in Pods
             PROVE  LifeInv(p)
  BY DEF LifecycleInv
<1>1. /\ pod[p] = "absent" /\ store[p] = Initially(origin["store"])
      /\ sink[p] = Initially(origin["sink"])
  BY DEF Init
<1> QED BY <1>1 DEF LifeInv, StoreInv, SinkInv, ModelInv, Initially, Opening, InService

LEMMA LifecycleStep == TypeInv /\ LifecycleInv /\ [Next]_vars => LifecycleInv'
<1> SUFFICES ASSUME TypeInv, LifecycleInv, [Next]_vars
             PROVE  LifecycleInv'
  OBVIOUS
<1>1. ASSUME NEW p \in Pods, Lifespan(p) \/ Kubernetes(p) \/ Kill(p)
      PROVE  LifecycleInv'
  BY <1>1, LifespanLife, KubernetesLife, LifeOfOthers DEF TypeInv, LifecycleInv
<1>2. UNCHANGED <<origin, pod, model, store, sink>> => LifecycleInv'
  BY DEF LifecycleInv, LifeInv, StoreInv, SinkInv, ModelInv
<1>3. ASSUME NEW r \in Requests, HandlerStep(r) \/ \E p \in Pods : Accept(r, p)
      PROVE  UNCHANGED processVars
  BY <1>3, HandlerEffects DEF Accept
<1>4. ASSUME NEW m \in Models, Promote(m)
      PROVE  UNCHANGED processVars
  BY <1>4 DEF Promote
<1> QED BY <1>1, <1>2, <1>3, <1>4 DEF Next

(* A process that ends by itself has closed what it opened, and nothing    *)
(* else.                                                                   *)
THEOREM ResourcesReleased == Spec => []OwnedResourcesAreReleased
<1>1. LifecycleInv => OwnedResourcesAreReleased
  BY DEF LifecycleInv, LifeInv, StoreInv, SinkInv, OwnedResourcesAreReleased
<1> QED BY <1>1, TypeInit, TypeStep, LifecycleInit, LifecycleStep, PTL DEF Spec

------------------------------------------------------------------------------
(* A request is served by a process that has not begun its shutdown.       *)

RequestInv(r) ==
  /\ handler[r] \notin {"idle", "done"} => pod[target[r]] \in InService
  /\ answer[r] \notin {"error", "not_ready", "closed"}
  /\ answer[r] = "disabled" => origin["sink"] = "none"

RequestsInv == \A r \in Requests : RequestInv(r)

LEMMA HandlerRequest ==
  ASSUME TypeInv, LifecycleInv, NEW r \in Requests, HandlerStep(r), RequestInv(r)
  PROVE  RequestInv(r)'
<1>t. /\ handler \in [Requests -> HandlerStates] /\ answer \in [Requests -> Answers]
      /\ UNCHANGED <<pod, origin, target>>
      /\ target[r] \in Pods /\ handler[r] \notin {"idle", "done"}
  BY HandlerEffects DEF TypeInv, TypeOK
<1>p. /\ pod[target[r]] \in InService /\ model[target[r]] # NoModel
      /\ sink[target[r]] = "None" => origin["sink"] = "none"
      /\ sink[target[r]] \in {"None", "open"}
  <2>1. LifeInv(target[r]) /\ sink[target[r]] \in Holds /\ origin["sink"] \in Origins
    BY <1>t DEF LifecycleInv, TypeInv, TypeOK
  <2>2. pod[target[r]] \in InService
    BY <1>t DEF RequestInv
  <2> QED BY <2>1, <2>2 DEF LifeInv, SinkInv, ModelInv, Origins, Holds
<1>1. ASSUME NEW s, Advance(r, s) PROVE RequestInv(r)'
  BY <1>1, <1>p, <1>t DEF Advance, RequestInv
<1>2. ASSUME NEW a, Respond(r, a), a \notin {"error", "not_ready", "closed"},
             a = "disabled" => origin["sink"] = "none"
      PROVE  RequestInv(r)'
  BY <1>2, <1>t DEF Respond, RequestInv
<1>3. CASE CheckModel(r)
  BY <1>1, <1>3, <1>p DEF CheckModel
<1>4. CASE CheckCount(r)
  BY <1>1, <1>2, <1>4, <1>p DEF CheckCount
<1>5. CASE Predict(r)
  BY <1>1, <1>2, <1>5 DEF Predict
<1>6. CASE CheckSink(r)
  BY <1>1, <1>2, <1>6, <1>p DEF CheckSink
<1>7. CASE Publish(r)
  <2>1. PICK a \in CASE sink[target[r]] = "open"   -> {"acknowledged", "unconfirmed"}
                     [] sink[target[r]] = "closed" -> {"closed"}
                     [] sink[target[r]] = "None"   -> {"unconfirmed"} : Respond(r, a)
    BY <1>7 DEF Publish
  <2>2. a \in {"acknowledged", "unconfirmed"}
    BY <1>p, <2>1
  <2> QED BY <1>2, <2>1, <2>2
<1> QED BY <1>3, <1>4, <1>5, <1>6, <1>7 DEF HandlerStep

LEMMA RequestsStep == TypeInv /\ LifecycleInv /\ RequestsInv /\ [Next]_vars => RequestsInv'
<1> SUFFICES ASSUME TypeInv, LifecycleInv, RequestsInv, [Next]_vars
             PROVE  RequestsInv'
  OBVIOUS
<1>t. /\ handler \in [Requests -> HandlerStates] /\ answer \in [Requests -> Answers]
      /\ target \in [Requests -> Pods \cup {NoPod}] /\ pod \in [Pods -> PodStates]
      /\ \A r \in Requests : handler[r] # "idle" => target[r] \in Pods
  BY DEF TypeInv, TypeOK
<1>1. ASSUME NEW r \in Requests, HandlerStep(r) PROVE RequestsInv'
  <2>1. RequestInv(r)'
    BY <1>1, HandlerRequest DEF RequestsInv
  <2>2. ASSUME NEW q \in Requests, q # r PROVE RequestInv(q)'
    <3>1. UNCHANGED <<pod, origin, target>> /\ handler'[q] = handler[q] /\ answer'[q] = answer[q]
      BY <1>1, <1>t, <2>2, HandlerEffects
    <3> QED BY <3>1 DEF RequestsInv, RequestInv
  <2> QED BY <2>1, <2>2 DEF RequestsInv
<1>2. ASSUME NEW r \in Requests, NEW p \in Pods, Accept(r, p) PROVE RequestsInv'
  <2>1. /\ UNCHANGED <<pod, origin, answer>> /\ pod[p] = "serving"
        /\ handler' = [handler EXCEPT ![r] = "model"]
        /\ target' = [target EXCEPT ![r] = p]
    BY <1>2 DEF Accept
  <2>2. ASSUME NEW q \in Requests PROVE RequestInv(q)'
    <3>1. CASE q = r
      BY <1>t, <2>1, <3>1 DEF RequestsInv, RequestInv, InService
    <3>2. CASE q # r
      BY <1>t, <2>1, <3>2 DEF RequestsInv, RequestInv
    <3> QED BY <3>1, <3>2
  <2> QED BY <2>2 DEF RequestsInv
<1>3. ASSUME NEW p \in Pods, Kill(p) PROVE RequestsInv'
  <2> SUFFICES ASSUME NEW r \in Requests PROVE RequestInv(r)'
    BY DEF RequestsInv
  <2>1. /\ UNCHANGED <<origin, target>> /\ pod' = [pod EXCEPT ![p] = "killed"]
        /\ handler' = [q \in Requests |-> IF target[q] = p THEN "done" ELSE handler[q]]
        /\ answer' = [q \in Requests |-> IF target[q] = p /\ handler[q] # "done"
                                         THEN "lost" ELSE answer[q]]
    BY <1>3 DEF Kill, Become
  <2>2. CASE target[r] = p
    BY <2>1, <2>2 DEF RequestsInv, RequestInv
  <2>3. CASE target[r] # p
    BY <1>t, <2>1, <2>3 DEF RequestsInv, RequestInv
  <2> QED BY <2>2, <2>3
<1>4. ASSUME UNCHANGED <<handler, target, answer, origin>>,
             \A r \in Requests : handler[r] \notin {"idle", "done"} =>
               (pod[target[r]] \in InService => pod'[target[r]] \in InService)
      PROVE  RequestsInv'
  BY <1>4 DEF RequestsInv, RequestInv
<1>5. ASSUME NEW p \in Pods, Lifespan(p) \/ Kubernetes(p) PROVE RequestsInv'
  <2>1. UNCHANGED <<handler, target, answer, origin>>
    <3>1. CASE Lifespan(p)
      BY <3>1 DEF Lifespan, LoadModel, LoadRaises, OpenStore, OpenSink, OpenRaises,
                  Drained, ClearModel, CloseSink, DropSink, CloseStore
    <3>2. CASE Kubernetes(p)
      BY <3>2 DEF Kubernetes, CreatePod, Provision, StartProcess, Stop
    <3> QED BY <1>5, <3>1, <3>2
  <2>2. \/ pod' = pod
        \/ \E s : Become(p, s) /\ (pod[p] \notin InService \/ s \in InService \/ Drained(p))
    <3>1. CASE Lifespan(p)
      BY <3>1 DEF Lifespan, LoadModel, LoadRaises, OpenStore, OpenSink, OpenRaises,
                  ClearModel, CloseSink, DropSink, CloseStore, Drained, InService
    <3>2. CASE Kubernetes(p)
      BY <3>2 DEF Kubernetes, CreatePod, Provision, StartProcess, Stop, InService
    <3> QED BY <1>5, <3>1, <3>2
  <2>3. ASSUME NEW r \in Requests, handler[r] \notin {"idle", "done"},
               pod[target[r]] \in InService
        PROVE  pod'[target[r]] \in InService
    <3>1. target[r] \in Pods
      BY <1>t, <2>3
    <3>2. CASE target[r] # p
      BY <1>t, <2>2, <2>3, <3>1, <3>2 DEF Become
    <3>3. CASE target[r] = p
      <4>1. ~Drained(p)
        BY <2>3, <3>3 DEF Drained, WaitsForRequests
      <4> QED BY <1>t, <2>2, <2>3, <3>3, <4>1 DEF Become
    <3> QED BY <3>2, <3>3
  <2> QED BY <1>4, <2>1, <2>3
<1>6. ASSUME NEW m \in Models, Promote(m) PROVE RequestsInv'
  BY <1>6, <1>4 DEF Promote
<1>7. CASE UNCHANGED vars
  BY <1>7, <1>4
<1> QED BY <1>1, <1>2, <1>3, <1>5, <1>6, <1>7 DEF Next

(* No request that was accepted sees the model or the sink of a process    *)
(* that is starting or shutting down.                                      *)
THEOREM RequestsCorrect == Spec => []RequestsSeeAWholeApp
<1>1. Init => RequestsInv
  BY DEF Init, RequestsInv, RequestInv
<1>2. RequestsInv => RequestsSeeAWholeApp
  BY DEF RequestsInv, RequestInv, RequestsSeeAWholeApp
<1> QED BY <1>1, <1>2, TypeInit, TypeStep, LifecycleInit, LifecycleStep, RequestsStep, PTL DEF Spec

------------------------------------------------------------------------------
(* What the handler reads of the application does not change under it.     *)

(* A process in service keeps its application variables.                   *)
LEMMA InServiceKeeps ==
  ASSUME TypeOK, NEW p \in Pods, Lifespan(p) \/ Kubernetes(p) \/ Kill(p),
         NEW q \in Pods, pod[q] \in InService
  PROVE  model'[q] = model[q] /\ store'[q] = store[q] /\ sink'[q] = sink[q]
<1>t. /\ model \in [Pods -> Models \cup {NoModel}]
      /\ store \in [Pods -> Holds] /\ sink \in [Pods -> Holds]
  BY DEF TypeOK
<1>1. CASE Lifespan(p)
  BY <1>1, <1>t DEF Lifespan, LoadModel, LoadRaises, OpenStore, OpenSink, OpenRaises, Drained,
                    ClearModel, CloseSink, DropSink, CloseStore, InService
<1>2. CASE Kubernetes(p)
  BY <1>2, <1>t DEF Kubernetes, CreatePod, Provision, StartProcess, Stop, InService, Ended
<1>3. CASE Kill(p)
  BY <1>3 DEF Kill
<1> QED BY <1>1, <1>2, <1>3

LEMMA AppKept == TypeInv /\ RequestsInv /\ [Next]_vars => AppStep
<1> SUFFICES ASSUME TypeInv, RequestsInv, [Next]_vars
             PROVE  AppStep
  OBVIOUS
<1>r. ASSUME NEW r \in Requests, handler[r] \notin {"idle", "done"}
      PROVE  target[r] \in Pods /\ pod[target[r]] \in InService
  BY <1>r DEF TypeInv, RequestsInv, RequestInv
<1>1. ASSUME NEW p \in Pods, Lifespan(p) \/ Kubernetes(p) \/ Kill(p)
      PROVE  AppStep
  <2>1. TypeOK /\ target' = target
    BY <1>1 DEF TypeInv, Lifespan, LoadModel, LoadRaises, OpenStore, OpenSink, OpenRaises, Drained,
                ClearModel, CloseSink, DropSink, CloseStore, Kubernetes, CreatePod, Provision,
                StartProcess, Stop, Kill
  <2> QED BY <1>1, <1>r, <2>1, InServiceKeeps DEF AppStep
<1>2. UNCHANGED <<model, store, sink, target>> => AppStep
  BY DEF AppStep
<1>3. ASSUME NEW r \in Requests, HandlerStep(r)
      PROVE  AppStep
  BY <1>2, <1>3, HandlerEffects
<1>4. ASSUME NEW r \in Requests, NEW p \in Pods, Accept(r, p)
      PROVE  AppStep
  <2>1. target \in [Requests -> Pods \cup {NoPod}]
    BY DEF TypeInv, TypeOK
  <2> QED BY <1>4, <2>1 DEF Accept, AppStep
<1>5. ASSUME NEW m \in Models, Promote(m)
      PROVE  AppStep
  BY <1>2, <1>5 DEF Promote
<1> QED BY <1>1, <1>2, <1>3, <1>4, <1>5 DEF Next

(* From its acceptance to its end a request is served by one process, with *)
(* one model, one feature store and one publisher.                         *)
THEOREM RequestsUseOneApp == Spec => AHandlerSeesOneApp
<1>1. Init => RequestsInv
  BY DEF Init, RequestsInv, RequestInv
<1>2. TypeInv /\ RequestsInv /\ [Next]_vars => [AppStep]_vars
  BY AppKept
<1> HIDE DEF vars
<1> QED BY <1>1, <1>2, TypeInit, TypeStep, LifecycleInit, LifecycleStep, RequestsStep, PTL
        DEF Spec, AHandlerSeesOneApp

(* The requests past the test of their passenger count.                    *)
CountInv ==
  \A r \in Requests :
    r \in UnknownCount /\ handler[r] \in {"predict", "sink", "publish"} =>
      model[target[r]] \in NullableCount

LEMMA CountStep == TypeInv /\ RequestsInv /\ CountInv /\ [Next]_vars => CountInv'
<1> SUFFICES ASSUME TypeInv, RequestsInv, CountInv, [Next]_vars, NEW r \in UnknownCount,
                    handler'[r] \in {"predict", "sink", "publish"}
             PROVE  model'[target'[r]] \in NullableCount
  BY DEF CountInv
<1>1. r \in Requests /\ AppStep /\ handler \in [Requests -> HandlerStates]
  BY ServingAssumption, AppKept DEF TypeInv, TypeOK
<1>2. CASE handler[r] \in {"predict", "sink", "publish"}
  BY <1>1, <1>2 DEF AppStep, CountInv
<1>3. CASE handler[r] \notin {"predict", "sink", "publish"}
  <2>1. CheckCount(r)
    <3>1. ASSUME NEW p \in Pods, Lifespan(p) \/ Kubernetes(p)
          PROVE  handler' = handler
      BY <3>1 DEF Lifespan, LoadModel, LoadRaises, OpenStore, OpenSink, OpenRaises, Drained,
                  ClearModel, CloseSink, DropSink, CloseStore, Kubernetes, CreatePod, Provision,
                  StartProcess, Stop
    <3>2. ASSUME NEW p \in Pods, Kill(p)
          PROVE  handler'[r] \in {"done", handler[r]}
      BY <1>1, <3>2 DEF Kill
    <3>3. ASSUME NEW s \in Requests, NEW p \in Pods, Accept(s, p)
          PROVE  handler'[r] \in {"model", handler[r]}
      BY <1>1, <3>3 DEF Accept
    <3>4. ASSUME NEW m \in Models, Promote(m)
          PROVE  handler' = handler
      BY <3>4 DEF Promote
    <3>5. ASSUME NEW s \in Requests, HandlerStep(s), s # r
          PROVE  handler'[r] = handler[r]
      <4>1. \E t : handler' = [handler EXCEPT ![s] = t]
        BY <3>5, HandlerEffects
      <4> QED BY <1>1, <3>5, <4>1
    <3>6. ASSUME CheckModel(r) \/ Predict(r) \/ CheckSink(r) \/ Publish(r)
          PROVE  handler'[r] \in {"done", "count"} \/ handler[r] \in {"predict", "sink", "publish"}
      BY <1>1, <3>6 DEF CheckModel, Predict, CheckSink, Publish, Advance, Respond
    <3>7. HandlerStep(r)
      BY <1>3, <3>1, <3>2, <3>3, <3>4, <3>5 DEF Next
    <3> QED BY <1>3, <3>6, <3>7 DEF HandlerStep
  <2>2. handler[r] = "count" /\ handler'[r] # "done"
    BY <2>1 DEF CheckCount
  <2>3. model[target[r]] \in NullableCount
    <3>1. ASSUME NEW a, Respond(r, a)
          PROVE  FALSE
      BY <1>1, <2>2, <3>1 DEF Respond
    <3> QED BY <2>1, <3>1 DEF CheckCount
  <2> QED BY <1>1, <2>2, <2>3 DEF AppStep
<1> QED BY <1>2, <1>3

(* A request without a passenger count gets to the prediction only on a    *)
(* model of the contract that admits one, although the count is tested     *)
(* against one read of `model` and the prediction made with another.       *)
THEOREM CountsAreChecked == Spec => []CountInv
<1>1. Init => RequestsInv /\ CountInv
  BY DEF Init, RequestsInv, RequestInv, CountInv
<1> QED BY <1>1, TypeInit, TypeStep, LifecycleInit, LifecycleStep, RequestsStep, CountStep, PTL
        DEF Spec
================================================================================
