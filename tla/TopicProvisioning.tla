-------------------------- MODULE TopicProvisioning --------------------------
(***************************************************************************)
(* ensure_prediction_topic of src/src/tripml/publication.py, run by the    *)
(* init container of every serving pod, several at once during a rollout.  *)
(*                                                                         *)
(* The broker is external: it creates a topic for one of two concurrent    *)
(* requests and refuses the other, may fail any call after or before       *)
(* having done what it asked for, and may return metadata that does not    *)
(* show a new topic yet.  Kubernetes retries an init container that        *)
(* failed.  A layout stands for the partition and the replica counts.      *)
(***************************************************************************)
CONSTANTS Pods,      \* serving pods, one init container each
          Layouts,   \* partition and replica counts of the prediction topic
          NoTopic    \* the topic does not exist, or is not in the metadata

ASSUME ProvisioningAssumption == NoTopic \notin Layouts

VARIABLES
  wanted,   \* the layout each pod's release asks for
  topic,    \* external: the layout of the topic
  ensure,   \* where ensure_prediction_topic is
  listed,   \* the layout in `metadata`
  refused   \* external: the broker failed this attempt, or showed stale metadata

provisioningVars == <<wanted, topic, ensure, listed, refused>>

EnsureStates == {"idle", "listing", "creating", "relisting", "verifying",
                 "ensured", "raised"}

ProvisioningInit ==
  /\ wanted \in [Pods -> Layouts]
  /\ topic \in Layouts \cup {NoTopic}
  /\ ensure = [p \in Pods |-> "idle"]
  /\ listed = [p \in Pods |-> NoTopic]
  /\ refused = [p \in Pods |-> FALSE]

Goto(p, s) == ensure' = [ensure EXCEPT ![p] = s]

StartEnsure(p) ==
  /\ ensure[p] \in {"idle", "raised"}
  /\ Goto(p, "listing")
  /\ refused' = [refused EXCEPT ![p] = FALSE]
  /\ UNCHANGED <<wanted, topic, listed>>

ListTopics(p) ==
  /\ ensure[p] = "listing"
  /\ listed' = [listed EXCEPT ![p] = topic]
  /\ Goto(p, IF topic = NoTopic THEN "creating" ELSE "verifying")
  /\ UNCHANGED <<wanted, topic, refused>>

CreateTopic(p) ==
  /\ ensure[p] = "creating"
  /\ topic = NoTopic
  /\ topic' = wanted[p]
  /\ Goto(p, "relisting")
  /\ UNCHANGED <<wanted, listed, refused>>

(* A mutant: TOPIC_ALREADY_EXISTS is an error like any other. *)
AfterAlreadyExistsRaised == "raised"

(* Somebody else created the topic since it was listed. *)
AfterAlreadyExists == "relisting"

AlreadyExists(p) ==
  /\ ensure[p] = "creating"
  /\ topic # NoTopic
  /\ Goto(p, AfterAlreadyExists)
  /\ UNCHANGED <<wanted, topic, listed, refused>>

(* The broker may not show the new topic yet. *)
RelistTopics(p) ==
  /\ ensure[p] = "relisting"
  /\ Goto(p, "verifying")
  /\ \/ listed' = [listed EXCEPT ![p] = topic] /\ UNCHANGED refused
     \/ /\ listed' = [listed EXCEPT ![p] = NoTopic]
        /\ refused' = [refused EXCEPT ![p] = TRUE]
  /\ UNCHANGED <<wanted, topic>>

(* A call fails or times out; a creation may have happened all the same. *)
BrokerError(p) ==
  /\ ensure[p] \in {"listing", "creating", "relisting"}
  /\ \/ UNCHANGED topic
     \/ ensure[p] = "creating" /\ topic = NoTopic /\ topic' = wanted[p]
  /\ Goto(p, "raised")
  /\ refused' = [refused EXCEPT ![p] = TRUE]
  /\ UNCHANGED <<wanted, listed>>

(* A mutant: a topic that exists is good enough. *)
VerifiedIfListed(p) == listed[p] # NoTopic

Verified(p) == listed[p] = wanted[p]

VerifyLayout(p) ==
  /\ ensure[p] = "verifying"
  /\ Goto(p, IF Verified(p) THEN "ensured" ELSE "raised")
  /\ UNCHANGED <<wanted, topic, listed, refused>>

EnsureStep(p) ==
  \/ StartEnsure(p)
  \/ ListTopics(p)
  \/ CreateTopic(p)
  \/ AlreadyExists(p)
  \/ RelistTopics(p)
  \/ BrokerError(p)
  \/ VerifyLayout(p)

------------------------------------------------------------------------------
(* Properties.                                                             *)

ProvisioningTypeOK ==
  /\ wanted \in [Pods -> Layouts]
  /\ topic \in Layouts \cup {NoTopic}
  /\ ensure \in [Pods -> EnsureStates]
  /\ listed \in [Pods -> Layouts \cup {NoTopic}]
  /\ refused \in [Pods -> BOOLEAN]

(* Whoever wins the race to create the topic, nobody fails for having      *)
(* lost it: provisioning raises only when the broker failed it or when the *)
(* topic has another layout ("tolerates concurrent create attempts").      *)
ConcurrentCreatesAreTolerated ==
  \A p \in Pods : ensure[p] = "raised" => refused[p] \/ topic # wanted[p]
==============================================================================
