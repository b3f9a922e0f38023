---------------------------- MODULE ModelRegistry ----------------------------
(***************************************************************************)
(* The training workflow's shared state: the content-addressed bundle      *)
(* store of train_models (src/src/tripml/training.py) and the MLflow runs, *)
(* model versions and production alias that publish_training_report writes *)
(* (src/src/tripml/tracking.py).                                           *)
(*                                                                         *)
(* An attempt is one execution of run_training_workflow (a DAG task try or *)
(* `tripml train`) or of publish_training_report on an existing bundle     *)
(* (scripts/validate-release-model.py).  It may stop between any two       *)
(* calls: a client call that raises, a kill or a timeout.  At most limit   *)
(* attempts run at a time: the code's own workflow keeps it at 1           *)
(* (max_active_runs of the training DAG, and ADR-0017), and a larger limit *)
(* is the operator's command beside the DAG.                               *)
(* A call that raises after it took effect is that call and then Abort;    *)
(* set_terminated alone is repeated by the code, with FAILED, which is     *)
(* FailRun.                                                                *)
(*                                                                         *)
(* Abstracted: a bundle is what its run identifier hashes, that is the     *)
(* input data, the candidate role and the production version (which fixes  *)
(* the production metrics).  Training is deterministic except for latency, *)
(* so the gates other than the one against production may go either way;   *)
(* Mae[d, role] stands for the candidate's error on the holdout of d.      *)
(***************************************************************************)
EXTENDS Integers, Sequences, FiniteSets

CONSTANTS Attempts,         \* bound: each attempt runs once
          MaxActive,        \* bound of limit
          MayTrain,         \* bound: the data and role of a training, for each limit
          Datasets,         \* the gold inputs an attempt may find
          Roles,            \* the candidate roles settings may select
          Mae,              \* [Datasets \X Roles -> Nat]
          MinImprovement,   \* min_mae_improvement_vs_production_pct
          HoldoutOf,        \* each dataset's holdout month and checksum
          NoBundle          \* an attempt without a report

ASSUME RegistryAssumption ==
  /\ IsFiniteSet(Attempts)
  /\ MaxActive \in Nat \ {0}
  /\ MayTrain \in [1..MaxActive -> SUBSET (Datasets \X Roles)]
  /\ Roles \subseteq {"static", "streaming"}
  /\ Mae \in [Datasets \X Roles -> Nat]
  /\ MinImprovement \in Nat
  /\ DOMAIN HoldoutOf = Datasets

(* _log_model_run is called for each, in this order. *)
ModelRoles == <<"baseline", "static", "streaming">>

VARIABLES
  limit,      \* how many attempts may run at a time: chosen once
  trained,    \* the bundles in the store, content-addressed
  approved,   \* those whose decision is to promote
  runs,       \* the experiment's runs, in the order of creation
  versions,   \* the registered versions: versions[v] is version v
  alias,      \* the version the production alias names, 0 for none
  pc,         \* where each attempt is
  local       \* each attempt's local variables

storeVars == <<trained, approved, runs, versions, alias>>
vars == <<limit, storeVars, pc, local>>

Ended == {"returned", "raised"}
PcStates == {"idle", "training", "logging", "starting", "uploading", "registering",
             "comparing", "creating", "advancing", "setting"} \cup Ended

(***************************************************************************)
(* The local variables: the report's bundle, the index of the role being   *)
(* logged, its run, the selected role's run, and the version found or      *)
(* created (0: none yet).                                                  *)
(***************************************************************************)
NoLocals == [bundle |-> NoBundle, step |-> 1, run |-> 0, selected |-> 0, version |-> 0]

Bundle(a) == local[a].bundle

Init ==
  /\ limit \in 1..MaxActive
  /\ trained = {}
  /\ approved = {}
  /\ runs = <<>>
  /\ versions = <<>>
  /\ alias = 0
  /\ pc = [a \in Attempts |-> "idle"]
  /\ local = [a \in Attempts |-> NoLocals]

Active == {a \in Attempts : pc[a] \notin {"idle"} \cup Ended}

Goto(a, to) == pc' = [pc EXCEPT ![a] = to]

(* The call is over and its local variables are gone. *)
End(a, how) == /\ Goto(a, how)
               /\ local' = [local EXCEPT ![a] = NoLocals]

Proceed(a, to) == Goto(a, to) /\ UNCHANGED local
Raise(a) == End(a, "raised")
Return(a) == End(a, "returned")

------------------------------------------------------------------------------
(* production_reference: the alias, refused if its model has another role. *)
ProductionHasRole(role) == alias # 0 => versions[alias].bundle.role = role

Incumbent(b) == versions[b.incumbent].bundle

(* A mutant: the holdout is not compared. *)
AnyHoldout(b) == TRUE

(* _validate_holdout, when there is an incumbent. *)
SameHoldout(b) ==
  b.incumbent # 0 => HoldoutOf[Incumbent(b).data] = HoldoutOf[b.data]

MaeOf(b) == Mae[b.data, b.role]

(* _mae_improvement_pct, compared with its threshold. *)
Improves(candidate, reference) ==
  IF reference = 0 THEN candidate = 0 /\ MinImprovement = 0
  ELSE (reference - candidate) * 100 >= MinImprovement * reference

(* A mutant: production is read again when the decision is made. *)
BeatsCurrentProduction(b) ==
  alias # 0 => Improves(MaeOf(b), MaeOf(versions[alias].bundle))

BeatsProduction(b) ==
  b.incumbent # 0 => Improves(MaeOf(b), MaeOf(Incumbent(b)))

(* The workflow reads production, then trains on the data it finds. *)
StartTraining(a, d, role) ==
  /\ pc[a] = "idle"
  /\ Cardinality(Active) < limit
  /\ <<d, role>> \in MayTrain[limit]
  /\ IF ProductionHasRole(role)
     THEN /\ local' = [local EXCEPT
                         ![a].bundle = [data |-> d, role |-> role, incumbent |-> alias]]
          /\ Goto(a, "training")
     ELSE Raise(a)
  /\ UNCHANGED storeVars

(* train_models: an existing bundle is verified and returned; a new one    *)
(* appears whole, by one rename, with its decision.  The workflow then     *)
(* refuses an incumbent of another holdout.                                *)
Train(a) ==
  LET b == Bundle(a) IN
  /\ pc[a] = "training"
  /\ trained' = trained \cup {b}
  /\ \/ approved' = approved
     \/ b \notin trained /\ BeatsProduction(b) /\ approved' = approved \cup {b}
  /\ IF SameHoldout(b) THEN Proceed(a, "logging") ELSE Raise(a)
  /\ UNCHANGED <<runs, versions, alias>>

(* publish_training_report on the report of an existing bundle. *)
StartRepublication(a, b) ==
  /\ pc[a] = "idle"
  /\ Cardinality(Active) < limit
  /\ local' = [local EXCEPT ![a].bundle = b]
  /\ Goto(a, "logging")
  /\ UNCHANGED storeVars

------------------------------------------------------------------------------
(* _log_model_run, once per role.                                          *)

Role(a) == ModelRoles[local[a].step]

(* What _existing_run's search may return. *)
Matching(a) == {i \in 1..Len(runs) : runs[i].bundle = Bundle(a) /\ runs[i].role = Role(a)}

(***************************************************************************)
(* The current role is logged as run i: on to the next role, or past the   *)
(* three, to registration if every gate passed.                            *)
(***************************************************************************)
RoleLogged(a, i) ==
  LET l == local[a]
      found == [l EXCEPT !.selected = IF Role(a) = l.bundle.role THEN i ELSE @]
  IN  IF l.step < Len(ModelRoles)
      THEN /\ Goto(a, "logging")
           /\ local' = [local EXCEPT ![a] = [found EXCEPT !.step = @ + 1]]
      ELSE IF l.bundle \in approved
      THEN Goto(a, "registering") /\ local' = [local EXCEPT ![a] = found]
      ELSE Return(a)

(* A mutant: the status of an existing run is not looked at. *)
ReuseAnyRun(a, i) ==
  /\ pc[a] = "logging"
  /\ i \in Matching(a)
  /\ RoleLogged(a, i)
  /\ UNCHANGED storeVars

ReuseRun(a, i) ==
  /\ pc[a] = "logging"
  /\ i \in Matching(a)
  /\ runs[i].status = "FINISHED"
  /\ RoleLogged(a, i)
  /\ UNCHANGED storeVars

(* _existing_run finds a run that is not FINISHED: TrackingError. *)
RefuseIncompleteRun(a) ==
  /\ pc[a] = "logging"
  /\ \E i \in Matching(a) : runs[i].status # "FINISHED"
  /\ Raise(a)
  /\ UNCHANGED storeVars

(* A mutant: a new run for every attempt. *)
FindNoRunAnyway(a) ==
  /\ pc[a] = "logging"
  /\ Proceed(a, "starting")
  /\ UNCHANGED storeVars

FindNoRun(a) ==
  /\ pc[a] = "logging"
  /\ Matching(a) = {}
  /\ Proceed(a, "starting")
  /\ UNCHANGED storeVars

CreateRun(a) ==
  /\ pc[a] = "starting"
  /\ runs' = Append(runs, [bundle |-> Bundle(a), role |-> Role(a), status |-> "RUNNING"])
  /\ local' = [local EXCEPT ![a].run = Len(runs) + 1]
  /\ Goto(a, "uploading")
  /\ UNCHANGED <<trained, approved, versions, alias>>

(* A mutant: the run is found by its name again. *)
SetTerminatedByName(a, status) ==
  /\ \E i \in Matching(a) : runs' = [runs EXCEPT ![i].status = status]
  /\ UNCHANGED <<trained, approved, versions, alias>>

SetTerminated(a, status) ==
  /\ runs' = [runs EXCEPT ![local[a].run].status = status]
  /\ UNCHANGED <<trained, approved, versions, alias>>

FinishRun(a) == /\ pc[a] = "uploading"
                /\ SetTerminated(a, "FINISHED")
                /\ RoleLogged(a, local[a].run)

(* A parameter, metric or artifact call raised: the run is marked FAILED. *)
FailRun(a) == /\ pc[a] = "uploading"
              /\ SetTerminated(a, "FAILED")
              /\ Raise(a)

------------------------------------------------------------------------------
(* Registration of a promoted bundle.                                      *)

(* A mutant: a registered version is never found again. *)
NoVersionOf(a) == {}

(* The version an earlier attempt registered from this bundle. *)
VersionOf(a) == {v \in 1..Len(versions) : /\ versions[v].bundle = Bundle(a)
                                          /\ versions[v].run = local[a].selected}

(* A mutant: roles may share a name. *)
VersionsHaveAnyRole(role) == TRUE

(* Every registered version was logged for the selected role. *)
VersionsHaveRole(role) == \A v \in 1..Len(versions) : versions[v].bundle.role = role

FindVersion(a) ==
  /\ pc[a] = "registering"
  /\ \/ ~VersionsHaveRole(Bundle(a).role) /\ Raise(a)
     \/ /\ VersionsHaveRole(Bundle(a).role)
        /\ VersionOf(a) = {}
        /\ Proceed(a, "comparing")
     \/ /\ VersionsHaveRole(Bundle(a).role)
        /\ \E v \in VersionOf(a) : local' = [local EXCEPT ![a].version = v]
        /\ Goto(a, "advancing")
  /\ UNCHANGED storeVars

(* A mutant: an incumbent is compared only when the decision names one. *)
CompareNamedIncumbent(a) ==
  /\ pc[a] = "comparing"
  /\ IF Bundle(a).incumbent \in {0, alias} THEN Proceed(a, "creating") ELSE Raise(a)
  /\ UNCHANGED storeVars

(* The incumbent the decision names must still be in production, with the  *)
(* metrics and the holdout it was compared on.                             *)
CompareIncumbent(a) ==
  /\ pc[a] = "comparing"
  /\ IF /\ ProductionHasRole(Bundle(a).role)
        /\ Bundle(a).incumbent = alias
        /\ SameHoldout(Bundle(a))
     THEN Proceed(a, "creating")
     ELSE Raise(a)
  /\ UNCHANGED storeVars

CreateVersion(a) ==
  /\ pc[a] = "creating"
  /\ versions' = Append(versions, [bundle |-> Bundle(a), run |-> local[a].selected])
  /\ local' = [local EXCEPT ![a].version = Len(versions) + 1]
  /\ Goto(a, "advancing")
  /\ UNCHANGED <<trained, approved, runs, alias>>

(* The alias is read again: it never goes back, and it moves only from the *)
(* version the decision was made against.                                  *)
ReadAlias(a) ==
  /\ pc[a] = "advancing"
  /\ IF local[a].version <= alias THEN Return(a)
     ELSE IF Bundle(a).incumbent = alias THEN Proceed(a, "setting")
     ELSE Raise(a)
  /\ UNCHANGED storeVars

SetAlias(a) == /\ pc[a] = "setting"
               /\ alias' = local[a].version
               /\ Return(a)
               /\ UNCHANGED <<trained, approved, runs, versions>>

(* Any other stop: a raising client call, a kill, a timeout.  Whatever the *)
(* attempt has written stays as it is, a RUNNING run included.             *)
Abort(a) == /\ a \in Active
            /\ Raise(a)
            /\ UNCHANGED storeVars

------------------------------------------------------------------------------
(* load_production_model accepts version v: its run and its evidence agree, *)
(* and a streaming model comes with exactly one static fallback, finished.  *)
Loadable(v) ==
  LET b == versions[v].bundle
      run == runs[versions[v].run]
      siblings == {i \in 1..Len(runs) : runs[i].bundle = b /\ runs[i].role = "static"}
  IN  /\ run = [bundle |-> b, role |-> b.role, status |-> "FINISHED"]
      /\ b \in approved
      /\ b.role = "streaming" =>
           Cardinality(siblings) = 1 /\ \A i \in siblings : runs[i].status = "FINISHED"

------------------------------------------------------------------------------
Start(a) == \/ \E d \in Datasets, role \in Roles : StartTraining(a, d, role)
            \/ \E b \in trained : StartRepublication(a, b)

LogStep(a) == \/ \E i \in 1..Len(runs) : ReuseRun(a, i)
              \/ RefuseIncompleteRun(a) \/ FindNoRun(a)
              \/ CreateRun(a) \/ FinishRun(a) \/ FailRun(a)

RegisterStep(a) == FindVersion(a) \/ CompareIncumbent(a) \/ CreateVersion(a)
                   \/ ReadAlias(a) \/ SetAlias(a)

Step == \E a \in Attempts :
          Start(a) \/ Train(a) \/ LogStep(a) \/ RegisterStep(a) \/ Abort(a)

Next == Step /\ UNCHANGED limit

Spec == Init /\ [][Next]_vars

------------------------------------------------------------------------------
(* Properties.                                                             *)

BundleIds == [data : Datasets, role : Roles, incumbent : Nat]
RunRecords == [bundle : BundleIds, role : {"baseline", "static", "streaming"},
               status : {"RUNNING", "FINISHED", "FAILED"}]
VersionRecords == [bundle : BundleIds, run : Nat]
Locals == [bundle : BundleIds \cup {NoBundle}, step : 1..3,
           run : Nat, selected : Nat, version : Nat]

Typed ==
  /\ trained \subseteq BundleIds
  /\ approved \subseteq trained
  /\ runs \in Seq(RunRecords)
  /\ versions \in Seq(VersionRecords)
  /\ alias \in Nat
  /\ pc \in [Attempts -> PcStates]
  /\ local \in [Attempts -> Locals]
  /\ \A a \in Active : Bundle(a) \in BundleIds

(* The variables have the types the code gives them. *)
TypeOK == limit \in 1..MaxActive /\ Typed

FinishedRun(b, role) == [bundle |-> b, role |-> role, status |-> "FINISHED"]

(* A registered version is a bundle that passed every gate, registered     *)
(* with the FINISHED run of its selected role, and its three roles are all *)
(* logged: however attempts fail, repeat or overlap, nothing else can be   *)
(* reached through the alias (ADR-0007: "Create a registered-model version *)
(* only when every promotion gate passes").                                *)
OnlyApprovedIsRegistered ==
  \A v \in 1..Len(versions) :
    LET b == versions[v].bundle IN
    /\ b \in approved
    /\ versions[v].run \in 1..Len(runs)
    /\ runs[versions[v].run] = FinishedRun(b, b.role)
    /\ \A i \in 1..3 : \E j \in 1..Len(runs) : runs[j] = FinishedRun(b, ModelRoles[i])

(* However attempts overlap, and though the alias is read, compared and set *)
(* by separate calls: it names a registered version, every version was      *)
(* measured against an earlier one or against none, so that the approvals   *)
(* form no cycle, and each decision is true of the very incumbent it names. *)
(* An overlap may still set the alias back: see ImplementsRegister.         *)
ApprovalsFormAChain ==
  /\ alias \in 0..Len(versions)
  /\ \A v \in 1..Len(versions) : versions[v].bundle.incumbent \in 0..(v - 1)
  /\ \A b \in approved : b.incumbent # 0 => Improves(MaeOf(b), MaeOf(Incumbent(b)))

(* However attempts overlap: the decision about a bundle is made once, when *)
(* the bundle appears, a registered version is never changed or dropped,    *)
(* and a run only goes from RUNNING to its end, so that whatever an attempt *)
(* has read of these is still so when it acts on it.  The alias alone may   *)
(* have moved.                                                              *)
HistoryStep ==
  /\ \A b \in trained : b \in trained' /\ (b \in approved' <=> b \in approved)
  /\ \A v \in 1..Len(versions) : v \in 1..Len(versions') /\ versions'[v] = versions[v]
  /\ \A i \in 1..Len(runs) :
       /\ i \in 1..Len(runs')
       /\ \/ runs'[i] = runs[i]
          \/ /\ runs[i].status = "RUNNING" /\ runs'[i].status \in {"FINISHED", "FAILED"}
             /\ runs'[i].bundle = runs[i].bundle /\ runs'[i].role = runs[i].role

HistoryIsKept == [][HistoryStep]_vars

(* While one attempt publishes at a time, retries and republication never  *)
(* create a second version of a bundle (ADR-0007: "Make publication        *)
(* idempotent by matching the bundle identifier").                         *)
NoDuplicateVersions ==
  limit = 1 => \A v, w \in 1..Len(versions) : versions[v].bundle = versions[w].bundle => v = w

(* While one attempt publishes at a time, all versions under one registered *)
(* name are of one candidate role, also when settings change role over the  *)
(* same name (ADR-0017: "Publication refuses a registry containing versions *)
(* of the other role").                                                     *)
OneRolePerRegistry ==
  limit = 1 => \A v, w \in 1..Len(versions) : versions[v].bundle.role = versions[w].bundle.role

(* While one attempt publishes at a time, each move of the alias serves a  *)
(* model that was measured, on the same holdout, to be better by the       *)
(* configured margin than the very model it replaces: not than the one in  *)
(* production when it was trained.                                         *)
EachPromotionImproves ==
  [][limit = 1 /\ alias' # alias /\ alias # 0 =>
       LET old == versions'[alias].bundle
           new == versions'[alias'].bundle
       IN  HoldoutOf[new.data] = HoldoutOf[old.data] /\ Improves(MaeOf(new), MaeOf(old))]_vars

(* While one attempt publishes at a time, a server that starts, at any     *)
(* moment, accepts what the production alias names: no interrupted or      *)
(* repeated attempt leaves production without a complete set of runs, or   *)
(* with two candidates for the static fallback.                            *)
ProductionIsLoadable == limit = 1 /\ alias # 0 => Loadable(alias)

(* With one attempt at a time the alias is a compare-and-swap register:    *)
(* it only moves forward, and only from the version the promotion decision *)
(* was compared with.  Nothing is claimed of a larger limit, for which the *)
(* mapping gives an empty register.                                        *)
Approval(version) ==
  [candidate |-> [data |-> version.bundle.data, role |-> version.bundle.role],
   incumbent |-> version.bundle.incumbent]

Registered ==
  IF limit = 1 THEN [v \in 1..Len(versions) |-> Approval(versions[v])] ELSE <<>>

Production == IF limit = 1 THEN alias ELSE 0

Register ==
  INSTANCE PromotionRegister
    WITH Candidates <- [data : Datasets, role : Roles],
         registered <- Registered,
         production <- Production

ImplementsRegister == Register!Spec

(* An attempt is refused only for its evidence (stale, another holdout,    *)
(* another role), never for the run an earlier, failed attempt of the same *)
(* bundle left behind (ADR-0007: "Registry state is safe under task        *)
(* retries and intentional republication").                                *)
RetriesAreNotBlocked ==
  \A a \in Attempts :
    pc[a] = "logging" => \A i \in Matching(a) : runs[i].status = "FINISHED"
==============================================================================
