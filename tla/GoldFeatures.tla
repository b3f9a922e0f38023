---------------------------- MODULE GoldFeatures ----------------------------
(***************************************************************************)
(* The files between ingestion and training: build_gold_features           *)
(* (src/src/tripml/features.py) turns silver partitions into a gold        *)
(* partition and its manifest, and train_models                            *)
(* (src/src/tripml/training.py) turns gold partitions into a bundle named  *)
(* by their checksums.                                                     *)
(*                                                                         *)
(* A builder is one call of build_gold_features, a trainer one call of     *)
(* train_models; each may raise or be killed between any two steps.  A     *)
(* file is read by its path at several moments, and every read is a step.  *)
(* At most limit builders run at a time, and fewer beside an ingestion: 1  *)
(* for the ingestion DAG (max_active_runs), more when the command line is  *)
(* used beside it.  One training run at a time is that of the training     *)
(* DAG; nothing orders the two DAGs.                                       *)
(*                                                                         *)
(* Abstracted: a silver file is a member of Contents with its contract; a  *)
(* gold file is its rows, which RowsOf computes of the inputs, with the    *)
(* contract and the version they carry.  RowsOf need not tell all inputs   *)
(* apart: staging keeps only what can enter a window of the month.  A      *)
(* checksum is the content itself, of a gold file therefore its rows and   *)
(* not its inputs.  Temporary files are private and left out; every        *)
(* replace is atomic.                                                      *)
(***************************************************************************)
EXTENDS Naturals, Sequences, FiniteSets

CONSTANTS Builders, Trainers,   \* bound: each runs once
          MaxActive,            \* bound of limit
          MaxTrainings,         \* bound: the trainers that start, for each limit
          MayHold,              \* bound: what is ingested, for each limit
          LastMonth,            \* months are 1..LastMonth
          TrainMonths,          \* train_months and holdout_month, in order
          Contents,             \* what a silver partition may hold
          Rows, RowsOf,         \* [Inputs -> Rows]: the rows of a gold file
          Contracts,
          ContractOf,           \* [Contents -> Contracts]
          FeatureVersions,      \* FEATURE_VERSIONS: a version of each contract
          NoFile

Months == 1..LastMonth
OrNone(S) == S \cup {NoFile}

(* What a builder reads: the lookback partition, if any, and the target.   *)
Slots == {"previous", "target"}
Inputs == [Slots -> OrNone(Contents)]

ASSUME GoldAssumption ==
  /\ IsFiniteSet(Builders) /\ IsFiniteSet(Trainers)
  /\ Builders \cap Trainers = {}
  /\ MaxActive \in Nat \ {0}
  /\ MaxTrainings \in [1..MaxActive -> Nat]
  /\ MayHold \in [1..MaxActive -> SUBSET Contents]
  /\ LastMonth \in Nat \ {0}
  /\ TrainMonths \in Seq(Months) /\ TrainMonths # <<>>
  /\ RowsOf \in [Inputs -> Rows]
  /\ ContractOf \in [Contents -> Contracts]
  /\ DOMAIN FeatureVersions = Contracts
  /\ NoFile \notin Contents
  /\ NoFile \notin Contracts

VARIABLES
  limit,      \* how many builders may run at a time: chosen once
  silver,     \* the silver partition of each month; month 0 never has one
  gold,       \* the gold file of each month
  manifest,   \* the gold manifest of each month
  bundles,    \* the artifact root: bundles with the name they are kept under
  pc, build, train

fileVars == <<silver, gold, manifest>>
vars == <<limit, fileVars, bundles, pc, build, train>>

Ended == {"returned", "stopped"}
BuilderPcs == {"opening", "hashing", "aggregating", "testing", "publishing", "describing",
               "recording"}
TrainerPcs == {"reading", "checksumming", "identifying", "fitting"}

(* The builder's local variables: its month, the slot it is at, what it    *)
(* opened, hashed and aggregated for each slot, and the output's checksum. *)
NoInputs == [s \in Slots |-> NoFile]
NoBuild == [month |-> 0, slot |-> "previous", opened |-> NoInputs, hashed |-> NoInputs,
            aggregated |-> NoInputs, output |-> NoFile]
(* The trainer's: the tables it has read and the TrainingInputs that name  *)
(* them, in the order of TrainMonths, and the bundle it returns.           *)
NoTrain == [tables |-> <<>>, inputs |-> <<>>, result |-> NoFile]

Init ==
  /\ limit \in 1..MaxActive
  /\ silver = [m \in 0..LastMonth |-> NoFile]
  /\ gold = [m \in Months |-> NoFile]
  /\ manifest = [m \in Months |-> NoFile]
  /\ bundles = {}
  /\ pc = [p \in Builders \cup Trainers |-> "idle"]
  /\ build = [b \in Builders |-> NoBuild]
  /\ train = [t \in Trainers |-> NoTrain]

Busy(group) == {p \in group : pc[p] \notin {"idle"} \cup Ended}
PipelineFree == Cardinality(Busy(Builders)) < limit
TrainingFree == /\ Busy(Trainers) = {}
                /\ Cardinality({t \in Trainers : pc[t] # "idle"}) < MaxTrainings[limit]

Goto(p, to) == pc' = [pc EXCEPT ![p] = to]

(* The ingestion of a month moves an accepted partition into place. *)
Ingest(m, c) == /\ PipelineFree
                /\ c \in MayHold[limit]
                /\ silver' = [silver EXCEPT ![m] = c]
                /\ UNCHANGED <<gold, manifest, bundles, pc, build, train>>

------------------------------------------------------------------------------
(* build_gold_features                                                     *)

SlotMonth(m, slot) == IF slot = "target" THEN m ELSE m - 1
PathOf(b) == silver[SlotMonth(build[b].month, build[b].slot)]

FeatureVersion(contract) == FeatureVersions[contract]

Used(inputs) == {inputs[s] : s \in Slots} \ {NoFile}
SameContract(inputs) == \A c, d \in Used(inputs) : ContractOf[c] = ContractOf[d]

(* The gold file of the inputs dbt has read: contract_version is a column  *)
(* of its rows, feature_model_version was decided from the opened target.  *)
GoldFrom(opened, read) == [rows |-> RowsOf[read],
                           contract |-> ContractOf[read["target"]],
                           version |-> FeatureVersion(ContractOf[opened["target"]])]
GoldOf(b) == GoldFrom(build[b].opened, build[b].aggregated)

StartBuild(b, m) == /\ pc[b] = "idle"
                    /\ PipelineFree
                    /\ silver[m] # NoFile
                    /\ build' = [build EXCEPT ![b].month = m]
                    /\ Goto(b, "opening")
                    /\ UNCHANGED <<fileVars, bundles, train>>

(* An absent previous partition is skipped.  The contract is read from the *)
(* opened file.                                                            *)
OpenInput(b) == /\ pc[b] = "opening"
                /\ \/ /\ PathOf(b) = NoFile
                      /\ build[b].slot = "previous"
                      /\ build' = [build EXCEPT ![b].slot = "target"]
                      /\ UNCHANGED pc
                   \/ /\ PathOf(b) # NoFile
                      /\ build' = [build EXCEPT ![b].opened[build[b].slot] = PathOf(b)]
                      /\ Goto(b, "hashing")
                /\ UNCHANGED <<fileVars, bundles, train>>

(* A mutant: a checksum that an earlier build recorded is used again. *)
HashInputOnce(b) ==
  LET known == manifest[build[b].month]
  IN /\ pc[b] = "hashing"
     /\ build' = [build EXCEPT
          ![b].hashed[build[b].slot] =
             IF known = NoFile THEN PathOf(b) ELSE known.inputs[build[b].slot],
          ![b].slot = IF @ = "previous" THEN "target" ELSE "previous"]
     /\ IF build[b].slot = "previous"
        THEN Goto(b, "opening")
        ELSE SameContract(build[b].opened) /\ Goto(b, "aggregating")
     /\ UNCHANGED <<fileVars, bundles, train>>

(* The checksum is taken of the path, once more.  After the target the     *)
(* contracts of the opened files must agree.                               *)
HashInput(b) == /\ pc[b] = "hashing"
                /\ build' = [build EXCEPT ![b].hashed[build[b].slot] = PathOf(b),
                                          ![b].slot = IF @ = "previous" THEN "target" ELSE "previous"]
                /\ IF build[b].slot = "previous"
                   THEN Goto(b, "opening")
                   ELSE SameContract(build[b].opened) /\ Goto(b, "aggregating")
                /\ UNCHANGED <<fileVars, bundles, train>>

(* dbt reads the paths of the inputs found before. *)
Aggregate(b) == /\ pc[b] = "aggregating"
                /\ build' = [build EXCEPT
                     ![b].aggregated[build[b].slot] =
                        IF build[b].opened[build[b].slot] = NoFile THEN NoFile ELSE PathOf(b),
                     ![b].slot = "target"]
                /\ IF build[b].slot = "previous" THEN UNCHANGED pc ELSE Goto(b, "testing")
                /\ UNCHANGED <<fileVars, bundles, train>>

(* The dbt test of the contract.  The rows of a gold partition are its     *)
(* month's pickups, which come from the target only.                       *)
TestsPass(g) == g.version = FeatureVersion(g.contract)

RunTests(b) == /\ pc[b] = "testing"
               /\ TestsPass(GoldOf(b))
               /\ Goto(b, "publishing")
               /\ UNCHANGED <<fileVars, bundles, build, train>>

PublishGold(b) == /\ pc[b] = "publishing"
                  /\ gold' = [gold EXCEPT ![build[b].month] = GoldOf(b)]
                  /\ Goto(b, "describing")
                  /\ UNCHANGED <<silver, manifest, bundles, build, train>>

HashOutput(b) == /\ pc[b] = "describing"
                 /\ build' = [build EXCEPT ![b].output = gold[build[b].month]]
                 /\ Goto(b, "recording")
                 /\ UNCHANGED <<fileVars, bundles, train>>

Describe(b) == [inputs |-> build[b].hashed, output |-> build[b].output]
WriteManifest(b) == /\ pc[b] = "recording"
                    /\ manifest' = [manifest EXCEPT ![build[b].month] = Describe(b)]
                    /\ Goto(b, "returned")
                    /\ UNCHANGED <<silver, gold, bundles, build, train>>

------------------------------------------------------------------------------
(* train_models                                                            *)

StartTraining(t) == /\ pc[t] = "idle"
                    /\ TrainingFree
                    /\ Goto(t, "reading")
                    /\ UNCHANGED <<fileVars, bundles, build, train>>

(* _load_input: the table is read from the file that was opened ... *)
ReadTable(t) ==
  LET month == TrainMonths[Len(train[t].tables) + 1]
  IN /\ pc[t] = "reading"
     /\ gold[month] # NoFile
     /\ train' = [train EXCEPT ![t].tables = Append(@, gold[month])]
     /\ Goto(t, "checksumming")
     /\ UNCHANGED <<fileVars, bundles, build>>

(* ... and the checksum of the path, once more. *)
InputOfPath(g, table) ==      \* a mutant: the version, too, is read from the path
  [sha256 |-> g, version |-> g.version]
InputOf(g, table) == [sha256 |-> g, version |-> table.version]
HashTable(t) ==
  LET n == Len(train[t].tables)
      month == TrainMonths[n]
  IN /\ pc[t] = "checksumming"
     /\ train' = [train EXCEPT ![t].inputs = Append(@, InputOf(gold[month], train[t].tables[n]))]
     /\ Goto(t, IF n = Len(TrainMonths) THEN "identifying" ELSE "reading")
     /\ UNCHANGED <<fileVars, bundles, build>>

VersionsAgree(tables) == \A i, j \in DOMAIN tables : tables[i].version = tables[j].version
TrainingIdentifier(inputs) ==      \* a mutant: the holdout's checksum is left out
  [inputs EXCEPT ![Len(inputs)].sha256 = NoFile]
RunIdentifier(inputs) == inputs

(* A bundle under this name is reused. *)
ReuseBundle(t) == /\ pc[t] = "identifying"
                  /\ VersionsAgree(train[t].tables)
                  /\ \E b \in bundles :
                       /\ b.name = RunIdentifier(train[t].inputs)
                       /\ train' = [train EXCEPT ![t].result = b]
                  /\ Goto(t, "returned")
                  /\ UNCHANGED <<fileVars, bundles, build>>

Identify(t) == /\ pc[t] = "identifying"
               /\ VersionsAgree(train[t].tables)
               /\ \A b \in bundles : b.name # RunIdentifier(train[t].inputs)
               /\ Goto(t, "fitting")
               /\ UNCHANGED <<fileVars, bundles, build, train>>

BundleOf(t) == [name |-> RunIdentifier(train[t].inputs), data |-> train[t].tables]
PlaceBundle(t) == /\ pc[t] = "fitting"
                  /\ \A b \in bundles : b.name # BundleOf(t).name
                  /\ bundles' = bundles \cup {BundleOf(t)}
                  /\ train' = [train EXCEPT ![t].result = BundleOf(t)]
                  /\ Goto(t, "returned")
                  /\ UNCHANGED <<fileVars, build>>

(* An exception or a kill; what has been moved into place stays. *)
Abort(p) == /\ pc[p] \notin {"idle"} \cup Ended
            /\ Goto(p, "stopped")
            /\ UNCHANGED <<fileVars, bundles, build, train>>

------------------------------------------------------------------------------
BuilderStep(b) == \/ \E m \in Months : StartBuild(b, m)
                  \/ OpenInput(b) \/ HashInput(b) \/ Aggregate(b) \/ RunTests(b)
                  \/ PublishGold(b) \/ HashOutput(b) \/ WriteManifest(b)
TrainerStep(t) == \/ StartTraining(t) \/ ReadTable(t) \/ HashTable(t)
                  \/ ReuseBundle(t) \/ Identify(t) \/ PlaceBundle(t)

Step == \/ \E m \in Months, c \in Contents : Ingest(m, c)
        \/ \E b \in Builders : BuilderStep(b)
        \/ \E t \in Trainers : TrainerStep(t)
        \/ \E p \in Builders \cup Trainers : Abort(p)

Next == Step /\ UNCHANGED limit

Spec == Init /\ [][Next]_vars

------------------------------------------------------------------------------
Versions == {FeatureVersions[k] : k \in Contracts}
GoldFiles == [rows : Rows, contract : Contracts, version : Versions]
Manifests == [inputs : Inputs, output : OrNone(GoldFiles)]
TrainingInputs == [sha256 : OrNone(GoldFiles), version : Versions]
Bundles == [name : Seq(TrainingInputs), data : Seq(GoldFiles)]

BuildLocals == [month : 0..LastMonth, slot : Slots, opened : Inputs, hashed : Inputs,
                aggregated : Inputs, output : OrNone(GoldFiles)]
TrainLocals == [tables : Seq(GoldFiles), inputs : Seq(TrainingInputs), result : OrNone(Bundles)]

Typed ==
  /\ silver \in [0..LastMonth -> OrNone(Contents)]
  /\ gold \in [Months -> OrNone(GoldFiles)]
  /\ manifest \in [Months -> OrNone(Manifests)]
  /\ bundles \subseteq Bundles
  /\ pc \in [Builders \cup Trainers -> {"idle"} \cup Ended \cup BuilderPcs \cup TrainerPcs]
  /\ build \in [Builders -> BuildLocals]
  /\ train \in [Trainers -> TrainLocals]

(* Type correctness; in particular a gold file carries a version that the  *)
(* trainer supports (training.py:377).                                     *)
TypeOK == limit \in 1..MaxActive /\ Typed

(* The gold file that a build of these inputs results in. *)
ResultOf(inputs) == GoldFrom(inputs, inputs)

(* The manifest is evidence (ADR-0005): with one build at a time, whenever *)
(* its output checksum is that of the gold file in place, a build of the   *)
(* inputs it lists results in that file, also after a build was killed     *)
(* between the two files and the retry found other silver.                 *)
MatchingManifestIsTrue ==
  limit = 1 => \A m \in Months :
    (manifest[m] # NoFile /\ manifest[m].output = gold[m])
      => gold[m] = ResultOf(manifest[m].inputs)

Paths(b) == [s \in Slots |-> silver[SlotMonth(build[b].month, s)]]
Current(b) == LET m == build[b].month
              IN gold[m] = ResultOf(Paths(b)) /\ manifest[m].output = gold[m]

(* With one build at a time, a build that returns leaves the gold file of  *)
(* the silver partitions in place, and the manifest of that file.          *)
ReturnedBuildIsCurrent ==
  [][limit = 1 => \A b \in Builders :
       (pc[b] # "returned" /\ pc'[b] = "returned") => Current(b)']_vars

(* With one build at a time, none computes windows over rows of two silver *)
(* contracts, those of the lookback included (features.py:113).            *)
GoldHasOneContract ==
  limit = 1 => \A b \in Builders : \A c, d \in Used(build[b].aggregated) : ContractOf[c] = ContractOf[d]

(* However silver is replaced while a build reads it, the feature version  *)
(* a gold file carries is that of the contract of its rows.                *)
GoldVersionMatchesRows ==
  \A m \in Months : gold[m] # NoFile => gold[m].version = FeatureVersions[gold[m].contract]

(* However ingestion, builds and training overlap, the one feature version *)
(* of a bundle is that of the rows of every table it was trained on:       *)
(* serving takes the handling of unknown passenger counts from it.         *)
BundleVersionMatchesRows ==
  \A b \in bundles, i, j \in DOMAIN TrainMonths :
    b.name[i].version = FeatureVersions[b.data[j].contract]

(* Every training run so far has hashed the files that it read. *)
HashedAsRead ==
  \A t \in Trainers : \A i \in 1..Len(train[t].inputs) :
    train[t].inputs[i].sha256 = train[t].tables[i]

(* A training run returns a bundle that was trained on the tables the run  *)
(* has read, whether it made the bundle or found it, unless a run so far   *)
(* has hashed another file than it read.                                   *)
ReturnedBundleIsOfItsData ==
  HashedAsRead => \A t \in Trainers : pc[t] = "returned" => train[t].result.data = train[t].tables

(* ADR-0006:20-21: the run identifier is defined from the checksums of the *)
(* gold inputs, so that an identical invocation reuses the completed run:  *)
(* a bundle is named by the data it was trained on.                        *)
BundleNamesItsData ==
  \A b \in bundles, i \in DOMAIN TrainMonths : b.name[i].sha256 = b.data[i]
==============================================================================
