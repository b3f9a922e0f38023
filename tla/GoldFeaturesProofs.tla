------------------------- MODULE GoldFeaturesProofs -------------------------
(***************************************************************************)
(* Proofs about GoldFeatures, for any number of months, builders and       *)
(* trainers and for every RowsOf: first what holds however many of them    *)
(* overlap, then what holds of builds one after the other (limit = 1),     *)
(* then what holds of training while what it hashes is what it has read.   *)
(***************************************************************************)
EXTENDS GoldFeatures, FiniteSetTheorems, TLAPS

(* Where a builder has its month, and where it has opened the target. *)
BuildPlaces ==
  \A b \in Builders :
    /\ pc[b] \in BuilderPcs => build[b].month \in Months /\ silver[build[b].month] \in Contents
    /\ (pc[b] = "hashing" /\ build[b].slot = "target") => build[b].opened["target"] \in Contents
    /\ pc[b] \in {"aggregating", "testing", "publishing"} => build[b].opened["target"] \in Contents
    /\ pc[b] \in {"testing", "publishing"} => build[b].aggregated["target"] \in Contents

(* How far through its months a trainer is. *)
TrainPlaces ==
  \A t \in Trainers :
    /\ pc[t] = "idle" => train[t].tables = <<>>
    /\ pc[t] = "reading" => Len(train[t].tables) < Len(TrainMonths)
    /\ pc[t] = "checksumming" => Len(train[t].tables) \in DOMAIN TrainMonths

(* What the dbt test has established of the output about to be moved. *)
Tested == \A b \in Builders : pc[b] = "publishing" => TestsPass(GoldOf(b))

TypeInv == Typed /\ BuildPlaces /\ TrainPlaces
GoldInv == TypeInv /\ Tested /\ GoldVersionMatchesRows

(* A builder is not a trainer, and moving one leaves the others. *)
LEMMA Processes == \A b \in Builders : b \notin Trainers
  BY GoldAssumption

(* A step of one builder keeps the invariant when it keeps the files typed *)
(* and leaves its own variables well placed.                               *)
LEMMA BuilderMoves ==
  ASSUME TypeInv, NEW b \in Builders, NEW to, NEW local,
         to \in {"idle"} \cup Ended \cup BuilderPcs,
         pc' = [pc EXCEPT ![b] = to],
         build' = [build EXCEPT ![b] = local],
         local \in BuildLocals,
         to \in BuilderPcs => local.month \in Months /\ silver[local.month] \in Contents,
         (to = "hashing" /\ local.slot = "target") => local.opened["target"] \in Contents,
         to \in {"aggregating", "testing", "publishing"} => local.opened["target"] \in Contents,
         to \in {"testing", "publishing"} => local.aggregated["target"] \in Contents,
         silver' = silver, gold' \in [Months -> OrNone(GoldFiles)],
         manifest' \in [Months -> OrNone(Manifests)], UNCHANGED <<bundles, train>>
  PROVE  TypeInv'
<1>1. pc' \in [Builders \cup Trainers -> {"idle"} \cup Ended \cup BuilderPcs \cup TrainerPcs]
  BY DEF TypeInv, Typed
<1>2. build' \in [Builders -> BuildLocals]
  BY DEF TypeInv, Typed
<1>3. Typed'
  BY <1>1, <1>2 DEF TypeInv, Typed
<1>4. BuildPlaces'
  <2> SUFFICES ASSUME NEW c \in Builders
               PROVE  /\ pc'[c] \in BuilderPcs
                           => build'[c].month \in Months /\ silver'[build'[c].month] \in Contents
                      /\ (pc'[c] = "hashing" /\ build'[c].slot = "target")
                           => build'[c].opened["target"] \in Contents
                      /\ pc'[c] \in {"aggregating", "testing", "publishing"}
                           => build'[c].opened["target"] \in Contents
                      /\ pc'[c] \in {"testing", "publishing"}
                           => build'[c].aggregated["target"] \in Contents
    BY DEF BuildPlaces
  <2>1. CASE c = b
    <3>1. pc'[c] = to /\ build'[c] = local
      BY <2>1 DEF TypeInv, Typed
    <3> QED BY <3>1
  <2>2. CASE c # b
    <3>1. pc'[c] = pc[c] /\ build'[c] = build[c]
      BY <2>2 DEF TypeInv, Typed
    <3> QED BY <3>1 DEF TypeInv, BuildPlaces
  <2> QED BY <2>1, <2>2
<1>5. TrainPlaces'
  <2>1. \A t \in Trainers : pc'[t] = pc[t]
    BY Processes DEF TypeInv, Typed
  <2> QED BY <2>1 DEF TypeInv, TrainPlaces
<1> QED BY <1>3, <1>4, <1>5 DEF TypeInv

(* The same of a trainer's step. *)
LEMMA TrainerMoves ==
  ASSUME TypeInv, NEW t \in Trainers, NEW to, NEW local,
         to \in Ended \cup TrainerPcs,
         pc' = [pc EXCEPT ![t] = to],
         train' = [train EXCEPT ![t] = local],
         local \in TrainLocals,
         to = "reading" => Len(local.tables) < Len(TrainMonths),
         to = "checksumming" => Len(local.tables) \in DOMAIN TrainMonths,
         bundles' \subseteq Bundles, UNCHANGED <<fileVars, build>>
  PROVE  TypeInv'
<1>1. pc' \in [Builders \cup Trainers -> {"idle"} \cup Ended \cup BuilderPcs \cup TrainerPcs]
  BY DEF TypeInv, Typed
<1>2. train' \in [Trainers -> TrainLocals]
  BY DEF TypeInv, Typed
<1>3. Typed'
  BY <1>1, <1>2 DEF TypeInv, Typed, fileVars
<1>4. TrainPlaces'
  <2> SUFFICES ASSUME NEW u \in Trainers
               PROVE  /\ pc'[u] = "idle" => train'[u].tables = <<>>
                      /\ pc'[u] = "reading" => Len(train'[u].tables) < Len(TrainMonths)
                      /\ pc'[u] = "checksumming" => Len(train'[u].tables) \in DOMAIN TrainMonths
    BY DEF TrainPlaces
  <2>1. CASE u = t
    <3>1. pc'[u] = to /\ train'[u] = local
      BY <2>1 DEF TypeInv, Typed
    <3> QED BY <3>1 DEF Ended, TrainerPcs
  <2>2. CASE u # t
    <3>1. pc'[u] = pc[u] /\ train'[u] = train[u]
      BY <2>2 DEF TypeInv, Typed
    <3> QED BY <3>1 DEF TypeInv, TrainPlaces
  <2> QED BY <2>1, <2>2
<1>5. BuildPlaces'
  <2>1. \A b \in Builders : pc'[b] = pc[b]
    BY Processes DEF TypeInv, Typed
  <2> QED BY <2>1 DEF TypeInv, BuildPlaces, fileVars
<1> QED BY <1>3, <1>4, <1>5 DEF TypeInv

------------------------------------------------------------------------------
(* What each action leaves: types and places.                              *)

LEMMA GoldFromTyped ==
  ASSUME NEW opened \in Inputs, NEW read \in Inputs,
         opened["target"] \in Contents, read["target"] \in Contents
  PROVE  GoldFrom(opened, read) \in GoldFiles
<1>1. /\ ContractOf[opened["target"]] \in Contracts /\ ContractOf[read["target"]] \in Contracts
      /\ RowsOf[read] \in Rows
  BY GoldAssumption
<1>2. FeatureVersion(ContractOf[opened["target"]]) \in Versions
  BY <1>1 DEF FeatureVersion, Versions
<1> QED BY <1>1, <1>2 DEF GoldFrom, GoldFiles

LEMMA GoldTyped ==
  ASSUME TypeInv, NEW b \in Builders, build[b].opened["target"] \in Contents,
         build[b].aggregated["target"] \in Contents
  PROVE  GoldOf(b) \in GoldFiles
<1>1. build[b].opened \in Inputs /\ build[b].aggregated \in Inputs
  BY DEF TypeInv, Typed, BuildLocals
<1> QED BY <1>1, GoldFromTyped DEF GoldOf

LEMMA PathTyped ==
  ASSUME TypeInv, NEW b \in Builders, build[b].month \in Months
  PROVE  PathOf(b) \in OrNone(Contents)
  BY GoldAssumption DEF TypeInv, Typed, PathOf, SlotMonth, Months, Slots

LEMMA StartBuildTyped ==
  ASSUME TypeInv, NEW b \in Builders, NEW m \in Months, StartBuild(b, m)
  PROVE  TypeInv'
<1> DEFINE local == [build[b] EXCEPT !.month = m]
<1>1. build' = [build EXCEPT ![b] = local] /\ pc' = [pc EXCEPT ![b] = "opening"]
  BY DEF StartBuild, Goto, TypeInv, Typed
<1>2. /\ local.month \in Months /\ local \in BuildLocals
      /\ silver[local.month] \in Contents
  <2>1. m \in 0..LastMonth
    BY GoldAssumption DEF Months
  <2>2. local.month = m /\ local \in BuildLocals
    BY <2>1 DEF TypeInv, Typed, BuildLocals
  <2>3. silver[m] \in Contents
    BY <2>1 DEF StartBuild, TypeInv, Typed, OrNone
  <2> QED BY <2>2, <2>3
<1> HIDE DEF local
<1>3. /\ UNCHANGED <<silver, bundles, train>>
      /\ gold' \in [Months -> OrNone(GoldFiles)] /\ manifest' \in [Months -> OrNone(Manifests)]
  BY DEF StartBuild, fileVars, TypeInv, Typed
<1> QED BY <1>1, <1>2, <1>3, BuilderMoves DEF BuilderPcs

LEMMA OpenInputTyped ==
  ASSUME TypeInv, NEW b \in Builders, OpenInput(b)
  PROVE  TypeInv'
<1>0. build[b].month \in Months /\ silver[build[b].month] \in Contents
      /\ pc \in [Builders \cup Trainers -> {"idle"} \cup Ended \cup BuilderPcs \cup TrainerPcs]
  BY DEF OpenInput, TypeInv, Typed, BuildPlaces, BuilderPcs
<1>1. /\ UNCHANGED <<silver, bundles, train>>
      /\ gold' \in [Months -> OrNone(GoldFiles)] /\ manifest' \in [Months -> OrNone(Manifests)]
  BY DEF OpenInput, fileVars, TypeInv, Typed
<1>2. CASE PathOf(b) = NoFile
  <2> DEFINE local == [build[b] EXCEPT !.slot = "target"]
  <2>1. build' = [build EXCEPT ![b] = local] /\ pc' = [pc EXCEPT ![b] = "opening"]
    BY <1>0, <1>2 DEF OpenInput, TypeInv, Typed
  <2>2. local.month \in Months /\ silver[local.month] \in Contents /\ local \in BuildLocals
    BY <1>0 DEF TypeInv, Typed, BuildLocals, Slots
  <2> HIDE DEF local
  <2> QED BY <2>1, <2>2, <1>1, BuilderMoves DEF BuilderPcs
<1>3. CASE PathOf(b) # NoFile
  <2> DEFINE local == [build[b] EXCEPT !.opened[build[b].slot] = PathOf(b)]
  <2>1. build' = [build EXCEPT ![b] = local] /\ pc' = [pc EXCEPT ![b] = "hashing"]
    BY <1>3 DEF OpenInput, Goto, TypeInv, Typed
  <2>2. PathOf(b) \in Contents
    BY <1>0, <1>3, PathTyped DEF OrNone
  <2>3. local.month \in Months /\ silver[local.month] \in Contents /\ local \in BuildLocals
    BY <1>0, <2>2 DEF TypeInv, Typed, BuildLocals, Inputs, OrNone
  <2>4. local.slot = "target" => local.opened["target"] \in Contents
    BY <2>2 DEF TypeInv, Typed, BuildLocals, Inputs, Slots
  <2> HIDE DEF local
  <2> QED BY <2>1, <2>3, <2>4, <1>1, BuilderMoves DEF BuilderPcs
<1> QED BY <1>2, <1>3

LEMMA HashInputTyped ==
  ASSUME TypeInv, NEW b \in Builders, HashInput(b)
  PROVE  TypeInv'
<1>0. build[b].month \in Months /\ silver[build[b].month] \in Contents
  BY DEF HashInput, TypeInv, BuildPlaces, BuilderPcs
<1>1. /\ UNCHANGED <<silver, bundles, train>>
      /\ gold' \in [Months -> OrNone(GoldFiles)] /\ manifest' \in [Months -> OrNone(Manifests)]
  BY DEF HashInput, fileVars, TypeInv, Typed
<1>2. PathOf(b) \in OrNone(Contents)
  BY <1>0, PathTyped
<1>a. PICK next \in Slots : next = IF build[b].slot = "previous" THEN "target" ELSE "previous"
  BY DEF Slots
<1> DEFINE local == [build[b] EXCEPT !.hashed[build[b].slot] = PathOf(b), !.slot = next]
<1>3. build' = [build EXCEPT ![b] = local]
  BY <1>a DEF HashInput, TypeInv, Typed
<1>4. local.month \in Months /\ silver[local.month] \in Contents /\ local \in BuildLocals
  BY <1>0, <1>2, <1>a DEF TypeInv, Typed, BuildLocals, Inputs
<1>5. CASE build[b].slot = "previous"
  <2>1. pc' = [pc EXCEPT ![b] = "opening"]
    BY <1>5 DEF HashInput, Goto
  <2> HIDE DEF local
  <2> QED BY <2>1, <1>1, <1>3, <1>4, BuilderMoves DEF BuilderPcs
<1>6. CASE build[b].slot = "target"
  <2>1. pc' = [pc EXCEPT ![b] = "aggregating"]
    BY <1>6 DEF HashInput, Goto
  <2>2. local.opened["target"] \in Contents
    BY <1>6 DEF HashInput, TypeInv, Typed, BuildLocals, BuildPlaces
  <2> HIDE DEF local
  <2> QED BY <2>1, <2>2, <1>1, <1>3, <1>4, BuilderMoves DEF BuilderPcs
<1> QED BY <1>5, <1>6 DEF TypeInv, Typed, BuildLocals, Slots

LEMMA AggregateTyped ==
  ASSUME TypeInv, NEW b \in Builders, Aggregate(b)
  PROVE  TypeInv'
<1>0. build[b].month \in Months /\ silver[build[b].month] \in Contents
      /\ build[b].opened["target"] \in Contents
  BY DEF Aggregate, TypeInv, BuildPlaces, BuilderPcs
<1>1. /\ UNCHANGED <<silver, bundles, train>>
      /\ gold' \in [Months -> OrNone(GoldFiles)] /\ manifest' \in [Months -> OrNone(Manifests)]
  BY DEF Aggregate, fileVars, TypeInv, Typed
<1>2. PathOf(b) \in OrNone(Contents)
  BY <1>0, PathTyped
<1>a. PICK read \in OrNone(Contents) :
         read = IF build[b].opened[build[b].slot] = NoFile THEN NoFile ELSE PathOf(b)
  BY <1>2 DEF OrNone
<1> DEFINE local == [build[b] EXCEPT !.aggregated[build[b].slot] = read, !.slot = "target"]
<1>3. build' = [build EXCEPT ![b] = local]
  BY <1>a DEF Aggregate, TypeInv, Typed
<1>4. /\ local.month \in Months /\ silver[local.month] \in Contents
      /\ local.opened["target"] \in Contents
      /\ local \in BuildLocals
  BY <1>0, <1>a DEF TypeInv, Typed, BuildLocals, Inputs, Slots
<1>5. CASE build[b].slot = "previous"
  <2>1. pc' = [pc EXCEPT ![b] = "aggregating"]
    BY <1>5 DEF Aggregate, TypeInv, Typed
  <2> HIDE DEF local
  <2> QED BY <2>1, <1>1, <1>3, <1>4, BuilderMoves DEF BuilderPcs
<1>6. CASE build[b].slot = "target"
  <2>1. pc' = [pc EXCEPT ![b] = "testing"]
    BY <1>6 DEF Aggregate, Goto
  <2>2. read \in Contents
    BY <1>0, <1>6, <1>a, GoldAssumption DEF PathOf, SlotMonth
  <2>3. local.aggregated["target"] \in Contents
    BY <2>2, <1>6 DEF TypeInv, Typed, BuildLocals, Inputs, Slots
  <2> HIDE DEF local
  <2> QED BY <2>1, <2>3, <1>1, <1>3, <1>4, BuilderMoves DEF BuilderPcs
<1> QED BY <1>5, <1>6 DEF TypeInv, Typed, BuildLocals, Slots

(* A step that only moves a builder's program counter and a file.          *)
LEMMA BuilderFileMoves ==
  ASSUME TypeInv, NEW b \in Builders, NEW to, pc[b] \in BuilderPcs,
         to \in Ended \cup {"testing", "publishing", "describing", "recording"},
         to \in {"testing", "publishing"} => /\ build[b].opened["target"] \in Contents
                                            /\ build[b].aggregated["target"] \in Contents,
         Goto(b, to), UNCHANGED <<build, silver, bundles, train>>,
         gold' \in [Months -> OrNone(GoldFiles)], manifest' \in [Months -> OrNone(Manifests)]
  PROVE  TypeInv'
<1> DEFINE local == build[b]
<1>1. build' = [build EXCEPT ![b] = local] /\ local \in BuildLocals
      /\ local.month \in Months /\ silver[local.month] \in Contents
  BY DEF TypeInv, Typed, BuildPlaces
<1> HIDE DEF local
<1> QED
  <2>1. to \in {"testing", "publishing"} => /\ local.opened["target"] \in Contents
                                               /\ local.aggregated["target"] \in Contents
    BY DEF local
  <2>2. to \in {"idle"} \cup Ended \cup BuilderPcs /\ to # "hashing" /\ to # "aggregating"
    BY DEF BuilderPcs, Ended
  <2> QED BY <1>1, <2>1, <2>2, BuilderMoves DEF Goto

LEMMA RunTestsTyped ==
  ASSUME TypeInv, NEW b \in Builders, RunTests(b)
  PROVE  TypeInv'
<1>1. /\ build[b].opened["target"] \in Contents /\ build[b].aggregated["target"] \in Contents
      /\ pc[b] \in BuilderPcs
  BY DEF RunTests, TypeInv, BuildPlaces, BuilderPcs
<1> QED BY <1>1, BuilderFileMoves DEF RunTests, TypeInv, Typed, fileVars

LEMMA PublishGoldTyped ==
  ASSUME TypeInv, NEW b \in Builders, PublishGold(b)
  PROVE  TypeInv'
<1>1. GoldOf(b) \in GoldFiles /\ pc[b] \in BuilderPcs
  BY GoldTyped DEF PublishGold, TypeInv, BuildPlaces, BuilderPcs
<1>2. gold' \in [Months -> OrNone(GoldFiles)]
  BY <1>1 DEF PublishGold, TypeInv, Typed, OrNone
<1> QED BY <1>1, <1>2, BuilderFileMoves DEF PublishGold, TypeInv, Typed

LEMMA HashOutputTyped ==
  ASSUME TypeInv, NEW b \in Builders, HashOutput(b)
  PROVE  TypeInv'
<1>0. build[b].month \in Months /\ silver[build[b].month] \in Contents
  BY DEF HashOutput, TypeInv, BuildPlaces, BuilderPcs
<1> DEFINE local == [build[b] EXCEPT !.output = gold[build[b].month]]
<1>1. build' = [build EXCEPT ![b] = local] /\ pc' = [pc EXCEPT ![b] = "recording"]
  BY DEF HashOutput, Goto, TypeInv, Typed
<1>2. local.month \in Months /\ silver[local.month] \in Contents /\ local \in BuildLocals
  BY <1>0 DEF TypeInv, Typed, BuildLocals
<1> HIDE DEF local
<1>3. /\ UNCHANGED <<silver, bundles, train>>
      /\ gold' \in [Months -> OrNone(GoldFiles)] /\ manifest' \in [Months -> OrNone(Manifests)]
  BY DEF HashOutput, fileVars, TypeInv, Typed
<1> QED BY <1>1, <1>2, <1>3, BuilderMoves DEF BuilderPcs

LEMMA WriteManifestTyped ==
  ASSUME TypeInv, NEW b \in Builders, WriteManifest(b)
  PROVE  TypeInv'
<1>1. pc[b] \in BuilderPcs
  BY DEF WriteManifest, BuilderPcs
<1>2. Describe(b) \in Manifests
  BY DEF Describe, Manifests, TypeInv, Typed, BuildLocals
<1>3. manifest' \in [Months -> OrNone(Manifests)]
  BY <1>2 DEF WriteManifest, TypeInv, Typed, OrNone
<1> QED BY <1>1, <1>3, BuilderFileMoves DEF WriteManifest, TypeInv, Typed, Ended

(* A step that only moves a trainer's program counter.                     *)
LEMMA TrainerOnlyMoves ==
  ASSUME TypeInv, NEW t \in Trainers, NEW to,
         to \in {"stopped", "fitting"} \/ (to = "reading" /\ train[t].tables = <<>>),
         Goto(t, to), UNCHANGED <<fileVars, bundles, build, train>>
  PROVE  TypeInv'
<1> DEFINE local == train[t]
<1>1. train' = [train EXCEPT ![t] = local] /\ local \in TrainLocals
  BY DEF TypeInv, Typed
<1>2. to = "reading" => Len(local.tables) < Len(TrainMonths)
  <2>1. Len(<<>>) = 0 /\ Len(TrainMonths) \in Nat /\ Len(TrainMonths) # 0
    BY GoldAssumption
  <2> QED BY <2>1
<1>3. to \in Ended \cup TrainerPcs /\ to # "checksumming"
  BY DEF Ended, TrainerPcs
<1>4. bundles' \subseteq Bundles
  BY DEF TypeInv, Typed
<1> HIDE DEF local
<1> QED BY <1>1, <1>2, <1>3, <1>4, TrainerMoves DEF Goto

LEMMA ReadTableTyped ==
  ASSUME TypeInv, NEW t \in Trainers, ReadTable(t)
  PROVE  TypeInv'
<1> DEFINE n == Len(train[t].tables)
           month == TrainMonths[n + 1]
           local == [train[t] EXCEPT !.tables = Append(@, gold[month])]
<1>1. train[t].tables \in Seq(GoldFiles) /\ n \in Nat /\ n < Len(TrainMonths)
  BY DEF ReadTable, TypeInv, Typed, TrainLocals, TrainPlaces
<1>2. month \in Months
  BY <1>1, GoldAssumption
<1>3. gold[month] \in GoldFiles
  BY <1>2 DEF ReadTable, TypeInv, Typed, OrNone
<1>4. Append(train[t].tables, gold[month]) \in Seq(GoldFiles)
      /\ Len(Append(train[t].tables, gold[month])) \in DOMAIN TrainMonths
  BY <1>1, <1>3, GoldAssumption
<1>5. train' = [train EXCEPT ![t] = local] /\ pc' = [pc EXCEPT ![t] = "checksumming"]
  BY DEF ReadTable, Goto, TypeInv, Typed
<1>6. local \in TrainLocals /\ Len(local.tables) \in DOMAIN TrainMonths
  BY <1>4 DEF TypeInv, Typed, TrainLocals
<1>7. bundles' \subseteq Bundles /\ UNCHANGED <<fileVars, build>>
  BY DEF ReadTable, TypeInv, Typed
<1> HIDE DEF local
<1> QED BY <1>5, <1>6, <1>7, TrainerMoves DEF TrainerPcs

LEMMA HashTableTyped ==
  ASSUME TypeInv, NEW t \in Trainers, HashTable(t)
  PROVE  TypeInv'
<1>a. PICK n \in Nat : n = Len(train[t].tables)
  BY DEF TypeInv, Typed, TrainLocals
<1>1. /\ train[t].tables \in Seq(GoldFiles) /\ train[t].inputs \in Seq(TrainingInputs)
      /\ n \in 1..Len(TrainMonths) /\ TrainMonths[n] \in Months
  BY <1>a, GoldAssumption DEF HashTable, TypeInv, Typed, TrainLocals, TrainPlaces
<1>b. PICK input \in TrainingInputs : input = InputOf(gold[TrainMonths[n]], train[t].tables[n])
  <2>1. train[t].tables[n] \in GoldFiles
    BY <1>1, <1>a
  <2> QED BY <1>1, <2>1 DEF InputOf, TrainingInputs, GoldFiles, TypeInv, Typed
<1> DEFINE local == [train[t] EXCEPT !.inputs = Append(@, input)]
<1>2. train' = [train EXCEPT ![t] = local]
  BY <1>a, <1>b DEF HashTable, TypeInv, Typed
<1>3. PICK to : /\ pc' = [pc EXCEPT ![t] = to]
                /\ to = IF n = Len(TrainMonths) THEN "identifying" ELSE "reading"
  BY <1>a DEF HashTable, Goto
<1>4. local \in TrainLocals /\ Len(local.tables) = n
  <2>1. Append(train[t].inputs, input) \in Seq(TrainingInputs)
    BY <1>1
  <2> QED BY <1>a, <2>1 DEF TypeInv, Typed, TrainLocals
<1>5. bundles' \subseteq Bundles /\ UNCHANGED <<fileVars, build>>
  BY DEF HashTable, TypeInv, Typed
<1>6. to = "reading" => n < Len(TrainMonths)
  BY <1>1, <1>3, GoldAssumption
<1>7. to \in TrainerPcs /\ to # "checksumming"
  BY <1>3 DEF TrainerPcs
<1> HIDE DEF local
<1> QED BY <1>2, <1>3, <1>4, <1>5, <1>6, <1>7, TrainerMoves

LEMMA ReuseBundleTyped ==
  ASSUME TypeInv, NEW t \in Trainers, ReuseBundle(t)
  PROVE  TypeInv'
<1>1. PICK b \in bundles : train' = [train EXCEPT ![t].result = b]
  BY DEF ReuseBundle
<1> DEFINE local == [train[t] EXCEPT !.result = b]
<1>2. train' = [train EXCEPT ![t] = local] /\ pc' = [pc EXCEPT ![t] = "returned"]
  BY <1>1 DEF ReuseBundle, Goto, TypeInv, Typed
<1>3. local \in TrainLocals
  BY <1>1 DEF TypeInv, Typed, TrainLocals, OrNone
<1>4. bundles' \subseteq Bundles /\ UNCHANGED <<fileVars, build>>
  BY DEF ReuseBundle, TypeInv, Typed
<1> HIDE DEF local
<1> QED BY <1>2, <1>3, <1>4, TrainerMoves DEF Ended

LEMMA PlaceBundleTyped ==
  ASSUME TypeInv, NEW t \in Trainers, PlaceBundle(t)
  PROVE  TypeInv'
<1>1. BundleOf(t) \in Bundles
  BY DEF BundleOf, RunIdentifier, Bundles, TypeInv, Typed, TrainLocals
<1> DEFINE local == [train[t] EXCEPT !.result = BundleOf(t)]
<1>2. train' = [train EXCEPT ![t] = local] /\ pc' = [pc EXCEPT ![t] = "returned"]
  BY DEF PlaceBundle, Goto, TypeInv, Typed
<1>3. local \in TrainLocals
  BY <1>1 DEF TypeInv, Typed, TrainLocals, OrNone
<1>4. bundles' \subseteq Bundles /\ UNCHANGED <<fileVars, build>>
  BY <1>1 DEF PlaceBundle, TypeInv, Typed
<1> HIDE DEF local
<1> QED BY <1>2, <1>3, <1>4, TrainerMoves DEF Ended

LEMMA StartTrainingTyped ==
  ASSUME TypeInv, NEW t \in Trainers, StartTraining(t)
  PROVE  TypeInv'
<1>1. train[t].tables = <<>>
  BY DEF StartTraining, TypeInv, TrainPlaces
<1> QED BY <1>1, TrainerOnlyMoves DEF StartTraining

LEMMA AbortTyped ==
  ASSUME TypeInv, NEW p \in Builders \cup Trainers, Abort(p)
  PROVE  TypeInv'
<1>1. CASE p \in Trainers
  BY <1>1, TrainerOnlyMoves DEF Abort
<1>2. CASE p \in Builders
  <2> DEFINE local == build[p]
  <2>1. build' = [build EXCEPT ![p] = local] /\ local \in BuildLocals
        /\ pc' = [pc EXCEPT ![p] = "stopped"]
    BY <1>2 DEF Abort, Goto, TypeInv, Typed
  <2>2. /\ UNCHANGED <<silver, bundles, train>>
        /\ gold' \in [Months -> OrNone(GoldFiles)] /\ manifest' \in [Months -> OrNone(Manifests)]
    BY DEF Abort, fileVars, TypeInv, Typed
  <2>3. "stopped" \in Ended /\ "stopped" \notin BuilderPcs
    BY DEF Ended, BuilderPcs
  <2> HIDE DEF local
  <2> QED BY <1>2, <2>1, <2>2, <2>3, BuilderMoves
<1> QED BY <1>1, <1>2

LEMMA IngestTyped ==
  ASSUME TypeInv, NEW m \in Months, NEW c \in Contents, Ingest(m, c)
  PROVE  TypeInv'
<1>1. m \in 0..LastMonth
  BY GoldAssumption DEF Months
<1>2. silver' \in [0..LastMonth -> OrNone(Contents)]
  BY <1>1 DEF Ingest, TypeInv, Typed, OrNone
<1> QED BY <1>2 DEF Ingest, TypeInv, Typed, BuildPlaces, TrainPlaces

------------------------------------------------------------------------------
(* What the contract test guards, whatever happens to silver meanwhile.    *)

LEMMA TypeInit == Init => TypeInv
<1> SUFFICES ASSUME Init PROVE TypeInv
  OBVIOUS
<1>1. NoBuild \in BuildLocals
  BY GoldAssumption DEF NoBuild, BuildLocals, NoInputs, Inputs, Slots, OrNone, Months
<1>2. NoTrain \in TrainLocals
  BY DEF NoTrain, TrainLocals, OrNone
<1>3. Typed
  BY <1>1, <1>2 DEF Init, Typed, OrNone
<1>4. BuildPlaces
  BY DEF Init, BuildPlaces, BuilderPcs
<1>5. TrainPlaces
  BY DEF Init, TrainPlaces, NoTrain
<1> QED BY <1>3, <1>4, <1>5 DEF TypeInv

LEMMA TypeStep == TypeInv /\ [Next]_vars => TypeInv'
<1> SUFFICES ASSUME TypeInv, [Next]_vars PROVE TypeInv'
  OBVIOUS
<1>1. ASSUME NEW m \in Months, NEW c \in Contents, Ingest(m, c) PROVE TypeInv'
  BY <1>1, IngestTyped
<1>2. ASSUME NEW b \in Builders, BuilderStep(b) PROVE TypeInv'
  BY <1>2, StartBuildTyped, OpenInputTyped, HashInputTyped, AggregateTyped, RunTestsTyped,
     PublishGoldTyped, HashOutputTyped, WriteManifestTyped DEF BuilderStep
<1>3. ASSUME NEW t \in Trainers, TrainerStep(t) PROVE TypeInv'
  <2>1. CASE Identify(t)
    BY <2>1, TrainerOnlyMoves DEF Identify
  <2> QED BY <1>3, <2>1, StartTrainingTyped, ReadTableTyped, HashTableTyped, ReuseBundleTyped,
             PlaceBundleTyped DEF TrainerStep
<1>4. ASSUME NEW p \in Builders \cup Trainers, Abort(p) PROVE TypeInv'
  BY <1>4, AbortTyped
<1>5. CASE UNCHANGED vars
  BY <1>5 DEF vars, fileVars, TypeInv, Typed, BuildPlaces, TrainPlaces
<1> QED BY <1>1, <1>2, <1>3, <1>4, <1>5 DEF Next, Step

LEMMA LimitStep == [Next]_vars => UNCHANGED limit
  BY DEF Next, vars

(* A builder comes to publishing, or stays there, with a tested output.    *)
LEMMA TestedStep == TypeInv /\ Tested /\ [Next]_vars => Tested'
<1> SUFFICES ASSUME TypeInv, Tested, [Next]_vars, NEW b \in Builders, pc'[b] = "publishing"
             PROVE  TestsPass(GoldOf(b))'
  BY DEF Tested
<1> DEFINE Stays == pc'[b] = pc[b] /\ build'[b] = build[b]
<1>1. CASE RunTests(b)
  <2>1. GoldOf(b)' = GoldOf(b)
    BY <1>1 DEF RunTests, GoldOf
  <2> QED BY <1>1, <2>1 DEF RunTests, TestsPass
<1>2. CASE Stays
  <2>1. GoldOf(b)' = GoldOf(b) /\ TestsPass(GoldOf(b))
    BY <1>2 DEF GoldOf, Tested
  <2> QED BY <2>1 DEF TestsPass
<1>3. ASSUME NEW m \in Months, NEW c \in Contents, Ingest(m, c) PROVE Stays
  BY <1>3 DEF Ingest
<1>4. ASSUME NEW c \in Builders, c # b, BuilderStep(c) PROVE Stays
  BY <1>4 DEF BuilderStep, StartBuild, OpenInput, HashInput, Aggregate, RunTests, PublishGold,
              HashOutput, WriteManifest, Goto, TypeInv, Typed
<1>5. ASSUME BuilderStep(b) PROVE RunTests(b)
  BY <1>5 DEF BuilderStep, StartBuild, OpenInput, HashInput, Aggregate, RunTests, PublishGold,
              HashOutput, WriteManifest, Goto, TypeInv, Typed
<1>6. ASSUME NEW t \in Trainers, TrainerStep(t) PROVE Stays
  BY <1>6, Processes DEF TrainerStep, StartTraining, ReadTable, HashTable, ReuseBundle, Identify,
                         PlaceBundle, Goto, TypeInv, Typed
<1>7. ASSUME NEW p \in Builders \cup Trainers, Abort(p) PROVE Stays
  BY <1>7 DEF Abort, Goto, TypeInv, Typed, Ended
<1>8. CASE UNCHANGED vars
  BY <1>2, <1>8 DEF vars
<1> HIDE DEF Stays
<1> QED BY <1>1, <1>2, <1>3, <1>4, <1>5, <1>6, <1>7, <1>8 DEF Next, Step

(* Gold changes only by the publication of a tested output.                *)
LEMMA GoldStep == TypeInv /\ Tested /\ GoldVersionMatchesRows /\ [Next]_vars
                    => GoldVersionMatchesRows'
<1> SUFFICES ASSUME TypeInv, Tested, GoldVersionMatchesRows, [Next]_vars
             PROVE  GoldVersionMatchesRows'
  OBVIOUS
<1>1. ASSUME NEW b \in Builders, PublishGold(b) PROVE GoldVersionMatchesRows'
  <2>1. GoldOf(b).version = FeatureVersions[GoldOf(b).contract]
    BY <1>1 DEF PublishGold, Tested, TestsPass, FeatureVersion
  <2>2. gold' = [gold EXCEPT ![build[b].month] = GoldOf(b)]
    BY <1>1 DEF PublishGold
  <2>3. \A m \in Months : gold'[m] = gold[m] \/ gold'[m] = GoldOf(b)
    BY <2>2 DEF TypeInv, Typed
  <2> QED BY <2>1, <2>3 DEF GoldVersionMatchesRows
<1>2. ASSUME gold' = gold PROVE GoldVersionMatchesRows'
  BY <1>2 DEF GoldVersionMatchesRows
<1>3. ASSUME NEW b \in Builders, BuilderStep(b), ~PublishGold(b) PROVE gold' = gold
  BY <1>3 DEF BuilderStep, StartBuild, OpenInput, HashInput, Aggregate, RunTests, HashOutput,
              WriteManifest, fileVars
<1>4. ASSUME NEW t \in Trainers, TrainerStep(t) PROVE gold' = gold
  BY <1>4 DEF TrainerStep, StartTraining, ReadTable, HashTable, ReuseBundle, Identify,
              PlaceBundle, fileVars
<1> QED BY <1>1, <1>2, <1>3, <1>4 DEF Next, Step, Ingest, Abort, vars, fileVars

------------------------------------------------------------------------------
(* Type correctness, for every number of months and processes, however     *)
(* many of them overlap.                                                   *)
THEOREM TypeCorrect == Spec => []TypeOK
<1> DEFINE Inv == TypeInv /\ limit \in 1..MaxActive
<1>1. Init => Inv
  BY TypeInit DEF Init
<1>2. Inv /\ [Next]_vars => Inv'
  BY TypeStep, LimitStep
<1>3. Inv => TypeOK
  BY DEF TypeInv, TypeOK
<1> HIDE DEF Inv
<1> QED BY <1>1, <1>2, <1>3, PTL DEF Spec

(* A gold file carries the feature version of the rows in it, although the *)
(* version is decided from one reading of silver and the rows come from    *)
(* another, with any number of overlapping builds and ingestions.          *)
THEOREM GoldVersionCorrect == Spec => []GoldVersionMatchesRows
<1>1. Init => GoldInv
  BY TypeInit DEF Init, GoldInv, Tested, GoldVersionMatchesRows
<1>2. GoldInv /\ [Next]_vars => GoldInv'
  BY TypeStep, TestedStep, GoldStep DEF GoldInv
<1>3. GoldInv => GoldVersionMatchesRows
  BY DEF GoldInv
<1> QED BY <1>1, <1>2, <1>3, PTL DEF Spec
------------------------------------------------------------------------------
(* Builds one after the other, limit = 1: the ingestion DAG's              *)
(* max_active_runs.                                                        *)

OneBuilder == \A a, b \in Busy(Builders) : a = b

(* Silver stands still while a build runs, so that whatever it has opened, *)
(* hashed or aggregated is what its paths still hold.                      *)
HasRead == {"aggregating", "testing", "publishing", "describing", "recording"}
BuildProgress(b) ==
  /\ pc[b] = "idle" => build[b] = NoBuild
  /\ (pc[b] = "opening" /\ build[b].slot = "previous")
       => build[b].opened = NoInputs /\ build[b].hashed = NoInputs
  /\ pc[b] \in {"opening", "hashing"} => build[b].aggregated = NoInputs
  /\ (pc[b] = "aggregating" /\ build[b].slot = "previous") => build[b].aggregated = NoInputs
  /\ (pc[b] \in {"opening", "hashing"} /\ build[b].slot = "target")
       => /\ build[b].opened["previous"] = Paths(b)["previous"]
          /\ build[b].hashed["previous"] = Paths(b)["previous"]
  /\ pc[b] = "hashing" => build[b].opened[build[b].slot] = Paths(b)[build[b].slot]
  /\ pc[b] \in HasRead => /\ build[b].opened = Paths(b)
                          /\ build[b].hashed = Paths(b)
                          /\ SameContract(Paths(b))
  /\ (pc[b] = "aggregating" /\ build[b].slot = "target")
       => build[b].aggregated["previous"] = Paths(b)["previous"]
  /\ pc[b] \in HasRead \ {"aggregating"} => build[b].aggregated = Paths(b)
  /\ pc[b] \in {"describing", "recording"}
       => gold[build[b].month] = ResultOf(Paths(b))
  /\ pc[b] = "recording" => build[b].output = gold[build[b].month]

(* The output a manifest describes results from the inputs it lists,       *)
(* whether or not that output is still in place.                           *)
ManifestsAreTrue ==
  \A m \in Months : manifest[m] # NoFile => manifest[m].output = ResultOf(manifest[m].inputs)

(* What a build aggregates has one contract. *)
OneContract ==
  \A b \in Builders : \A c, d \in Used(build[b].aggregated) : ContractOf[c] = ContractOf[d]

SerialInv == /\ TypeInv
             /\ OneBuilder
             /\ \A b \in Builders : BuildProgress(b)
             /\ ManifestsAreTrue
             /\ OneContract

(* A builder at work keeps the ingestion and every other builder out.      *)
LEMMA FreeMeansNoBuilder ==
  ASSUME limit = 1, PipelineFree
  PROVE  Busy(Builders) = {}
<1>1. IsFiniteSet(Busy(Builders))
  <2>1. Busy(Builders) \subseteq Builders
    BY DEF Busy
  <2> QED BY <2>1, GoldAssumption, FS_Subset
<1>2. Cardinality(Busy(Builders)) < 1
  BY DEF PipelineFree
<1>3. Cardinality(Busy(Builders)) = 0
  BY <1>1, <1>2, FS_CardinalityType
<1> QED BY <1>1, <1>3, FS_EmptySet

LEMMA BusyBuilder ==
  ASSUME NEW b \in Builders, pc[b] \in BuilderPcs
  PROVE  b \in Busy(Builders)
  BY DEF Busy, BuilderPcs, Ended

(* What a builder's progress needs is kept when the builder stays and the  *)
(* files it works on do, or when it is not at work.                        *)
LEMMA ProgressKept ==
  ASSUME NEW b \in Builders, BuildProgress(b), pc'[b] = pc[b], build'[b] = build[b],
         pc[b] \in BuilderPcs => silver' = silver /\ gold' = gold
  PROVE  BuildProgress(b)'
<1>1. CASE pc[b] \in BuilderPcs
  <2>1. Paths(b)' = Paths(b) /\ silver' = silver /\ gold' = gold
    BY <1>1 DEF Paths, SlotMonth
  <2>2. ResultOf(Paths(b))' = ResultOf(Paths(b))
    BY <2>1 DEF ResultOf, GoldFrom, FeatureVersion
  <2> QED BY <2>1, <2>2 DEF BuildProgress
<1>2. CASE pc[b] \notin BuilderPcs
  BY <1>2 DEF BuildProgress, BuilderPcs, HasRead
<1> QED BY <1>1, <1>2

(* A builder that has ended has nothing left to keep. *)
LEMMA EndedProgress ==
  ASSUME NEW b \in Builders, pc'[b] \in Ended
  PROVE  BuildProgress(b)'
  BY DEF BuildProgress, Ended, HasRead

LEMMA StartBuildProgress ==
  ASSUME TypeInv, NEW b \in Builders, NEW m \in Months, BuildProgress(b), StartBuild(b, m)
  PROVE  BuildProgress(b)'
<1>1. pc'[b] = "opening"
  BY DEF StartBuild, Goto, TypeInv, Typed
<1>2. /\ build'[b].slot = "previous" /\ build'[b].opened = NoInputs /\ build'[b].hashed = NoInputs
      /\ build'[b].aggregated = NoInputs
  BY DEF StartBuild, BuildProgress, NoBuild, TypeInv, Typed
<1> QED BY <1>1, <1>2 DEF BuildProgress, HasRead

LEMMA OpenInputProgress ==
  ASSUME TypeInv, NEW b \in Builders, BuildProgress(b), OpenInput(b)
  PROVE  BuildProgress(b)'
<1>1. Paths(b)[build[b].slot] = PathOf(b) /\ build[b].slot \in Slots
      /\ build[b].opened \in Inputs
  BY DEF Paths, PathOf, TypeInv, Typed, BuildLocals
<1>2. build[b].slot = "previous" => build[b].opened = NoInputs /\ build[b].hashed = NoInputs
  BY DEF OpenInput, BuildProgress
<1>3. build[b].aggregated = NoInputs
  BY DEF OpenInput, BuildProgress
<1>4. build[b].slot = "target" => /\ build[b].opened["previous"] = Paths(b)["previous"]
                                  /\ build[b].hashed["previous"] = Paths(b)["previous"]
  BY DEF OpenInput, BuildProgress
<1>5. CASE PathOf(b) = NoFile
  <2>1. /\ pc'[b] = "opening" /\ build[b].slot = "previous"
        /\ build'[b] = [build[b] EXCEPT !.slot = "target"]
    BY <1>5 DEF OpenInput, TypeInv, Typed
  <2>2. /\ build'[b].slot = "target" /\ build'[b].month = build[b].month
        /\ build'[b].opened = NoInputs /\ build'[b].hashed = NoInputs
        /\ build'[b].aggregated = NoInputs
    BY <2>1, <1>2, <1>3 DEF TypeInv, Typed, BuildLocals
  <2>3. Paths(b)' = Paths(b)
    BY <2>2 DEF OpenInput, fileVars, Paths, SlotMonth
  <2>4. Paths(b)["previous"] = NoFile /\ NoInputs["previous"] = NoFile
    BY <1>1, <1>5, <2>1 DEF NoInputs, Slots
  <2> QED BY <2>1, <2>2, <2>3, <2>4 DEF BuildProgress, HasRead
<1>6. CASE PathOf(b) # NoFile
  <2>1. /\ pc'[b] = "hashing"
        /\ build'[b] = [build[b] EXCEPT !.opened[build[b].slot] = PathOf(b)]
    BY <1>6 DEF OpenInput, Goto, TypeInv, Typed
  <2>2. /\ build'[b].slot = build[b].slot /\ build'[b].month = build[b].month
        /\ build'[b].hashed = build[b].hashed /\ build'[b].aggregated = NoInputs
        /\ build'[b].opened = [build[b].opened EXCEPT ![build[b].slot] = PathOf(b)]
    BY <2>1, <1>3 DEF TypeInv, Typed, BuildLocals
  <2>3. Paths(b)' = Paths(b)
    BY <2>2 DEF OpenInput, fileVars, Paths, SlotMonth
  <2>4. build'[b].opened[build[b].slot] = Paths(b)[build[b].slot]
    BY <1>1, <2>2 DEF Inputs
  <2>5. build[b].slot = "target" => build'[b].opened["previous"] = build[b].opened["previous"]
    BY <1>1, <2>2 DEF Inputs, Slots
  <2> QED BY <2>1, <2>2, <2>3, <2>4, <2>5, <1>4 DEF BuildProgress, HasRead
<1> QED BY <1>5, <1>6

LEMMA HashInputProgress ==
  ASSUME TypeInv, NEW b \in Builders, BuildProgress(b), HashInput(b)
  PROVE  BuildProgress(b)'
<1>1. /\ Paths(b)[build[b].slot] = PathOf(b) /\ build[b].slot \in Slots
      /\ build[b].opened \in Inputs /\ build[b].hashed \in Inputs
      /\ build[b].opened[build[b].slot] = Paths(b)[build[b].slot]
  BY DEF Paths, PathOf, TypeInv, Typed, BuildLocals, BuildProgress, HashInput
<1>2. /\ build'[b].hashed = [build[b].hashed EXCEPT ![build[b].slot] = PathOf(b)]
      /\ build'[b].opened = build[b].opened /\ build'[b].month = build[b].month
      /\ build'[b].slot = IF build[b].slot = "previous" THEN "target" ELSE "previous"
      /\ build'[b].aggregated = NoInputs
  BY DEF HashInput, BuildProgress, TypeInv, Typed, BuildLocals
<1>3. Paths(b)' = Paths(b)
  BY <1>2 DEF HashInput, fileVars, Paths, SlotMonth
<1>4. build'[b].hashed[build[b].slot] = Paths(b)[build[b].slot]
  BY <1>1, <1>2 DEF Inputs
<1>5. CASE build[b].slot = "previous"
  <2>1. pc'[b] = "opening" /\ build'[b].slot = "target"
    BY <1>5, <1>2 DEF HashInput, Goto, TypeInv, Typed
  <2> QED BY <2>1, <1>1, <1>2, <1>3, <1>4, <1>5 DEF BuildProgress, HasRead
<1>6. CASE build[b].slot = "target"
  <2>1. pc'[b] = "aggregating" /\ build'[b].slot = "previous" /\ SameContract(build[b].opened)
    BY <1>6, <1>2 DEF HashInput, Goto, TypeInv, Typed
  <2>2. /\ build[b].opened["previous"] = Paths(b)["previous"]
        /\ build[b].hashed["previous"] = Paths(b)["previous"]
    BY <1>6 DEF HashInput, BuildProgress
  <2>3. build'[b].hashed["previous"] = build[b].hashed["previous"]
    BY <1>1, <1>2, <1>6 DEF Inputs, Slots
  <2>4. build[b].opened = Paths(b)
    BY <1>1, <1>6, <2>2 DEF Inputs, Paths, Slots
  <2>5. DOMAIN build'[b].hashed = Slots /\ build'[b].hashed = [s \in Slots |-> build'[b].hashed[s]]
    BY <1>1, <1>2 DEF Inputs
  <2>6. build'[b].hashed = Paths(b)
    BY <1>4, <1>6, <2>2, <2>3, <2>5 DEF Paths, Slots
  <2> QED BY <2>1, <2>4, <2>6, <1>2, <1>3 DEF BuildProgress
<1> QED BY <1>1, <1>5, <1>6 DEF Slots

LEMMA AggregateProgress ==
  ASSUME TypeInv, NEW b \in Builders, BuildProgress(b), Aggregate(b)
  PROVE  BuildProgress(b)'
<1>1. /\ Paths(b)[build[b].slot] = PathOf(b) /\ build[b].slot \in Slots
      /\ build[b].aggregated \in Inputs
      /\ build[b].opened = Paths(b) /\ build[b].hashed = Paths(b) /\ SameContract(Paths(b))
  BY DEF Paths, PathOf, TypeInv, Typed, BuildLocals, BuildProgress, Aggregate, HasRead
<1>2. /\ build'[b].opened = build[b].opened /\ build'[b].hashed = build[b].hashed
      /\ build'[b].month = build[b].month /\ build'[b].slot = "target"
      /\ build'[b].aggregated = [build[b].aggregated EXCEPT ![build[b].slot] =
                                   IF build[b].opened[build[b].slot] = NoFile THEN NoFile
                                   ELSE PathOf(b)]
  BY DEF Aggregate, TypeInv, Typed, BuildLocals
<1>3. Paths(b)' = Paths(b)
  BY <1>2 DEF Aggregate, fileVars, Paths, SlotMonth
<1>4. build'[b].aggregated = [build[b].aggregated EXCEPT ![build[b].slot] = PathOf(b)]
  BY <1>1, <1>2
<1>5. CASE build[b].slot = "previous"
  <2>1. pc'[b] = "aggregating"
    BY <1>5 DEF Aggregate, TypeInv, Typed
  <2>2. build'[b].aggregated["previous"] = Paths(b)["previous"]
    BY <1>1, <1>4, <1>5 DEF Inputs
  <2> QED BY <2>1, <2>2, <1>1, <1>2, <1>3 DEF BuildProgress
<1>6. CASE build[b].slot = "target"
  <2>1. pc'[b] = "testing"
    BY <1>6 DEF Aggregate, Goto, TypeInv, Typed
  <2>2. build[b].aggregated["previous"] = Paths(b)["previous"]
    BY <1>6 DEF Aggregate, BuildProgress
  <2>3. /\ build'[b].aggregated = [s \in Slots |-> build'[b].aggregated[s]]
        /\ build'[b].aggregated["target"] = Paths(b)["target"]
        /\ build'[b].aggregated["previous"] = build[b].aggregated["previous"]
    BY <1>1, <1>4, <1>6 DEF Inputs, Slots
  <2>4. build'[b].aggregated = Paths(b)
    BY <2>2, <2>3 DEF Paths, Slots
  <2> QED BY <2>1, <2>4, <1>1, <1>2, <1>3 DEF BuildProgress
<1> QED BY <1>1, <1>5, <1>6 DEF Slots

LEMMA RunTestsProgress ==
  ASSUME TypeInv, NEW b \in Builders, BuildProgress(b), RunTests(b)
  PROVE  BuildProgress(b)'
<1>1. pc'[b] = "publishing" /\ build' = build /\ Paths(b)' = Paths(b)
  BY DEF RunTests, Goto, TypeInv, Typed, fileVars, Paths, SlotMonth
<1>2. /\ build[b].opened = Paths(b) /\ build[b].hashed = Paths(b) /\ SameContract(Paths(b))
      /\ build[b].aggregated = Paths(b)
  BY DEF RunTests, BuildProgress, HasRead
<1> QED BY <1>1, <1>2 DEF BuildProgress

LEMMA PublishGoldProgress ==
  ASSUME TypeInv, NEW b \in Builders, BuildProgress(b), PublishGold(b)
  PROVE  BuildProgress(b)'
<1>1. pc'[b] = "describing" /\ build' = build /\ Paths(b)' = Paths(b)
  BY DEF PublishGold, Goto, TypeInv, Typed, Paths, SlotMonth
<1>2. /\ build[b].opened = Paths(b) /\ build[b].hashed = Paths(b) /\ SameContract(Paths(b))
      /\ build[b].aggregated = Paths(b)
  BY DEF PublishGold, BuildProgress, HasRead
<1>3. build[b].month \in Months
  BY DEF PublishGold, TypeInv, BuildPlaces, BuilderPcs
<1>4. gold'[build[b].month] = ResultOf(Paths(b))
  BY <1>2, <1>3 DEF PublishGold, GoldOf, ResultOf, TypeInv, Typed
<1>5. ResultOf(Paths(b))' = ResultOf(Paths(b)) /\ build'[b].month = build[b].month
  BY <1>1 DEF ResultOf, GoldFrom, FeatureVersion
<1> QED BY <1>1, <1>2, <1>4, <1>5 DEF BuildProgress

LEMMA HashOutputProgress ==
  ASSUME TypeInv, NEW b \in Builders, BuildProgress(b), HashOutput(b)
  PROVE  BuildProgress(b)'
<1>1. /\ pc'[b] = "recording" /\ gold' = gold
      /\ build'[b] = [build[b] EXCEPT !.output = gold[build[b].month]]
  BY DEF HashOutput, Goto, TypeInv, Typed, fileVars
<1>2. /\ build'[b].opened = build[b].opened /\ build'[b].hashed = build[b].hashed
      /\ build'[b].aggregated = build[b].aggregated /\ build'[b].month = build[b].month
      /\ build'[b].output = gold[build[b].month]
  BY <1>1 DEF TypeInv, Typed, BuildLocals
<1>3. Paths(b)' = Paths(b)
  BY <1>2 DEF HashOutput, fileVars, Paths, SlotMonth
<1>4. /\ build[b].opened = Paths(b) /\ build[b].hashed = Paths(b) /\ SameContract(Paths(b))
      /\ build[b].aggregated = Paths(b) /\ gold[build[b].month] = ResultOf(Paths(b))
  BY DEF HashOutput, BuildProgress, HasRead
<1>5. ResultOf(Paths(b))' = ResultOf(Paths(b))
  BY <1>3 DEF ResultOf, GoldFrom, FeatureVersion
<1> QED BY <1>1, <1>2, <1>3, <1>4, <1>5 DEF BuildProgress

(* The builder that steps was alone, and keeps what it has read.           *)
LEMMA OwnProgress ==
  ASSUME TypeInv, NEW b \in Builders, BuildProgress(b), BuilderStep(b)
  PROVE  BuildProgress(b)'
<1>1. CASE WriteManifest(b)
  <2>1. pc'[b] \in Ended
    BY <1>1 DEF WriteManifest, Goto, TypeInv, Typed, Ended
  <2> QED BY <2>1, EndedProgress
<1> QED BY <1>1, StartBuildProgress, OpenInputProgress, HashInputProgress, AggregateProgress,
           RunTestsProgress, PublishGoldProgress, HashOutputProgress DEF BuilderStep

(* What a builder's step leaves alone, and who else is at work.            *)
LEMMA BuilderStepFrame ==
  ASSUME TypeInv, NEW b \in Builders, BuilderStep(b)
  PROVE  /\ silver' = silver /\ bundles' = bundles /\ train' = train
         /\ \A p \in (Builders \cup Trainers) \ {b} : pc'[p] = pc[p]
         /\ \A c \in Builders \ {b} : build'[c] = build[c]
         /\ pc[b] \in BuilderPcs \/ PipelineFree
  BY DEF BuilderStep, StartBuild, OpenInput, HashInput, Aggregate, RunTests, PublishGold,
         HashOutput, WriteManifest, Goto, TypeInv, Typed, fileVars, BuilderPcs

LEMMA OthersIdle ==
  ASSUME limit = 1, OneBuilder, NEW b \in Builders, NEW c \in Builders, c # b,
         pc[b] \in BuilderPcs \/ PipelineFree
  PROVE  c \notin Busy(Builders)
<1>1. CASE PipelineFree
  BY <1>1, FreeMeansNoBuilder
<1>2. CASE pc[b] \in BuilderPcs
  BY <1>2, BusyBuilder DEF OneBuilder
<1> QED BY <1>1, <1>2

(* A trainer's step, and an abort, leave the builds and their files.       *)
LEMMA TrainerStepFrame ==
  ASSUME TypeInv, NEW t \in Trainers, TrainerStep(t)
  PROVE  /\ UNCHANGED <<silver, gold, manifest, build>>
         /\ \A p \in (Builders \cup Trainers) \ {t} : pc'[p] = pc[p]
         /\ \A u \in Trainers \ {t} : train'[u] = train[u]
  BY DEF TrainerStep, StartTraining, ReadTable, HashTable, ReuseBundle, Identify, PlaceBundle,
         Goto, TypeInv, Typed, fileVars

LEMMA AbortFrame ==
  ASSUME TypeInv, NEW p \in Builders \cup Trainers, Abort(p)
  PROVE  /\ UNCHANGED <<silver, gold, manifest, build, bundles, train>>
         /\ pc'[p] = "stopped"
         /\ \A q \in (Builders \cup Trainers) \ {p} : pc'[q] = pc[q]
  BY DEF Abort, Goto, TypeInv, Typed, fileVars

------------------------------------------------------------------------------
LEMMA ProgressStep ==
  ASSUME limit = 1, SerialInv, [Next]_vars, NEW c \in Builders
  PROVE  BuildProgress(c)'
<1>0. TypeInv /\ OneBuilder /\ BuildProgress(c)
  BY DEF SerialInv
<1>1. ASSUME NEW m \in Months, NEW s \in Contents, Ingest(m, s) PROVE BuildProgress(c)'
  <2>1. c \notin Busy(Builders)
    BY <1>1, FreeMeansNoBuilder DEF Ingest
  <2>2. pc[c] \notin BuilderPcs /\ pc'[c] = pc[c] /\ build'[c] = build[c]
    BY <1>1, <2>1, BusyBuilder DEF Ingest
  <2> QED BY <1>0, <2>2, ProgressKept
<1>2. ASSUME NEW b \in Builders, BuilderStep(b) PROVE BuildProgress(c)'
  <2>1. CASE b = c
    BY <1>0, <1>2, <2>1, OwnProgress
  <2>2. CASE b # c
    <3>1. pc[c] \notin BuilderPcs
      BY <1>0, <1>2, <2>2, BuilderStepFrame, OthersIdle, BusyBuilder
    <3>2. pc'[c] = pc[c] /\ build'[c] = build[c]
      BY <1>0, <1>2, <2>2, BuilderStepFrame
    <3> QED BY <1>0, <3>1, <3>2, ProgressKept
  <2> QED BY <2>1, <2>2
<1>3. ASSUME NEW t \in Trainers, TrainerStep(t) PROVE BuildProgress(c)'
  <2>1. pc'[c] = pc[c] /\ build' = build /\ silver' = silver /\ gold' = gold
    BY <1>0, <1>3, TrainerStepFrame, Processes
  <2> QED BY <1>0, <2>1, ProgressKept
<1>4. ASSUME NEW p \in Builders \cup Trainers, Abort(p) PROVE BuildProgress(c)'
  <2>1. pc'[c] \in Ended \/ pc'[c] = pc[c]
    BY <1>0, <1>4, AbortFrame DEF Ended
  <2>2. build' = build /\ silver' = silver /\ gold' = gold
    BY <1>0, <1>4, AbortFrame
  <2> QED BY <1>0, <2>1, <2>2, ProgressKept, EndedProgress
<1>5. CASE UNCHANGED vars
  BY <1>0, <1>5, ProgressKept DEF vars, fileVars
<1> QED BY <1>1, <1>2, <1>3, <1>4, <1>5 DEF Next, Step

LEMMA OneBuilderStep ==
  ASSUME limit = 1, SerialInv, [Next]_vars
  PROVE  OneBuilder'
<1>0. TypeInv /\ OneBuilder
  BY DEF SerialInv
<1> SUFFICES ASSUME NEW a \in Builders, NEW c \in Builders, a # c,
                    a \in Busy(Builders)', c \in Busy(Builders)'
             PROVE  FALSE
  BY DEF OneBuilder, Busy
<1> DEFINE Was(x) == pc'[x] \notin {"idle"} \cup Ended => x \in Busy(Builders)
<1>1. ASSUME Was(a), Was(c) PROVE FALSE
  BY <1>0, <1>1 DEF OneBuilder, Busy
<1>2. ASSUME NEW b \in Builders, BuilderStep(b) PROVE FALSE
  <2>1. \A x \in Builders \ {b} : x \notin Busy(Builders)
    BY <1>0, <1>2, BuilderStepFrame, OthersIdle
  <2>2. \A x \in Builders \ {b} : pc'[x] = pc[x]
    BY <1>0, <1>2, BuilderStepFrame
  <2> QED BY <2>1, <2>2 DEF Busy
<1>3. ASSUME NEW t \in Trainers, TrainerStep(t) PROVE FALSE
  <2>1. pc'[a] = pc[a] /\ pc'[c] = pc[c]
    BY <1>0, <1>3, TrainerStepFrame, Processes
  <2> QED BY <1>1, <2>1 DEF Busy
<1>4. ASSUME NEW p \in Builders \cup Trainers, Abort(p) PROVE FALSE
  <2>1. \A x \in Builders : pc'[x] = pc[x] \/ pc'[x] = "stopped"
    BY <1>0, <1>4, AbortFrame
  <2> QED BY <1>1, <2>1 DEF Busy, Ended
<1>5. ASSUME pc' = pc PROVE FALSE
  BY <1>1, <1>5 DEF Busy
<1> QED BY <1>2, <1>3, <1>4, <1>5 DEF Next, Step, Ingest, vars

(* A manifest is written from the paths its output was aggregated from.    *)
LEMMA ManifestsStep ==
  ASSUME SerialInv, [Next]_vars
  PROVE  ManifestsAreTrue'
<1>0. TypeInv /\ ManifestsAreTrue
  BY DEF SerialInv
<1>1. ASSUME manifest' = manifest PROVE ManifestsAreTrue'
  BY <1>0, <1>1 DEF ManifestsAreTrue, ResultOf, GoldFrom, FeatureVersion
<1>2. ASSUME NEW b \in Builders, WriteManifest(b) PROVE ManifestsAreTrue'
  <2>1. build[b].hashed = Paths(b) /\ build[b].output = ResultOf(Paths(b))
    BY <1>2 DEF SerialInv, BuildProgress, HasRead, WriteManifest
  <2>2. Describe(b).output = ResultOf(Describe(b).inputs)
    BY <2>1 DEF Describe
  <2>3. \A m \in Months : manifest'[m] = manifest[m] \/ manifest'[m] = Describe(b)
    BY <1>0, <1>2 DEF WriteManifest, TypeInv, Typed
  <2> QED
    <3> SUFFICES ASSUME NEW m \in Months, manifest'[m] # NoFile
                 PROVE  manifest'[m].output = ResultOf(manifest'[m].inputs)
      BY DEF ManifestsAreTrue, ResultOf, GoldFrom, FeatureVersion
    <3> QED BY <1>0, <2>2, <2>3 DEF ManifestsAreTrue
<1>3. ASSUME NEW b \in Builders, BuilderStep(b), ~WriteManifest(b) PROVE manifest' = manifest
  BY <1>3 DEF BuilderStep, StartBuild, OpenInput, HashInput, Aggregate, RunTests, PublishGold,
              HashOutput, fileVars
<1>4. ASSUME NEW t \in Trainers, TrainerStep(t) PROVE manifest' = manifest
  BY <1>0, <1>4, TrainerStepFrame
<1> QED BY <1>1, <1>2, <1>3, <1>4 DEF Next, Step, Ingest, Abort, vars, fileVars

(* What is aggregated are the files whose contracts were compared.         *)
LEMMA ContractStep ==
  ASSUME SerialInv, [Next]_vars
  PROVE  OneContract'
<1>0. TypeInv /\ OneContract
  BY DEF SerialInv
<1> SUFFICES ASSUME NEW b \in Builders
             PROVE  \A c, d \in Used(build'[b].aggregated) : ContractOf[c] = ContractOf[d]
  BY DEF OneContract, Used
<1>1. CASE build'[b].aggregated = build[b].aggregated
  BY <1>0, <1>1 DEF OneContract
<1>2. CASE Aggregate(b)
  <2>1. /\ Paths(b)[build[b].slot] = PathOf(b) /\ build[b].slot \in Slots
        /\ build[b].aggregated \in Inputs
        /\ build[b].opened = Paths(b) /\ SameContract(Paths(b))
    BY <1>0, <1>2 DEF SerialInv, BuildProgress, HasRead, Aggregate, Paths, PathOf, TypeInv, Typed,
                      BuildLocals
  <2>2. build'[b].aggregated = [build[b].aggregated EXCEPT ![build[b].slot] = PathOf(b)]
    BY <1>0, <1>2, <2>1 DEF Aggregate, TypeInv, Typed, BuildLocals
  <2>3. \A s \in Slots : build[b].aggregated[s] \in {NoFile, Paths(b)[s]}
                          \/ s = build[b].slot
    BY <1>2, <2>1 DEF SerialInv, BuildProgress, Aggregate, NoInputs, Slots
  <2>4. \A s \in Slots : build'[b].aggregated[s] \in {NoFile, Paths(b)[s]}
    BY <2>1, <2>2, <2>3 DEF Inputs
  <2>5. Used(build'[b].aggregated) \subseteq Used(Paths(b))
    BY <2>4 DEF Used
  <2> QED BY <2>1, <2>5 DEF SameContract
<1>3. ASSUME NEW c \in Builders, BuilderStep(c), c # b PROVE build'[b] = build[b]
  BY <1>0, <1>3, BuilderStepFrame
<1>4. ASSUME BuilderStep(b), ~Aggregate(b) PROVE build'[b].aggregated = build[b].aggregated
  <2>1. ASSUME NEW m \in Months, StartBuild(b, m) PROVE build'[b].aggregated = build[b].aggregated
    BY <1>0, <2>1 DEF StartBuild, TypeInv, Typed, BuildLocals
  <2>2. CASE OpenInput(b)
    BY <1>0, <2>2 DEF OpenInput, TypeInv, Typed, BuildLocals
  <2>3. CASE HashInput(b)
    BY <1>0, <2>3 DEF HashInput, TypeInv, Typed, BuildLocals
  <2>4. CASE HashOutput(b)
    BY <1>0, <2>4 DEF HashOutput, TypeInv, Typed, BuildLocals
  <2> QED BY <1>4, <2>1, <2>2, <2>3, <2>4 DEF BuilderStep, RunTests, PublishGold, WriteManifest
<1>5. ASSUME NEW t \in Trainers, TrainerStep(t) PROVE build' = build
  BY <1>0, <1>5, TrainerStepFrame
<1> QED BY <1>1, <1>2, <1>3, <1>5, <1>4 DEF Next, Step, Ingest, Abort, vars

LEMMA SerialInit == Init => SerialInv
<1> SUFFICES ASSUME Init PROVE SerialInv
  OBVIOUS
<1>1. OneBuilder
  BY DEF Init, OneBuilder, Busy
<1>2. \A b \in Builders : BuildProgress(b)
  BY DEF Init, BuildProgress, HasRead
<1>3. OneContract
  BY DEF Init, OneContract, NoBuild, NoInputs, Used
<1> QED BY <1>1, <1>2, <1>3, TypeInit DEF Init, SerialInv, ManifestsAreTrue

LEMMA SerialStep == (limit = 1 => SerialInv) /\ [Next]_vars => (limit = 1 => SerialInv)'
<1> SUFFICES ASSUME limit = 1, SerialInv, [Next]_vars PROVE SerialInv'
  BY LimitStep
<1>1. TypeInv'
  BY TypeStep DEF SerialInv
<1> QED BY <1>1, OneBuilderStep, ProgressStep, ManifestsStep, ContractStep DEF SerialInv

(* A build returns by writing the manifest of the gold it has moved.       *)
LEMMA ReturnIsCurrent ==
  ASSUME SerialInv, [Next]_vars, NEW b \in Builders, pc[b] # "returned", pc'[b] = "returned"
  PROVE  Current(b)'
<1>0. TypeInv /\ BuildProgress(b)
  BY DEF SerialInv
<1>1. WriteManifest(b)
  <2>1. ASSUME NEW t \in Trainers, TrainerStep(t) PROVE FALSE
    BY <1>0, <2>1, TrainerStepFrame, Processes
  <2>2. ASSUME NEW p \in Builders \cup Trainers, Abort(p) PROVE FALSE
    BY <1>0, <2>2, AbortFrame
  <2>3. ASSUME NEW c \in Builders, BuilderStep(c), c # b PROVE FALSE
    BY <1>0, <2>3, BuilderStepFrame
  <2>4. ASSUME BuilderStep(b) PROVE WriteManifest(b)
    BY <1>0, <2>4 DEF BuilderStep, StartBuild, OpenInput, HashInput, Aggregate, RunTests,
                      PublishGold, HashOutput, Goto, TypeInv, Typed
  <2> QED BY <2>1, <2>2, <2>3, <2>4 DEF Next, Step, Ingest, vars
<1>2. /\ build' = build /\ gold' = gold /\ silver' = silver
      /\ build[b].month \in Months
      /\ manifest'[build[b].month] = Describe(b)
  <2>1. build[b].month \in Months
    BY <1>0, <1>1 DEF WriteManifest, TypeInv, BuildPlaces, BuilderPcs
  <2> QED BY <1>0, <1>1, <2>1 DEF WriteManifest, TypeInv, Typed
<1>3. build[b].output = gold[build[b].month] /\ gold[build[b].month] = ResultOf(Paths(b))
  BY <1>0, <1>1 DEF BuildProgress, WriteManifest
<1>4. Paths(b)' = Paths(b) /\ ResultOf(Paths(b))' = ResultOf(Paths(b))
  BY <1>2 DEF Paths, SlotMonth, ResultOf, GoldFrom, FeatureVersion
<1> QED BY <1>2, <1>3, <1>4 DEF Describe, Current

------------------------------------------------------------------------------
(* Builds one after the other, each stopped anywhere: a manifest whose     *)
(* output checksum is that of the gold in place lists inputs that a build  *)
(* turns into this gold.                                                   *)
THEOREM ManifestCorrect == Spec => []MatchingManifestIsTrue
<1>1. (limit = 1 => SerialInv) => MatchingManifestIsTrue
  BY DEF SerialInv, ManifestsAreTrue, MatchingManifestIsTrue
<1> QED BY <1>1, SerialInit, SerialStep, PTL DEF Spec

(* Builds one after the other: no gold file mixes the rows of two silver   *)
(* contracts.                                                              *)
THEOREM OneContractCorrect == Spec => []GoldHasOneContract
<1>1. (limit = 1 => SerialInv) => GoldHasOneContract
  BY DEF SerialInv, OneContract, GoldHasOneContract
<1> QED BY <1>1, SerialInit, SerialStep, PTL DEF Spec

(* Builds one after the other: a build that returns leaves the gold and    *)
(* the manifest of the silver in place.                                    *)
THEOREM ReturnedBuildCorrect == Spec => ReturnedBuildIsCurrent
<1> DEFINE Returns == limit = 1 => \A b \in Builders :
                        (pc[b] # "returned" /\ pc'[b] = "returned") => Current(b)'
<1>1. (limit = 1 => SerialInv) /\ [Next]_vars => [Returns]_vars
  BY ReturnIsCurrent
<1>2. Spec => [][Returns]_vars
  <2> HIDE DEF Returns
  <2> QED BY <1>1, SerialInit, SerialStep, PTL DEF Spec
<1> QED BY <1>2 DEF ReturnedBuildIsCurrent

------------------------------------------------------------------------------
(* The version of a bundle, whatever overlaps.                             *)

(* A table carries the version of its rows, its input the version of the   *)
(* table, and a trainer that fits has seen that all of them agree.         *)
VersionsCarried(t) ==
  /\ \A i \in 1..Len(train[t].tables) :
       train[t].tables[i].version = FeatureVersions[train[t].tables[i].contract]
  /\ \A i \in 1..Len(train[t].inputs) : /\ i <= Len(train[t].tables)
                                       /\ train[t].inputs[i].version = train[t].tables[i].version
  /\ pc[t] \in {"idle", "reading", "identifying", "fitting"}
       => Len(train[t].inputs) = Len(train[t].tables)
  /\ pc[t] \in {"identifying", "fitting"} => Len(train[t].tables) = Len(TrainMonths)
  /\ pc[t] = "checksumming" => Len(train[t].inputs) + 1 = Len(train[t].tables)
  /\ pc[t] = "fitting" => VersionsAgree(train[t].tables)

VersionInv == /\ GoldInv
              /\ \A t \in Trainers : VersionsCarried(t)
              /\ BundleVersionMatchesRows

LEMMA VersionsKept ==
  ASSUME NEW t \in Trainers, VersionsCarried(t), train'[t] = train[t],
         pc'[t] \in {pc[t], "stopped"}
  PROVE  VersionsCarried(t)'
  BY DEF VersionsCarried

LEMMA ReadTableVersion ==
  ASSUME TypeInv, GoldVersionMatchesRows, NEW t \in Trainers, VersionsCarried(t), ReadTable(t)
  PROVE  VersionsCarried(t)'
<1>a. PICK tables : tables = train[t].tables
  OBVIOUS
<1>b. PICK inputs : inputs = train[t].inputs
  OBVIOUS
<1>c. PICK n : n = Len(tables)
  OBVIOUS
<1>d. PICK table : table = gold[TrainMonths[n + 1]]
  OBVIOUS
<1>1. tables \in Seq(GoldFiles) /\ inputs \in Seq(TrainingInputs) /\ n \in Nat
  BY <1>a, <1>b, <1>c DEF TypeInv, Typed, TrainLocals
<1>2. TrainMonths[n + 1] \in Months
  <2>1. n < Len(TrainMonths)
    BY <1>a, <1>c DEF ReadTable, TypeInv, TrainPlaces
  <2> QED BY <1>1, <2>1, GoldAssumption
<1>3. table \in GoldFiles /\ table.version = FeatureVersions[table.contract]
  BY <1>a, <1>c, <1>d, <1>2 DEF ReadTable, TypeInv, Typed, OrNone, GoldVersionMatchesRows
<1>4. /\ pc'[t] = "checksumming"
      /\ train'[t].tables = Append(tables, table) /\ train'[t].inputs = inputs
  BY <1>a, <1>b, <1>c, <1>d DEF ReadTable, Goto, TypeInv, Typed, TrainLocals
<1>5. /\ Len(inputs) = n
      /\ \A i \in 1..n : tables[i].version = FeatureVersions[tables[i].contract]
      /\ \A i \in 1..n : inputs[i].version = tables[i].version
  BY <1>a, <1>b, <1>c DEF VersionsCarried, ReadTable
<1>6. /\ Len(Append(tables, table)) = n + 1 /\ Append(tables, table)[n + 1] = table
      /\ \A i \in 1..n : Append(tables, table)[i] = tables[i]
  BY <1>1, <1>3, <1>c
<1>7. \A i \in 1..(n + 1) : Append(tables, table)[i].version
                              = FeatureVersions[Append(tables, table)[i].contract]
  <2> SUFFICES ASSUME NEW i \in 1..(n + 1)
               PROVE  Append(tables, table)[i].version
                        = FeatureVersions[Append(tables, table)[i].contract]
    OBVIOUS
  <2>1. i = n + 1 \/ i \in 1..n
    BY <1>1
  <2> QED BY <2>1, <1>3, <1>5, <1>6
<1>8. \A i \in 1..Len(inputs) : /\ i <= Len(Append(tables, table))
                               /\ inputs[i].version = Append(tables, table)[i].version
  BY <1>1, <1>5, <1>6
<1> QED BY <1>1, <1>4, <1>5, <1>6, <1>7, <1>8 DEF VersionsCarried

LEMMA HashTableVersion ==
  ASSUME TypeInv, NEW t \in Trainers, VersionsCarried(t), HashTable(t)
  PROVE  VersionsCarried(t)'
<1>a. PICK tables : tables = train[t].tables
  OBVIOUS
<1>b. PICK inputs : inputs = train[t].inputs
  OBVIOUS
<1>c. PICK n : n = Len(tables)
  OBVIOUS
<1>d. PICK input : input = InputOf(gold[TrainMonths[n]], tables[n])
  OBVIOUS
<1>1. tables \in Seq(GoldFiles) /\ inputs \in Seq(TrainingInputs) /\ n \in 1..Len(TrainMonths)
      /\ TrainMonths[n] \in Months
  BY <1>a, <1>b, <1>c, GoldAssumption DEF HashTable, TypeInv, Typed, TrainLocals, TrainPlaces
<1>2. /\ Len(inputs) + 1 = n
      /\ \A i \in 1..n : tables[i].version = FeatureVersions[tables[i].contract]
      /\ \A i \in 1..Len(inputs) : inputs[i].version = tables[i].version
  BY <1>a, <1>b, <1>c DEF VersionsCarried, HashTable
<1>3. input.version = tables[n].version /\ input \in TrainingInputs
  <2>1. tables[n] \in GoldFiles
    BY <1>1, <1>c
  <2> QED BY <1>1, <1>d, <2>1 DEF InputOf, TrainingInputs, GoldFiles, TypeInv, Typed
<1>4. /\ train'[t].tables = tables /\ train'[t].inputs = Append(inputs, input)
      /\ pc'[t] = IF n = Len(TrainMonths) THEN "identifying" ELSE "reading"
  BY <1>a, <1>b, <1>c, <1>d DEF HashTable, Goto, TypeInv, Typed, TrainLocals
<1>5. /\ Len(Append(inputs, input)) = n /\ Append(inputs, input)[n] = input
      /\ \A i \in 1..Len(inputs) : Append(inputs, input)[i] = inputs[i]
  BY <1>1, <1>2, <1>3
<1>6. \A i \in 1..n : Append(inputs, input)[i].version = tables[i].version
  <2> SUFFICES ASSUME NEW i \in 1..n PROVE Append(inputs, input)[i].version = tables[i].version
    OBVIOUS
  <2>1. i = n \/ i \in 1..Len(inputs)
    BY <1>1, <1>2
  <2> QED BY <2>1, <1>2, <1>3, <1>5
<1> QED BY <1>1, <1>2, <1>4, <1>5, <1>6, <1>c DEF VersionsCarried

LEMMA TrainerVersions ==
  ASSUME TypeInv, GoldVersionMatchesRows, NEW t \in Trainers, VersionsCarried(t), TrainerStep(t)
  PROVE  VersionsCarried(t)'
<1>1. CASE StartTraining(t)
  <2>1. pc[t] = "idle" /\ pc'[t] = "reading" /\ train' = train
    BY <1>1 DEF StartTraining, Goto, TypeInv, Typed
  <2> QED BY <2>1 DEF VersionsCarried
<1>2. CASE Identify(t)
  <2>1. /\ pc[t] = "identifying" /\ pc'[t] = "fitting" /\ train' = train
        /\ VersionsAgree(train[t].tables)
    BY <1>2 DEF Identify, Goto, TypeInv, Typed
  <2> QED BY <2>1 DEF VersionsCarried, VersionsAgree
<1>3. ASSUME ReuseBundle(t) \/ PlaceBundle(t) PROVE VersionsCarried(t)'
  <2>1. /\ pc'[t] = "returned" /\ train'[t].tables = train[t].tables
        /\ train'[t].inputs = train[t].inputs
    BY <1>3 DEF ReuseBundle, PlaceBundle, Goto, TypeInv, Typed, TrainLocals
  <2> QED BY <2>1 DEF VersionsCarried
<1> QED BY <1>1, <1>2, <1>3, ReadTableVersion, HashTableVersion DEF TrainerStep

LEMMA BundleVersionStep ==
  ASSUME VersionInv, [Next]_vars
  PROVE  BundleVersionMatchesRows'
<1>0. TypeInv /\ BundleVersionMatchesRows
  BY DEF VersionInv, GoldInv
<1>1. CASE bundles' = bundles
  BY <1>0, <1>1 DEF BundleVersionMatchesRows
<1>2. ASSUME NEW t \in Trainers, PlaceBundle(t) PROVE BundleVersionMatchesRows'
  <2>1. /\ VersionsAgree(train[t].tables)
        /\ Len(train[t].tables) = Len(TrainMonths) /\ Len(train[t].inputs) = Len(TrainMonths)
        /\ VersionsCarried(t) /\ train[t].tables \in Seq(GoldFiles)
    BY <1>0, <1>2 DEF VersionInv, VersionsCarried, PlaceBundle, TypeInv, Typed, TrainLocals
  <2>2. DOMAIN TrainMonths = 1..Len(TrainMonths) /\ DOMAIN train[t].tables = 1..Len(TrainMonths)
    BY <2>1, GoldAssumption
  <2>3. \A i, j \in DOMAIN TrainMonths :
          train[t].inputs[i].version = FeatureVersions[train[t].tables[j].contract]
    BY <2>1, <2>2 DEF VersionsCarried, VersionsAgree
  <2>4. bundles' = bundles \cup {BundleOf(t)}
    BY <1>2 DEF PlaceBundle
  <2> QED BY <1>0, <2>3, <2>4 DEF BundleVersionMatchesRows, BundleOf, RunIdentifier
<1>3. ASSUME NEW t \in Trainers, TrainerStep(t), ~PlaceBundle(t) PROVE bundles' = bundles
  BY <1>3 DEF TrainerStep, StartTraining, ReadTable, HashTable, ReuseBundle, Identify
<1>4. ASSUME NEW b \in Builders, BuilderStep(b) PROVE bundles' = bundles
  BY <1>0, <1>4, BuilderStepFrame
<1> QED BY <1>1, <1>2, <1>3, <1>4 DEF Next, Step, Ingest, Abort, vars

LEMMA VersionInit == Init => VersionInv
  BY TypeInit DEF Init, VersionInv, GoldInv, Tested, GoldVersionMatchesRows, VersionsCarried, NoTrain,
                  BundleVersionMatchesRows

LEMMA VersionStep == VersionInv /\ [Next]_vars => VersionInv'
<1> SUFFICES ASSUME VersionInv, [Next]_vars PROVE VersionInv'
  OBVIOUS
<1>0. TypeInv /\ GoldVersionMatchesRows
  BY DEF VersionInv, GoldInv
<1>1. GoldInv'
  BY TypeStep, TestedStep, GoldStep DEF VersionInv, GoldInv
<1>2. ASSUME NEW u \in Trainers PROVE VersionsCarried(u)'
  <2>0. VersionsCarried(u) /\ u \notin Builders
    BY Processes DEF VersionInv
  <2>1. CASE pc'[u] \in {pc[u], "stopped"} /\ train'[u] = train[u]
    BY <2>0, <2>1, VersionsKept
  <2>2. ASSUME NEW b \in Builders, BuilderStep(b) PROVE pc'[u] = pc[u] /\ train' = train
    BY <1>0, <2>0, <2>2, BuilderStepFrame
  <2>3. ASSUME NEW t \in Trainers, TrainerStep(t), t # u PROVE pc'[u] = pc[u] /\ train'[u] = train[u]
    BY <1>0, <2>3, TrainerStepFrame
  <2>4. ASSUME NEW p \in Builders \cup Trainers, Abort(p)
        PROVE  pc'[u] \in {pc[u], "stopped"} /\ train' = train
    BY <1>0, <2>4, AbortFrame
  <2> QED BY <1>0, <2>0, <2>1, <2>2, <2>3, <2>4, TrainerVersions DEF Next, Step, Ingest, vars
<1> QED BY <1>1, <1>2, BundleVersionStep DEF VersionInv

(* However ingestion, builds and training overlap, a bundle has the one    *)
(* feature version of the rows of every table it was trained on.           *)
THEOREM BundleVersionCorrect == Spec => []BundleVersionMatchesRows
<1>1. VersionInv => BundleVersionMatchesRows
  BY DEF VersionInv
<1> QED BY <1>1, VersionInit, VersionStep, PTL DEF Spec

------------------------------------------------------------------------------
(* Training beside any number of builds and ingestions: as long as what    *)
(* has been hashed is what was read, names tell the data apart.            *)

(* Inputs that carry the checksums of the tables, in order. *)
Named(inputs, tables) == /\ Len(inputs) = Len(tables)
                         /\ \A i \in 1..Len(tables) : inputs[i].sha256 = tables[i]

BundlesNamed == \A b \in bundles : Named(b.name, b.data) /\ Len(b.data) = Len(TrainMonths)
ReturnedOwnData ==
  \A t \in Trainers : pc[t] = "returned" => train[t].result.data = train[t].tables

TrainingInv == VersionInv /\ (HashedAsRead => BundlesNamed /\ ReturnedOwnData)

(* What names two lists of tables alike makes them the same tables.        *)
LEMMA SameNameSameData ==
  ASSUME NEW name \in Seq(TrainingInputs), NEW a \in Seq(GoldFiles), NEW b \in Seq(GoldFiles),
         Named(name, a), Named(name, b)
  PROVE  a = b
<1>1. Len(a) = Len(b) /\ \A i \in 1..Len(a) : a[i] = b[i]
  BY DEF Named
<1> QED BY <1>1

(* A trainer that identifies its run has hashed all that it has read.      *)
LEMMA TrainerNamed ==
  ASSUME VersionInv, HashedAsRead, NEW t \in Trainers, pc[t] \in {"identifying", "fitting"}
  PROVE  Named(train[t].inputs, train[t].tables) /\ Len(train[t].tables) = Len(TrainMonths)
  BY DEF VersionInv, VersionsCarried, HashedAsRead, Named

(* What a trainer has read and hashed stays as it is.                      *)
Extended(u) ==
  \A i \in 1..Len(train[u].inputs) :
    /\ i \in 1..Len(train'[u].inputs)
    /\ train'[u].inputs[i] = train[u].inputs[i] /\ train'[u].tables[i] = train[u].tables[i]

LEMMA TrainerExtends ==
  ASSUME TypeInv, NEW t \in Trainers, VersionsCarried(t), TrainerStep(t)
  PROVE  Extended(t)
<1>a. PICK tables : tables = train[t].tables
  OBVIOUS
<1>b. PICK inputs : inputs = train[t].inputs
  OBVIOUS
<1>1. /\ tables \in Seq(GoldFiles) /\ inputs \in Seq(TrainingInputs)
      /\ \A i \in 1..Len(inputs) : i <= Len(tables)
  BY <1>a, <1>b DEF TypeInv, Typed, TrainLocals, VersionsCarried
<1>2. CASE ReadTable(t)
  <2>1. PICK table : /\ train'[t].tables = Append(tables, table) /\ train'[t].inputs = inputs
    BY <1>a, <1>b, <1>2 DEF ReadTable, TypeInv, Typed, TrainLocals
  <2>2. \A i \in 1..Len(inputs) : Append(tables, table)[i] = tables[i]
    BY <1>1
  <2> QED BY <1>a, <1>b, <2>1, <2>2 DEF Extended
<1>3. CASE HashTable(t)
  <2>1. PICK input : /\ train'[t].tables = tables /\ train'[t].inputs = Append(inputs, input)
    BY <1>a, <1>b, <1>3 DEF HashTable, TypeInv, Typed, TrainLocals
  <2>2. \A i \in 1..Len(inputs) : /\ i \in 1..Len(Append(inputs, input))
                                 /\ Append(inputs, input)[i] = inputs[i]
    BY <1>1
  <2> QED BY <1>a, <1>b, <2>1, <2>2 DEF Extended
<1>4. CASE ReuseBundle(t) \/ PlaceBundle(t)
  <2>1. train'[t].tables = tables /\ train'[t].inputs = inputs
    BY <1>a, <1>b, <1>4 DEF ReuseBundle, PlaceBundle, TypeInv, Typed, TrainLocals
  <2> QED BY <1>a, <1>b, <2>1 DEF Extended
<1>5. CASE StartTraining(t) \/ Identify(t)
  BY <1>5 DEF StartTraining, Identify, Extended
<1> QED BY <1>2, <1>3, <1>4, <1>5 DEF TrainerStep

(* So a step after which all is hashed as read starts from such a state.   *)
LEMMA HashedBefore ==
  ASSUME VersionInv, [Next]_vars, HashedAsRead'
  PROVE  HashedAsRead
<1>0. TypeInv /\ \A u \in Trainers : VersionsCarried(u)
  BY DEF VersionInv, GoldInv
<1>1. ASSUME NEW u \in Trainers PROVE Extended(u)
  <2>1. CASE train'[u] = train[u]
    BY <2>1 DEF Extended
  <2>2. ASSUME NEW b \in Builders, BuilderStep(b) PROVE train' = train
    BY <1>0, <2>2, BuilderStepFrame
  <2>3. ASSUME NEW t \in Trainers, TrainerStep(t), t # u PROVE train'[u] = train[u]
    BY <1>0, <2>3, TrainerStepFrame
  <2>4. ASSUME NEW p \in Builders \cup Trainers, Abort(p) PROVE train' = train
    BY <1>0, <2>4, AbortFrame
  <2> QED BY <1>0, <2>1, <2>2, <2>3, <2>4, TrainerExtends DEF Next, Step, Ingest, vars
<1> QED BY <1>1 DEF HashedAsRead, Extended

LEMMA BundlesStep ==
  ASSUME VersionInv, [Next]_vars, HashedAsRead, BundlesNamed
  PROVE  BundlesNamed'
<1>0. TypeInv
  BY DEF VersionInv, GoldInv
<1>1. ASSUME bundles' = bundles PROVE BundlesNamed'
  BY <1>1 DEF BundlesNamed
<1>2. ASSUME NEW t \in Trainers, PlaceBundle(t) PROVE BundlesNamed'
  <2>1. Named(BundleOf(t).name, BundleOf(t).data) /\ Len(BundleOf(t).data) = Len(TrainMonths)
    BY <1>2, TrainerNamed DEF PlaceBundle, BundleOf, RunIdentifier
  <2> QED BY <1>2, <2>1 DEF PlaceBundle, BundlesNamed
<1>3. ASSUME NEW t \in Trainers, TrainerStep(t), ~PlaceBundle(t) PROVE bundles' = bundles
  BY <1>3 DEF TrainerStep, StartTraining, ReadTable, HashTable, ReuseBundle, Identify
<1>4. ASSUME NEW b \in Builders, BuilderStep(b) PROVE bundles' = bundles
  BY <1>0, <1>4, BuilderStepFrame
<1> QED BY <1>1, <1>2, <1>3, <1>4 DEF Next, Step, Ingest, Abort, vars

LEMMA ReuseBundleData ==
  ASSUME VersionInv, HashedAsRead, BundlesNamed, NEW t \in Trainers, ReuseBundle(t)
  PROVE  train'[t].result.data = train'[t].tables
<1>0. TypeInv
  BY DEF VersionInv, GoldInv
<1>1. PICK b \in bundles : /\ b.name = RunIdentifier(train[t].inputs)
                           /\ train' = [train EXCEPT ![t].result = b]
  BY DEF ReuseBundle
<1>2. train'[t].tables = train[t].tables /\ train'[t].result = b
  BY <1>0, <1>1 DEF TypeInv, Typed, TrainLocals
<1>3. Named(b.name, train[t].tables) /\ Named(b.name, b.data)
  BY <1>1, TrainerNamed DEF ReuseBundle, RunIdentifier, BundlesNamed
<1>4. /\ b.name \in Seq(TrainingInputs) /\ b.data \in Seq(GoldFiles)
      /\ train[t].tables \in Seq(GoldFiles)
  BY <1>0, <1>1 DEF TypeInv, Typed, Bundles, TrainLocals
<1>5. b.data = train[t].tables
  BY <1>3, <1>4, SameNameSameData
<1> QED BY <1>2, <1>5

LEMMA PlaceBundleData ==
  ASSUME TypeInv, NEW t \in Trainers, PlaceBundle(t)
  PROVE  train'[t].result.data = train'[t].tables
<1>1. train'[t].tables = train[t].tables /\ train'[t].result = BundleOf(t)
  BY DEF PlaceBundle, TypeInv, Typed, TrainLocals
<1> QED BY <1>1 DEF BundleOf

LEMMA ReturnedStep ==
  ASSUME VersionInv, [Next]_vars, HashedAsRead, BundlesNamed, ReturnedOwnData
  PROVE  ReturnedOwnData'
<1>0. TypeInv
  BY DEF VersionInv, GoldInv
<1> SUFFICES ASSUME NEW u \in Trainers, pc'[u] = "returned"
             PROVE  train'[u].result.data = train'[u].tables
  BY DEF ReturnedOwnData
<1>1. CASE pc'[u] = pc[u] /\ train'[u] = train[u]
  BY <1>1 DEF ReturnedOwnData
<1>2. ASSUME NEW b \in Builders, BuilderStep(b) PROVE pc'[u] = pc[u] /\ train' = train
  BY <1>0, <1>2, Processes, BuilderStepFrame
<1>3. ASSUME NEW t \in Trainers, TrainerStep(t), t # u PROVE pc'[u] = pc[u] /\ train'[u] = train[u]
  BY <1>0, <1>3, TrainerStepFrame
<1>4. ASSUME TrainerStep(u) PROVE train'[u].result.data = train'[u].tables
  <2>1. ReuseBundle(u) \/ PlaceBundle(u)
    BY <1>0, <1>4 DEF TrainerStep, StartTraining, ReadTable, HashTable, Identify, Goto, TypeInv, Typed
  <2> QED BY <1>0, <2>1, ReuseBundleData, PlaceBundleData
<1>5. ASSUME NEW p \in Builders \cup Trainers, Abort(p) PROVE pc'[u] = pc[u] /\ train' = train
  BY <1>0, <1>5, AbortFrame
<1> QED BY <1>1, <1>2, <1>3, <1>4, <1>5 DEF Next, Step, Ingest, vars

LEMMA TrainingInit == Init => TrainingInv
  BY VersionInit DEF Init, TrainingInv, BundlesNamed, ReturnedOwnData

LEMMA TrainingStep == TrainingInv /\ [Next]_vars => TrainingInv'
<1> SUFFICES ASSUME TrainingInv, [Next]_vars PROVE TrainingInv'
  OBVIOUS
<1>1. VersionInv /\ VersionInv'
  BY VersionStep DEF TrainingInv
<1>2. ASSUME HashedAsRead' PROVE BundlesNamed' /\ ReturnedOwnData'
  <2>1. HashedAsRead
    BY <1>1, <1>2, HashedBefore
  <2>2. BundlesNamed /\ ReturnedOwnData
    BY <2>1 DEF TrainingInv
  <2> QED BY <1>1, <2>1, <2>2, BundlesStep, ReturnedStep
<1> QED BY <1>1, <1>2 DEF TrainingInv

(* A training run returns a bundle of the tables it has read, one it finds *)
(* under its name included, beside any builds, ingestions and other        *)
(* training runs, as long as no run has hashed another file than it read.  *)
THEOREM ReturnedBundleCorrect == Spec => []ReturnedBundleIsOfItsData
<1>1. TrainingInv => ReturnedBundleIsOfItsData
  BY DEF TrainingInv, ReturnedOwnData, ReturnedBundleIsOfItsData
<1> QED BY <1>1, TrainingInit, TrainingStep, PTL DEF Spec

(* As long as no run has hashed another file than it read, a bundle is     *)
(* named by its data: the replacement between the two reads of one gold    *)
(* file is the only thing that breaks the naming.                          *)
THEOREM NamesCorrect == Spec => [](HashedAsRead => BundleNamesItsData)
<1>1. TrainingInv => (HashedAsRead => BundleNamesItsData)
  BY GoldAssumption DEF TrainingInv, BundlesNamed, Named, BundleNamesItsData
<1> QED BY <1>1, TrainingInit, TrainingStep, PTL DEF Spec
==============================================================================
