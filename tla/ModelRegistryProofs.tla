------------------------- MODULE ModelRegistryProofs -------------------------
(***************************************************************************)
(* Proofs about ModelRegistry, for every set of attempts, datasets and     *)
(* errors.  Types, what may be registered or in production, and that no    *)
(* record is taken back hold however attempts overlap; the other           *)
(* properties assume what the training DAG and ADR-0017 provide, one       *)
(* attempt at a time.                                                      *)
(***************************************************************************)
EXTENDS ModelRegistry, SequenceTheorems, FiniteSetTheorems, TLAPS

(* The actions of an attempt, named, for the case splits. *)
LEMMA NextCases ==
  ASSUME Next
  PROVE  \E a \in Attempts :
           \/ \E d \in Datasets, role \in Roles : StartTraining(a, d, role)
           \/ \E b \in trained : StartRepublication(a, b)
           \/ Train(a)
           \/ \E i \in 1..Len(runs) : ReuseRun(a, i)
           \/ RefuseIncompleteRun(a) \/ FindNoRun(a)
           \/ CreateRun(a) \/ FinishRun(a) \/ FailRun(a)
           \/ FindVersion(a) \/ CompareIncumbent(a) \/ CreateVersion(a)
           \/ ReadAlias(a) \/ SetAlias(a) \/ Abort(a)
  BY DEF Next, Step, Start, LogStep, RegisterStep

(* The limit is chosen once. *)
LEMMA LimitStep == [Next]_vars => UNCHANGED limit
  BY DEF Next, vars

------------------------------------------------------------------------------
(* Lemmas about the operators.                                             *)

LEMMA RoleNames ==
  /\ Len(ModelRoles) = 3
  /\ ModelRoles[1] = "baseline" /\ ModelRoles[2] = "static" /\ ModelRoles[3] = "streaming"
  /\ \A i \in 1..3 : ModelRoles[i] \in {"baseline", "static", "streaming"}
  BY DEF ModelRoles

(* Changing the status of one run keeps the sequence and everything else. *)
LEMMA StatusChange ==
  ASSUME NEW s \in Seq(RunRecords), NEW i \in 1..Len(s),
         NEW status \in {"RUNNING", "FINISHED", "FAILED"},
         NEW t, t = [s EXCEPT ![i].status = status]
  PROVE  /\ t \in Seq(RunRecords)
         /\ Len(t) = Len(s)
         /\ t[i] = [bundle |-> s[i].bundle, role |-> s[i].role, status |-> status]
         /\ \A j \in 1..Len(s) : j # i => t[j] = s[j]
<1> DEFINE e == [s[i] EXCEPT !.status = status]
<1>1. s[i] \in RunRecords
  BY ElementOfSeq
<1>2. e \in RunRecords /\ e = [bundle |-> s[i].bundle, role |-> s[i].role, status |-> status]
  BY <1>1 DEF RunRecords
<1>3. [s EXCEPT ![i].status = status] = [s EXCEPT ![i] = e]
  OBVIOUS
<1> HIDE DEF e
<1> QED BY <1>2, <1>3, ExceptSeq

(* Assigning one local variable. *)
LEMMA LocalFields ==
  ASSUME NEW l \in Locals
  PROVE  /\ l.run \in Nat /\ l.selected \in Nat /\ l.version \in Nat /\ l.step \in 1..3
         /\ \A b \in BundleIds :
              [l EXCEPT !.bundle = b] = [bundle |-> b, step |-> l.step, run |-> l.run,
                                         selected |-> l.selected, version |-> l.version]
         /\ \A n \in Nat :
              /\ [l EXCEPT !.run = n] = [bundle |-> l.bundle, step |-> l.step, run |-> n,
                                         selected |-> l.selected, version |-> l.version]
              /\ [l EXCEPT !.selected = n] = [bundle |-> l.bundle, step |-> l.step,
                                              run |-> l.run, selected |-> n,
                                              version |-> l.version]
              /\ [l EXCEPT !.version = n] = [bundle |-> l.bundle, step |-> l.step,
                                             run |-> l.run, selected |-> l.selected,
                                             version |-> n]
  BY DEF Locals

LEMMA LocalTypes ==
  ASSUME NEW l \in Locals
  PROVE  /\ \A b \in BundleIds : [l EXCEPT !.bundle = b] \in Locals
         /\ \A n \in Nat : /\ [l EXCEPT !.run = n] \in Locals
                           /\ [l EXCEPT !.selected = n] \in Locals
                           /\ [l EXCEPT !.version = n] \in Locals
         /\ \A n \in 1..3 : [l EXCEPT !.step = n] \in Locals
         /\ NoLocals \in Locals
  BY DEF Locals, NoLocals

------------------------------------------------------------------------------
(* Type correctness.                                                       *)

LEMMA TypeInit == Init => Typed
  BY EmptySeq DEF Init, Typed, PcStates, Locals, NoLocals, Active, Ended

(* The locals of the attempt that moves, and of it alone, may change. *)
LEMMA TypeLocal ==
  ASSUME Typed, NEW a \in Attempts, NEW to \in PcStates, NEW l \in Locals,
         to \in {"idle"} \cup Ended \/ l.bundle \in BundleIds,
         pc' = [pc EXCEPT ![a] = to], local' = [local EXCEPT ![a] = l]
  PROVE  /\ pc' \in [Attempts -> PcStates]
         /\ local' \in [Attempts -> Locals]
         /\ (\A b \in Active : Bundle(b) \in BundleIds)'
  BY DEF Typed, Active, Bundle

LEMMA TypeEnd ==
  ASSUME Typed, NEW a \in Attempts, Raise(a) \/ Return(a)
  PROVE  /\ pc' \in [Attempts -> PcStates]
         /\ local' \in [Attempts -> Locals]
         /\ (\A b \in Active : Bundle(b) \in BundleIds)'
<1>1. NoLocals \in Locals
  BY DEF NoLocals, Locals
<1>2. PICK to \in Ended : pc' = [pc EXCEPT ![a] = to] /\ local' = [local EXCEPT ![a] = NoLocals]
  BY DEF Raise, Return, End, Goto, Ended
<1>3. to \in PcStates
  BY <1>2 DEF PcStates
<1> QED BY <1>1, <1>2, <1>3, TypeLocal

LEMMA TypeRoleLogged ==
  ASSUME Typed, NEW a \in Attempts, pc[a] \in {"logging", "uploading"},
         NEW i \in Nat, RoleLogged(a, i)
  PROVE  /\ pc' \in [Attempts -> PcStates]
         /\ local' \in [Attempts -> Locals]
         /\ (\A b \in Active : Bundle(b) \in BundleIds)'
<1> DEFINE l == local[a]
           found == [l EXCEPT !.selected = IF Role(a) = l.bundle.role THEN i ELSE @]
<1>1. l \in Locals /\ l.bundle \in BundleIds
  BY DEF Typed, Active, Ended, Bundle
<1>2. found \in Locals /\ found.bundle = l.bundle /\ found.step = l.step
  BY <1>1 DEF Locals
<1>3. CASE l.step < Len(ModelRoles)
  <2>1. [found EXCEPT !.step = @ + 1] \in Locals
        /\ [found EXCEPT !.step = @ + 1].bundle = l.bundle
    <3>1. l.step \in 1..3 /\ l.step + 1 \in 1..3
      BY <1>1, <1>3, RoleNames DEF Locals
    <3> HIDE DEF found, l
    <3> QED BY <1>2, <3>1 DEF Locals
  <2>2. /\ pc' = [pc EXCEPT ![a] = "logging"]
        /\ local' = [local EXCEPT ![a] = [found EXCEPT !.step = @ + 1]]
    BY <1>3 DEF RoleLogged, Goto
  <2> HIDE DEF found, l
  <2> QED BY <1>1, <2>1, <2>2, TypeLocal DEF PcStates
<1>4. CASE l.step >= Len(ModelRoles) /\ l.bundle \in approved
  <2>1. /\ pc' = [pc EXCEPT ![a] = "registering"]
        /\ local' = [local EXCEPT ![a] = found]
    BY <1>1, <1>4, RoleNames DEF RoleLogged, Goto, Locals
  <2> HIDE DEF found, l
  <2> QED BY <1>1, <1>2, <2>1, TypeLocal DEF PcStates
<1>5. CASE l.step >= Len(ModelRoles) /\ l.bundle \notin approved
  <2>1. Return(a)
    BY <1>1, <1>5, RoleNames DEF RoleLogged, Locals
  <2> QED BY <2>1, TypeEnd
<1> QED BY <1>1, <1>3, <1>4, <1>5, RoleNames DEF Locals

LEMMA TypeProceed ==
  ASSUME Typed, NEW a \in Active, NEW to \in PcStates, Proceed(a, to)
  PROVE  /\ pc' \in [Attempts -> PcStates]
         /\ local' \in [Attempts -> Locals]
         /\ (\A b \in Active : Bundle(b) \in BundleIds)'
  BY DEF Proceed, Goto, Typed, Active, Bundle

LEMMA TypeStep == Typed /\ [Next]_vars => Typed'
<1> SUFFICES ASSUME Typed, [Next]_vars
             PROVE  Typed'
  OBVIOUS
<1> DEFINE LocalOK == /\ pc \in [Attempts -> PcStates]
                      /\ local \in [Attempts -> Locals]
                      /\ \A b \in Active : Bundle(b) \in BundleIds
           StoreOK == /\ trained \subseteq BundleIds
                      /\ approved \subseteq trained
                      /\ runs \in Seq(RunRecords)
                      /\ versions \in Seq(VersionRecords)
                      /\ alias \in Nat
<1>0. LocalOK' /\ StoreOK' => Typed'
  BY DEF Typed
<1>1. UNCHANGED storeVars => StoreOK'
  BY DEF storeVars, Typed
<1>2. ASSUME NEW a \in Attempts, NEW d \in Datasets, NEW role \in Roles,
             StartTraining(a, d, role)
      PROVE  Typed'
  <2> DEFINE l == [local[a] EXCEPT !.bundle = [data |-> d, role |-> role, incumbent |-> alias]]
  <2>1. CASE ProductionHasRole(role)
    <3>1. l \in Locals /\ l.bundle \in BundleIds
      BY DEF Typed, Locals, BundleIds
    <3>2. pc' = [pc EXCEPT ![a] = "training"] /\ local' = [local EXCEPT ![a] = l]
      BY <1>2, <2>1 DEF StartTraining, Goto
    <3>3. LocalOK'
      BY <3>1, <3>2, TypeLocal DEF PcStates
    <3> QED BY <1>0, <1>1, <1>2, <3>3 DEF StartTraining
  <2>2. CASE ~ProductionHasRole(role)
    BY <1>0, <1>1, <1>2, <2>2, TypeEnd DEF StartTraining
  <2> QED BY <2>1, <2>2
<1>3. ASSUME NEW a \in Attempts, NEW b \in trained, StartRepublication(a, b)
      PROVE  Typed'
  <2> DEFINE l == [local[a] EXCEPT !.bundle = b]
  <2>1. l \in Locals /\ l.bundle \in BundleIds
    BY DEF Typed, Locals
  <2>2. pc' = [pc EXCEPT ![a] = "logging"] /\ local' = [local EXCEPT ![a] = l]
    BY <1>3 DEF StartRepublication, Goto
  <2>3. LocalOK'
    BY <2>1, <2>2, TypeLocal DEF PcStates
  <2> QED BY <1>0, <1>1, <1>3, <2>3 DEF StartRepublication
<1>4. ASSUME NEW a \in Attempts, Train(a)
      PROVE  Typed'
  <2>1. a \in Active /\ Bundle(a) \in BundleIds
    BY <1>4 DEF Train, Typed, Active, Ended
  <2>2. StoreOK'
    BY <1>4, <2>1 DEF Train, Typed
  <2>3. LocalOK'
    BY <1>4, <2>1, TypeProceed, TypeEnd DEF Train, PcStates
  <2> QED BY <1>0, <2>2, <2>3
<1>5. ASSUME NEW a \in Attempts, NEW i \in 1..Len(runs), ReuseRun(a, i)
      PROVE  Typed'
  <2>1. LocalOK'
    BY <1>5, TypeRoleLogged DEF ReuseRun
  <2> QED BY <1>0, <1>1, <1>5, <2>1 DEF ReuseRun
<1>6. ASSUME NEW a \in Attempts, RefuseIncompleteRun(a) \/ Abort(a)
      PROVE  Typed'
  BY <1>0, <1>1, <1>6, TypeEnd DEF RefuseIncompleteRun, Abort
<1>7. ASSUME NEW a \in Attempts, CreateRun(a)
      PROVE  Typed'
  <2> DEFINE l == [local[a] EXCEPT !.run = Len(runs) + 1]
             r == [bundle |-> Bundle(a), role |-> Role(a), status |-> "RUNNING"]
  <2>1. a \in Active /\ local[a] \in Locals /\ Bundle(a) \in BundleIds
    BY <1>7 DEF CreateRun, Typed, Active, Ended
  <2>2. r \in RunRecords
    BY <2>1, RoleNames DEF RunRecords, Role, Locals
  <2>3. l \in Locals /\ l.bundle \in BundleIds
    <3>1. Len(runs) + 1 \in Nat
      BY LenProperties DEF Typed
    <3>2. l \in Locals
      BY <2>1, <3>1, LocalTypes
    <3>3. l.bundle = Bundle(a)
      BY <2>1, <3>1, LocalFields DEF Bundle
    <3> QED BY <2>1, <3>2, <3>3
  <2>4. pc' = [pc EXCEPT ![a] = "uploading"] /\ local' = [local EXCEPT ![a] = l]
    BY <1>7 DEF CreateRun, Goto
  <2>5. LocalOK'
    BY <2>3, <2>4, TypeLocal DEF PcStates
  <2>6. StoreOK'
    BY <1>7, <2>2 DEF CreateRun, Typed
  <2> QED BY <1>0, <2>5, <2>6
<1>8. ASSUME NEW a \in Attempts, FinishRun(a) \/ FailRun(a)
      PROVE  Typed'
  <2>1. a \in Active /\ local[a].run \in Nat
    BY <1>8 DEF FinishRun, FailRun, Typed, Active, Ended, Locals
  <2>2. LocalOK'
    BY <1>8, <2>1, TypeRoleLogged, TypeEnd DEF FinishRun, FailRun
  <2>3. runs' \in Seq(RunRecords)
    <3>1. CASE local[a].run \in 1..Len(runs)
      <4>1. PICK status \in {"FINISHED", "FAILED"} :
              runs' = [runs EXCEPT ![local[a].run].status = status]
        BY <1>8 DEF FinishRun, FailRun, SetTerminated
      <4>2. runs \in Seq(RunRecords)
        BY DEF Typed
      <4> QED BY <3>1, <4>1, <4>2, StatusChange
    <3>2. CASE local[a].run \notin 1..Len(runs)
      BY <1>8, <3>2, LenProperties DEF FinishRun, FailRun, SetTerminated, Typed
    <3> QED BY <3>1, <3>2
  <2>4. StoreOK'
    BY <1>8, <2>3 DEF FinishRun, FailRun, SetTerminated, Typed
  <2> QED BY <1>0, <2>2, <2>4
<1>9. ASSUME NEW a \in Attempts, FindVersion(a)
      PROVE  Typed'
  <2>1. a \in Active /\ local[a] \in Locals /\ Bundle(a) \in BundleIds
    BY <1>9 DEF FindVersion, Typed, Active, Ended
  <2>2. ASSUME NEW v \in VersionOf(a), local' = [local EXCEPT ![a].version = v],
               Goto(a, "advancing")
        PROVE  LocalOK'
    <3> DEFINE l == [local[a] EXCEPT !.version = v]
    <3>1. l \in Locals /\ l.bundle \in BundleIds
      <4>1. v \in Nat
        BY LenProperties DEF Typed, VersionOf
      <4>2. l \in Locals
        BY <2>1, <4>1, LocalTypes
      <4>3. l.bundle = Bundle(a)
        BY <2>1, <4>1, LocalFields DEF Bundle
      <4> QED BY <2>1, <4>2, <4>3
    <3>2. pc' = [pc EXCEPT ![a] = "advancing"] /\ local' = [local EXCEPT ![a] = l]
      BY <2>2 DEF Goto
    <3> QED BY <3>1, <3>2, TypeLocal DEF PcStates
  <2>3. LocalOK'
    BY <1>9, <2>1, <2>2, TypeEnd, TypeProceed DEF FindVersion, PcStates
  <2> QED BY <1>0, <1>1, <1>9, <2>3 DEF FindVersion
<1>10. ASSUME NEW a \in Attempts, FindNoRun(a) \/ CompareIncumbent(a) \/ ReadAlias(a)
       PROVE  Typed'
  <2>1. a \in Active
    BY <1>10 DEF FindNoRun, CompareIncumbent, ReadAlias, Typed, Active, Ended
  <2>2. LocalOK'
    BY <1>10, <2>1, TypeEnd, TypeProceed DEF FindNoRun, CompareIncumbent, ReadAlias, PcStates
  <2> QED BY <1>0, <1>1, <1>10, <2>2 DEF FindNoRun, CompareIncumbent, ReadAlias
<1>11. ASSUME NEW a \in Attempts, CreateVersion(a)
       PROVE  Typed'
  <2> DEFINE l == [local[a] EXCEPT !.version = Len(versions) + 1]
             v == [bundle |-> Bundle(a), run |-> local[a].selected]
  <2>1. a \in Active /\ local[a] \in Locals /\ Bundle(a) \in BundleIds
    BY <1>11 DEF CreateVersion, Typed, Active, Ended
  <2>2. v \in VersionRecords
    BY <2>1 DEF VersionRecords, Locals
  <2>3. l \in Locals /\ l.bundle \in BundleIds
    <3>1. Len(versions) + 1 \in Nat
      BY LenProperties DEF Typed
    <3>2. l \in Locals
      BY <2>1, <3>1, LocalTypes
    <3>3. l.bundle = Bundle(a)
      BY <2>1, <3>1, LocalFields DEF Bundle
    <3> QED BY <2>1, <3>2, <3>3
  <2>4. pc' = [pc EXCEPT ![a] = "advancing"] /\ local' = [local EXCEPT ![a] = l]
    BY <1>11 DEF CreateVersion, Goto
  <2>5. LocalOK'
    BY <2>3, <2>4, TypeLocal DEF PcStates
  <2>6. StoreOK'
    BY <1>11, <2>2 DEF CreateVersion, Typed
  <2> QED BY <1>0, <2>5, <2>6
<1>12. ASSUME NEW a \in Attempts, SetAlias(a)
       PROVE  Typed'
  <2>1. local[a].version \in Nat
    BY DEF Typed, Locals
  <2>2. LocalOK'
    BY <1>12, TypeEnd DEF SetAlias
  <2>3. StoreOK'
    BY <1>12, <2>1 DEF SetAlias, Typed
  <2> QED BY <1>0, <2>2, <2>3
<1>13. CASE UNCHANGED vars
  <2>1. LocalOK'
    BY <1>13 DEF vars, Typed, Active, Bundle
  <2> QED BY <1>0, <1>1, <1>13, <2>1 DEF vars
<1> HIDE DEF LocalOK, StoreOK
<1>14. ASSUME NEW a \in Attempts,
              \/ \E d \in Datasets, role \in Roles : StartTraining(a, d, role)
              \/ \E b \in trained : StartRepublication(a, b)
              \/ Train(a)
              \/ \E i \in 1..Len(runs) : ReuseRun(a, i)
              \/ RefuseIncompleteRun(a) \/ FindNoRun(a)
              \/ CreateRun(a) \/ FinishRun(a) \/ FailRun(a)
              \/ FindVersion(a) \/ CompareIncumbent(a) \/ CreateVersion(a)
              \/ ReadAlias(a) \/ SetAlias(a) \/ Abort(a)
       PROVE  Typed'
  BY <1>2, <1>3, <1>4, <1>5, <1>6, <1>7, <1>8, <1>9, <1>10, <1>11, <1>12, <1>14
<1> QED BY <1>13, <1>14, NextCases

(* The type invariant of the registry, the bundle store and the attempts. *)
THEOREM TypeCorrect == Spec => []TypeOK
<1> DEFINE Inv == Typed /\ limit \in 1..MaxActive
<1>1. Init => Inv
  BY TypeInit DEF Init
<1>2. Inv /\ [Next]_vars => Inv'
  BY TypeStep, LimitStep
<1>3. Inv => TypeOK
  BY DEF TypeOK
<1> HIDE DEF Inv
<1> QED BY <1>1, <1>2, <1>3, PTL DEF Spec

------------------------------------------------------------------------------
(* What may be registered, for any overlap of attempts.  An attempt that   *)
(* registers holds the evidence OnlyApprovedIsRegistered asks for, and     *)
(* evidence is never lost: a FINISHED run is not changed again, because    *)
(* the one attempt that changes a run is the one that created it, and it   *)
(* changes it once.                                                        *)

Registering == {"registering", "comparing", "creating", "advancing", "setting"}

IsLogged(b, i) == \E j \in 1..Len(runs) : runs[j] = FinishedRun(b, ModelRoles[i])
IsSelected(b, j) == j \in 1..Len(runs) /\ runs[j] = FinishedRun(b, b.role)

Evidence(b, j) == /\ b \in approved
                  /\ IsSelected(b, j)
                  /\ \A i \in 1..3 : IsLogged(b, i)

Uploads(a) == pc[a] = "uploading" =>
  /\ local[a].run \in 1..Len(runs)
  /\ runs[local[a].run] = [bundle |-> Bundle(a), role |-> Role(a), status |-> "RUNNING"]

OwnRun(a, b) == (pc[a] = "uploading" /\ pc[b] = "uploading" /\ a # b)
                  => local[a].run # local[b].run

Logs(a) ==
  /\ pc[a] \in {"idle", "training"} => local[a].step = 1
  /\ pc[a] \in {"logging", "starting", "uploading"} =>
       \A i \in 1..3 : i < local[a].step =>
         /\ IsLogged(Bundle(a), i)
         /\ ModelRoles[i] = Bundle(a).role => IsSelected(Bundle(a), local[a].selected)
  /\ pc[a] \in Registering => Evidence(Bundle(a), local[a].selected)

EvidenceInv ==
  /\ \A a \in Attempts : Uploads(a) /\ Logs(a)
  /\ \A a, b \in Attempts : OwnRun(a, b)
  /\ \A v \in 1..Len(versions) : Evidence(versions[v].bundle, versions[v].run)

(* Nothing that counts as evidence is lost by a step. *)
EvidenceKept ==
  /\ approved \subseteq approved'
  /\ \A j \in 1..Len(runs) :
       runs[j].status = "FINISHED" => j \in 1..Len(runs)' /\ runs'[j] = runs[j]

LEMMA StoreKept == ASSUME UNCHANGED storeVars PROVE EvidenceKept
  BY DEF storeVars, EvidenceKept

LEMMA FactsKept ==
  ASSUME EvidenceKept, NEW b, NEW j
  PROVE  /\ \A i \in 1..3 : IsLogged(b, i) => IsLogged(b, i)'
         /\ IsSelected(b, j) => IsSelected(b, j)'
         /\ Evidence(b, j) => Evidence(b, j)'
<1>1. ASSUME NEW i \in 1..3, IsLogged(b, i)
      PROVE  IsLogged(b, i)'
  BY <1>1 DEF IsLogged, FinishedRun, EvidenceKept
<1>2. IsSelected(b, j) => IsSelected(b, j)'
  BY DEF IsSelected, FinishedRun, EvidenceKept
<1> QED BY <1>1, <1>2 DEF Evidence, EvidenceKept

(* An attempt that does not move keeps what it has. *)
LEMMA OthersKeep ==
  ASSUME EvidenceKept, Typed, NEW a \in Attempts, Logs(a),
         pc'[a] = pc[a], local'[a] = local[a]
  PROVE  Logs(a)'
  BY FactsKept DEF Logs, Bundle

LEMMA EvidenceInit == Init => EvidenceInv
  BY DEF Init, EvidenceInv, Uploads, OwnRun, Logs, Registering, NoLocals

(* Logging a role as a FINISHED run i adds its evidence. *)
LEMMA RoleEvidence ==
  ASSUME Typed, EvidenceKept, approved' = approved,
         NEW a \in Attempts, Logs(a), pc[a] \in {"logging", "uploading"},
         NEW i \in Nat, i \in 1..Len(runs)', runs'[i] = FinishedRun(Bundle(a), Role(a)),
         RoleLogged(a, i)
  PROVE  Logs(a)' /\ pc'[a] # "uploading"
<1>1. PICK b, s, chosen, found :
        /\ b = Bundle(a)
        /\ s = local[a].step
        /\ chosen = IF Role(a) = b.role THEN i ELSE local[a].selected
        /\ found = [local[a] EXCEPT
                      !.selected = IF Role(a) = local[a].bundle.role THEN i ELSE @]
  OBVIOUS
<1>2. b \in BundleIds /\ s \in 1..3 /\ b.role \in {"static", "streaming"}
  BY <1>1, RegistryAssumption DEF Typed, Active, Ended, Bundle, Locals, BundleIds
<1>3. /\ found.bundle = b /\ found.selected = chosen
      /\ [found EXCEPT !.step = @ + 1].bundle = b
      /\ [found EXCEPT !.step = @ + 1].step = s + 1
      /\ [found EXCEPT !.step = @ + 1].selected = chosen
  BY <1>1 DEF Typed, Locals, Bundle
<1>4. ASSUME NEW k \in 1..3, k <= s
      PROVE  IsLogged(b, k)'
  <2>1. CASE k < s
    BY <1>1, <2>1, FactsKept DEF Logs
  <2>2. CASE k = s
    BY <1>1, <2>2 DEF IsLogged, Role, FinishedRun
  <2> QED BY <1>2, <1>4, <2>1, <2>2
<1>5. ASSUME NEW k \in 1..3, k <= s, ModelRoles[k] = b.role
      PROVE  IsSelected(b, chosen)'
  <2>1. CASE k = s
    BY <1>1, <1>5, <2>1 DEF Role, IsSelected, FinishedRun
  <2>2. CASE k < s
    <3>1. Role(a) # b.role
      BY <1>1, <1>2, <1>5, <2>2, RoleNames DEF Role
    <3>2. IsSelected(b, chosen)
      BY <1>1, <1>5, <2>2, <3>1 DEF Logs
    <3> QED BY <3>2, FactsKept
  <2> QED BY <1>2, <1>5, <2>1, <2>2
<1>6. CASE s < Len(ModelRoles)
  <2>1. /\ pc'[a] = "logging"
        /\ local'[a] = [found EXCEPT !.step = @ + 1]
    BY <1>1, <1>6 DEF RoleLogged, Goto, Typed
  <2>2. Bundle(a)' = b /\ local'[a].step = s + 1 /\ local'[a].selected = chosen
    BY <1>3, <2>1 DEF Bundle
  <2>3. \A k \in 1..3 : k < s + 1 => k <= s
    BY <1>2
  <2> QED BY <1>4, <1>5, <2>1, <2>2, <2>3 DEF Logs, Registering
<1>7. CASE s >= Len(ModelRoles) /\ b \in approved
  <2>1. pc'[a] = "registering" /\ local'[a] = found
    BY <1>1, <1>2, <1>7, RoleNames DEF RoleLogged, Goto, Typed, Bundle
  <2>2. Bundle(a)' = b /\ local'[a].selected = chosen
    BY <1>3, <2>1 DEF Bundle
  <2>3. s = 3
    BY <1>2, <1>7, RoleNames
  <2>4. IsSelected(b, chosen)'
    BY <1>2, <1>5, <2>3, RoleNames
  <2>5. Evidence(b, chosen)'
    BY <1>4, <1>7, <2>3, <2>4 DEF Evidence
  <2> QED BY <2>1, <2>2, <2>5 DEF Logs, Registering
<1>8. CASE s >= Len(ModelRoles) /\ b \notin approved
  <2>1. pc'[a] = "returned"
    BY <1>1, <1>2, <1>8, RoleNames DEF RoleLogged, Return, End, Goto, Typed, Bundle
  <2> QED BY <2>1 DEF Logs, Registering
<1> QED BY <1>2, <1>6, <1>7, <1>8, RoleNames

(* The action of one attempt, and what it leaves to the others. *)
Acts(a) ==
  \/ \E d \in Datasets, role \in Roles : StartTraining(a, d, role)
  \/ \E b \in trained : StartRepublication(a, b)
  \/ Train(a)
  \/ \E i \in 1..Len(runs) : ReuseRun(a, i)
  \/ RefuseIncompleteRun(a) \/ FindNoRun(a)
  \/ CreateRun(a) \/ FinishRun(a) \/ FailRun(a)
  \/ FindVersion(a) \/ CompareIncumbent(a) \/ CreateVersion(a)
  \/ ReadAlias(a) \/ SetAlias(a) \/ Abort(a)

Alone(a) == \A o \in Attempts : o # a => pc'[o] = pc[o] /\ local'[o] = local[o]

LEMMA RoleLoggedAlone ==
  ASSUME Typed, NEW a \in Attempts, NEW i, RoleLogged(a, i)
  PROVE  Alone(a)
  BY DEF RoleLogged, Return, End, Goto, Alone, Typed

LEMMA ActsAlone ==
  ASSUME Typed, NEW a \in Attempts, Acts(a)
  PROVE  Alone(a)
<1> USE DEF Alone, Typed, Goto, Proceed, Raise, Return, End
<1>1. CASE \/ \E d \in Datasets, role \in Roles : StartTraining(a, d, role)
           \/ \E b \in trained : StartRepublication(a, b)
           \/ Train(a)
  BY <1>1 DEF StartTraining, StartRepublication, Train
<1>2. CASE (\E i \in 1..Len(runs) : ReuseRun(a, i)) \/ FinishRun(a)
  BY <1>2, RoleLoggedAlone DEF ReuseRun, FinishRun
<1>3. CASE RefuseIncompleteRun(a) \/ FindNoRun(a) \/ CreateRun(a) \/ FailRun(a) \/ Abort(a)
  BY <1>3 DEF RefuseIncompleteRun, FindNoRun, CreateRun, FailRun, Abort
<1>4. CASE FindVersion(a) \/ CompareIncumbent(a) \/ CreateVersion(a)
           \/ ReadAlias(a) \/ SetAlias(a)
  BY <1>4 DEF FindVersion, CompareIncumbent, CreateVersion, ReadAlias, SetAlias
<1> QED BY <1>1, <1>2, <1>3, <1>4 DEF Acts

(* A step that leaves the runs alone, by an attempt that is not uploading  *)
(* afterwards, keeps every upload.                                         *)
LEMMA UploadsKept ==
  ASSUME EvidenceInv, NEW a \in Attempts, UNCHANGED runs, pc'[a] # "uploading", Alone(a)
  PROVE  /\ \A o \in Attempts : Uploads(o)'
         /\ \A o, q \in Attempts : OwnRun(o, q)'
<1>1. ASSUME NEW o \in Attempts
      PROVE  Uploads(o)'
  BY <1>1 DEF EvidenceInv, Uploads, Bundle, Role, Alone
<1>2. ASSUME NEW o \in Attempts, NEW q \in Attempts
      PROVE  OwnRun(o, q)'
  BY <1>2 DEF EvidenceInv, OwnRun, Alone
<1> QED BY <1>1, <1>2

(* So such a step keeps the invariant if it keeps its own evidence.        *)
LEMMA QuietStep ==
  ASSUME Typed, EvidenceInv, NEW a \in Attempts, Alone(a), UNCHANGED runs,
         approved \subseteq approved', pc'[a] # "uploading", Logs(a)',
         \/ versions' = versions
         \/ /\ versions' = Append(versions, [bundle |-> Bundle(a), run |-> local[a].selected])
            /\ Evidence(Bundle(a), local[a].selected)
  PROVE  EvidenceInv'
<1>1. EvidenceKept
  BY DEF EvidenceKept
<1>2. \A o \in Attempts : Logs(o)'
  BY <1>1, OthersKeep DEF EvidenceInv, Alone
<1>3. ASSUME NEW v \in 1..Len(versions')
      PROVE  Evidence(versions[v].bundle, versions[v].run)'
  <2>1. PICK w : w = versions'[v]
    OBVIOUS
  <2>2. Evidence(w.bundle, w.run)
    <3>1. CASE versions' = versions
      BY <1>3, <2>1, <3>1 DEF EvidenceInv
    <3>2. CASE /\ versions' = Append(versions, [bundle |-> Bundle(a), run |-> local[a].selected])
               /\ Evidence(Bundle(a), local[a].selected)
      <4>1. versions \in Seq(VersionRecords)
        BY DEF Typed
      <4>2. \/ v \in 1..Len(versions) /\ w = versions[v]
            \/ w = [bundle |-> Bundle(a), run |-> local[a].selected]
        BY <1>3, <2>1, <3>2, <4>1
      <4> QED BY <3>2, <4>2 DEF EvidenceInv
    <3> QED BY <3>1, <3>2
  <2>3. Evidence(w.bundle, w.run)'
    BY <1>1, <2>2, FactsKept
  <2> QED BY <2>1, <2>3
<1> QED BY <1>2, <1>3, UploadsKept DEF EvidenceInv

(* An attempt that ends has nothing left to show. *)
LEMMA EndLogs ==
  ASSUME Typed, NEW a \in Attempts, Raise(a) \/ Return(a)
  PROVE  Logs(a)' /\ pc'[a] # "uploading"
  BY DEF Raise, Return, End, Goto, Typed, Logs, Registering

(* An attempt at the registry keeps its bundle and its selected run. *)
LEMMA RegisteringLogs ==
  ASSUME EvidenceKept, NEW a \in Attempts, Logs(a), pc[a] \in Registering,
         pc'[a] \in Registering,
         local'[a].bundle = local[a].bundle, local'[a].selected = local[a].selected
  PROVE  Logs(a)' /\ pc'[a] # "uploading"
<1>1. Evidence(Bundle(a), local[a].selected)
  BY DEF Logs
<1>2. Evidence(Bundle(a), local[a].selected)'
  <2>1. PICK b, j : b = Bundle(a) /\ j = local[a].selected
    OBVIOUS
  <2>2. Evidence(b, j)'
    BY <1>1, <2>1, FactsKept
  <2> QED BY <2>1, <2>2 DEF Bundle
<1> QED BY <1>2 DEF Logs, Registering

(* An attempt whose first role is still to be logged. *)
LEMMA FreshLogs ==
  ASSUME NEW a \in Attempts, pc'[a] \in {"training", "logging"}, local'[a].step = 1
  PROVE  Logs(a)' /\ pc'[a] # "uploading"
  BY DEF Logs, Registering

LEMMA QuietActs ==
  ASSUME Typed, EvidenceInv, NEW a \in Attempts, Acts(a), ~CreateRun(a), ~FinishRun(a),
         ~FailRun(a)
  PROVE  EvidenceInv'
<1>1. Alone(a) /\ Logs(a) /\ local[a] \in Locals /\ local \in [Attempts -> Locals]
      /\ pc \in [Attempts -> PcStates]
  BY ActsAlone DEF EvidenceInv, Typed
<1>2. ASSUME UNCHANGED storeVars, Logs(a)', pc'[a] # "uploading"
      PROVE  EvidenceInv'
  BY <1>1, <1>2, QuietStep DEF storeVars
<1>3. ASSUME NEW d \in Datasets, NEW role \in Roles, StartTraining(a, d, role)
      PROVE  EvidenceInv'
  <2>1. CASE ProductionHasRole(role)
    <3>1. pc'[a] = "training" /\ local'[a].step = 1
      BY <1>1, <1>3, <2>1 DEF StartTraining, Goto, Logs, Locals
    <3> QED BY <1>2, <1>3, <3>1, FreshLogs DEF StartTraining
  <2>2. CASE ~ProductionHasRole(role)
    BY <1>2, <1>3, <2>2, EndLogs DEF StartTraining
  <2> QED BY <2>1, <2>2
<1>4. ASSUME NEW b \in trained, StartRepublication(a, b)
      PROVE  EvidenceInv'
  <2>1. pc'[a] = "logging" /\ local'[a].step = 1
    BY <1>1, <1>4 DEF StartRepublication, Goto, Logs, Locals
  <2> QED BY <1>2, <1>4, <2>1, FreshLogs DEF StartRepublication
<1>5. CASE Train(a)
  <2>1. Logs(a)' /\ pc'[a] # "uploading"
    <3>1. CASE SameHoldout(Bundle(a))
      <4>1. pc'[a] = "logging" /\ local'[a].step = 1
        BY <1>1, <1>5, <3>1 DEF Train, Proceed, Goto, Logs
      <4> QED BY <4>1, FreshLogs
    <3>2. CASE ~SameHoldout(Bundle(a))
      BY <1>5, <3>2, EndLogs DEF Train
    <3> QED BY <3>1, <3>2
  <2>2. UNCHANGED <<runs, versions>> /\ approved \subseteq approved'
    BY <1>5 DEF Train
  <2> QED BY <1>1, <2>1, <2>2, QuietStep
<1>6. ASSUME NEW i \in 1..Len(runs), ReuseRun(a, i)
      PROVE  EvidenceInv'
  <2>1. runs'[i] = FinishedRun(Bundle(a), Role(a))
    <3>1. runs[i] \in RunRecords
      BY ElementOfSeq DEF Typed
    <3> QED BY <1>6, <3>1 DEF ReuseRun, Matching, FinishedRun, RunRecords, storeVars
  <2>2. EvidenceKept
    BY <1>6, StoreKept DEF ReuseRun
  <2>3. Logs(a)' /\ pc'[a] # "uploading"
    <3>1. i \in Nat /\ i \in 1..Len(runs)' /\ approved' = approved
      BY <1>6 DEF ReuseRun, storeVars
    <3> QED BY <1>1, <1>6, <2>1, <2>2, <3>1, RoleEvidence DEF ReuseRun
  <2> QED BY <1>2, <1>6, <2>3 DEF ReuseRun
<1>7. CASE RefuseIncompleteRun(a) \/ Abort(a)
  BY <1>2, <1>7, EndLogs DEF RefuseIncompleteRun, Abort
<1>8. CASE FindVersion(a) \/ CompareIncumbent(a) \/ ReadAlias(a)
  <2>1. UNCHANGED storeVars /\ pc[a] \in Registering
    BY <1>8 DEF FindVersion, CompareIncumbent, ReadAlias, Registering
  <2>2. \/ Raise(a) \/ Return(a)
        \/ /\ pc'[a] \in Registering
           /\ local'[a].bundle = local[a].bundle /\ local'[a].selected = local[a].selected
    BY <1>1, <1>8 DEF FindVersion, CompareIncumbent, ReadAlias, Proceed, Goto,
                      Registering, Locals
  <2> QED BY <1>1, <1>2, <2>1, <2>2, StoreKept, EndLogs, RegisteringLogs
<1>9. CASE CreateVersion(a)
  <2>1. EvidenceKept /\ UNCHANGED runs /\ approved \subseteq approved'
    BY <1>9 DEF CreateVersion, EvidenceKept
  <2>2. /\ pc[a] \in Registering /\ pc'[a] \in Registering
        /\ local'[a].bundle = local[a].bundle /\ local'[a].selected = local[a].selected
    BY <1>1, <1>9 DEF CreateVersion, Goto, Registering, Locals
  <2>3. Logs(a)' /\ pc'[a] # "uploading"
    BY <1>1, <2>1, <2>2, RegisteringLogs
  <2>4. Evidence(Bundle(a), local[a].selected)
    BY <1>1, <2>2 DEF Logs
  <2>5. versions' = Append(versions, [bundle |-> Bundle(a), run |-> local[a].selected])
    BY <1>9 DEF CreateVersion
  <2> QED BY <1>1, <2>1, <2>3, <2>4, <2>5, QuietStep
<1>10. CASE SetAlias(a)
  <2>1. UNCHANGED <<approved, runs, versions>> /\ Return(a)
    BY <1>10 DEF SetAlias
  <2> QED BY <1>1, <2>1, EndLogs, QuietStep
<1>11. CASE FindNoRun(a)
  <2>1. /\ pc[a] = "logging" /\ pc'[a] = "starting" /\ UNCHANGED storeVars
        /\ local' = local
    BY <1>1, <1>11 DEF FindNoRun, Proceed, Goto
  <2>2. Logs(a)'
    BY <1>1, <2>1 DEF Logs, Registering, Bundle, IsLogged, IsSelected, storeVars
  <2> QED BY <1>2, <2>1, <2>2
<1> QED BY <1>3, <1>4, <1>5, <1>6, <1>7, <1>8, <1>9, <1>10, <1>11 DEF Acts

(* The versions keep their evidence through a step that leaves them alone. *)
LEMMA VersionsKeep ==
  ASSUME EvidenceKept, EvidenceInv, UNCHANGED versions
  PROVE  \A v \in 1..Len(versions)' : Evidence(versions[v].bundle, versions[v].run)'
<1>1. ASSUME NEW v \in 1..Len(versions')
      PROVE  Evidence(versions[v].bundle, versions[v].run)'
  <2>1. PICK w : w = versions[v]
    OBVIOUS
  <2>2. Evidence(w.bundle, w.run)'
    BY <1>1, <2>1, FactsKept DEF EvidenceInv
  <2> QED BY <2>1, <2>2
<1> QED BY <1>1

LEMMA CreateRunEvidence ==
  ASSUME Typed, EvidenceInv, NEW a \in Attempts, CreateRun(a)
  PROVE  EvidenceInv'
<1>1. PICK r : r = [bundle |-> Bundle(a), role |-> Role(a), status |-> "RUNNING"]
  OBVIOUS
<1>2. Len(runs) \in Nat /\ runs \in Seq(RunRecords)
  BY LenProperties DEF Typed
<1>3. /\ Len(runs') = Len(runs) + 1
      /\ runs'[Len(runs) + 1] = r
      /\ \A j \in 1..Len(runs) : runs'[j] = runs[j]
  BY <1>1, <1>2 DEF CreateRun
<1>4. Alone(a) /\ UNCHANGED versions
  BY ActsAlone DEF Acts, CreateRun
<1>5. /\ pc[a] = "starting" /\ pc'[a] = "uploading"
      /\ local'[a].run = Len(runs) + 1 /\ local'[a].bundle = local[a].bundle
      /\ local'[a].step = local[a].step /\ local'[a].selected = local[a].selected
  BY DEF CreateRun, Goto, Typed, Locals
<1>6. EvidenceKept
  BY <1>2, <1>3 DEF CreateRun, EvidenceKept
<1>7. Logs(a)'
  <2>1. PICK b, s, j : b = Bundle(a) /\ s = local[a].step /\ j = local[a].selected
    OBVIOUS
  <2>2. ASSUME NEW i \in 1..3, i < s
        PROVE  IsLogged(b, i)' /\ (ModelRoles[i] = b.role => IsSelected(b, j)')
    BY <1>5, <1>6, <2>1, <2>2, FactsKept DEF EvidenceInv, Logs
  <2>3. b = Bundle(a)' /\ s = local'[a].step /\ j = local'[a].selected
    BY <1>5, <2>1 DEF Bundle
  <2> QED BY <1>5, <2>2, <2>3 DEF Logs, Registering
<1>8. ASSUME NEW o \in Attempts
      PROVE  Uploads(o)' /\ Logs(o)'
  <2>1. CASE o = a
    BY <1>1, <1>2, <1>3, <1>5, <1>7, <2>1 DEF Uploads, Bundle, Role
  <2>2. CASE o # a
    <3>1. Uploads(o)'
      BY <1>2, <1>3, <1>4, <2>2 DEF EvidenceInv, Uploads, Bundle, Role, Alone
    <3> QED BY <1>4, <1>6, <2>2, <3>1, OthersKeep DEF EvidenceInv, Alone
  <2> QED BY <2>1, <2>2
<1>9. ASSUME NEW o \in Attempts, NEW q \in Attempts
      PROVE  OwnRun(o, q)'
  <2>1. \A u \in Attempts : u # a /\ pc'[u] = "uploading" =>
           local'[u].run \in 1..Len(runs) /\ pc[u] = "uploading" /\ local'[u] = local[u]
    BY <1>4 DEF Alone, EvidenceInv, Uploads
  <2> QED BY <1>2, <1>5, <2>1 DEF EvidenceInv, OwnRun
<1> QED BY <1>4, <1>6, <1>8, <1>9, VersionsKeep DEF EvidenceInv

(* The run that ends is the attempt's own, and it was RUNNING. *)
LEMMA EndRunEvidence ==
  ASSUME Typed, EvidenceInv, NEW a \in Attempts, FinishRun(a) \/ FailRun(a)
  PROVE  EvidenceInv'
<1>1. PICK i, status :
        /\ i = local[a].run
        /\ status \in {"FINISHED", "FAILED"}
        /\ SetTerminated(a, status)
        /\ FailRun(a) \/ (FinishRun(a) /\ status = "FINISHED")
  BY DEF FinishRun, FailRun
<1>2. /\ pc[a] = "uploading" /\ i \in 1..Len(runs) /\ Logs(a)
      /\ runs[i] = [bundle |-> Bundle(a), role |-> Role(a), status |-> "RUNNING"]
  BY <1>1 DEF FinishRun, FailRun, EvidenceInv, Uploads
<1>3. /\ Len(runs') = Len(runs)
      /\ runs'[i] = [bundle |-> Bundle(a), role |-> Role(a), status |-> status]
      /\ \A j \in 1..Len(runs) : j # i => runs'[j] = runs[j]
  <2>1. runs \in Seq(RunRecords)
    BY DEF Typed
  <2>2. runs' = [runs EXCEPT ![i].status = status]
    BY <1>1 DEF SetTerminated
  <2>3. i \in 1..Len(runs) /\ status \in {"RUNNING", "FINISHED", "FAILED"}
    BY <1>1, <1>2
  <2> QED BY <1>2, <2>1, <2>2, <2>3, StatusChange
<1>4. Alone(a) /\ UNCHANGED versions /\ approved' = approved
  BY ActsAlone DEF Acts, FinishRun, FailRun, SetTerminated
<1>5. EvidenceKept
  BY <1>2, <1>3, <1>4 DEF EvidenceKept
<1>6. Logs(a)' /\ pc'[a] # "uploading"
  <2>1. CASE FailRun(a)
    BY <2>1, EndLogs DEF FailRun
  <2>2. CASE FinishRun(a) /\ status = "FINISHED"
    <3>1. i \in Nat /\ i \in 1..Len(runs)' /\ RoleLogged(a, i)
          /\ runs'[i] = FinishedRun(Bundle(a), Role(a))
      BY <1>1, <1>2, <1>3, <2>2, LenProperties DEF FinishRun, FinishedRun, Typed
    <3> QED BY <1>2, <1>4, <1>5, <3>1, RoleEvidence
  <2> QED BY <1>1, <2>1, <2>2
<1>7. ASSUME NEW o \in Attempts
      PROVE  Uploads(o)' /\ Logs(o)'
  <2>1. CASE o = a
    BY <1>6, <2>1 DEF Uploads
  <2>2. CASE o # a
    <3>1. pc[o] = "uploading" => local[o].run # i
      BY <1>1, <1>2, <2>2 DEF EvidenceInv, OwnRun
    <3>2. Uploads(o)'
      BY <1>3, <1>4, <2>2, <3>1 DEF EvidenceInv, Uploads, Bundle, Role, Alone
    <3> QED BY <1>4, <1>5, <2>2, <3>2, OthersKeep DEF EvidenceInv, Alone
  <2> QED BY <2>1, <2>2
<1>8. ASSUME NEW o \in Attempts, NEW q \in Attempts
      PROVE  OwnRun(o, q)'
  BY <1>4, <1>6 DEF EvidenceInv, OwnRun, Alone
<1> QED BY <1>4, <1>5, <1>7, <1>8, VersionsKeep DEF EvidenceInv

LEMMA NextActs == ASSUME Next PROVE \E a \in Attempts : Acts(a)
  BY NextCases DEF Acts

LEMMA EvidenceStep == Typed /\ EvidenceInv /\ [Next]_vars => EvidenceInv'
<1> SUFFICES ASSUME Typed, EvidenceInv, [Next]_vars
             PROVE  EvidenceInv'
  OBVIOUS
<1>1. CASE Next
  <2>1. PICK a \in Attempts : Acts(a)
    BY <1>1, NextActs
  <2> QED BY <2>1, CreateRunEvidence, EndRunEvidence, QuietActs
<1>2. CASE UNCHANGED vars
  BY <1>2 DEF vars, storeVars, EvidenceInv, Uploads, OwnRun, Logs, Evidence, IsLogged,
              IsSelected, Bundle, Role
<1> QED BY <1>1, <1>2

(* Only a gate-approved bundle whose three roles are logged is registered, *)
(* with the FINISHED run of its role, however attempts fail and overlap.   *)
THEOREM OnlyApprovedCorrect == Spec => []OnlyApprovedIsRegistered
<1>1. EvidenceInv => OnlyApprovedIsRegistered
  BY DEF EvidenceInv, OnlyApprovedIsRegistered, Evidence, IsSelected, IsLogged
<1> QED BY <1>1, TypeInit, TypeStep, EvidenceInit, EvidenceStep, PTL DEF Spec

------------------------------------------------------------------------------
(* What the store never takes back, for any overlap of attempts.           *)

LEMMA HistoryActs ==
  ASSUME Typed, EvidenceInv, NEW a \in Attempts, Acts(a)
  PROVE  HistoryStep
<1>t. /\ runs \in Seq(RunRecords) /\ Len(runs) \in Nat
      /\ versions \in Seq(VersionRecords) /\ Len(versions) \in Nat
  BY LenProperties DEF Typed
<1>1. CASE UNCHANGED storeVars
  BY <1>1 DEF storeVars, HistoryStep
<1>2. CASE Train(a)
  BY <1>2 DEF Train, HistoryStep
<1>3. CASE CreateRun(a)
  <2>1. PICK r : r = [bundle |-> Bundle(a), role |-> Role(a), status |-> "RUNNING"]
    OBVIOUS
  <2>2. runs' = Append(runs, r) /\ UNCHANGED <<trained, approved, versions>>
    BY <1>3, <2>1 DEF CreateRun
  <2>3. Len(runs') = Len(runs) + 1 /\ \A j \in 1..Len(runs) : runs'[j] = runs[j]
    BY <1>t, <2>2
  <2> QED BY <1>t, <2>2, <2>3 DEF HistoryStep
<1>4. CASE FinishRun(a) \/ FailRun(a)
  <2>1. PICK i, status : /\ i = local[a].run /\ status \in {"FINISHED", "FAILED"}
                         /\ SetTerminated(a, status)
    BY <1>4 DEF FinishRun, FailRun
  <2>2. /\ i \in 1..Len(runs)
        /\ runs[i] = [bundle |-> Bundle(a), role |-> Role(a), status |-> "RUNNING"]
    BY <1>4, <2>1 DEF FinishRun, FailRun, EvidenceInv, Uploads
  <2>3. /\ Len(runs') = Len(runs)
        /\ runs'[i] = [bundle |-> Bundle(a), role |-> Role(a), status |-> status]
        /\ \A j \in 1..Len(runs) : j # i => runs'[j] = runs[j]
    <3>1. runs' = [runs EXCEPT ![i].status = status]
      BY <2>1 DEF SetTerminated
    <3> QED BY <1>t, <2>1, <2>2, <3>1, StatusChange
  <2>4. /\ runs[i].status = "RUNNING" /\ runs'[i].status \in {"FINISHED", "FAILED"}
        /\ runs'[i].bundle = runs[i].bundle /\ runs'[i].role = runs[i].role
    BY <2>1, <2>2, <2>3
  <2> QED BY <2>1, <2>3, <2>4 DEF HistoryStep, SetTerminated
<1>5. CASE CreateVersion(a)
  <2>1. PICK r : r = [bundle |-> Bundle(a), run |-> local[a].selected]
    OBVIOUS
  <2>2. versions' = Append(versions, r) /\ UNCHANGED <<trained, approved, runs>>
    BY <1>5, <2>1 DEF CreateVersion
  <2>3. Len(versions') = Len(versions) + 1 /\ \A v \in 1..Len(versions) : versions'[v] = versions[v]
    BY <1>t, <2>2
  <2> QED BY <1>t, <2>2, <2>3 DEF HistoryStep
<1>6. CASE SetAlias(a)
  BY <1>6 DEF SetAlias, HistoryStep
<1> QED BY <1>1, <1>2, <1>3, <1>4, <1>5, <1>6
        DEF Acts, StartTraining, StartRepublication, ReuseRun, RefuseIncompleteRun, FindNoRun,
            FindVersion, CompareIncumbent, ReadAlias, Abort

(* The history, for any number of attempts at the same time. *)
THEOREM HistoryCorrect == Spec => HistoryIsKept
<1>1. Typed /\ EvidenceInv /\ [Next]_vars => [HistoryStep]_vars
  BY NextActs, HistoryActs
<1> HIDE DEF HistoryStep
<1> QED BY <1>1, TypeInit, TypeStep, EvidenceInit, EvidenceStep, PTL DEF Spec, HistoryIsKept

(* What the alias may name, and what a version may have been compared      *)
(* with: an attempt that advances the alias holds a version of its own     *)
(* bundle, and every incumbent was registered before it was read.          *)
Holds(a) ==
  /\ a \in Active => Bundle(a).incumbent \in 0..Len(versions)
  /\ pc[a] \in {"advancing", "setting"} =>
       /\ local[a].version \in 1..Len(versions)
       /\ versions[local[a].version].bundle = Bundle(a)

ChainInv ==
  /\ alias \in 0..Len(versions)
  /\ \A b \in trained : b.incumbent \in 0..Len(versions)
  /\ \A v \in 1..Len(versions) : versions[v].bundle.incumbent \in 0..(v - 1)
  /\ \A a \in Attempts : Holds(a)

LEMMA ChainInit == Init => ChainInv
  BY DEF Init, ChainInv, Holds, Active

(* Versions are only added. *)
LEMMA VersionsGrow ==
  ASSUME Typed, Typed', HistoryStep
  PROVE  /\ 0..Len(versions) \subseteq 0..Len(versions')
         /\ \A v \in 1..Len(versions) : v \in 1..Len(versions') /\ versions'[v] = versions[v]
<1>1. Len(versions) \in Nat /\ Len(versions') \in Nat
  BY LenProperties DEF Typed
<1>2. \A v \in 1..Len(versions) : v \in 1..Len(versions') /\ versions'[v] = versions[v]
  BY DEF HistoryStep
<1>3. Len(versions) <= Len(versions')
  BY <1>1, <1>2
<1> QED BY <1>1, <1>2, <1>3

(* What an attempt holds is not lost as it goes on, or as others act.      *)
LEMMA HoldsKept ==
  ASSUME Typed, Typed', HistoryStep, NEW a \in Attempts, Holds(a),
         local'[a].bundle = local[a].bundle, local'[a].version = local[a].version,
         pc'[a] \notin {"idle"} \cup Ended => pc[a] \notin {"idle"} \cup Ended,
         pc'[a] \in {"advancing", "setting"} => pc[a] \in {"advancing", "setting"}
  PROVE  Holds(a)'
  BY VersionsGrow DEF Holds, Active, Bundle

LEMMA ChainActs ==
  ASSUME Typed, Typed', EvidenceInv, ChainInv, NEW a \in Attempts, Acts(a)
  PROVE  ChainInv'
<1>t. /\ local \in [Attempts -> Locals] /\ pc \in [Attempts -> PcStates]
      /\ versions \in Seq(VersionRecords) /\ Len(versions) \in Nat
      /\ Holds(a) /\ Alone(a) /\ HistoryStep
  BY LenProperties, ActsAlone, HistoryActs DEF Typed, ChainInv
<1>o. \A o \in Attempts : o # a => Holds(o)'
  BY <1>t, HoldsKept DEF ChainInv, Alone
<1>g. /\ 0..Len(versions) \subseteq 0..Len(versions')
      /\ \A v \in 1..Len(versions) : v \in 1..Len(versions') /\ versions'[v] = versions[v]
  BY <1>t, VersionsGrow
<1>e. ASSUME Raise(a) \/ Return(a)
      PROVE  Holds(a)'
  <2>1. pc'[a] \in Ended
    BY <1>e, <1>t DEF Raise, Return, End, Goto, Ended
  <2> QED BY <2>1 DEF Holds, Active, Ended
<1>1. ASSUME UNCHANGED <<trained, versions, alias>>, Holds(a)'
      PROVE  ChainInv'
  BY <1>1, <1>o DEF ChainInv
<1>2. ASSUME pc[a] \in PcStates \ ({"idle"} \cup Ended), UNCHANGED <<trained, versions, alias>>,
             pc'[a] \in {"advancing", "setting"} => pc[a] \in {"advancing", "setting"},
             local'[a].bundle = local[a].bundle, local'[a].version = local[a].version
      PROVE  ChainInv'
  <2>1. Holds(a)'
    BY <1>2, <1>t, HoldsKept
  <2> QED BY <1>1, <1>2, <2>1
<1>3. ASSUME NEW d \in Datasets, NEW role \in Roles, StartTraining(a, d, role)
      PROVE  ChainInv'
  <2>1. CASE ProductionHasRole(role)
    <3>1. pc'[a] = "training" /\ local'[a].bundle.incumbent = alias /\ UNCHANGED storeVars
      BY <1>3, <1>t, <2>1 DEF StartTraining, Goto, Locals
    <3>2. Holds(a)'
      BY <3>1 DEF Holds, Bundle, ChainInv, storeVars
    <3> QED BY <1>1, <3>1, <3>2 DEF storeVars
  <2>2. CASE ~ProductionHasRole(role)
    BY <1>1, <1>3, <1>e, <2>2 DEF StartTraining, storeVars
  <2> QED BY <2>1, <2>2
<1>4. ASSUME NEW b \in trained, StartRepublication(a, b)
      PROVE  ChainInv'
  <2>1. pc'[a] = "logging" /\ local'[a].bundle = b /\ UNCHANGED storeVars
    BY <1>4, <1>t DEF StartRepublication, Goto, Locals
  <2>2. Holds(a)'
    BY <2>1 DEF Holds, Bundle, ChainInv, storeVars
  <2> QED BY <1>1, <2>1, <2>2 DEF storeVars
<1>5. CASE Train(a)
  <2>1. /\ trained' = trained \cup {Bundle(a)} /\ UNCHANGED <<versions, alias>>
        /\ pc[a] = "training"
    BY <1>5 DEF Train
  <2>2. Bundle(a).incumbent \in 0..Len(versions)
    BY <1>t, <2>1 DEF Holds, Active, Ended
  <2>3. Holds(a)'
    <3>1. CASE SameHoldout(Bundle(a))
      <4>1. pc'[a] = "logging" /\ local' = local
        BY <1>5, <1>t, <3>1 DEF Train, Proceed, Goto
      <4> QED BY <1>t, <2>1, <4>1 DEF Holds, Active, Ended, Bundle
    <3>2. CASE ~SameHoldout(Bundle(a))
      BY <1>5, <1>e, <3>2 DEF Train
    <3> QED BY <3>1, <3>2
  <2> QED BY <1>o, <2>1, <2>2, <2>3 DEF ChainInv
<1>6. ASSUME NEW i, RoleLogged(a, i), pc[a] \in {"logging", "uploading"},
             UNCHANGED <<trained, versions, alias>>
      PROVE  ChainInv'
  <2>1. \/ Return(a)
        \/ /\ pc'[a] \in {"logging", "registering"}
           /\ local'[a].bundle = local[a].bundle /\ local'[a].version = local[a].version
    <3> DEFINE l == local[a]
               found == [l EXCEPT !.selected = IF Role(a) = l.bundle.role THEN i ELSE @]
    <3>1. l \in Locals
      BY <1>t
    <3>2. found.bundle = l.bundle /\ found.version = l.version
          /\ [found EXCEPT !.step = @ + 1].bundle = l.bundle
          /\ [found EXCEPT !.step = @ + 1].version = l.version
      BY <3>1 DEF Locals
    <3>3. CASE l.step < Len(ModelRoles)
      <4>1. pc' = [pc EXCEPT ![a] = "logging"]
            /\ local' = [local EXCEPT ![a] = [found EXCEPT !.step = @ + 1]]
        BY <1>6, <3>3 DEF RoleLogged, Goto
      <4> HIDE DEF found, l
      <4>2. local'[a] = [found EXCEPT !.step = @ + 1] /\ pc'[a] = "logging"
        BY <1>t, <4>1
      <4> QED BY <3>2, <4>2 DEF l
    <3>4. CASE ~(l.step < Len(ModelRoles)) /\ l.bundle \in approved
      <4>1. pc' = [pc EXCEPT ![a] = "registering"] /\ local' = [local EXCEPT ![a] = found]
        BY <1>6, <3>4 DEF RoleLogged, Goto
      <4> HIDE DEF found, l
      <4>2. local'[a] = found /\ pc'[a] = "registering"
        BY <1>t, <4>1
      <4> QED BY <3>2, <4>2 DEF l
    <3>5. CASE ~(l.step < Len(ModelRoles)) /\ l.bundle \notin approved
      BY <1>6, <3>5 DEF RoleLogged
    <3> QED BY <3>3, <3>4, <3>5
  <2> QED BY <1>1, <1>2, <1>6, <1>e, <2>1 DEF PcStates, Ended
<1>7. CASE (\E i \in 1..Len(runs) : ReuseRun(a, i)) \/ FinishRun(a)
  BY <1>6, <1>7 DEF ReuseRun, FinishRun, SetTerminated, storeVars
<1>8. CASE RefuseIncompleteRun(a) \/ FailRun(a) \/ Abort(a)
  BY <1>1, <1>8, <1>e DEF RefuseIncompleteRun, FailRun, Abort, SetTerminated, storeVars
<1>9. CASE FindNoRun(a) \/ CreateRun(a)
  <2>1. /\ pc[a] \in {"logging", "starting"} /\ pc'[a] \in {"starting", "uploading"}
        /\ local'[a].bundle = local[a].bundle /\ local'[a].version = local[a].version
        /\ UNCHANGED <<trained, versions, alias>>
    BY <1>9, <1>t DEF FindNoRun, CreateRun, Proceed, Goto, Locals, storeVars
  <2> QED BY <1>2, <2>1 DEF PcStates, Ended
<1>10. CASE FindVersion(a)
  <2>1. pc[a] = "registering" /\ UNCHANGED storeVars
    BY <1>10 DEF FindVersion
  <2>2. CASE Raise(a)
    BY <1>1, <1>e, <2>1, <2>2 DEF storeVars
  <2>3. CASE Proceed(a, "comparing")
    <3>1. pc'[a] = "comparing" /\ local' = local
      BY <1>t, <2>3 DEF Proceed, Goto
    <3> QED BY <1>2, <2>1, <3>1 DEF PcStates, Ended, storeVars
  <2>4. ASSUME NEW v \in VersionOf(a), local' = [local EXCEPT ![a].version = v],
               Goto(a, "advancing")
        PROVE  ChainInv'
    <3>1. /\ pc'[a] = "advancing" /\ local'[a].version = v
          /\ local'[a].bundle = local[a].bundle
      BY <1>t, <2>4 DEF Goto, Locals
    <3>2. v \in 1..Len(versions) /\ versions[v].bundle = Bundle(a)
      BY <2>4 DEF VersionOf
    <3>3. Bundle(a).incumbent \in 0..Len(versions)
      BY <1>t, <2>1 DEF Holds, Active, Ended
    <3>4. Holds(a)'
      BY <2>1, <3>1, <3>2, <3>3 DEF Holds, Bundle, storeVars
    <3> QED BY <1>1, <2>1, <3>4 DEF storeVars
  <2> QED BY <1>10, <2>2, <2>3, <2>4 DEF FindVersion
<1>11. CASE CompareIncumbent(a)
  <2>1. /\ pc[a] = "comparing" /\ UNCHANGED storeVars
        /\ Raise(a) \/ (pc'[a] = "creating" /\ local' = local)
    BY <1>11, <1>t DEF CompareIncumbent, Proceed, Goto
  <2> QED BY <1>1, <1>2, <1>e, <2>1 DEF PcStates, Ended, storeVars
<1>12. CASE CreateVersion(a)
  <2>1. PICK r : r = [bundle |-> Bundle(a), run |-> local[a].selected]
    OBVIOUS
  <2>2. /\ pc[a] = "creating" /\ versions' = Append(versions, r) /\ r.bundle = Bundle(a)
        /\ UNCHANGED <<trained, alias>>
        /\ pc'[a] = "advancing" /\ local'[a].version = Len(versions) + 1
        /\ local'[a].bundle = local[a].bundle
    BY <1>12, <1>t, <2>1 DEF CreateVersion, Goto, Locals
  <2>3. /\ Len(versions') = Len(versions) + 1 /\ versions'[Len(versions) + 1] = r
        /\ \A v \in 1..Len(versions) : versions'[v] = versions[v]
    BY <1>t, <2>2
  <2>4. Bundle(a).incumbent \in 0..Len(versions)
    BY <1>t, <2>2 DEF Holds, Active, Ended
  <2>5. Holds(a)'
    <3>1. Bundle(a)' = Bundle(a)
      BY <2>2 DEF Bundle
    <3>2. Len(versions) + 1 \in 1..Len(versions')
      BY <1>t, <2>3
    <3> QED BY <1>g, <2>2, <2>3, <2>4, <3>1, <3>2 DEF Holds
  <2>6. ASSUME NEW v \in 1..Len(versions')
        PROVE  versions'[v].bundle.incumbent \in 0..(v - 1)
    <3>1. CASE v \in 1..Len(versions)
      BY <2>3, <3>1 DEF ChainInv
    <3>2. CASE v = Len(versions) + 1
      BY <1>t, <2>2, <2>3, <2>4, <3>2
    <3>3. v \in 1..Len(versions) \/ v = Len(versions) + 1
      BY <1>t, <2>3
    <3> QED BY <3>1, <3>2, <3>3
  <2> QED BY <1>g, <1>o, <2>2, <2>5, <2>6 DEF ChainInv
<1>13. CASE ReadAlias(a)
  <2>1. /\ pc[a] = "advancing" /\ UNCHANGED storeVars
        /\ Raise(a) \/ Return(a) \/ (pc'[a] = "setting" /\ local' = local)
    BY <1>13, <1>t DEF ReadAlias, Proceed, Goto
  <2> QED BY <1>1, <1>2, <1>e, <2>1 DEF PcStates, Ended, storeVars
<1>14. CASE SetAlias(a)
  <2>1. /\ pc[a] = "setting" /\ alias' = local[a].version /\ Return(a)
        /\ UNCHANGED <<trained, versions>>
    BY <1>14 DEF SetAlias
  <2>2. local[a].version \in 0..Len(versions)
    BY <1>t, <2>1 DEF Holds
  <2> QED BY <1>e, <1>o, <2>1, <2>2 DEF ChainInv
<1> QED BY <1>3, <1>4, <1>5, <1>7, <1>8, <1>9, <1>10, <1>11, <1>12, <1>13, <1>14 DEF Acts

(* What was measured of a bundle's incumbent stays true of it.             *)
DecisionsInv ==
  \A b \in approved : b.incumbent # 0 => Improves(MaeOf(b), MaeOf(Incumbent(b)))

LEMMA DecisionsStep ==
  ASSUME Typed, Typed', EvidenceInv, ChainInv, DecisionsInv, NEW a \in Attempts, Acts(a)
  PROVE  DecisionsInv'
<1>1. /\ HistoryStep /\ approved \subseteq trained /\ Holds(a)
      /\ \A b \in trained : b.incumbent \in 0..Len(versions)
  BY HistoryActs DEF Typed, ChainInv
<1> SUFFICES ASSUME NEW b \in approved', b.incumbent # 0
             PROVE  Improves(MaeOf(b), MaeOf(versions'[b.incumbent].bundle))
  BY DEF DecisionsInv, Incumbent, MaeOf, Improves
<1>2. b \in approved \/ (Train(a) /\ b = Bundle(a) /\ BeatsProduction(b))
  <2>1. CASE Train(a)
    BY <2>1 DEF Train
  <2>2. CASE \E d \in Datasets, role \in Roles : StartTraining(a, d, role)
    BY <2>2 DEF StartTraining, storeVars
  <2>3. CASE \/ \E c \in trained : StartRepublication(a, c)
             \/ \E i \in 1..Len(runs) : ReuseRun(a, i)
             \/ RefuseIncompleteRun(a) \/ FindNoRun(a)
             \/ CreateRun(a) \/ FinishRun(a) \/ FailRun(a)
    BY <2>3 DEF StartRepublication, ReuseRun, RefuseIncompleteRun, FindNoRun, CreateRun,
                FinishRun, FailRun, SetTerminated, storeVars
  <2>4. CASE FindVersion(a) \/ CompareIncumbent(a) \/ CreateVersion(a)
             \/ ReadAlias(a) \/ SetAlias(a) \/ Abort(a)
    BY <2>4 DEF FindVersion, CompareIncumbent, CreateVersion, ReadAlias, SetAlias, Abort,
                storeVars
  <2> QED BY <2>1, <2>2, <2>3, <2>4 DEF Acts
<1>3. b.incumbent \in 0..Len(versions)
  BY <1>1, <1>2 DEF Train, Holds, Active, Ended
<1>4. Improves(MaeOf(b), MaeOf(Incumbent(b)))
  BY <1>2 DEF DecisionsInv, BeatsProduction
<1>5. versions'[b.incumbent] = versions[b.incumbent]
  BY <1>1, <1>3 DEF HistoryStep
<1> QED BY <1>4, <1>5 DEF Incumbent

(* Approvals, for any number of attempts at the same time. *)
THEOREM ApprovalsCorrect == Spec => []ApprovalsFormAChain
<1>1. Typed /\ Typed' /\ EvidenceInv /\ ChainInv /\ DecisionsInv /\ [Next]_vars
        => ChainInv' /\ DecisionsInv'
  <2> SUFFICES ASSUME Typed, Typed', EvidenceInv, ChainInv, DecisionsInv, [Next]_vars
               PROVE  ChainInv' /\ DecisionsInv'
    OBVIOUS
  <2>1. CASE Next
    BY <2>1, NextActs, ChainActs, DecisionsStep
  <2>2. CASE UNCHANGED vars
    <3>1. ChainInv'
      BY <2>2 DEF vars, storeVars, ChainInv, Holds, Active, Bundle
    <3>2. DecisionsInv'
      BY <2>2 DEF vars, storeVars, DecisionsInv, Incumbent, MaeOf, Improves
    <3> QED BY <3>1, <3>2
  <2> QED BY <2>1, <2>2
<1>2. Init => DecisionsInv
  BY DEF Init, DecisionsInv
<1>3. ChainInv /\ DecisionsInv => ApprovalsFormAChain
  BY DEF ChainInv, DecisionsInv, ApprovalsFormAChain
<1> QED BY <1>1, <1>2, <1>3, TypeInit, TypeStep, EvidenceInit, EvidenceStep, ChainInit, PTL
        DEF Spec

------------------------------------------------------------------------------
(* One attempt at a time.  What an attempt has checked then still holds    *)
(* when it acts on it, and `Progress` says what that is, by where it is.   *)

Passive(a) == pc[a] \in {"idle"} \cup Ended
OneActive == \A a, o \in Attempts : Passive(a) \/ Passive(o) \/ a = o

RunsUnique == \A i, j \in 1..Len(runs) :
  runs[i].bundle = runs[j].bundle /\ runs[i].role = runs[j].role => i = j

(* The incumbent a bundle was compared with is registered. *)
Known(b) == b.incumbent \in 0..Len(versions)

BundlesInv == /\ \A b \in trained : Known(b)
              /\ \A b \in approved : BeatsProduction(b)

OneVersionEach ==
  \A v, w \in 1..Len(versions) : versions[v].bundle = versions[w].bundle => v = w

OneRole ==
  \A v, w \in 1..Len(versions) : versions[v].bundle.role = versions[w].bundle.role

VersionsInv == /\ OneVersionEach
               /\ OneRole
               /\ \A v \in 1..Len(versions) : SameHoldout(versions[v].bundle)

Progress(a) ==
  /\ pc[a] = "training" => Known(Bundle(a))
  /\ pc[a] = "starting" => Matching(a) = {}
  /\ pc[a] \in {"comparing", "creating"} =>
       VersionsHaveRole(Bundle(a).role) /\ VersionOf(a) = {}
  /\ pc[a] = "creating" => Bundle(a).incumbent = alias /\ SameHoldout(Bundle(a))
  /\ pc[a] \in {"advancing", "setting"} =>
       local[a].version \in 1..Len(versions) /\ versions[local[a].version].bundle = Bundle(a)
  /\ pc[a] = "setting" => local[a].version > alias /\ Bundle(a).incumbent = alias

SerialInv ==
  /\ OneActive
  /\ RunsUnique
  /\ alias \in 0..Len(versions)
  /\ BundlesInv
  /\ VersionsInv
  /\ \A a \in Attempts : Progress(a)

LEMMA SerialInit == Init => SerialInv
<1> SUFFICES ASSUME Init PROVE SerialInv
  OBVIOUS
<1>1. \A a \in Attempts : pc[a] = "idle"
  BY DEF Init
<1>2. OneActive /\ \A a \in Attempts : Progress(a)
  BY <1>1 DEF OneActive, Passive, Progress
<1>3. Len(runs) = 0 /\ Len(versions) = 0 /\ alias = 0 /\ trained = {} /\ approved = {}
  BY DEF Init
<1> QED BY <1>2, <1>3 DEF SerialInv, RunsUnique, BundlesInv, VersionsInv,
                          OneVersionEach, OneRole

(* An attempt acts only if the others are passive, and they remain so.     *)
LEMMA OthersPassive ==
  ASSUME limit = 1, Typed, OneActive, NEW a \in Attempts, Acts(a)
  PROVE  /\ \A o \in Attempts \ {a} : Passive(o)
         /\ \A o \in Attempts \ {a} : Passive(o)'
<1>1. \A o \in Attempts \ {a} : Passive(o)
  <2>1. CASE Cardinality(Active) < 1
    <3>1. IsFiniteSet(Active)
      <4>1. IsFiniteSet(Attempts)
        BY Zenon, RegistryAssumption DEF RegistryAssumption
      <4>2. Active \subseteq Attempts
        BY DEF Active
      <4> QED BY <4>1, <4>2, FS_Subset
    <3>2. Cardinality(Active) = 0
      <4>1. Cardinality(Active) \in Nat
        BY <3>1, FS_CardinalityType
      <4> QED BY <2>1, <4>1
    <3>3. Active = {}
      BY <3>1, <3>2, FS_EmptySet
    <3> QED BY <3>3 DEF Active, Passive
  <2>2. CASE ~Passive(a)
    BY <2>2 DEF OneActive
  <2>3. Cardinality(Active) < 1 \/ ~Passive(a)
    <3>1. CASE \/ \E d \in Datasets, role \in Roles : StartTraining(a, d, role)
               \/ \E b \in trained : StartRepublication(a, b)
      BY <3>1 DEF StartTraining, StartRepublication
    <3>2. CASE Train(a) \/ (\E i \in 1..Len(runs) : ReuseRun(a, i)) \/ RefuseIncompleteRun(a)
               \/ FindNoRun(a) \/ CreateRun(a) \/ FinishRun(a) \/ FailRun(a)
      BY <3>2 DEF Train, ReuseRun, RefuseIncompleteRun, FindNoRun, CreateRun, FinishRun,
                  FailRun, Passive, Ended
    <3>3. CASE FindVersion(a) \/ CompareIncumbent(a) \/ CreateVersion(a)
               \/ ReadAlias(a) \/ SetAlias(a)
      BY <3>3 DEF FindVersion, CompareIncumbent, CreateVersion, ReadAlias, SetAlias,
                  Passive, Ended
    <3>4. CASE Abort(a)
      BY <3>4 DEF Abort, Active, Passive
    <3> QED BY <3>1, <3>2, <3>3, <3>4 DEF Acts
  <2> QED BY <2>1, <2>2, <2>3
<1>2. Alone(a)
  BY ActsAlone
<1> QED BY <1>1, <1>2 DEF Alone, Passive

(* A step of a whose own progress is right leaves one attempt active.      *)
LEMMA SerialAttempts ==
  ASSUME limit = 1, Typed, OneActive, NEW a \in Attempts, Acts(a), Progress(a)'
  PROVE  OneActive' /\ \A o \in Attempts : Progress(o)'
<1>1. \A o \in Attempts \ {a} : Passive(o)'
  BY OthersPassive
<1>2. \A o \in Attempts \ {a} : Progress(o)'
  BY <1>1 DEF Progress, Passive, Ended
<1> QED BY <1>1, <1>2 DEF OneActive

(* Bundles and versions are untouched by most steps. *)
LEMMA SerialStore ==
  ASSUME SerialInv, UNCHANGED <<trained, approved, versions>>
  PROVE  BundlesInv' /\ VersionsInv'
<1>1. \A b : /\ Known(b)' <=> Known(b)
             /\ BeatsProduction(b)' <=> BeatsProduction(b)
             /\ SameHoldout(b)' <=> SameHoldout(b)
  BY DEF Known, BeatsProduction, SameHoldout, Incumbent
<1>2. BundlesInv'
  BY <1>1 DEF SerialInv, BundlesInv
<1>3. OneVersionEach' /\ OneRole'
  BY DEF SerialInv, VersionsInv, OneVersionEach, OneRole
<1>4. \A v \in 1..Len(versions)' : SameHoldout(versions[v].bundle)'
  BY DEF SerialInv, VersionsInv, SameHoldout, Incumbent
<1> QED BY <1>2, <1>3, <1>4 DEF VersionsInv

(* An attempt that ends, or that has checked nothing yet, owes nothing.    *)
LEMMA NoProgress ==
  ASSUME NEW a, pc'[a] \in {"logging", "uploading", "registering"} \cup Ended
  PROVE  Progress(a)'
  BY DEF Progress, Ended

LEMMA Ends ==
  ASSUME Typed, NEW a \in Attempts, Raise(a) \/ Return(a)
  PROVE  pc'[a] \in Ended
  BY DEF Raise, Return, End, Goto, Ended, Typed

LEMMA RoleLoggedProgress ==
  ASSUME Typed, NEW a \in Attempts, NEW i, RoleLogged(a, i)
  PROVE  Progress(a)'
<1>1. pc'[a] \in {"logging", "registering"} \cup Ended
  BY Ends DEF RoleLogged, Goto, Typed
<1> QED BY <1>1, NoProgress

(* The steps that change neither bundles, versions nor the alias, and no   *)
(* more of the runs than a status.                                         *)
LEMMA SerialRuns ==
  ASSUME limit = 1, Typed, SerialInv, NEW a \in Attempts, Acts(a), Progress(a)',
         UNCHANGED <<trained, approved, versions, alias>>, RunsUnique'
  PROVE  SerialInv'
<1>1. OneActive' /\ \A o \in Attempts : Progress(o)'
  BY SerialAttempts DEF SerialInv
<1>2. BundlesInv' /\ VersionsInv'
  BY SerialStore
<1>3. (alias \in 0..Len(versions))'
  BY DEF SerialInv
<1> QED BY <1>1, <1>2, <1>3 DEF SerialInv

LEMMA SameRuns == ASSUME RunsUnique, UNCHANGED runs PROVE RunsUnique'
  BY DEF RunsUnique

LEMMA SerialStart ==
  ASSUME limit = 1, Typed, SerialInv, NEW a \in Attempts,
         \/ \E d \in Datasets, role \in Roles : StartTraining(a, d, role)
         \/ \E b \in trained : StartRepublication(a, b)
  PROVE  SerialInv'
<1>1. UNCHANGED storeVars
  BY DEF StartTraining, StartRepublication
<1>2. Progress(a)'
  <2>1. CASE \E b \in trained : StartRepublication(a, b)
    <3>1. pc'[a] = "logging"
      BY <2>1 DEF StartRepublication, Goto, Typed
    <3> QED BY <3>1, NoProgress
  <2>2. ASSUME NEW d \in Datasets, NEW role \in Roles, StartTraining(a, d, role),
               ProductionHasRole(role)
        PROVE  Progress(a)'
    <3>1. pc'[a] = "training"
      BY <2>2 DEF StartTraining, Goto, Typed
    <3>2. Bundle(a)' = [data |-> d, role |-> role, incumbent |-> alias]
      BY <2>2 DEF StartTraining, Bundle, Typed, Locals
    <3>3. Known(Bundle(a))'
      BY <1>1, <3>2 DEF Known, storeVars, SerialInv
    <3> QED BY <3>1, <3>3 DEF Progress
  <2>3. ASSUME NEW d \in Datasets, NEW role \in Roles, StartTraining(a, d, role),
               ~ProductionHasRole(role)
        PROVE  Progress(a)'
    BY <2>3, Ends, NoProgress DEF StartTraining
  <2> QED BY <2>1, <2>2, <2>3
<1>3. Acts(a)
  BY DEF Acts
<1>4. RunsUnique'
  BY <1>1, SameRuns DEF storeVars, SerialInv
<1> QED BY <1>1, <1>2, <1>3, <1>4, SerialRuns DEF storeVars

LEMMA SerialTrain ==
  ASSUME limit = 1, Typed, SerialInv, NEW a \in Attempts, Train(a)
  PROVE  SerialInv'
<1>1. UNCHANGED <<runs, versions, alias>>
  BY DEF Train
<1>2. Progress(a)'
  <2>1. pc'[a] \in {"logging"} \cup Ended
    BY Ends DEF Train, Proceed, Goto, Typed
  <2> QED BY <2>1, NoProgress
<1>3. OneActive' /\ \A o \in Attempts : Progress(o)'
  BY <1>2, SerialAttempts DEF SerialInv, Acts
<1>4. PICK b : /\ b = Bundle(a)
               /\ trained' = trained \cup {b}
               /\ approved' = approved \/ (BeatsProduction(b) /\ approved' = approved \cup {b})
  BY DEF Train
<1>5. Known(b)
  BY <1>4 DEF Train, SerialInv, Progress
<1>6. \A c : (Known(c)' <=> Known(c)) /\ (BeatsProduction(c)' <=> BeatsProduction(c))
  BY <1>1 DEF Known, BeatsProduction, Incumbent
<1>7. BundlesInv'
  BY <1>4, <1>5, <1>6 DEF SerialInv, BundlesInv
<1>8. VersionsInv'
  BY <1>1 DEF SerialInv, VersionsInv, OneVersionEach, OneRole,
              SameHoldout, Incumbent
<1>9. RunsUnique' /\ (alias \in 0..Len(versions))'
  BY <1>1, SameRuns DEF SerialInv
<1> QED BY <1>3, <1>7, <1>8, <1>9 DEF SerialInv

LEMMA SerialLog ==
  ASSUME limit = 1, Typed, EvidenceInv, SerialInv, NEW a \in Attempts,
         \/ \E i \in 1..Len(runs) : ReuseRun(a, i)
         \/ RefuseIncompleteRun(a) \/ FindNoRun(a) \/ CreateRun(a)
         \/ FinishRun(a) \/ FailRun(a) \/ Abort(a)
  PROVE  SerialInv'
<1>0. Acts(a)
  BY DEF Acts
<1>1. UNCHANGED <<trained, approved, versions, alias>>
  BY DEF ReuseRun, RefuseIncompleteRun, FindNoRun, CreateRun, FinishRun, FailRun, Abort,
         SetTerminated, storeVars
<1>2. CASE \/ \E i \in 1..Len(runs) : ReuseRun(a, i)
           \/ RefuseIncompleteRun(a) \/ Abort(a)
  <2>1. Progress(a)'
    BY <1>2, RoleLoggedProgress, Ends, NoProgress DEF ReuseRun, RefuseIncompleteRun, Abort
  <2>2. UNCHANGED runs
    BY <1>2 DEF ReuseRun, RefuseIncompleteRun, Abort, storeVars
  <2> QED BY <1>0, <1>1, <2>1, <2>2, SameRuns, SerialRuns DEF SerialInv
<1>3. CASE FindNoRun(a)
  <2>1. UNCHANGED <<runs, local>> /\ Matching(a) = {} /\ pc'[a] = "starting"
    BY <1>3 DEF FindNoRun, Proceed, Goto, storeVars, Typed
  <2>2. Matching(a)' = {}
    BY <2>1 DEF Matching, Bundle, Role
  <2>3. Progress(a)'
    BY <2>1, <2>2 DEF Progress
  <2> QED BY <1>0, <1>1, <2>1, <2>3, SameRuns, SerialRuns DEF SerialInv
<1>4. CASE CreateRun(a)
  <2>1. PICK r : r = [bundle |-> Bundle(a), role |-> Role(a), status |-> "RUNNING"]
    OBVIOUS
  <2>2. Len(runs) \in Nat /\ runs \in Seq(RunRecords)
    BY LenProperties DEF Typed
  <2>3. /\ Len(runs') = Len(runs) + 1
        /\ runs'[Len(runs) + 1] = r
        /\ \A j \in 1..Len(runs) : runs'[j] = runs[j]
    BY <1>4, <2>1, <2>2 DEF CreateRun
  <2>4. \A j \in 1..Len(runs) : ~(runs[j].bundle = r.bundle /\ runs[j].role = r.role)
    BY <1>4, <2>1 DEF CreateRun, SerialInv, Progress, Matching
  <2>5. RunsUnique'
    BY <2>2, <2>3, <2>4 DEF SerialInv, RunsUnique
  <2>6. pc'[a] = "uploading"
    BY <1>4 DEF CreateRun, Goto, Typed
  <2> QED BY <1>0, <1>1, <2>5, <2>6, NoProgress, SerialRuns
<1>5. CASE FinishRun(a) \/ FailRun(a)
  <2>1. Progress(a)'
    BY <1>5, RoleLoggedProgress, Ends, NoProgress DEF FinishRun, FailRun
  <2>2. PICK i, status : /\ i = local[a].run
                         /\ status \in {"RUNNING", "FINISHED", "FAILED"}
                         /\ runs' = [runs EXCEPT ![i].status = status]
    BY <1>5 DEF FinishRun, FailRun, SetTerminated
  <2>3. /\ i \in 1..Len(runs)
        /\ runs[i] = [bundle |-> Bundle(a), role |-> Role(a), status |-> "RUNNING"]
    BY <1>5, <2>2 DEF FinishRun, FailRun, EvidenceInv, Uploads
  <2>4. /\ Len(runs') = Len(runs)
        /\ runs'[i] = [bundle |-> Bundle(a), role |-> Role(a), status |-> status]
        /\ \A j \in 1..Len(runs) : j # i => runs'[j] = runs[j]
    <3>1. runs \in Seq(RunRecords)
      BY DEF Typed
    <3>2. i \in 1..Len(runs) /\ status \in {"RUNNING", "FINISHED", "FAILED"}
      BY <2>2, <2>3
    <3>3. runs' = [runs EXCEPT ![i].status = status]
      BY <2>2
    <3> QED BY <2>3, <3>1, <3>2, <3>3, StatusChange
  <2>5. \A j \in 1..Len(runs) : runs'[j].bundle = runs[j].bundle /\ runs'[j].role = runs[j].role
    BY <2>3, <2>4
  <2>6. RunsUnique'
    BY <2>4, <2>5 DEF SerialInv, RunsUnique
  <2> QED BY <1>0, <1>1, <2>1, <2>6, SerialRuns
<1> QED BY <1>2, <1>3, <1>4, <1>5

(* An incumbent that is registered stays what it was. *)
LEMMA KnownKept ==
  ASSUME NEW r, versions \in Seq(VersionRecords), r \in VersionRecords,
         versions' = Append(versions, r), NEW b, Known(b)
  PROVE  /\ Known(b)'
         /\ BeatsProduction(b) => BeatsProduction(b)'
         /\ SameHoldout(b) => SameHoldout(b)'
<1>1. /\ Len(versions) \in Nat
      /\ Len(versions') = Len(versions) + 1
      /\ \A v \in 1..Len(versions) : versions'[v] = versions[v]
  OBVIOUS
<1>2. Known(b)'
  BY <1>1 DEF Known
<1>3. b.incumbent # 0 => Incumbent(b)' = Incumbent(b)
  BY <1>1 DEF Known, Incumbent
<1> QED BY <1>2, <1>3 DEF BeatsProduction, SameHoldout

(* A version of the attempt's bundle would have been found. *)
LEMMA NewVersion ==
  ASSUME Typed, EvidenceInv, SerialInv, NEW a \in Attempts, pc[a] = "creating",
         NEW v \in 1..Len(versions)
  PROVE  /\ versions[v].bundle # Bundle(a)
         /\ versions[v].bundle.role = Bundle(a).role
<1>1. versions[v].bundle.role = Bundle(a).role
  BY DEF SerialInv, Progress, VersionsHaveRole
<1>2. ASSUME versions[v].bundle = Bundle(a) PROVE FALSE
  <2>1. PICK i, j, b : i = versions[v].run /\ j = local[a].selected /\ b = Bundle(a)
    OBVIOUS
  <2>2. IsSelected(b, i)
    BY <1>2, <2>1 DEF EvidenceInv, Evidence
  <2>3. IsSelected(b, j)
    BY <2>1 DEF EvidenceInv, Logs, Registering, Evidence
  <2>4. i = j
    BY <2>2, <2>3 DEF IsSelected, FinishedRun, SerialInv, RunsUnique
  <2>5. v \in VersionOf(a)
    BY <1>2, <2>1, <2>4 DEF VersionOf
  <2> QED BY <2>5 DEF SerialInv, Progress
<1> QED BY <1>1, <1>2

LEMMA SerialCreate ==
  ASSUME limit = 1, Typed, EvidenceInv, SerialInv, NEW a \in Attempts, CreateVersion(a)
  PROVE  SerialInv'
<1>1. PICK r : r = [bundle |-> Bundle(a), run |-> local[a].selected]
  OBVIOUS
<1>2. /\ pc[a] = "creating" /\ pc'[a] = "advancing"
      /\ local'[a].version = Len(versions) + 1 /\ local'[a].bundle = local[a].bundle
      /\ versions' = Append(versions, r)
      /\ UNCHANGED <<trained, approved, runs, alias>>
  BY <1>1 DEF CreateVersion, Goto, Typed, Locals
<1>3. versions \in Seq(VersionRecords) /\ r \in VersionRecords
  BY <1>1, <1>2 DEF Typed, Active, Ended, Bundle, VersionRecords, Locals
<1>4. /\ Len(versions) \in Nat
      /\ Len(versions') = Len(versions) + 1
      /\ versions'[Len(versions) + 1] = r
      /\ \A v \in 1..Len(versions) : versions'[v] = versions[v]
  BY <1>2, <1>3
<1>5. r.bundle = Bundle(a)
  BY <1>1
<1>6. Progress(a)'
  BY <1>2, <1>4, <1>5 DEF Progress, Bundle
<1>7. OneActive' /\ \A o \in Attempts : Progress(o)'
  BY <1>6, SerialAttempts DEF SerialInv, Acts
<1>8. BundlesInv'
  <2>1. \A b \in trained : Known(b)'
    BY <1>2, <1>3, KnownKept DEF SerialInv, BundlesInv
  <2>2. \A b \in approved : BeatsProduction(b)'
    BY <1>2, <1>3, KnownKept DEF SerialInv, BundlesInv, Typed
  <2> QED BY <1>2, <2>1, <2>2 DEF BundlesInv
<1>9. OneVersionEach' /\ OneRole'
  <2>1. \A v \in 1..Len(versions) : /\ versions'[v].bundle # r.bundle
                                    /\ versions'[v].bundle.role = r.bundle.role
    BY <1>2, <1>4, <1>5, NewVersion
  <2>2. \A v \in 1..Len(versions') : v \in 1..Len(versions) \/ v = Len(versions) + 1
    BY <1>4
  <2>3. OneVersionEach'
    BY <1>4, <2>1, <2>2 DEF SerialInv, VersionsInv, OneVersionEach
  <2>4. OneRole'
    BY <1>4, <2>1, <2>2 DEF SerialInv, VersionsInv, OneRole
  <2> QED BY <2>3, <2>4
<1>10. ASSUME NEW v \in 1..Len(versions')
       PROVE  SameHoldout(versions[v].bundle)'
  <2>1. PICK b : b = versions'[v].bundle
    OBVIOUS
  <2>2. b \in trained /\ SameHoldout(b)
    <3>1. CASE v \in 1..Len(versions)
      <4>1. b = versions[v].bundle
        BY <1>4, <2>1, <3>1
      <4> QED BY <3>1, <4>1 DEF SerialInv, VersionsInv, EvidenceInv, Evidence, Typed
    <3>2. CASE v = Len(versions) + 1
      <4>1. b = Bundle(a)
        BY <1>4, <1>5, <2>1, <3>2
      <4>2. Bundle(a) \in approved
        BY <1>2 DEF EvidenceInv, Logs, Registering, Evidence
      <4> QED BY <1>2, <4>1, <4>2 DEF SerialInv, Progress, Typed
    <3> QED BY <1>4, <3>1, <3>2
  <2>3. SameHoldout(b)'
    BY <1>2, <1>3, <2>2, KnownKept DEF SerialInv, BundlesInv
  <2> QED BY <2>1, <2>3 DEF SameHoldout, Incumbent
<1>11. RunsUnique' /\ (alias \in 0..Len(versions))'
  BY <1>2, <1>4, SameRuns DEF SerialInv
<1> QED BY <1>7, <1>8, <1>9, <1>10, <1>11 DEF SerialInv, VersionsInv

LEMMA SerialRegister ==
  ASSUME limit = 1, Typed, SerialInv, NEW a \in Attempts,
         FindVersion(a) \/ CompareIncumbent(a) \/ ReadAlias(a)
  PROVE  SerialInv'
<1>1. UNCHANGED storeVars
  BY DEF FindVersion, CompareIncumbent, ReadAlias
<1>2. \A b : SameHoldout(b)' <=> SameHoldout(b)
  BY <1>1 DEF SameHoldout, Incumbent, storeVars
<1>3. Raise(a) \/ Return(a) => Progress(a)'
  BY Ends, NoProgress
<1>4. ASSUME ~Raise(a), ~Return(a)
      PROVE  Progress(a)'
  <2>1. CASE FindVersion(a) /\ Proceed(a, "comparing")
    <3>1. pc'[a] = "comparing" /\ local' = local
      BY <2>1 DEF Proceed, Goto, Typed
    <3>2. VersionsHaveRole(Bundle(a).role) /\ VersionOf(a) = {}
      BY <1>4, <2>1, <3>1 DEF FindVersion, Goto, Typed
    <3>3. (VersionsHaveRole(Bundle(a).role) /\ VersionOf(a) = {})'
      BY <1>1, <3>1, <3>2 DEF VersionsHaveRole, VersionOf, Bundle, storeVars
    <3> QED BY <3>1, <3>3 DEF Progress
  <2>2. ASSUME NEW v \in VersionOf(a), FindVersion(a),
               local' = [local EXCEPT ![a].version = v], Goto(a, "advancing")
        PROVE  Progress(a)'
    <3>1. pc'[a] = "advancing" /\ local'[a].version = v /\ local'[a].bundle = local[a].bundle
      BY <2>2 DEF Goto, Typed, Locals
    <3>2. v \in 1..Len(versions) /\ versions[v].bundle = Bundle(a)
      BY DEF VersionOf
    <3> QED BY <1>1, <3>1, <3>2 DEF Progress, Bundle, storeVars
  <2>3. CASE CompareIncumbent(a)
    <3>1. /\ pc[a] = "comparing" /\ pc'[a] = "creating" /\ local' = local
          /\ Bundle(a).incumbent = alias /\ SameHoldout(Bundle(a))
      BY <1>4, <2>3 DEF CompareIncumbent, Proceed, Goto, Typed
    <3>2. VersionsHaveRole(Bundle(a).role) /\ VersionOf(a) = {}
      BY <3>1 DEF SerialInv, Progress
    <3>3. (VersionsHaveRole(Bundle(a).role) /\ VersionOf(a) = {})'
      BY <1>1, <3>1, <3>2 DEF VersionsHaveRole, VersionOf, Bundle, storeVars
    <3>4. (Bundle(a).incumbent = alias /\ SameHoldout(Bundle(a)))'
      BY <1>1, <3>1 DEF Bundle, SameHoldout, Incumbent, storeVars
    <3> QED BY <3>1, <3>3, <3>4 DEF Progress
  <2>4. CASE ReadAlias(a)
    <3>1. /\ pc[a] = "advancing" /\ pc'[a] = "setting" /\ local' = local
          /\ ~(local[a].version <= alias) /\ Bundle(a).incumbent = alias
      BY <1>4, <2>4 DEF ReadAlias, Proceed, Goto, Typed
    <3>2. local[a].version \in 1..Len(versions) /\ versions[local[a].version].bundle = Bundle(a)
      BY <3>1 DEF SerialInv, Progress
    <3>3. local[a].version > alias
      BY <3>1 DEF Typed, Locals
    <3> QED BY <1>1, <3>1, <3>2, <3>3 DEF Progress, Bundle, storeVars
  <2> QED BY <1>4, <2>1, <2>2, <2>3, <2>4 DEF FindVersion
<1>5. RunsUnique'
  BY <1>1, SameRuns DEF storeVars, SerialInv
<1> QED BY <1>1, <1>3, <1>4, <1>5, SerialRuns DEF storeVars, Acts

LEMMA SerialSet ==
  ASSUME limit = 1, Typed, SerialInv, NEW a \in Attempts, SetAlias(a)
  PROVE  SerialInv'
<1>1. UNCHANGED <<trained, approved, runs, versions>> /\ alias' = local[a].version
      /\ Return(a) /\ pc[a] = "setting"
  BY DEF SetAlias
<1>2. Progress(a)'
  BY <1>1, Ends, NoProgress
<1>3. OneActive' /\ \A o \in Attempts : Progress(o)'
  BY <1>2, SerialAttempts DEF SerialInv, Acts
<1>4. BundlesInv' /\ VersionsInv'
  BY <1>1, SerialStore
<1>5. local[a].version \in 1..Len(versions)
  BY <1>1 DEF SerialInv, Progress
<1>6. (alias \in 0..Len(versions))' /\ RunsUnique'
  BY <1>1, <1>5, SameRuns DEF SerialInv
<1> QED BY <1>3, <1>4, <1>6 DEF SerialInv

LEMMA SerialStep ==
  limit = 1 /\ Typed /\ EvidenceInv /\ SerialInv /\ [Next]_vars => SerialInv'
<1> SUFFICES ASSUME limit = 1, Typed, EvidenceInv, SerialInv, [Next]_vars
             PROVE  SerialInv'
  OBVIOUS
<1>1. ASSUME NEW a \in Attempts, Acts(a)
      PROVE  SerialInv'
  BY <1>1, SerialStart, SerialTrain, SerialLog, SerialCreate, SerialRegister, SerialSet
     DEF Acts
<1>2. CASE UNCHANGED vars
  <2>1. UNCHANGED <<storeVars, pc, local>>
    BY <1>2 DEF vars
  <2>2. BundlesInv' /\ VersionsInv' /\ RunsUnique'
    BY <2>1, SerialStore, SameRuns DEF storeVars, SerialInv
  <2>3. OneActive'
    BY <2>1 DEF SerialInv, OneActive, Passive
  <2>4. \A a \in Attempts : Progress(a)'
    BY <2>1 DEF SerialInv, Progress, Known, Bundle, Matching, Role, VersionsHaveRole,
                VersionOf, SameHoldout, Incumbent, storeVars
  <2> QED BY <2>1, <2>2, <2>3, <2>4 DEF SerialInv, storeVars
<1> QED BY <1>1, <1>2, NextActs

LEMMA SerialInvariant ==
  Spec => [](Typed /\ EvidenceInv /\ (limit = 1 => SerialInv))
<1>1. Typed /\ EvidenceInv /\ (limit = 1 => SerialInv) /\ [Next]_vars
        => (limit = 1 => SerialInv)'
  BY SerialStep, LimitStep
<1> QED BY <1>1, TypeInit, TypeStep, EvidenceInit, EvidenceStep, SerialInit, PTL DEF Spec

(* A retry or a republication finds the version of its bundle. *)
THEOREM NoDuplicatesCorrect == Spec => []NoDuplicateVersions
<1>1. (limit = 1 => SerialInv) => NoDuplicateVersions
  BY DEF SerialInv, VersionsInv, OneVersionEach, NoDuplicateVersions
<1> QED BY <1>1, SerialInvariant, PTL

(* A registered name keeps to the role of its first version. *)
THEOREM OneRoleCorrect == Spec => []OneRolePerRegistry
<1>1. (limit = 1 => SerialInv) => OneRolePerRegistry
  BY DEF SerialInv, VersionsInv, OneRole, OneRolePerRegistry
<1> QED BY <1>1, SerialInvariant, PTL

LEMMA LoadableHolds ==
  ASSUME Typed, EvidenceInv, limit = 1 => SerialInv PROVE ProductionIsLoadable
<1> SUFFICES ASSUME SerialInv, alias # 0 PROVE Loadable(alias)
  BY DEF ProductionIsLoadable
<1>1. PICK b, j : b = versions[alias].bundle /\ j = versions[alias].run
  OBVIOUS
<1>2. Evidence(b, j)
  BY <1>1 DEF SerialInv, EvidenceInv
<1>3. runs[j] = [bundle |-> b, role |-> b.role, status |-> "FINISHED"] /\ b \in approved
  BY <1>2 DEF Evidence, IsSelected, FinishedRun
<1> DEFINE siblings == {i \in 1..Len(runs) : runs[i].bundle = b /\ runs[i].role = "static"}
<1>4. PICK i \in 1..Len(runs) : runs[i] = FinishedRun(b, "static")
  BY <1>2, RoleNames DEF Evidence, IsLogged
<1>5. siblings = {i}
  BY <1>4 DEF SerialInv, RunsUnique, FinishedRun
<1>6. Cardinality(siblings) = 1
  BY <1>5, FS_Singleton
<1>7. \A k \in siblings : runs[k].status = "FINISHED"
  BY <1>4, <1>5 DEF FinishedRun
<1> QED BY <1>1, <1>3, <1>6, <1>7 DEF Loadable

(* Whenever a server starts, it accepts what the production alias names. *)
THEOREM LoadableCorrect == Spec => []ProductionIsLoadable
<1>1. Typed /\ EvidenceInv /\ (limit = 1 => SerialInv) => ProductionIsLoadable
  BY LoadableHolds
<1> QED BY <1>1, SerialInvariant, PTL

------------------------------------------------------------------------------
(* The moves of the alias. *)

(* Only SetAlias moves it, to the version of the attempt's bundle, whose   *)
(* incumbent it names.                                                     *)
LEMMA AliasMoves ==
  ASSUME Typed, EvidenceInv, SerialInv, [Next]_vars, alias' # alias
  PROVE  /\ UNCHANGED versions
         /\ alias' \in 1..Len(versions) /\ alias' > alias
         /\ versions[alias'].bundle.incumbent = alias
         /\ SameHoldout(versions[alias'].bundle) /\ BeatsProduction(versions[alias'].bundle)
<1>1. PICK a \in Attempts : Acts(a)
  BY NextActs DEF vars, storeVars
<1>2. SetAlias(a)
  BY <1>1 DEF Acts, StartTraining, StartRepublication, Train, ReuseRun, RefuseIncompleteRun,
              FindNoRun, CreateRun, FinishRun, FailRun, SetTerminated, FindVersion,
              CompareIncumbent, CreateVersion, ReadAlias, Abort, storeVars
<1>3. PICK v : v = local[a].version /\ alias' = v /\ UNCHANGED versions /\ pc[a] = "setting"
  BY <1>2 DEF SetAlias
<1>4. /\ v \in 1..Len(versions) /\ v > alias
      /\ versions[v].bundle = Bundle(a) /\ Bundle(a).incumbent = alias
  BY <1>3 DEF SerialInv, Progress
<1>5. SameHoldout(versions[v].bundle) /\ BeatsProduction(versions[v].bundle)
  BY <1>4 DEF SerialInv, VersionsInv, BundlesInv, EvidenceInv, Evidence
<1> QED BY <1>3, <1>4, <1>5

(* The step of EachPromotionImproves, while one attempt publishes.         *)
ImprovesOnOld ==
  limit = 1 /\ alias' # alias /\ alias # 0 =>
    LET old == versions'[alias].bundle
        new == versions'[alias'].bundle
    IN  HoldoutOf[new.data] = HoldoutOf[old.data] /\ Improves(MaeOf(new), MaeOf(old))

LEMMA PromotionImproves ==
  ASSUME Typed, EvidenceInv, limit = 1 => SerialInv, [Next]_vars
  PROVE  [ImprovesOnOld]_vars
  BY AliasMoves DEF ImprovesOnOld, SameHoldout, BeatsProduction, Incumbent

(* Each move of the alias is a measured improvement on what it replaces. *)
THEOREM PromotionsCorrect == Spec => EachPromotionImproves
<1>1. Typed /\ EvidenceInv /\ (limit = 1 => SerialInv) /\ [Next]_vars => [ImprovesOnOld]_vars
  BY PromotionImproves
<1> QED BY <1>1, SerialInvariant, PTL DEF Spec, EachPromotionImproves, ImprovesOnOld

------------------------------------------------------------------------------
(* The refinement: versions are approvals, and the alias is the register.  *)

Approvals == [candidate : [data : Datasets, role : Roles], incumbent : Nat]

LEMMA ApprovalType == ASSUME NEW r \in VersionRecords PROVE Approval(r) \in Approvals
  BY DEF VersionRecords, BundleIds, Approval, Approvals

LEMMA RegisteredType ==
  ASSUME NEW s \in Seq(VersionRecords), NEW g, g = [v \in 1..Len(s) |-> Approval(s[v])]
  PROVE  /\ g \in Seq(Approvals)
         /\ Len(g) = Len(s)
         /\ \A v \in 1..Len(s) : g[v] = Approval(s[v])
<1>1. Len(s) \in Nat /\ \A v \in 1..Len(s) : s[v] \in VersionRecords
  BY LenProperties, ElementOfSeq
<1>2. \A v \in 1..Len(s) : Approval(s[v]) \in Approvals
  BY <1>1, ApprovalType
<1> QED BY <1>1, <1>2

LEMMA RegisteredAppend ==
  ASSUME limit = 1, limit' = 1, versions \in Seq(VersionRecords), NEW r \in VersionRecords,
         versions' = Append(versions, r)
  PROVE  Registered' = Append(Registered, Approval(r))
<1>1. PICK s, t, g, h, x :
        /\ s = versions /\ t = versions'
        /\ g = [v \in 1..Len(s) |-> Approval(s[v])]
        /\ h = [v \in 1..Len(t) |-> Approval(t[v])]
        /\ x = Approval(r)
  OBVIOUS
<1>2. g = Registered /\ h = Registered'
  BY <1>1 DEF Registered
<1>3. s \in Seq(VersionRecords) /\ t = Append(s, r)
  BY <1>1
<1>4. /\ Len(s) \in Nat /\ Len(t) = Len(s) + 1 /\ t \in Seq(VersionRecords)
      /\ t[Len(s) + 1] = r /\ \A v \in 1..Len(s) : t[v] = s[v]
  BY <1>3
<1>5. x \in Approvals
  BY <1>1, ApprovalType
<1>6. g \in Seq(Approvals) /\ Len(g) = Len(s) /\ \A v \in 1..Len(s) : g[v] = Approval(s[v])
  BY <1>1, <1>3, RegisteredType
<1>7. h \in Seq(Approvals) /\ Len(h) = Len(t) /\ \A v \in 1..Len(t) : h[v] = Approval(t[v])
  BY <1>1, <1>4, RegisteredType
<1>8. h[Len(s) + 1] = x /\ \A v \in 1..Len(s) : h[v] = g[v]
  BY <1>1, <1>4, <1>6, <1>7
<1>9. h = Append(g, x)
  BY <1>4, <1>5, <1>6, <1>7, <1>8
<1> QED BY <1>1, <1>2, <1>9

LEMMA RegisterInit == Init => Register!Init
<1> SUFFICES ASSUME Init PROVE Register!Init
  OBVIOUS
<1>1. Len(versions) = 0 /\ versions = <<>> /\ alias = 0
  BY DEF Init
<1>2. Registered = <<>>
  BY <1>1 DEF Registered
<1> QED BY <1>1, <1>2 DEF Register!Init, Production

(* Creating a version approves; setting the alias promotes; the rest is    *)
(* invisible.                                                              *)
LEMMA RegisterStepImplements ==
  ASSUME limit = 1, Typed, EvidenceInv, SerialInv, [Next]_vars
  PROVE  [Register!Next]_(Register!registerVars)
<1>l. limit' = 1
  BY LimitStep
<1>p. Production = alias /\ Production' = alias'
  BY <1>l DEF Production
<1>0. versions \in Seq(VersionRecords)
  BY DEF Typed
<1>1. CASE UNCHANGED <<versions, alias>>
  BY <1>1, <1>l, <1>p DEF Register!registerVars, Registered
<1>2. CASE alias' # alias
  <2>1. PICK v : v = alias'
    OBVIOUS
  <2>2. /\ UNCHANGED versions /\ v \in 1..Len(versions) /\ v > alias
        /\ versions[v].bundle.incumbent = alias
    BY <1>2, <2>1, AliasMoves
  <2>3. Registered' = Registered
    BY <2>2, <1>l DEF Registered
  <2>4. Len(Registered) = Len(versions) /\ Registered[v].incumbent = alias
    <3>1. \A g : g = Registered =>
            Len(g) = Len(versions) /\ \A u \in 1..Len(versions) : g[u] = Approval(versions[u])
      BY <1>0, RegisteredType DEF Registered
    <3>2. Registered[v] = Approval(versions[v])
      BY <2>2, <3>1
    <3> QED BY <2>2, <3>1, <3>2 DEF Approval
  <2>5. Register!Promote(v)
    BY <1>p, <2>1, <2>2, <2>3, <2>4 DEF Register!Promote
  <2>6. v \in 1..Len(Registered)
    BY <2>2, <2>4
  <2> QED BY <2>5, <2>6 DEF Register!Next
<1>3. CASE alias' = alias /\ versions' # versions
  <2>1. PICK a \in Attempts : Acts(a)
    BY <1>3, NextActs DEF vars, storeVars
  <2>2. CreateVersion(a)
    BY <1>3, <2>1 DEF Acts, StartTraining, StartRepublication, Train, ReuseRun,
         RefuseIncompleteRun, FindNoRun, CreateRun, FinishRun, FailRun, SetTerminated,
         FindVersion, CompareIncumbent, ReadAlias, SetAlias, Abort, storeVars
  <2>3. PICK r, b : b = Bundle(a) /\ r = [bundle |-> b, run |-> local[a].selected]
    OBVIOUS
  <2>4. versions' = Append(versions, r) /\ pc[a] = "creating" /\ b.incumbent = alias
    BY <2>2, <2>3 DEF CreateVersion, SerialInv, Progress
  <2>5. b \in BundleIds /\ r \in VersionRecords
    BY <2>3, <2>4 DEF Typed, Active, Ended, Bundle, VersionRecords, Locals
  <2>6. PICK c : c = [data |-> b.data, role |-> b.role]
    OBVIOUS
  <2>t. c \in [data : Datasets, role : Roles]
    BY <2>5, <2>6 DEF BundleIds
  <2>7. Approval(r) = [candidate |-> c, incumbent |-> alias]
    BY <2>3, <2>4, <2>6 DEF Approval
  <2>8. Registered' = Append(Registered, [candidate |-> c, incumbent |-> alias])
    BY <1>0, <1>l, <2>4, <2>5, <2>7, RegisteredAppend
  <2>9. \A g : g = Registered =>
          Len(g) = Len(versions) /\ \A u \in 1..Len(versions) : g[u] = Approval(versions[u])
    BY <1>0, RegisteredType DEF Registered
  <2>10. ASSUME NEW v \in 1..Len(versions)
         PROVE  Approval(versions[v]) # [candidate |-> c, incumbent |-> alias]
    <3>1. PICK d : d = versions[v].bundle
      OBVIOUS
    <3>2. d \in BundleIds
      <4>1. versions[v] \in VersionRecords
        BY <1>0, ElementOfSeq
      <4> QED BY <3>1, <4>1 DEF VersionRecords
    <3>3. d # b
      BY <2>3, <2>4, <3>1, NewVersion
    <3>4. d.data # b.data \/ d.role # b.role \/ d.incumbent # b.incumbent
      BY <2>5, <3>2, <3>3 DEF BundleIds
    <3> QED BY <2>4, <2>6, <3>1, <3>4 DEF Approval
  <2>11. \A v \in 1..Len(Registered) : Registered[v] # [candidate |-> c, incumbent |-> alias]
    BY <2>9, <2>10
  <2>12. Register!Approve(c)
    BY <1>3, <1>p, <2>8, <2>11 DEF Register!Approve
  <2> QED BY <2>t, <2>12 DEF Register!Next
<1> QED BY <1>1, <1>2, <1>3

(* With one attempt at a time, versions and alias are a register whose     *)
(* value moves forward, from the very version an approval was against.     *)
THEOREM RegisterImplemented == Spec => ImplementsRegister
<1>1. Typed /\ EvidenceInv /\ (limit = 1 => SerialInv) /\ [Next]_vars
        => [Register!Next]_(Register!registerVars)
  <2>1. ASSUME limit # 1, [Next]_vars PROVE UNCHANGED Register!registerVars
    BY <2>1, LimitStep DEF Register!registerVars, Registered, Production
  <2> QED BY <2>1, RegisterStepImplements
<1> QED BY <1>1, RegisterInit, SerialInvariant, PTL DEF Spec, ImplementsRegister, Register!Spec

==============================================================================
