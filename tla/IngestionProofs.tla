---------------------------- MODULE IngestionProofs ----------------------------
(***************************************************************************)
(* Proofs about the ingestion of a partition, for any sources, any gate    *)
(* and any number of attempts.  What the silver file holds, and how the    *)
(* lineage rows are kept, is proved for any number of attempts at the same *)
(* time; what the manifest and the recorded runs say of the files, for one *)
(* at a time, as the DAG runs them.                                        *)
(***************************************************************************)
EXTENDS Ingestion, FiniteSetTheorems, SequenceTheorems, TLAPS

USE DEF bronzeVars, outputVars, vars

------------------------------------------------------------------------------
(* Type correctness.  An attempt that reads the bronze object has found or *)
(* stored one, and what it has read is a revision.                         *)

Scanned == {"publishing", "clearing", "quarantining", "placing", "reporting"}

LocalsInv(a) ==
  /\ pc[a] \in Running => local[a].policy \in Policies /\ local[a].row \in 0 .. Len(rows)
  /\ pc[a] \in {"completing", "failing"} => local[a].row # 0
  /\ pc[a] = "completing" => local[a].report \in Reports
  /\ pc[a] \in {"storing", "describing"} \cup Scanned => local[a].content \in Revisions
  /\ pc[a] \in {"describing", "scanning"} \cup Scanned /\ local[a].file = NoFile
       => bronze \in Revisions
  /\ pc[a] = "publishing" => Accepted(local[a].content, local[a].policy)

TypeInv == TypeOK /\ \A a \in Attempts : LocalsInv(a)

LEMMA TypeInit == Init => TypeInv
<1> SUFFICES ASSUME Init
             PROVE  TypeInv
  OBVIOUS
<1>1. NoLocals \in Locals
  BY DEF NoLocals, Locals, Files
<1>2. TypeOK
  BY <1>1 DEF Init, TypeOK, Files, PcStates
<1>3. \A a \in Attempts : pc[a] = "idle"
  BY DEF Init
<1>4. \A a \in Attempts : LocalsInv(a)
  BY <1>3 DEF LocalsInv, Running, InTry, Scanned
<1> QED BY <1>2, <1>4 DEF TypeInv

(* A step of one attempt leaves the locals of the others alone, the rows   *)
(* there are and the bronze object once there is one.                      *)
LEMMA OtherAttempts ==
  ASSUME TypeInv, NEW a \in Attempts,
         \A b \in Attempts \ {a} : pc'[b] = pc[b] /\ local'[b] = local[b],
         Len(rows') \in Nat, Len(rows) <= Len(rows'),
         bronze \in Revisions => bronze' \in Revisions,
         TypeOK', LocalsInv(a)'
  PROVE  TypeInv'
<1> SUFFICES ASSUME NEW b \in Attempts, b # a
             PROVE  LocalsInv(b)'
  BY DEF TypeInv
<1>1. pc'[b] = pc[b] /\ local'[b] = local[b] /\ LocalsInv(b)
  BY DEF TypeInv
<1>2. Len(rows) \in Nat
  BY LenProperties DEF TypeInv, TypeOK
<1>3. local[b].row \in 0 .. Len(rows) => local[b].row \in 0 .. Len(rows')
  BY <1>2
<1>4. Accepted(local[b].content, local[b].policy)' <=> Accepted(local[b].content, local[b].policy)
  BY <1>1 DEF Accepted
<1> QED BY <1>1, <1>3, <1>4 DEF LocalsInv

(* The attempt ends, in any way. *)
LEMMA EndStep ==
  ASSUME TypeInv, NEW a \in Attempts, NEW how \in Ended, End(a, how)
  PROVE  /\ pc' \in [Attempts -> PcStates] /\ local' \in [Attempts -> Locals]
         /\ \A b \in Attempts \ {a} : pc'[b] = pc[b] /\ local'[b] = local[b]
         /\ LocalsInv(a)'
<1>1. NoLocals \in Locals /\ how \in PcStates
  BY DEF NoLocals, Locals, Files, PcStates
<1>2. pc' = [pc EXCEPT ![a] = how] /\ local' = [local EXCEPT ![a] = NoLocals]
  BY DEF End, Goto
<1>3. pc \in [Attempts -> PcStates] /\ local \in [Attempts -> Locals]
  BY DEF TypeInv, TypeOK
<1>4. how \notin Running \cup {"scanning", "storing", "describing"} \cup Scanned
  BY DEF Ended, Running, InTry, Scanned
<1>5. pc'[a] = how
  BY <1>2, <1>3
<1>6. LocalsInv(a)'
  BY <1>4, <1>5 DEF LocalsInv, Running, InTry, Scanned
<1> QED BY <1>1, <1>2, <1>3, <1>6

(* The attempt goes on without changing its locals. *)
LEMMA ProceedStep ==
  ASSUME TypeInv, NEW a \in Attempts, NEW to \in PcStates, Proceed(a, to)
  PROVE  /\ pc' \in [Attempts -> PcStates] /\ local' \in [Attempts -> Locals]
         /\ pc'[a] = to /\ local'[a] = local[a]
         /\ \A b \in Attempts \ {a} : pc'[b] = pc[b] /\ local'[b] = local[b]
BY DEF Proceed, Goto, TypeInv, TypeOK

LEMMA StartStep ==
  ASSUME TypeInv, NEW a \in Attempts, NEW file \in Revisions \cup {NoFile},
         NEW policy \in Policies, NEW lineage \in BOOLEAN, Start(a, file, policy, lineage),
         UNCHANGED limit
  PROVE  TypeInv'
<1> DEFINE row == [status |-> "running", source |-> NoFile, policy |-> policy]
           l == [local[a] EXCEPT !.file = file, !.policy = policy,
                                 !.row = IF lineage THEN Len(rows) + 1 ELSE 0]
<1>1. /\ rows \in Seq(LineageRows) /\ pc \in [Attempts -> PcStates]
      /\ local \in [Attempts -> Locals] /\ Len(rows) \in Nat
  BY LenProperties DEF TypeInv, TypeOK
<1>2. row \in LineageRows
  BY DEF LineageRows, Files
<1>3. /\ Append(rows, row) \in Seq(LineageRows) /\ Len(Append(rows, row)) = Len(rows) + 1
  BY <1>1, <1>2, AppendProperties
<1>4. rows' = IF lineage THEN Append(rows, row) ELSE rows
  BY DEF Start
<1>5. /\ rows' \in Seq(LineageRows) /\ Len(rows') \in Nat /\ Len(rows) <= Len(rows')
      /\ Len(rows') = IF lineage THEN Len(rows) + 1 ELSE Len(rows)
  BY <1>1, <1>3, <1>4
<1>6. local' = [local EXCEPT ![a] = l]
  BY DEF Start
<1>7. l \in Locals /\ l.policy = policy /\ l.file = file
      /\ l.row = IF lineage THEN Len(rows) + 1 ELSE 0
  <2>1. PICK n : n \in Nat /\ n = IF lineage THEN Len(rows) + 1 ELSE 0
    BY <1>1
  <2>2. local[a] \in Locals
    BY <1>1
  <2>3. l = [local[a] EXCEPT !.file = file, !.policy = policy, !.row = n]
    BY <2>1
  <2> QED BY <2>1, <2>2, <2>3 DEF Locals, Files
<1> HIDE DEF l, row
<1>8. pc' = [pc EXCEPT ![a] = IF file = NoFile THEN "fetching" ELSE "scanning"]
  BY DEF Start, Goto
<1>9. /\ pc' \in [Attempts -> PcStates] /\ local' \in [Attempts -> Locals]
      /\ \A b \in Attempts \ {a} : pc'[b] = pc[b] /\ local'[b] = local[b]
      /\ pc'[a] = (IF file = NoFile THEN "fetching" ELSE "scanning") /\ local'[a] = l
  BY <1>1, <1>6, <1>7, <1>8 DEF PcStates, InTry
<1>10. UNCHANGED <<upstream, bronzeVars, outputVars, report>>
  BY DEF Start
<1>11. TypeOK'
  BY <1>5, <1>9, <1>10 DEF TypeInv, TypeOK
<1>12. LocalsInv(a)'
  <2>1. l.row \in 0 .. Len(rows')
    BY <1>1, <1>5, <1>7
  <2> QED BY <1>7, <1>9, <2>1 DEF LocalsInv, Running, InTry, Scanned
<1> QED BY <1>5, <1>9, <1>10, <1>11, <1>12, OtherAttempts

(* Reading the bronze object, or finding it. *)
LEMMA FetchStep ==
  ASSUME TypeInv, NEW a \in Attempts, Fetch(a), UNCHANGED limit
  PROVE  TypeInv'
<1>t. /\ local \in [Attempts -> Locals] /\ pc \in [Attempts -> PcStates]
      /\ upstream \in Revisions /\ bronze \in Files /\ Revisions \subseteq Files
      /\ LocalsInv(a) /\ Len(rows) \in Nat /\ Len(rows) <= Len(rows)
  BY LenProperties DEF TypeInv, TypeOK, Files
<1>p. {"fetching", "storing", "describing", "scanning"} \subseteq PcStates
  BY DEF PcStates, InTry
<1>1. CASE ReuseBronze(a)
  <2>1. /\ pc[a] = "fetching" /\ Proceed(a, "scanning") /\ bronze \in Revisions
        /\ UNCHANGED <<upstream, bronzeVars, outputVars, report, rows>>
    BY <1>1, <1>t DEF ReuseBronze, BronzeHeld, Files
  <2>2. LocalsInv(a)'
    BY <1>t, <1>p, <2>1, ProceedStep DEF LocalsInv, Running, InTry, Scanned
  <2> QED BY <1>t, <1>p, <2>1, <2>2, ProceedStep, OtherAttempts DEF TypeInv, TypeOK
<1>2. CASE Download(a)
  <2>1. /\ pc[a] = "fetching" /\ pc' = [pc EXCEPT ![a] = "storing"]
        /\ local' = [local EXCEPT ![a] = [local[a] EXCEPT !.content = upstream]]
        /\ UNCHANGED <<upstream, bronzeVars, outputVars, report, rows>>
    BY <1>2 DEF Download, Goto
  <2>2. [local[a] EXCEPT !.content = upstream] \in Locals
    BY <1>t DEF Locals
  <2>3. /\ pc' \in [Attempts -> PcStates] /\ local' \in [Attempts -> Locals]
        /\ \A b \in Attempts \ {a} : pc'[b] = pc[b] /\ local'[b] = local[b]
        /\ pc'[a] = "storing" /\ local'[a] = [local[a] EXCEPT !.content = upstream]
    BY <1>t, <1>p, <2>1, <2>2
  <2>4. local'[a].content = upstream /\ local'[a].policy = local[a].policy
        /\ local'[a].row = local[a].row
    BY <1>t, <2>3 DEF Locals
  <2>5. LocalsInv(a)'
    BY <1>t, <2>1, <2>3, <2>4 DEF LocalsInv, Running, InTry, Scanned
  <2> QED BY <1>t, <2>1, <2>3, <2>5, OtherAttempts DEF TypeInv, TypeOK
<1>3. CASE StoreBronze(a)
  <2>1. /\ pc[a] = "storing" /\ Proceed(a, "describing")
        /\ bronze' = local[a].content
        /\ UNCHANGED <<upstream, manifest, outputVars, report, rows>>
    BY <1>3 DEF StoreBronze
  <2>2. local[a].content \in Revisions
    BY <1>t, <2>1 DEF LocalsInv
  <2>3. LocalsInv(a)'
    BY <1>t, <1>p, <2>1, <2>2, ProceedStep DEF LocalsInv, Running, InTry, Scanned
  <2> QED BY <1>t, <1>p, <2>1, <2>2, <2>3, ProceedStep, OtherAttempts DEF TypeInv, TypeOK
<1>4. CASE WriteManifest(a)
  <2>1. /\ pc[a] = "describing" /\ Proceed(a, "scanning")
        /\ manifest' = local[a].content
        /\ UNCHANGED <<upstream, bronze, outputVars, report, rows>>
    BY <1>4 DEF WriteManifest
  <2>2. local[a].content \in Revisions
    BY <1>t, <2>1 DEF LocalsInv
  <2>3. LocalsInv(a)'
    BY <1>t, <1>p, <2>1, ProceedStep DEF LocalsInv, Running, InTry, Scanned
  <2> QED BY <1>t, <1>p, <2>1, <2>2, <2>3, ProceedStep, OtherAttempts DEF TypeInv, TypeOK
<1> QED BY <1>1, <1>2, <1>3, <1>4 DEF Fetch

LEMMA OutputType ==
  ASSUME TypeInv, NEW a \in Attempts, pc[a] \in Scanned
  PROVE  /\ Output(a) \in Outputs
         /\ Source(a) \in Revisions
         /\ local[a].content \in Revisions /\ local[a].policy \in Policies
<1>1. LocalsInv(a) /\ pc[a] \in Running /\ local[a].file \in Files
  BY DEF TypeInv, TypeOK, Locals, Running, InTry, Scanned
<1>2. local[a].content \in Revisions /\ local[a].policy \in Policies
  BY <1>1 DEF LocalsInv
<1> QED BY <1>1, <1>2 DEF LocalsInv, Output, Outputs, Source, Files

(* Scanning the source and placing its files. *)
LEMMA ValidateStep ==
  ASSUME TypeInv, NEW a \in Attempts, Validate(a), UNCHANGED limit
  PROVE  TypeInv'
<1>t. /\ local \in [Attempts -> Locals] /\ pc \in [Attempts -> PcStates]
      /\ Revisions \subseteq Files /\ local[a].file \in Files
      /\ LocalsInv(a) /\ Len(rows) \in Nat /\ Len(rows) <= Len(rows)
  BY LenProperties DEF TypeInv, TypeOK, Files, Locals
<1>p. Scanned \cup {"scanning", "completing"} \subseteq PcStates
  BY DEF PcStates, InTry, Scanned
<1>1. CASE Scan(a)
  <2> DEFINE to == IF Accepted(Source(a), local[a].policy) THEN "publishing" ELSE "quarantining"
             l == [local[a] EXCEPT !.content = Source(a)]
  <2>1. /\ pc[a] = "scanning" /\ pc' = [pc EXCEPT ![a] = to]
        /\ local' = [local EXCEPT ![a] = l]
        /\ UNCHANGED <<upstream, bronzeVars, outputVars, report, rows>>
    BY <1>1 DEF Scan, Goto
  <2>2. Source(a) \in Revisions
    BY <1>t, <2>1 DEF LocalsInv, Source, Files
  <2>3. /\ l \in Locals /\ l.content = Source(a) /\ l.policy = local[a].policy
        /\ l.row = local[a].row /\ l.file = local[a].file
    BY <1>t, <2>2 DEF Locals
  <2>4. to \in {"publishing", "quarantining"}
        /\ (to = "publishing" => Accepted(l.content, l.policy))
    BY <2>3
  <2> HIDE DEF l, to
  <2>5. /\ pc' \in [Attempts -> PcStates] /\ local' \in [Attempts -> Locals]
        /\ \A b \in Attempts \ {a} : pc'[b] = pc[b] /\ local'[b] = local[b]
        /\ pc'[a] = to /\ local'[a] = l
    BY <1>t, <1>p, <2>1, <2>3, <2>4 DEF Scanned
  <2>6. LocalsInv(a)'
    <3>1. Accepted(local[a].content, local[a].policy)' <=> Accepted(l.content, l.policy)
      BY <2>5 DEF Accepted
    <3> QED BY <1>t, <2>1, <2>2, <2>3, <2>4, <2>5, <3>1 DEF LocalsInv, Running, InTry, Scanned
  <2> QED BY <1>t, <2>1, <2>5, <2>6, OtherAttempts DEF TypeInv, TypeOK
<1>2. ASSUME NEW from \in Scanned, NEW to \in {"clearing", "placing", "reporting"},
             pc[a] = from, Proceed(a, to), UNCHANGED <<upstream, bronzeVars, report, rows>>,
             silver' \in Outputs \cup {NoFile}, quarantine' \in Files,
             invalid' \in Outputs \cup {NoFile}
      PROVE  TypeInv'
  <2>1. to \in PcStates /\ to \in Scanned
    BY <1>p DEF Scanned
  <2>2. LocalsInv(a)'
    BY <1>t, <1>2, <2>1, ProceedStep DEF LocalsInv, Running, InTry, Scanned
  <2> QED BY <1>t, <1>2, <2>1, <2>2, ProceedStep, OtherAttempts DEF TypeInv, TypeOK
<1>3. CASE PublishSilver(a) \/ DropQuarantine(a) \/ QuarantineSource(a) \/ PlaceInvalidRows(a)
  <2>1. pc[a] \in Scanned
    BY <1>3 DEF PublishSilver, DropQuarantine, QuarantineSource, PlaceInvalidRows, Scanned
  <2>2. Output(a) \in Outputs /\ Source(a) \in Files
    BY <1>t, <2>1, OutputType
  <2>3. silver \in Outputs \cup {NoFile} /\ quarantine \in Files /\ invalid \in Outputs \cup {NoFile}
        /\ NoFile \in Files
    BY DEF TypeInv, TypeOK, Files
  <2>4. CASE PublishSilver(a)
    BY <1>2, <2>1, <2>2, <2>3, <2>4 DEF PublishSilver
  <2>5. CASE DropQuarantine(a)
    BY <1>2, <2>1, <2>2, <2>3, <2>5 DEF DropQuarantine
  <2>6. CASE QuarantineSource(a)
    BY <1>2, <2>1, <2>2, <2>3, <2>6 DEF QuarantineSource
  <2>7. CASE PlaceInvalidRows(a)
    BY <1>2, <2>1, <2>2, <2>3, <2>7 DEF PlaceInvalidRows
  <2> QED BY <1>3, <2>4, <2>5, <2>6, <2>7
<1>4. CASE WriteReport(a)
  <2> DEFINE written == [source |-> Source(a), policy |-> local[a].policy,
                         status |-> Status(local[a].content, local[a].policy)]
             l == [local[a] EXCEPT !.report = written]
  <2>1. /\ pc[a] = "reporting" /\ report' = written
        /\ IF local[a].row = 0 THEN End(a, "returned")
           ELSE local' = [local EXCEPT ![a] = l] /\ pc' = [pc EXCEPT ![a] = "completing"]
        /\ UNCHANGED <<upstream, bronzeVars, outputVars, rows>>
    BY <1>4 DEF WriteReport, Goto
  <2>2. Source(a) \in Revisions /\ local[a].policy \in Policies
    BY <2>1, OutputType DEF Scanned
  <2>3. written \in Reports
    BY <2>2 DEF Reports, Status
  <2>4. /\ l \in Locals /\ l.policy = local[a].policy /\ l.row = local[a].row /\ l.report = written
    BY <1>t, <2>3 DEF Locals
  <2>5. /\ pc' \in [Attempts -> PcStates] /\ local' \in [Attempts -> Locals]
        /\ \A b \in Attempts \ {a} : pc'[b] = pc[b] /\ local'[b] = local[b]
        /\ LocalsInv(a)'
    <3>1. CASE local[a].row = 0
      BY <2>1, <3>1, EndStep DEF Ended
    <3>2. CASE local[a].row # 0
      <4> HIDE DEF l, written
      <4>1. /\ pc' \in [Attempts -> PcStates] /\ local' \in [Attempts -> Locals]
            /\ \A b \in Attempts \ {a} : pc'[b] = pc[b] /\ local'[b] = local[b]
            /\ pc'[a] = "completing" /\ local'[a] = l
        BY <1>t, <1>p, <2>1, <2>4, <3>2
      <4> QED BY <1>t, <2>1, <2>3, <2>4, <3>2, <4>1 DEF LocalsInv, Running, InTry, Scanned
    <3> QED BY <3>1, <3>2
  <2> HIDE DEF l, written
  <2> QED BY <1>t, <2>1, <2>3, <2>5, OtherAttempts DEF TypeInv, TypeOK
<1> QED BY <1>1, <1>3, <1>4 DEF Validate

LEMMA LeaveStep ==
  ASSUME TypeInv, NEW a \in Attempts, Leave(a), UNCHANGED limit
  PROVE  TypeInv'
<1>t. /\ local \in [Attempts -> Locals] /\ pc \in [Attempts -> PcStates]
      /\ rows \in Seq(LineageRows) /\ LocalsInv(a) /\ Len(rows) \in Nat
  BY LenProperties DEF TypeInv, TypeOK
<1>e. "returned" \in Ended /\ "stopped" \in Ended
  BY DEF Ended
<1>1. ASSUME NEW how \in Ended, End(a, how),
             UNCHANGED <<upstream, bronzeVars, outputVars, report>>,
             rows' \in Seq(LineageRows), Len(rows') = Len(rows)
      PROVE  TypeInv'
  <2>1. /\ pc' \in [Attempts -> PcStates] /\ local' \in [Attempts -> Locals]
        /\ \A b \in Attempts \ {a} : pc'[b] = pc[b] /\ local'[b] = local[b]
        /\ LocalsInv(a)'
    BY <1>1, EndStep
  <2>2. TypeOK'
    BY <1>1, <2>1 DEF TypeInv, TypeOK
  <2>3. Len(rows') \in Nat /\ Len(rows) <= Len(rows') /\ bronze' = bronze
    BY <1>t, <1>1
  <2> QED BY <2>1, <2>2, <2>3, OtherAttempts
<1>2. ASSUME pc[a] \in {"completing", "failing"}, NEW row \in LineageRows, Finish(a, row)
      PROVE  /\ UNCHANGED <<upstream, bronzeVars, outputVars, report>>
             /\ rows' \in Seq(LineageRows) /\ Len(rows') = Len(rows)
  <2>1. local[a].row \in 1 .. Len(rows)
    BY <1>t, <1>2 DEF LocalsInv, Running
  <2>2. rows' = [rows EXCEPT ![local[a].row] = row]
    BY <1>2 DEF Finish
  <2>3. rows' \in Seq(LineageRows) /\ Len(rows') = Len(rows)
    BY <1>t, <2>1, <2>2, ExceptSeq
  <2> QED BY <1>2, <2>3 DEF Finish
<1>3. CASE CompleteRun(a)
  <2> DEFINE row == [status |-> local[a].report.status, source |-> local[a].report.source,
                     policy |-> local[a].report.policy]
  <2>1. pc[a] = "completing" /\ Finish(a, row) /\ \E how \in Ended : End(a, how)
    BY <1>3 DEF CompleteRun
  <2>2. local[a].report \in Reports
    BY <1>t, <2>1 DEF LocalsInv
  <2>3. row \in LineageRows
    BY <2>2 DEF Reports, LineageRows, Files
  <2> HIDE DEF row
  <2> QED BY <1>1, <1>2, <2>1, <2>3
<1>4. CASE Raise(a)
  <2>1. /\ pc[a] \in InTry
        /\ IF local[a].row = 0 THEN End(a, "stopped") ELSE Proceed(a, "failing")
        /\ UNCHANGED <<upstream, bronzeVars, outputVars, report, rows>>
    BY <1>4 DEF Raise
  <2>2. CASE local[a].row = 0
    BY <1>1, <1>e, <1>t, <2>1, <2>2
  <2>3. CASE local[a].row # 0
    <3>1. "failing" \in PcStates
      BY DEF PcStates
    <3>2. LocalsInv(a)'
      BY <1>t, <2>1, <2>3, <3>1, ProceedStep DEF LocalsInv, Running, InTry, Scanned
    <3>3. Len(rows') \in Nat /\ Len(rows) <= Len(rows') /\ bronze' = bronze
      BY <1>t, <2>1
    <3>4. TypeOK'
      BY <2>1, <2>3, <3>1, ProceedStep DEF TypeInv, TypeOK
    <3> QED BY <2>1, <2>3, <3>1, <3>2, <3>3, <3>4, ProceedStep, OtherAttempts
  <2> QED BY <2>2, <2>3
<1>5. CASE FailRun(a)
  <2>1. /\ pc[a] = "failing" /\ Finish(a, [rows[local[a].row] EXCEPT !.status = "failed"])
        /\ End(a, "stopped")
    BY <1>5 DEF FailRun
  <2>2. local[a].row \in 1 .. Len(rows)
    BY <1>t, <2>1 DEF LocalsInv, Running
  <2>3. rows[local[a].row] \in LineageRows
    BY <1>t, <2>2, ElementOfSeq
  <2>4. [rows[local[a].row] EXCEPT !.status = "failed"] \in LineageRows
    BY <2>3 DEF LineageRows
  <2> QED BY <1>1, <1>2, <1>e, <2>1, <2>4
<1>6. CASE Stop(a)
  BY <1>1, <1>6, <1>e, <1>t DEF Stop
<1> QED BY <1>3, <1>4, <1>5, <1>6 DEF Leave

LEMMA TypeStep == TypeInv /\ [Next]_vars => TypeInv'
<1> SUFFICES ASSUME TypeInv, [Next]_vars
             PROVE  TypeInv'
  OBVIOUS
<1>1. CASE (\E r \in Revisions : Republish(r)) /\ UNCHANGED limit
  BY <1>1 DEF Republish, TypeInv, TypeOK, LocalsInv, Accepted
<1>2. CASE UNCHANGED vars
  BY <1>2 DEF TypeInv, TypeOK, LocalsInv, Accepted
<1> QED BY <1>1, <1>2, StartStep, FetchStep, ValidateStep, LeaveStep DEF Next, Step

(* The variables have their types; a status is one the table admits. *)
THEOREM TypeCorrect == Spec => []TypeOK
<1>1. TypeInv => TypeOK
  BY DEF TypeInv
<1> QED BY <1>1, TypeInit, TypeStep, PTL DEF Spec

(* The silver file is a revision that passed its gate, for any number of   *)
(* attempts at the same time: what is published is what was scanned.       *)
THEOREM SilverCorrect == Spec => []SilverPassedItsGate
<1>1. Init => SilverPassedItsGate
  BY DEF Init, SilverPassedItsGate
<1>2. TypeInv /\ SilverPassedItsGate /\ [Next]_vars => SilverPassedItsGate'
  <2> SUFFICES ASSUME TypeInv, SilverPassedItsGate, [Next]_vars
               PROVE  SilverPassedItsGate'
    OBVIOUS
  <2>1. CASE silver' = silver
    BY <2>1 DEF SilverPassedItsGate
  <2>2. ASSUME NEW a \in Attempts, PublishSilver(a)
        PROVE  SilverPassedItsGate'
    <3>1. LocalsInv(a) /\ pc[a] = "publishing"
      BY <2>2 DEF TypeInv, PublishSilver
    <3>2. Accepted(local[a].content, local[a].policy)
      BY <3>1 DEF LocalsInv
    <3>3. /\ Invalid[local[a].content, local[a].policy] < Rows[local[a].content]
          /\ silver' = [source |-> local[a].content, policy |-> local[a].policy]
      BY <2>2 DEF PublishSilver, Output
    <3>4. silver'.source = local[a].content /\ silver'.policy = local[a].policy
      BY <3>3
    <3> QED BY <3>2, <3>3, <3>4 DEF SilverPassedItsGate, Accepted
  <2>3. silver' = silver \/ \E a \in Attempts : PublishSilver(a)
    <3>1. ASSUME NEW a \in Attempts, Fetch(a) \/ Validate(a) \/ Leave(a), ~PublishSilver(a)
          PROVE  silver' = silver
      <4>1. CASE Fetch(a)
        BY <4>1 DEF Fetch, ReuseBronze, Download, StoreBronze, WriteManifest
      <4>2. CASE Validate(a)
        BY <3>1, <4>2 DEF Validate, Scan, DropQuarantine, QuarantineSource, PlaceInvalidRows,
                          WriteReport
      <4>3. CASE Leave(a)
        BY <4>3 DEF Leave, CompleteRun, Raise, FailRun, Stop, Finish
      <4> QED BY <3>1, <4>1, <4>2, <4>3
    <3> QED BY <3>1 DEF Next, Step, Start, Republish
  <2> QED BY <2>1, <2>2, <2>3
<1> QED BY <1>1, <1>2, TypeInit, TypeStep, PTL DEF Spec

------------------------------------------------------------------------------
(* One attempt at a time: what it has placed so far is still in place.     *)

Gated(a) == Accepted(local[a].content, local[a].policy)

Placed(a) == IF Gated(a) THEN silver = Output(a) /\ quarantine = NoFile
                         ELSE quarantine = local[a].content

InvalidPlaced(a) ==
  invalid = IF Invalid[local[a].content, local[a].policy] > 0 THEN Output(a) ELSE NoFile

FilesInv(a) ==
  /\ pc[a] \in {"storing", "describing"} => manifest = NoFile
  /\ pc[a] = "describing" => bronze = local[a].content
  /\ pc[a] \in Scanned => local[a].content = Source(a)
  /\ pc[a] \in {"publishing", "clearing"} => Gated(a)
  /\ pc[a] = "quarantining" => ~Gated(a)
  /\ pc[a] = "clearing" => silver = Output(a)
  /\ pc[a] \in {"placing", "reporting"} => Placed(a)
  /\ pc[a] = "reporting" => InvalidPlaced(a)
  /\ pc[a] = "completing" => FilesMatch(local[a].report)

Passive(a) == pc[a] \in {"idle"} \cup Ended

AloneInv == \A a, b \in Attempts : Passive(a) \/ Passive(b) \/ a = b

ManifestIsTrue == manifest # NoFile => manifest = bronze

RunInv == AloneInv /\ ManifestIsTrue /\ \A a \in Attempts : FilesInv(a)

LEMMA PassiveFiles == ASSUME NEW a \in Attempts, Passive(a)' PROVE FilesInv(a)'
BY DEF Passive, FilesInv, Ended, Scanned

(* Only an attempt that is not passive acts, or one starts when all are.   *)
LEMMA AloneStep ==
  ASSUME limit = 1, TypeInv, AloneInv, NEW a \in Attempts,
         \/ Fetch(a) \/ Validate(a) \/ Leave(a)
         \/ \E file \in Revisions \cup {NoFile}, policy \in Policies, lineage \in BOOLEAN :
              Start(a, file, policy, lineage)
  PROVE  AloneInv' /\ \A b \in Attempts \ {a} : FilesInv(b)'
<1>1. \A b \in Attempts \ {a} : Passive(b)
  <2>1. CASE \E file \in Revisions \cup {NoFile}, policy \in Policies, lineage \in BOOLEAN :
               Start(a, file, policy, lineage)
    <3>1. Cardinality(Active) < 1
      BY <2>1 DEF Start
    <3>2. IsFiniteSet(Active)
      <4>1. IsFiniteSet(Attempts)
        BY Zenon, IngestionAssumption
      <4>2. Active \subseteq Attempts
        BY DEF Active
      <4> QED BY <4>1, <4>2, FS_Subset
    <3>3. Cardinality(Active) = 0
      <4>1. Cardinality(Active) \in Nat
        BY <3>2, FS_CardinalityType
      <4> QED BY <3>1, <4>1
    <3>4. Active = {}
      BY <3>2, <3>3, FS_EmptySet
    <3> QED BY <3>4 DEF Active, Passive
  <2>2. CASE Fetch(a) \/ Validate(a) \/ Leave(a)
    <3>1. ~Passive(a)
      <4>1. CASE Fetch(a)
        BY <4>1 DEF Fetch, ReuseBronze, Download, StoreBronze, WriteManifest, Passive, Ended
      <4>2. CASE Validate(a)
        BY <4>2 DEF Validate, Scan, PublishSilver, DropQuarantine, QuarantineSource,
                    PlaceInvalidRows, WriteReport, Passive, Ended
      <4>3. CASE Leave(a)
        BY <4>3 DEF Leave, CompleteRun, Raise, FailRun, Stop, Active, InTry, Passive, Ended
      <4> QED BY <2>2, <4>1, <4>2, <4>3
    <3> QED BY <3>1 DEF AloneInv
  <2> QED BY <2>1, <2>2
<1>2. \A b \in Attempts \ {a} : pc'[b] = pc[b]
  <2>0. pc \in [Attempts -> PcStates]
    BY DEF TypeInv, TypeOK
  <2>1. ASSUME NEW to, Goto(a, to) PROVE \A b \in Attempts \ {a} : pc'[b] = pc[b]
    BY <2>0, <2>1 DEF Goto
  <2>2. ASSUME NEW to, Proceed(a, to) \/ End(a, to) PROVE \A b \in Attempts \ {a} : pc'[b] = pc[b]
    BY <2>1, <2>2 DEF Proceed, End
  <2>3. CASE \E file \in Revisions \cup {NoFile}, policy \in Policies, lineage \in BOOLEAN :
               Start(a, file, policy, lineage)
    BY <2>1, <2>3 DEF Start
  <2>4. CASE Fetch(a)
    BY <2>1, <2>2, <2>4 DEF Fetch, ReuseBronze, Download, StoreBronze, WriteManifest
  <2>5. CASE Validate(a)
    BY <2>1, <2>2, <2>5 DEF Validate, Scan, PublishSilver, DropQuarantine, QuarantineSource,
                            PlaceInvalidRows, WriteReport
  <2>6. CASE Leave(a)
    BY <2>1, <2>2, <2>6 DEF Leave, CompleteRun, Raise, FailRun, Stop
  <2> QED BY <2>3, <2>4, <2>5, <2>6
<1>3. \A b \in Attempts \ {a} : Passive(b)'
  BY <1>1, <1>2 DEF Passive
<1> QED BY <1>3, PassiveFiles DEF AloneInv

LEMMA FetchFiles ==
  ASSUME TypeInv, RunInv, NEW a \in Attempts, Fetch(a)
  PROVE  ManifestIsTrue' /\ FilesInv(a)'
<1>t. /\ local \in [Attempts -> Locals] /\ pc \in [Attempts -> PcStates]
      /\ FilesInv(a) /\ ManifestIsTrue
      /\ {"fetching", "storing", "describing", "scanning"} \subseteq PcStates
  BY DEF TypeInv, TypeOK, RunInv, PcStates, InTry
<1>1. CASE ReuseBronze(a)
  <2>1. Proceed(a, "scanning") /\ UNCHANGED bronzeVars
    BY <1>1 DEF ReuseBronze
  <2>2. pc'[a] = "scanning"
    BY <1>t, <2>1, ProceedStep
  <2> QED BY <1>t, <2>1, <2>2 DEF FilesInv, ManifestIsTrue, Scanned
<1>2. CASE Download(a)
  <2>1. pc' = [pc EXCEPT ![a] = "storing"] /\ UNCHANGED bronzeVars /\ ~BronzeHeld
    BY <1>2 DEF Download, Goto
  <2>2. pc'[a] = "storing" /\ manifest = NoFile
    BY <1>t, <2>1 DEF ManifestIsTrue, BronzeHeld
  <2> QED BY <1>t, <2>1, <2>2 DEF FilesInv, ManifestIsTrue, Scanned
<1>3. CASE StoreBronze(a)
  <2>1. /\ pc[a] = "storing" /\ Proceed(a, "describing") /\ bronze' = local[a].content
        /\ UNCHANGED manifest
    BY <1>3 DEF StoreBronze
  <2>2. pc'[a] = "describing" /\ manifest = NoFile /\ local'[a] = local[a]
    BY <1>t, <2>1, ProceedStep DEF FilesInv
  <2> QED BY <1>t, <2>1, <2>2 DEF FilesInv, ManifestIsTrue, Scanned
<1>4. CASE WriteManifest(a)
  <2>1. /\ pc[a] = "describing" /\ Proceed(a, "scanning") /\ manifest' = local[a].content
        /\ UNCHANGED bronze
    BY <1>4 DEF WriteManifest
  <2>2. pc'[a] = "scanning" /\ bronze = local[a].content
    BY <1>t, <2>1, ProceedStep DEF FilesInv
  <2> QED BY <1>t, <2>1, <2>2 DEF FilesInv, ManifestIsTrue, Scanned
<1> QED BY <1>1, <1>2, <1>3, <1>4 DEF Fetch

LEMMA ValidateFiles ==
  ASSUME TypeInv, RunInv, NEW a \in Attempts, Validate(a)
  PROVE  ManifestIsTrue' /\ FilesInv(a)'
<1>t. /\ local \in [Attempts -> Locals] /\ pc \in [Attempts -> PcStates]
      /\ FilesInv(a) /\ ManifestIsTrue
      /\ Scanned \cup {"scanning", "completing"} \subseteq PcStates
  BY DEF TypeInv, TypeOK, RunInv, PcStates, InTry, Scanned
<1>m. UNCHANGED bronzeVars
  BY DEF Validate, Scan, PublishSilver, DropQuarantine, QuarantineSource,
         PlaceInvalidRows, WriteReport
<1>s. ManifestIsTrue'
  BY <1>m, <1>t DEF ManifestIsTrue
<1>l. ASSUME local'[a] = local[a]
      PROVE  /\ Gated(a)' <=> Gated(a)
             /\ Source(a)' = Source(a) /\ Output(a)' = Output(a)
             /\ local'[a].content = local[a].content
             /\ invalid' = invalid => (InvalidPlaced(a)' <=> InvalidPlaced(a))
  BY <1>l, <1>m DEF Gated, Accepted, Source, Output, InvalidPlaced
<1>1. CASE Scan(a)
  <2> DEFINE l == [local[a] EXCEPT !.content = Source(a)]
  <2>1. /\ pc' = [pc EXCEPT ![a] = IF Accepted(Source(a), local[a].policy)
                                   THEN "publishing" ELSE "quarantining"]
        /\ local' = [local EXCEPT ![a] = l]
    BY <1>1 DEF Scan, Goto
  <2>2. local'[a] = l /\ l.content = Source(a) /\ l.policy = local[a].policy
        /\ l.file = local[a].file
    BY <1>t, <2>1 DEF Locals
  <2> HIDE DEF l
  <2>3. Gated(a)' <=> Accepted(Source(a), local[a].policy)
    BY <2>2 DEF Gated, Accepted
  <2>4. Source(a)' = Source(a) /\ local'[a].content = Source(a)
    BY <1>m, <2>2 DEF Source
  <2>5. pc'[a] = IF Accepted(Source(a), local[a].policy) THEN "publishing" ELSE "quarantining"
    BY <1>t, <2>1
  <2> QED BY <1>s, <2>3, <2>4, <2>5 DEF FilesInv
<1>2. CASE PublishSilver(a)
  <2>1. pc[a] = "publishing" /\ Proceed(a, "clearing") /\ silver' = Output(a)
    BY <1>2 DEF PublishSilver
  <2>2. pc'[a] = "clearing" /\ local'[a] = local[a]
    BY <1>t, <2>1, ProceedStep DEF Scanned
  <2> QED BY <1>l, <1>s, <1>t, <2>1, <2>2 DEF FilesInv, Scanned
<1>3. CASE DropQuarantine(a)
  <2>1. pc[a] = "clearing" /\ Proceed(a, "placing") /\ silver' = silver /\ quarantine' = NoFile
    BY <1>3 DEF DropQuarantine
  <2>2. pc'[a] = "placing" /\ local'[a] = local[a]
    BY <1>t, <2>1, ProceedStep DEF Scanned
  <2>3. Placed(a)'
    BY <1>l, <1>t, <2>1, <2>2 DEF FilesInv, Placed
  <2> QED BY <1>l, <1>s, <1>t, <2>1, <2>2, <2>3 DEF FilesInv, Scanned
<1>4. CASE QuarantineSource(a)
  <2>1. pc[a] = "quarantining" /\ Proceed(a, "placing") /\ quarantine' = Source(a)
    BY <1>4 DEF QuarantineSource
  <2>2. pc'[a] = "placing" /\ local'[a] = local[a]
    BY <1>t, <2>1, ProceedStep DEF Scanned
  <2>3. Placed(a)'
    BY <1>l, <1>t, <2>1, <2>2 DEF FilesInv, Placed, Scanned
  <2> QED BY <1>l, <1>s, <1>t, <2>1, <2>2, <2>3 DEF FilesInv, Scanned
<1>5. CASE PlaceInvalidRows(a)
  <2>1. /\ pc[a] = "placing" /\ Proceed(a, "reporting") /\ silver' = silver
        /\ quarantine' = quarantine
        /\ invalid' = IF Invalid[local[a].content, local[a].policy] > 0
                      THEN Output(a) ELSE NoFile
    BY <1>5 DEF PlaceInvalidRows
  <2>2. pc'[a] = "reporting" /\ local'[a] = local[a]
    BY <1>t, <2>1, ProceedStep DEF Scanned
  <2>3. Placed(a)'
    BY <1>l, <1>t, <2>1, <2>2 DEF FilesInv, Placed
  <2>4. InvalidPlaced(a)'
    BY <1>l, <2>1, <2>2 DEF InvalidPlaced
  <2> QED BY <1>l, <1>s, <1>t, <2>1, <2>2, <2>3, <2>4 DEF FilesInv, Scanned
<1>6. CASE WriteReport(a)
  <2> DEFINE written == [source |-> Source(a), policy |-> local[a].policy,
                         status |-> Status(local[a].content, local[a].policy)]
             l == [local[a] EXCEPT !.report = written]
  <2>1. /\ pc[a] = "reporting" /\ report' = written /\ UNCHANGED outputVars
        /\ IF local[a].row = 0 THEN End(a, "returned")
           ELSE local' = [local EXCEPT ![a] = l] /\ pc' = [pc EXCEPT ![a] = "completing"]
    BY <1>6 DEF WriteReport, Goto
  <2>2. Placed(a) /\ InvalidPlaced(a) /\ local[a].content = Source(a)
    BY <1>t, <2>1 DEF FilesInv, Scanned
  <2>3. CASE local[a].row = 0
    <3>1. pc'[a] = "returned"
      BY <1>t, <2>1, <2>3 DEF End, Goto
    <3> QED BY <1>s, <3>1, PassiveFiles DEF Passive, Ended
  <2>4. CASE local[a].row # 0
    <3>1. PICK w : w = written
      OBVIOUS
    <3>2. pc'[a] = "completing" /\ local'[a].report = w
      BY <1>t, <2>1, <2>4, <3>1 DEF Locals
    <3>3. /\ w.source = local[a].content /\ w.policy = local[a].policy
          /\ w.status = "accepted" <=> Gated(a)
          /\ report' = [source |-> w.source, policy |-> w.policy, status |-> w.status]
      BY <2>1, <2>2, <3>1 DEF Status, Gated
    <3> HIDE DEF written, l
    <3>4. /\ invalid' = IF Invalid[w.source, w.policy] > 0
                        THEN [source |-> w.source, policy |-> w.policy] ELSE NoFile
          /\ IF w.status = "accepted"
             THEN /\ silver' = [source |-> w.source, policy |-> w.policy]
                  /\ quarantine' = NoFile
             ELSE quarantine' = w.source
      BY <2>1, <2>2, <3>3 DEF InvalidPlaced, Placed, Output
    <3>5. FilesMatch(w)'
      BY <3>3, <3>4 DEF FilesMatch
    <3> QED BY <1>s, <3>2, <3>5 DEF FilesInv, Scanned
  <2> QED BY <2>3, <2>4
<1> QED BY <1>1, <1>2, <1>3, <1>4, <1>5, <1>6 DEF Validate

LEMMA RunStep ==
  ASSUME limit = 1, TypeInv, RunInv, [Next]_vars
  PROVE  RunInv'
<1>1. ASSUME NEW a \in Attempts, ManifestIsTrue', FilesInv(a)',
             \/ Fetch(a) \/ Validate(a) \/ Leave(a)
             \/ \E file \in Revisions \cup {NoFile}, policy \in Policies, lineage \in BOOLEAN :
                  Start(a, file, policy, lineage)
      PROVE  RunInv'
  <2>1. AloneInv' /\ \A b \in Attempts \ {a} : FilesInv(b)'
    BY <1>1, AloneStep DEF RunInv
  <2> QED BY <1>1, <2>1 DEF RunInv
<1>t. local \in [Attempts -> Locals] /\ pc \in [Attempts -> PcStates]
  BY DEF TypeInv, TypeOK
<1>2. ASSUME NEW a \in Attempts, NEW file \in Revisions \cup {NoFile},
             NEW policy \in Policies, NEW lineage \in BOOLEAN, Start(a, file, policy, lineage)
      PROVE  RunInv'
  <2>1. UNCHANGED bronzeVars
        /\ pc' = [pc EXCEPT ![a] = IF file = NoFile THEN "fetching" ELSE "scanning"]
    BY <1>2 DEF Start, Goto
  <2>2. pc'[a] \in {"fetching", "scanning"}
    BY <1>t, <2>1
  <2>3. FilesInv(a)'
    BY <2>2 DEF FilesInv, Scanned
  <2>4. ManifestIsTrue'
    BY <2>1 DEF RunInv, ManifestIsTrue
  <2> QED BY <1>1, <1>2, <2>3, <2>4
<1>3. ASSUME NEW a \in Attempts, Leave(a)
      PROVE  RunInv'
  <2>1. UNCHANGED bronzeVars
    BY <1>3 DEF Leave, CompleteRun, Raise, FailRun, Stop, Finish
  <2>2. pc'[a] \in {"failing"} \cup Ended
    <3>1. ASSUME NEW how \in Ended, End(a, how) PROVE pc'[a] \in Ended
      BY <1>t, <3>1 DEF End, Goto
    <3>2. Proceed(a, "failing") => pc'[a] = "failing"
      BY <1>t DEF Proceed, Goto
    <3> QED BY <1>3, <3>1, <3>2 DEF Leave, CompleteRun, Raise, FailRun, Stop, Ended
  <2>3. FilesInv(a)'
    BY <2>2 DEF FilesInv, Scanned, Ended
  <2>4. ManifestIsTrue'
    BY <2>1 DEF RunInv, ManifestIsTrue
  <2> QED BY <1>1, <1>3, <2>3, <2>4
<1>4. CASE \E r \in Revisions : Republish(r)
  <2>1. UNCHANGED <<bronzeVars, outputVars, report, rows, pc, local>>
    BY <1>4 DEF Republish
  <2> QED BY <2>1 DEF RunInv, AloneInv, Passive, ManifestIsTrue, FilesInv, Gated,
                      Accepted, Placed, InvalidPlaced, Output, Source, FilesMatch
<1>5. CASE UNCHANGED vars
  BY <1>5 DEF RunInv, AloneInv, Passive, ManifestIsTrue, FilesInv, Gated,
              Accepted, Placed, InvalidPlaced, Output, Source, FilesMatch
<1> QED BY <1>1, <1>2, <1>3, <1>4, <1>5, FetchFiles, ValidateFiles DEF Next, Step

LEMMA LimitStep == [Next]_vars => UNCHANGED limit
BY DEF Next

LEMMA SerialStep == TypeInv /\ (limit = 1 => RunInv) /\ [Next]_vars => (limit = 1 => RunInv)'
BY RunStep, LimitStep

LEMMA RunInit == Init => RunInv
<1> SUFFICES ASSUME Init
             PROVE  RunInv
  OBVIOUS
<1>1. \A a \in Attempts : pc[a] = "idle"
  BY DEF Init
<1>2. manifest = NoFile
  BY DEF Init
<1> QED BY <1>1, <1>2 DEF RunInv, AloneInv, Passive, ManifestIsTrue, FilesInv, Scanned

(* With one attempt at a time, a manifest always describes the object      *)
(* beside it.                                                              *)
THEOREM ManifestCorrect == Spec => []ManifestMatchesBronze
<1>1. (limit = 1 => RunInv) => ManifestMatchesBronze
  BY DEF RunInv, ManifestIsTrue, ManifestMatchesBronze
<1> QED BY <1>1, TypeInit, TypeStep, RunInit, SerialStep, PTL DEF Spec

(* With one attempt at a time, a run is recorded as accepted or            *)
(* quarantined only when all the files are those of its scan.              *)
THEOREM RecordedCorrect == Spec => RecordedRunsDescribeTheFiles
<1> DEFINE Recorded == limit = 1 =>
       \A i \in 1..Len(rows) :
         (rows[i].status = "running" /\ rows'[i].status \in {"accepted", "quarantined"})
           => FilesMatch(rows'[i])
<1>2. ASSUME TypeInv, RunInv, [Next]_vars
      PROVE  Recorded
  <2> SUFFICES ASSUME NEW i \in 1..Len(rows), rows[i].status = "running",
                      rows'[i].status \in {"accepted", "quarantined"}
               PROVE  FilesMatch(rows'[i])
    OBVIOUS
  <2>t. rows \in Seq(LineageRows) /\ Len(rows) \in Nat
    BY <1>2, LenProperties DEF TypeInv, TypeOK
  <2>1. rows'[i] # rows[i]
    OBVIOUS
  <2>2. ASSUME NEW a \in Attempts, NEW file \in Revisions \cup {NoFile},
               NEW policy \in Policies, NEW lineage \in BOOLEAN, Start(a, file, policy, lineage)
        PROVE  rows'[i] = rows[i]
    <3>1. [status |-> "running", source |-> NoFile, policy |-> policy] \in LineageRows
      BY DEF LineageRows, Files
    <3> QED BY <2>2, <2>t, <3>1, AppendProperties DEF Start
  <2>3. ASSUME NEW a \in Attempts, Fetch(a) \/ Validate(a)
        PROVE  rows' = rows
    BY <2>3 DEF Fetch, Validate, ReuseBronze, Download, StoreBronze, WriteManifest, Scan,
                PublishSilver, DropQuarantine, QuarantineSource, PlaceInvalidRows, WriteReport
  <2>4. ASSUME NEW a \in Attempts, FailRun(a)
        PROVE  rows'[i] = rows[i] \/ rows'[i].status = "failed"
    <3>1. rows' = [rows EXCEPT ![local[a].row] = [rows[local[a].row] EXCEPT !.status = "failed"]]
      BY <2>4 DEF FailRun, Finish
    <3>2. CASE i = local[a].row
      <4>1. rows[i] \in LineageRows
        BY <2>t, ElementOfSeq
      <4>2. PICK r \in LineageRows : r = rows[i]
        BY <4>1
      <4>3. i \in DOMAIN rows /\ rows'[i] = [r EXCEPT !.status = "failed"]
        BY <2>t, <3>1, <3>2, <4>2
      <4> QED BY <4>3 DEF LineageRows
    <3>3. CASE i # local[a].row
      BY <2>t, <3>1, <3>3
    <3> QED BY <3>2, <3>3
  <2>5. ASSUME NEW a \in Attempts, CompleteRun(a), rows'[i] # rows[i]
        PROVE  FilesMatch(rows'[i])
    <3> DEFINE row == [status |-> local[a].report.status, source |-> local[a].report.source,
                       policy |-> local[a].report.policy]
    <3>1. pc[a] = "completing" /\ rows' = [rows EXCEPT ![local[a].row] = row]
      BY <2>5 DEF CompleteRun, Finish
    <3>2. i = local[a].row /\ rows'[i] = row
      BY <2>t, <2>5, <3>1
    <3>3. PICK w : w = local[a].report
      OBVIOUS
    <3>4. FilesMatch(w)
      BY <1>2, <3>1, <3>3 DEF RunInv, FilesInv
    <3>5. row.source = w.source /\ row.policy = w.policy /\ row.status = w.status
      BY <3>3
    <3> HIDE DEF row
    <3>6. PICK r : r = rows'[i]
      OBVIOUS
    <3>7. r.source = w.source /\ r.policy = w.policy /\ r.status = w.status
      BY <3>2, <3>5, <3>6
    <3>8. FilesMatch(r)
      BY <3>4, <3>7 DEF FilesMatch
    <3> QED BY <3>6, <3>8
  <2>6. ASSUME NEW a \in Attempts, Raise(a) \/ Stop(a)
        PROVE  rows' = rows
    BY <2>6 DEF Raise, Stop
  <2>7. (\E r \in Revisions : Republish(r)) \/ UNCHANGED vars => rows' = rows
    BY DEF Republish
  <2> QED BY <1>2, <2>1, <2>2, <2>3, <2>4, <2>5, <2>6, <2>7 DEF Next, Step, Leave
<1>3. TypeInv /\ (limit = 1 => RunInv) /\ [Next]_vars => [Recorded]_vars
  BY <1>2
<1> QED BY <1>3, TypeInit, TypeStep, RunInit, SerialStep, PTL
        DEF Spec, RecordedRunsDescribeTheFiles

------------------------------------------------------------------------------
(* The lineage rows, for any number of attempts at the same time.          *)

(* A step of an attempt that has started: it goes on and leaves the rows   *)
(* alone, or ends and leaves them alone, or ends and finishes its own row. *)
Records(a, row) ==
  /\ local[a].row \in 1 .. Len(rows)
  /\ rows[local[a].row].status = "running"
  /\ rows' = [rows EXCEPT ![local[a].row] = row]
  /\ \/ row.status = "failed" /\ pc'[a] = "stopped"
     \/ /\ pc[a] = "completing" /\ pc'[a] \in Ended
        /\ row = [status |-> local[a].report.status, source |-> local[a].report.source,
                  policy |-> local[a].report.policy]

LEMMA AttemptStep ==
  ASSUME TypeInv, NEW a \in Attempts, Fetch(a) \/ Validate(a) \/ Leave(a)
  PROVE  /\ pc[a] \in Running
         /\ \A b \in Attempts \ {a} : pc'[b] = pc[b] /\ local'[b] = local[b]
         /\ \/ rows' = rows /\ pc'[a] \in Running /\ local'[a].row = local[a].row
            \/ rows' = rows /\ pc'[a] \in Ended /\ (pc'[a] = "returned" => local[a].row = 0)
            \/ pc'[a] \in Ended /\ \E row \in LineageRows : Records(a, row)
<1>t. /\ local \in [Attempts -> Locals] /\ pc \in [Attempts -> PcStates]
      /\ rows \in Seq(LineageRows) /\ Len(rows) \in Nat /\ LocalsInv(a)
  BY LenProperties DEF TypeInv, TypeOK
<1>p. Running \subseteq PcStates /\ InTry \subseteq Running
      /\ "returned" \in Ended /\ "stopped" \in Ended
  BY DEF Running, PcStates, InTry, Ended
<1>1. ASSUME NEW to \in Running, Proceed(a, to), pc[a] \in Running, rows' = rows
      PROVE  /\ \A b \in Attempts \ {a} : pc'[b] = pc[b] /\ local'[b] = local[b]
             /\ rows' = rows /\ pc'[a] \in Running /\ local'[a].row = local[a].row
  BY <1>1, <1>p, ProceedStep
<1>2. ASSUME NEW how \in Ended, End(a, how)
      PROVE  /\ \A b \in Attempts \ {a} : pc'[b] = pc[b] /\ local'[b] = local[b]
             /\ pc'[a] = how
  BY <1>2, <1>t, EndStep DEF End, Goto
<1>3. ASSUME NEW to \in Running, pc' = [pc EXCEPT ![a] = to], NEW l \in Locals,
             local' = [local EXCEPT ![a] = l], l.row = local[a].row
      PROVE  /\ \A b \in Attempts \ {a} : pc'[b] = pc[b] /\ local'[b] = local[b]
             /\ pc'[a] \in Running /\ local'[a].row = local[a].row
  BY <1>3, <1>t
<1>4. CASE ReuseBronze(a) \/ StoreBronze(a) \/ WriteManifest(a)
  BY <1>1, <1>4 DEF ReuseBronze, StoreBronze, WriteManifest, Running, InTry
<1>5. CASE Download(a)
  <2>1. /\ pc[a] = "fetching" /\ pc' = [pc EXCEPT ![a] = "storing"] /\ rows' = rows
        /\ local' = [local EXCEPT ![a] = [local[a] EXCEPT !.content = upstream]]
    BY <1>5 DEF Download, Goto
  <2>2. PICK l : l = [local[a] EXCEPT !.content = upstream]
    OBVIOUS
  <2>3. l \in Locals /\ l.row = local[a].row
    BY <1>t, <2>2 DEF TypeInv, TypeOK, Locals, Files
  <2> QED BY <1>3, <2>1, <2>2, <2>3 DEF Running, InTry
<1>6. CASE Scan(a)
  <2>1. /\ pc[a] = "scanning" /\ rows' = rows
        /\ pc' = [pc EXCEPT ![a] = IF Accepted(Source(a), local[a].policy)
                                   THEN "publishing" ELSE "quarantining"]
        /\ local' = [local EXCEPT ![a] = [local[a] EXCEPT !.content = Source(a)]]
    BY <1>6 DEF Scan, Goto
  <2>2. PICK l : l = [local[a] EXCEPT !.content = Source(a)]
    OBVIOUS
  <2>3. Source(a) \in Files
    BY <1>t DEF Source, TypeInv, TypeOK, Locals
  <2>4. l \in Locals /\ l.row = local[a].row
    BY <1>t, <2>2, <2>3 DEF Locals
  <2>5. PICK to \in Running : pc' = [pc EXCEPT ![a] = to]
    <3>1. "publishing" \in Running /\ "quarantining" \in Running
      BY DEF Running, InTry
    <3> QED BY <2>1, <3>1
  <2> QED BY <1>3, <2>1, <2>2, <2>4, <2>5 DEF Running, InTry
<1>7. CASE PublishSilver(a) \/ DropQuarantine(a) \/ QuarantineSource(a) \/ PlaceInvalidRows(a)
  BY <1>1, <1>7 DEF PublishSilver, DropQuarantine, QuarantineSource, PlaceInvalidRows,
                    Running, InTry
<1>8. CASE WriteReport(a)
  <2> DEFINE written == [source |-> Source(a), policy |-> local[a].policy,
                         status |-> Status(local[a].content, local[a].policy)]
  <2>1. /\ pc[a] = "reporting" /\ rows' = rows
        /\ IF local[a].row = 0 THEN End(a, "returned")
           ELSE /\ local' = [local EXCEPT ![a] = [local[a] EXCEPT !.report = written]]
                /\ pc' = [pc EXCEPT ![a] = "completing"]
    BY <1>8 DEF WriteReport, Goto
  <2>2. written \in Reports
    BY <1>t, <2>1, OutputType DEF LocalsInv, Running, InTry, Scanned, Reports, Status
  <2>3. PICK l : l = [local[a] EXCEPT !.report = written]
    OBVIOUS
  <2>4. l \in Locals /\ l.row = local[a].row
    BY <1>t, <2>2, <2>3 DEF Locals
  <2> HIDE DEF written
  <2>5. CASE local[a].row = 0
    BY <1>2, <1>p, <2>1, <2>5 DEF InTry
  <2>6. CASE local[a].row # 0
    BY <1>3, <2>1, <2>3, <2>4, <2>6 DEF Running, InTry
  <2> QED BY <2>5, <2>6
<1>9. ASSUME pc[a] \in {"completing", "failing"}, NEW row, Finish(a, row)
      PROVE  /\ local[a].row \in 1 .. Len(rows)
             /\ rows[local[a].row].status = "running"
             /\ rows' = [rows EXCEPT ![local[a].row] = row]
  BY <1>9, <1>t DEF LocalsInv, Running, Finish
<1>10. CASE CompleteRun(a)
  <2>1. PICK row : row = [status |-> local[a].report.status, source |-> local[a].report.source,
                          policy |-> local[a].report.policy]
    OBVIOUS
  <2>2. pc[a] = "completing" /\ Finish(a, row) /\ \E how \in Ended : End(a, how)
    BY <1>10, <2>1 DEF CompleteRun
  <2>3. row \in LineageRows
    <3>1. local[a].report \in Reports
      BY <1>t, <2>2 DEF LocalsInv
    <3> QED BY <2>1, <3>1 DEF Reports, LineageRows, Files
  <2>4. pc'[a] \in Ended
    BY <1>2, <2>2
  <2>5. Records(a, row)
    BY <1>9, <2>1, <2>2, <2>4 DEF Records
  <2> QED BY <1>2, <2>2, <2>3, <2>4, <2>5 DEF Running
<1>11. CASE Raise(a)
  <2>1. /\ pc[a] \in InTry /\ rows' = rows
        /\ IF local[a].row = 0 THEN End(a, "stopped") ELSE Proceed(a, "failing")
    BY <1>11 DEF Raise
  <2>2. "failing" \in Running
    BY DEF Running
  <2> QED BY <1>1, <1>2, <1>p, <2>1, <2>2
<1>12. CASE FailRun(a)
  <2>1. PICK row : row = [rows[local[a].row] EXCEPT !.status = "failed"]
    OBVIOUS
  <2>2. pc[a] = "failing" /\ Finish(a, row) /\ End(a, "stopped")
    BY <1>12, <2>1 DEF FailRun
  <2>3. local[a].row \in 1 .. Len(rows)
    BY <1>9, <2>2
  <2>4. rows[local[a].row] \in LineageRows
    BY <1>t, <2>3, ElementOfSeq
  <2>5. row \in LineageRows /\ row.status = "failed"
    BY <2>1, <2>4 DEF LineageRows
  <2>6. Records(a, row)
    BY <1>2, <1>9, <1>p, <2>2, <2>5 DEF Records
  <2> QED BY <1>2, <1>p, <2>2, <2>5, <2>6 DEF Running
<1>13. CASE Stop(a)
  <2>1. pc[a] \in Running
    BY <1>t, <1>13 DEF Stop, Active, PcStates, Running
  <2>2. End(a, "stopped") /\ rows' = rows
    BY <1>13 DEF Stop
  <2> QED BY <1>2, <1>p, <2>1, <2>2
<1> QED BY <1>4, <1>5, <1>6, <1>7, <1>8, <1>10, <1>11, <1>12, <1>13
        DEF Fetch, Validate, Leave

(* Whose row is whose: the row of an attempt that has not ended is running *)
(* and is no other attempt's.                                              *)
RowOwned(a) ==
  pc[a] \in Running /\ local[a].row # 0 =>
    /\ rows[local[a].row].status = "running"
    /\ \A b \in Attempts \ {a} : pc[b] \in Running => local[b].row # local[a].row

RowsInv == \A a \in Attempts : RowOwned(a)

LEMMA RowsStep == TypeInv /\ RowsInv /\ [Next]_vars => RowsInv'
<1> SUFFICES ASSUME TypeInv, RowsInv, [Next]_vars
             PROVE  RowsInv'
  OBVIOUS
<1>t. /\ rows \in Seq(LineageRows) /\ Len(rows) \in Nat /\ pc \in [Attempts -> PcStates]
      /\ local \in [Attempts -> Locals]
      /\ \A b \in Attempts : RowOwned(b) /\ LocalsInv(b)
  BY LenProperties DEF TypeInv, TypeOK, RowsInv
<1>e. Ended \cap Running = {}
  BY DEF Ended, Running, InTry
<1>1. ASSUME NEW a \in Attempts, NEW file \in Revisions \cup {NoFile},
             NEW policy \in Policies, NEW lineage \in BOOLEAN, Start(a, file, policy, lineage)
      PROVE  RowsInv'
  <2> DEFINE new == [status |-> "running", source |-> NoFile, policy |-> policy]
  <2>1. /\ rows' = IF lineage THEN Append(rows, new) ELSE rows
        /\ local' = [local EXCEPT ![a] = [local[a] EXCEPT !.file = file, !.policy = policy,
                         !.row = IF lineage THEN Len(rows) + 1 ELSE 0]]
        /\ pc' = [pc EXCEPT ![a] = IF file = NoFile THEN "fetching" ELSE "scanning"]
    BY <1>1 DEF Start, Goto
  <2>2. /\ \A b \in Attempts \ {a} : pc'[b] = pc[b] /\ local'[b] = local[b]
        /\ local'[a].row = IF lineage THEN Len(rows) + 1 ELSE 0
    BY <1>t, <2>1 DEF Locals
  <2>3. \A i \in 1 .. Len(rows) : rows'[i] = rows[i]
    <3>1. new \in LineageRows
      BY DEF LineageRows, Files
    <3> QED BY <1>t, <2>1, <3>1, AppendProperties
  <2>4. lineage => rows'[Len(rows) + 1].status = "running"
    <3>1. new \in LineageRows /\ new.status = "running"
      BY DEF LineageRows, Files
    <3> QED BY <1>t, <2>1, <3>1, AppendProperties
  <2>5. \A b \in Attempts \ {a} : pc'[b] \in Running => local'[b].row \in 0 .. Len(rows)
    BY <1>t, <2>2 DEF LocalsInv
  <2>6. RowOwned(a)'
    BY <1>t, <2>2, <2>4, <2>5 DEF RowOwned
  <2>7. ASSUME NEW b \in Attempts \ {a}
        PROVE  RowOwned(b)'
    <3>1. RowOwned(b) /\ pc'[b] = pc[b] /\ local'[b] = local[b]
      BY <1>t, <2>2
    <3>2. \A c \in Attempts \ {b} : pc'[b] \in Running /\ local'[b].row # 0 /\ pc'[c] \in Running
                                      => local'[c].row # local'[b].row
      <4>1. CASE lineage
        BY <1>t, <2>2, <2>5, <3>1, <4>1 DEF RowOwned
      <4>2. CASE ~lineage
        BY <1>t, <2>2, <2>5, <3>1, <4>2 DEF RowOwned
      <4> QED BY <4>1, <4>2
    <3>3. pc'[b] \in Running /\ local'[b].row # 0 => rows'[local'[b].row] = rows[local[b].row]
      BY <1>t, <2>3, <2>5, <3>1
    <3> QED BY <3>1, <3>2, <3>3 DEF RowOwned
  <2> QED BY <2>6, <2>7 DEF RowsInv
<1>2. ASSUME NEW a \in Attempts, Fetch(a) \/ Validate(a) \/ Leave(a)
      PROVE  RowsInv'
  <2>1. pc[a] \in Running /\ \A b \in Attempts \ {a} : pc'[b] = pc[b] /\ local'[b] = local[b]
    BY <1>2, AttemptStep
  <2>2. CASE rows' = rows /\ pc'[a] \in Running /\ local'[a].row = local[a].row
    BY <1>t, <2>1, <2>2 DEF RowOwned, RowsInv
  <2>3. CASE rows' = rows /\ pc'[a] \in Ended
    BY <1>e, <1>t, <2>1, <2>3 DEF RowOwned, RowsInv
  <2>4. CASE pc'[a] \in Ended /\ \E row \in LineageRows : Records(a, row)
    <3>1. /\ local[a].row \in 1 .. Len(rows)
          /\ \E row : rows' = [rows EXCEPT ![local[a].row] = row]
      BY <2>4 DEF Records
    <3>2. \A i \in 1 .. Len(rows) : i # local[a].row => rows'[i] = rows[i]
      BY <1>t, <3>1
    <3>3. ASSUME NEW b \in Attempts \ {a}, pc[b] \in Running, local[b].row # 0
          PROVE  rows'[local[b].row] = rows[local[b].row]
      <4>1. local[b].row \in 1 .. Len(rows)
        BY <1>t, <3>3 DEF LocalsInv
      <4>2. local[b].row # local[a].row
        BY <1>t, <2>1, <3>3 DEF RowOwned
      <4> QED BY <3>2, <4>1, <4>2
    <3> QED BY <1>e, <1>t, <2>1, <2>4, <3>3 DEF RowOwned, RowsInv
  <2> QED BY <1>2, <2>2, <2>3, <2>4, AttemptStep
<1>3. CASE (\E r \in Revisions : Republish(r)) \/ UNCHANGED vars
  <2>1. UNCHANGED <<rows, pc, local>>
    BY <1>3 DEF Republish
  <2> QED BY <1>t, <2>1 DEF RowsInv, RowOwned
<1> QED BY <1>1, <1>2, <1>3 DEF Next, Step

LEMMA RowsInit == Init => RowsInv
<1>1. Init => \A a \in Attempts : pc[a] = "idle"
  BY DEF Init
<1> QED BY <1>1 DEF RowsInv, RowOwned, Running, InTry

(* However attempts overlap, fail or are killed, complete_run and fail_run *)
(* always find the row they update running, and it is the row their own    *)
(* attempt started: neither raises LineageError for what another one did.  *)
OwnRowIsRunning ==
  \A a \in Attempts : pc[a] \in {"completing", "failing"} =>
    /\ local[a].row \in 1 .. Len(rows) /\ rows[local[a].row].status = "running"
    /\ \A b \in Attempts \ {a} : pc[b] \in Running => local[b].row # local[a].row

(* See OwnRowIsRunning: complete_run and fail_run never miss their row. *)
THEOREM OwnRowsFound == Spec => []OwnRowIsRunning
<1>1. TypeInv /\ RowsInv => OwnRowIsRunning
  BY DEF TypeInv, LocalsInv, RowsInv, RowOwned, OwnRowIsRunning, Running
<1> QED BY <1>1, TypeInit, TypeStep, RowsInit, RowsStep, PTL DEF Spec

(* The ledger, for any number of attempts at the same time. *)
THEOREM LedgerCorrect == Spec => LedgerIsAppendOnly
<1>1. ASSUME TypeInv, Next
      PROVE  LedgerStep
  <2>t. /\ rows \in Seq(LineageRows) /\ Len(rows) \in Nat /\ pc \in [Attempts -> PcStates]
        /\ \A b \in Attempts : LocalsInv(b)
    BY <1>1, LenProperties DEF TypeInv, TypeOK
  <2>e. Ended \cap Running = {} /\ "returned" \in Ended
    BY DEF Ended, Running, InTry
  <2>1. ASSUME NEW a \in Attempts, NEW file \in Revisions \cup {NoFile},
               NEW policy \in Policies, NEW lineage \in BOOLEAN, Start(a, file, policy, lineage)
        PROVE  LedgerStep
    <3> DEFINE new == [status |-> "running", source |-> NoFile, policy |-> policy]
    <3>1. /\ rows' = IF lineage THEN Append(rows, new) ELSE rows
          /\ pc' = [pc EXCEPT ![a] = IF file = NoFile THEN "fetching" ELSE "scanning"]
      BY <2>1 DEF Start, Goto
    <3>2. new \in LineageRows
      BY DEF LineageRows, Files
    <3>3. Len(rows) <= Len(rows') /\ \A i \in 1 .. Len(rows) : rows'[i] = rows[i]
      BY <2>t, <3>1, <3>2, AppendProperties
    <3>4. \A b \in Attempts : pc'[b] = "returned" => pc[b] = "returned"
      BY <2>t, <3>1
    <3> QED BY <2>e, <3>3, <3>4 DEF LedgerStep
  <2>2. ASSUME NEW a \in Attempts, Fetch(a) \/ Validate(a) \/ Leave(a)
        PROVE  LedgerStep
    <3>1. pc[a] \in Running /\ \A b \in Attempts \ {a} : pc'[b] = pc[b]
      BY <1>1, <2>2, AttemptStep
    <3>2. CASE rows' = rows /\ (pc'[a] \in Running \/ (pc'[a] = "returned" => local[a].row = 0))
      BY <2>e, <2>t, <3>1, <3>2 DEF LedgerStep
    <3>3. CASE pc'[a] \in Ended /\ \E row \in LineageRows : Records(a, row)
      <4>1. PICK row \in LineageRows : Records(a, row)
        BY <3>3
      <4>2. /\ local[a].row \in 1 .. Len(rows) /\ rows[local[a].row].status = "running"
            /\ rows' = [rows EXCEPT ![local[a].row] = row]
        BY <4>1 DEF Records
      <4>3. /\ rows'[local[a].row] = row /\ Len(rows') = Len(rows)
            /\ \A i \in 1 .. Len(rows) : i # local[a].row => rows'[i] = rows[i]
        BY <2>t, <4>2, ExceptSeq
      <4>4. /\ row.status # "running"
            /\ pc'[a] = "returned" => row.status \in {"accepted", "quarantined"}
        <5>1. CASE row.status = "failed" /\ pc'[a] = "stopped"
          BY <5>1
        <5>2. CASE pc[a] = "completing" /\ row.status = local[a].report.status
          BY <2>t, <5>2 DEF LocalsInv, Reports
        <5> QED BY <4>1, <5>1, <5>2 DEF Records
      <4> QED BY <2>e, <2>t, <3>1, <3>3, <4>2, <4>3, <4>4 DEF LedgerStep
    <3> QED BY <1>1, <2>2, <3>2, <3>3, AttemptStep
  <2>3. CASE \E r \in Revisions : Republish(r)
    BY <2>3, <2>e, <2>t DEF Republish, LedgerStep
  <2> QED BY <1>1, <2>1, <2>2, <2>3 DEF Next, Step
<1>2. TypeInv /\ [Next]_vars => [LedgerStep]_vars
  BY <1>1
<1> HIDE DEF LedgerStep
<1> QED BY <1>2, TypeInit, TypeStep, PTL DEF Spec, LedgerIsAppendOnly

------------------------------------------------------------------------------
(* What a recorded run says, with one attempt at a time: the verdict of    *)
(* the gate on the very revision whose checksum the row holds.  Attempts   *)
(* that overlap can break it: the report takes its counts from the scan    *)
(* and its checksum from a later reading of the path.                      *)

RecordedVerdictsAreTheGates ==
  \A i \in 1 .. Len(rows) :
    rows[i].status \in {"accepted", "quarantined"}
      => rows[i].status = Status(rows[i].source, rows[i].policy)

ReportedVerdicts ==
  \A a \in Attempts :
    pc[a] = "completing"
      => local[a].report.status = Status(local[a].report.source, local[a].report.policy)

VerdictInv == RecordedVerdictsAreTheGates /\ ReportedVerdicts

(* Only WriteReport comes to "completing", with the verdict of the scan. *)
LEMMA ReportedStep ==
  ASSUME TypeInv, RunInv, ReportedVerdicts, NEW a \in Attempts,
         Fetch(a) \/ Validate(a) \/ Leave(a)
  PROVE  ReportedVerdicts'
<1>t. /\ local \in [Attempts -> Locals] /\ pc \in [Attempts -> PcStates] /\ FilesInv(a)
  BY DEF TypeInv, TypeOK, RunInv
<1>o. \A b \in Attempts \ {a} : pc'[b] = pc[b] /\ local'[b] = local[b]
  BY AttemptStep
<1>1. ASSUME NEW w, pc'[a] = "completing" => local'[a].report = w /\ w.status = Status(w.source, w.policy)
      PROVE  ReportedVerdicts'
  BY <1>1, <1>o DEF ReportedVerdicts, Status, Accepted
<1>2. CASE WriteReport(a)
  <2> DEFINE written == [source |-> Source(a), policy |-> local[a].policy,
                         status |-> Status(local[a].content, local[a].policy)]
  <2>1. /\ pc[a] = "reporting"
        /\ IF local[a].row = 0 THEN End(a, "returned")
           ELSE /\ local' = [local EXCEPT ![a] = [local[a] EXCEPT !.report = written]]
                /\ pc' = [pc EXCEPT ![a] = "completing"]
    BY <1>2 DEF WriteReport, Goto
  <2>2. local[a].content = Source(a)
    BY <1>t, <2>1 DEF FilesInv, Scanned
  <2>3. PICK w : w = written
    OBVIOUS
  <2>4. w.status = Status(w.source, w.policy)
    BY <2>2, <2>3
  <2>5. pc'[a] = "completing" => local'[a].report = w
    <3>1. CASE local[a].row = 0
      BY <1>t, <2>1, <3>1 DEF End, Goto
    <3>2. CASE local[a].row # 0
      BY <1>t, <2>1, <2>3, <3>2 DEF Locals
    <3> QED BY <3>1, <3>2
  <2> QED BY <1>1, <2>4, <2>5
<1>3. CASE ~WriteReport(a)
  <2>1. pc'[a] # "completing"
    <3>1. ASSUME NEW to, Goto(a, to) PROVE pc'[a] = to
      BY <1>t, <3>1 DEF Goto
    <3>2. CASE Fetch(a)
      BY <3>1, <3>2 DEF Fetch, ReuseBronze, Download, StoreBronze, WriteManifest, Proceed
    <3>3. CASE Validate(a)
      BY <1>3, <3>1, <3>3 DEF Validate, Scan, PublishSilver, DropQuarantine, QuarantineSource,
                              PlaceInvalidRows, Proceed
    <3>4. CASE Leave(a)
      BY <3>1, <3>4 DEF Leave, CompleteRun, Raise, FailRun, Stop, Proceed, End, Ended
    <3> QED BY <3>2, <3>3, <3>4
  <2> QED BY <1>1, <2>1
<1> QED BY <1>2, <1>3

LEMMA VerdictStep ==
  ASSUME limit = 1, TypeInv, RunInv, VerdictInv, [Next]_vars
  PROVE  VerdictInv'
<1>t. /\ rows \in Seq(LineageRows) /\ Len(rows) \in Nat /\ pc \in [Attempts -> PcStates]
      /\ local \in [Attempts -> Locals] /\ RecordedVerdictsAreTheGates /\ ReportedVerdicts
  BY LenProperties DEF TypeInv, TypeOK, VerdictInv
<1>1. ASSUME NEW a \in Attempts, NEW file \in Revisions \cup {NoFile},
             NEW policy \in Policies, NEW lineage \in BOOLEAN, Start(a, file, policy, lineage)
      PROVE  VerdictInv'
  <2> DEFINE new == [status |-> "running", source |-> NoFile, policy |-> policy]
  <2>1. /\ rows' = IF lineage THEN Append(rows, new) ELSE rows
        /\ local' = [local EXCEPT ![a] = [local[a] EXCEPT !.file = file, !.policy = policy,
                         !.row = IF lineage THEN Len(rows) + 1 ELSE 0]]
        /\ pc' = [pc EXCEPT ![a] = IF file = NoFile THEN "fetching" ELSE "scanning"]
    BY <1>1 DEF Start, Goto
  <2>2. /\ \A b \in Attempts \ {a} : pc'[b] = pc[b] /\ local'[b] = local[b]
        /\ pc'[a] # "completing"
    BY <1>t, <2>1
  <2>3. ReportedVerdicts'
    BY <1>t, <2>2 DEF ReportedVerdicts, Status, Accepted
  <2>4. new \in LineageRows /\ new.status = "running"
    BY DEF LineageRows, Files
  <2>5. ASSUME NEW i \in 1 .. Len(rows')
        PROVE  rows'[i].status = "running" \/ (i \in 1 .. Len(rows) /\ rows'[i] = rows[i])
    <3>1. CASE lineage
      <4>1. /\ Len(rows') = Len(rows) + 1 /\ rows'[Len(rows) + 1] = new
            /\ \A j \in 1 .. Len(rows) : rows'[j] = rows[j]
        BY <1>t, <2>1, <2>4, <3>1, AppendProperties
      <4>2. i = Len(rows) + 1 \/ i \in 1 .. Len(rows)
        BY <1>t, <4>1
      <4> QED BY <2>4, <4>1, <4>2
    <3>2. CASE ~lineage
      BY <2>1, <3>2
    <3> QED BY <3>1, <3>2
  <2>6. RecordedVerdictsAreTheGates'
    BY <1>t, <2>5 DEF RecordedVerdictsAreTheGates, Status, Accepted
  <2> QED BY <2>3, <2>6 DEF VerdictInv
<1>2. ASSUME NEW a \in Attempts, Fetch(a) \/ Validate(a) \/ Leave(a)
      PROVE  VerdictInv'
  <2>1. ReportedVerdicts'
    BY <1>2, <1>t, ReportedStep
  <2>2. CASE rows' = rows
    BY <1>t, <2>1, <2>2 DEF VerdictInv, RecordedVerdictsAreTheGates, Status, Accepted
  <2>3. CASE \E row \in LineageRows : Records(a, row)
    <3>1. PICK row \in LineageRows : Records(a, row)
      BY <2>3
    <3>2. local[a].row \in 1 .. Len(rows) /\ rows' = [rows EXCEPT ![local[a].row] = row]
      BY <3>1 DEF Records
    <3>3. /\ rows'[local[a].row] = row /\ Len(rows') = Len(rows)
          /\ \A i \in 1 .. Len(rows) : i # local[a].row => rows'[i] = rows[i]
      BY <1>t, <3>2, ExceptSeq
    <3>4. row.status # "failed" => row.status = Status(row.source, row.policy)
      <4>1. PICK w : w = local[a].report
        OBVIOUS
      <4>2. CASE row.status = "failed"
        BY <4>2
      <4>3. CASE /\ pc[a] = "completing"
                 /\ row = [status |-> w.status, source |-> w.source, policy |-> w.policy]
        <5>1. w.status = Status(w.source, w.policy)
          BY <1>t, <4>1, <4>3 DEF ReportedVerdicts
        <5>2. row.status = w.status /\ row.source = w.source /\ row.policy = w.policy
          BY <4>3
        <5> QED BY <5>1, <5>2
      <4> QED BY <3>1, <4>1, <4>2, <4>3 DEF Records
    <3>5. RecordedVerdictsAreTheGates'
      BY <1>t, <3>3, <3>4 DEF RecordedVerdictsAreTheGates, Status, Accepted
    <3> QED BY <2>1, <3>5 DEF VerdictInv
  <2> QED BY <1>2, <2>2, <2>3, AttemptStep
<1>3. CASE (\E r \in Revisions : Republish(r)) \/ UNCHANGED vars
  <2>1. UNCHANGED <<rows, pc, local>>
    BY <1>3 DEF Republish
  <2> QED BY <1>t, <2>1 DEF VerdictInv, RecordedVerdictsAreTheGates, ReportedVerdicts,
                            Status, Accepted
<1> QED BY <1>1, <1>2, <1>3 DEF Next, Step

(* With one attempt at a time, a row recorded as accepted names a revision *)
(* the gate accepts under the policy it was scanned with, and a row        *)
(* recorded as quarantined one it rejects.                                 *)
THEOREM VerdictsCorrect == Spec => [](limit = 1 => RecordedVerdictsAreTheGates)
<1>1. Init => VerdictInv
  <2>1. Init => rows = <<>> /\ \A a \in Attempts : pc[a] = "idle"
    BY DEF Init
  <2> QED BY <2>1 DEF VerdictInv, RecordedVerdictsAreTheGates, ReportedVerdicts
<1>2. TypeInv /\ (limit = 1 => RunInv) /\ (limit = 1 => VerdictInv) /\ [Next]_vars
        => (limit = 1 => VerdictInv)'
  BY VerdictStep, LimitStep
<1>3. (limit = 1 => VerdictInv) => (limit = 1 => RecordedVerdictsAreTheGates)
  BY DEF VerdictInv
<1> QED BY <1>1, <1>2, <1>3, TypeInit, TypeStep, RunInit, SerialStep, PTL DEF Spec

================================================================================
