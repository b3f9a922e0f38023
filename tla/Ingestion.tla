------------------------------ MODULE Ingestion ------------------------------
(***************************************************************************)
(* The ingestion of one monthly partition: run_ingestion                   *)
(* (src/src/tripml/workflows/ingestion.py), the files it moves into place  *)
(* one by one (download_bronze and validate_partition in                   *)
(* src/src/tripml/ingestion.py) and the lineage rows it keeps in           *)
(* PostgreSQL (src/src/tripml/lineage.py).                                 *)
(*                                                                         *)
(* An attempt is one call of run_ingestion: a try of the DAG's task or the *)
(* command line.  It may raise at any call, and it may be killed between   *)
(* any two steps; a retry is another attempt.  At most limit run at a      *)
(* time: 1 for the DAG (max_active_runs), which ADR-0003 relies on, more   *)
(* when the command line is used beside it.                                *)
(*                                                                         *)
(* Abstracted: a file's content is the source revision, and the passenger  *)
(* policy, it was made from, or NoFile; a checksum is the revision itself. *)
(* Temporary files are private to an attempt and are left out; every       *)
(* replace is atomic.  Rows and Invalid say how the batch scan counts a    *)
(* revision.                                                               *)
(***************************************************************************)
EXTENDS Naturals, Sequences, FiniteSets

CONSTANTS Attempts,      \* bound: each attempt runs once
          MaxActive,     \* bound of limit
          MaxStarted,    \* bound: the attempts that start, for each limit
          Revisions,     \* what the source may hold for this month
          Policies,      \* passenger_count_policy
          Rows,          \* [Revisions -> Nat]
          Invalid,       \* [Revisions \X Policies -> Nat]: rows breaking a rule
          MaxRate,       \* max_partition_violation_rate, in percent
          NoFile

ASSUME IngestionAssumption ==
  /\ IsFiniteSet(Attempts)
  /\ MaxActive \in Nat \ {0}
  /\ MaxStarted \in [1 .. MaxActive -> Nat]
  /\ Rows \in [Revisions -> Nat]
  /\ Invalid \in [Revisions \X Policies -> Nat]
  /\ \A r \in Revisions, p \in Policies : Invalid[r, p] <= Rows[r]
  /\ MaxRate \in 0..100
  /\ NoFile \notin Revisions

VARIABLES
  limit,        \* how many attempts may run at a time: chosen once
  upstream,     \* external: the revision the source URL serves
  bronze,       \* the bronze object
  manifest,     \* the checksum in the bronze manifest
  silver,       \* the silver partition: its revision and policy
  quarantine,   \* the quarantined source
  invalid,      \* the invalid rows: their revision and policy
  report,       \* the quality report
  rows,         \* ingestion_runs, in the order of start_run
  pc,           \* where each attempt is
  local         \* each attempt's local variables

bronzeVars == <<bronze, manifest>>
outputVars == <<silver, quarantine, invalid>>
vars == <<limit, upstream, bronzeVars, outputVars, report, rows, pc, local>>

Ended == {"returned", "stopped"}
InTry == {"fetching", "storing", "describing", "scanning", "publishing", "clearing",
          "quarantining", "placing", "reporting"}
Running == InTry \cup {"completing", "failing"}
PcStates == {"idle", "completing", "failing"} \cup InTry \cup Ended

(***************************************************************************)
(* The local variables: the file given with --source, if any, the policy,  *)
(* the lineage row (0: no lineage), what has been downloaded or scanned,   *)
(* and the report.                                                         *)
(***************************************************************************)
NoLocals == [file |-> NoFile, policy |-> NoFile, row |-> 0,
             content |-> NoFile, report |-> NoFile]

Init ==
  /\ limit \in 1 .. MaxActive
  /\ upstream \in Revisions
  /\ bronze = NoFile
  /\ manifest = NoFile
  /\ silver = NoFile
  /\ quarantine = NoFile
  /\ invalid = NoFile
  /\ report = NoFile
  /\ rows = <<>>
  /\ pc = [a \in Attempts |-> "idle"]
  /\ local = [a \in Attempts |-> NoLocals]

Active == {a \in Attempts : pc[a] \notin {"idle"} \cup Ended}
Started == {a \in Attempts : pc[a] # "idle"}

Goto(a, to) == pc' = [pc EXCEPT ![a] = to]
Proceed(a, to) == Goto(a, to) /\ UNCHANGED local
End(a, how) == Goto(a, how) /\ local' = [local EXCEPT ![a] = NoLocals]

------------------------------------------------------------------------------
(* run_ingestion, up to the try block: start_run commits a running row.    *)
Start(a, file, policy, lineage) ==
  /\ pc[a] = "idle"
  /\ Cardinality(Active) < limit
  /\ Cardinality(Started) < MaxStarted[limit]
  /\ rows' = IF lineage
             THEN Append(rows, [status |-> "running", source |-> NoFile, policy |-> policy])
             ELSE rows
  /\ local' = [local EXCEPT ![a].file = file,
                            ![a].policy = policy,
                            ![a].row = IF lineage THEN Len(rows) + 1 ELSE 0]
  /\ Goto(a, IF file = NoFile THEN "fetching" ELSE "scanning")
  /\ UNCHANGED <<upstream, bronzeVars, outputVars, report>>

------------------------------------------------------------------------------
(* download_bronze                                                         *)

NeverHeld == FALSE      \* a mutant: always download

(* _existing_manifest looks further only when both files exist. *)
BronzeHeld == bronze # NoFile /\ manifest # NoFile

(* A verified object is reused.  One that does not match its manifest is   *)
(* refused: Raise is then the attempt's only way on.                       *)
ReuseBronze(a) == /\ pc[a] = "fetching"
                  /\ BronzeHeld
                  /\ manifest = bronze
                  /\ Proceed(a, "scanning")
                  /\ UNCHANGED <<upstream, bronzeVars, outputVars, report, rows>>

(* The whole object, checked to be Parquet, is in a temporary file. *)
Download(a) == /\ pc[a] = "fetching"
               /\ ~BronzeHeld
               /\ local' = [local EXCEPT ![a].content = upstream]
               /\ Goto(a, "storing")
               /\ UNCHANGED <<upstream, bronzeVars, outputVars, report, rows>>

StoreBronze(a) == /\ pc[a] = "storing"
                  /\ bronze' = local[a].content
                  /\ Proceed(a, "describing")
                  /\ UNCHANGED <<upstream, manifest, outputVars, report, rows>>

WriteManifest(a) == /\ pc[a] = "describing"
                    /\ manifest' = local[a].content
                    /\ Proceed(a, "scanning")
                    /\ UNCHANGED <<upstream, bronze, outputVars, report, rows>>

------------------------------------------------------------------------------
(* validate_partition                                                      *)

(* What the path of the source holds now. *)
Source(a) == IF local[a].file = NoFile THEN bronze ELSE local[a].file

Output(a) == [source |-> local[a].content, policy |-> local[a].policy]

(* The partition gate: accepted. *)
Accepted(r, p) == Rows[r] > 0 /\ Invalid[r, p] * 100 <= MaxRate * Rows[r]

(* The status of the report, and of the lineage row. *)
Status(r, p) == IF Accepted(r, p) THEN "accepted" ELSE "quarantined"

(* The batches are read through one open file; the valid and the invalid   *)
(* rows are in temporary files.                                            *)
Scan(a) ==
  /\ pc[a] = "scanning"
  /\ local' = [local EXCEPT ![a].content = Source(a)]
  /\ Goto(a, IF Accepted(Source(a), local[a].policy) THEN "publishing" ELSE "quarantining")
  /\ UNCHANGED <<upstream, bronzeVars, outputVars, report, rows>>

(* A mutant: the file at the source's path is moved, not the scanned rows. *)
PublishSource(a) ==
  /\ pc[a] = "publishing"
  /\ silver' = [source |-> Source(a), policy |-> local[a].policy]
  /\ Proceed(a, "clearing")
  /\ UNCHANGED <<upstream, bronzeVars, quarantine, invalid, report, rows>>

(* An accepted scan without a valid row (a rate of 100 percent) raises. *)
PublishSilver(a) ==
  LET c == local[a].content IN
  /\ pc[a] = "publishing"
  /\ Invalid[c, local[a].policy] < Rows[c]
  /\ silver' = Output(a)
  /\ Proceed(a, "clearing")
  /\ UNCHANGED <<upstream, bronzeVars, quarantine, invalid, report, rows>>

(* A mutant: the quarantined source of an earlier run is left in place. *)
KeepQuarantine(a) ==
  /\ pc[a] = "clearing"
  /\ Proceed(a, "placing")
  /\ UNCHANGED <<upstream, bronzeVars, outputVars, report, rows>>

DropQuarantine(a) ==
  /\ pc[a] = "clearing"
  /\ quarantine' = NoFile
  /\ Proceed(a, "placing")
  /\ UNCHANGED <<upstream, bronzeVars, silver, invalid, report, rows>>

(* _copy_atomic reads the path of the source a second time. *)
QuarantineSource(a) ==
  /\ pc[a] = "quarantining"
  /\ quarantine' = Source(a)
  /\ Proceed(a, "placing")
  /\ UNCHANGED <<upstream, bronzeVars, silver, invalid, report, rows>>

(* The invalid rows are moved into place, or the old ones unlinked. *)
PlaceInvalidRows(a) ==
  /\ pc[a] = "placing"
  /\ invalid' = IF Invalid[local[a].content, local[a].policy] > 0 THEN Output(a) ELSE NoFile
  /\ Proceed(a, "reporting")
  /\ UNCHANGED <<upstream, bronzeVars, silver, quarantine, report, rows>>

(* The source is read a third time for its checksum, then the report, with *)
(* the status and counts of the scan, is written.                          *)
WriteReport(a) ==
  LET written == [source |-> Source(a), policy |-> local[a].policy,
                  status |-> Status(local[a].content, local[a].policy)]
  IN  /\ pc[a] = "reporting"
      /\ report' = written
      /\ IF local[a].row = 0
         THEN End(a, "returned")
         ELSE local' = [local EXCEPT ![a].report = written] /\ Goto(a, "completing")
      /\ UNCHANGED <<upstream, bronzeVars, outputVars, rows>>

------------------------------------------------------------------------------
(* The end of a run.                                                       *)

(* complete_run and fail_run update a row only while it is running, in one *)
(* transaction; otherwise they raise.                                      *)
Finish(a, row) == /\ rows[local[a].row].status = "running"
                  /\ rows' = [rows EXCEPT ![local[a].row] = row]
                  /\ UNCHANGED <<upstream, bronzeVars, outputVars, report>>

(* The commit may be lost to the attempt: it then raises, outside the try. *)
CompleteRun(a) ==
  LET written == local[a].report IN
  /\ pc[a] = "completing"
  /\ Finish(a, [status |-> written.status, source |-> written.source,
                policy |-> written.policy])
  /\ \E how \in Ended : End(a, how)

(* An exception in the try block. *)
Raise(a) == /\ pc[a] \in InTry
            /\ IF local[a].row = 0 THEN End(a, "stopped") ELSE Proceed(a, "failing")
            /\ UNCHANGED <<upstream, bronzeVars, outputVars, report, rows>>

(* A mutant: the update names the partition instead of the run. *)
FailPartition(a) ==
  /\ pc[a] = "failing"
  /\ rows' = [i \in 1..Len(rows) |->
                IF rows[i].status = "running" THEN [rows[i] EXCEPT !.status = "failed"]
                                              ELSE rows[i]]
  /\ End(a, "stopped")
  /\ UNCHANGED <<upstream, bronzeVars, outputVars, report>>

FailRun(a) == /\ pc[a] = "failing"
              /\ Finish(a, [rows[local[a].row] EXCEPT !.status = "failed"])
              /\ End(a, "stopped")

(* A kill or a task timeout anywhere, or a database call that raises: the  *)
(* files, and the row, stay as they are.                                   *)
Stop(a) == /\ a \in Active
           /\ End(a, "stopped")
           /\ UNCHANGED <<upstream, bronzeVars, outputVars, report, rows>>

(* External: the provider replaces the month's object. *)
Republish(r) == /\ upstream # r
                /\ upstream' = r
                /\ UNCHANGED <<bronzeVars, outputVars, report, rows, pc, local>>

------------------------------------------------------------------------------
Fetch(a) == ReuseBronze(a) \/ Download(a) \/ StoreBronze(a) \/ WriteManifest(a)

Validate(a) == Scan(a) \/ PublishSilver(a) \/ DropQuarantine(a) \/ QuarantineSource(a)
               \/ PlaceInvalidRows(a) \/ WriteReport(a)

Leave(a) == CompleteRun(a) \/ Raise(a) \/ FailRun(a) \/ Stop(a)

Step ==
  \/ \E a \in Attempts :
       \/ \E file \in Revisions \cup {NoFile}, policy \in Policies, lineage \in BOOLEAN :
            Start(a, file, policy, lineage)
       \/ Fetch(a) \/ Validate(a) \/ Leave(a)
  \/ \E r \in Revisions : Republish(r)

Next == Step /\ UNCHANGED limit

Spec == Init /\ [][Next]_vars

------------------------------------------------------------------------------
(* Properties.                                                             *)

Files == Revisions \cup {NoFile}
Outputs == [source : Revisions, policy : Policies]
Reports == [source : Revisions, policy : Policies, status : {"accepted", "quarantined"}]
LineageRows == [status : {"running", "accepted", "quarantined", "failed"},
                source : Files, policy : Policies]
Locals == [file : Files, policy : Policies \cup {NoFile}, row : Nat,
           content : Files, report : Reports \cup {NoFile}]

(* The variables have the types the code gives them; a lineage row's       *)
(* status is one the table's CHECK constraint admits.                      *)
TypeOK ==
  /\ limit \in 1 .. MaxActive
  /\ upstream \in Revisions
  /\ bronze \in Files
  /\ manifest \in Files
  /\ silver \in Outputs \cup {NoFile}
  /\ quarantine \in Files
  /\ invalid \in Outputs \cup {NoFile}
  /\ report \in Reports \cup {NoFile}
  /\ rows \in Seq(LineageRows)
  /\ pc \in [Attempts -> PcStates]
  /\ local \in [Attempts -> Locals]

(* Whatever attempts fail, are killed or overlap, the silver file is one   *)
(* whole revision with valid rows, within the allowed violation rate       *)
(* (ADR-0002: "never expose a partially written or rejected silver         *)
(* partition").                                                            *)
SilverPassedItsGate ==
  silver # NoFile =>
    /\ Invalid[silver.source, silver.policy] < Rows[silver.source]
    /\ Invalid[silver.source, silver.policy] * 100 <= MaxRate * Rows[silver.source]

(* However attempts overlap, fail or are killed: no row is removed or      *)
(* changed twice, a row is finished by the attempt that started it, as it  *)
(* ends, and a run that returns has recorded its verdict, so that a row    *)
(* left running tells of a run that did not return.                        *)
LedgerStep ==
  /\ Len(rows) <= Len(rows')
  /\ \A i \in 1 .. Len(rows) : rows'[i] # rows[i] =>
       /\ rows[i].status = "running" /\ rows'[i].status # "running"
       /\ \E a \in Attempts : pc[a] \in Running /\ local[a].row = i /\ pc'[a] \in Ended
  /\ \A a \in Attempts : pc[a] \in Running /\ local[a].row # 0 /\ pc'[a] = "returned" =>
       rows'[local[a].row].status \in {"accepted", "quarantined"}

LedgerIsAppendOnly == [][LedgerStep]_vars

(* While one attempt runs at a time, a manifest never describes another    *)
(* object than the one beside it, between any two steps and after any      *)
(* kill: no attempt is refused with BronzeIntegrityError for what an       *)
(* earlier one left, although the provider changed the object meanwhile.   *)
ManifestMatchesBronze == limit = 1 /\ manifest # NoFile => manifest = bronze

(* While one attempt runs at a time, a run that is recorded as accepted or *)
(* quarantined describes the files of the partition, all of them, as they  *)
(* are at that moment: the scan, the copy and the checksum read the same   *)
(* source, and no quarantine, invalid row or report of an earlier run is   *)
(* left.  An earlier silver file stays beside a quarantined run.           *)
FilesMatch(row) ==
  LET output == [source |-> row.source, policy |-> row.policy] IN
  /\ report = [source |-> row.source, policy |-> row.policy, status |-> row.status]
  /\ invalid = IF Invalid[row.source, row.policy] > 0 THEN output ELSE NoFile
  /\ IF row.status = "accepted" THEN silver = output /\ quarantine = NoFile
                                ELSE quarantine = row.source

RecordedRunsDescribeTheFiles ==
  [][limit = 1 =>
       \A i \in 1..Len(rows) :
         (rows[i].status = "running" /\ rows'[i].status \in {"accepted", "quarantined"})
           => FilesMatch(rows'[i])]_vars
==============================================================================
