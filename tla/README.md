# TripML: models, model checks and proofs

TripML predicts taxi trip durations.  A batch side ingests one month of trips at
a time, builds features, trains models and registers the ones that pass a
promotion gate; a serving side answers requests and publishes each prediction to
Kafka before it answers; release scripts measure the serving side under load and
under failure, and decide whether it may be released.  This directory holds TLA+
modules of the parts whose correctness depends on the order of steps, their TLC
configurations, and TLAPS proofs of the properties that matter most.  Line
numbers are those of `src/` at this commit.

## Inventory

| Component | State it keeps | Operations | What makes it correct |
|---|---|---|---|
| Prediction publisher (`publication.py`) | admission lock, `_closed`, `_stop`, `_poll_failed`; per call an event and an error | `publish`, the `delivered` callback, `_poll`, `close` | an answer is true and stays true; nothing is admitted after close; every call and every close returns |
| Topic provisioning (`publication.py`) | the prediction topic | `ensure_prediction_topic`, by several init containers | whoever loses the race to create the topic does not fail; a pod serves on the layout it asked for |
| ETA endpoint (`serving.py`) | model, feature store, sink; counters | lifespan, `/readyz`, `/v1/eta`, `load_production_model` | the answer matches the publication outcome; no request meets a half-closed service; what is opened is closed |
| Model registry (`tracking.py`) | MLflow runs, versions, production alias | `run_training_workflow`, `publish_training_report`, `production_reference` | only approved, fully logged bundles are registered; no duplicates; the alias never goes back and only moves to a measured improvement |
| Bundle store and gate (`training.py`) | directories named by a hash of their inputs | `train_models`, `evaluate_promotion` | a bundle is whole, and what its name says |
| Ingestion (`ingestion.py`, `workflows/ingestion.py`) | bronze object and manifest, silver, quarantine, invalid rows, report | `download_bronze`, `validate_partition`, `run_ingestion` | a rejected or partial partition is never in silver; the manifest is true; a finished run describes the files |
| Lineage (`lineage.py`) | `ingestion_runs`, quality checks | `start_run`, `complete_run`, `fail_run` | a row leaves `running` once, with the report's contents |
| Gold features (`features.py`, dbt) | gold file and manifest | `build_gold_features` | a manifest names the data that was aggregated; gold carries one contract, and the version of it; a row sees strictly earlier completions, and all of them |
| Online features (`online_features.py`) | none (reads Redis) | `lookup` | a fresh answer is one window of the right zones, not stale, not from the future, and agrees with gold |
| Benchmark (`benchmark.py`) | tasks and samples of a run | `_measure`, `_request`, `summarize` | each arrival is accounted for once; an arrival is dropped only at the limit |
| Release driver (`release-operations-driver.py`) | watermarks, positions, counts of the records read | `phase`, `readback` | a phase that passes is true of the topic; a faultless broker is never blamed |
| Release harness (`run-release-operations.py`) | namespace, load pod, the broker's replica count, evidence | set-up, phases, outage, export, cleanup | evidence is out before anything is deleted; a result vouches for one process; a stopped broker is restored |
| Workload (`workload.py`) | none | `build_workload` | deterministic sampling |
| DAGs (`airflow_dags/`) | none | tasks, retries, timeouts | one active run per DAG |

How they interact.  The ingestion DAG runs `run_ingestion` and then
`build_gold_features`; the training DAG runs `run_training_workflow`, which
reads production from MLflow, trains on gold files, writes a bundle and
publishes it to MLflow.  The two DAGs share files and nothing orders them.  The
serving process reads the production alias once, at startup, and then calls the
publisher from its request threads; the publisher shares its Kafka producer
with a polling thread.  A pod's init container provisions the topic first, and
during a rollout two pods do so at once.  The release harness starts the driver
in a load pod; the driver runs the benchmark against the API and afterwards
reads the topic back as a consumer of its own.

What is hard: threads and callbacks around one lock and two timeouts
(publisher); a broker that loses, repeats and delays; attempts that fail or are
killed between any two calls and are retried (ingestion, training); decisions
made on state that another attempt may since have changed (promotion); a source
read more than once (ingestion, training, gold); variables that the lifespan
writes and the handlers read without a lock (serving); tasks that end between
two arrivals, and records that arrive while the topic is read (release
measurement); a command that fails before or after its effect, and cleanup that
has to run all the same (release harness).  `PROJECT.json` lists each
hazard at its line with the properties that watch it.

## Modules

| Module | Contents |
|---|---|
| `PublicationContract` | abstract: what the answer about a prediction means |
| `Publisher` | the publisher, its threads, the endpoint's answer; Kafka as the environment |
| `PublisherProofs` | theorems of `Publisher` |
| `PromotionRegister` | abstract: the production alias as a compare-and-swap register |
| `ModelRegistry` | bundle store, MLflow runs, versions and alias; attempts |
| `ModelRegistryProofs` | theorems of `ModelRegistry` |
| `Ingestion` | one partition's files, its lineage rows; attempts |
| `IngestionProofs` | theorems of `Ingestion` |
| `GoldFeatures` | the gold file and manifest of each month, built from silver, and the bundles trained from gold |
| `GoldFeaturesProofs` | theorems of `GoldFeatures` |
| `TrainingFeatures` | the windows of the SQL, and what they are meant to be |
| `OnlineFeatures` | the feature store, its producer, `lookup`, beside the gold rows of the same trips |
| `OnlineFeaturesProofs` | theorems of `TrainingFeatures` and `OnlineFeatures` |
| `TopicProvisioning` | `ensure_prediction_topic`, several at once |
| `Serving` | extends `TopicProvisioning`: processes and pods, the lifespan, the handler |
| `ServingProofs` | theorems of `Serving` |
| `LoadGenerator` | the open-loop load generator |
| `ReleaseMeasurement` | extends `LoadGenerator`: one phase against the API and the broker, and the readback; the API is `PublicationContract` |
| `ReleaseMeasurementProofs` | theorems of `LoadGenerator` and `ReleaseMeasurement` |
| `ReleaseOperations` | the release harness, call by call, and the cluster |
| `ReleaseOperationsProofs` | theorems of `ReleaseOperations` |
| `MC...` | bounds and symmetry for TLC, one module per specification that is run |

### Publisher

Each thread is a program counter: `pc` for a request in `publish`, `poller` for
the daemon thread in `_poll`, `closer` for a caller of `close`.  A step is
what a thread does between two points where another can be seen to intervene:
taking the lock, each check under it, `produce`, the end of the wait, each of
the two statements of `delivered`, and each statement of `close`.  `completed`
and `failed` are the event and the `delivery_error` of a request's closure,
which live on after the request has been answered.

Kafka is external and is modelled from how the class uses it.  A produced
message is in `queue` until the client resolves it (`Acknowledge` only after an
append, `GiveUp` at any time), then in `reports` until a thread inside `poll` or
`flush` runs its callback.  Meanwhile it may be sent any number of times; each
send is lost, appended, or appended after the client gave up.  `topic` is the
set of predictions that have a record.  That a resent one has a single record is
what `enable.idempotence` asks of the client and the broker
(`publication.py:97`); the code does nothing about it itself, and the model says
nothing about it.  Exactly one of the timer and the callback ends a wait,
whichever comes first; after `TimeOut` the callback may still run, and only
changes flags that nobody reads.

`HttpAnswer` and `DeliveryUnknown` are the endpoint's translation of the
outcome into 200, "not published" and "unknown".

`PublicationContract` says what a caller may conclude: one answer per
prediction that does not change; a published one is in the topic; one that was
definitely rejected is not, and never will be.

### ModelRegistry

An attempt is one execution of the training workflow or of a republication.
Its `pc` names the MLflow call it is about to make and `local` its local
variables.  A search and the creation that follows from it are two calls and so
two steps (`FindNoRun`, `CreateRun`), between which another attempt may act.
`Abort` ends an attempt between any two calls and leaves what it wrote; a call
that raises after its effect is that call and then `Abort`.  `FailRun` is the
`except` branch of `_log_model_run`, also when `set_terminated` itself raised
after its effect and is repeated with `FAILED`.  A bundle is identified,
as by `_run_identifier`, by its data, its candidate role and the production
version it was compared with; `trained` and `approved` are the store and the
decisions in it.  `Mae` and `HoldoutOf` stand for the metrics and the holdout of
each dataset.  The gate against production is computed from them; the other
gates, which include a latency measurement, may go either way.

With `limit = 1` the module is the system as operated: one active run of the
DAG, and a single registry writer (ADR-0017).  `PromotionRegister` is what that
system promises: an approval is made against the version in production, and the
alias only moves forward, from exactly that version.  `Register` in
`ModelRegistry` is the refinement mapping: versions are approvals, the alias is
the register.  `Loadable` is what `load_production_model` demands of the version
in production before the serving process accepts it: a finished run of the role,
and for the streaming role exactly one finished run of its static sibling.

### Ingestion

The partition's files are variables whose value is the source revision (and
policy) they were made from.  Every `replace`, `unlink` and copy is a step of
its own, in the code's order, so that a kill (`Stop`) or an exception (`Raise`)
falls between any two of them; `Source` is re-read wherever the code reads the
path again.  `Republish` is the provider replacing the month.  `rows` is
`ingestion_runs`; `Finish` carries the `status = 'running'` condition of the two
updates.  Temporary files are private to an attempt and are left out.

### GoldFeatures

A builder is a call of `build_gold_features`, a trainer a call of
`train_models`.  Both read one path several times: a builder opens each silver
input for its contract, opens it again for the checksum, and dbt reads the paths
a third time; a trainer reads the table from the file it opened and then opens
the path for the checksum.  Each read is a step, `opened`, `hashed` and
`aggregated` remember what each one saw, and `Ingest` and the other builders may
replace files in between.  `Abort` falls between any two steps.

A silver file is an abstract value with a contract.  A gold file is its rows
with the contract they carry and the version it was given, and a checksum is the
content itself.  `RowsOf` says which rows inputs result in, and different inputs
may result in the same ones: of the lookback month staging keeps only the last
hour, so that a changed partition, or one that was missing, often leaves the
gold file as it was.  A manifest beside such a file may list inputs that are not
the ones it was built from; what `MatchingManifestIsTrue` asks is what the
checksum can show, that a build of the listed inputs results in the file in
place.

`limit` is the number of builds at a time, an ingestion beside them included: 1
for the DAG, more for the command line beside it.  Training is at most one at a
time and beside any of them, since the two DAGs only have `max_active_runs=1`
each.  `HashedAsRead` says that no training run so far has hashed another file
than it read; `training_overlap` shows what happens when one has.
The fitting and the metrics are in `ModelRegistry`; here a
bundle is its name and the tables it was trained on.

### TrainingFeatures and OnlineFeatures

`TrainingFeatures` follows the SQL: the validity rule of silver, the filter of
`stg_trips`, the two-event ledger, the frame with its `exclude group`, and the
final selection.  A count or a mean over a window is represented by the set of
trips it is taken over, so two equal features are features of the same trips.
`CompletedIn` is the definition they are meant to have (ADR-0005): the trips of
the zone completed in `[moment - w, moment)`.

`OnlineFeatures` fixes a set of trips that have happened, builds gold from the
target month with or without the previous one, lets a producer write snapshots
of any cutoff to any key in any order, lose them, or confuse two keys
(`Misplaced`), or leave there a payload that the contract's validation refuses
or a snapshot of another feature model version (`Foreign`), and answers requests
with `Lookup`, whose order of checks is the code's.  The producer is not in this
repository; what it writes is a true window, as the model validators of
`contracts.py` and ADR-0009 describe it.  The reading by `mget` is one step
because Redis executes one command at a time.

### TopicProvisioning and Serving

`TopicProvisioning` is `ensure_prediction_topic` with a step for each call of
the admin client: list, create, list again, compare.  `ensure` is where each
init container is and `listed` the metadata it holds.  The broker creates the
topic for the first of two concurrent requests, may fail any call before or
after its effect (`BrokerError`) and may show stale metadata (`RelistTopics`);
`refused` remembers that it did, so that a property can tell its failures from
those of the code.  A layout stands for the partition and replica counts, and
each pod's release asks for one.

`Serving` puts the process around it.  `pod` is where a pod is: provisioning,
each statement of the lifespan's startup, serving, and each statement of its
`finally` block.  `model`, `store` and `sink` are the variables of `create_app`;
`origin` says which of them the caller passed in, which decides who closes
them.  `handler` is a program counter per request, with a step for each reading
of `model` or `sink`, because the lifespan may run between them.  uvicorn is
external: it accepts requests while the lifespan is at its `yield` and runs the
rest once the requests under way have ended, which is what `uvicorn.run` does
without `timeout_graceful_shutdown`.  Kubernetes is external: it creates pods
at any time, restarts failed processes, and stops a pod if another is ready
(`maxUnavailable: 0`).  `Kill` may end one process anywhere.  What happens
inside `sink.publish` is `Publisher`; the check of what the alias names is
`ModelRegistry`'s `Loadable`; what a lookup returns is `OnlineFeatures`.

### LoadGenerator and ReleaseMeasurement

`LoadGenerator` is `_measure` as one coroutine and `_request` as tasks.  In
asyncio nothing runs between two awaits, so an arrival that collects finished
tasks, compares their number with the limit and creates its task is one step
(`Dispatch`, `Drop`); a task may end at any other time.  Times are left out
except for what they decide: that every request has a deadline (`TimeOut`).

`ReleaseMeasurement` composes it with the API and the broker.  The API is an
INSTANCE of `PublicationContract`, the specification that `Publisher` is shown
to implement: this is where the abstract specification is used in place of the
detailed one.  A client sees the answer, its own deadline or a broken
connection; records are appended while the broker is up, late ones included.
The readback reads one watermark per partition, then consumes messages one by
one until all watermarks are reached, as the driver does, and the topic may grow
meanwhile.  The broker may fail once (`Lose`, `Repeat`, `AppendWrong`), so that
the readback has something to find.

### ReleaseOperations

`Program` is the list of steps of `main` with and without `--failure`, `at` the
one under way and `status` the block it is in: `try`, `except`, `finally`, the
deletion, ended or killed.  Every step is a `kubectl` call that returns, raises
after its effect (`Proceed`) or raises without it (`Raise`); Ctrl-C
(`Interrupt`) skips the `except` block, and `Kill` everything.  A driver
invocation runs in the pod and may outlive its `kubectl exec` (`Straggle`).
`process_identity` is two calls, between which the API may restart.  `served`
and `outageBroken` are observers: which processes ran during a benchmark
phase, and whether the broker was up during the outage.

## What the runs check

| Run | Bounds | Shows |
|---|---|---|
| `publisher` | 2 requests, 2 closes, queue of 1 | `AcknowledgedIsInTopic`, `DefiniteRejectionIsFinal`, `NoAdmissionAfterClose`, `DrainedCloseLeavesNobodyWaiting`, `ImplementsContract`, `EveryCallIsAnswered`, `EveryCloseReturns` |
| `registry_promotion` | 3 attempts: one at a time, 3 datasets of two holdouts, both roles (one on the second holdout); two at a time, 2 datasets, one role | `OnlyApprovedIsRegistered`, `ApprovalsFormAChain`, `HistoryIsKept`; one at a time `OneRolePerRegistry`, `NoDuplicateVersions`, `ProductionIsLoadable`, `EachPromotionImproves`, `ImplementsRegister` |
| `registry_retry` | 2 attempts, one at a time, 1 dataset | `RetriesAreNotBlocked` is violated |
| `ingestion` | 3 attempts one at a time or 2 at the same time, 3 revisions, 2 policies | `SilverPassedItsGate`, `LedgerIsAppendOnly`; one at a time `ManifestMatchesBronze`, `RecordedRunsDescribeTheFiles` |
| `gold` | 2 months; one build at a time with 2 trainings and 3 contents of 2 contracts, or 2 builds at a time with 1 training and 2 contents | `BundleVersionMatchesRows`, `ReturnedBundleIsOfItsData`; one at a time `MatchingManifestIsTrue` |
| `training_overlap` | 1 trainer beside one builder of two, 1 month | `BundleNamesItsData` is violated |
| `online_features` | every subset of 7 trips, 3 keys, 3 cutoffs, one payload of each foreign kind, staleness 1, windows of 1 and 3 | `FreshIsPointInTime`, `GoldIsPointInTime`, `FreshMatchesGold` |
| `month_boundary` | the same | `GoldMatchesStream` is violated |
| `serving` | 2 pods of one or two releases, 2 requests, 2 models, every origin of store and sink, one kill | `RequestsSeeAWholeApp`, `OwnedResourcesAreReleased`, `ServesOnItsLayout`, `ConcurrentCreatesAreTolerated`, `AHandlerSeesOneApp` |
| `release_measurement` | 1 warm-up, 2 arrivals, a limit of 1, 2 partitions, no error allowed, one fault of the broker | `EverySampleOnce`, `DropsOnlyAtTheLimit`, `PassedReadbackIsTrue`, `PassedPhaseIsDelivered`, `FaultlessReadbackPasses`, `MeasurementEnds` |
| `release_operations` | with and without `--failure`, one restart of the API | `EvidenceIsExportedFirst`, `PassedMeansOneProcess`, `BrokerIsRestored`, `HarnessEnds` |
| `release_evidence` | the same without a restart of the API | `NoEvidenceIsDeleted` is violated |

`ModelRegistry`, `Ingestion` and `GoldFeatures` have a variable `limit` which is
chosen in the initial state and never changes: how many attempts or builds may
be at work at the same time.  1 is the system as its DAGs configure it and
ADR-0017 wants it, more is what happens when the command line is used beside the
DAG.  One run covers both, and a property that needs one at a time says
`limit = 1` itself; the others are checked of the overlaps as well.

Each property is stated in words where it is defined, and `PROJECT.json` names,
for each, a plausible bug in the code (a swapped order, a dropped check) under
which TLC finds it violated.  The type invariants are proved and not run.

Why these bounds are enough to be interesting:

- Publisher: two requests with a queue of one make one meet a full queue while
  the other waits or is being reported; a message stays in flight until it is
  appended or lost, so that a late append may follow a timeout.  Of two closes
  one returns early while the other still joins or flushes.
- Registry: three attempts in a row reach a first promotion, a second one that
  replaces it, a stale republication of the first, and a retry after a crash at
  any point.  `d2` beats `d1` by exactly the configured percentage, and `d3` has
  another holdout.  With two at a time they are between any two calls of each
  other, of the same bundle or of different ones, and a third follows either.
- Ingestion: three attempts are an interrupted run, an opposite one and a
  final one.  The revisions lie below, exactly on and above the gate (`edge` is
  on it or above it depending on the policy), and `empty` has no row.
  Two attempts that overlap replace each other's files in every order, and each
  may scan, copy and record a different revision.
- Gold: two builders are a killed build and its retry; two months are a target
  and its lookback; with `s1` and `s2` of one contract and `s3` of another a
  replacement may keep or change the contract; as a lookback, `s3` gives the rows
  of no lookback at all.  With two at a time, both builds, an ingestion and a
  training are between any two reads of each other, with one content of each
  contract.
- Online: time runs over 0..9 with the month boundary at 4; the trips end
  before, at and after the edges of both windows of a pickup at 4 and 5, in its
  zones and in others, and two of them cross the boundary.  A staleness limit of
  1 with cutoffs 3, 4 and 5 gives ages below, on and above it.
- Serving: two pods are the old and the new one of a rollout with one replica
  and `maxSurge: 1`; either may ask for another layout, find the topic created
  by the other or in its own layout, and fail at any statement of its startup.
  Two requests, one of which needs the nullable contract, can be at two
  statements of the handler when a stop arrives.  Two models, of which one needs
  no store, can be promoted one after the other.
- Release measurement: with a limit of one, the second arrival finds the first
  running, finished but not collected, or collected; two partitions make a
  record arrive in one while the other is read; a warm-up is read back too.
- Release operations: one restart can fall between any two calls, between the
  two of `process_identity` included, and is either one of the container or a
  new pod.

Attempts, threads, pods and requests run once, so the system stops: deadlock
checking is off in every configuration.  Symmetry is used over attempts,
processes and pods, in the runs without liveness.

### Fairness

`FairSpec` of `Publisher` gives weak fairness to each request thread, each
thread that runs callbacks, the polling loop and each closer: Python threads are
scheduled, `completed.wait` and `flush` have timers, and `poll` returns after
50 ms.  Calls (`Call`, `CallClose`) are not fair, nor is anything the broker or
the client does, and the polling thread may end with an exception at any time.
So the liveness properties say that every call is answered with no help from
Kafka.  The lock needs no strong fairness: in the model each thread takes it a
bounded number of times.

`MeasurementSpec` gives weak fairness to the coroutine and to each request's
deadline (asyncio runs what is due) and to the driver's steps; none to the
API's answers, nor to the broker.  `Interrupt` is a step of the coroutine's but
fairness does not oblige it.  So `MeasurementEnds` says that a phase has a
verdict even if the service never answers.

`ReleaseOperations` gives weak fairness to the harness as a whole, since each
subprocess has a timeout and ends as a return or a raise, and to the two
deadlines of its loops by themselves: the loops turn (`Poll`), and only the
deadline ends one whose driver never exits or whose broker never comes back.
Nothing is assumed of the cluster.

The other modules state no liveness: after a crash nothing in the code obliges
anyone to try again, and a rollout that waits for a pod which never becomes
ready waits for ever by design.

## Disagreements between the code and its documents

`registry_retry`.  `_existing_run` (`tracking.py:147`) refuses any run of the
same bundle and role that is not `FINISHED`.  A failed upload marks the run
`FAILED`, a kill leaves it `RUNNING`, and nothing removes or resumes it; since
the bundle is content-addressed, the DAG's own retry
(`airflow_dags/training.py:44`) trains or finds the same bundle and is refused,
as is every later republication.  ADR-0007 says "Make publication idempotent by
matching the bundle identifier, model role, and artifact checksum" and "Registry
state is safe under task retries and intentional republication".  The registry
is indeed not corrupted (`registry_promotion`), but the retry cannot succeed.

`training_overlap`.  `_load_input` reads the table (`training.py:369-373`) and
hashes the path afterwards (`training.py:391`).  A feature build that replaces
the gold file in between leaves a bundle whose name and manifest hold the
checksum of data it was not trained on, and a later run on that data reuses it.
ADR-0006 says "Define the run identifier from gold input checksums" and "An
identical invocation reuses the immutable completed run".  `max_active_runs=1`
serialises each DAG with itself only.

`month_boundary`.  `timestamps_in_partition` (`ingestion.py:406-415`) wants both
times of a trip in the month of its partition, so that a trip across midnight of
the first is in no silver partition.  Its completion is missing from the first
hour's gold windows, although ADR-0005 wants "rolling zone statistics that match
what a streaming processor can know at pickup time" and `stg_trips.sql:18`
speaks of an earlier pickup that completes inside the lookback.  The online
window holds the trip.  `FreshMatchesGold` says what is left: online and offline
agree on the trips that are in silver.

## What is proved

TLAPS proves these for all values of the constants, under the assumptions named
in the modules: `PublisherAssumption` (the kinds of threads are distinct and the
bounds positive), `RegistryAssumption`, `IngestionAssumption` and
`GoldAssumption` (the attempts are finitely many and the constants have their
types), `WindowAssumption` and `OnlineAssumption` (types, months that do not
overlap, windows no longer than a month), `ProvisioningAssumption` and
`ServingAssumption` (no topic is not a layout, no model is not a model),
`LoadGeneratorAssumption` and `MeasurementAssumption` (a positive limit, a
partition for each trip), `OperationsAssumption` (`MaxRestarts` is a
number).  TLC evaluates each of them in the runs.

Some of the properties hold only while `limit = 1`, one attempt at a time, which
is how the DAGs are configured and ADR-0017 wants the registry to be written;
they say so themselves, so that their theorems hold of every behaviour.  Two
theorems about training have the hypothesis `HashedAsRead` in the same way.

`PublisherProofs`: `TypeCorrect`, `AcknowledgedCorrect`,
`DefiniteRejectionCorrect`, `DrainedCloseCorrect`, `NoAdmissionCorrect` and
`ContractImplemented`, for any number of requests and closers and any queue
limit.  The inductive invariant is
`PublisherInv`, the conjunction of

- `LockInv`: a thread between taking and releasing the lock is its holder, so
  there is at most one;
- `ClosedInv`: a closer that has passed the lock implies `closed`, and then
  nobody is past admission;
- `UntouchedInv`: a request that has not been enqueued has no trace in the
  client, the network or the topic;
- `OutcomeInv` and `ResultInv`: which outcomes have which history, and that a
  delivered report, a running callback or a completed event without error each
  imply a record in the topic;
- `WaitingInv`: a waiting request is in the queue, reported, in its callback, or
  completed;
- `DrainedInv`: after a drained flush nothing is outstanding, and nothing can be
  added.

None of the safety properties is inductive alone: `AcknowledgedIsInTopic` needs
the chain from the record through report, callback and event (`ResultInv`), and
the drained close needs the lock to exclude a request that has passed the checks
and not yet called `produce` (`ClosedInv`).  `ContractImplemented` shows that
initial states map to initial states and each step to a step of the contract or
a stutter.

`ResultsAreFinal` is about the callbacks, which the poller and every flush
dispatch at the same time: each runs once, and once the event of a request is
set neither it nor `delivery_error`, which the request reads without a lock,
changes again.  Its invariant `ReportsInv` says that a message is in one place
between `produce` and the return of its callback (the queue, a report, one
thread's callback), and in none afterwards.

`ModelRegistryProofs`: `TypeCorrect` and `OnlyApprovedCorrect`, for any number
of attempts, overlapping or not.  The inductive invariant `EvidenceInv` says
that an attempt that is uploading owns a `RUNNING` run of its bundle and role
(`Uploads`), that no two attempts own the same run (`OwnRun`), that an attempt
has logged a `FINISHED` run for each role it is past, and remembers the one of
the selected role (`Logs`), and that the same holds of every version
(`Evidence`).  `OwnRun` is what makes the overlap harmless: the only step that
changes an existing run changes a `RUNNING` one that belongs to the attempt
itself, so evidence once `FINISHED` never changes.

Two more theorems say what is left when ADR-0017 is not followed and attempts
overlap, although the alias is read, compared and set by separate calls
(`tracking.py:383`), which is what `registry_promotion` checks with two at a
time. `HistoryCorrect`: the verdict on a bundle, a registered version and the
bundle, role and end of a run are never taken back.  `ApprovalsCorrect`: the
alias names nothing but a registered version, the incumbent of each version is
an earlier version, and each decision is true of the incumbent it names.  Its
invariants are `ChainInv`, which follows the version that an attempt has found
or created until it sets the alias (`Holds`), and `DecisionsInv`; both need
`HistoryCorrect` for what the others do meanwhile.  So an overlap can move the
alias to an approved model that did not beat the one in place, or back to an
earlier one, and no worse.

With `limit = 1`, also `NoDuplicatesCorrect`, `OneRoleCorrect`,
`LoadableCorrect`, `PromotionsCorrect` and `RegisterImplemented`, for any number
of attempts and any datasets.  Here every check is made in a call of its own and
acted on in a later one, so none of these is inductive: `SerialInv` adds, as
`Progress(a)`, what the checks an attempt has passed still say (no matching run
when it is about to create one, no version of its bundle and only versions of
its role when it is about to create one, the alias it compared with when it is
about to set it), and `OneActive`, which is why they still say it.
`RegisterImplemented` is the refinement of `PromotionRegister`, under the same
mapping that the run checks.

`IngestionProofs`: `TypeCorrect`, `SilverCorrect`, `OwnRowsFound` and
`LedgerCorrect` for any number of attempts, overlapping or not; with
`limit = 1`, `ManifestCorrect`, `RecordedCorrect` and `VerdictsCorrect`.
`SilverPassedItsGate` holds under overlap because the
file is renamed whole and its content was fixed when it was scanned.  The
other two relate several files, each written in its own step: `RunInv` says what
has been brought in line at each point of an attempt (`FilesInv`), that nobody
else is at work (`AloneInv`), and that after a kill the manifest is gone or
true.

The lineage rows are safe under overlap, because each attempt owns its row
(`RowsInv`): `OwnRowsFound` says that `complete_run` and `fail_run` find it
running, and `LedgerCorrect` that a row is finished at most once, by its
own attempt as that ends, and that a run which returns has recorded its verdict.
A database error in `complete_run`, which is outside the `try` block
(`workflows/ingestion.py:111`), therefore leaves a row that says `running`, and
never one that says something false.  `VerdictsCorrect` says that a recorded
verdict is the gate's on the revision and the policy that the row names.  It
needs one attempt at a time: the report takes its counts from the scan and its
checksum from a later read of the path, and TLC finds the counterexample with
two attempts.

`GoldFeaturesProofs`: `TypeCorrect`, `GoldVersionCorrect` and
`BundleVersionCorrect`, for any number of builders, trainers, months and
contents, overlapping or not.  The version is computed from the contract that
was read when the target was opened, and the rows come from a later read: the
invariant `Tested` says that a builder about to publish holds rows of the
version it computed, which only the dbt test of the contract ensures; gold files
come from nowhere else.  A trainer takes the version from the table it has read
and not from the path it hashes, which is why the version of a bundle is right
even where its name is not.

With `limit = 1`, `ManifestCorrect`, `OneContractCorrect` and
`ReturnedBuildCorrect`: silver stands still while a build runs, so
`BuildProgress` can say at each point that what the builder has opened, hashed
or aggregated is what the path holds now, and later that gold was made of it.
`MatchingManifestIsTrue` speaks only of a manifest whose output is in place; the
inductive form, `ManifestsAreTrue`, is that every manifest lists inputs that
result in the output it describes, whether or not that is still in place.  All
of this holds for every `RowsOf`, whichever inputs it gives the same rows.

`ReturnedBundleCorrect` and `NamesCorrect` let builds, ingestions and training
overlap in any way.  `TrainingInv` says that each trainer took the version from
the table it read, and, as long as `HashedAsRead` holds, that each bundle is
named by its data (`BundlesNamed`), so that a bundle found under a name has the
data of whoever looks for it. `NamesCorrect` is the property that
`training_overlap` refutes: the two together say that hashing another file than
was read is the whole cause, and hashing the file that was opened the whole
remedy.

`OnlineFeaturesProofs`: `TypeCorrect`, `FreshCorrect`, `GoldCorrect` and
`ParityCorrect`, for every set of trips, every zone set and window length.  The
inductive invariant `OnlineInv` adds `SnapshotsAreTrue` (a snapshot is the true
window of the zone, role and cutoff it states, whatever its key) to the
properties; that a lookup is right then follows from its own checks
(`PassedSnapshot`, `FreshLookup`).  The gold side is a chain of lemmas about the
SQL: what the frame over the ledger aggregates is `CompletedIn`
(`LedgerWindow`), and the staging filter removes no trip that a target window
needs (`StagingKeepsWindows`).

`ServingProofs`: `TypeCorrect`, `CreatesAreTolerated`, `LayoutCorrect`,
`ResourcesReleased`, `RequestsCorrect`, `RequestsUseOneApp` and
`CountsAreChecked`, for any number of pods, requests, layouts and models.
`EnsureInv` says what an init container knows of the topic at each call, however
many create it at once (the topic, once created, keeps its layout).  `LifeInv`
says which of model, store and sink a process holds at each statement of the
lifespan, by who owns them.  `RequestInv` says that a request under way belongs
to a process that is in service, which is what uvicorn's waiting for requests
gives, and this together with `LifeInv` rules out the answers of a half-closed
service.  From the same invariants, `RequestsUseOneApp` says why the handler
needs no lock: between two of its reads of `model`, `store` and `sink` no step
of anybody assigns them.  Hence `CountsAreChecked`: a request without a
passenger count reaches the prediction only on a model that admits one, although
the count is tested against one read of `model` and the prediction made with
another.

`ReleaseMeasurementProofs`: `TypeCorrect`, `SamplesCorrect`,
`ConcurrencyBounded`, `DropsCorrect`, `PassedReadbackCorrect`,
`PassedPhaseCorrect`, `FaultlessReadbackCorrect`, `AmbiguousCorrect` and
`OutageCorrect`, for any number of requests, any limit and any partitioning;
`GeneratorImplemented` shows that a phase implements the load generator alone,
of which `GeneratorLimits` is proved first. The invariant `MeasurementInv`
follows a prediction on its way: who has been issued and sampled (`IssuedInv`,
`UnrecordedInv`, `LimitInv`), that an answer "published" is a record in the
topic (`ClientInv`), that until the broker errs the topic has one genuine record
of each (`LogInv`), that such a record is below the watermark of its partition
(`EndsInv`), and that what the driver has counted is what lies below its
positions (`ReadInv`). `AmbiguousCorrect`: what the readback reports as
ambiguous deliveries has been appended and was never definitely rejected,
whatever the broker does to the log. `OutageCorrect` is about the phase without
a broker: no client is told of a success, and the readback, whenever the late
records arrive, matches nothing.

`ReleaseOperationsProofs`: `TypeCorrect`, `EvidenceCorrect`, `RestoreCorrect`,
`PassedIsCompleteCorrect` and `PassedCorrect`, for any number of restarts.  The
invariants say which readings of the process identity exist at which step
(`PositionInv`), that the broker stays away during the outage (`OutageInv`), and
that the processes of the benchmark phases are no older than the first reading
and no newer than the second (`ProcessInv`); two equal readings then enclose one
process.  A reading is two calls between which the API may restart, so a reading
alone may name a process that never was: that is why the invariant bounds both
parts of it. `PassedIsCompleteCorrect`: behind a passing result every phase of
the mode has returned, and its evidence is in the output directory.  `PhasesInv`
says that until something fails, the phases before the current step have
returned.

Three properties of `GoldFeatures` are proved and in no run: `GoldVersionMatchesRows`
(on which `BundleVersionMatchesRows` rests), `GoldHasOneContract` and
`ReturnedBuildIsCurrent`.  The others that appear here and in no run
(`ResultStep` and `OnceStep`, `OwnRowIsRunning`, `RecordedVerdictsAreTheGates`, `CountInv`,
`AnswersAreTrue`, `AmbiguousDeliveriesAreReal`, `OutageConfirmsNothing`,
`PassedIsComplete`) are defined beside their theorems.  They too were
model-checked before they were proved, those of the ingestion also with two
attempts at a time.

Only model-checked, because fairness and `ENABLED` are outside the prover's
reach: the liveness properties `EveryCallIsAnswered`, `EveryCloseReturns`,
`MeasurementEnds` and `HarnessEnds`.  The four properties that a run refutes are
of course not theorems of the system; `NamesCorrect` is one with its assumption.

## What is not modelled

- `contracts.py`, `settings.py` and the rest of `cli.py` validate single values
  and have no state.
- `workload.py` samples deterministically, in one process, from data in memory.
  Its one reaction to others, refusing a silver file whose checksum changed
  while it was read, is a single check with nothing behind it.
- Model fitting, latencies and metrics are numeric code: where their result
  matters it is a constant or a free choice.  The files in which results are
  reported are left out.
- The lineage migration is an idempotent command under an advisory lock; the
  quality-check rows are part of `complete_run`'s transaction.
- The release scripts other than the driver and the harness run once by hand and
  record what they read; the publication and republication in
  `validate-release-model.py` are attempts of `ModelRegistry`.  The driver's
  queries of Prometheus and Grafana only read: in `ReleaseOperations` they are an
  invocation that passes or fails.
- The Helm chart and Dockerfiles are declarative.  What they decide about the
  order of things (init container, rolling strategy, command) is in `Serving`;
  Kubernetes, Kafka, MLflow, Redis, PostgreSQL and uvicorn are external.
- Two registry writers at once are unsupported by the code's own account
  (ADR-0017); the properties of `registry_promotion` without `limit = 1` say
  what holds all the same.
- That a prediction which the client sends again has one record rests on the
  idempotence of client and broker, and that a rollout keeps a ready pod on
  `maxUnavailable: 0`: both are settings, kept by Kafka and Kubernetes, and no
  property here would show more than that they are assumed.
- The API answers the request it was sent: the benchmark's outcomes for a
  response with another trip, model or an invalid prediction
  (`benchmark.py:133-140`) never come up in a measurement.
- `lookup` also refuses an answer of Redis with another number of values than
  keys, which `MGET` never gives.
- Ctrl-C inside the harness's `finally` block is `Kill`: the rest of the block
  is skipped, and a stopped broker then stays stopped.

## Plan

Done, in the order of importance: publication, registry and promotion,
ingestion, gold features and training inputs, online lookup, serving and its
rollouts, the load generator and the release measurement, the release harness;
the proofs of every safety property that the runs check, and of what holds
beyond the operated system: overlapping registry writers, ingestions and builds,
the history that is never taken back, the variables that handlers and callbacks
share without a lock.  What could follow:

1. Composing `Serving` with `Publisher`, so that `close` at the end of the
   lifespan is the publisher's and not one step: two pods with a publisher each
   are beyond TLC at useful bounds, so this would rest on a refinement of
   `PublicationContract` extended by `close`.
2. Composing `Ingestion` with `GoldFeatures`, where silver now changes by one
   `Ingest` step: the invariants of `Ingestion` justify that step for one
   attempt at a time.
3. The migration of the lineage schema beside running ingestions, should it ever
   change a table that they use.
