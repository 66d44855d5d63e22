# Verification of the job queue and its neighbours

This project keeps TLA+ models of this repository of Odoo addons next to the
code: what they do when several workers, users and processes meet in the
database, which properties that has, and which of them are proved. All paths
below are relative to `src/`.

The repository holds about fifty addons. One of them, `queue_job`, is a
concurrent system: it runs functions asynchronously in HTTP workers, driven by
a runner process, with nothing but PostgreSQL between them. It is modelled in
most depth. Of the other addons, which extend handlers of Odoo, those that keep
state of their own, or compute something that is easy to get wrong, are modelled too;
the rest is listed as not modelled.

## 1. Inventory

### queue_job

| Part | State it keeps | Operations | Where |
|---|---|---|---|
| Job | row of `queue_job`: state, retry, eta, date_enqueued, dependencies, identity key; row of `queue_job_lock` | `Job.load`, `lock`, `perform`, `store`, `set_*`, `postpone`, `enqueue_waiting`, `cancel_dependent_jobs` | `job.py` |
| Controller | none; one request of the runner per job | `_acquire_job`, `_try_perform_job`, `_enqueue_dependent_jobs`, `_runjob` | `controllers/main.py` |
| Runner | its connections, one for notifications; the `ChannelManager`; an advisory lock | `run`: initialize, requeue dead jobs, process notifications, run jobs, wait | `jobrunner/runner.py` |
| Channels | a tree; per channel a queue, the running and failed jobs, a throttle delay | `notify`, `set_*`, `get_jobs_to_run`, `get_wakeup_time`, `get_channel_by_name` | `jobrunner/channels.py` |
| Delayables | chains, groups, `on_done`, in memory of the caller | `delay`, `_connect_graphs`, `_execute_graph_direct`, `split` | `delay.py` |
| Buttons, autovacuum | none | `button_done`, `button_cancelled`, `requeue`, `_gc_old_jobs` | `models/queue_job.py` |
| Functions, records of channels | retry pattern, channel, related action per function; a name and a parent per channel; a cache | `job_config`, `_parse_retry_pattern`, `create`, `write`, `unlink` | `models/queue_job_function.py`, `models/queue_job_channel.py` |

How they interact. A caller stores a row; a trigger (`post_init_hook.py`) sends a
notification for every row that is written, and for one that is deleted unless it was done. The runner reads
notifications, re-reads the row and tells the channels. What the root channel lets
through is set to `enqueued` with a plain `UPDATE`, followed by an HTTP GET in a
thread that nobody waits for. A worker that serves the GET checks the row under
`FOR UPDATE SKIP LOCKED`, commits `started`, locks the row in `queue_job_lock` and
performs the job in the transaction that holds this lock. A runner that finds an
enqueued or started job whose lock row nobody holds takes its worker for
dead and sets the job to pending or failed. Users and the autovacuum write the same
rows at any time.

What is hard: workers run in REPEATABLE READ, where a stale snapshot makes a write
fail but a read succeed; requests and notifications are lost or late; any process
may die between two commits; the channels act on a memory of the table; the runner
sleeps until a wakeup time that one walk of the tree computes while another walk
decides what may run; what functions say is cached while users edit it.

What makes it correct: a job is never performed by two workers; its work and its
state are committed together; no job is forgotten; a job starts
only after its dependencies, and always once they are done; a channel never exceeds its
capacity, keeps its order if sequential, and lets every job through in the end; the limits
of a channel bind all jobs below it; `chain` and `group` mean what they say.

### The other addons with behaviour of their own

| Addon | State and operations | What is hard | What makes it correct |
|---|---|---|---|
| `endpoint_route_handler` | records, the table of routes they are copied to by a hook after the commit, a version bumped by triggers; per worker a routing map cached by version | snapshots of overlapping syncs, caches cleared before the commit | each process serves the routes of the table once a change is signalled; a record marked as synchronized is in line with the table |
| `endpoint`, `endpoint_json2` | an endpoint with many fields that constrain each other; one request at a time | constraints that look at some fields when others change | an endpoint that can be saved answers, with the rows and keys asked for |
| `account_billing`, `l10n_jp_summary_invoice`, `..._carryover` | billings draft/billed/cancelled, their invoices, a tax adjustment entry, amounts carried over from the billing before | any order of buttons; values that depend on records found by a search | an invoice is in one open billing; an adjustment exists while it is needed; what is carried over is what is owed |
| `account_commission_oca`, `commission_oca` | settlements, their lines, the bills of agents | any order of buttons on three documents; wizards left open | a commission is paid once, none is forgotten, none is paid for a cancelled invoice |
| `sale_automatic_workflow` | one cron over orders and invoices, a savepoint per record | users beside the cron, records that fail | no step is done twice, every order gets to its end |
| `auditlog` | `create`, `read`, `write`, `unlink`, `export_data` patched in every process; logs | calls within calls, flushes in between, conflicts, restarts | each process logs what the rule says; every change is told from its old value to its new one |
| `tracking_manager` | values before the first write, in data of the transaction; a cache of what is tracked | savepoints, moves between owners, deletions | the owner is told each change of its lines once |
| `stock_date_done`, `purchase_stock_date_done_revaluation`, `purchase_auto_bill_on_receipt`, `stock_no_negative` | effective dates of transfers and scraps, a mark for the cron that bills receipts | dates edited before, during and after validation; failures of the cron | moves have the date of their transfer; what was received is billed, and no more |
| `base_import_match` | rules | rules in order, conditions, empty cells | a file imported twice changes nothing |

The remaining addons normalise text, lay out reports or add fields; `PROJECT.json`
lists each with the reason it is left out.

## 2. Modules

| Module | What it is |
|---|---|
| `JobContract` | what `with_delay()` promises about one job: one performer, work committed at most once |
| `JobExecution` | row, lock row, runner, requests, workers, users; implements `JobContract` |
| `JobProofs` | theorems about `JobExecution`, `JobRouting` and `DelayGraph` |
| `JobDependencies`, `MCJobDependencies` | graphs of jobs under snapshot isolation; the graphs of the runs |
| `JobDependenciesProofs` | theorems about `JobDependencies` |
| `Channels`, `MCChannels` | the tree of channels and the loop of the runner; the tree of the run |
| `ChannelsProofs` | theorems about `Channels` |
| `JobRouting`, `MCJobRouting` | functions, records of channels, the channels the runner makes of a configuration, waits of retries, the autovacuum |
| `DelayGraph` | what `chain`, `group`, `on_done` and `delay` make of nested calls |
| `EndpointRegistry`, `MCEndpointRegistry` | user-defined routes: records, the table of routes, the routing maps of processes |
| `Endpoints` | what an endpoint may be set to and what it answers |
| `EndpointProofs` | theorems about `EndpointRegistry` and `Endpoints` |
| `CommissionSettlement`, `MCCommissionSettlement` | invoice lines that earn a commission, settlements, bills of the agent |
| `CommissionSettlementProofs` | theorems about `CommissionSettlement` |
| `Billing`, `MCBilling` | billings of a customer, with tax adjustments and amounts carried over |
| `SaleWorkflow` | the cron that takes sale orders through their workflow |
| `SaleWorkflowProofs` | theorems about `SaleWorkflow` |
| `Receipts`, `MCReceipts` | receipts, returns and scraps: their dates and their bills |
| `InvoicingProofs` | theorems about `Receipts` and `Billing`, which share the lemmas about sums |
| `AuditTrail`, `MCAuditTrail` | rules of the audit log, the methods each process patches, the logs of a transaction |
| `LineTracking` | changes of lines told to the record that owns them |
| `ImportMatch` | which record a row of an import updates |
| `RecordProofs` | theorems about `AuditTrail`, `LineTracking` and `ImportMatch` |
| `MCAlgorithms` | `DelayGraph`, `Endpoints`, `ImportMatch` and `LineTracking`, which interleave little, in one run: each behaviour is about one of them |

The modules of `queue_job` share the job as their unit and cut its life differently.
`JobExecution` takes one job's row, locks and processes in full and reduces the channels to
"some time later". `Channels` takes the runner's memory in full and reduces the
workers to "ends, fails, dies or postpones". `JobDependencies` takes the transactions that
touch several jobs and reduces the execution of each to a few steps. `JobRouting` takes what
users configure and reduces the runner to its tree. Each header says what its states stand for.

**JobExecution.** One action per commit or lock, since that is what others see.
`Enqueue` is `run_jobs`/`set_job_enqueued`; `AcquireRow`, `CommitStarted`, `LockJob`,
`AbandonJob` are the steps of `_acquire_job`; `RunBody`, `MarkDone`, `RetryLater`,
`RetryIgnored`, `SerializationFailure`, `FailJob`, `Rollback` those of `_runjob`. Outcomes other
than done are written from a second cursor (`WriteOutcome`) while the first still
holds the lock, as in `in_temporary_env`. `RequeueScan` and `RequeueApply` split the requeue
statement where its snapshot ends and its row locks begin. `stale[w]` says that the row
of w's job was written since w's snapshot: then its commit fails.

**JobDependencies.** `snap` and `missed` are the snapshot of each open transaction and
the rows written since; a commit that writes a missed row is impossible. The release
of dependents is a transaction after the commit of the job (`BeginRelease`,
`CommitRelease`, `FailRelease`); a button is one transaction that Odoo repeats on
conflict (`Click`, `CommitClick`, `RetryClick`). `sawOpen` is the cached `Job.depends_on`. The runner reads a row
(`Read`), takes the job for pending (`seen`), and enqueues it some time later without looking at the row again (`Enqueue`, the
`UPDATE` of `set_job_enqueued`). `reopened` is history: the jobs that were closed and are open again, because a user asked for them or
because the runner had not read that they were closed.

**Channels.** `Notify`, `SetPending`, `SetRunning`, `SetFailed`, `Remove` are the methods of
`Channel` and `ChannelManager` on the three sets of every channel. A sweep of
`get_jobs_to_run` is one action: `Full` is the queue of a channel once its children
have passed on their jobs, `Taken` what the channel takes of it. `SetAlarm` and `WakeUp` are
`wait_notification`. A restart keeps or loses the throttle delays and may come in the
middle of a sweep. Whoever asks for a job again, a user or the worker that postpones it, may leave it waiting for its dependencies
(`AskAgain`); `Blocked` names what a channel then never has room for.

**JobRouting.** `SaveChannel`, `DeleteChannel`, `SaveFunction`, `DeleteFunction` are the writes of the two
models with the cache they clear; `JobConfig` is the cached `job_config`, `Delay` stores its channel in
the job. `Place` and `Created` are `get_channel_by_name` with its fallback and autocreation, `Configured` and `Restart`
the options of the server (`Notified`: the jobs that the runner then finds, in any order). `ReadRow` and `HandOut` are the runner that
reads the row of a job, creates its channel and takes it for pending (`taken`), and later hands it out whatever the row says then; `End` and `FailOrDie`
are the ends of a job, of which only the first writes a date. `since` is the day of the first end since the job was last asked for. A channel keeps its
`complete_name`, as in the table; `NameAfter` is what a save makes of the names below it. `RetrySeconds` is the wait of a postponed job, `GcOldJobs` the autovacuum.

**DelayGraph.** The caller builds any nesting within the bounds; `Connected` is the merge of
the graphs with `_head` and `_tail` as the code has them; `DelayTop` is `delay()` with its test of
identity keys; `ExecuteDirectly` one vertex of `topological_sort`; `GraphShown` what the form of a job shows.

**EndpointRegistry.** `Create`, `EditRoute`, `Archive` are `create` and `write` of a record with their
effect on `registry_sync`, which is set, not cleared, when a record is in line. `Sync` is the
commit of the flag; the hook after it is `ReadRecords` (its snapshot), `WriteRows` or `FailSync`
(rows, version and cleared cache, all of them before the commit), `CommitSync`, and Odoo's `Signal` to the other
processes. `BeginRequest` and `Serve` are the two ends of the time in which a request may store an old
map. The environment is Odoo's: caches are cleared in the own process at once and in another one when it
begins a request after the signal; an error in the hook reaches the user and rolls back
the hook only. Whether Odoo's own `routing_map` keeps a map across versions is left open
(`MapFor`). `hash()` is salted per run of the server, hence `serverRun`.

**Endpoints.** `EditEndpoint` is a save of the form with its onchanges and all constraints of the two addons;
an endpoint is edited a few times, each time starting from what the last save left, since some constraints look
only at the fields that were written. `Answer` is one request from the validation of its headers to the payload:
`DomainOf` and `FieldsOf` read its parameters, `Callable` is what the method can be called with, `FieldsRead` adds what dotted names need, `Payload` injects and renames.

**CommissionSettlement.** One action per button or wizard, in one transaction on a snapshot. Those that write a common row exclude each other; settling lines
and cancelling their invoices read what the other writes and write no common row, so that `Settle(day, cancelled)` also cancels some of the invoices whose lines it
settles, and `crossed` remembers these lines. `Settle` is `action_settle` with its loop over the
lines in the order of their dates (`Collect`), the search for a settlement of the period and the calendar of
`_get_period_start` and `_get_next_period_date`. `ButtonCreate` and `MakeBills` are the wizard that bills, whose choice was
made when it was opened (`OpenWizard`). `PostBill`, `CancelBill`, `DeleteBill` are the overrides of `action_post`, `button_cancel` and
`unlink` that keep a settlement in line with its bill; `ResetBill` is Odoo's `button_draft`, which the addon does not
override. `earned` and `linked` tell the lines of a settlement from those whose agent line still
knows it. Amounts are left out: `paysFor` are the lines a bill was made for.

**Billing.** One action per button; `Validate` is the chain of the three overrides, from the constraint to the
posting of the tax adjustment and the freezing of carried amounts. `Recompute` is the framework's recomputation along
`prev_billing_id` (`Chain`), `Amounts` what `_compute_carryover_amounts` finds with the candidates of that moment. `open` are the
residuals of invoices, which payments change at any time. `straight` is history: the drafts whose previous billings, as they
were searched, are still those that are billed.

**SaleWorkflow.** The cron is one transaction with its snapshot (`run`): `Start`, then per step a search (`AtStep`), then one
savepoint per record (`DoRecord`, `FailRecord`), then `Commit`. A row that users write meanwhile makes the step of its
record fail. Users do by hand whatever the cron does, and send quotations, cancel, reset, and pay all or part (`PayByHand`, of an `Amount` of two).
`LeftToUsers` is an invoice that the filters do not find again.

**Receipts.** `ButtonValidate` and `DoScrap` are the validation with its dates kept, `EnterDate` and `EditDate` what users
write before and after, with the moves, journal entries and values that follow. The cron is a transaction of several
steps (`CronStart`, `CronSkip`, `CronNothing`, `CronBill`, `CronBillUnposted`, `CronFail`, `CronCommit`). Beside it users make bills of their own (`BillByHand`), and post, reset to draft
and cancel these and the automatic ones (`PostBill`, `ResetBill`, `CancelBill` and the same `ByHand`); a bill counts as invoiced unless it is cancelled, and the line as billed
(`IsPurchaseBilled`) while some bill is posted. `left` are the transfers of which a user was told that their bill failed. `kept`, `unbilled` and `uncredited` are
history: moves that got their date while a bill was posted, and quantities of cancelled bills and credit notes.

**AuditTrail.** `patched` is what each process has patched; administration happens in one of them (`Administer`), by users, who edit drafts, or by imports, which
create and edit rules in any state. A change is `Committed` or `RolledBack`, which leaves what was patched; `Signal` and `Reload` bring the
others in line. `astray` is history: the processes that were left behind. `stack` are the calls under way in one transaction: `BeginWrite`, `Write`, `EndWrite` are the patched method
before, during and after the original one, and any calls may come in between, which are the overrides of other
addons. `cache` and `db` differ until a flush. `guard` is the set in the context that all calls of one write share.
`Retry` runs the HTTP request again, with its attribute kept and its rows rolled back.

**LineTracking.** `WriteLinesOf`, `CreateLine`, `UnlinkLine` collect (`Prepared`), the hooks before a commit compare and log (`RunHooks`, `told`). A
savepoint runs them when it begins and when it is released and forgets when it is rolled back. `was`, `born` and `died` are history,
from which `Due` says what owners should be told. `known` is the cache of what is tracked: `Activate` fills it with the setting from before the write, `ConfigureFields`
with the new one, other processes clear it (`ConfiguredElsewhere`); `inForce` is the setting of that moment.

**ImportMatch.** `Targets` is what `load` makes of the rows of a file, by rules (`MatchFind`) or by the fields users choose;
`Load` is the import of Odoo that follows.

## 3. Runs

| Run | Question | Result |
|---|---|---|
| `JobExecution` | Is a job performed by one worker, its work committed once, as the contract says, whatever is lost, late, dead or clicked? Does every pending job settle? | yes, the latter under the fairness of section 5 |
| `Dependencies` | Do workers alone release every job, however they race? With users, cancellations, requeues, deletions and dead workers: does a job start too early, or under a cancelled one? | yes; no, but under one that was cancelled when one of the two was opened again, by a user or by a runner that had not read its end |
| `DepsConflict` | `queue_job/readme/USAGE.md:95-101`: is a waiting job released when its parents are done? | violated |
| `Channels` | Capacity, conservation of jobs, no lost wakeup, order of a sequential channel (no start after a failure, no overtaking of what is due or first by eta), a turn for each pending job of an open channel | all hold; a channel may be blocked by a job that failed, or waits and was asked for again |
| `JobRouting` | Do the limits of channels bind the jobs they are meant for, do retries wait as their function says, does the autovacuum leave other jobs alone? | yes, unless channels are renamed or a configured name repeats a label; a job that the runner handed out after its end is taken by the date of that end |
| `Algorithms` | Do nested chains and groups give the order they promise, is no job dropped? Does every endpoint that can be saved answer what was asked? Does a file imported twice change nothing? Are owners told of their lines? | yes, within the restrictions of section 4 |
| `EndpointRegistry` | Is a synchronized record in line with the table, does no deleted one stay in it, does every process of a server with workers serve the routes of the table? | yes, but for records whose last sync failed or overlapped |
| `CommissionSettlement` | Is a commission paid once, not forgotten, not paid for a cancelled invoice, and settled in its period, whatever is cancelled, reset, deleted and billed again? | yes, if users avoid four things; but a line may be settled while its invoice is being cancelled |
| `Billing` | Is an invoice in one open billing, the tax adjusted exactly where it must be, what is owed carried over, a validated total kept? | yes, within the restrictions of section 4 |
| `Receipts` | Have moves and their values the dates of their transfers; is what was received billed, and no more? | yes, but for dates given while a bill was posted, and what users cancelled |
| `SaleWorkflow` | Is each step done once beside users, and does every order get to its end? | yes, or it is left to users, who sent the quotation, or reset the invoice or paid a part of it |
| `AuditTrail` | Do all processes log what the rule says; do the logs tell every change; do they refer to requests that exist? | yes, within the restrictions of section 4; processes may be left behind by imports, rollbacks and ticks edited late |

`CHECK_DEADLOCK FALSE` is set everywhere but in `SaleWorkflow`, whose scheduled action can always start: elsewhere, once the bounds are
used up and all jobs are done, the system may stop.

`Channels`, `Algorithms`, `AuditTrail`, `Receipts`, `JobRouting`, `Dependencies` and `SaleWorkflow` are the long runs, of one to three minutes.

### Bounds

| Bound | Meaning | Why it is enough |
|---|---|---|
| two workers | two requests for one job at the same time | a third adds no pair; the proofs hold for any number |
| `JobExecution!MaxFaults` | deaths, lost requests, conflicts, ignored retries, runner restarts | two: a worker dies while the other is late |
| `MaxRequests` | requests for one job under way | two: a duplicate that arrives after the job was retried |
| `RetryCap` | a job retried more often is not enqueued | above the highest count the other bounds allow |
| `JobDependencies!MaxEvents` | buttons, dead workers, deletions by the autovacuum, together | two: the buttons of two users may be open at once, beside the transactions of the workers |
| `Graphs` | the graphs of three jobs a run starts from | two parents of one job, and a chain with a shortcut, either way round; `OnlyOverlap` is the graph of `DepsConflict` |
| `MaxTime`, `LazyTime` | the clock; in the behaviours with a fine clock it ends at `MaxTime`, in the others it runs only while the runner waits for an alarm and is not exhausted | 4 lets two throttle delays pass; time that nobody waits for changes nothing |
| `Channels!MaxEvents` | failures, retries, buttons, restarts of the runner | two events hit the same job or two jobs of a channel |
| `Etas` | the etas jobs are created with | none: etas come from retries only; the theorems of section 6 are for jobs with any etas |
| `JobRouting!MaxChanges`, `MaxTime` | saves, deletions, jobs, restarts; days | three: a channel, a function that uses it, a job, or an edit of one of them; what becomes of a job is not counted; three days pass every interval |
| `MaxComposites`, `MaxOnDone` | chains and groups, calls of `on_done` | three levels of nesting, each with two or three items |
| `MaxEdits` | saves of an endpoint | three: the mode is left, something is edited that is hidden now, the mode is entered again |
| `Tables`, `Files`, `RuleSets` | up to two records and two rows of two columns; no rule, one, one with a condition, two | two records match one row, two rows match one record, empty cells |
| `LineTracking!MaxSteps` | writes of lines and of what is tracked | three: create, move, delete; or write, configure, write; savepoints are not counted |
| `EndpointRegistry!MaxEvents` | edits, archivings, syncs, deletions, deaths and restarts, together | three: two syncs after or beside an edit; a route that changes hands and is synced; requests and the steps of a sync are not bounded |
| `MaxSettlements`, `MaxBills` | settlements and bills at the same time | two: one cancelled, one that replaces it; two periods; slots are used again after a deletion |
| `SettleUpTo` | dates entered in the wizard | 21 January settles the first of the two lines only when settled every half month, the other date both |
| `Billings`, `MaxValidations`, `Billing!MaxEvents` | billings; validations; payments, resets, cancellations, reopenings | three billings make a chain in which the last depends on the first through the second; one is validated, cancelled, validated again |
| `Receipts!Bounds` | days, dates entered, bills made or cancelled by users, bills posted or reset, faults; four sets of bounds, each behaviour has one | dates and billing meet only in whether a line is billed: one set has more dates, one a date and a bill that is reset, one posts and resets, one a date and two bills made or cancelled |
| `Receipts!Hands` | bills that users make | one at a time, again after it was cancelled; the proofs hold for any number |
| `Copies` | invoices of an order | three: two that were cancelled and one that counts |
| `SaleWorkflow!MaxUsers`, `MaxFaults` | what users do; failures of records and crashes | four acts reset, cancel and replace an invoice and pay it, or pay it in two parts, within one run of the cron |
| `MaxDepth`, `MaxCalls`, `MaxBefore`, `AuditTrail!MaxEvents` | calls within calls, calls of a transaction, changes of the rule before a request and in all | depth two and three calls: before and after the method within a call, or one beside it; four changes create, confirm, revert and edit a rule, or import, edit and roll back; calls need the rule that one change can create |

In `EndpointRegistry` records and routes, in `Dependencies` the two users and the first two jobs, in `JobRouting` the records of channels, in `Algorithms` the jobs, in `AuditTrail` records and
processes are interchangeable and declared symmetric; these runs check no liveness.

## 4. Where code and documentation disagree

`DepsConflict` states a sentence of the documentation, quoted in `PROJECT.json`: two parents release at the same
time; the savepoint of the later is retried with the snapshot that made it fail.

What the passing runs leave out, each by a constant or a clause, is left out because the code fails there:

| Change | Violated | What happens |
|---|---|---|
| `Dependencies`, checking `NoJobStranded` | `NoJobStranded` | a worker dies between the commit of its job and the release; or a button and a worker finish two parents without seeing each other; or a postponed job uses the dependencies it read when it started. `NoneStrandedByWorkers` is about the time before the first of these events |
| `Dependencies`, `NoneStrandedByWorkers` without `~Overlaps(j)` | `NoneStrandedByWorkers` | the run `DepsConflict`: a release that fails on one dependent leaves all of them, also those nobody else releases |
| `Algorithms`: `DeepEnds = TRUE` | `OrderKept` | a chain at the end of a chain: `_head` uses the tails of the first item, `_tail` the heads of the last (`delay.py:304-306` "A chain means that jobs must be executed sequentially") |
| `Algorithms`: `KeyedSets = {{a}}` | `NothingDropped` | jobs without an identity key are dropped when the others exist |
| `Algorithms`: `Archived = {"there"}` | `RowsAreAsAsked` | dotted fields are read with `search_read`, which skips archived records (`endpoint_endpoint.py:360`) |
| `EndpointRegistry`: `Procs = {p1}`, `ProcessOf <- Threaded` | `NoStaleRoutes` | a server without workers has threads: the cache of the process is cleared before the commit of the change (`endpoint_route_sync_mixin.py:108`), a thread that still reads the old rows caches them again, and the signal is for other processes only |
| `EndpointRegistry`, `SyncedInLine` without `troubled` | `SyncedInLine` | a sync fails on the hash of a row that is out of date; two syncs of one record overlap, the one that archives it finds no row yet |
| `JobRouting`: `StaleRenames = TRUE` | `LimitsApply` | renaming a channel does not clear the cache of `job_config` |
| `JobRouting`: `Configs = {<<a, a.a>>}` | `LimitsApply` | `get_channel_by_name` adds all labels again below the longest name it finds (`jobrunner/channels.py:1051`): a job of `root.a.b` goes to `root.a.a.b`, under the limits of `root.a.a` |
| `CommissionSettlement`: `Careless = {"regenerate"}` | `PaidOnce`, `NoneForCancelled` | "Regenerate agents" on an invoice that was set to draft replaces the agent line of a settled line, which `account_move.py:217` "You can't modify a settled line" does not see; the new one is settled again |
| the same with `{"wizard"}`, `{"revive"}`, `{"delete"}` | `PaidOnce` | a wizard left open bills a settlement twice; a cancelled bill is set to draft and posted beside its replacement; a cancelled bill is deleted, which sets the settlement that was billed again back to settled |
| `Billing`: `TaxDiff <- RoundedDown` | `CarriesWhatIsOwed` | the adjustment is a credit note, whose residual has no sign (`l10n_jp_summary_invoice_carryover/models/account_billing.py:173`) |
| `Billing`: `Careless = {"stale form"}` | `BilledAndAdjusted` | buttons check no state: a billing that is billed is validated again from an old form |
| `Billing`: `Careless = {"unposted"}` | `BilledAndAdjusted` | an invoice is reset while its billing is cancelled; the billing is reopened and validated (`account_move.py:109`) |
| `AuditTrail`: `Rewrites = TRUE` | `ChangesTold` | the set in the context is shared by all calls: a later write of the same records in an override is taken for a repetition |
| `AuditTrail`, `PatchesFollowRule` without `astray` | `PatchesFollowRule` | an import of a rule, or of its state, is not signalled to other processes (`auditlog_rule.py:885`); what is patched before a rollback stays patched, and when the change is made again the registry does not change, so that nobody is told; ticks that are edited while the rule is confirmed, by an import or an old form, stay patched |
| `CommissionSettlement`, `NoneForCancelled` without `crossed` | `NoneForCancelled` | the invoice is cancelled (`account_move.py:75`) while its lines are settled: each transaction reads what the other writes, neither writes what the other does |
| `Dependencies`, `NothingRunsUnderCancelled` and `ReleasedWhenDone` with `reopened` as the requeues of users only | both | `set_job_enqueued` opens a job that is done or cancelled again (`runner.py:207`) |
| `JobRouting`, `OnlyOldJobsGo` without `reopened` | `OnlyOldJobsGo` | a job is cancelled, handed out all the same by the runner, and performed or failed: its old date stays, and the autovacuum, which looks at dates only, deletes it |
| `Channels`, `Blocked` with failed jobs only | `EveryJobGetsItsTurn` | a job that ran when it was last read, and was asked for again with its eta as it was, waits for its dependencies: `notify` passes over it (`channels.py:1093`), it keeps its capacity. A postponed one does not, since `notify` removes a job whose eta has changed first (`channels.py:1069-1078`) |
| `Algorithms`, `SavedEndpointsAnswer` without `Callable` | `SavedEndpointsAnswer` | `search_count` without a domain is called without its argument (`endpoint_endpoint.py:470`), a domain that is none is evaluated (`endpoint_endpoint.py:458`): an error 500 |
| `Algorithms`, `OwnersAreTold` by `setting` | `OwnersAreTold` | `write` of `ir.model` clears the cache before it writes (`ir_model.py:159-162`), and writing asks whether `ir.model` itself is tracked (`models.py:157-158`): the setting from before is cached |
| `Receipts`, `MovesFollowDates` without `kept` | `MovesFollowDates` | a date is edited while a bill is posted, when moves are not revalued; the bill is reset or cancelled, and the value keeps the old date |
| `Receipts`, `AllBilled` without `unbilled` | `AllBilled` | an automatic bill is cancelled; no transfer becomes pending again, so it is not made again |
| `SaleWorkflow`, `Complete` without `LeftToUsers` or for sent quotations | `EveryOrderCompletes` | the shipped filters ask for `state = draft` and `payment_state = not_paid` (`automatic_workflow_data.xml:11`, `:43`): a quotation that was sent and an invoice that was paid in part are never found again |

Seen in the models, without a property:

- A PostgreSQL conflict becomes a `RetryableJobError` outside of `Job.perform`, where `max_retries` (`job.py:405` "maximum number of
  retries before giving up") is not looked at; the requeue of dead jobs compares before it counts (`runner.py:289`).
- A failed job that is requeued while its dependencies are not done becomes `wait_dependencies`; `notify` passes over it, so it stays among
  the failed jobs of a sequential channel and blocks it (`channels.py:529`), for ever if its parent is in the same channel. `Blocked` in `Channels` excepts it.
- A sequential channel looks only at the first of its waiting jobs by eta (`channels.py:340`). A waiting job is overtaken by one without eta
  if another job waits for an earlier eta and comes after both: "we wait until eta" (`channels.py:345-347`) holds for the first
  one only, and `SequentialInOrder` says no more.
- The second half of a month ends on the day before its last (`_get_next_period_date`), so the last day belongs to a
  period that does not contain it; `EachInItsPeriod` allows that and nothing else, and `CalendarAssumption` checks the calendar for all days of a year.
- The help of `registry_sync` (`endpoint_route_sync_mixin.py:34-40`) has ON and OFF the wrong way round.
- `delay.py:288` returns after the first of the generated jobs it replaces by existing ones; `split` loses the `on_done` of what it splits.
- Configurations that repeat a label (`sub.sub`) apply its limit to other jobs (`channels.py:1035-1057`); retry patterns given as text, floats
  or nested lists pass the constraint and break the wait; nothing checks cycles of channels.
- A code snippet of comments only counts as a snippet (`endpoint_mixin.py:288`); an endpoint whose method became GET keeps a hidden content type.
- The fast audit log omits values that Python takes for false (`auditlog_rule.py`, `write_fast`); `_auditlog_field_cache` is never cleared.
- Amounts frozen by a validation survive cancellation and reopening of the billing; the previous billing is searched again at validation.
- A serialization conflict in `_auto_bill_for_picking` is caught like any other exception, so that Odoo does not try again: the order gets a note and the bill is left
  to users; a move added to a transfer after the cron has billed it is not billed.
- Several rules of `base_import_match` may match two rows of a file to one record; a rule without fields matches the only record there is; two equal new rows of
  a file are both created.
- The former owner of a line is not told when the line moves to another one (`LineTracking`).

## 5. Fairness

- `JobExecution!Fairness`: the loop of the runner never skips a step (`runner.py:505-541`
  catches what a pass raises and starts over), time passes, a request that is not lost is
  served and a job function returns or raises. Deaths, lost requests and clicks have no
  fairness and are bounded: the liveness property speaks of the time after the last of them.
- `PromptServer`, only assumed by `EveryJobSettles`: the server is not so overloaded that
  each request for a job is served later than the ten seconds after which the runner takes the
  job for dead. Otherwise a job may be enqueued and requeued for ever.
- `Channels!FairSpec`: the loop goes on, time passes, a running job ends. The timeout of 60
  seconds of `select` is left out: `runner.py:470` calls it a safety net, and
  `SleepsOnlyWhenIdle` shows that it is not needed.
- `SaleWorkflow!Spec`: the scheduled action runs every minute and goes on once begun; users, failures and crashes
  have no fairness and are bounded. Orders that fail on every run (`broken`) are excepted.

The other modules state no fairness: nothing in them happens but by a user, or it is a single transaction.

## 6. Proofs

What TLC checks on small instances is proved here for every value of the constants that
satisfies the assumption of the module: any jobs, workers, graphs, trees, lines, bounds. Each invariant
was checked by TLC, on the instances of section 3 and sometimes on others, before it was proved. The assumptions
say what kind of thing the constants are. Six say more: the tables of jobs and that of commission lines are finite (`IsFiniteSet`); ids of two
tables are kept apart (`SaleWorkflow`, `JobDependencies`), as are the jobs of `DelayGraph`, of which there are finitely many, from the numbers of chains and groups; a channel is deeper in the tree than its parent, which holds because
its name is the parent's with one more label; and an interval of waiting times of `JobRouting` has its ends in order, without which `randint` has nothing to choose from. Hypotheses that a theorem needs beyond the assumption of its module are given
in the tables, and section 4 shows what happens without them.

Properties of trees, chains and recursive functions (`Visited`, `Ends`, `Leaves`, `PathOf`, `Full`, `WakeupTimes`, `Collected`, `Chain`, `Recompute`, `Configured`, `RetrySeconds`) and of sums are proved by
induction, which the prover knows for predicates only; the lemmas state it for sets: a set that has 0 and is closed under successor has all numbers
(`NatInduct`); one that has each subset of a finite set as soon as it has those with one element less has all of them (`SubsetInduct`); a function
defined by recursion exists (`RecursionExists`, `FromPrevious`). `ChannelsProofs` derives from them inductions from the root to the leaves (`FromRoot`) and back
(`FromLeaves`), `InvoicingProofs` one along the previous billings (`FromFirst`).

### JobExecution

`JobProofs` proves, for any jobs, workers and bounds that satisfy
`ConstantsAssumption` (the names of nobody and of the runner are not workers):

| Theorem | Establishes |
|---|---|
| `Invariance` | `IInv`, the inductive invariant |
| `TypeCorrect` | `TypeOK` |
| `MutualExclusion` | `OneExecution` |
| `ExactlyOnce` | `WorkIsDoneOnce` |
| `HandedOutOnce` | `NoSecondHandout` |
| `Refinement` | `ImplementsContract` |

None of these properties is inductive alone. That two workers do not perform the
same job follows from the lock row, so `IInv` says that a worker that performs holds the lock
of its job and the other way round (`LockInv`), that a worker between its `SELECT ... FOR UPDATE`
and its commit holds an enqueued row (`RowInv`), and that a started worker is on a job
(`StartedInv`). That work is not committed twice needs more, because a user may end a job that is
being performed and the runner may set it to pending. `FreshInv` says that a worker whose snapshot
is not stale performs a job whose row still says started; `EffectsInv` that committed work belongs
to a done job, which the runner does not take for pending and nobody performs.
`NoSecondHandout` is part of the induction: the runner may hand out only
what it believes pending. `TypeStep`, `LockStep` and `EffectsStep` go through the actions one by
one; `ContractInit` and `ContractStep` map each action to a step of `JobContract` or to a stutter.

### JobRouting

`JobProofs` proves, for any channels, labels, functions, patterns, configurations, jobs and bounds that satisfy `RoutingAssumption`:

| Theorem | Establishes | Hypotheses |
|---|---|---|
| `LimitsBindJobs` | `LimitsApply` | `~StaleRenames`; no configured name has a label twice below the root (`LabelsDiffer`) |
| `RetriesWaitAsPatternsSay` | `RetriesWaitAsSaid` | none |
| `VacuumTakesOldJobs` | `OnlyOldJobsGo` | none |

The invariant `RoutedInv` has three parts. `RoutingInv` says that a job with a date has been done or cancelled since it was last asked for, no later than on that
date, and is finished still unless the runner has opened it again (`DatesOf`); and that there is a root channel to take the interval from. `NamingInv` says that the cache agrees with the records:
on patterns always, since a save of a function clears it; on channels as long as no channel above that of a cached function
is renamed, because a save changes names below the saved channel only (`NamingSaveChannel`). A job then has the channel that was meant for it.
`ManagerInv` says that the runner has every configured channel with the options of its last entry: by induction on the
entries (`ConfiguredServes`), then on the jobs it finds waiting (`NotifiedServes`), neither of which depends on an order.

What is left is a fact about names (`PassesWhatIsMeant`): a job whose channel is not known is put below the longest beginning of its
name that is, with all labels once more. No longer beginning is configured, or it would be known; and a longer name on its way down has the label after the root
twice, so that it is not configured either, by hypothesis. The patterns need an induction on the counts (`RetrySecondsReach`).

### DelayGraph

`JobProofs` proves, for any jobs, nestings and bounds that satisfy `DelayGraphAssumption`:

| Theorem | Establishes | Hypotheses |
|---|---|---|
| `OrderIsKept` | `OrderKept` | `DeepEnds = FALSE`: chains begin and end with jobs or groups of jobs |
| `NothingIsDropped` | `NothingDropped` | all jobs have an identity key or none has (`KeyedSets` is a subset of `{{}, Delayables}`) |

Section 4 shows what happens without the hypotheses. What callers compose is a forest, and stays one (`GraphInv`): no object is put in two places
(`OneParent`), and every set of objects has one with nothing of the set below it (`Founded`), which `on_done` preserves because its
argument does not contain what it comes after. `Visited`, which the code computes by a walk, is the least set that is closed under
children (`VisitedIs`); `Ends` and `Leaves` are shown to be what their recursive definitions say by induction on the creation of objects
(`ConstructionExists`, `CreationInduct`).

For `OrderIsKept`, each job of an object comes before one the object ends with and after one it begins with (`Joined`), for groups because each member
is joined, for chains because each item comes after the whole one before (`ChainOrders`) and the first and last begin and end with all their
jobs (`ShallowEnds`): that is what `_head` and `_tail` of a chain, which exchange the two, need. An edge then orders all of what it is between (`EdgeOrders`).

For `NothingIsDropped`, the graph has no cycle: what belongs to two children of an object is apart (`ChildrenApart`), the edges of the object go
upwards along its items (`Ranks`), so in any set of jobs a first one of the lowest child waits for none of the set (`AcyclicFromBelow`).
`Performing` is the invariant of the topological sort: each count is the number of dependencies not executed, and what is ready waits for none. When nothing is
ready, what was not executed would have a first job.

### AuditTrail

`RecordProofs` proves, for any processes, records, rules and bounds that satisfy `AuditAssumption`:

| Theorem | Establishes |
|---|---|
| `RegistriesFollow` | `PatchesFollowRule` |
| `LogsHaveRequests` | `RequestsExist` |
| `ChangesAreTold` | `ChangesTold`, if `Rewrites = FALSE` |

`PatchesFollowRule` speaks of the moments at which everybody was told. `InLineOrTold` says what holds in between: a process that is
not in line with the rule is outdated or astray, or somebody is about to tell it. The point of the induction is that a change is signalled only if
it changes the registry it is made in (`Update`): if that registry was in line and nothing changes there, the others that are in line need
not change either (`Administered`). A registry that was left behind does not see what it changes, and whatever it does may leave everybody behind. `Restored` says that reverting
undoes what the rule patched, which fails once the rule was edited while it was confirmed: hence the second reason for which everybody is. `RequestsExist` is inductive by itself.

`ChangesTold` speaks of a transaction whose calls are over; the induction has to say what holds while any number of calls is under way within each
other (`TxInv`). Which calls may be there together is `CallInv`: a write that is left to the log of another is within that other, which is of the
same records (`GuardInv`); a record is written only after the call that creates it has done so, and created and deleted once (`LifeInv`). What
is told by then is `ToldInv`. In a full log, a record is told up to the value it had when the outermost write of it began, and
up to its value if none is under way (`FullInv`): each end of a call moves this point to the value of now, because the row is flushed before
it is read (`TellsNext`), and an end within a write of the same record cannot, since that has no log of its own. The row differs from the value only while such a
write is under way, which is why a creation, which flushes nothing, may read it. In a fast log, a value is told or is the one that a
call under way was given (`FastInv`). A deletion is told before it is done (`GoneInv`). There is one lemma for each kind of step on the calls (`Push...`, `Passed...`, `Pop...`,
`Same...`) and each of the two parts. The proof corrected the model: `IsRewrite` had let an override write a record for the second time in the context of an outer write as long
as the call that creates it was under way; with three calls within each other TLC shows that such a write is not told, for the reason given in section 4.

### JobDependencies

`JobDependenciesProofs` proves, for any graphs of any jobs and any users:

| Theorem | Establishes |
|---|---|
| `Invariance` | `IInv`, the inductive invariant |
| `ParentsFirst` | `RunsAfterParents` |
| `CancelledHoldsBack` | `NothingRunsUnderCancelled` |
| `ReleasedInTime` | `ReleasedWhenDone` |
| `WorkersStrandNone` | `NoneStrandedByWorkers` |

The argument is about snapshots. `SnapshotInv`: a snapshot differs from the table only in rows that were written since, all of which are in `missed`.
`HistoryInv`: what a snapshot shows as done was done at some time, and that lasts until the job is opened again: a job that was done is done or deleted unless a user asked for
it again, or a runner that had not read that it is done enqueued it (`DoneLasts`). So a job that left the wait has had all its dependencies done (`StartedInv`), although the transaction that released it
may have read rows that are different by now; and so has a job that the runner takes for pending, whatever its row says by now (`PastWait`). `ActorInv` says which transactions are open. `ReleasedInTime` is an action property: the commit of a
release that has seen all parents done sets the child pending, or fails because it missed a write.

`WorkersStrandNone` is about the last of several parents. While nobody but workers and the runner acts (`QuietInv`), what the runner takes for pending is, and a waiting job whose dependencies are all done has a
carrier among them (`CarrierInv`): one whose worker has committed it and not begun the release, or whose open release has it among the jobs its snapshot lets go. When a
dependency gets done it becomes the carrier. When it begins the release its snapshot is the table, so it remains one. When the release commits, the job does not wait any
more. When it fails it has missed the write of a dependent by somebody else, which is not this job, since this one still waits, and which has another
dependency (`OnlyChildInv`: one with a single dependency is released by the worker of that one only): so the job overlaps.

### Channels

`ChannelsProofs` proves, for any tree of channels with any capacities, throttles and etas:

| Theorem | Establishes |
|---|---|
| `Invariance` | `IInv`, the inductive invariant |
| `CapacityHolds` | `CapacityHeld` |
| `FlowIsConserved` | `FlowConserved` |
| `SequentialChannels` | `SequentialInOrder` |
| `NoLostWakeup` | `SleepsOnlyWhenIdle` |

`FlowConserved` compares the channels with the rows whose notifications were read; what is inductive speaks of all jobs. `FlowInv` says that a job
is in the queue or among the running of a channel exactly when it is running in the one below, wherever it has come to on its path, and that a job
that is enqueued has passed the root. `KnownInv` adds that a job without unread notifications is where its row says, `RoomInv` that capacities are kept.
The methods of a channel move one job (`NotifyIs`, `SetRunningIs`, `RemoveIs`); a sweep moves many at once, and `AfterFlows`
follows one of them from its channel to the root: what a channel takes is in the full queue of its parent (`FullIs`), which takes it or keeps it.

`SequentialChannels` needs only that a sweep compares the first by eta with the first without. That it says what it says is a result of the
attempt to prove more: see section 4. `NoLostWakeup` relates the two walks of the tree. `QuietInv`: after a sweep, a channel
with capacity, not throttled, has nothing in its queue that is due, but behind an earlier eta if it is sequential. `AlarmInv`: the alarm is
the first of the times that `get_wakeup_time` collects. If a later sweep would hand out a job, some time has passed that a channel on its way waits for;
`GoesOnInTime` shows that all channels between it and the root have capacity and are not throttled, so that this time is among
those collected: the alarm is set and is not later.

### EndpointRegistry

`EndpointProofs` proves, for any records, routes, processes and threads:

| Theorem | Hypothesis | Establishes |
|---|---|---|
| `Invariance` | | `LineInv`, the first inductive invariant |
| `InLine` | | `SyncedInLine` |
| `RoutesAreFresh` | `OneThreadEach` | `NoStaleRoutes` |

`LineInv` follows a sync: a record that it is alone with is in no other sync (`AloneInv`); what it has read and what it
is about to write is what the record asks for as long as its flag is set (`ReadInv`, `WrittenInv`). `SyncedInLine` is part of the
induction. `NoStaleRoutes` needs that a process serves one request at a time, as it does when Odoo runs with workers; with threads it is false.
`MapInv` is the second invariant: a process that was not told of a change has the map of the table, or a commit
is not signalled yet or never will be (`CacheInv`); a request under way knows the same routes (`RequestInv`); who writes the
table has no map (`ClearedInv`), and alone in its process nobody gives it one before the commit.

### CommissionSettlement

`CommissionSettlementProofs` proves, for any lines and dates, settlements and bills:

| Theorem | Hypothesis | Establishes |
|---|---|---|
| `LinesOfThePeriod` | | `EachInItsPeriod` |
| `Invariance` | `Careless = {}` | `IInv`, the inductive invariant |
| `CancelledEarnsNothing` | `Careless = {}` | `NoneForCancelled` |
| `EachPaidOnce` | `Careless = {}` | `PaidOnce` |

`EachInItsPeriod` holds whatever users do. `Settle` is a loop; its invariant (`GoodAcc`) is that each settlement has lines of its own, of its period,
that are not skipped, and it is shown for each number of turns. The other two properties are false if users do one of the four things
of section 4, which the code does not prevent. Without them, the lines of a settlement that is not cancelled are its own and know it (`LinesInv`), their
invoices are not cancelled but for those that were while the line was settled (`InvoiceInv`), and a bill that is not cancelled pays for its settlements as they are, which no other has (`BillInv`).
None of the three is inductive without the others: a line is free to be settled again only if no bill pays for it.

### SaleWorkflow

`SaleWorkflowProofs` proves, for any orders and numbers of invoices:

| Theorem | Establishes |
|---|---|
| `Invariance` | `IInv`, the inductive invariant |
| `EachStepOnce` | `StepsDoneOnce` |

The same two facts (`Right`: an order has one live invoice, and each payment of an invoice settles a part of it) hold of the table and of the snapshot of the cron. What
has to be shown is that they hold of the table again after the commit, which merges the two. `SnapshotInv`: they differ in rows that one of
the two sides wrote, and in none that both wrote. The live invoices of an order are several rows, so two sides could each
write another of them; but who gives an order an invoice also writes the row of the order
(`ByHandWritesOrder`, `ActionWritesOrder`), and there they conflict. `TodoInv` says that the records found by the
search of a step are still such that the step may be done.

### Receipts

`InvoicingProofs` proves, for any transfers, returns, scraps and added moves, with any quantities:

| Theorem | Establishes |
|---|---|
| `ReceiptsStructure` | `Struct`: types, and what documents, order and scheduled action have to do with each other |
| `DatesFollowed` | `MovesFollowDates` |
| `NothingOverbilled` | `NeverOverbilled` |
| `NothingUnbilled` | `AllBilled` |

The sums of the model take the elements in the order that `CHOOSE` gives; the first part of the module shows that it does not matter (`TotalAny`) and what follows: `TotalUnion`,
`TotalSame`, `TotalUpdate`. What is due, received less invoiced, is inductive only with bounds (`SumsInv`): it is no more than what the
transfers that are still to be billed received and users cancelled of bills, and no less than minus what those returned and users cancelled of credit notes; with no transfer left that is `AllBilled`. Users who bill
take what is due nearer to 0, those who cancel move it as far as they move the bound on that side (`BillsDue`). The scheduled action works on a snapshot while
goods arrive and users bill, so that the bounds are shown of the table and of what the table will be after its commit (`DueThen`), and what it will leave has
the sign of what it sees (`DueSeen`), but for moves that were done since. Why it can not commit if a user has billed in between is `CronInv`: the line of the
order was written. `DatesFollowed` follows each move by itself: when it gets a date, either no bill of the line is posted and it gets the value too, or it is among `kept`.

### Billing

`InvoicingProofs` proves, for any invoices, credit notes, amounts, dates, tax differences and billings:

| Theorem | Hypothesis | Establishes |
|---|---|---|
| `BilledOnceAndAdjusted` | `Careless = {}` | `BilledAndAdjusted` |
| `BilledTotalStays` | `Careless = {}` | `TotalIsFrozen` |
| `DraftCarriesWhatIsOwed` | `Careless = {}`, no tax difference below 0 | `CarriesWhatIsOwed` |

Section 4 shows what happens without the hypotheses. Every action is shown to be one thing (`Writes`): the record of one billing is written, if any, and
the amounts of those it touches are computed anew, as are those of all that follow one of them. `RecomputeKeeps` says once what that leaves of any table: nothing but the amounts
changes, and a total that is computed is that of its lines and of what is carried over. `BillInv` is what buttons keep: an invoice
is in one open billing, although the constraint looks only at the billing that is written (`BillableIs`), the invoices of an open one are posted, only a billed one has an adjustment, and it has manual
amounts. `TotalIsFrozen` follows although totals of billed ones are computed again and again.

`CarryInv` says that the total of a draft is up to date as long as its chain is that of all billed ones before it. The reason is that a billing is touched only if its
previous one is, but what is written of a billing earlier in the chain touches the one after it, which is in the chain or the draft itself (`ChainNext`):
so either the draft is computed again or nothing that it depends on has changed (`WritesCarry`). That dates increase along the chain
makes it finite.

### Endpoints

`EndpointProofs` proves, for any texts that the fields of an endpoint may be set to:

| Theorem | Hypothesis | Establishes |
|---|---|---|
| `SavedAnswer` | | `SavedEndpointsAnswer` |
| `AnswersShowWhatIsAsked` | `Archived = {}` | `RowsAreAsAsked` |

A constraint is checked only when a field it names is written. `Answerable` is what all constraints together and the form ask for; it
holds when an endpoint is created, since all are checked, and `EditAnswers` shows that it stays, field by field: either a constraint was checked, or
no field it reads was written. It is this step that fails when a constraint does not name a field it reads. `AnswerableAnswers` follows
the branches of a request that is `Callable`; nothing in `Answerable` says what requests bring. `Answer` and `Extracted` are chains of IF, as the code is: the order of the branches matters.

`RowsAreAsAsked` follows one row through what the code does to it: read are the fields asked for and those behind dotted names
(`ReadIs`), so that what a dotted name shows can be looked up; what remains is what is shown (`RowBefore`); and labels tell it apart (`LabelsDiffer`), so
that renaming loses nothing. The last is `RecordsAssumption`: with a label used twice the code keeps one of the values. Records are selected by places
(`SelectAt`), whose few properties need an induction, since there is none about `SelectSeq`. The hypothesis is the restriction of section 4.

### LineTracking

`RecordProofs` proves, for any finite set of lines, any owners, quantities and fields:

| Theorem | Establishes |
|---|---|
| `HooksTellOwners` | `OwnersAreTold` |

`LineInv` says what is collected at any time, in terms of the history: the values kept for a line are those it had at first (when the hooks ran
last, or when it was created), restricted to what is tracked; a line without any has not changed; the notes are those of lines created and
deleted, each once. `Finalized` goes through the lines in an order that is not known, by a fold, so what it makes is a
list of `BornAndDied` and of the updates in some order without repetition (`FinalizedLists`, by induction on subsets of the lines): that is `Due`
(`DueIs`). What is tracked is what the cache was filled with, or would be, and does not change within a transaction (`TrackedIs`). What is undone with a savepoint leaves nothing collected, which is right only because the hooks ran when it began (`UndoneInv`).

### ImportMatch

`RecordProofs` proves, for any columns, tables, rules and files:

| Theorem | Establishes |
|---|---|
| `ImportedOnce` | `ImportsAreIdempotent` |

`LoadedRows` replaces the recursion over rows by a sequence of tables, each made of the one before by one row, so that facts about the import are shown
row by row. By fields that users choose, each row has one record (or the import is refused): these fields are not written, so the second import finds the same
records, and the last row that writes a record decides both times (`ChosenIsIdempotent`). By a rule, a row may create a record; `RowsIn` is the invariant: the
records there were keep their key, those created have the key of a row that matched none, the key tells all apart, and each row so far is in the
table. At the end each row has exactly one record with its key, which already has its values (`RuleIsIdempotent`).

### What only TLC checks

- Liveness, which is out of the prover's reach: `EveryJobSettles`, `EveryJobGetsItsTurn`, `EveryOrderCompletes`.

## 7. Plan

All modules of section 2 and the proofs of section 6 are done. What could be added: a model of `split` and of the hook that is called when a job fails.

## 8. Not modelled

In `queue_job`: several databases, signals and graceful stop; the election of one runner; changes of
the channel or priority of a job that is known to the runner; the hook called on failure; two sessions that look for the same identity key at
once; `split` and auto-delay; the syntax of the channel
configuration and of patterns; related actions; results, messages and serialisation of arguments. Sequence numbers and dates are
reduced to the order of jobs (`Rank`).

`endpoint_route_handler`: options of a rule that are not part of its hash (`route_type`, `csrf`,
`readonly`, whose change does not mark a record as out of sync); the tool that registers a route
without a record; `wipe_registry_for`; the lookup of the handler of a rule. `endpoint`, `endpoint_json2`: the context in which code is evaluated;
bodies that are no JSON object; copies, grouping of the documentation; labels that are used twice.

`account_commission_oca`, `commission_oca`: amounts, hence refunds, which are lines like any other;
several agents, companies and currencies, each of which has settlements of its own; agents edited by hand;
an agent whose period is changed; invoices that are reset, given another date or deleted after they were settled; settlements made by hand.

`account_billing` and the summary invoice: vendor bills, the base module without the summary invoice, the threshold date as distinct from that of the billing,
amounts and previous billings entered by hand, invoices that are reset when partly paid, computation of taxes.

`purchase_auto_bill_on_receipt`, `stock_no_negative`: quantities of drafts that users edit, bills for more than is due, cancelled bills that are set to draft again. Odoo's own posting and resetting of a bill is taken
to leave dates and values alone.

`sale_automatic_workflow`: dates of orders and invoices, the choice of a workflow, invoices that are reset once something is paid of them. `stock_date_done`: the migration hook, who may edit; currencies and amounts of
valuations; sections and numbers of bills. `auditlog`: sessions, the autovacuum, the cache of fields; a process that dies between its commit and the
signal. `tracking_manager`: owners deleted in the same transaction, deleted records that a field refers to, fields hidden from users, owners without chatter.
`base_import_match`: conversion of values, the cache of rules.

Left out altogether: `stock_move_location`, whose wizard fills in one transfer and leaves the rest to the stock module, which is not here;
`sale_commission_oca`, which copies agents inside one handler; `template_content_swapper`, `base_view_inheritance_extension`, `web_form_banner` and the addons
for text and layout, which are stateless transformations of text or views.
