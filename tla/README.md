# Verification of vanguarstew

TLA+ models of the parts of this repository that keep state, the TLC runs that
check them on small instances, and the theorems about them that TLAPS proves for
every value of their constants. Definitions follow the Python source line by line
where they model control, and abstract data to what the properties can tell apart.
`PROJECT.json` maps every definition to the lines that it models.

## 1. Inventory

| Component | State | Operations | What is hard, and what makes it correct |
| --- | --- | --- | --- |
| Review queue (`vanguarstew_runtime/state.py`) | SQLite table of jobs, heartbeat row, directory of results | enqueue, claim, complete / defer / fail, requeue deferred, recover expired claims, write a result | several processes on one file, crashes between two statements, redelivered webhooks; nothing settled twice, no success without a result, no claim handed out twice |
| Review service (`service.py`) | the loop of each process, the HTTP thread | receive a webhook, poll, process a job, run a cycle, serve | exceptions of one step handled as those of another, heads that move between reads, configurations that change with a restart; every job is settled in the end |
| GitHub reader (`github.py`) | none | list open pull requests, fetch one | three separate reads make one review; failures at each |
| Configuration and CLI (`config.py`, `cli.py`) | the environment | load, doctor, run-once, serve | which of dry run, no inference and live a process is |
| Factory policy (`openvang/factory.py`) | fixed role contracts | allow an action, read / write a memory scope, transfer, publish | no role may gain an owner's effect |
| Factory scheduler (`openvang/scheduler.py`) | SQLite table of tasks | enqueue within a budget, claim by role, require a live lease, complete / defer / fail, recover | workers that outlive their lease, a budget shared by all, one receipt per task |
| Factory adapters (`openvang/isolated.py`, `subnet.py`) | the claimed task in hand | execute an approved plan, record its digest | the check and the record are far apart in time |
| Memory vault (`openvang/memory.py`) | append-only records and shared commitments | append, read, share | roles never see each other's records |
| Benchmark memory (`benchmark/memory.py`, `source_memory.py`) | hash-chained event log | observe, validate, promote, tombstone, supersede, snapshot, build a view | appends by several connections read the last hash before they write; supersession is two commits; views must not see the future |
| Replay (`runner.py`, `taskgen.py`, `freeze.py`, `leakage*.py`) | a repository frozen at a commit, rows of results | generate tasks, freeze, solve, reveal, judge, aggregate | the agent must see only what was knowable; skipped tasks must be counted |
| Judge (`judge.py` and its gates) | none | judge two orders, summarise | order bias and ties |
| Scoring (`score.py`) | none | objective anchors, blends | arithmetic on rates |
| Sealed execution (`sealed_*.py`, `unix_model_broker.py`) | restricted files, a remote host | upload, run, fetch, clean up | every step may fail and must leave nothing behind |
| Polaris / TEE (`polaris*.py`, `intel_dcap.py`, `tee_*.py`) | receipts | request, verify, archive | cryptographic checks |
| Reports and gates (`report.py`, `*_integrity.py`, `*_share.py`, `promotion.py`, ...) | one report file | compute a verdict | pure functions |
| Agent (`agent.py`, `agent/`, `scripts/review_pr.py`) | the context of one call, the plan as it is rewritten | load, infer, ask, normalise, calibrate, backfill, reconcile, decide, review | replies of any shape; several loops rewrite one plan and two modules judge the same release history, and they must agree |
| Policy scripts (`scripts/*_policy.py`, three workflows) | comments and states of pull requests on GitHub | evaluate, enforce | runs that race each other, the author and the maintainers, and calls that fail between two effects; nothing that breaks a policy stays open, a maintainer's decision stands |
| Scoring of a pull request and the feed (`compare_eval.py`, `score_pr_delta.py`, `leaderboard_feed.py`) | one feed file | diff two artifacts, band, combine two targets, append an entry | unmeasured, corrupt and mixed-shape artifacts; a label is earned, and the feed says what the verdict said |

The runtime, the factory and the benchmark share no state. Inside the runtime, the
processes interact only through the queue (SQLite transactions and one atomic file
replacement); inside the factory, dispatchers and workers interact only through the
scheduler's table.

## 2. The review queue

### Modules

| Module | Models |
| --- | --- |
| `RuntimeState` | `state.py`. Every SQL statement or transaction is one operator, as is the whole of `write_private_result`, whose only visible step is `os.replace`. |
| `RuntimeService` | `service.py`: processes (`Workers`), each at a step `pc[w]` of `run_once`, with the locals of `process_one` in `work[w]`; the HTTP thread; GitHub; crashes and restarts. Extends `RuntimeState`. |
| `ReviewLedger` | What the queue promises, without processes, claims or leases: a delivery is accepted once, settled once, and succeeded only with a review filed. |
| `MCRuntimeService` | Constants and symmetry for TLC. |
| `RuntimeServiceProofs` | Proofs of the inductive invariant and of the safety properties for any number of processes, of what holds with one process per database, of when a claim is taken over, and that the queue implements the ledger. |

A job is named by its delivery: a record of the way it came (webhook or poll), the
pull request and the head. Heads are numbers, in the order of the pushes; a branch
that is pushed back to an old commit would be a new number. `order` holds the rows as
`ORDER BY created_at, id` lists them. Every operation reads the clock before it waits for
the database, at most `LockWait` ticks in the model (30 seconds in SQLite's time-out). So a row may be
inserted before one that was there (`Overtaken`, at most one), the claim of a row starts
with the age that the wait gave it, and the cutoff of a recovery is as late
as its wait. `claimed_at` is modelled by the age of the claim in ticks, saturated where
every recovery finds it (`OldAge`). A result file is abstracted to the head in
`reviewed_head_sha` (`label`) and the head whose diff was reviewed (`diff`).

Actions and code: `ReceiveWebhook` is `receive_webhook`; `Recover`, `Requeue`,
`Beat`, `Poll` / `PollFails` / `EnqueuePolled` / `EndPoll`, `Claim`, `EndCycle` are
the statements of `run_once` and `poll_once` in order; `DeferClaim`, `FetchHead`,
`FetchDiff`, `Review`, `WriteResult`, `CompleteClaim`, `FailClaim` are those of
`process_one` and `_review`; `FetchFails` and `ReviewFails` its exceptions. A
transition that finds the row no longer running raises `ValueError`: in
`CompleteClaim` this is caught by the handler of the review, which goes on to fail
the job; in `DeferClaim` and `FailClaim` nothing catches it and the process ends.
`Poll` takes the pull requests of one repository at a time, in any grouping.

### Runs and what they show

| Run | Instance | Shows |
| --- | --- | --- |
| `RuntimePair` | two live processes, one pull request, both ways of delivery, lease of two ticks, waits of up to a tick for the database, one crash, one lease that runs out under a live process | `CurrentUnlessOverrun`, `SucceededHasResult`, `AttemptIdentifiesClaim`, `NoClaimWithinLease`, `SettledForever`, that the queue implements `ReviewLedger`, and `IInv`, the inductive invariant of the proofs, with `TypeOK` |
| `RuntimeSingle` | one process in every configuration, a head that moves, two jobs per cycle, a crash, an overrun | `ResultCoversDelivery`, `LabelNotAheadOfDiff`, `DeferredIsRequeueable`, `SettledResultKept` |
| `RuntimeSingleLive` | one process without webhooks, dry or live, two crashes, a pull request whose head moves, failing reads of GitHub | `JobsSettle`, `PolledHeadsQueued` |
| `RuntimePairLive` | two live processes, one crash, one overrun | `JobsSettle` |
| `FailsOnlyFailedReviews` | two live processes | violated: recovery takes the claim of a process that is still working, and its written review is recorded as failed |

Bounds. One move of the head (`MaxHead`) is enough for a head to be older, equal or newer than a
label, and for a poll to find a new head of a pull request that it knows (in `RuntimeSingle` and
`RuntimeSingleLive`; in the runs with two processes the head stands still); a wait of one tick, half
of the lease, is enough for a claim to be recovered early; two deliveries of a pull request are two
jobs, which is what the order of claims and the limit of a cycle need; two processes are what a lost
claim needs; one overrun lets a process lose its claim, keep running and meet the next owner at
every later step. `MaxAttempts` is out of reach in these runs (each attempt beyond the first costs a
crash, an overrun or a deferral by a process that was started dry), so it cuts off no behaviour; it
exists for the endless exchange between a dry and a live process on one database, which the proofs
cover and the runs do not. No run of this part disables the deadlock check.

### Fairness

`FairSpec` assumes: each step of a running process is taken in the end (HTTP and
inference calls have time-outs of 30 and 23 seconds or more, and SQLite waits at most
30 seconds for a lock); a process that is down is started again (`restart:
unless-stopped` in `docker-compose.yml`, `Restart=` in the systemd unit); time passes;
and a pull request that is polled again and again is listed at least once (strong
fairness of `Poll`, for one process that asks in every cycle). Nothing is assumed
of pushes, webhooks, crashes or reviews. `JobsSettle` and `PolledHeadsQueued` also
assume that the operator has the processes live for good (`LiveForGood`): in dry run
the code defers every job on purpose.

### What is proved

Unless one says otherwise, the theorems hold for any sets of processes and pull requests, any lease, number of
heads, jobs per cycle, crashes and overruns, and any mix of configurations, under
the assumptions `StateAssumption`, `ServiceAssumption` and `NoWorkAssumption`, which
give the constants their types.

`Invariant` proves `IInv`. The safety properties are not inductive by themselves:
that a success has a result needs that a process at `complete` has written its file
even though the row may by then be another process's claim, so `IInv` adds what each
process has claimed, read and written so far (`WorkConsistent`), that a process has
locals exactly while it is inside `process_one` (`BusyIffWorking`), and that polls
list real heads (`ListedAreGenuine`). The proof shows for each statement how rows
may change (`JobsMonotone`: attempts never decrease, a settled row is frozen), then
for each action that the process that moves keeps its own part (`OneMoves`) and that
the parts of the others survive (`KeptWork`). `TypeCorrectness`, `SuccessIsBacked`,
`ReviewsAreOfDeliveredHeads`, `LabelsNeverRunAhead`, `ClaimsAreDistinct`,
`DeferredJobsReturn` and `SettledRowsAreFrozen` follow. `QueueImplementsLedger` maps each step to `Accept`,
`File`, `Settle` or a stutter. `OneProcessKeepsItsClaim` and `OneProcessKeepsResults`
assume a single process, as in the repository's deployment files: the only process that
could recover its claim is busy with it.

`ClaimIsCurrent`, which `SettledResultKept` rests on, is proved and is not a
property of a run. `CurrentUntilOverrun` proves it for any number of processes in any modes
until the first lease runs out under a live one, where a lease is longer than a wait for the
database (`LockWait < Lease`; 900 against 30 seconds). Its invariant says that until
then every claim that a process has in hand is younger than the lease.

`ClaimsWaitForTheLease` proves `NoClaimWithinLease` for processes that are all live (`AllLive`) or
of which none is (`NoneLive`). Its invariant `TimedInv` relates the clocks: the row's claim is older
than its process's by no more than the wait for the lock, and a claim that the row has left behind,
or whose row is queued again, has run out (`ClaimTimed`). The property grants a process its lease
less the wait before its claim, which is all that the code grants. The proof needs that nothing but a
lapsed lease queues a running row, so that live processes never defer and the others never requeue
(`ModesFollowed`). The hypothesis is not a convenience. When live and dry processes share a
database, the property is false of the code: a dry process that overran its lease defers the claim
of the next owner, and a live process requeues that row at once, while the owner still works on it.
The repository's deployment files start one process per database, and `RuntimePair` starts two live
ones.

Only model-checked: the two liveness properties, which are out of the prover's reach.

### Left out

The rows' timestamps other than the claim's, `result_path` (set exactly on succeeded
rows), file permissions, the unused `heartbeat_at` and counts; polling disabled
(the same as a poll that lists nothing); pull requests that are closed before they
are reviewed (the read still succeeds); the HTTP server's parsing. The receiver is
up whenever some process is.

## 3. The factory scheduler

### Modules

| Module | Models |
| --- | --- |
| `FactoryPolicy` | The contracts of `factory.py` as far as `enqueue` and the adapters consult them: the actions of a role, the scopes that it may write, `_output_allowed`. |
| `FactoryScheduler` | `scheduler.py`: one operator for each statement or `BEGIN IMMEDIATE` transaction on `factory_tasks`. Extends `FactoryPolicy`. |
| `FactoryWorkers` | Dispatchers and workers on one table, the two adapters of `isolated.py` and `subnet.py`, deaths and time. Extends `FactoryScheduler`. |
| `TaskBoard` | What the factory promises, with no roles, workers, claims or leases: a task is admitted once and within the shared budget, settled once, and acknowledged only with the output on record. |
| `MCFactoryWorkers` | Constants and symmetry for TLC. |
| `FactoryProofs` | Proofs of the inductive invariant and of the safety properties, and of what holds when every lease covers its work. |
| `Sums` | Inductions over numbers and finite sets, sums over finite sets, and folds over sequences: what the proofs about budgets, plans and queues cite. |
| `FactoryBoardProofs` | Proofs that open tasks stay within the budget and that the factory implements `TaskBoard`. |

A row is named by its input commitment, which is unique for ever. `lease` is the time
left until `lease_until`; a claim may be written with a lease that is already over,
because `claim_next` reads the clock before it waits for the lock. `place` is the
row's place in `ORDER BY created_at, id`: for the same reason a new row may go before
those that are there. The clock of `recover_expired_leases` and of `require_running`
is read together with their statement.

Actions and code: `Dispatch` is `enqueue`; `Recover` and `Claim` / `FindNothing` are the two
transactions of `claim_next`; `Authorize` and `Refuse` are `require_running`; `Bind` is
`_validate_binding` and leads to the executor, the source or a failure; `Execute` and `ExecuteFails`
are its answers; `Complete`, `Fail` and `ReturnReceipt` what the adapter does with them. A
`SchedulerError` is passed on by `complete` and swallowed by `_fail`. `Report` is work that has no
adapter (a review, a plan), whose caller settles the task by itself. `Crash` is the death of a
worker with a task, and `Tick` lets time pass.

Three things that the code does and a reader may not expect are in the model as they are.
`require_running` looks at the lease once. It may run out, and the task be claimed by another
worker, before `_validate_binding` is done and the executor has started, so nothing is claimed of
who starts it; what is claimed is that a receipt is for what is on record (`ReceiptsMatch`) and that
two workers have a task only after a lease (`NoDuplicateWithinLease`). `_transition` asks only for a
running row of the role, so a worker that has overrun its lease can settle the claim of the next
worker of its role (whose own report is then refused); hence `ClaimIsOwn` is stated for leases that
cover their work, which `docs/openvang-agent-factory.md` asks of those who deploy adapters. And an
input that failed, even for a wrong approval, can never be queued again.

### Runs and what they show

| Run | Instance | Shows |
| --- | --- | --- |
| `FactoryShared` | two workers of one role, two inputs, two sizes of task and one forbidden action, a budget of three, leases of up to two ticks, one crash, two overruns | `BudgetRespected`, `ReceiptsMatch`, `NoDuplicateWithinLease`, `ClaimIsOwn` until the first overrun, `IInv` (with `TypeOK`), `SettledForever`, and that the factory implements `TaskBoard` |
| `FactoryLive` | two workers, one crash, one overrun, leases of up to one tick | `TasksSettle` |

Bounds. Two tasks of one and of two units fill the budget exactly, and two of two units exceed it; two
workers of one role are what a lost claim needs, and with two overruns both can lose
theirs. `attempts` needs no bound: each attempt beyond the first costs a crash
(`MaxCrashes`) or an overrun (`MaxOverruns`). No run of this part disables the deadlock
check. TLC evaluates `ContractsAssumption`, what `RoleContract` demands of every
contract, before each of them.

Fairness. `FairSpec` assumes that each worker takes its next step (executors and
sources have time-outs, SQLite waits at most 30 seconds, and whoever runs a worker
keeps it polling) and that time passes. A tick that would end more leases under live
workers than `MaxOverruns` allows waits for them, so after the last overrun leases
cover their work. Nothing is assumed of dispatchers, crashes or answers. A task
whose role nobody declares is not covered by `TasksSettle`: it waits for ever and keeps
its share of the budget.

### What is proved

For any sets of outputs, requests and roles of workers, any finite sets of inputs and workers (an
input is named by a digest of fixed length), any budget and lease, and any number of crashes and
overruns, under `SchedulerAssumption`, `WorkersAssumption` and `NoWorkAssumption`.

`Invariant` proves `IInv`. That a receipt matches the record is not inductive: a
worker reaches its receipt two steps after the row was written, so
`WorkConsistent` says what each worker knows of its claim against the row. A
claim that is no longer the row's has run out; one that is has the row's lease;
a worker at its receipt sees its own output on record. `ClaimsDistinct` says that no two
workers hold the same attempt. The proof first shows what each statement does to the
rows (`EnqueueRows` ... `TickRows`), then that any step moves a row only in certain
ways (`Moved`) under which the claims of those who stand still survive (`KeptWork`),
then treats each action once. `TypeCorrectness`, `ReceiptsAreOnRecord`,
`LeasesExclude` and `SettledTasksAreFrozen` follow.

`FactoryImplementsBoard` maps each step to `Admit`, `Succeed`, `GiveUp`,
`Acknowledge` or a stutter. The budget on both sides is the sum of the same function,
so the proof needs no fact about sums.

`BudgetBounds` does. Its invariant says that an open row carries an admitted request and that the sum stays
within the budget. `Enqueue` changes one term of the sum by
what it has just compared with the rest (`SumOfChange`); every other statement of the
scheduler, also a recovery that returns several tasks to the queue, opens no row and so
makes no term larger (`BudgetShrinks`).

`TasksStayOwned` strengthens `ClaimIsOwn` with the lease: without overruns every
worker's lease is positive, so that recovery takes only the tasks of the dead.

Only model-checked: `TasksSettle` (liveness).

### Left out

Failure codes, timestamps other than the lease, `status_counts`; hand-built task projections other
than stale ones; the commitments of a plan and its approval beyond whether they match; that an
endless stream of inputs dated early could starve a task (the inputs of a run are finite, so
`TasksSettle` does not show that it cannot); transfers of memory and owner-action intents of the
policy.

## 4. The maintainer agent

### Modules

| Module | Models |
| --- | --- |
| `AgentContext` | `agent/context.py`: loading the frozen context or deriving one from git, the view of it that prompts are made from, and the budget of a prompt between the repository state and the evidence from memory. |
| `AgentPlan` | `agent/planner.py`: what a subject, a title and an item are, when a release is due, which pull request an item is about, and what each step of the planner makes of one item. Extends `AgentContext`. |
| `AgentReview` | `agent/review.py` and the fetch of `scripts/review_pr.py`: what a review is made of, from the two answers of `gh` and the reply of the model. |
| `AgentSolve` | `agent.py`, `agent/llm.py`, `agent/philosophy.py`, `agent/decider.py` and the loops of the planner: one call of `solve`, or one review, from the checkout to the answer. Extends `AgentPlan` and `AgentReview`. |
| `MCAgentSolve` | The checkouts, queues, plans and replies of the runs. |
| `AgentProofs` | Proofs, for any checkouts and replies. |

A call keeps its progress in `pc`, the context that it loaded in `ctx`, and the plan that
the planner's loops rewrite in `todo` (items still to be handled by the loop) and
`plan` (items that it has kept). `Load` is `load_context`, `InferPhilosophy` is
`infer_philosophy`, `AskPlan` / `PlanWithoutContext` start `plan_next_actions`,
`FilterItem` is `_normalize_plan` and `_calibrate_release_prediction` of one item,
`BackfillItem` one round of `_backfill_files_from_layout`, `ReconcileItem` and
`FinishPlan` are `reconcile_plan_with_queue`, `RunLens` is `_run_lens`, `Decide` is
`decide`, and `Review` is `review_pr` between its fetch and its answer. `LoadRaises`,
`CallRaises` and `ReviewRaises` are the exceptions that leave the call.

A text is what the planner's regular expressions tell apart in it: references to pull
requests in their order, the number that a review verb governs, its significant
tokens, the titles that it quotes, the type and the wording of its subject. A reply of
the model is either no chat completion, or the values that `extract_json` can find in
it: a whole value, fenced blocks, top-level spans.

### Runs

| Run | Instance | Shows |
| --- | --- | --- |
| `AgentSolve` | frozen contexts with six release histories, three queues (nested titles, a release among the pull requests, one without a number), three lists of releases, complete and truncated; checkouts with a missing, unreadable or malformed file, or no commit; 68 replies for the plan, of up to three items where `N = 2`; replies that are no JSON, of the wrong shape, fenced or mixed | `TypeOK`, `ForecastsAgree`, `BumpFromWholeHistory`, `OneItemPerPullRequest`, `QueueAnswered`, `PromptKeepsEvidence`, `BackfillWithinBudget` |
| `AgentLongPlan` | the same | violated: `QueueNeverIgnored`, which `specs/007-agent-planner/plan.md` states without the condition that the model keeps to `N` items |

Bounds. Two items are the least for which one item can restate another, and the
third item of a long plan is the one that is cut. The sizes of the budgets are chosen so that two
backfilled items do not both fit, and the repository state and the evidence do not
both fit into a prompt. Both runs set `CHECK_DEADLOCK FALSE`: a call ends.

The properties relate what different parts of the code make of the same facts. The
calibration in the planner and the version bump in the decider read the same history by
different code, and the plan passes two more loops after its calibration
(`ForecastsAgree`). The identity of a pull request is a heuristic, applied item by item
while earlier items are rewritten (`OneItemPerPullRequest`, which reads the final
plan again). What is only a part of a list has to vanish from the prompts, the
queue and the bump alike (`QueueAnswered`, `BumpFromWholeHistory`).

Two limits of these statements. `ForecastsAgree` says that, just after a cut, the notes on the
cadence and on the bump are silent and the answer forecasts no release. It does not say that no
prompt names one: `_recent_kinds_note` counts releases among the recent kinds and asks the plan to
"cover the recurring kinds above" (planner.py:310-315), which the model keeps as the kinds of that
note (`Note`), and `OBJECTIVE_ANCHOR_GUIDANCE` does not depend on the timing either. The docstring
of `_release_cadence_note` says that a release just cut must not re-trigger one; what sees to it is
the calibration. And `BackfillWithinBudget` speaks of the loop that names files: when a file is
named, the plan is within what the judge is shown. What `reconcile_plan_with_queue` writes into the
items afterwards (planner.py:1073-1094) may make it longer.

### What is proved

For any checkouts, replies, views and values of the constants under `PromptAssumption`,
`PlanAssumption`, `WordsAssumption`, `CheckoutsAssumption` and `PlanRepliesAssumption`. The
invariant `IInv` of `AgentProofs` adds to the properties what the call has loaded (`Loaded`), that
nothing is there before its time (`Fresh`), and that after the calibration no loop brings back a
forecast (`PlanFitsTiming`): `WithFiles` and `Restating` change neither kind nor title in a way that
predicts a release, and the review item that `FinishPlan` puts in front is a triage.
`TypeCorrectness`, `PlannerAndDeciderAgree`, `BumpsAreGrounded` and `EvidenceIsKept` follow.

A second invariant, `Answering`, follows the loops of the planner through `todo` and
`plan`:

- `Reconciled`, for `OncePerPullRequest`: `seen` holds the pull requests that the items kept
  so far are about, each once. It has to survive that an item is rewritten before it
  is kept: what `Restating` writes is matched again by its number, whatever quotes and
  tokens the old title had (`RestatingMatches`), and the item that `FinishPlan` puts in front is
  about the first pull request (`TopReviewMatches`). `MatchedByReference` and
  `FoundByNumber` say when a match is settled by a number, for queues in which every pull
  request has one (`Numbered`).
- `NoLonger` and `SaidByTheModel`, for `QueueIsAnswered`: no loop adds an item, and
  without a queue none changes what an item restates. The theorem assumes `N # 0`: a
  plan of no items answers nothing. That the queue in the prompts is as long as the one
  that reconciles is an induction over both (`QueueOfSameTitles`).
- `BackfillWithinBudget`, for `FilesFitTheBudget`: with one item replaced, the size of a
  plan changes by that item (`SizeOfConcat`, `SizeOfNext`), which is what the code
  compares with the budget before it keeps the names.

`PlanSize` and `Titled` are folds over sequences, which the proofs reach through
`Sums!FoldOfPrefixes`. `PrReference` picks the first qualified reference by its index, and
`Titled` and `UsableEvidence` are folds, because the prover knows nothing of `SelectSeq`, which the
library defines by recursion. An item
of a reply may come with a `restates_pr` of its own, which `_normalize_plan_item` keeps; so
`QueueAnswered` says that a plan without a queue restates what the model said, not that
it restates nothing.

Left out: the wording of the prompts, and all fields of a context that nobody but a prompt
reads. That a bare number that is no reference stays an ordinal is a fact of the regular
expressions, which the model takes as given in `governed`.

## 5. The pull request policies

`PullRequestPolicies` models `benchmark_pr_policy.py`, `pr_gaming_policy.py` and
`pr_reopen_policy.py` on one pull request, each as the sequence of its GitHub calls,
together with the workflows that start them: the events that they listen to, one
concurrency group per policy, one run at a time with the newest event waiting, and
`cancel-in-progress` of the reopen policy. `runs[g].step` is the next call of the run of
group `g`; `Step(g)` makes it and `Fail(g)` is any exception at that point. The author
pushes, edits the body, marks the draft ready and reopens; maintainers label the issue,
reopen and close; CI completes. Which paths are guarded and which commits are forged are
two facts of the pull request that a push may change.

Four variables are only there to state the properties: `endorsed` (the issue was
approved at some moment since the benchmark policy's last event), `unenforced`
(policies whose last run failed before its verdict took effect), `reopenedBy`
and `settled` (a maintainer reopened a compliant pull request while nothing ran).

`PolicyRaces` explores three moves of people and CI, one CI group and a first page of
two comments, which is enough for the page to overflow before a policy looks for its own
comment; a third move is what a race between a push, a close and a reopening takes. It
checks `QuietOpenComplies`, `ReopenNeedsMaintainer`, `ReopenStands` and
`OneReopenComment`. `CHECK_DEADLOCK FALSE`: all runs end, and people need not move again.

A contributor's reopening, a push or an edit while the gaming policy is between its reads
and its close is in the scope of `QuietOpenComplies` alone.

`PolicyProofs` proves all four and the type invariant for any number of CI
groups, moves and any page size, under `PolicyAssumption`. None is inductive: that a quiet open pull
request complies needs, for each policy, that a violation is either still going to be
seen by a run at a step before its verdict or by a waiting event, or has failed
(`GamingInv`, `BenchmarkInv`, `ReopenInv`); that the newest event of the benchmark policy,
waiting or in the hands of a run, carries the body as it is (`BodyInv`); and, for `ReopenStands`, that no
run in progress has read a state from before the reopening (`SettledInv`).

Known limit: `cancel-in-progress` stops a run some time after the newer event. `Cancel`
is therefore free to come at any step or not at all, so that a close may still land after a
maintainer's reopening; `ReopenStands` is for that reason stated of a reopening while
nothing runs, and the workflow has no means against the other case. The other workflows
(`pr-limit`, `pr-source-check`, `pr-target-check`, `pr-integrity`) and closed-issue
automation outside these scripts are not modelled.

## 6. Scoring a pull request and the feed

`PrScore` is `compare_eval.py` and `score_pr_delta.py`: the diff of two artifacts of either shape
(one report, or a tuned and a held-out part), the mask of what was not scored, the Pareto floor, the
band, and the combination of the public and the private target. `LeaderboardFeed` is
`leaderboard_feed.py` and the order in which an operator calls them: `Score` of each target,
`CombineDualTarget`, and `append_entry` as three steps, the read, the truncation by `open(..., "w")`
and the write, with a crash between any two. A score is an integer in thousandths. A field that an
artifact does not have is `None`; one that it reports without a number (JSON null, a string) is
`Null`, and with a number that is not finite (NaN, infinity, an integer no float can hold)
`Corrupt`. The code tells them apart: an absent axis is left out of the Pareto floor, a null one and
a non-finite one block; an absent count of tasks leaves a score standing, a null one makes it a
placeholder; a non-finite `scored_repos` still decides that it is none. `Limit` is where a
difference of two finite numbers becomes infinite.

`ScoreAndPublish` checks some two thousand pairs of public artifacts around the noise floor, the
thresholds and the masks, each with eight pairs of private ones. Among them are null counts, null
axes and a NaN in place of `scored_repos`. `LabelIsEarned` restates from the raw artifacts when a
`perf:` label may be given; `FeedTellsTheVerdict` says that the published delta falls into the
published band and that no placeholder of an unmeasured run is shown as a score.

`LeaderboardProofs` proves both (`LabelsAreEarned`, `FeedMatchesVerdict`) for any artifacts,
thresholds of noise, limit and length of the feed, under `ScoreAssumption` and `FeedAssumption` (an
artifact has one part, or a tuned and a held-out one). `PublishInv` says that a report is that of
its inputs, a band that of both reports, and that what is published is the entry of the verdict at
the end of the feed, after the read, the truncation and the write. The rest is about the functions:
a triplet of the diff is a delta of two measured values or nothing, a report is blocked when some
axis of some part lost more than the floor or is corrupt, and the smaller of two deltas falls into
the lower of the two bands.

The proof found what the instance had not: `_delta` gives no delta where the difference
of two finite numbers is infinite (`compare_eval.py`), so on such an axis a drop blocks nothing, although
the docstring of `score_pr_delta` speaks of any drop. `LabelIsEarned`
excepts changes beyond `Limit`, and the instance has a score of -600, which makes such a drop.

`CHECK_DEADLOCK FALSE`: one verdict is published. There is one publisher, because the bot
that calls `append_entry` is not in the repository; two would overwrite each other's
entries. The evidence bundle, the anchor record and timestamps are left out.

## 7. The benchmark memory

`MemoryStore` is `benchmark/memory.py` with the import of `source_memory.py`: the table
of events of one repository, role and namespace, the controllers with a connection each,
and what the three kinds of view recall. A call (`Observe`, `Validate`, `Promote`,
`Tombstone`, `Supersede`, `ImportSource`) makes its drafts, and `_append` takes each
through the statements that other processes can come between: `ReadClock`,
`ReadPreviousHash`, `Insert` with its commit. `Abandon` ends a call anywhere: the process
dies, the database is locked, or the id is taken. Ids and hashes are digests of all fields
of an event, so the place in the log stands for both. Every view is a function of the log:
`LiveEvents` is the query of `_eligible_events`, `SnapshotSource` and `BenchmarkEvents`
are the query of a snapshot and what `_snapshot_events` leaves of it.

`MemoryShared` has two controllers, logs of up to three events, two seconds, a public fact that
expires and a private one that does not, an import of two commits, and snapshots of at most two and
of at most three events (`max_events` is an argument of `snapshot`): enough for a whole supersession
to be in a snapshot and for one to be cut in half, for an append that is dated in one second and
committed in the next, for an import that races a controller, and for a snapshot that is refused. A
call starts only where the log has room for all its events, so that the bound cuts no call in half.
`CHECK_DEADLOCK FALSE`: nobody has to call the store, and a full log ends the run.

- `SupersededHasSuccessor`: a supersession that fails half-way leaves both events, never
  neither.
- `ViewsAgree`: the two readings of the log, which the code states twice, recall the same
  for a snapshot frozen now. It rests on markers being in every snapshot, also a public
  one, though they are private, and on `observed_at` not lying in the future: the model's
  callers report what they have seen (`ObservedTimes`).
- `FrozenViewsStay`: once a second is over, and no append dated into it is under way
  (`Closed`), no later event changes what a task frozen at it is shown. While one is under way, the
  code does change it: an append is dated before it commits. The property says when that is over. An import dates its
  events back, which is why a store has to be empty for it; a task that runs during the
  import sees a part of it.

`MemoryProofs` proves all three for any number of controllers and any log. The inductive
invariant `IInv` says that no event or draft tells of a time to come (`Past`), that a draft
is dated before it is hashed (`CallConsistent`), and that a marker waits behind its
successor in the call or in the log (`MarkerIsSecond`).

What the model also shows, and no text of the repository speaks of: two controllers can
append two events with the same `previous_event_hash`, which no code follows; and
`supersede` and `promote` look at the status a row was inserted with, which never changes,
so an event that is superseded or tombstoned can be superseded again, and both
successors are recalled.

Left out: the ranking and the cut to `max_items`, the digests and commitments of views, the
re-validation of a snapshot that somebody has changed, other repositories, roles and
namespaces (each filter is an equality), a `created_at` of the caller's (only the import gives one in
this repository, and it gives that of the commit; a caller that dates an event into the past would
change frozen views) and a clock that is set back, authorities other than all trusted ones (both
providers ask for all; with fewer, a snapshot can miss the marker of another authority),
and the query terms of `source_memory.py`.

## 8. Not modelled, and what could come next

In the order of what would add most:

1. Sealed remote execution (`sealed_remote.py` and its scripts): upload, run, fetch and
   clean up over a connection that may fail at each step, with the promise that nothing is
   left on the host.
2. Replay (`runner.py`, `taskgen.py`, `freeze.py`): the order of freeze, reveal and judge
   and the accounting of skipped tasks; `MemoryStore`'s views would be one of its parts.
3. The pairwise judge: its two orders and their summary as operators against a reference.
4. The factory memory vault: append-only records of which the ciphers are external.

Every safety invariant and every action property of the runs is a theorem, and so are both
refinements. Only model-checked are `JobsSettle`, `PolledHeadsQueued` and `TasksSettle`: liveness under
fairness is out of the prover's reach. Recursive definitions are too, so the
facts about data that the proofs use come from inductions over numbers and finite sets,
stated for sets instead of predicates (`Sums`).

Out of reach, or of little use: objective scoring (floating-point rates), Polaris and TEE
evidence (signatures and digests would be assumptions), sealed execution (process isolation
is the operating system's), and the reports and gates, which are pure functions of one
file with a unit test each.
