# EvoCI verification project

EvoCI repairs failing CI jobs with a Supervisor and Workers driven by language
models. A graph of nodes (LangGraph, checkpointed in SQLite) dispatches one task
at a time, applies the edits a Worker staged to the parent workspace, verifies
them in an isolated copy, and rolls back what failed. What a run learned goes to
memory and skill stores; benchmark campaigns commit those stores as a lineage of
immutable generations.

This directory models the parts of EvoCI that change state, in TLA+; TLC checks
them on small instances and TLAPS proves the main safety results for all
instances. Source paths below are relative to `src/evoci/`.

## Inventory

| Component | State | Operations | Interaction | What makes it correct |
|---|---|---|---|---|
| repair graph (`graph/builder.py`) | checkpointed `EvoCIState`, next node | one node per operation, conditional edges | calls agents, patch tools, verification, outcome; driver resumes it | success only for a verified tree; a rejected candidate leaves no trace; it ends |
| patch and snapshots (`tools/patch.py`, `graph/integration.py`, `tools/isolation.py`) | workspace, batch snapshots, apply plans | snapshot, guarded write, undo, restore | called by apply, verify, rollback; shares the workspace with third parties | writes stay in scope; foreign content survives; replay is safe |
| verification (`verification/service.py`) | isolated copy, command results | copy, run commands, evaluate | callbacks to the graph, shared budget | a pass is about the tree that is kept |
| agents and tool loop (`agents/`) | transcript, per-task limits | decide, execute, resume from events | model gateway, tool registry, budget | an invocation is not repeated or over-spent after a resume |
| budget and events (`runtime/`) | counters, append-only events | consume, append, reconstruct | every component | reconstruction counts only calls that were made and misses a bounded number |
| outcome and learning (`graph/outcome.py`, `memory/`, `capability/`) | episodes, memories, skills, ledgers of applied operations | persist, consolidate, mine, install, update | last node of a run; benchmark evaluator | each effect at most once; failures of learning do not change the outcome |
| campaign (`benchmark/campaign.py`) | writer lock, rounds, generations, campaign metadata | lock, prepare, branch, finalize, merge | driven by `evoci benchmark run`, several processes | one writer; a generation is complete or absent; lineage is unbroken; an interrupted round can be resumed |
| benchmark runner and Docker verifier (`benchmark/`) | results file, containers, protected files | run tasks concurrently, append, verify | semaphore, retries on resume | every task has one result; protected files are restored |
| gateway and tools (`model/`, `tools/`) | connections, processes | request with retries, run commands | used by agents and verification | bounded retries; no process outlives its cancellation |

Hard behaviours: a node is replayed from its checkpoint after a crash while its
file writes stay; cancellation handlers undo files but not the checkpoint;
somebody else may edit the workspace at any time; several metadata files are
written one after the other; results computed before an `await` are used after
it. `PROJECT.json` lists each with its line under `hazards`.

## Modules

| Module | What it is |
|---|---|
| `RepairGraph` | the graph, the workspace, snapshots and plans; properties |
| `MCRepairGraph` | its TLC instance: two files, three contents |
| `RepairGraphProofs`, `RepairCleanProofs` | TLAPS proofs about `RepairGraph`; the second about the clean workspace |
| `Lineage` | what a campaign promises about its generations (abstract) |
| `Campaign` | writer lock, rounds, runner and generations, by several processes; properties; it refines `Lineage` |
| `MCCampaign` | its TLC instances: two rounds that share a task |
| `CampaignProofs` | TLAPS proofs about `Campaign`, the refinement included |
| `ToolLoop` | the bounded tool loop of an agent, run and task budgets, the event store they are rebuilt from |
| `SkillRegistry` | one skill: its directories, row, ledger and memory file, under writers, an operator and an agent |
| `Outcome` | what finished runs leave in the stores, store call by store call, with replays |
| `Gateway` | one model call as several provider requests, and the usage records |
| `Verification` | one verification: the commands and their processes, or the official tests and their containers |
| `MCToolLoop`, `MCSkillRegistry`, `MCOutcome`, `MCGateway`, `MCVerification` | their TLC instances |
| `ToolLoopProofs`, `SkillRegistryProofs`, `OutcomeProofs`, `GatewayProofs`, `VerificationProofs` | TLAPS proofs about them |

The modules meet at their interfaces. `RepairGraph` takes from the agents any
decision, candidate or failure; `ToolLoop` is how such an answer comes about and
what it costs. `ToolLoop` takes from the gateway an answer, a timeout or an error;
`Gateway` shows that a call always ends in one of these. `RepairGraph` takes some
verdict; `Verification` shows how a verdict comes about, or the exception that the
verify node undoes the candidate for. `Outcome` starts where
`RepairGraph`'s terminal nodes stand and installs a skill in one step;
`SkillRegistry` takes that step apart. `Campaign` takes a task's learning as one
lesson.

### RepairGraph

`st` is the checkpointed state and `node` the node the checkpoint names as next.
A node that only reads `st` is one action per outcome; a node that touches
files is several steps (`step`), because a crash or another writer can come in
between. `Return` checkpoints the node's update and takes the conditional edge,
so edge functions (`after_supervise`, ...) are evaluated on the new state, as
LangGraph does. `workspace`, `snapshots` and `plans` are the files on disk. All
local variables of a running node (`todo`, `written`, `sid`, `copy`) are lost in
`Crash`; the next step starts the same node again from the same `st`, as
`evoci resume` does. `Cancel` is what the `except BaseException` handlers of
`apply_candidate` and `verify` do before they re-raise. `ForeignEdit` is any
other process that writes the workspace.

| Node | Actions |
|---|---|
| `supervise` | `SuperviseOutOfBatches`, `SuperviseError`, `SuperviseDecides` |
| `prepare_task` | `PrepareOutOfBudget`, `PrepareRejects`, `PrepareReuses`, `PrepareBegins` / `PrepareCopies` / `PrepareSaves`, `PrepareCopyFails` |
| `worker` | `WorkerProposes`, `WorkerReportsNoEdit`, `WorkerExhausted`, `WorkerModelError` |
| `approval` | `ApprovalNotNeeded`, `ApprovalAnswered` |
| `apply_candidate` | `ApplyNothing`, `ApplyOutOfScope`, `ApplyBegins`, then per file `ApplyFindsDone` / `ApplyConflicts` / `ApplyChecks`, the last followed by `ApplyWrites` / `ApplyOutOfBudget` / `ApplyEditFails`, and `ApplyDone` |
| `verify` | `VerifyBegins` (snapshot id), `VerifyCopies` (isolated copy), `VerifyEnds` (verdict, bypass check) |
| `rollback` | `RollbackAttempt`, `RollbackClears` / `RollbackCopies`, `RollbackFails` |
| others | `bootstrap`, `retrieve_context`, `finalize`, `failed` |

Abstractions. A file's text is one of `Contents` or `Absent`; a hash or snapshot
id is the content it fingerprints. What the models answer is any element of
`Dispatches` and `Proposals`. Whether a call fits the shared budget is a
nondeterministic choice. The official (Docker) verifier and the local one are
both "some verdict, a pass only on a green tree". The undo of an attempt and the
snapshot restore of `Cancel` are single steps, while rollback's clear and copy
are two. Filesystem calls with nothing between them are one step: `apply_edit`'s hash
and its write, an undo's look at a file and its write. `apply_candidate`'s look at a
file and its write are two, because the charge and the stored event lie between
them; `unseen` (history) holds the files a third party wrote in that window, which only
the hash can tell (`HashMatches`). Failures of git inside the bypass scan, which passes
then (`graph/routing.py:45` and `65`), are left out, and so are prompts, attribution,
events and the run table.

### Campaign

The variables are the files of a campaign directory: `lock` (`.writer.lock`: who
created it, whether the pid is in it), `campaign` (`campaign.json`),
`generations`, `rounds` (`metadata.json` of each round), `runs` and `torn`
(`runs.jsonl`), `branches` (`learning-delta`). Every write that reaches the disk
by itself is a step. `proc[p]` is the memory of the process in slot `p`: its next
step (`at`), the round it was asked for, the `campaign.json` it has read, the
runner's pending tasks and results, and the staged generation. A process that
exits or crashes loses it; the lock file of a crashed process stays, with a pid
that nobody has. `finished`, `returned`, `overlapped` (two processes were past the lock
at once) and `stopped` (the steps and rounds at which a process was stopped) are
history, for the properties.

| Code | Actions |
|---|---|
| `writer_lock` | `LockCreates`, `LockExists`, `LockRefused`, `LockStale`, `LockUnlinks`, `LockLost`, `LockWritten`, `Release` |
| `initialize` | `InitializeReads`, `InitializePublishes`, `InitializeStuck`, `InitializeWrites` |
| `prepare_round` | `PrepareRefused`, `PrepareResumes`, and for a new round `PrepareAccepts` (the checks), `PrepareCreates` (`metadata.json`), `PrepareRegisters` (`campaign.json`, from the copy read before the checks) |
| `BenchmarkRunner.run` | `RunnerLoads`, `RunnerCannotLoad`, `TaskLearns`, `TaskEnds`, `RunnerTruncates`, `RunnerRewrites` |
| `finalize_round` | `FinalizeReturns`, `FinalizeStages`, `FinalizeMergeFails`, `FinalizePublishes`, `FinalizePreempted`, `FinalizeMarks`, `FinalizeReads`, `FinalizeUnregistered`, `FinalizeCommits` |
| environment | `Invoke`, `Crash`, `Interrupt` |

Opening the lock file and reading its owner are two steps, because the owner may
release it in between; reading the pid and `os.kill` are one, because a pid that
is gone by then has the same effect as a file that is gone. `CanSignal` says
whose processes `os.kill` reaches: for others it raises `PermissionError`.
The runs have one user; the proofs hold for any `CanSignal`.

Abstractions. What a branch or a generation holds is a set of lessons
`<<round, task>>`; a merge is the union, in one step, and may fail. The status of
a result is final (`"ok"`) or an error to retry. `--campaign-strict` is a choice
of `PrepareRefused`. Left out: manifests, datasets or configurations that change
between invocations, modified parents (the hash check), skipped entries,
`repo_fail_pairs`, aggregates, `status.json` and the summary. The error
warning that finalize_round may add to a round's metadata does not change its
status and is left out as well.

`Lineage` has three variables: the generations, the current one (-1 before
`campaign.json` exists) and whether two writers have overlapped. Its actions publish
generation 0, publish the next one from its parent and lessons of its round, commit it,
and let writers overlap; after an overlap `Misplace` may set the current generation to
any one whose line of parents is published, which is all that a stale write of
`campaign.json` can do. Without overlap the current generation only advances.

### ToolLoop

A run alternates Supervisor and Worker invocations (`turn`); `retry` is 1 in the
Supervisor's second, `:timeout-retry` invocation. `events` is the append-only store
(INSERT OR IGNORE on an id made of invocation, type and key), `budget` the run
budget that `RunBudgetManager` caches, `task` the Worker's own budget, `loop` the
local variables of `BoundedToolAgent.run`. `Crash` loses all but `events`; the
interrupted node starts again under the same invocation id and rebuilds `budget`
from events. `spent` counts the calls really made (history).

| Code | Actions |
|---|---|
| `SupervisorAgent.decide`, the supervise node | `SupervisorBegins`, `SupervisorReturns`, `SupervisorRaised` |
| `WorkerAgent.execute`, `_task_budget`, the worker and prepare nodes | `WorkerBegins`, `WorkerBlocked`, `WorkerReturns`, `WorkerExhausted`, `WorkerRaised`, `PrepareRefuses` |
| `BoundedToolAgent.run` | `CallsModel`, `ModelAnswers`, `ModelFails`, `ToolOverLimit`, `ToolBegins`, `ToolReturns`, `OutOfTurns`, `CallsFinalize`, `FinalAnswers`, `FinalFails` |
| verification's use of the budget | `VerifyCommand`, `VerifyDone` |

A tool call is charged and recorded in one step and answered in another: a crash may
come while the tool runs. `load_skill` activates the skill before it records the
retrieval, so a failed load (outcome `"failed"`) leaves the skill active without a
SKILL_SELECTED event, and its script may run; a refused one does not. A tool call's
id, which the provider gives, is taken to be unique; it also tells the process and the
model call it belongs to. Message texts, truncation of results and the
prompt are left out.

### SkillRegistry

`package` and `previous` are the two directories of the skill, `litter` the
`.old-previous-*` directories a dead process left, `row` and `ops` the SQLite row
and the ledger, `memory` the lessons file. Each rename and the row transaction is a
step: `Stages`, `Validates`, `SetsPreviousAside`, `MovesCurrent`, `Places`,
`Commits`, `Cleans`; `Fails` is an exception at any of them, `UndoesNew` and
`Undoes` are the handlers of `create_skill` and `update_skill`, `Dies` a process
death. `OperatorReads` and `_set_enabled` are enable and disable, which write back a
row they read earlier. `load_skill`, `ReadsPackage`, `execute_skill` and
`run_skill_script` are the agent's tools, `append_skill_memory` a finished run. A
package's content is the version name; validation is membership of `Sound`.

`raced` marks what the registry does not protect against: two writers of one skill
at the same time, and an operator whose read row is stale when it writes. The
properties that need it exclude those behaviours; `SkillCollision.cfg` and
`SkillDisabled.cfg` show what happens in them.

### Outcome

For each run `pc` is the next store call of the terminal node: `Ends`, `Given` and
`official_learning_verdict` (whose verdict counts), `Terminal`, `add_episode`,
`record_use`, `propose` and `commit_candidate` (long-term fact), `decide` and
`Installs` (mined skill), `AppendsLesson`. Each has its failing counterpart, which
reports the stage and goes on, except the episode, whose failure ends the node with
an exception. `Dies` loses `local`; `Replays` starts the node again over the same
stores, where `ledger` (applied_operations of both stores) makes it skip what was
done and reuse what was decided. A deferred benchmark run is learned from by a process
that is not resumed: it ends `abandoned` when it dies or its episode cannot be written.
`Reruns` is a resumed campaign that tries the task again, under the same run id and over
the same stores, and whose try may end in another way; `past` keeps the verdicts of the
earlier tries (history), and a verdict is looked up in `Judgements`, all that were given
under the id. `DropsLesson` is `append_skill_memory` without a package directory: it
returns False, and nobody looks.

### Gateway

`Plan` is the sequence of model calls of a run. `Sends` is a request, `_retry` a
timeout or transient error, `BackoffEnds` the sleep before the next attempt, `Corrects` the
request that follows an answer that does not parse (structured calls only),
`Returns`, `ContentError`, `OtherError` and `Cancelled` the ways a call ends. The
provider (external) answers any request of the last `MaxLate + 1`, also one that was
given up on. `observer` is the nonce and the sequence number that name an answer
without an id, `usage` the MODEL_USAGE events, `calls` the MODEL_CALL events.

### Verification

`mode` says who verifies: `VerificationService` with the harness's commands, or
`DockerReplayVerifier` with the official tests. The coroutine of the verify node is
`pc` with its local variables `plan`, `results`, `cause` (the incomplete cause) and
`raising` (the exception on its way out); `copy` is the isolated workspace. The
worker thread of `run_cancellable` is `thread`: its step, the cancellation event and
what it came to. `process` is the subprocess and whether a child of its group still
holds the pipes; `fates` records how each one ended (history). `containers` is what
the daemon runs, `registered` what the verifier means to remove, `before` the
preflight's result, `score` that of the last attempt.

| Code | Actions |
|---|---|
| `VerificationService.run` | `LocalBegins`, `isolated_workspace`, `NextCommand`, `AllRun`, `Receives`, `Cleans`, `Concludes` |
| `run_cancellable` | `Cancels`, `Joined` |
| `run_grouped_subprocess` | `Popen`, `LoopEnds`, `_kill_process_group`; `ProcessExits` is the program |
| `DockerReplayVerifier` | `PreflightBegins`, `preflight`, `OfficialBegins`, `build_candidate_patch`, `verify_candidate` |
| `score_patches`, in the thread | `_start_eval_container`, `_apply_patch`, `RunsFailToPass`, `RunsPassToPass`, `RunsTogether`, `_remove` |

Abstractions. The test patch, the candidate's patch and the reinstall are one step
that may fail; the status of each test is any status, and
any attempt may run both lists at once, as those of Django's tasks do; an output has a
marker of an environment failure, a baseline note, which only the container executor
writes, both or neither, and is inconclusive with both only, since a note without a
marker gives no reason. A failed removal leaves the copy (`raising` is then
`"RemovalError"`). An OSError after the process has run, of a read or of the removal of
its bytecode directory, gives a refused command, like one that never started. git may
run out of time in `build_candidate_patch`, which raises out of `verify`. `FailToPass` is not empty: a task without such
tests is not available to this verifier. Left out: log parsing, image pinning, and the work container in which a
benchmark agent runs its own commands.

## Runs

Bounds of the repair runs: two files (so that a patch can be half applied), three contents (base,
fix, and a fix that skips the test), two batches (a second one is enough to meet
the leftovers of the first; `repair_joint` has three, the default of
`max_supervisor_batches`), and one crash and one third-party edit. `MCProposals` has a good fix, a bypass, a sensitive
change that needs approval and two-file changes, one with a deletion.

| Run | Checks | Result |
|---|---|---|
| `repair_joint` | `RepairInv`, `VerifiedSuccess`, `NoBypassInSuccess`, `SuccessOnlyByRepair`, `RejectedLeavesNoTrace`, `FailedRunIsClean`, `ApplyKeepsForeignContent`, `ApprovedBeforeWrite` with a crash and a foreign edit, three batches | holds, 2.9 M states |
| `repair_terminates` | `Terminates` under `FairSpec` | holds |
| `campaign_two` | `CampaignInv`, `LineageSpec`, two processes | holds, 1.8 M states up to symmetry |
| `campaign_crash` | `LineageUnbroken`, `CommittedUnlessStopped`, `RetriesErrorsOnly`, and `InvocationEnds` under `FairSpec`, one process that is stopped twice | holds, 1.3 M states |
| `tool_loop` | `LoopInv`, `FinalizeReserved`, `AnsweredBeforeAsking`, `SpendingTracked`, `UsedWasLoaded`, and `RunEnds` under `FairSpec` | holds, 0.7 M states |
| `skill_registry` | `RegistryInv`, `InstalledOnce`, `CleanWhenIdle`, `GivenWasRegistered`, `OnlyValidatedRuns`, `LessonsKeptOnce` | holds |
| `outcome` | `OutcomeInv`, `CarriesOutTheDecision`, `LearnsFromVerdict`, `CompleteOrReported`, and `RunsReturn` under `FairSpec` | holds, 0.8 M states |
| `gateway` | `GatewayInv`, `AccountedOnce`, `CompleteMeansReported`, and `CallsEnd` under `FairSpec` | holds, 0.4 M states |
| `verification` | `VerificationInv`, `VerdictMatchesRuns`, `FailBeforePassAfter`, and `VerificationEnds` under `FairSpec` | holds, 0.6 M states |
| `repair_conflict_clobbers` | `ConflictKeepsForeignEdits` | violated: finding |
| `repair_torn_snapshot` | `RollbackRestoresParent`, with crashes inside the snapshot copy | violated: finding |
| `campaign_lost_commit` | `ReturnedIsCommitted` with a stop | violated: finding |

The invariants named `...Inv` of the last five passing runs are inductive, or follow
from an inductive part of them, as the proofs below show: a type invariant, the
properties that bound or relate the module's main state, and what those rest on.
`TaskWithinRun`, with `TurnsFit`, `CallsAreOpen`, `EventsTell` and `OpenIdsAreNew`; `NeverLost`, with
`Registered`, `Validated`, `Alone` and `Undisturbed`; `LedgerMatchesStores`, with
`Judged`, `Allowed`, `Prepared` and `Passed`; `RequestsBounded` and `UsesCurrentAnswer`, with
`Progress` and `KeysGivenOut`; `CopyOutlivesProcess` and `ContainersRemoved`, with
`ThreadFits`, `CopyHeld`, `ContainersHeld`, `ResultsRecorded`, `VerdictComesLast` and
`ScoresCompare`. `SpendingTracked` is `CountedWereMade` (a rebuilt budget counts only
calls that were made), `OverspendBounded` (it misses a bounded number) and
`SpendingExplained`, the accounts behind both.

Further configurations, for questions beside the main runs:

| Configuration | Module | What TLC shows |
|---|---|---|
| `RepairCancelledVerify.cfg` | `MCRepairGraph` | `VerifiesTheCandidate` fails: a cancelled verification undoes the candidate, the resumed one tests the tree without it (`graph/builder.py:1146`) |
| `RepairLeakedWrite.cfg` | `MCRepairGraph` | `ConflictUndoesTheAttempt` fails: after a crash between two writes and an edit of the first file, the second write stays (`graph/builder.py:907`) |
| `RepairCancelledReplay.cfg` | `MCRepairGraph` | `ConflictUndoesTheAttempt` fails without any third party too: a crash after two writes, a replay that is cancelled when it has found the first one, and a replay that runs out of budget leave the second write (`graph/builder.py:907`) |
| `RepairStaleOutput.cfg` | `MCRepairGraph` | `AppliesThisBatchesResult` fails: a Worker that proposes no edit leaves the candidate of the batch before in the state (`graph/builder.py:748`) |
| `RepairLostEdit.cfg` | `MCRepairGraph` | `ApplyLosesNoEdit` fails: an edit between the look at a file and the write of it is overwritten where no hash is compared, that is for a file the candidate creates or with `patch_hash_strict` off (`graph/builder.py:917`) |
| `CampaignPair.cfg` | `MCCampaign` | `OneWriter` holds for two invocations and one stop |
| `CampaignLockRace.cfg` | `MCCampaign` | `OneWriter` fails for three: a lock just taken is unlinked (`benchmark/campaign.py:124`) |
| `CampaignStaleWrite.cfg` | `MCCampaign` | `NeverBack` fails: of two processes past the lock the later one writes a `campaign.json` it read before the other's commit (`benchmark/campaign.py:289`) |
| `ToolLoopLostCalls.cfg` | `MCToolLoop` | `EveryCallIsAnEvent` fails: a call in flight at a crash leaves no event, so a resumed run may make one more than its budget |
| `ToolLoopStaleUse.cfg` | `MCToolLoop` | `ReportsOwnUses` fails: a repeated Worker invocation reports skills that only its interrupted first try used (`agents/model_agents.py:275`) |
| `SkillDisabled.cfg` | `MCSkillRegistry` | `DisabledNotExecuted` fails: an update writes back the enabled flag it read before validation (`capability/registry.py:232`) |
| `SkillCollision.cfg` | `MCSkillRegistry` | `CollisionKeepsFirst` fails: of two creates of a slug the loser's handler removes the winner's package (`capability/registry.py:332`) |
| `GatewayUsage.cfg` | `MCGateway` | `CompleteCoversCalls` fails: a call that failed without any record does not make the usage incomplete (`runtime/usage.py:17`) |
| `OutcomeRerun.cfg` | `MCOutcome` | `LeavesOneVerdict` fails: a task that learnt as a success, died and failed when tried again is recorded as failed and keeps its fact or skill (`cli.py:1380`) |
| `OutcomeLesson.cfg` | `MCOutcome` | `LessonsAreReported` fails: a lesson for a skill whose directory is away is lost without a report (`capability/registry.py:596`) |

Bounds of the other runs. `tool_loop`: one Supervisor and one Worker invocation, four
model and three tool calls, so that the limits of run, task and invocation are each
the tightest in some behaviour; two restarts, because the second one repeats a node
whose event ids are already taken, the case `OverspendBounded` is about.
`skill_registry`: three sound versions (a create, an update and an update that finds
a backup to set aside), an unsound one, and two deaths, the second of which meets
the leftovers of the first; versions and runs are symmetric. `outcome`: two runs
that share a fact and a skill's statistics, each a success with a failed script, a
failed repair, a failed model, or a benchmark run that the evaluator passes, fails or
cannot judge (an infrastructure failure; the other classes are covered by the proofs); and two troubles, each a death, a failing call or a task tried again, since a
second try matters after a first one that was cut short. `gateway`: a call without and one with corrections, two attempts each,
an answer one request late, one restart, one refused event; answers with and without
an id and token counts. `verification`: up to two commands (a failed one leaves one
to skip, a repeated one is dropped), budgets of zero to two calls, two FAIL_TO_PASS
tests (one may be missing while the other fails) and one PASS_TO_PASS test, one
retry, and two failing operations, since an error of the clean-up may take the place of
an earlier one.

Bounds of the campaign runs: two rounds, so that a lineage can be broken; two
tasks in the first, one of which is in the second too, where task results matter
(`campaign_two` has one task); two process slots, which are symmetric there. With `Reruns` a slot is used
again and again, which is what a third invocation is; without it the system
stops when its invocations have ended, so `CampaignPair.cfg` does not check
deadlock. `campaign_two` needs no crash to get two processes past the lock (the
`CampaignLockRace.cfg`), and crash and overlap together are covered by the
proofs.

`RejectedLeavesNoTrace` and `FailedRunIsClean` are stated for runs that had a
crash or a foreign edit, not both, and one crash or cancellation, not two (`Calm`):
otherwise the cases of `RepairLeakedWrite.cfg` and `RepairCancelledReplay.cfg`
break them. Crashes inside a snapshot copy (`CopyCrashes`) are allowed in
`repair_torn_snapshot` only. `CommittedUnlessStopped` and `RetriesErrorsOnly` hold with
one writer and stops at any step, except between the very writes that belong together:
the two that register a round and the three that publish, mark and commit a
generation (`HalfCommitted`), which is the finding `campaign_lost_commit`, and
`RunnerTruncates` and `RunnerRewrites` (`HalfWritten`).

Fairness. In `RepairGraph`, `FairSpec` is weak fairness of the graph's own steps: the driver
awaits each node and `evoci resume` continues an interrupted run; a waiting
approval is assumed to be answered. Crashes, cancellations and foreign edits are
never required to happen, and are bounded. In `Campaign` it is weak fairness of
each running invocation: none of its steps waits for another process (a lock that
is held is refused at once) and a task is assumed to complete, since model calls
and commands have timeouts. Nobody has to start an invocation. In `ToolLoop` it is
weak fairness of the process's step, since provider calls and tools are awaited with
time limits; in `Outcome` of the next store call of some run: while one can go on or be
resumed, one does, but nobody has to resume a campaign;
in `Gateway` of the gateway's own steps, where `asyncio.wait_for` and `sleep` end by
the clock. The provider owes nothing. In `Verification` it is weak fairness of the
coroutine and of the thread: polling ends at its deadline and docker commands have time
limits, while the tested program and whoever cancels owe nothing. `SkillRegistry` has no liveness property: a
writer may die and nobody has to replay it.

Findings are listed in `PROJECT.json`; each quotes the line of a document, a
comment or a test that the run contradicts. They are divergences between
the documentation and the code at the reviewed commit, found while modelling.

## Proofs

`RepairGraphProofs` proves, for any finite or infinite set of files, any
contents, dispatches and proposals, any number of batches, crashes and foreign
edits:

| Theorem | Statement |
|---|---|
| `InvariantHolds` | `Spec => []RepairInv` |
| `SuccessIsVerified` | `Spec => []VerifiedSuccess` |
| `SuccessHasNoBypass` | `Spec => []NoBypassInSuccess` |
| `SuccessComesFromRepair` | `Spec => []SuccessOnlyByRepair` |
| `ApplyIsConfined` | `Spec => ApplyKeepsForeignContent` |
| `ApprovalComesFirst` | `Spec => ApprovedBeforeWrite` |

The only assumption is `ConstantsAssumption`. `RepairInv` is the inductive
strengthening. `VerifiedSuccess` is not inductive: it needs that a recorded pass
is consumed at once (`PassInv`, which is what clearing the verification in
rollback is for), that the snapshot id, the tested copy and the workspace agree
outside third-party files while verify runs (`TestedInv`), and that each step
belongs to its node (`ControlInv`). `ApplyIsConfined` needs that the plan of a
batch is the snapshot's content of the edited files (`PlanInv`), and that the file
written next held its plan's content when it was looked at, unless a third party wrote it
since (`unseen`); it therefore says which edits may be lost, and that no other is. The
proof has
one lemma per group of actions and conjunct, and one per helper.

`RepairCleanProofs` proves, as generally and from the same assumption:

| Theorem | Statement |
|---|---|
| `WorkspaceStaysClean` | `Spec => []CleanInv` |
| `RejectedCandidatesLeaveNoTrace` | `Spec => []RejectedLeavesNoTrace` |
| `FailedRunsAreClean` | `Spec => []FailedRunIsClean` |

That the workspace is clean at supervise depends on a chain: the snapshot was taken
of a clean workspace (`SnapshotClean`), so the plan holds the committed contents, so
an undo or a rollback puts them back (`RollbackClean`), so the next snapshot is clean
again. The hard part is a half applied candidate (`ApplyClean`): an undo knows only
`written`, so after a crash it must not stop at a file before one that is already
written. The files a candidate has written are the first ones in the order of
application, and a replay that stops does so at a file that does not hold its target;
after one crash and no third-party write nothing behind that file is written (lemma
`UndoCleans`). A third-party write of an earlier file, or a cancelled replay, breaks
that order, which is what `Calm` leaves out. `ProgressInv` is the bookkeeping the
argument needs in every run. `CleanInv` is inductive with `RepairInv`; TLC has
checked it with the constants of `repair_joint`, and with two third-party edits.

`CampaignProofs` proves, for any set of processes, any number of rounds, tasks
and stops, and any `CanSignal`, from `CampaignAssumption` only:

| Theorem | Statement |
|---|---|
| `CampaignCorrect` | `Spec => []CampaignInv` |
| `LineageIsUnbroken` | `Spec => []LineageUnbroken` |
| `CampaignRefinesLineage` | `Spec => LineageSpec` |
| `CampaignIsUndisturbed` | `Spec => []Undisturbed` |
| `ReturnedRoundsAreCommitted` | `Spec => []CommittedUnlessStopped` |
| `FinalResultsAreNotRerun` | `Spec => []RetriesErrorsOnly` |
| `NeverBackAlone` | without overlap, no step moves campaign.json back |
| `OneProcessIsEnough` | one process, however often invoked and stopped, never overlaps: `Spec => []~overlapped` |

The point of the argument for the first three is that it does not use the writer
lock, which `CampaignLockRace.cfg` shows to be unsafe: `os.replace` publishes a generation
once, so one process commits it, and until it does no copy of campaign.json, on disk
or in another's memory, has that generation (`UniqueInv`). A process may still write an
old copy over a newer one (`CampaignStaleWrite.cfg`); but every copy names published
generations in order (`Known`, for each process in `Reading`), so that moves the current
generation to another place of an unbroken line. That a published generation implies a round directory is `DiskInv`.
Steps that leave the lineage's files alone are instances of the lemma `Frame`; the others
have a lemma each. The refinement maps the current generation to `campaign.json`'s, or
-1, and `overlapped` to itself.

The others speak of what one writer at a time achieves, as the lock promises: a
second may rewrite runs.jsonl, or move campaign.json, between two steps of the
first. `overlapped` records that the promise was broken; no hypothesis is needed, since
`Undisturbed` says: as long as no two have been past the lock at once, there is one
writer, rounds and generations on disk are in campaign.json except between the writes that
belong together, campaign.json is what was read (`Recorded`), and a final result is in
runs.jsonl or, while that is rewritten, in the rewriting process's memory
(`ResultsKept`). Two invocations do not overlap (`CampaignPair.cfg`), and neither does one
process (the last theorem).

`VerificationProofs` proves, for any command lists, budgets, sets of tests, retries
and failing operations, from `VerificationAssumption`:

| Theorem | Statement |
|---|---|
| `VerificationCorrect` | `Spec => []VerificationInv` |
| `VerdictIsTrue` | `Spec => []VerdictMatchesRuns` |
| `FailsBeforePasses` | `Spec => []FailBeforePassAfter` |

All three follow from `VerificationIsSound`, the inductive `Core /\ Verdicts`. A
verdict is computed from `results` long after the processes ended, so the invariant
carries what each result says of its process (`ResultsRecorded`) from the thread's
outcome to the end, and that a score which is not the environment's names every test
(`ScoresCompare`). That the copy outlives the process needs both sides of the wait:
the thread works only while the coroutine waits for it (`ThreadFits`), a cancelled
coroutine included. The copy is left behind by a failed removal only, and then the verdict
is not a pass (`CopyOutlivesProcess`, which therefore needs `Verdicts` as well). The counts of containers are per container: the thread's own is
registered, every other is a failed call's (`ContainersHeld`). `VerdictSays` and
`SkipRestFills` are the lemmas about `evaluate_verification` and its skipped entries.

`ToolLoopProofs` proves, for any limits, answers, tool calls and skills and any number
of turns and restarts, from `LoopAssumption`:

| Theorem | Statement |
|---|---|
| `LoopCorrect` | `Spec => []LoopInv` |
| `FinalizeIsReserved` | `Spec => []FinalizeReserved` |
| `CallsAreAnswered` | `Spec => []AnsweredBeforeAsking` |
| `UsedSkillsWereLoaded` | `Spec => []UsedWasLoaded` |
| `SpendingIsTracked` | `Spec => []SpendingTracked` |

The first four need `LoopInv` only: `TurnsFit` counts the turns still to come, which is
why a finalize call is always left. `UsedWasLoaded` asks for the call and the result of a
load by the process that reports the use, not for a SKILL_SELECTED event, which a failed
load does not leave. Its result must therefore reach the store: `OpenIdsAreNew` says that
the ids of the open calls are new, so no record is ignored for an earlier one's sake. `SpendingTracked` compares the number of calls made
with the number of MODEL_CALL events, and an event of a repeated node is ignored by the
store because its id is taken; so the accounts (`SpendingExplained`) set against each
other the calls made, the events, the awaited call (`InFlight`) and the events of an
earlier try whose calls may be made once more (`Ahead`). A restart moves at most one
node's calls into `Ahead`; every repeated call moves one out.

`SkillRegistryProofs` proves, for any writers, versions, runs and deaths, from
`RegistryAssumption`:

| Theorem | Statement |
|---|---|
| `RegistryCorrect` | `Spec => []RegistryInv` |
| `OperationsInstallOnce` | `Spec => []InstalledOnce` |
| `IdleRegistryIsClean` | `Spec => []CleanWhenIdle` |
| `AgentsReadRegistered` | `Spec => []GivenWasRegistered` |
| `AgentsRunValidated` | `Spec => []OnlyValidatedRuns` |
| `LessonsAreKept` | `Spec => LessonsKeptOnce` |

`Registered` and `Validated` hold with any overlap of writers, operator and agent and
carry the two properties of the agent. The others speak of runs without overlap, where
`Holds` says what the one process at work may rely on at each step, after any
deaths of earlier ones; where nobody died, `Placed` also says where each version is.

`OutcomeProofs` proves, for any runs, facts, deaths, failing calls and repeated tasks, from
`OutcomeAssumption`:

| Theorem | Statement |
|---|---|
| `OutcomeCorrect` | `Spec => []OutcomeInv` |
| `DecisionIsCarriedOut` | `Spec => []CarriesOutTheDecision` |
| `LearningFollowsTheVerdict` | `Spec => []LearnsFromVerdict` |
| `ReturnsComplete` | `Spec => []CompleteOrReported` |

A replay starts from nothing but the stores, so `Judged` ties a try to the verdict that
each of its replays will come to again, `Allowed` every entry under a run id to some
verdict given under it, that of an earlier try included, and `Passed` says which entries
must be there at each step. The proof treats one run's step and shows that the other
runs' entries are untouched. The counters equal cardinalities of sets of runs, which
the invariant therefore keeps finite.

`GatewayProofs` proves, for any plan of calls, any limits and any late answers, from
`GatewayAssumption`:

| Theorem | Statement |
|---|---|
| `GatewayCorrect` | `Spec => []GatewayInv` |
| `UsageIsAccountedOnce` | `Spec => []AccountedOnce` |
| `CompleteUsageIsReported` | `Spec => []CompleteMeansReported` |

An answer is counted once because its event's key is new: `KeysGivenOut` says that all
keys in the store belong to earlier requests or earlier observer numbers. `Progress`
is what bounds the requests of a call by its attempts and corrections. The ids that the
provider gives its answers are taken to be unique.

Model-checked only: `Terminates`, `InvocationEnds`, `RunEnds`, `RunsReturn`,
`CallsEnd` and `VerificationEnds`, since liveness is outside what TLAPS is used for
here; and `OneWriter` for two invocations.

## Not modelled, and the plan

Next, in this order:

1. A proof of `OneWriter` for two invocations.
2. The work container of a benchmark agent, with its protected files; the
   row-by-row merge of memories and skills of a campaign, as operators.

Hazards that are known and not in the models, or not in a run:

- the apply plan is written in place and may be torn (`graph/integration.py:206`);
- the run table says waiting_approval after the answer (`graph/builder.py:813`);
- a merge of two branches that consolidated the same fact keeps the last branch's
  sources (`benchmark/campaign.py:561`);
- what a finalized round learns when it is run again goes nowhere
  (`benchmark/campaign.py:428`, visible in `Campaign`, but no document says what is
  meant);
- `os.kill` raises PermissionError for another user's process
  (`benchmark/campaign.py:120`: the proofs allow it, the runs have one user);
- two writers of one skill, or an operator with a stale row
  (`capability/registry.py:232` and `332`: `SkillDisabled.cfg`, `SkillCollision.cfg`);
- a `docker exec` that times out may keep running in the work container
  (`benchmark/docker.py:1061`);
- a DockerError of a container's start leaves the verify node as an exception, where
  other failures become a verdict (`pc = "raised"` in `Verification`; the node then
  undoes the candidate).

Left out for good: prompts and text ranking, dataset adapters, argument parsing
and printing, path normalisation, request encoding, and git's own state.
