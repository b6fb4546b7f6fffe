---------------------------- MODULE RepairGraph ----------------------------
(***************************************************************************)
(* The supervisor/worker repair graph of EvoCI (graph/builder.py) together *)
(* with the files it works on: the parent workspace, the per-batch         *)
(* snapshots and the apply plans.  One run is modelled.                    *)
(*                                                                         *)
(* `st' is the checkpointed EvoCIState: a node reads it, and what the node *)
(* returns is saved, with the next node, when it returns (operator Return).*)
(* `step' and the variables after it live only while a node runs: a crash  *)
(* loses them and the same node starts again from the same `st'.  The      *)
(* workspace, the snapshots and the plans are on disk and survive.         *)
(*                                                                         *)
(* A file's text is one element of Content; a snapshot id is the tree it   *)
(* fingerprints.  Whether a call still fits the shared model/tool budget   *)
(* is a nondeterministic choice: the Supervisor's and the Worker's loops   *)
(* spend from the same counters.                                           *)
(***************************************************************************)
EXTENDS Integers, FiniteSets

CONSTANTS
    Paths,              \* the workspace's files, in the order edits are applied
    Contents,           \* what a file may hold
    Absent,             \* the content of a file that does not exist
    Keep,               \* "this patch does not touch the path"
    NoTree, NoTask,     \* no directory, no task
    Head,               \* the committed tree the run starts from
    Green,              \* trees on which every mandatory CI command passes
    Bypass,             \* contents that hold a forbidden token (skip, noqa...)
    Dispatches,         \* tasks the Supervisor may dispatch
    Proposals,          \* staged changes a Worker may report
    SensitivePathSets,  \* changed-file sets that need approval whatever the risk
    MaxBatches,         \* config.max_supervisor_batches
    HashStrict,         \* config.patch_hash_strict
    CopyCrashes,        \* may the process die inside an unfinished snapshot copy?
    MaxForeignEdits,    \* bound on third-party writes
    MaxCrashes          \* bound on crashes and cancellations

Content == Contents \cup {Absent}
Tree == [Paths -> Content]
Patch == [Paths -> Content \cup {Keep}]
NoPatch == [p \in Paths |-> Keep]
EmptyTree == [p \in Paths |-> Absent]
Batches == 1..MaxBatches

ASSUME ConstantsAssumption ==
    /\ Paths \subseteq Nat
    /\ Absent \notin Contents
    /\ Keep \notin Content
    /\ NoTree \notin Tree /\ NoTree \notin Patch
    /\ NoTask \notin Dispatches
    /\ Head \in Tree
    /\ Green \subseteq Tree
    /\ Dispatches \subseteq
         [id : Nat, kind : {"investigate", "repair"}, scope : SUBSET Paths, fits : BOOLEAN]
    /\ Proposals \subseteq [edits : Patch \ {NoPatch}, risk : {"low", "high"}]
    /\ MaxBatches \in Nat \ {0}
    /\ HashStrict \in BOOLEAN /\ CopyCrashes \in BOOLEAN
    /\ MaxForeignEdits \in Nat /\ MaxCrashes \in Nat

VARIABLES
    node,         \* the graph node to run next
    st,           \* the checkpointed EvoCIState
    workspace,    \* the parent workspace
    snapshots,    \* .evoci-snapshots-.../batch-N
    plans,        \* artifacts/<run>/apply/<batch>:<task>.json
    step,         \* progress inside the running node
    todo,         \* paths still to copy (prepare_task) or to edit (apply_candidate)
    written,      \* apply_candidate's `written'
    sid,          \* verify's `snapshot_id'
    copy,         \* the isolated copy verification runs in
    touched,      \* history: paths a third party has written
    unseen,       \* history: ... since apply_candidate looked at the file it writes next
    consent,      \* history: the last batch whose candidate a human approved
    foreign,      \* third-party edits so far
    crashes       \* crashes and cancellations so far

disk == <<workspace, snapshots, plans>>
local == <<step, todo, written, sid, copy>>
aux == <<touched, unseen, consent, foreign, crashes>>
vars == <<node, st, disk, local, aux>>

----------------------------------------------------------------------------
(* The checkpointed state.                                                 *)

Nodes == {"bootstrap", "retrieve_context", "supervise", "prepare_task", "worker",
          "approval", "apply_candidate", "verify", "rollback", "finalize", "failed", "end"}

FailureClasses == {"repair", "model", "budget", "policy", "infrastructure"}

\* VerificationResult.status, with incomplete split by its cause.
VerificationStatuses ==
    {"passed", "failed", "incomplete_budget", "incomplete_execution",
     "infra_error", "inconclusive", "unavailable"}

\* FixerOutput; `base' is what each edit's expected_sha256 was taken from and
\* `batch' the batch whose Worker produced it (no edits stands for None).
FixerOutputs == [edits : Patch, base : Patch, risk : {"low", "high"}, batch : Nat]
NoOutput == [edits |-> NoPatch, base |-> NoPatch, risk |-> "low", batch |-> 0]

InitialState ==
    [phase |-> "bootstrap", status |-> "running", failure_class |-> "none",
     failure_stage |-> "none", last_class |-> "none", budget_failed |-> FALSE,
     supervisor_batch |-> 0, decision |-> "none", tasks |-> NoTask,
     worker_task |-> NoTask, completed_task_ids |-> {}, result |-> "none",
     artifact |-> FALSE, fixer_output |-> NoOutput, approved |-> "none",
     batch_conflict |-> FALSE, attempted |-> FALSE, attempt_baseline |-> NoPatch,
     attempt_written |-> NoPatch, verification |-> "none",
     verification_snapshot_id |-> NoTree, failed_candidates |-> {}]

EvoCIState(s) ==
    /\ DOMAIN s = DOMAIN InitialState
    /\ s.phase \in Nodes
    /\ s.status \in {"running", "failed", "success"}
    /\ s.failure_class \in FailureClasses \cup {"none"}
    /\ s.failure_stage \in Nodes \cup {"none"}
    /\ s.last_class \in FailureClasses \cup {"none"}   \* failure_classes[-1]
    /\ s.budget_failed \in BOOLEAN                \* budget_failures is not empty
    /\ s.supervisor_batch \in 0..MaxBatches
    /\ s.decision \in {"none", "stop", "dispatch"}
    /\ s.tasks \in Dispatches \cup {NoTask}       \* decision.tasks
    /\ s.worker_task \in Dispatches \cup {NoTask}
    /\ s.completed_task_ids \in SUBSET Nat
    /\ s.result \in {"none", "completed", "blocked", "budget_exhausted"}
    /\ s.artifact \in BOOLEAN                     \* latest result has a patch artifact
    /\ s.fixer_output \in FixerOutputs
    /\ s.approved \in {"none", "yes", "no"}
    /\ s.batch_conflict \in BOOLEAN
    /\ s.attempted \in BOOLEAN                    \* attempt_written is not None
    /\ s.attempt_baseline \in Patch
    /\ s.attempt_written \in Patch
    /\ s.verification \in VerificationStatuses \cup {"none"}
    /\ s.verification_snapshot_id \in Tree \cup {NoTree}
    /\ s.failed_candidates \in SUBSET Batches

TypeOK ==
    /\ node \in Nodes
    /\ EvoCIState(st)
    /\ workspace \in Tree
    /\ snapshots \in [Batches -> Tree \cup {NoTree}]
    /\ plans \in [Batches -> Patch \cup {NoTree}]
    /\ step \in {"idle", "copy", "apply", "write", "verify", "tested", "restore"}
    /\ todo \in SUBSET Paths
    /\ written \in Patch
    /\ sid \in Tree \cup {NoTree}
    /\ copy \in Tree \cup {NoTree}
    /\ touched \in SUBSET Paths
    /\ unseen \in SUBSET touched
    /\ consent \in 0..MaxBatches
    /\ foreign \in 0..MaxForeignEdits
    /\ crashes \in 0..MaxCrashes

----------------------------------------------------------------------------
(* Helpers of the nodes.                                                   *)

EditedPaths(patch) == {p \in Paths : patch[p] # Keep}

IsFirst(p, S) == p \in S /\ \A q \in S : p <= q

Idle ==
    /\ step' = "idle" /\ todo' = {} /\ written' = NoPatch
    /\ sid' = NoTree /\ copy' = NoTree

\* A node returns: its update is checkpointed with the edge taken.
Return(s, next) == st' = s /\ node' = next /\ Idle

Fail(s, class, stage) ==
    [s EXCEPT !.status = "failed", !.failure_class = class, !.failure_stage = stage]

validate_single_task(task) ==
    /\ task.id \notin st.completed_task_ids
    /\ task.kind = "repair" => task.scope # {}
    /\ task.kind = "investigate" => task.scope = {}
    /\ task.fits

requires_approval(output) ==
    \/ output.risk # "low"
    \/ \E p \in Paths : output.edits[p] = Absent
    \/ EditedPaths(output.edits) \in SensitivePathSets

contains_workspace_review_bypass(tree) ==
    \E p \in Paths : tree[p] \in Bypass /\ tree[p] # Head[p]

snapshot_edit_baseline(root, edits) ==
    [p \in Paths |-> IF edits[p] = Keep THEN Keep ELSE root[p]]

\* A file the baseline does not list did not exist.
BaselineContent(baseline, p) == IF baseline[p] = Keep THEN Absent ELSE baseline[p]

\* Only files this attempt wrote, and only if they still match that write.
restore_attempt_writes(root, baseline, wrote) ==
    [p \in Paths |-> IF wrote[p] # Keep /\ root[p] = wrote[p]
                     THEN BaselineContent(baseline, p) ELSE root[p]]

\* The second half of restore_batch_snapshot: copy the snapshot over what is there.
CopyBack(root, snapshot) ==
    [p \in Paths |-> IF snapshot[p] # Absent THEN snapshot[p] ELSE root[p]]

formal_success(s, root) ==
    s.verification = "passed" /\ s.verification_snapshot_id = root

----------------------------------------------------------------------------
(* The conditional edges.                                                  *)

\* Mutant: the Supervisor's "stop" is believed.
StopIsSuccess(s) ==
    CASE s.status = "failed" \/ s.decision = "none" -> "failed"
      [] s.status # "failed" /\ s.decision = "stop" -> "finalize"
      [] OTHER -> "prepare_task"

after_supervise(s) ==
    CASE s.status = "failed" \/ s.decision = "none" -> "failed"
      [] s.status # "failed" /\ s.decision = "stop" ->
            IF formal_success(s, workspace) THEN "finalize" ELSE "failed"
      [] OTHER -> "prepare_task"

after_prepare(s) ==
    CASE s.status = "failed" -> "failed"
      [] s.status # "failed" /\ s.batch_conflict ->
            IF s.supervisor_batch < MaxBatches THEN "supervise" ELSE "failed"
      [] OTHER -> IF s.worker_task = NoTask THEN "failed" ELSE "worker"

after_worker(s) ==
    IF \/ s.status = "failed"
       \/ s.last_class \in {"model", "infrastructure"}
       \/ s.result \in {"none", "budget_exhausted"}
       \/ s.budget_failed
    THEN "failed"
    ELSE IF s.result = "blocked" \/ s.worker_task.kind # "repair" THEN "supervise"
    ELSE "approval"

after_approval(s) ==
    IF s.status = "failed" \/ s.approved = "no" THEN "failed" ELSE "apply_candidate"

\* Mutant: without edits there seems to be nothing to verify.
NoEditsNoVerify(s) ==
    IF s.status = "failed" THEN "failed"
    ELSE IF s.batch_conflict THEN "rollback"
    ELSE IF s.fixer_output = NoOutput THEN "finalize" ELSE "verify"

after_apply(s) ==
    IF s.status = "failed" THEN "failed"
    ELSE IF s.batch_conflict THEN "rollback" ELSE "verify"

\* Mutants: the governance conflict of a pass is ignored; a failed status skips
\* rollback.
PassIsEnough(s) ==
    IF s.verification \in {"infra_error", "inconclusive"} THEN "failed"
    ELSE IF s.verification = "passed" THEN "finalize"
    ELSE "rollback"

FailWithoutRollback(s) ==
    IF s.status = "failed" THEN "failed"
    ELSE IF s.verification = "passed" /\ ~s.batch_conflict THEN "finalize"
    ELSE "rollback"

after_verify(s) ==
    IF s.verification \in {"infra_error", "inconclusive"} THEN "failed"
    ELSE IF s.verification = "passed" /\ ~s.batch_conflict THEN "finalize"
    ELSE "rollback"

after_rollback(s) ==
    IF \/ s.status = "failed"
       \/ s.last_class \in {"model", "infrastructure"}
       \/ s.supervisor_batch >= MaxBatches
    THEN "failed" ELSE "supervise"

----------------------------------------------------------------------------
(* bootstrap, retrieve_context, supervise                                  *)

bootstrap ==
    /\ node = "bootstrap"
    /\ Return([st EXCEPT !.phase = "bootstrap", !.status = "running"], "retrieve_context")
    /\ UNCHANGED <<disk, aux>>

retrieve_context ==
    /\ node = "retrieve_context"
    /\ Return([st EXCEPT !.phase = "retrieve_context"], "supervise")
    /\ UNCHANGED <<disk, aux>>

\* Mutant: a rejected dispatch does not count as a batch.
RejectedBatchIsFree == IF st.batch_conflict THEN st.supervisor_batch ELSE st.supervisor_batch + 1

NextBatch == st.supervisor_batch + 1

SuperviseOutOfBatches ==
    /\ node = "supervise"
    /\ NextBatch > MaxBatches
    /\ LET s == [Fail(st, "budget", "supervise") EXCEPT !.phase = "supervise"]
       IN  Return(s, after_supervise(s))
    /\ UNCHANGED <<disk, aux>>

\* RepairBudgetExhausted, or a gateway error that is not a timeout or that
\* persists in the one timeout retry.
SuperviseError ==
    /\ node = "supervise"
    /\ NextBatch <= MaxBatches
    /\ \E class \in {"budget", "model"} :
          LET s == [Fail(st, class, "supervise") EXCEPT
                       !.phase = "supervise", !.supervisor_batch = NextBatch]
          IN  Return(s, after_supervise(s))
    /\ UNCHANGED <<disk, aux>>

SuperviseDecides ==
    /\ node = "supervise"
    /\ NextBatch <= MaxBatches
    /\ \E task \in Dispatches \cup {NoTask} :
          LET s == [st EXCEPT !.phase = "supervise", !.supervisor_batch = NextBatch,
                       !.decision = IF task = NoTask THEN "stop" ELSE "dispatch",
                       !.tasks = task, !.batch_conflict = FALSE]
          IN  Return(s, after_supervise(s))
    /\ UNCHANGED <<disk, aux>>

----------------------------------------------------------------------------
(* prepare_task                                                            *)

batch == st.supervisor_batch

PrepareOutOfBudget ==
    /\ node = "prepare_task" /\ step = "idle"
    /\ LET s == [Fail(st, "budget", "worker") EXCEPT
                    !.last_class = "budget", !.budget_failed = TRUE]
       IN  Return(s, after_prepare(s))
    /\ UNCHANGED <<disk, aux>>

PrepareRejects ==
    /\ node = "prepare_task" /\ step = "idle"
    /\ ~validate_single_task(st.tasks)
    /\ LET s == IF batch < MaxBatches
                THEN [st EXCEPT !.phase = "prepare_task", !.batch_conflict = TRUE,
                                !.worker_task = NoTask]
                ELSE Fail(st, "repair", "prepare_task")
       IN  Return(s, after_prepare(s))
    /\ UNCHANGED <<disk, aux>>

Prepared ==
    LET s == [st EXCEPT !.phase = "prepare_task", !.worker_task = st.tasks,
                        !.batch_conflict = FALSE, !.approved = "none"]
    IN  Return(s, after_prepare(s))

\* The directory of this batch already exists: a replay takes it as it is.
PrepareReuses ==
    /\ node = "prepare_task" /\ step = "idle"
    /\ validate_single_task(st.tasks)
    /\ snapshots[batch] # NoTree
    /\ Prepared
    /\ UNCHANGED <<disk, aux>>

\* save_batch_snapshot: shutil.copytree creates the directory, then file by file.
PrepareBegins ==
    /\ node = "prepare_task" /\ step = "idle"
    /\ validate_single_task(st.tasks)
    /\ snapshots[batch] = NoTree
    /\ snapshots' = [snapshots EXCEPT ![batch] = EmptyTree]
    /\ step' = "copy" /\ todo' = Paths
    /\ UNCHANGED <<node, st, workspace, plans, written, sid, copy, aux>>

PrepareCopies ==
    /\ step = "copy"
    /\ \E p \in Paths :
          /\ IsFirst(p, todo)
          /\ snapshots' = [snapshots EXCEPT ![batch][p] = workspace[p]]
          /\ todo' = todo \ {p}
    /\ UNCHANGED <<node, st, workspace, plans, step, written, sid, copy, aux>>

PrepareSaves ==
    /\ step = "copy" /\ todo = {}
    /\ Prepared
    /\ UNCHANGED <<disk, aux>>

PrepareCopyFails ==
    /\ step = "copy"
    /\ LET s == Fail(st, "infrastructure", "prepare_task")
       IN  Return(s, after_prepare(s))
    /\ UNCHANGED <<disk, aux>>

----------------------------------------------------------------------------
(* worker                                                                  *)

\* collect_staged_edits: within the scope, and different from the workspace.
Staged(edits) ==
    \A p \in EditedPaths(edits) : p \in st.worker_task.scope /\ edits[p] # workspace[p]

WorkerDone(r) ==
    LET s == [r EXCEPT !.completed_task_ids = @ \cup {st.worker_task.id}]
    IN  Return(s, after_worker(s))

WorkerProposes ==
    /\ node = "worker" /\ st.worker_task.kind = "repair"
    /\ \E proposal \in Proposals, status \in {"completed", "blocked", "budget_exhausted"} :
          /\ Staged(proposal.edits)
          /\ WorkerDone([st EXCEPT !.result = status, !.artifact = TRUE,
                   !.fixer_output =
                      [edits |-> proposal.edits, risk |-> proposal.risk, batch |-> batch,
                       base |-> snapshot_edit_baseline(workspace, proposal.edits)]])
    /\ UNCHANGED <<disk, aux>>

\* No edits: the previous fixer_output, if any, is kept.
WorkerReportsNoEdit ==
    /\ node = "worker"
    /\ \E status \in {"completed", "blocked"} :
          WorkerDone([st EXCEPT !.result = status, !.artifact = FALSE])
    /\ UNCHANGED <<disk, aux>>

\* The agent reports the exhausted budget itself, or the exception reaches the node.
WorkerExhausted ==
    /\ node = "worker"
    /\ \E raised \in BOOLEAN :
          WorkerDone([(IF raised THEN st ELSE Fail(st, "budget", "worker")) EXCEPT
                         !.result = "budget_exhausted", !.artifact = FALSE,
                         !.last_class = "budget", !.budget_failed = TRUE])
    /\ UNCHANGED <<disk, aux>>

WorkerModelError ==
    /\ node = "worker"
    /\ WorkerDone([Fail(st, "model", "worker") EXCEPT
                      !.result = "blocked", !.artifact = FALSE,
                      !.last_class = "model", !.budget_failed = TRUE])
    /\ UNCHANGED <<disk, aux>>

----------------------------------------------------------------------------
(* approval                                                                *)

HasEdits(output) == output.edits # NoPatch

\* Mutant: one approval is taken to hold for the rest of the run.
ApprovalAskedOnce ==
    /\ node = "approval"
    /\ HasEdits(st.fixer_output) /\ requires_approval(st.fixer_output) => consent # 0
    /\ LET s == [st EXCEPT !.phase = "approval", !.approved = "yes"]
       IN  Return(s, after_approval(s))
    /\ UNCHANGED <<disk, aux>>

ApprovalNotNeeded ==
    /\ node = "approval"
    /\ ~(HasEdits(st.fixer_output) /\ requires_approval(st.fixer_output))
    /\ LET s == [st EXCEPT !.phase = "approval", !.approved = "yes"]
       IN  Return(s, after_approval(s))
    /\ UNCHANGED <<disk, aux>>

\* interrupt(...): the run waits here until the human answers.
ApprovalAnswered ==
    /\ node = "approval"
    /\ HasEdits(st.fixer_output) /\ requires_approval(st.fixer_output)
    /\ \E answer \in {"yes", "no"} :
          LET r == [st EXCEPT !.phase = "approval", !.approved = answer]
              s == IF answer = "yes"
                   THEN [r EXCEPT !.status = "running", !.failure_class = "none",
                                  !.failure_stage = "none"]
                   ELSE Fail(r, "policy", "approval")
          IN  /\ Return(s, after_approval(s))
              /\ consent' = IF answer = "yes" THEN batch ELSE consent
    /\ UNCHANGED <<disk, touched, unseen, foreign, crashes>>

----------------------------------------------------------------------------
(* apply_candidate                                                         *)

edits == st.fixer_output.edits

ApplyNothing ==
    /\ node = "apply_candidate" /\ step = "idle"
    /\ ~HasEdits(st.fixer_output)
    /\ LET s == [st EXCEPT !.phase = "apply_candidate"]
       IN  Return(s, after_apply(s))
    /\ UNCHANGED <<disk, aux>>

InScope == EditedPaths(edits) \subseteq st.worker_task.scope

ApplyOutOfScope ==
    /\ node = "apply_candidate" /\ step = "idle"
    /\ HasEdits(st.fixer_output)
    /\ ~InScope
    /\ LET s == [st EXCEPT !.phase = "apply_candidate", !.batch_conflict = TRUE,
                           !.last_class = "repair", !.failure_stage = "apply_candidate"]
       IN  Return(s, after_apply(s))
    /\ UNCHANGED <<disk, aux>>

\* The plan is on disk before the first write; a replay finds and keeps it.
ApplyBegins ==
    /\ node = "apply_candidate" /\ step = "idle"
    /\ HasEdits(st.fixer_output)
    /\ InScope
    /\ plans' = IF plans[batch] # NoTree THEN plans
                ELSE [plans EXCEPT ![batch] = snapshot_edit_baseline(snapshots[batch], edits)]
    /\ step' = "apply" /\ todo' = EditedPaths(edits) /\ written' = NoPatch
    /\ UNCHANGED <<node, st, workspace, snapshots, sid, copy, aux>>

\* Mutant: a file found at its target is not counted as this attempt's write.
ReplayForgetsWrites ==
    /\ step = "apply"
    /\ \E p \in Paths :
          /\ IsFirst(p, todo)
          /\ workspace[p] = edits[p]
          /\ todo' = todo \ {p}
    /\ UNCHANGED <<node, st, disk, step, written, sid, copy, aux>>

\* The file has its target content already: an edit of a replayed attempt.
ApplyFindsDone ==
    /\ step = "apply"
    /\ \E p \in Paths :
          /\ IsFirst(p, todo)
          /\ workspace[p] = edits[p]
          /\ written' = [written EXCEPT ![p] = edits[p]]
          /\ todo' = todo \ {p}
    /\ UNCHANGED <<node, st, disk, step, sid, copy, aux>>

\* The next file still holds the parent's content.  Between this look and the
\* write lie consume_tool and an event in SQLite.
ApplyChecks ==
    /\ step = "apply"
    /\ \E p \in Paths :
          IsFirst(p, todo) /\ workspace[p] # edits[p] /\ workspace[p] = plans[batch][p]
    /\ step' = "write" /\ unseen' = {}
    /\ UNCHANGED <<node, st, disk, todo, written, sid, copy, touched, consent, foreign, crashes>>

\* apply_edit's expected_sha256 check.  Without a hash (a file the candidate
\* creates, or patch_hash_strict off) there is no second look.
HashMatches(p) ==
    HashStrict /\ st.fixer_output.base[p] # Absent => workspace[p] = st.fixer_output.base[p]

\* Mutant: apply_edit compares no hash.
WritesUnhashed ==
    /\ step = "write"
    /\ \E p \in Paths :
          /\ IsFirst(p, todo)
          /\ workspace' = [workspace EXCEPT ![p] = edits[p]]
          /\ written' = [written EXCEPT ![p] = edits[p]]
          /\ todo' = todo \ {p}
    /\ step' = "apply"
    /\ UNCHANGED <<node, st, snapshots, plans, sid, copy, aux>>

\* apply_edit; a file that has the candidate's content by now is left alone.
ApplyWrites ==
    /\ step = "write"
    /\ \E p \in Paths :
          /\ IsFirst(p, todo)
          /\ workspace[p] = edits[p] \/ HashMatches(p)
          /\ workspace' = [workspace EXCEPT ![p] = edits[p]]
          /\ written' = [written EXCEPT ![p] = edits[p]]
          /\ todo' = todo \ {p}
    /\ step' = "apply"
    /\ UNCHANGED <<node, st, snapshots, plans, sid, copy, aux>>

\* The handler undoes the writes and hands them to rollback.
ApplyStops(class, wrote) ==
    /\ workspace' = restore_attempt_writes(workspace, plans[batch], wrote)
    /\ LET s == [st EXCEPT !.phase = "apply_candidate", !.batch_conflict = TRUE,
                           !.last_class = class, !.failure_stage = "apply_candidate",
                           !.attempted = TRUE, !.attempt_baseline = plans[batch],
                           !.attempt_written = wrote]
       IN  Return(s, after_apply(s))
    /\ UNCHANGED <<snapshots, plans, aux>>

\* The next file holds neither the parent's nor the candidate's content.
ApplyConflicts ==
    /\ step = "apply"
    /\ \E p \in Paths :
          IsFirst(p, todo) /\ workspace[p] \notin {edits[p], plans[batch][p]}
    /\ ApplyStops("repair", written)

\* consume_tool raises: the path is not in `written' yet.
ApplyOutOfBudget ==
    /\ step = "write"
    /\ ApplyStops("budget", written)

\* apply_edit refuses a stale hash, or the atomic write fails.  The path is in
\* `written' by then.
ApplyEditFails ==
    /\ step = "write"
    /\ \E p \in Paths :
          IsFirst(p, todo) /\ ApplyStops("repair", [written EXCEPT ![p] = edits[p]])

ApplyDone ==
    /\ step = "apply" /\ todo = {}
    /\ LET s == [st EXCEPT !.phase = "apply_candidate", !.attempted = TRUE,
                           !.attempt_baseline = plans[batch], !.attempt_written = written]
       IN  Return(s, after_apply(s))
    /\ UNCHANGED <<disk, aux>>

----------------------------------------------------------------------------
(* verify                                                                  *)

VerifyBegins ==
    /\ node = "verify" /\ step = "idle"
    /\ step' = "verify" /\ sid' = workspace
    /\ UNCHANGED <<node, st, disk, todo, written, copy, aux>>

\* VerificationService.isolated_workspace
VerifyCopies ==
    /\ step = "verify"
    /\ step' = "tested" /\ copy' = workspace
    /\ UNCHANGED <<node, st, disk, todo, written, sid, aux>>

\* A pass needs a green copy; a green one may still fail a supplementary command.
VerificationOutcomes ==
    {outcome \in VerificationStatuses : outcome = "passed" => copy \in Green}

VerifiedAs(outcome) ==
    LET s == [st EXCEPT !.phase = "verify", !.verification = outcome,
                        !.verification_snapshot_id = sid]
    IN  CASE outcome = "passed" ->
                IF contains_workspace_review_bypass(workspace)
                THEN [s EXCEPT !.batch_conflict = TRUE, !.failure_stage = "verify"]
                ELSE s
          [] outcome = "failed" -> [s EXCEPT !.failure_stage = "verify"]
          [] outcome = "incomplete_budget" ->
                [Fail(s, "budget", "verify") EXCEPT
                    !.last_class = "budget", !.budget_failed = TRUE]
          [] outcome = "unavailable" -> Fail(s, "repair", "verify")
          [] OTHER -> Fail(s, "infrastructure", "verify")

VerifyEnds ==
    /\ step = "tested"
    /\ \E outcome \in VerificationOutcomes :
          LET s == VerifiedAs(outcome) IN Return(s, after_verify(s))
    /\ UNCHANGED <<disk, aux>>

----------------------------------------------------------------------------
(* rollback                                                                *)

\* state.failure_stage or state.phase
StageOf == IF st.failure_stage # "none" THEN st.failure_stage ELSE st.phase

\* Mutant: a conflict keeps the verification of what is rolled back.
KeepsVerification ==
    [st EXCEPT !.phase = "rollback", !.batch_conflict = FALSE, !.failure_stage = StageOf,
               !.failed_candidates = IF st.artifact THEN @ \cup {batch} ELSE @]

\* A conflict also discards the verification, which belongs to what is rolled back.
RolledBack ==
    LET s == [st EXCEPT !.phase = "rollback", !.batch_conflict = FALSE,
                        !.failure_stage = StageOf,
                        !.failed_candidates =
                            IF st.artifact THEN @ \cup {batch} ELSE @]
    IN  IF st.batch_conflict
        THEN [s EXCEPT !.verification = "none", !.verification_snapshot_id = NoTree]
        ELSE s

apply_failed == st.phase = "apply_candidate" /\ st.verification = "none"

RollbackAttempt ==
    /\ node = "rollback" /\ step = "idle"
    /\ apply_failed /\ st.attempted
    /\ workspace' = restore_attempt_writes(workspace, st.attempt_baseline, st.attempt_written)
    /\ Return(RolledBack, after_rollback(RolledBack))
    /\ UNCHANGED <<snapshots, plans, aux>>

\* restore_batch_snapshot empties the workspace first...
RollbackClears ==
    /\ node = "rollback" /\ step = "idle"
    /\ ~(apply_failed /\ st.attempted)
    /\ workspace' = EmptyTree
    /\ step' = "restore"
    /\ UNCHANGED <<node, st, snapshots, plans, todo, written, sid, copy, aux>>

\* ... and then copies the snapshot back.
RollbackCopies ==
    /\ step = "restore"
    /\ workspace' = CopyBack(workspace, snapshots[batch])
    /\ Return(RolledBack, after_rollback(RolledBack))
    /\ UNCHANGED <<snapshots, plans, aux>>

\* An error in either half, or in restore_attempt_writes.
RollbackFails ==
    /\ node = "rollback"
    /\ LET s == [Fail(st, "infrastructure", "rollback") EXCEPT !.phase = "rollback"]
       IN  Return(s, after_rollback(s))
    /\ UNCHANGED <<disk, aux>>

----------------------------------------------------------------------------
(* finalize, failed                                                        *)

\* With runtime.defer_success_learning the evaluator records the outcome later;
\* otherwise persist_run_outcome does, and clears the failure fields.
finalize ==
    /\ node = "finalize"
    /\ \E deferred \in BOOLEAN :
          Return(CASE st.decision = "stop" /\ ~formal_success(st, workspace) ->
                        [Fail(st, "repair", StageOf) EXCEPT !.phase = "failed"]
                   [] deferred /\ (st.decision = "stop" => formal_success(st, workspace)) ->
                        [st EXCEPT !.phase = "finalize", !.status = "success"]
                   [] OTHER ->
                        [st EXCEPT !.phase = "finalize", !.status = "success",
                                   !.failure_class = "none", !.failure_stage = "none"],
                 "end")
    /\ UNCHANGED <<disk, aux>>

\* The last test, on the wording of failure_reason, is left out: a reason that is
\* recorded without a class names no budget.
resolve_failure_class ==
    CASE st.failure_class # "none" -> st.failure_class
      [] st.failure_class = "none" /\ st.verification = "incomplete_budget" -> "budget"
      [] st.failure_class = "none" /\ st.verification = "incomplete_execution" ->
            "infrastructure"
      [] OTHER -> IF st.last_class # "none" THEN st.last_class ELSE "repair"

failed ==
    /\ node = "failed"
    /\ Return([Fail(st, resolve_failure_class, StageOf) EXCEPT !.phase = "failed"], "end")
    /\ UNCHANGED <<disk, aux>>

----------------------------------------------------------------------------
(* The environment.                                                        *)

\* Somebody else writes a workspace file.
ForeignEdit ==
    /\ node # "end"
    /\ foreign < MaxForeignEdits
    /\ \E p \in Paths, c \in Content :
          /\ workspace[p] # c
          /\ workspace' = [workspace EXCEPT ![p] = c]
          /\ touched' = touched \cup {p}
          /\ unseen' = IF step = "write" THEN unseen \cup {p} ELSE unseen
    /\ foreign' = foreign + 1
    /\ UNCHANGED <<node, st, snapshots, plans, local, consent, crashes>>

\* The process dies inside a node; `evoci resume' starts that node again.
Crash ==
    /\ crashes < MaxCrashes
    /\ step # "idle"
    /\ step = "copy" /\ todo # {} => CopyCrashes
    /\ Idle
    /\ crashes' = crashes + 1
    /\ UNCHANGED <<node, st, disk, touched, unseen, consent, foreign>>

\* Cancellation, Ctrl-C or an unexpected exception: the handlers of
\* apply_candidate and verify undo their work and re-raise.
Cancel ==
    /\ crashes < MaxCrashes
    /\ \/ /\ step \in {"apply", "write"}
          /\ workspace' = restore_attempt_writes(workspace, plans[batch], written)
       \/ /\ step \in {"verify", "tested"}
          /\ workspace' = snapshots[batch]
    /\ Idle
    /\ crashes' = crashes + 1
    /\ UNCHANGED <<node, st, snapshots, plans, touched, unseen, consent, foreign>>

----------------------------------------------------------------------------
Init ==
    /\ node = "bootstrap"
    /\ st = InitialState
    /\ workspace = Head
    /\ snapshots = [b \in Batches |-> NoTree]
    /\ plans = [b \in Batches |-> NoTree]
    /\ step = "idle" /\ todo = {} /\ written = NoPatch /\ sid = NoTree /\ copy = NoTree
    /\ touched = {} /\ unseen = {} /\ consent = 0 /\ foreign = 0 /\ crashes = 0

Supervise == SuperviseOutOfBatches \/ SuperviseError \/ SuperviseDecides
PrepareTask ==
    \/ PrepareOutOfBudget \/ PrepareRejects \/ PrepareReuses \/ PrepareBegins
    \/ PrepareCopies \/ PrepareSaves \/ PrepareCopyFails
Worker == WorkerProposes \/ WorkerReportsNoEdit \/ WorkerExhausted \/ WorkerModelError
Approval == ApprovalNotNeeded \/ ApprovalAnswered
ApplyCandidate ==
    \/ ApplyNothing \/ ApplyOutOfScope \/ ApplyBegins \/ ApplyFindsDone \/ ApplyChecks
    \/ ApplyWrites \/ ApplyConflicts \/ ApplyOutOfBudget \/ ApplyEditFails \/ ApplyDone
Verify == VerifyBegins \/ VerifyCopies \/ VerifyEnds
Rollback == RollbackAttempt \/ RollbackClears \/ RollbackCopies \/ RollbackFails

\* What the driver (`evoci fix', `evoci resume') does; Environment is not fair.
Graph ==
    \/ bootstrap \/ retrieve_context \/ Supervise \/ PrepareTask \/ Worker
    \/ Approval \/ ApplyCandidate \/ Verify \/ Rollback \/ finalize \/ failed

Environment == ForeignEdit \/ Crash \/ Cancel

Done == node = "end" /\ UNCHANGED vars

Next == Graph \/ Environment \/ Done

Spec == Init /\ [][Next]_vars

\* The driver keeps invoking the graph, and a waiting approval is answered.
FairSpec == Spec /\ WF_vars(Graph)
----------------------------------------------------------------------------
(* The inductive invariant behind the safety theorems.                     *)

\* Which step runs in which node, and what is on disk by then.  The first two
\* parts make supervise's and prepare_task's early returns for a failed or
\* undispatched state unreachable.
ControlInv ==
    /\ node \in {"retrieve_context", "supervise"} => st.status = "running"
    /\ node \in {"prepare_task", "worker", "approval", "apply_candidate", "verify", "rollback"}
         => batch \in Batches /\ st.decision = "dispatch" /\ st.tasks # NoTask
    /\ node \in {"worker", "approval", "apply_candidate", "verify", "rollback"}
         => st.worker_task = st.tasks /\ snapshots[batch] # NoTree
    /\ node \in {"approval", "apply_candidate", "verify", "rollback"}
         => st.worker_task.kind = "repair"
    /\ step = "copy" => node = "prepare_task" /\ snapshots[batch] # NoTree
    /\ step \in {"apply", "write"} => node = "apply_candidate" /\ plans[batch] # NoTree /\ edits # NoPatch
    /\ step \in {"verify", "tested"} => node = "verify"
    /\ step = "restore" => node = "rollback"

\* A pass is consumed at once: by success, or by the governance rollback.
PassInv ==
    /\ st.verification = "passed" =>
         \/ node \in {"finalize", "end"}
         \/ node = "rollback" /\ st.batch_conflict
         \/ node = "failed" /\ st.status = "failed"
    /\ st.status = "success" => node = "end"

\* Outside the files a third party wrote, the snapshot id, the tested copy and
\* the workspace are the same tree while verification runs.
TestedInv ==
    /\ step \in {"verify", "tested"} =>
         sid \in Tree /\ \A p \in Paths \ touched : sid[p] = workspace[p]
    /\ step = "tested" =>
         copy \in Tree /\ \A p \in Paths \ touched : copy[p] = workspace[p]

AcceptedInv ==
    node = "finalize" \/ st.status = "success" =>
        /\ st.decision = "dispatch" /\ st.worker_task = st.tasks
        /\ st.worker_task.kind = "repair" /\ st.verification = "passed"
        /\ \E tree \in Green : \A p \in Paths \ touched :
              workspace[p] = tree[p] /\ st.verification_snapshot_id[p] = tree[p]
        /\ \A p \in Paths \ touched : workspace[p] \in Bypass => workspace[p] = Head[p]

ConsentInv ==
    node = "apply_candidate" /\ HasEdits(st.fixer_output) /\ requires_approval(st.fixer_output)
        => consent = batch

\* The plan of the batch being applied is the parent's content of its files.
PlanInv ==
    /\ \A b \in Batches : b > batch => plans[b] = NoTree
    /\ node \in {"prepare_task", "worker", "approval"} => plans[batch] = NoTree
    /\ node = "apply_candidate" /\ plans[batch] # NoTree =>
         plans[batch] = snapshot_edit_baseline(snapshots[batch], edits)
    /\ step \in {"apply", "write"} =>
         /\ todo \subseteq EditedPaths(edits)
         /\ EditedPaths(edits) \subseteq st.worker_task.scope
         /\ \A p \in Paths : written[p] \in {Keep, edits[p]}
    /\ step = "write" => \E p \in Paths :
         /\ IsFirst(p, todo)
         /\ p \notin unseen => workspace[p] # edits[p] /\ workspace[p] = plans[batch][p]

RepairInv ==
    /\ TypeOK /\ ControlInv /\ PassInv /\ TestedInv /\ AcceptedInv /\ ConsentInv /\ PlanInv

----------------------------------------------------------------------------
(* The inductive invariant behind the clean workspace.                     *)

\* No crash or cancellation; or one of them, outside a snapshot copy, and nobody
\* else writes.
Calm == crashes = 0 \/ (~CopyCrashes /\ foreign = 0 /\ crashes <= 1)

Untouched == Paths \ touched
Pristine == \A p \in Untouched : workspace[p] = Head[p]

\* No trace, or a run whose end says why there may be one: verification had no
\* verdict (after_verify then keeps the candidate), or rollback failed.
CleanOrReported ==
    \/ Pristine
    \/ st.verification \in {"infra_error", "inconclusive"}
    \/ st.failure_stage = "rollback"

\* The bookkeeping that does not depend on the content of files.
ProgressInv ==
    /\ foreign = 0 => touched = {}
    /\ \A b \in Batches : b > batch => snapshots[b] = NoTree
    /\ node \in {"prepare_task", "worker", "approval", "apply_candidate", "verify"}
         => st.status = "running"
    /\ node \in {"worker", "approval", "apply_candidate"} => ~st.batch_conflict
    /\ step \notin {"copy", "apply", "write"} => todo = {}
    /\ step \in {"apply", "write"} =>
         \A q \in EditedPaths(edits) : q \notin todo =>
            written[q] = edits[q] /\ \A p \in todo : q < p
    /\ step = "restore" => ~(apply_failed /\ st.attempted)

\* The snapshot of the batch is the tree the run started from.
SnapshotClean ==
    /\ node = "prepare_task" /\ snapshots[batch] # NoTree =>
         \A p \in Untouched \ todo : snapshots[batch][p] = Head[p]
    /\ node \in {"worker", "approval", "apply_candidate", "verify", "rollback"} =>
         \A p \in Untouched : snapshots[batch][p] = Head[p]

\* While a candidate is applied, the files it has written come first.
ApplyClean ==
    node = "apply_candidate" =>
        /\ \A p \in Untouched : workspace[p] # Head[p] => workspace[p] = edits[p] /\ InScope
        /\ \A p, q \in Untouched \cap EditedPaths(edits) :
              p < q /\ workspace[q] # Head[q] => workspace[p] = edits[p]
        /\ step \in {"apply", "write"} => \A p \in Untouched \cap EditedPaths(edits) :
              p \notin todo => workspace[p] = edits[p]
        /\ crashes = 0 => \A p \in Untouched :
              workspace[p] # Head[p] => step \in {"apply", "write"} /\ p \notin todo

\* What rollback starts from, and what it puts back.
RollbackClean ==
    /\ node = "rollback" /\ step = "idle" /\ apply_failed /\ st.attempted => Pristine
    /\ step = "restore" => \A p \in Untouched : workspace[p] = Absent
    /\ \A p \in Untouched : st.attempt_written[p] # Keep => st.attempt_baseline[p] = Head[p]

CleanInv ==
    /\ ProgressInv
    /\ Calm =>
         /\ SnapshotClean /\ ApplyClean /\ RollbackClean
         /\ node \in {"bootstrap", "retrieve_context", "supervise", "prepare_task", "worker",
                       "approval"} => Pristine
         /\ node = "failed" \/ (node = "end" /\ st.status = "failed") => CleanOrReported

----------------------------------------------------------------------------
(* Properties.                                                             *)

\* Whenever the Supervisor or a Worker looks at the workspace, no rejected
\* candidate has left a trace in it: a file differs from the commit the run
\* started from only if a third party wrote it.  (apply_candidate, verify and
\* rollback together, over every earlier batch.)  It survives third-party edits,
\* or a crash or cancellation, but not both in one run (ConflictUndoesTheAttempt),
\* not a crash inside a snapshot copy (RollbackRestoresParent), and not a crash
\* between two writes whose replay is cancelled.
RejectedLeavesNoTrace ==
    Calm /\ node \in {"supervise", "prepare_task", "worker", "approval"} => Pristine

\* A failed run gives the workspace back as it found it, unless verification
\* had no verdict (after_verify then keeps the candidate) or rollback failed.
FailedRunIsClean ==
    Calm /\ node = "end" /\ st.status = "failed" => CleanOrReported

\* A successful run ends in a tree on which CI passes, except for files a third
\* party wrote; the pass was recorded in this run for that tree (finalize).
VerifiedSuccess ==
    st.status = "success" =>
        /\ st.verification = "passed"
        /\ \E tree \in Green : \A p \in Paths \ touched :
              workspace[p] = tree[p] /\ st.verification_snapshot_id[p] = tree[p]

\* A successful run adds no test or CI bypass of its own to the final diff.
NoBypassInSuccess ==
    st.status = "success" =>
        ~ \E p \in Paths \ touched : workspace[p] \in Bypass /\ workspace[p] # Head[p]

\* Success comes only from a repair task of the batch whose verification passed;
\* the Supervisor's own "stop" never makes a run successful (after_supervise).
SuccessOnlyByRepair ==
    node = "finalize" =>
        st.decision = "dispatch" /\ st.worker_task = st.tasks /\ st.worker_task.kind = "repair"

HarnessStep == foreign' = foreign

\* apply_candidate, its conflict handler and its replays change only files of
\* the dispatched write scope, and replace only the parent's content by the
\* candidate's or back.  The exception is what a third party writes to the one
\* file that is written next, after the handler looked at it, and only where
\* apply_edit's hash does not tell (ApplyLosesNoEdit).
ApplyKeepsForeignContent ==
    [][node = "apply_candidate" /\ HarnessStep =>
         \A p \in Paths : workspace'[p] # workspace[p] =>
            /\ p \in st.worker_task.scope
            /\ \/ {workspace[p], workspace'[p]} = {snapshots[batch][p], edits[p]}
               \/ /\ step = "write" /\ IsFirst(p, todo) /\ p \in unseen
                  /\ HashMatches(p) /\ workspace'[p] = edits[p]]_vars

\* A candidate that needs approval reaches the workspace only in the batch in
\* which a human approved it, also when it is replayed or proposed again.
ApprovedBeforeWrite ==
    [][node = "apply_candidate" /\ HarnessStep /\ workspace' # workspace
         => (requires_approval(st.fixer_output) => consent = batch)]_vars

\* Every run ends, whatever the Supervisor, the Worker and CI answer, once the
\* crashes stop and the run is resumed.
Terminates == <>(node = "end")

\* "Apply conflicts restore only this attempt's writes so third-party edits are
\* left in place": rollback after a conflict of this batch's apply destroys only
\* content that the parent snapshot holds too or that this attempt wrote.
ConflictKeepsForeignEdits ==
    [][node = "rollback" /\ st.phase = "apply_candidate" /\ plans[batch] # NoTree /\ HarnessStep =>
         \A p \in Paths : workspace'[p] # workspace[p] =>
            \/ workspace[p] = snapshots[batch][p]
            \/ st.attempt_written[p] # Keep /\ workspace[p] = st.attempt_written[p]]_vars

\* "file changed since proposal" is a conflict: apply_candidate replaces only the
\* content that the plan recorded.
ApplyLosesNoEdit ==
    [][step = "write" /\ HarnessStep =>
         \A p \in todo : workspace'[p] # workspace[p] => workspace[p] = plans[batch][p]]_vars

\* "Verification failure restores the parent snapshot": a completed rollback
\* leaves the files as the batch found them (checked with CopyCrashes).
RollbackRestoresParent ==
    node = "supervise" /\ st.phase = "rollback" => Pristine

\* "Replay treats files already at the target as done": after a conflict nothing
\* of the attempt is left for rollback, also when a crash came between two of its
\* writes.
ConflictUndoesTheAttempt ==
    node = "rollback" /\ step = "idle" /\ apply_failed /\ st.attempted => Pristine

\* "Repair results are applied, then formally verified": the tree that is
\* verified holds the candidate, except where a third party wrote.
VerifiesTheCandidate ==
    node = "verify" /\ step = "tested" =>
        \A p \in EditedPaths(edits) \ touched : copy[p] = edits[p]

\* "Repair results are applied": what a batch applies is what its own Worker
\* produced, not the candidate of an earlier, rolled back batch.
AppliesThisBatchesResult ==
    step \in {"apply", "write"} => st.fixer_output.batch = batch
=============================================================================
