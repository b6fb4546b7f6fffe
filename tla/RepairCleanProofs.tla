------------------------- MODULE RepairCleanProofs -------------------------
(***************************************************************************)
(* Proofs that the repair graph leaves no trace of a rejected candidate    *)
(* (RejectedLeavesNoTrace, FailedRunIsClean), for every set of files,      *)
(* contents, tasks and proposals and any number of batches, third-party    *)
(* edits, crashes and cancellations.  RepairInv is known to hold before    *)
(* and after each step; CleanInv is inductive with it.                     *)
(***************************************************************************)
EXTENDS RepairGraphProofs

\* The nodes whose promises rest on the batch's snapshot.
Snapshotted == {"worker", "approval", "apply_candidate", "verify", "rollback"}

\* The nodes that start with the workspace as the run found it.
Untroubled == {"bootstrap", "retrieve_context", "supervise", "prepare_task", "worker",
               "approval", "apply_candidate"}

\* The restore of a failed attempt may rely on the baseline it is given.
BaselineIsHead(s) ==
    \A p \in Untouched : s.attempt_written[p] # Keep => s.attempt_baseline[p] = Head[p]

\* What a node that returns has to leave behind.
LEMMA ReturnClean ==
  ASSUME RepairInv, CleanInv, RepairInv', NEW s, NEW n, Return(s, n),
         UNCHANGED <<snapshots, touched, foreign, crashes>>,
         s.supervisor_batch >= batch,
         n \in {"prepare_task", "worker", "approval", "apply_candidate", "verify"}
           => s.status # "failed",
         n \in {"worker", "approval", "apply_candidate"} => ~s.batch_conflict,
         n = "prepare_task" => snapshots[s.supervisor_batch] = NoTree,
         Calm /\ n \in Untroubled => Pristine',
         Calm /\ n \in Snapshotted =>
           \A p \in Untouched : snapshots[s.supervisor_batch][p] = Head[p],
         Calm /\ n = "rollback" /\ s.phase = "apply_candidate" /\ s.verification = "none"
           /\ s.attempted => Pristine',
         Calm => BaselineIsHead(s),
         Calm /\ (n = "failed" \/ (n = "end" /\ s.status = "failed")) =>
           \/ Pristine'
           \/ s.verification \in {"infra_error", "inconclusive"}
           \/ s.failure_stage = "rollback"
  PROVE  CleanInv'
  <1>1. /\ st' = s /\ node' = n /\ step' = "idle" /\ todo' = {} /\ touched' = touched
        /\ snapshots' = snapshots /\ batch' = s.supervisor_batch
        /\ crashes' = crashes /\ foreign' = foreign
    BY DEF Return, Idle, batch
  <1>2. Untouched' = Untouched /\ Calm' = Calm
    BY <1>1 DEF Untouched, Calm
  <1>3. batch \in Int /\ batch' \in Int
    BY ConstantsAssumption DEF RepairInv, TypeOK, EvoCIState, batch
  <1>4. ProgressInv'
    <2>1. /\ foreign' = 0 => touched' = {}
          /\ \A b \in Batches : b > batch => snapshots[b] = NoTree
      BY <1>1 DEF CleanInv, ProgressInv
    <2>2. \A b \in Batches : b > batch' => snapshots'[b] = NoTree
      BY <1>1, <1>3, <2>1, ConstantsAssumption DEF Batches
    <2>3. st'.status \in {"running", "failed", "success"} /\ (st'.status = "success" => node' = "end")
      BY DEF RepairInv, TypeOK, EvoCIState, PassInv
    <2> QED BY <1>1, <2>1, <2>2, <2>3 DEF ProgressInv
  <1>5. Calm => SnapshotClean'
    BY <1>1, <1>2 DEF SnapshotClean, Snapshotted
  <1>6. Calm => ApplyClean'
    BY <1>1, <1>2 DEF ApplyClean, Pristine, Untroubled
  <1>7. Calm => RollbackClean'
    BY <1>1, <1>2 DEF RollbackClean, apply_failed, BaselineIsHead
  <1>8. Calm /\ node' \in {"bootstrap", "retrieve_context", "supervise", "prepare_task",
                            "worker", "approval"} => Pristine'
    BY <1>1 DEF Untroubled
  <1>9. Calm /\ (node' = "failed" \/ (node' = "end" /\ st'.status = "failed"))
          => CleanOrReported'
    BY <1>1 DEF CleanOrReported
  <1> QED BY <1>2, <1>4, <1>5, <1>6, <1>7, <1>8, <1>9 DEF CleanInv

\* A node that found the workspace clean and writes no file keeps it clean.
LEMMA QuietClean ==
  ASSUME RepairInv, CleanInv, RepairInv', NEW s, NEW n, Return(s, n),
         UNCHANGED disk, UNCHANGED <<touched, foreign, crashes>>, Calm => Pristine,
         s.supervisor_batch >= batch,
         s.attempt_written = st.attempt_written, s.attempt_baseline = st.attempt_baseline,
         n \in {"prepare_task", "worker", "approval", "apply_candidate", "verify"}
           => s.status # "failed",
         n \in {"worker", "approval", "apply_candidate"} => ~s.batch_conflict,
         n = "prepare_task" => snapshots[s.supervisor_batch] = NoTree,
         n \in Snapshotted =>
           /\ s.supervisor_batch = batch
           /\ \/ node \in Snapshotted
              \/ node = "prepare_task" /\ snapshots[batch] # NoTree /\ todo = {}
  PROVE  CleanInv'
  <1>1. /\ UNCHANGED <<snapshots, touched, foreign, crashes>> /\ workspace' = workspace
    BY DEF disk
  <1>2. Calm => Pristine'
    BY <1>1 DEF Pristine, Untouched
  <1>3. Calm /\ n \in Snapshotted => \A p \in Untouched : snapshots[s.supervisor_batch][p] = Head[p]
    BY DEF CleanInv, SnapshotClean, Snapshotted
  <1>4. Calm => BaselineIsHead(s)
    BY DEF CleanInv, RollbackClean, BaselineIsHead
  <1> QED BY <1>1, <1>2, <1>3, <1>4, ReturnClean

\* What CleanInv says at the nodes before apply_candidate.
LEMMA BeforeApply ==
  ASSUME RepairInv, CleanInv
  PROVE  /\ EvoCIState(st) /\ st.supervisor_batch = batch /\ batch \in Int
         /\ MaxBatches \in Int
         /\ node \in Untroubled \ {"apply_candidate"} => (Calm => Pristine)
         /\ node \in {"prepare_task", "worker", "approval", "apply_candidate"}
              => st.status = "running"
         /\ node \in {"worker", "approval", "apply_candidate"} => ~st.batch_conflict
  BY Running, ConstantsAssumption DEF CleanInv, ProgressInv, Untroubled

\* bootstrap, retrieve_context and supervise write no file.
LEMMA SuperviseClean ==
  ASSUME RepairInv, CleanInv, RepairInv', bootstrap \/ retrieve_context \/ Supervise
  PROVE  CleanInv'
  <1>0. /\ EvoCIState(st) /\ st.supervisor_batch = batch /\ batch \in Int
        /\ MaxBatches \in Int /\ NextBatch = batch + 1
    BY BeforeApply DEF NextBatch
  <1>a. /\ node \in {"bootstrap", "retrieve_context", "supervise"}
        /\ UNCHANGED disk /\ UNCHANGED <<touched, foreign, crashes>>
    BY DEF bootstrap, retrieve_context, Supervise, SuperviseOutOfBatches, SuperviseError,
           SuperviseDecides, aux
  <1>b. Calm => Pristine
    BY <1>a, BeforeApply DEF Untroubled
  <1>1. CASE bootstrap
    <2> DEFINE s == [st EXCEPT !.phase = "bootstrap", !.status = "running"]
    <2>1. /\ s.supervisor_batch = batch /\ s.attempt_written = st.attempt_written
          /\ s.attempt_baseline = st.attempt_baseline
      BY <1>0, StateDomain
    <2>2. Return(s, "retrieve_context")
      BY <1>1 DEF bootstrap
    <2> HIDE DEF s
    <2> QED BY <2>1, <2>2, <1>0, <1>a, <1>b, QuietClean DEF Snapshotted
  <1>2. CASE retrieve_context
    <2> DEFINE s == [st EXCEPT !.phase = "retrieve_context"]
    <2>1. /\ s.supervisor_batch = batch /\ s.attempt_written = st.attempt_written
          /\ s.attempt_baseline = st.attempt_baseline
      BY <1>0, StateDomain
    <2>2. Return(s, "supervise")
      BY <1>2 DEF retrieve_context
    <2> HIDE DEF s
    <2> QED BY <2>1, <2>2, <1>0, <1>a, <1>b, QuietClean DEF Snapshotted
  <1>3. CASE SuperviseOutOfBatches
    <2> DEFINE s == [Fail(st, "budget", "supervise") EXCEPT !.phase = "supervise"]
    <2>1. /\ s.supervisor_batch = batch /\ s.attempt_written = st.attempt_written
          /\ s.attempt_baseline = st.attempt_baseline /\ s.status = "failed"
      BY <1>0, StateDomain DEF Fail
    <2>2. Return(s, after_supervise(s))
      BY <1>3 DEF SuperviseOutOfBatches
    <2> HIDE DEF s
    <2>3. after_supervise(s) = "failed"
      BY <2>1 DEF after_supervise
    <2> QED BY <2>1, <2>2, <2>3, <1>0, <1>a, <1>b, QuietClean DEF Snapshotted
  <1>4. CASE SuperviseError
    <2>1. PICK class \in {"budget", "model"} :
            LET s == [Fail(st, class, "supervise") EXCEPT
                         !.phase = "supervise", !.supervisor_batch = NextBatch]
            IN  Return(s, after_supervise(s))
      BY <1>4 DEF SuperviseError
    <2> DEFINE s == [Fail(st, class, "supervise") EXCEPT
                        !.phase = "supervise", !.supervisor_batch = NextBatch]
    <2>2. /\ s.supervisor_batch = NextBatch /\ s.attempt_written = st.attempt_written
          /\ s.attempt_baseline = st.attempt_baseline /\ s.status = "failed"
      BY <1>0, StateDomain DEF Fail
    <2>3. Return(s, after_supervise(s))
      BY <2>1
    <2> HIDE DEF s
    <2>4. after_supervise(s) = "failed" /\ s.supervisor_batch >= batch
      BY <2>2, <1>0 DEF after_supervise
    <2> QED BY <2>2, <2>3, <2>4, <1>a, <1>b, QuietClean DEF Snapshotted
  <1>5. CASE SuperviseDecides
    <2>1. PICK task \in Dispatches \cup {NoTask} :
            LET s == [st EXCEPT !.phase = "supervise", !.supervisor_batch = NextBatch,
                         !.decision = IF task = NoTask THEN "stop" ELSE "dispatch",
                         !.tasks = task, !.batch_conflict = FALSE]
            IN  Return(s, after_supervise(s))
      BY <1>5 DEF SuperviseDecides
    <2> DEFINE s == [st EXCEPT !.phase = "supervise", !.supervisor_batch = NextBatch,
                        !.decision = IF task = NoTask THEN "stop" ELSE "dispatch",
                        !.tasks = task, !.batch_conflict = FALSE]
    <2>2. /\ s.supervisor_batch = NextBatch /\ s.attempt_written = st.attempt_written
          /\ s.attempt_baseline = st.attempt_baseline /\ s.status = st.status
      BY <1>0, StateDomain
    <2>3. Return(s, after_supervise(s))
      BY <2>1
    <2> HIDE DEF s
    <2>4. s.supervisor_batch >= batch /\ after_supervise(s) \notin Snapshotted
      BY <2>2, <1>0, EdgeTypes DEF Snapshotted
    <2>5. node = "supervise" /\ NextBatch <= MaxBatches
      BY <1>5 DEF SuperviseDecides
    <2>6. s.status # "failed"
      BY <2>2, <2>5 DEF RepairInv, ControlInv
    <2>7. batch >= 0 /\ \A b \in Batches : b > batch => snapshots[b] = NoTree
      BY <1>0 DEF CleanInv, ProgressInv, RepairInv, TypeOK, EvoCIState
    <2>8. snapshots[s.supervisor_batch] = NoTree
      BY <2>2, <2>5, <2>7, <1>0 DEF Batches
    <2>9. after_supervise(s) \notin {"worker", "approval", "apply_candidate"}
      BY EdgeTypes
    <2> QED BY <2>2, <2>3, <2>4, <2>6, <2>8, <2>9, <1>a, <1>b, QuietClean
  <1> QED BY <1>1, <1>2, <1>3, <1>4, <1>5 DEF Supervise

\* prepare_task hands over with a snapshot of the clean workspace.
LEMMA PreparedClean ==
  ASSUME RepairInv, CleanInv, RepairInv', node = "prepare_task", snapshots[batch] # NoTree,
         todo = {}, Prepared, UNCHANGED <<disk, aux>>
  PROVE  CleanInv'
  <1>0. EvoCIState(st) /\ st.supervisor_batch = batch /\ batch \in Int /\ st.status = "running"
    BY BeforeApply
  <1>1. /\ UNCHANGED disk /\ UNCHANGED <<touched, foreign, crashes>> /\ (Calm => Pristine)
    BY BeforeApply DEF aux, Untroubled
  <1> DEFINE s == [st EXCEPT !.phase = "prepare_task", !.worker_task = st.tasks,
                             !.batch_conflict = FALSE, !.approved = "none"]
  <1>2. /\ s.supervisor_batch = batch /\ s.attempt_written = st.attempt_written
        /\ s.attempt_baseline = st.attempt_baseline /\ s.status = "running"
        /\ s.batch_conflict = FALSE
    BY <1>0, StateDomain
  <1>3. Return(s, after_prepare(s))
    BY DEF Prepared
  <1> HIDE DEF s
  <1> DEFINE n == after_prepare(s)
  <1>4. n # "prepare_task" /\ Return(s, n)
    BY <1>3, EdgeTypes
  <1> HIDE DEF n
  <1> QED BY <1>0, <1>1, <1>2, <1>4, QuietClean

\* The copy of the batch's snapshot starts empty and takes clean files only.
LEMMA CopyClean ==
  ASSUME RepairInv, CleanInv, RepairInv', PrepareBegins \/ PrepareCopies
  PROVE  CleanInv'
  <1>1. /\ UNCHANGED <<node, st, workspace, touched, foreign, crashes>> /\ step' = "copy"
        /\ node = "prepare_task"
    BY DEF PrepareBegins, PrepareCopies, RepairInv, ControlInv, aux
  <1>2. /\ batch' = batch /\ batch \in Batches /\ Batches \subseteq Int
        /\ Untouched' = Untouched /\ Calm' = Calm /\ Pristine' = Pristine
        /\ CleanOrReported' = CleanOrReported
    BY <1>1, ConstantsAssumption
       DEF batch, Untouched, Calm, Pristine, CleanOrReported, Batches, RepairInv, ControlInv
  <1>3. snapshots \in [Batches -> Tree \cup {NoTree}] /\ workspace \in Tree
    BY DEF RepairInv, TypeOK
  <1>4. \A b \in Batches : b # batch => snapshots'[b] = snapshots[b]
    BY <1>3 DEF PrepareBegins, PrepareCopies
  <1>5. ProgressInv'
    <2>1. /\ foreign = 0 => touched = {}
          /\ \A b \in Batches : b > batch => snapshots[b] = NoTree
          /\ st.status = "running"
      BY <1>1 DEF CleanInv, ProgressInv
    <2>2. \A b \in Batches : b > batch' => snapshots'[b] = NoTree
      BY <2>1, <1>2, <1>4
    <2> QED BY <2>1, <2>2, <1>1 DEF ProgressInv
  <1>6. ASSUME Calm PROVE SnapshotClean'
    <2>1. CASE PrepareBegins
      BY <2>1, <1>1 DEF PrepareBegins, SnapshotClean, Untouched
    <2>2. CASE PrepareCopies
      <3>1. PICK p \in Paths : /\ snapshots' = [snapshots EXCEPT ![batch][p] = workspace[p]]
                               /\ todo' = todo \ {p}
        BY <2>2 DEF PrepareCopies
      <3>2. /\ snapshots[batch] \in Tree /\ snapshots[batch] # NoTree
        BY <2>2, <1>2, <1>3 DEF PrepareCopies, RepairInv, ControlInv
      <3>3. snapshots'[batch] = [snapshots[batch] EXCEPT ![p] = workspace[p]]
        BY <3>1, <1>2, <1>3
      <3>4. \A q \in Untouched \ todo : snapshots[batch][q] = Head[q]
        BY <1>1, <1>6, <3>2 DEF CleanInv, SnapshotClean
      <3>5. Pristine
        BY <1>1, <1>6 DEF CleanInv
      <3>6. \A q \in Untouched \ todo' : snapshots'[batch][q] = Head[q]
        BY <3>1, <3>2, <3>3, <3>4, <3>5 DEF Tree, Pristine, Untouched
      <3> QED BY <3>6, <1>1, <1>2 DEF SnapshotClean
    <2> QED BY <2>1, <2>2
  <1>7. ASSUME Calm PROVE ApplyClean' /\ RollbackClean'
    BY <1>1, <1>2, <1>7 DEF CleanInv, ApplyClean, RollbackClean
  <1>8. Calm => Pristine
    BY <1>1 DEF CleanInv
  <1> QED BY <1>1, <1>2, <1>5, <1>6, <1>7, <1>8 DEF CleanInv

\* prepare_task writes nothing but its snapshot.
LEMMA PrepareClean ==
  ASSUME RepairInv, CleanInv, RepairInv', PrepareTask
  PROVE  CleanInv'
  <1>a. node = "prepare_task"
    BY DEF PrepareTask, PrepareOutOfBudget, PrepareRejects, PrepareReuses, PrepareBegins,
           PrepareCopies, PrepareSaves, PrepareCopyFails, RepairInv, ControlInv
  <1>0. EvoCIState(st) /\ st.supervisor_batch = batch /\ batch \in Int /\ MaxBatches \in Int
    BY BeforeApply
  <1>b. Calm => Pristine
    BY <1>a, BeforeApply DEF Untroubled
  <1>1. CASE PrepareOutOfBudget
    <2> DEFINE s == [Fail(st, "budget", "worker") EXCEPT
                        !.last_class = "budget", !.budget_failed = TRUE]
    <2>1. /\ s.supervisor_batch = batch /\ s.attempt_written = st.attempt_written
          /\ s.attempt_baseline = st.attempt_baseline /\ s.status = "failed"
      BY <1>0, StateDomain DEF Fail
    <2>2. /\ Return(s, after_prepare(s)) /\ UNCHANGED disk
          /\ UNCHANGED <<touched, foreign, crashes>>
      BY <1>1 DEF PrepareOutOfBudget, aux
    <2> HIDE DEF s
    <2>3. after_prepare(s) = "failed"
      BY <2>1 DEF after_prepare
    <2> QED BY <2>1, <2>2, <2>3, <1>0, <1>b, QuietClean DEF Snapshotted
  <1>2. CASE PrepareRejects
    <2>0. UNCHANGED disk /\ UNCHANGED <<touched, foreign, crashes>>
      BY <1>2 DEF PrepareRejects, aux
    <2>1. CASE batch < MaxBatches
      <3> DEFINE s == [st EXCEPT !.phase = "prepare_task", !.batch_conflict = TRUE,
                                 !.worker_task = NoTask]
      <3>1. /\ s.supervisor_batch = batch /\ s.attempt_written = st.attempt_written
            /\ s.attempt_baseline = st.attempt_baseline /\ s.batch_conflict
        BY <1>0, StateDomain
      <3>2. Return(s, after_prepare(s))
        BY <1>2, <2>1 DEF PrepareRejects
      <3> HIDE DEF s
      <3>3. after_prepare(s) \in {"failed", "supervise"}
        BY <3>1 DEF after_prepare
      <3> QED BY <3>1, <3>2, <3>3, <2>0, <1>0, <1>b, QuietClean DEF Snapshotted
    <2>2. CASE ~(batch < MaxBatches)
      <3> DEFINE s == Fail(st, "repair", "prepare_task")
      <3>1. /\ s.supervisor_batch = batch /\ s.attempt_written = st.attempt_written
            /\ s.attempt_baseline = st.attempt_baseline /\ s.status = "failed"
        BY <1>0, StateDomain DEF Fail
      <3>2. Return(s, after_prepare(s))
        BY <1>2, <2>2 DEF PrepareRejects
      <3> HIDE DEF s
      <3>3. after_prepare(s) = "failed"
        BY <3>1 DEF after_prepare
      <3> QED BY <3>1, <3>2, <3>3, <2>0, <1>0, <1>b, QuietClean DEF Snapshotted
    <2> QED BY <2>1, <2>2
  <1>3. CASE PrepareReuses
    <2>1. todo = {}
      BY <1>3 DEF PrepareReuses, CleanInv, ProgressInv
    <2> QED BY <1>3, <1>a, <2>1, PreparedClean DEF PrepareReuses
  <1>4. CASE PrepareBegins \/ PrepareCopies
    BY <1>4, CopyClean
  <1>5. CASE PrepareSaves
    BY <1>5, <1>a, PreparedClean DEF PrepareSaves, RepairInv, ControlInv
  <1>6. CASE PrepareCopyFails
    <2> DEFINE s == Fail(st, "infrastructure", "prepare_task")
    <2>1. /\ s.supervisor_batch = batch /\ s.attempt_written = st.attempt_written
          /\ s.attempt_baseline = st.attempt_baseline /\ s.status = "failed"
      BY <1>0, StateDomain DEF Fail
    <2>2. /\ Return(s, after_prepare(s)) /\ UNCHANGED disk
          /\ UNCHANGED <<touched, foreign, crashes>>
      BY <1>6 DEF PrepareCopyFails, aux
    <2> HIDE DEF s
    <2>3. after_prepare(s) = "failed"
      BY <2>1 DEF after_prepare
    <2> QED BY <2>1, <2>2, <2>3, <1>0, <1>b, QuietClean DEF Snapshotted
  <1> QED BY <1>1, <1>2, <1>3, <1>4, <1>5, <1>6 DEF PrepareTask

\* Whatever the Worker reports, its node writes no file.
LEMMA WorkerDoneClean ==
  ASSUME RepairInv, CleanInv, RepairInv', node = "worker", NEW r, WorkerDone(r),
         DOMAIN r = DOMAIN InitialState,
         UNCHANGED <<disk, aux>>,
         r.supervisor_batch = batch, r.attempt_written = st.attempt_written,
         r.attempt_baseline = st.attempt_baseline, r.batch_conflict = st.batch_conflict
  PROVE  CleanInv'
  <1>0. batch \in Int /\ (Calm => Pristine) /\ ~st.batch_conflict
    BY BeforeApply DEF Untroubled
  <1> DEFINE s == [r EXCEPT !.completed_task_ids = @ \cup {st.worker_task.id}]
  <1>1. /\ s.supervisor_batch = batch /\ s.attempt_written = st.attempt_written
        /\ s.attempt_baseline = st.attempt_baseline /\ s.batch_conflict = st.batch_conflict
        /\ s.status = r.status
    BY DEF InitialState
  <1>2. /\ Return(s, after_worker(s)) /\ UNCHANGED disk
        /\ UNCHANGED <<touched, foreign, crashes>>
    BY DEF WorkerDone, aux
  <1> HIDE DEF s
  <1> DEFINE n == after_worker(s)
  <1>3. n \in {"failed", "supervise", "approval"} /\ (n = "approval" => s.status # "failed")
    BY DEF after_worker
  <1>4. Return(s, n)
    BY <1>2
  <1> HIDE DEF n
  <1> QED BY <1>0, <1>1, <1>2, <1>3, <1>4, QuietClean DEF Snapshotted

\* worker writes its own copy of the workspace only.
LEMMA WorkerClean ==
  ASSUME RepairInv, CleanInv, RepairInv', Worker
  PROVE  CleanInv'
  <1>0. EvoCIState(st) /\ st.supervisor_batch = batch /\ DOMAIN st = DOMAIN InitialState
    BY BeforeApply DEF EvoCIState
  <1>a. node = "worker" /\ UNCHANGED <<disk, aux>>
    BY DEF Worker, WorkerProposes, WorkerReportsNoEdit, WorkerExhausted, WorkerModelError
  <1>1. CASE WorkerProposes
    <2>1. PICK proposal, status :
            WorkerDone([st EXCEPT !.result = status, !.artifact = TRUE,
                   !.fixer_output =
                      [edits |-> proposal.edits, risk |-> proposal.risk, batch |-> batch,
                       base |-> snapshot_edit_baseline(workspace, proposal.edits)]])
      BY <1>1 DEF WorkerProposes
    <2> DEFINE o == [edits |-> proposal.edits, risk |-> proposal.risk, batch |-> batch,
                     base |-> snapshot_edit_baseline(workspace, proposal.edits)]
               r == [st EXCEPT !.result = status, !.artifact = TRUE, !.fixer_output = o]
    <2>2. WorkerDone(r)
      BY <2>1
    <2> HIDE DEF o
    <2>3. /\ DOMAIN r = DOMAIN InitialState
          /\ r.supervisor_batch = batch /\ r.attempt_written = st.attempt_written
          /\ r.attempt_baseline = st.attempt_baseline /\ r.batch_conflict = st.batch_conflict
      BY <1>0 DEF InitialState
    <2> HIDE DEF r
    <2> QED BY <1>a, <2>2, <2>3, WorkerDoneClean
  <1>2. CASE WorkerReportsNoEdit
    <2>1. PICK status : WorkerDone([st EXCEPT !.result = status, !.artifact = FALSE])
      BY <1>2 DEF WorkerReportsNoEdit
    <2> DEFINE r == [st EXCEPT !.result = status, !.artifact = FALSE]
    <2>2. WorkerDone(r)
      BY <2>1
    <2>3. /\ DOMAIN r = DOMAIN InitialState
          /\ r.supervisor_batch = batch /\ r.attempt_written = st.attempt_written
          /\ r.attempt_baseline = st.attempt_baseline /\ r.batch_conflict = st.batch_conflict
      BY <1>0 DEF InitialState
    <2> HIDE DEF r
    <2> QED BY <1>a, <2>2, <2>3, WorkerDoneClean
  <1>3. CASE WorkerExhausted
    <2>1. PICK raised \in BOOLEAN :
            WorkerDone([(IF raised THEN st ELSE Fail(st, "budget", "worker")) EXCEPT
                         !.result = "budget_exhausted", !.artifact = FALSE,
                         !.last_class = "budget", !.budget_failed = TRUE])
      BY <1>3 DEF WorkerExhausted
    <2> DEFINE f == IF raised THEN st ELSE Fail(st, "budget", "worker")
               r == [f EXCEPT !.result = "budget_exhausted", !.artifact = FALSE,
                         !.last_class = "budget", !.budget_failed = TRUE]
    <2>2. /\ DOMAIN f = DOMAIN InitialState
          /\ f.supervisor_batch = batch /\ f.attempt_written = st.attempt_written
          /\ f.attempt_baseline = st.attempt_baseline /\ f.batch_conflict = st.batch_conflict
      BY <1>0 DEF Fail, InitialState
    <2>3. WorkerDone(r)
      BY <2>1
    <2> HIDE DEF f
    <2>4. /\ DOMAIN r = DOMAIN InitialState
          /\ r.supervisor_batch = batch /\ r.attempt_written = st.attempt_written
          /\ r.attempt_baseline = st.attempt_baseline /\ r.batch_conflict = st.batch_conflict
      BY <2>2 DEF InitialState
    <2> HIDE DEF r
    <2> QED BY <1>a, <2>3, <2>4, WorkerDoneClean
  <1>4. CASE WorkerModelError
    <2> DEFINE r == [Fail(st, "model", "worker") EXCEPT
                      !.result = "blocked", !.artifact = FALSE,
                      !.last_class = "model", !.budget_failed = TRUE]
    <2>1. WorkerDone(r)
      BY <1>4 DEF WorkerModelError
    <2>2. /\ DOMAIN r = DOMAIN InitialState
          /\ r.supervisor_batch = batch /\ r.attempt_written = st.attempt_written
          /\ r.attempt_baseline = st.attempt_baseline /\ r.batch_conflict = st.batch_conflict
      BY <1>0 DEF Fail, InitialState
    <2> HIDE DEF r
    <2> QED BY <1>a, <2>1, <2>2, WorkerDoneClean
  <1> QED BY <1>1, <1>2, <1>3, <1>4 DEF Worker

\* approval writes no file.
LEMMA ApprovalClean ==
  ASSUME RepairInv, CleanInv, RepairInv', Approval
  PROVE  CleanInv'
  <1>a. /\ node = "approval" /\ UNCHANGED disk /\ UNCHANGED <<touched, foreign, crashes>>
    BY DEF Approval, ApprovalNotNeeded, ApprovalAnswered, aux
  <1>0. EvoCIState(st) /\ st.supervisor_batch = batch /\ batch \in Int /\ ~st.batch_conflict
    BY <1>a, BeforeApply
  <1>b. Calm => Pristine
    BY <1>a, BeforeApply DEF Untroubled
  <1>1. PICK s : /\ Return(s, after_approval(s))
                 /\ s.supervisor_batch = batch /\ s.attempt_written = st.attempt_written
                 /\ s.attempt_baseline = st.attempt_baseline
                 /\ s.batch_conflict = st.batch_conflict
    <2>1. CASE ApprovalNotNeeded
      <3> DEFINE s == [st EXCEPT !.phase = "approval", !.approved = "yes"]
      <3>1. /\ s.supervisor_batch = batch /\ s.attempt_written = st.attempt_written
            /\ s.attempt_baseline = st.attempt_baseline
            /\ s.batch_conflict = st.batch_conflict
        BY <1>0, StateDomain
      <3>2. Return(s, after_approval(s))
        BY <2>1 DEF ApprovalNotNeeded
      <3> HIDE DEF s
      <3> QED BY <3>1, <3>2
    <2>2. CASE ApprovalAnswered
      <3>1. PICK answer :
              LET r == [st EXCEPT !.phase = "approval", !.approved = answer]
                  s == IF answer = "yes"
                       THEN [r EXCEPT !.status = "running", !.failure_class = "none",
                                      !.failure_stage = "none"]
                       ELSE Fail(r, "policy", "approval")
              IN  Return(s, after_approval(s))
        BY <2>2 DEF ApprovalAnswered
      <3> DEFINE r == [st EXCEPT !.phase = "approval", !.approved = answer]
                 s == IF answer = "yes"
                      THEN [r EXCEPT !.status = "running", !.failure_class = "none",
                                     !.failure_stage = "none"]
                      ELSE Fail(r, "policy", "approval")
      <3>2. /\ DOMAIN r = DOMAIN st
            /\ r.supervisor_batch = batch /\ r.attempt_written = st.attempt_written
            /\ r.attempt_baseline = st.attempt_baseline
            /\ r.batch_conflict = st.batch_conflict
        BY <1>0, StateDomain
      <3>3. Return(s, after_approval(s))
        BY <3>1
      <3> HIDE DEF r
      <3>4. /\ s.supervisor_batch = batch /\ s.attempt_written = st.attempt_written
            /\ s.attempt_baseline = st.attempt_baseline
            /\ s.batch_conflict = st.batch_conflict
        BY <3>2, <1>0, StateDomain DEF Fail
      <3> HIDE DEF s
      <3> QED BY <3>3, <3>4
    <2> QED BY <2>1, <2>2 DEF Approval
  <1> DEFINE n == after_approval(s)
  <1>2. /\ n \in {"failed", "apply_candidate"} /\ (n = "apply_candidate" => s.status # "failed")
        /\ Return(s, n)
    BY <1>1 DEF after_approval
  <1> HIDE DEF n
  <1> QED BY <1>0, <1>1, <1>2, <1>a, <1>b, QuietClean DEF Snapshotted

\* What is known of a file while a candidate is applied.
LEMMA ApplyFacts ==
  ASSUME RepairInv, CleanInv, node = "apply_candidate"
  PROVE  /\ EvoCIState(st) /\ st.supervisor_batch = batch /\ batch \in Int
         /\ st.status = "running" /\ ~st.batch_conflict
         /\ edits \in Patch /\ workspace \in Tree /\ Head \in Tree
         /\ Keep \notin Content /\ EditedPaths(edits) \subseteq Paths
         /\ Calm => /\ \A p \in Untouched : snapshots[batch][p] = Head[p]
                    /\ \A p \in Untouched : workspace[p] # Head[p] =>
                          p \in EditedPaths(edits) /\ workspace[p] = edits[p] /\ InScope
  <1>1. /\ EvoCIState(st) /\ st.supervisor_batch = batch /\ batch \in Int
        /\ st.status = "running" /\ ~st.batch_conflict
    BY BeforeApply
  <1>2. /\ workspace \in Tree /\ Head \in Tree /\ Keep \notin Content
        /\ st.fixer_output \in FixerOutputs
    BY <1>1, ConstantsAssumption DEF RepairInv, TypeOK, EvoCIState
  <1>3. edits \in Patch
    BY <1>2 DEF edits, FixerOutputs
  <1>4. Calm => /\ \A p \in Untouched : snapshots[batch][p] = Head[p]
                /\ \A p \in Untouched : workspace[p] # Head[p] =>
                      workspace[p] = edits[p] /\ InScope
    BY DEF CleanInv, SnapshotClean, ApplyClean
  <1>5. \A p \in Untouched : workspace[p] \in Content /\ p \in Paths
    BY <1>2 DEF Tree, Untouched
  <1>6. \A p \in Untouched : workspace[p] = edits[p] => p \in EditedPaths(edits)
    BY <1>2, <1>5 DEF EditedPaths
  <1> QED BY <1>1, <1>2, <1>3, <1>4, <1>6 DEF EditedPaths

\* The plan holds what the run started from.
LEMMA PlanIsHead ==
  ASSUME RepairInv, CleanInv, Calm, step \in {"apply", "write"}, NEW p \in Untouched,
         p \in EditedPaths(edits)
  PROVE  plans[batch][p] = Head[p] /\ BaselineContent(plans[batch], p) = Head[p]
  <1>1. /\ node = "apply_candidate" /\ plans[batch][p] = snapshots[batch][p]
        /\ plans[batch][p] # Keep
    BY AttemptFacts
  <1>2. snapshots[batch][p] = Head[p]
    BY <1>1, ApplyFacts
  <1> QED BY <1>1, <1>2 DEF BaselineContent

\* Undoing an attempt gives the clean workspace back: its own writes are in
\* `wrote', and those of an attempt that a crash cut short come before the first
\* file that is still to be written.
LEMMA UndoCleans ==
  ASSUME RepairInv, CleanInv, Calm, step \in {"apply", "write"}, NEW wrote \in Patch, Wrote(wrote),
         \A q \in EditedPaths(edits) : q \notin todo => wrote[q] = edits[q],
         crashes = 0 \/ \E p \in todo : (\A q \in todo : p <= q) /\ workspace[p] # edits[p],
         NEW q \in Untouched
  PROVE  restore_attempt_writes(workspace, plans[batch], wrote)[q] = Head[q]
  <1>1. node = "apply_candidate" /\ q \in Paths /\ wrote[q] \in {Keep, edits[q]}
    BY AttemptFacts DEF Untouched, Wrote
  <1>2. restore_attempt_writes(workspace, plans[batch], wrote)[q] =
           IF wrote[q] # Keep /\ workspace[q] = wrote[q]
           THEN BaselineContent(plans[batch], q) ELSE workspace[q]
    BY <1>1 DEF restore_attempt_writes
  <1>3. wrote[q] # Keep => BaselineContent(plans[batch], q) = Head[q]
    BY <1>1, PlanIsHead DEF EditedPaths
  <1>4. CASE workspace[q] = Head[q]
    BY <1>2, <1>3, <1>4
  <1>5. CASE workspace[q] # Head[q]
    <2>1. q \in EditedPaths(edits) /\ workspace[q] = edits[q] /\ edits[q] # Keep
      BY <1>1, <1>5, ApplyFacts DEF EditedPaths
    <2>2. q \notin todo
      <3>1. CASE crashes = 0
        BY <3>1, <1>1, <1>5 DEF CleanInv, ApplyClean
      <3>2. CASE crashes # 0
        <4>1. touched = {}
          BY <3>2 DEF Calm, CleanInv, ProgressInv
        <4>2. PICK p \in todo : (\A r \in todo : p <= r) /\ workspace[p] # edits[p]
          BY <3>2
        <4>3. p \in EditedPaths(edits) /\ p \in Paths /\ p \in Nat /\ q \in Nat
          BY <1>1, ConstantsAssumption DEF RepairInv, PlanInv, TypeOK
        <4>4. p \in Untouched
          BY <4>1, <4>3 DEF Untouched
        <4>5. ~(p < q)
          BY <4>2, <4>3, <4>4, <2>1, <1>1, <1>5 DEF CleanInv, ApplyClean
        <4> QED BY <4>2, <4>3, <4>5, <2>1
      <3> QED BY <3>1, <3>2
    <2> QED BY <1>2, <1>3, <2>1, <2>2
  <1> QED BY <1>4, <1>5

\* apply_candidate's conflict handler leaves a clean workspace to rollback.
LEMMA ApplyStopsClean ==
  ASSUME RepairInv, CleanInv, RepairInv', step \in {"apply", "write"}, NEW class,
         NEW wrote \in Patch, Wrote(wrote), ApplyStops(class, wrote),
         \A q \in EditedPaths(edits) : q \notin todo => wrote[q] = edits[q],
         \/ touched # {}
         \/ \E p \in todo : (\A q \in todo : p <= q) /\ workspace[p] # edits[p]
  PROVE  CleanInv'
  <1>1. node = "apply_candidate"
    BY AttemptFacts
  <1>2. /\ EvoCIState(st) /\ st.supervisor_batch = batch /\ batch \in Int
        /\ st.status = "running"
    BY <1>1, ApplyFacts
  <1> DEFINE s == [st EXCEPT !.phase = "apply_candidate", !.batch_conflict = TRUE,
                           !.last_class = class, !.failure_stage = "apply_candidate",
                           !.attempted = TRUE, !.attempt_baseline = plans[batch],
                           !.attempt_written = wrote]
  <1>3. /\ s.supervisor_batch = batch /\ s.attempt_written = wrote
        /\ s.attempt_baseline = plans[batch] /\ s.status = "running" /\ s.batch_conflict
    BY <1>2, StateDomain
  <1>4. /\ Return(s, after_apply(s)) /\ UNCHANGED <<snapshots, touched, foreign, crashes>>
        /\ workspace' = restore_attempt_writes(workspace, plans[batch], wrote)
    BY DEF ApplyStops, aux
  <1> HIDE DEF s
  <1>5. after_apply(s) = "rollback"
    BY <1>3 DEF after_apply
  <1>9. Calm => \/ crashes = 0
                 \/ \E p \in todo : (\A q \in todo : p <= q) /\ workspace[p] # edits[p]
    BY DEF Calm, CleanInv, ProgressInv
  <1>6. Calm => Pristine'
    BY <1>4, <1>9, UndoCleans DEF Pristine, Untouched
  <1>7. Calm => BaselineIsHead(s)
    BY <1>3, PlanIsHead DEF BaselineIsHead, Wrote, EditedPaths, Untouched
  <1>8. Calm => \A p \in Untouched : snapshots[s.supervisor_batch][p] = Head[p]
    BY <1>1, <1>3, ApplyFacts
  <1> QED BY <1>2, <1>3, <1>4, <1>5, <1>6, <1>7, <1>8, ReturnClean

\* The file that is written next does not hold the candidate's content, unless a
\* third party gave it to it.
LEMMA NextIsUnwritten ==
  ASSUME RepairInv, step = "write"
  PROVE  \/ touched # {}
         \/ \E p \in todo : (\A q \in todo : p <= q) /\ workspace[p] # edits[p]
  <1>1. PICK p \in Paths : IsFirst(p, todo) /\ (p \notin unseen => workspace[p] # edits[p])
    BY DEF RepairInv, PlanInv
  <1>2. unseen \subseteq touched
    BY DEF RepairInv, TypeOK
  <1> QED BY <1>1, <1>2 DEF IsFirst

\* apply_candidate begins, or begins again after a crash.
LEMMA ApplyBeginsClean ==
  ASSUME RepairInv, CleanInv, RepairInv', ApplyBegins
  PROVE  CleanInv'
  <1>1. /\ UNCHANGED <<node, st, workspace, snapshots, touched, foreign, crashes>>
        /\ step = "idle" /\ step' = "apply" /\ todo' = EditedPaths(edits)
        /\ node = "apply_candidate"
    BY DEF ApplyBegins, aux
  <1>2. /\ batch' = batch /\ edits' = edits /\ InScope' = InScope
        /\ EditedPaths(edits') = EditedPaths(edits)
        /\ Untouched' = Untouched /\ Calm' = Calm /\ Pristine' = Pristine
    BY <1>1 DEF batch, edits, InScope, Untouched, Calm, Pristine
  <1>3. ProgressInv'
    BY <1>1, <1>2 DEF CleanInv, ProgressInv
  <1>4. ASSUME Calm PROVE SnapshotClean' /\ RollbackClean'
    BY <1>1, <1>2, <1>4 DEF CleanInv, SnapshotClean, RollbackClean
  <1>5. ASSUME Calm PROVE ApplyClean'
    <2>1. /\ \A p \in Untouched : workspace[p] # Head[p] => workspace[p] = edits[p] /\ InScope
          /\ \A p, q \in Untouched \cap EditedPaths(edits) :
               p < q /\ workspace[q] # Head[q] => workspace[p] = edits[p]
          /\ crashes = 0 => \A p \in Untouched : workspace[p] = Head[p]
      BY <1>1, <1>5 DEF CleanInv, ApplyClean
    <2> QED BY <1>1, <1>2, <2>1 DEF ApplyClean
  <1> QED BY <1>1, <1>2, <1>3, <1>4, <1>5 DEF CleanInv

\* One file of the candidate is written, or found written by an earlier attempt.
LEMMA ApplyWritesClean ==
  ASSUME RepairInv, CleanInv, RepairInv', ApplyFindsDone \/ ApplyWrites
  PROVE  CleanInv'
  <1>1. /\ UNCHANGED <<node, st, snapshots, touched, foreign, crashes>>
        /\ step \in {"apply", "write"} /\ step' = "apply"
    BY DEF ApplyFindsDone, ApplyWrites, aux, disk
  <1>2. /\ node = "apply_candidate" /\ workspace \in Tree /\ edits \in Patch
        /\ written \in Patch /\ todo \subseteq Paths /\ Paths \subseteq Nat /\ InScope
    BY <1>1, AttemptFacts, ConstantsAssumption DEF RepairInv, TypeOK, InScope
  <1>3. PICK p \in Paths : /\ IsFirst(p, todo) /\ todo' = todo \ {p}
                           /\ written' = [written EXCEPT ![p] = edits[p]]
                           /\ workspace' = [workspace EXCEPT ![p] = edits[p]]
    <2>1. CASE ApplyFindsDone
      <3>1. PICK p \in Paths : /\ IsFirst(p, todo) /\ todo' = todo \ {p}
                               /\ written' = [written EXCEPT ![p] = edits[p]]
                               /\ workspace[p] = edits[p] /\ workspace' = workspace
        BY <2>1 DEF ApplyFindsDone, disk
      <3>2. workspace' = [workspace EXCEPT ![p] = edits[p]]
        BY <3>1, <1>2 DEF Tree
      <3> QED BY <3>1, <3>2
    <2>2. CASE ApplyWrites
      BY <2>2 DEF ApplyWrites
    <2> QED BY <2>1, <2>2
  <1>4. /\ p \in todo /\ \A q \in todo : p <= q
        /\ workspace'[p] = edits[p] /\ written'[p] = edits[p]
        /\ \A q \in Paths : q # p => workspace'[q] = workspace[q] /\ written'[q] = written[q]
    BY <1>2, <1>3 DEF IsFirst, Tree, Patch
  <1>5. /\ batch' = batch /\ edits' = edits /\ InScope' = InScope
        /\ EditedPaths(edits') = EditedPaths(edits) /\ EditedPaths(edits) \subseteq Paths
        /\ Untouched' = Untouched /\ Calm' = Calm /\ Untouched \subseteq Paths
    BY <1>1 DEF batch, edits, InScope, Untouched, Calm, EditedPaths
  <1>6. ProgressInv'
    <2>1. \A q \in EditedPaths(edits) : q \notin todo =>
             written[q] = edits[q] /\ \A r \in todo : q < r
      BY <1>1 DEF CleanInv, ProgressInv
    <2>2. \A q \in EditedPaths(edits) : q \notin todo' =>
             written'[q] = edits[q] /\ \A r \in todo' : q < r
      BY <2>1, <1>2, <1>3, <1>4, <1>5
    <2> QED BY <2>2, <1>1, <1>2, <1>5 DEF CleanInv, ProgressInv
  <1>7. ASSUME Calm PROVE SnapshotClean' /\ RollbackClean'
    BY <1>1, <1>2, <1>5, <1>7 DEF CleanInv, SnapshotClean, RollbackClean
  <1>8. ASSUME Calm PROVE ApplyClean'
    <2>1. /\ \A q \in Untouched : workspace[q] # Head[q] => workspace[q] = edits[q]
          /\ \A q, r \in Untouched \cap EditedPaths(edits) :
               q < r /\ workspace[r] # Head[r] => workspace[q] = edits[q]
          /\ \A q \in Untouched \cap EditedPaths(edits) : q \notin todo => workspace[q] = edits[q]
          /\ crashes = 0 => \A q \in Untouched : workspace[q] # Head[q] => q \notin todo
      BY <1>1, <1>2, <1>8 DEF CleanInv, ApplyClean
    <2>2. \A q \in Untouched : workspace'[q] # Head[q] => workspace'[q] = edits[q] /\ InScope
      BY <2>1, <1>2, <1>4, <1>5
    <2>3. ASSUME NEW q \in Untouched \cap EditedPaths(edits),
                 NEW r \in Untouched \cap EditedPaths(edits), q < r, workspace'[r] # Head[r]
          PROVE  workspace'[q] = edits[q]
      <3>1. CASE q = p
        BY <3>1, <1>4
      <3>2. CASE q # p /\ r # p
        BY <2>1, <2>3, <3>2, <1>4, <1>5
      <3>3. CASE q # p /\ r = p
        <4>1. q \notin todo
          BY <2>3, <3>3, <1>2, <1>4, <1>5
        <4> QED BY <4>1, <2>1, <3>3, <1>4, <1>5
      <3> QED BY <3>1, <3>2, <3>3
    <2>4. \A q \in Untouched \cap EditedPaths(edits) : q \notin todo' => workspace'[q] = edits[q]
      BY <2>1, <1>3, <1>4, <1>5
    <2>5. crashes = 0 => \A q \in Untouched : workspace'[q] # Head[q] => q \notin todo'
      BY <2>1, <1>3, <1>4, <1>5
    <2> QED BY <2>2, <2>3, <2>4, <2>5, <1>1, <1>5 DEF ApplyClean
  <1> QED BY <1>1, <1>2, <1>5, <1>6, <1>7, <1>8 DEF CleanInv

\* apply_candidate leaves a clean workspace unless it applied the candidate.
LEMMA ApplyCandidateClean ==
  ASSUME RepairInv, CleanInv, RepairInv', ApplyCandidate
  PROVE  CleanInv'
  <1>a. node = "apply_candidate"
    BY DEF ApplyCandidate, ApplyNothing, ApplyOutOfScope, ApplyBegins, ApplyFindsDone,
           ApplyChecks, ApplyWrites, ApplyConflicts, ApplyOutOfBudget, ApplyEditFails, ApplyDone,
           RepairInv, ControlInv
  <1>0. /\ EvoCIState(st) /\ st.supervisor_batch = batch /\ batch \in Int
        /\ st.status = "running" /\ ~st.batch_conflict
    BY <1>a, ApplyFacts
  <1>1. CASE ApplyNothing
    <2> DEFINE s == [st EXCEPT !.phase = "apply_candidate"]
    <2>1. /\ s.supervisor_batch = batch /\ s.attempt_written = st.attempt_written
          /\ s.attempt_baseline = st.attempt_baseline /\ s.status = st.status
          /\ s.batch_conflict = st.batch_conflict
      BY <1>0, StateDomain
    <2>2. /\ Return(s, after_apply(s)) /\ UNCHANGED disk
          /\ UNCHANGED <<touched, foreign, crashes>>
      BY <1>1 DEF ApplyNothing, aux
    <2>3. EditedPaths(edits) = {}
      BY <1>1 DEF ApplyNothing, HasEdits, edits, EditedPaths, NoPatch
    <2>4. Calm => Pristine
      BY <2>3, <1>a, ApplyFacts DEF Pristine
    <2> HIDE DEF s
    <2>5. after_apply(s) = "verify"
      BY <2>1, <1>0 DEF after_apply
    <2> QED BY <2>1, <2>2, <2>4, <2>5, <1>0, <1>a, QuietClean DEF Snapshotted
  <1>2. CASE ApplyOutOfScope
    <2> DEFINE s == [st EXCEPT !.phase = "apply_candidate", !.batch_conflict = TRUE,
                           !.last_class = "repair", !.failure_stage = "apply_candidate"]
    <2>1. /\ s.supervisor_batch = batch /\ s.attempt_written = st.attempt_written
          /\ s.attempt_baseline = st.attempt_baseline /\ s.status = st.status
          /\ s.batch_conflict
      BY <1>0, StateDomain
    <2>2. /\ Return(s, after_apply(s)) /\ UNCHANGED disk
          /\ UNCHANGED <<touched, foreign, crashes>> /\ ~InScope
      BY <1>2 DEF ApplyOutOfScope, aux
    <2>3. Calm => Pristine
      BY <2>2, <1>a, ApplyFacts DEF Pristine
    <2> HIDE DEF s
    <2>4. after_apply(s) = "rollback"
      BY <2>1, <1>0 DEF after_apply
    <2> QED BY <2>1, <2>2, <2>3, <2>4, <1>0, <1>a, QuietClean DEF Snapshotted
  <1>3. CASE ApplyConflicts \/ ApplyOutOfBudget
    <2>1. PICK class : ApplyStops(class, written)
      BY <1>3 DEF ApplyConflicts, ApplyOutOfBudget
    <2>2. /\ step \in {"apply", "write"}
          /\ \/ touched # {}
             \/ \E p \in todo : (\A q \in todo : p <= q) /\ workspace[p] # edits[p]
      BY <1>3, NextIsUnwritten DEF ApplyConflicts, ApplyOutOfBudget, IsFirst
    <2>3. written \in Patch /\ Wrote(written)
      BY <2>2, AttemptFacts DEF Wrote
    <2>4. \A q \in EditedPaths(edits) : q \notin todo => written[q] = edits[q]
      BY <2>2 DEF CleanInv, ProgressInv
    <2> QED BY <2>1, <2>2, <2>3, <2>4, ApplyStopsClean
  <1>4. CASE ApplyEditFails
    <2>1. PICK p \in Paths : /\ IsFirst(p, todo)
                             /\ ApplyStops("repair", [written EXCEPT ![p] = edits[p]])
      BY <1>4 DEF ApplyEditFails
    <2>2. /\ step = "write"
          /\ \/ touched # {}
             \/ \E r \in todo : (\A q \in todo : r <= q) /\ workspace[r] # edits[r]
      BY <1>4, NextIsUnwritten DEF ApplyEditFails
    <2> DEFINE wrote == [written EXCEPT ![p] = edits[p]]
    <2>3. /\ wrote \in Patch /\ Wrote(wrote)
      BY <2>2, AttemptFacts DEF Wrote, Patch
    <2>4. \A q \in EditedPaths(edits) : q \notin todo => written[q] = edits[q]
      BY <2>2 DEF CleanInv, ProgressInv
    <2>5. \A q \in EditedPaths(edits) : q \notin todo => wrote[q] = edits[q]
      BY <2>2, <2>4, AttemptFacts DEF Patch, EditedPaths
    <2>6. ApplyStops("repair", wrote)
      BY <2>1
    <2> HIDE DEF wrote
    <2> QED BY <2>2, <2>3, <2>5, <2>6, ApplyStopsClean
  <1>5. CASE ApplyDone
    <2> DEFINE s == [st EXCEPT !.phase = "apply_candidate", !.attempted = TRUE,
                           !.attempt_baseline = plans[batch], !.attempt_written = written]
    <2>1. /\ s.supervisor_batch = batch /\ s.attempt_written = written
          /\ s.attempt_baseline = plans[batch] /\ s.status = st.status
          /\ s.batch_conflict = st.batch_conflict
      BY <1>0, StateDomain
    <2>2. /\ Return(s, after_apply(s)) /\ UNCHANGED <<snapshots, touched, foreign, crashes>>
          /\ step = "apply"
      BY <1>5 DEF ApplyDone, aux, disk
    <2> HIDE DEF s
    <2>3. after_apply(s) = "verify"
      BY <2>1, <1>0 DEF after_apply
    <2>4. Calm => BaselineIsHead(s)
      BY <2>1, <2>2, AttemptFacts, PlanIsHead DEF BaselineIsHead, EditedPaths, Untouched
    <2>5. Calm => \A p \in Untouched : snapshots[s.supervisor_batch][p] = Head[p]
      BY <2>1, <1>a, ApplyFacts
    <2> QED BY <2>1, <2>2, <2>3, <2>4, <2>5, <1>0, ReturnClean DEF Untroubled
  <1>6. CASE ApplyChecks
    <2>1. /\ UNCHANGED <<node, st, workspace, snapshots, todo, written, touched, foreign, crashes>>
          /\ step = "apply" /\ step' = "write"
      BY <1>6 DEF ApplyChecks, disk
    <2>2. /\ batch' = batch /\ edits' = edits /\ InScope' = InScope
          /\ EditedPaths(edits') = EditedPaths(edits) /\ Untouched' = Untouched /\ Calm' = Calm
      BY <2>1 DEF batch, edits, InScope, Untouched, Calm
    <2>3. ProgressInv'
      BY <2>1, <2>2, <1>a DEF CleanInv, ProgressInv
    <2>4. ASSUME Calm PROVE SnapshotClean' /\ RollbackClean'
      BY <2>1, <2>2, <2>4, <1>a DEF CleanInv, SnapshotClean, RollbackClean
    <2>5. ASSUME Calm PROVE ApplyClean'
      <3>1. ApplyClean
        BY <2>5 DEF CleanInv
      <3> QED BY <3>1, <2>1, <2>2 DEF ApplyClean
    <2> QED BY <2>1, <2>2, <2>3, <2>4, <2>5, <1>a DEF CleanInv
  <1> QED BY <1>1, <1>2, <1>3, <1>4, <1>5, <1>6, ApplyBeginsClean, ApplyWritesClean
        DEF ApplyCandidate

\* verify keeps the record of the attempt.
LEMMA VerifiedAsKeeps ==
  ASSUME EvoCIState(st), NEW outcome
  PROVE  LET s == VerifiedAs(outcome) IN
         /\ s.phase = "verify" /\ s.attempt_written = st.attempt_written
         /\ s.attempt_baseline = st.attempt_baseline
  <1> DEFINE r == [st EXCEPT !.phase = "verify", !.verification = outcome,
                             !.verification_snapshot_id = sid]
  <1>1. /\ r.phase = "verify" /\ r.attempt_written = st.attempt_written
        /\ r.attempt_baseline = st.attempt_baseline /\ DOMAIN r = DOMAIN st
    BY StateDomain
  <1> DEFINE f(class) == Fail(r, class, "verify")
             Good(s) == /\ s.phase = "verify" /\ s.attempt_written = st.attempt_written
                        /\ s.attempt_baseline = st.attempt_baseline
  <1>2. \/ VerifiedAs(outcome) = r
        \/ VerifiedAs(outcome) = [r EXCEPT !.batch_conflict = TRUE, !.failure_stage = "verify"]
        \/ VerifiedAs(outcome) = [r EXCEPT !.failure_stage = "verify"]
        \/ VerifiedAs(outcome) = [f("budget") EXCEPT !.last_class = "budget",
                                                     !.budget_failed = TRUE]
        \/ \E class : VerifiedAs(outcome) = f(class)
    BY DEF VerifiedAs
  <1> HIDE DEF r
  <1>3. DOMAIN r = DOMAIN InitialState
    BY <1>1 DEF EvoCIState
  <1>4. /\ Good(r) /\ Good([r EXCEPT !.batch_conflict = TRUE, !.failure_stage = "verify"])
        /\ Good([r EXCEPT !.failure_stage = "verify"])
    BY <1>1, <1>3 DEF InitialState
  <1>5. \A class : DOMAIN f(class) = DOMAIN InitialState /\ Good(f(class))
    BY <1>1, <1>3 DEF Fail, InitialState
  <1> HIDE DEF f
  <1>6. Good([f("budget") EXCEPT !.last_class = "budget", !.budget_failed = TRUE])
    BY <1>5 DEF InitialState
  <1> HIDE DEF Good
  <1>7. Good(VerifiedAs(outcome))
    BY <1>2, <1>4, <1>5, <1>6
  <1> QED BY <1>7 DEF Good

\* verify writes no file of the workspace.
LEMMA VerifyClean ==
  ASSUME RepairInv, CleanInv, RepairInv', Verify
  PROVE  CleanInv'
  <1>0. /\ EvoCIState(st) /\ st.supervisor_batch = batch /\ batch \in Int
    BY BeforeApply
  <1>a. node = "verify"
    BY DEF Verify, VerifyBegins, VerifyCopies, VerifyEnds, RepairInv, ControlInv
  <1>1. CASE VerifyBegins \/ VerifyCopies
    <2>1. /\ UNCHANGED <<node, st, workspace, snapshots, todo, touched, foreign, crashes>>
          /\ step \notin {"copy", "apply", "write"} /\ step' \in {"verify", "tested"}
      BY <1>1 DEF VerifyBegins, VerifyCopies, disk, aux
    <2>2. batch' = batch /\ Untouched' = Untouched /\ Calm' = Calm
      BY <2>1 DEF batch, Untouched, Calm
    <2>3. ProgressInv'
      BY <2>1, <2>2 DEF CleanInv, ProgressInv
    <2>4. ASSUME Calm PROVE SnapshotClean' /\ ApplyClean' /\ RollbackClean'
      BY <2>1, <2>2, <2>4, <1>a DEF CleanInv, SnapshotClean, ApplyClean, RollbackClean
    <2> QED BY <2>1, <2>2, <2>3, <2>4, <1>a DEF CleanInv
  <1>2. CASE VerifyEnds
    <2>1. PICK outcome \in VerificationOutcomes :
            LET s == VerifiedAs(outcome) IN Return(s, after_verify(s))
      BY <1>2 DEF VerifyEnds
    <2> DEFINE s == VerifiedAs(outcome)
    <2>2. /\ outcome \in VerificationStatuses /\ st.status # "success" /\ sid \in Tree
          /\ UNCHANGED <<snapshots, touched, foreign, crashes>>
      BY <1>2, <1>a, Running DEF VerificationOutcomes, VerifyEnds, RepairInv, TestedInv, disk, aux
    <2>3. s.supervisor_batch = batch
      BY <2>2, <1>0, VerifiedAsFacts
    <2>4. /\ s.phase = "verify" /\ s.attempt_written = st.attempt_written
          /\ s.attempt_baseline = st.attempt_baseline
      BY <1>0, VerifiedAsKeeps
    <2>5. Return(s, after_verify(s))
      BY <2>1
    <2> HIDE DEF s
    <2> DEFINE n == after_verify(s)
    <2>6. /\ n \in {"failed", "finalize", "rollback"} /\ Return(s, n)
          /\ n = "failed" => s.verification \in {"infra_error", "inconclusive"}
      BY <2>5 DEF after_verify
    <2> HIDE DEF n
    <2>7. Calm => BaselineIsHead(s)
      BY <2>4 DEF CleanInv, RollbackClean, BaselineIsHead
    <2>8. Calm => \A p \in Untouched : snapshots[s.supervisor_batch][p] = Head[p]
      BY <2>3, <1>a DEF CleanInv, SnapshotClean
    <2> QED BY <2>2, <2>3, <2>4, <2>6, <2>7, <2>8, <1>0, ReturnClean DEF Untroubled
  <1> QED BY <1>1, <1>2 DEF Verify

\* rollback puts the workspace back, from the attempt or from the snapshot.
LEMMA RollbackCleans ==
  ASSUME RepairInv, CleanInv, RepairInv', Rollback
  PROVE  CleanInv'
  <1>0. /\ EvoCIState(st) /\ st.supervisor_batch = batch /\ batch \in Int
    BY BeforeApply
  <1>a. node = "rollback"
    BY DEF Rollback, RollbackAttempt, RollbackClears, RollbackCopies, RollbackFails,
           RepairInv, ControlInv
  <1>b. Head \in Tree /\ Keep \notin Content /\ batch \in Batches /\ snapshots[batch] \in Tree
    BY <1>a, ConstantsAssumption DEF RepairInv, ControlInv, TypeOK
  <1>c. Calm => /\ \A p \in Untouched : snapshots[batch][p] = Head[p]
                /\ BaselineIsHead(st)
    BY <1>a DEF CleanInv, SnapshotClean, RollbackClean, BaselineIsHead
  <1>1. CASE RollbackAttempt \/ RollbackCopies
    <2> DEFINE s == RolledBack
    <2>1. /\ s.supervisor_batch = batch /\ s.attempt_written = st.attempt_written
          /\ s.attempt_baseline = st.attempt_baseline
      BY <1>0, StateDomain DEF RolledBack
    <2>2. /\ Return(s, after_rollback(s)) /\ UNCHANGED <<snapshots, touched, foreign, crashes>>
      BY <1>1 DEF RollbackAttempt, RollbackCopies, aux
    <2>3. ASSUME Calm PROVE Pristine'
      <3>1. Untouched' = Untouched /\ Untouched \subseteq Paths
        BY <2>2 DEF Untouched
      <3>2. CASE RollbackAttempt
        <4>1. Pristine
          BY <2>3, <3>2 DEF CleanInv, RollbackClean, RollbackAttempt
        <4>2. workspace' = restore_attempt_writes(workspace, st.attempt_baseline,
                                                  st.attempt_written)
          BY <3>2 DEF RollbackAttempt
        <4>3. \A p \in Untouched : st.attempt_written[p] # Keep
                 => BaselineContent(st.attempt_baseline, p) = Head[p]
          BY <2>3, <3>1, <1>b, <1>c DEF BaselineContent, BaselineIsHead, Tree
        <4> QED BY <3>1, <4>1, <4>2, <4>3 DEF restore_attempt_writes, Pristine
      <3>3. CASE RollbackCopies
        <4>1. workspace' = CopyBack(workspace, snapshots[batch])
          BY <3>3 DEF RollbackCopies
        <4>2. \A p \in Untouched : workspace[p] = Absent
          BY <2>3, <3>3 DEF CleanInv, RollbackClean, RollbackCopies
        <4> QED BY <2>3, <3>1, <4>1, <4>2, <1>c DEF CopyBack, Pristine
      <3> QED BY <1>1, <3>2, <3>3
    <2> HIDE DEF s
    <2> DEFINE n == after_rollback(s)
    <2>4. n \in {"failed", "supervise"} /\ Return(s, n)
      BY <2>2 DEF after_rollback
    <2> HIDE DEF n
    <2>5. Calm => BaselineIsHead(s)
      BY <2>1, <1>c DEF BaselineIsHead
    <2> QED BY <2>1, <2>2, <2>3, <2>4, <2>5, <1>0, ReturnClean DEF Snapshotted
  <1>2. CASE RollbackClears
    <2>1. /\ UNCHANGED <<node, st, snapshots, todo, touched, foreign, crashes>>
          /\ step = "idle" /\ step' = "restore" /\ workspace' = EmptyTree
          /\ ~(apply_failed /\ st.attempted)
      BY <1>2 DEF RollbackClears, aux
    <2>2. /\ batch' = batch /\ Untouched' = Untouched /\ Calm' = Calm
          /\ apply_failed' = apply_failed
      BY <2>1 DEF batch, Untouched, Calm, apply_failed
    <2>3. ProgressInv'
      BY <2>1, <2>2 DEF CleanInv, ProgressInv
    <2>4. ASSUME Calm PROVE SnapshotClean' /\ ApplyClean' /\ RollbackClean'
      <3>1. \A p \in Untouched : workspace'[p] = Absent
        BY <2>1 DEF EmptyTree, Untouched
      <3> QED BY <3>1, <2>1, <2>2, <2>4, <1>a
              DEF CleanInv, SnapshotClean, ApplyClean, RollbackClean
    <2> QED BY <2>1, <2>2, <2>3, <2>4, <1>a DEF CleanInv
  <1>3. CASE RollbackFails
    <2> DEFINE s == [Fail(st, "infrastructure", "rollback") EXCEPT !.phase = "rollback"]
    <2>1. /\ s.supervisor_batch = batch /\ s.attempt_written = st.attempt_written
          /\ s.attempt_baseline = st.attempt_baseline /\ s.status = "failed"
          /\ s.failure_stage = "rollback"
      BY <1>0, StateDomain DEF Fail
    <2>2. /\ Return(s, after_rollback(s)) /\ UNCHANGED <<snapshots, touched, foreign, crashes>>
      BY <1>3 DEF RollbackFails, disk, aux
    <2> HIDE DEF s
    <2>3. after_rollback(s) = "failed"
      BY <2>1 DEF after_rollback
    <2>4. Calm => BaselineIsHead(s)
      BY <2>1, <1>c DEF BaselineIsHead
    <2> QED BY <2>1, <2>2, <2>3, <2>4, <1>0, ReturnClean DEF Snapshotted, Untroubled
  <1> QED BY <1>1, <1>2, <1>3 DEF Rollback

\* finalize and failed write no file and keep what the run reports.
LEMMA EndClean ==
  ASSUME RepairInv, CleanInv, RepairInv', finalize \/ failed
  PROVE  CleanInv'
  <1>0. EvoCIState(st) /\ st.supervisor_batch = batch /\ batch \in Int
    BY BeforeApply
  <1>a. /\ UNCHANGED <<workspace, snapshots, touched, foreign, crashes>>
        /\ Pristine' = Pristine
    BY DEF finalize, failed, disk, aux, Pristine, Untouched
  <1>1. CASE finalize
    <2>1. st.decision = "dispatch"
      BY <1>1 DEF finalize, RepairInv, AcceptedInv
    <2> DEFINE s1 == [st EXCEPT !.phase = "finalize", !.status = "success"]
               s2 == [st EXCEPT !.phase = "finalize", !.status = "success",
                                !.failure_class = "none", !.failure_stage = "none"]
    <2>2. \A s \in {s1, s2} :
            /\ s.supervisor_batch = batch /\ s.attempt_written = st.attempt_written
            /\ s.attempt_baseline = st.attempt_baseline /\ s.status = "success"
      BY <1>0, StateDomain
    <2>3. PICK s \in {s1, s2} : Return(s, "end")
      BY <1>1, <2>1 DEF finalize
    <2>4. /\ s.supervisor_batch = batch /\ s.attempt_written = st.attempt_written
          /\ s.attempt_baseline = st.attempt_baseline /\ s.status = "success"
      BY <2>2
    <2>5. Return(s, "end")
      BY <2>3
    <2> HIDE DEF s1, s2
    <2>6. Calm => BaselineIsHead(s)
      BY <2>4 DEF CleanInv, RollbackClean, BaselineIsHead
    <2> QED BY <2>4, <2>5, <2>6, <1>0, <1>a, ReturnClean DEF Snapshotted, Untroubled
  <1>2. CASE failed
    <2> DEFINE f == Fail(st, resolve_failure_class, StageOf)
               s == [f EXCEPT !.phase = "failed"]
    <2>1. /\ DOMAIN f = DOMAIN st
          /\ f.supervisor_batch = batch /\ f.attempt_written = st.attempt_written
          /\ f.attempt_baseline = st.attempt_baseline /\ f.verification = st.verification
          /\ f.failure_stage = StageOf
      BY <1>0, StateDomain DEF Fail
    <2>2. Return(s, "end") /\ node = "failed"
      BY <1>2 DEF failed
    <2> HIDE DEF f
    <2>3. /\ s.supervisor_batch = batch /\ s.attempt_written = st.attempt_written
          /\ s.attempt_baseline = st.attempt_baseline /\ s.verification = st.verification
          /\ s.failure_stage = StageOf
      BY <2>1, <1>0, StateDomain
    <2> HIDE DEF s
    <2>4. Calm => BaselineIsHead(s)
      BY <2>3 DEF CleanInv, RollbackClean, BaselineIsHead
    <2>5. Calm => \/ Pristine \/ s.verification \in {"infra_error", "inconclusive"}
                  \/ s.failure_stage = "rollback"
      BY <2>2, <2>3 DEF CleanInv, CleanOrReported, StageOf
    <2> QED BY <2>2, <2>3, <2>4, <2>5, <1>0, <1>a, ReturnClean DEF Snapshotted, Untroubled
  <1> QED BY <1>1, <1>2

\* A third-party edit disturbs only the file that is written.
LEMMA ForeignEditClean ==
  ASSUME RepairInv, CleanInv, RepairInv', ForeignEdit
  PROVE  CleanInv'
  <1>1. PICK p \in Paths, c \in Content :
           workspace' = [workspace EXCEPT ![p] = c] /\ touched' = touched \cup {p}
    BY DEF ForeignEdit
  <1>2. /\ UNCHANGED <<node, st, snapshots, step, todo, written, crashes>>
        /\ foreign' = foreign + 1 /\ foreign \in Nat /\ workspace \in Tree
    BY ConstantsAssumption DEF ForeignEdit, local, RepairInv, TypeOK
  <1>3. /\ Untouched' \subseteq Untouched /\ Untouched \subseteq Paths
        /\ \A q \in Untouched' : workspace'[q] = workspace[q]
    BY <1>1, <1>2 DEF Untouched, Tree
  <1>4. foreign' # 0 /\ (Calm' => Calm /\ crashes = 0)
    BY <1>2 DEF Calm
  <1>5. /\ batch' = batch /\ edits' = edits /\ InScope' = InScope
        /\ EditedPaths(edits') = EditedPaths(edits) /\ apply_failed' = apply_failed
    BY <1>2 DEF batch, edits, InScope, apply_failed
  <1>6. ProgressInv'
    BY <1>2, <1>4, <1>5 DEF CleanInv, ProgressInv
  <1>7. ASSUME Calm' PROVE SnapshotClean'
    BY <1>2, <1>3, <1>4, <1>5, <1>7 DEF CleanInv, SnapshotClean
  <1>8. ASSUME Calm' PROVE ApplyClean'
    <2>1. CASE node = "apply_candidate"
      <3>1. /\ \A q \in Untouched : workspace[q] # Head[q] => workspace[q] = edits[q] /\ InScope
            /\ \A q, r \in Untouched \cap EditedPaths(edits) :
                 q < r /\ workspace[r] # Head[r] => workspace[q] = edits[q]
            /\ step \in {"apply", "write"} => \A q \in Untouched \cap EditedPaths(edits) :
                 q \notin todo => workspace[q] = edits[q]
            /\ \A q \in Untouched : workspace[q] # Head[q] =>
                 step \in {"apply", "write"} /\ q \notin todo
        BY <2>1, <1>4, <1>8 DEF CleanInv, ApplyClean
      <3> QED BY <3>1, <1>2, <1>3, <1>5 DEF ApplyClean
    <2> QED BY <2>1, <1>2 DEF ApplyClean
  <1>9. ASSUME Calm' PROVE RollbackClean'
    BY <1>2, <1>3, <1>4, <1>5, <1>9 DEF CleanInv, RollbackClean, Pristine
  <1>10. Pristine => Pristine'
    BY <1>3 DEF Pristine
  <1>11. CleanOrReported => CleanOrReported'
    BY <1>2, <1>10 DEF CleanOrReported
  <1> QED BY <1>2, <1>4, <1>6, <1>7, <1>8, <1>9, <1>10, <1>11 DEF CleanInv

\* A crash loses the step, a cancellation undoes it; the node runs again.
LEMMA CrashClean ==
  ASSUME RepairInv, CleanInv, RepairInv', Crash \/ Cancel
  PROVE  CleanInv'
  <1>1. /\ UNCHANGED <<node, st, snapshots, touched, foreign>> /\ crashes' = crashes + 1
        /\ step # "idle" /\ step' = "idle" /\ todo' = {} /\ crashes \in Nat
        /\ step = "copy" => workspace' = workspace /\ (~CopyCrashes => todo = {})
    BY ConstantsAssumption DEF Crash, Cancel, Idle, disk, RepairInv, TypeOK
  <1>2. /\ node \in {"prepare_task", "apply_candidate", "verify", "rollback"}
        /\ node = "prepare_task" => step = "copy" /\ workspace' = workspace
        /\ node = "apply_candidate" => step \in {"apply", "write"}
        /\ node = "rollback" => step = "restore"
    BY <1>1 DEF RepairInv, ControlInv, TypeOK
  <1>3. crashes' # 0 /\ (Calm' => Calm /\ crashes = 0 /\ ~CopyCrashes)
    BY <1>1 DEF Calm
  <1>4. /\ batch' = batch /\ edits' = edits /\ InScope' = InScope
        /\ EditedPaths(edits') = EditedPaths(edits) /\ apply_failed' = apply_failed
        /\ Untouched' = Untouched
    BY <1>1 DEF batch, edits, InScope, apply_failed, Untouched
  <1>5. ProgressInv'
    BY <1>1, <1>2, <1>4 DEF CleanInv, ProgressInv
  <1>6. ASSUME Calm' PROVE SnapshotClean'
    BY <1>1, <1>2, <1>3, <1>4, <1>6 DEF CleanInv, SnapshotClean
  <1>7. ASSUME Calm' PROVE ApplyClean'
    <2>1. CASE node = "apply_candidate" /\ Cancel
      <3>1. /\ step \in {"apply", "write"}
            /\ workspace' = restore_attempt_writes(workspace, plans[batch], written)
        BY <2>1, <1>2 DEF Cancel
      <3>2. written \in Patch /\ Wrote(written)
        BY <3>1, AttemptFacts DEF Wrote
      <3>3. \A q \in EditedPaths(edits) : q \notin todo => written[q] = edits[q]
        BY <3>1 DEF CleanInv, ProgressInv
      <3>4. \A q \in Untouched : workspace'[q] = Head[q]
        BY <3>1, <3>2, <3>3, <1>3, <1>7, UndoCleans
      <3> QED BY <3>4, <1>1, <1>4 DEF ApplyClean
    <2>2. CASE node = "apply_candidate" /\ Crash
      <3>1. workspace' = workspace
        BY <2>2 DEF Crash, disk
      <3>2. /\ \A q \in Untouched : workspace[q] # Head[q] => workspace[q] = edits[q] /\ InScope
            /\ \A q, r \in Untouched \cap EditedPaths(edits) :
                 q < r /\ workspace[r] # Head[r] => workspace[q] = edits[q]
        BY <2>2, <1>3, <1>7 DEF CleanInv, ApplyClean
      <3> QED BY <3>1, <3>2, <1>1, <1>3, <1>4 DEF ApplyClean
    <2>3. CASE node # "apply_candidate"
      BY <2>3, <1>1 DEF ApplyClean
    <2> QED BY <2>1, <2>2, <2>3
  <1>8. ASSUME Calm' PROVE RollbackClean'
    <2>1. node = "rollback" => ~(apply_failed /\ st.attempted)
      BY <1>2 DEF CleanInv, ProgressInv
    <2> QED BY <2>1, <1>1, <1>3, <1>4, <1>8 DEF CleanInv, RollbackClean
  <1>9. Calm' /\ node = "prepare_task" => Pristine'
    BY <1>2, <1>3, <1>4 DEF CleanInv, Pristine
  <1> QED BY <1>1, <1>2, <1>5, <1>6, <1>7, <1>8, <1>9 DEF CleanInv

\* A step that changes nothing keeps the workspace clean.
LEMMA StutterClean ==
  ASSUME CleanInv, UNCHANGED vars
  PROVE  CleanInv'
  <1>1. /\ UNCHANGED <<node, st, workspace, snapshots, step, todo, written, touched,
                       foreign, crashes>>
        /\ batch' = batch /\ edits' = edits /\ InScope' = InScope
        /\ apply_failed' = apply_failed
    BY DEF vars, disk, local, aux, batch, edits, InScope, apply_failed
  <1>2. Untouched' = Untouched /\ Calm' = Calm /\ Pristine' = Pristine
    BY <1>1 DEF Untouched, Calm, Pristine
  <1>3. CleanOrReported' = CleanOrReported
    BY <1>1, <1>2 DEF CleanOrReported
  <1>4. ProgressInv'
    BY <1>1 DEF CleanInv, ProgressInv
  <1>5. Calm => SnapshotClean' /\ RollbackClean'
    BY <1>1, <1>2 DEF CleanInv, SnapshotClean, RollbackClean
  <1>6. Calm => ApplyClean'
    BY <1>1, <1>2 DEF CleanInv, ApplyClean
  <1> QED BY <1>1, <1>2, <1>3, <1>4, <1>5, <1>6 DEF CleanInv

\* A run starts with a clean workspace.
LEMMA InitialClean ==
  ASSUME Init
  PROVE  CleanInv
  <1>1. /\ st.status = "running" /\ st.attempt_written = NoPatch
    BY DEF Init, InitialState
  <1>2. ProgressInv
    BY DEF Init, ProgressInv
  <1>3. SnapshotClean /\ ApplyClean /\ Pristine
    BY DEF Init, SnapshotClean, ApplyClean, Pristine, Untouched
  <1>4. RollbackClean
    BY <1>1 DEF Init, RollbackClean, Untouched, NoPatch
  <1> QED BY <1>2, <1>3, <1>4 DEF Init, CleanInv

\* No step of the graph or of its environment leaves a trace behind.
LEMMA NextClean ==
  ASSUME RepairInv, RepairInv', CleanInv, [Next]_vars
  PROVE  CleanInv'
  BY SuperviseClean, PrepareClean, WorkerClean, ApprovalClean, ApplyCandidateClean,
     VerifyClean, RollbackCleans, EndClean, ForeignEditClean, CrashClean, StutterClean
     DEF Next, Graph, Environment, Done

\* The workspace, the snapshots and the recorded attempt fit together after every
\* step of a run without crash or cancellation, whatever third parties write, and
\* of one that nobody else writes to and that is interrupted once, outside a copy.
THEOREM WorkspaceStaysClean == Spec => []CleanInv
  <1>1. Init => CleanInv
    BY InitialClean
  <1>2. RepairInv /\ RepairInv' /\ CleanInv /\ [Next]_vars => CleanInv'
    BY NextClean
  <1> QED BY <1>1, <1>2, InvariantHolds, PTL DEF Spec

\* Supervisor and Worker never see a file of a rejected candidate (under Calm:
\* the case it leaves out is the one in which the code lets them).
THEOREM RejectedCandidatesLeaveNoTrace == Spec => []RejectedLeavesNoTrace
  <1>1. CleanInv => RejectedLeavesNoTrace
    BY DEF CleanInv, RejectedLeavesNoTrace
  <1> QED BY <1>1, WorkspaceStaysClean, PTL

\* A failed run gives the workspace back, or says why it may not have (under Calm).
THEOREM FailedRunsAreClean == Spec => []FailedRunIsClean
  <1>1. CleanInv => FailedRunIsClean
    BY DEF CleanInv, FailedRunIsClean
  <1> QED BY <1>1, WorkspaceStaysClean, PTL
=============================================================================
