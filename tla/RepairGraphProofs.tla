------------------------- MODULE RepairGraphProofs -------------------------
(***************************************************************************)
(* Proofs about RepairGraph, for every set of files, contents, tasks and   *)
(* proposals, any number of batches, third-party edits, crashes and        *)
(* cancellations.  RepairInv is inductive; there is one lemma per node.    *)
(* A node ends in Return, so most steps are one of four cases: it leaves   *)
(* for a node that makes no promise (LeaveNode, QuietLeave) or enters one  *)
(* that relies on the dispatched task (EnterNode, QuietEnter); the "quiet" *)
(* ones write no file.                                                     *)
(***************************************************************************)
EXTENDS RepairGraph, TLAPS

\* The empty patch and tree, and what the file helpers return, have their types.
LEMMA Shapes ==
  /\ NoPatch \in Patch /\ EmptyTree \in Tree
  /\ NoOutput \in FixerOutputs
  /\ \A root \in Tree, e \in Patch : snapshot_edit_baseline(root, e) \in Patch
  /\ \A root \in Tree, e \in Patch, w \in Patch : restore_attempt_writes(root, e, w) \in Tree
  /\ \A root \in Tree, e \in Tree : CopyBack(root, e) \in Tree
  <1>1. NoPatch \in Patch /\ EmptyTree \in Tree
    BY DEF NoPatch, Patch, EmptyTree, Tree, Content
  <1>2. NoOutput \in FixerOutputs
    BY <1>1 DEF NoOutput, FixerOutputs
  <1>3. \A root \in Tree, e \in Patch : snapshot_edit_baseline(root, e) \in Patch
    BY DEF snapshot_edit_baseline, Tree, Patch
  <1>4. \A root \in Tree, e \in Patch, w \in Patch : restore_attempt_writes(root, e, w) \in Tree
    BY DEF restore_attempt_writes, BaselineContent, Tree, Patch, Content
  <1>5. \A root \in Tree, e \in Tree : CopyBack(root, e) \in Tree
    BY DEF CopyBack, Tree
  <1> QED BY <1>1, <1>2, <1>3, <1>4, <1>5

\* The node and failure-class names used in the actions are declared ones.
LEMMA Names ==
  /\ \A n \in {"bootstrap", "retrieve_context", "supervise", "prepare_task", "worker",
               "approval", "apply_candidate", "verify", "rollback", "finalize", "failed",
               "end"} : n \in Nodes
  /\ \A c \in {"repair", "model", "budget", "policy", "infrastructure"} : c \in FailureClasses
  BY DEF Nodes, FailureClasses

\* Where each conditional edge of the graph may lead.
LEMMA EdgeTypes ==
  ASSUME NEW s
  PROVE  /\ after_supervise(s) \in {"failed", "finalize", "prepare_task"}
         /\ after_prepare(s) \in {"failed", "supervise", "worker"}
         /\ after_worker(s) \in {"failed", "supervise", "approval"}
         /\ after_approval(s) \in {"failed", "apply_candidate"}
         /\ after_apply(s) \in {"failed", "rollback", "verify"}
         /\ after_verify(s) \in {"failed", "finalize", "rollback"}
         /\ after_rollback(s) \in {"failed", "supervise"}
  BY DEF after_supervise, after_prepare, after_worker, after_approval, after_apply,
         after_verify, after_rollback

\* Recording a failure keeps the checkpoint well formed.
LEMMA FailType ==
  ASSUME NEW s, EvoCIState(s), NEW c \in FailureClasses, NEW g \in Nodes
  PROVE  EvoCIState(Fail(s, c, g))
  BY DEF Fail, EvoCIState, InitialState

\* A returning node leaves a well-formed checkpoint and no local state.
LEMMA ReturnType ==
  ASSUME NEW s, EvoCIState(s), NEW n \in Nodes, Return(s, n)
  PROVE  /\ node' \in Nodes /\ EvoCIState(st')
         /\ step' \in {"idle", "copy", "apply", "write", "verify", "tested", "restore"}
         /\ todo' \in SUBSET Paths /\ written' \in Patch
         /\ sid' \in Tree \cup {NoTree} /\ copy' \in Tree \cup {NoTree}
  BY Shapes DEF Return, Idle

\* The fields of a checkpoint, as EXCEPT needs them.
LEMMA StateDomain ==
  ASSUME NEW s, EvoCIState(s)
  PROVE  DOMAIN s = {"phase", "status", "failure_class", "failure_stage", "last_class",
            "budget_failed", "supervisor_batch", "decision", "tasks", "worker_task",
            "completed_task_ids", "result", "artifact", "fixer_output", "approved",
            "batch_conflict", "attempted", "attempt_baseline", "attempt_written",
            "verification", "verification_snapshot_id", "failed_candidates"}
  BY DEF EvoCIState, InitialState

\* A node that leaves for retrieve_context, supervise, failed or the end keeps
\* the invariant, whatever it did to the workspace, unless it claims success.
LEMMA LeaveNode ==
  ASSUME RepairInv, NEW s, EvoCIState(s),
         NEW n \in {"retrieve_context", "supervise", "failed", "end"}, Return(s, n),
         workspace' \in Tree, UNCHANGED <<snapshots, plans, touched, unseen, foreign, crashes>>,
         consent' \in 0..MaxBatches,
         s.status # "success",
         s.verification = "passed" => n = "end" \/ (n = "failed" /\ s.status = "failed"),
         n \in {"retrieve_context", "supervise"} => s.status = "running",
         s.supervisor_batch >= batch
  PROVE  RepairInv'
  <1>1. TypeOK'
    BY ReturnType, Names DEF RepairInv, TypeOK
  <1>2. /\ st' = s /\ node' = n /\ step' = "idle" /\ touched' = touched
        /\ plans' = plans /\ batch' = s.supervisor_batch
    BY DEF Return, Idle, batch
  <1>3. ControlInv' /\ PassInv' /\ TestedInv' /\ AcceptedInv' /\ ConsentInv'
    BY <1>2 DEF ControlInv, PassInv, TestedInv, AcceptedInv, ConsentInv
  <1>4. \A b \in Batches : b > batch' => plans'[b] = NoTree
    BY <1>1, <1>2, ConstantsAssumption DEF RepairInv, PlanInv, TypeOK, EvoCIState, Batches, batch
  <1>5. PlanInv'
    BY <1>2, <1>4 DEF PlanInv
  <1> QED BY <1>1, <1>3, <1>5 DEF RepairInv

\* The same for a node that wrote no file.
LEMMA QuietLeave ==
  ASSUME RepairInv, NEW s, EvoCIState(s),
         NEW n \in {"retrieve_context", "supervise", "failed", "end"}, Return(s, n),
         UNCHANGED <<disk, aux>>, s.status # "success",
         s.verification = "passed" => n = "end" \/ (n = "failed" /\ s.status = "failed"),
         n \in {"retrieve_context", "supervise"} => s.status = "running",
         s.supervisor_batch >= batch
  PROVE  RepairInv'
  <1>1. workspace' \in Tree /\ consent' \in 0..MaxBatches
    BY DEF disk, aux, RepairInv, TypeOK
  <1> QED BY <1>1, LeaveNode DEF disk, aux

\* A node that moves on with the dispatched repair task keeps the invariant.
LEMMA EnterNode ==
  ASSUME RepairInv, node \in {"worker", "approval", "apply_candidate", "verify"},
         NEW s, EvoCIState(s),
         NEW n \in {"approval", "apply_candidate", "verify", "rollback"}, Return(s, n),
         workspace' \in Tree, UNCHANGED <<snapshots, plans, touched, unseen, foreign, crashes>>,
         consent' \in 0..MaxBatches,
         s.status # "success",
         s.verification = "passed" => n = "rollback" /\ s.batch_conflict,
         s.supervisor_batch = batch, s.decision = st.decision, s.tasks = st.tasks,
         s.worker_task = st.worker_task, s.worker_task.kind = "repair",
         n = "approval" => plans[batch] = NoTree,
         n = "apply_candidate" =>
            /\ plans[batch] = NoTree
            /\ HasEdits(s.fixer_output) /\ requires_approval(s.fixer_output) => consent' = batch
  PROVE  RepairInv'
  <1>1. TypeOK'
    BY ReturnType, Names DEF RepairInv, TypeOK
  <1>2. /\ st' = s /\ node' = n /\ step' = "idle" /\ touched' = touched /\ plans' = plans
        /\ snapshots' = snapshots /\ batch' = batch
    BY DEF Return, Idle, batch
  <1>3. ControlInv'
    BY <1>2 DEF RepairInv, ControlInv
  <1>4. PassInv' /\ TestedInv' /\ AcceptedInv'
    BY <1>2 DEF PassInv, TestedInv, AcceptedInv
  <1>5. ConsentInv'
    BY <1>2 DEF ConsentInv, HasEdits, requires_approval
  <1>6. PlanInv'
    BY <1>2 DEF RepairInv, PlanInv
  <1> QED BY <1>1, <1>3, <1>4, <1>5, <1>6 DEF RepairInv

\* The same for a node that wrote no file.
LEMMA QuietEnter ==
  ASSUME RepairInv, node \in {"worker", "approval", "apply_candidate", "verify"},
         NEW s, EvoCIState(s),
         NEW n \in {"approval", "apply_candidate", "verify", "rollback"}, Return(s, n),
         UNCHANGED <<disk, aux>>, s.status # "success",
         s.verification = "passed" => n = "rollback" /\ s.batch_conflict,
         s.supervisor_batch = batch, s.decision = st.decision, s.tasks = st.tasks,
         s.worker_task = st.worker_task, s.worker_task.kind = "repair",
         n = "approval" => plans[batch] = NoTree,
         n = "apply_candidate" =>
            /\ plans[batch] = NoTree
            /\ HasEdits(s.fixer_output) /\ requires_approval(s.fixer_output) => consent = batch
  PROVE  RepairInv'
  <1>1. workspace' \in Tree /\ consent' \in 0..MaxBatches /\ consent' = consent
    BY DEF disk, aux, RepairInv, TypeOK
  <1> QED BY <1>1, EnterNode DEF disk, aux

\* What the invariant gives in a node that runs before a verdict.
LEMMA Running ==
  ASSUME RepairInv
  PROVE  /\ EvoCIState(st) /\ batch = st.supervisor_batch /\ batch \in 0..MaxBatches
         /\ node \notin {"finalize", "end", "rollback", "failed"}
              => st.verification # "passed" /\ st.status # "success"
  BY DEF RepairInv, TypeOK, EvoCIState, batch, PassInv

\* bootstrap and retrieve_context keep the invariant.
LEMMA StartStep ==
  ASSUME RepairInv, bootstrap \/ retrieve_context
  PROVE  RepairInv'
  <1>0. EvoCIState(st) /\ st.supervisor_batch = batch /\ batch \in Int
    BY Running, ConstantsAssumption
  <1>1. CASE bootstrap
    <2> DEFINE s == [st EXCEPT !.phase = "bootstrap", !.status = "running"]
    <2>1. EvoCIState(s)
      BY <1>0, Names DEF EvoCIState, InitialState
    <2>2. s.status = "running" /\ s.verification = st.verification /\ s.supervisor_batch = batch
      BY <1>0, StateDomain
    <2>3. st.verification # "passed" /\ Return(s, "retrieve_context") /\ UNCHANGED <<disk, aux>>
      BY <1>1, Running DEF bootstrap
    <2> HIDE DEF s
    <2> QED BY <2>1, <2>2, <2>3, <1>0, QuietLeave
  <1>2. CASE retrieve_context
    <2> DEFINE s == [st EXCEPT !.phase = "retrieve_context"]
    <2>1. EvoCIState(s)
      BY <1>0, Names DEF EvoCIState, InitialState
    <2>2. s.status = st.status /\ s.verification = st.verification /\ s.supervisor_batch = batch
      BY <1>0, StateDomain
    <2>3. /\ st.verification # "passed" /\ st.status = "running"
          /\ Return(s, "supervise") /\ UNCHANGED <<disk, aux>>
      BY <1>2, Running DEF retrieve_context, RepairInv, ControlInv
    <2> HIDE DEF s
    <2> QED BY <2>1, <2>2, <2>3, <1>0, QuietLeave
  <1> QED BY <1>1, <1>2

\* supervise keeps the invariant: a stop never reaches finalize.
LEMMA SuperviseStep ==
  ASSUME RepairInv, Supervise
  PROVE  RepairInv'
  <1>0. /\ EvoCIState(st) /\ st.supervisor_batch = batch /\ batch \in 0..MaxBatches
        /\ NextBatch = batch + 1 /\ MaxBatches \in Nat
    BY Running, ConstantsAssumption DEF NextBatch
  <1>a. node = "supervise" /\ UNCHANGED <<disk, aux>>
    BY DEF Supervise, SuperviseOutOfBatches, SuperviseError, SuperviseDecides
  <1>b. st.verification # "passed" /\ st.status # "success"
    BY <1>a, Running
  <1>1. CASE SuperviseOutOfBatches
    <2> DEFINE s == [Fail(st, "budget", "supervise") EXCEPT !.phase = "supervise"]
    <2>1. EvoCIState(s)
      BY <1>0, Names, FailType DEF EvoCIState, InitialState
    <2>2. s.status = "failed" /\ s.verification = st.verification /\ s.supervisor_batch = batch
      BY <1>0, StateDomain DEF Fail
    <2>3. Return(s, after_supervise(s))
      BY <1>1 DEF SuperviseOutOfBatches
    <2> HIDE DEF s
    <2>4. after_supervise(s) = "failed"
      BY <2>2 DEF after_supervise
    <2> QED BY <2>1, <2>2, <2>3, <2>4, <1>0, <1>a, <1>b, QuietLeave
  <1>2. CASE SuperviseError
    <2>1. PICK class \in {"budget", "model"} :
            LET s == [Fail(st, class, "supervise") EXCEPT
                         !.phase = "supervise", !.supervisor_batch = NextBatch]
            IN  Return(s, after_supervise(s))
      BY <1>2 DEF SuperviseError
    <2> DEFINE s == [Fail(st, class, "supervise") EXCEPT
                        !.phase = "supervise", !.supervisor_batch = NextBatch]
    <2>2. NextBatch \in 0..MaxBatches
      BY <1>0, <1>2 DEF SuperviseError
    <2>3. EvoCIState(s)
      BY <1>0, <2>2, Names, FailType DEF EvoCIState, InitialState
    <2>4. s.status = "failed" /\ s.verification = st.verification /\ s.supervisor_batch = NextBatch
      BY <1>0, StateDomain DEF Fail
    <2>5. Return(s, after_supervise(s))
      BY <2>1
    <2> HIDE DEF s
    <2>6. after_supervise(s) = "failed"
      BY <2>4 DEF after_supervise
    <2> QED BY <2>3, <2>4, <2>5, <2>6, <1>0, <1>a, <1>b, QuietLeave
  <1>3. CASE SuperviseDecides
    <2>1. PICK task \in Dispatches \cup {NoTask} :
            LET s == [st EXCEPT !.phase = "supervise", !.supervisor_batch = NextBatch,
                         !.decision = IF task = NoTask THEN "stop" ELSE "dispatch",
                         !.tasks = task, !.batch_conflict = FALSE]
            IN  Return(s, after_supervise(s))
      BY <1>3 DEF SuperviseDecides
    <2> DEFINE s == [st EXCEPT !.phase = "supervise", !.supervisor_batch = NextBatch,
                        !.decision = IF task = NoTask THEN "stop" ELSE "dispatch",
                        !.tasks = task, !.batch_conflict = FALSE]
    <2>2. NextBatch \in 1..MaxBatches
      BY <1>0, <1>3 DEF SuperviseDecides
    <2>3. EvoCIState(s)
      BY <1>0, <2>2, Names DEF EvoCIState, InitialState
    <2>4. /\ s.status = st.status /\ s.verification = st.verification
          /\ s.supervisor_batch = NextBatch /\ s.tasks = task
          /\ s.decision = IF task = NoTask THEN "stop" ELSE "dispatch"
      BY <1>0, StateDomain
    <2>5. Return(s, after_supervise(s))
      BY <2>1
    <2> HIDE DEF s
    <2>6. after_supervise(s) \in {"failed", "prepare_task"}
      BY <2>4, <1>b DEF after_supervise, formal_success
    <2>7. CASE after_supervise(s) = "failed"
      BY <2>3, <2>4, <2>5, <2>7, <1>0, <1>a, <1>b, QuietLeave
    <2>8. CASE after_supervise(s) = "prepare_task"
      <3>1. s.decision = "dispatch" /\ task # NoTask
        BY <2>4, <2>8, <1>b DEF after_supervise
      <3>2. TypeOK'
        BY <2>3, <2>5, <2>8, <1>a, ReturnType, Names DEF RepairInv, TypeOK, disk, aux
      <3>3. /\ st' = s /\ node' = "prepare_task" /\ step' = "idle" /\ touched' = touched
            /\ plans' = plans /\ batch' = NextBatch
        BY <2>4, <2>5, <2>8, <1>a DEF Return, Idle, batch, disk, aux
      <3>4. ControlInv'
        BY <3>1, <3>3, <2>2, <2>4 DEF ControlInv, Batches
      <3>5. PassInv' /\ TestedInv' /\ AcceptedInv' /\ ConsentInv'
        BY <3>3, <2>4, <1>b DEF PassInv, TestedInv, AcceptedInv, ConsentInv
      <3>6. \A b \in Batches : b > batch => plans[b] = NoTree
        BY DEF RepairInv, PlanInv
      <3>7. PlanInv'
        BY <3>3, <3>6, <2>2, <1>0 DEF PlanInv, Batches
      <3> QED BY <3>2, <3>4, <3>5, <3>7 DEF RepairInv
    <2> QED BY <2>6, <2>7, <2>8
  <1> QED BY <1>1, <1>2, <1>3 DEF Supervise

\* prepare_task hands over to the Worker once the snapshot exists.
LEMMA PreparedStep ==
  ASSUME RepairInv, node = "prepare_task", snapshots[batch] # NoTree, Prepared,
         UNCHANGED <<disk, aux>>
  PROVE  RepairInv'
  <1>0. EvoCIState(st) /\ st.supervisor_batch = batch /\ batch \in Int
    BY Running, ConstantsAssumption
  <1>1. st.verification # "passed" /\ st.status # "success"
    BY Running
  <1> DEFINE s == [st EXCEPT !.phase = "prepare_task", !.worker_task = st.tasks,
                             !.batch_conflict = FALSE, !.approved = "none"]
  <1>2. EvoCIState(s)
    BY <1>0, Names DEF EvoCIState, InitialState
  <1>3. /\ s.status = st.status /\ s.verification = st.verification
        /\ s.supervisor_batch = batch /\ s.worker_task = st.tasks /\ s.tasks = st.tasks
        /\ s.decision = st.decision /\ s.batch_conflict = FALSE
    BY <1>0, StateDomain
  <1>4. Return(s, after_prepare(s))
    BY DEF Prepared
  <1> HIDE DEF s
  <1>5. after_prepare(s) \in {"failed", "worker"}
    BY <1>3 DEF after_prepare
  <1>6. CASE after_prepare(s) = "failed"
    BY <1>0, <1>1, <1>2, <1>3, <1>4, <1>6, QuietLeave
  <1>7. CASE after_prepare(s) = "worker"
    <2>1. TypeOK'
      BY <1>2, <1>4, <1>7, ReturnType, Names DEF RepairInv, TypeOK, disk, aux
    <2>2. /\ st' = s /\ node' = "worker" /\ step' = "idle" /\ touched' = touched
          /\ plans' = plans /\ snapshots' = snapshots /\ batch' = batch
      BY <1>3, <1>4, <1>7 DEF Return, Idle, batch, disk, aux
    <2>3. ControlInv'
      BY <2>2, <1>3 DEF RepairInv, ControlInv
    <2>4. PassInv' /\ TestedInv' /\ AcceptedInv' /\ ConsentInv'
      BY <2>2, <1>3, <1>1 DEF PassInv, TestedInv, AcceptedInv, ConsentInv
    <2>5. PlanInv'
      BY <2>2 DEF RepairInv, PlanInv
    <2> QED BY <2>1, <2>3, <2>4, <2>5 DEF RepairInv
  <1> QED BY <1>5, <1>6, <1>7

\* prepare_task keeps the invariant: the Worker starts with a snapshot.
LEMMA PrepareStep ==
  ASSUME RepairInv, PrepareTask
  PROVE  RepairInv'
  <1>0. EvoCIState(st) /\ st.supervisor_batch = batch /\ batch \in Int /\ MaxBatches \in Int
    BY Running, ConstantsAssumption
  <1>a. node = "prepare_task"
    BY DEF PrepareTask, PrepareOutOfBudget, PrepareRejects, PrepareReuses, PrepareBegins,
           PrepareCopies, PrepareSaves, PrepareCopyFails, RepairInv, ControlInv
  <1>b. st.verification # "passed" /\ st.status # "success"
    BY <1>a, Running
  <1>1. CASE PrepareOutOfBudget
    <2> DEFINE s == [Fail(st, "budget", "worker") EXCEPT
                        !.last_class = "budget", !.budget_failed = TRUE]
    <2>1. EvoCIState(s)
      BY <1>0, Names, FailType DEF EvoCIState, InitialState
    <2>2. s.status = "failed" /\ s.verification = st.verification /\ s.supervisor_batch = batch
      BY <1>0, StateDomain DEF Fail
    <2>3. Return(s, after_prepare(s)) /\ UNCHANGED <<disk, aux>>
      BY <1>1 DEF PrepareOutOfBudget
    <2> HIDE DEF s
    <2>4. after_prepare(s) = "failed"
      BY <2>2 DEF after_prepare
    <2> QED BY <2>1, <2>2, <2>3, <2>4, <1>0, <1>b, QuietLeave
  <1>2. CASE PrepareRejects
    <2>0. UNCHANGED <<disk, aux>>
      BY <1>2 DEF PrepareRejects
    <2>1. CASE batch < MaxBatches
      <3> DEFINE s == [st EXCEPT !.phase = "prepare_task", !.batch_conflict = TRUE,
                                 !.worker_task = NoTask]
      <3>1. EvoCIState(s)
        BY <1>0, Names DEF EvoCIState, InitialState
      <3>2. /\ s.status = st.status /\ s.verification = st.verification
            /\ s.supervisor_batch = batch /\ s.batch_conflict
        BY <1>0, StateDomain
      <3>3. Return(s, after_prepare(s))
        BY <1>2, <2>1 DEF PrepareRejects
      <3> HIDE DEF s
      <3>4. /\ after_prepare(s) \in {"failed", "supervise"}
            /\ after_prepare(s) = "supervise" => s.status = "running"
        BY <3>1, <3>2, <1>b DEF after_prepare, EvoCIState
      <3> QED BY <3>1, <3>2, <3>3, <3>4, <2>0, <1>0, <1>b, QuietLeave
    <2>2. CASE ~(batch < MaxBatches)
      <3> DEFINE s == Fail(st, "repair", "prepare_task")
      <3>1. EvoCIState(s)
        BY <1>0, Names, FailType
      <3>2. s.status = "failed" /\ s.verification = st.verification /\ s.supervisor_batch = batch
        BY <1>0, StateDomain DEF Fail
      <3>3. Return(s, after_prepare(s))
        BY <1>2, <2>2 DEF PrepareRejects
      <3> HIDE DEF s
      <3>4. after_prepare(s) = "failed"
        BY <3>2 DEF after_prepare
      <3> QED BY <3>1, <3>2, <3>3, <3>4, <2>0, <1>0, <1>b, QuietLeave
    <2> QED BY <2>1, <2>2
  <1>3. CASE PrepareReuses
    BY <1>3, <1>a, PreparedStep DEF PrepareReuses
  <1>4. CASE PrepareBegins \/ PrepareCopies
    <2>1. /\ UNCHANGED <<node, st, workspace, plans, written, sid, copy, aux>>
          /\ step' = "copy" /\ todo' \in SUBSET Paths
      BY <1>4 DEF PrepareBegins, PrepareCopies, RepairInv, TypeOK
    <2>2. batch' = batch /\ batch \in Batches /\ NoTree \notin Tree
      BY <2>1, <1>a, ConstantsAssumption DEF batch, RepairInv, ControlInv
    <2>3. snapshots' \in [Batches -> Tree \cup {NoTree}] /\ snapshots'[batch] # NoTree
      <3>1. CASE PrepareBegins
        BY <3>1, <2>2, Shapes DEF PrepareBegins, RepairInv, TypeOK
      <3>2. CASE PrepareCopies
        <4>1. PICK p \in Paths : snapshots' = [snapshots EXCEPT ![batch][p] = workspace[p]]
          BY <3>2 DEF PrepareCopies
        <4>2. snapshots[batch] \in Tree /\ workspace \in Tree
          BY <3>2, <2>2 DEF PrepareCopies, RepairInv, ControlInv, TypeOK
        <4>3. [snapshots[batch] EXCEPT ![p] = workspace[p]] \in Tree
          BY <4>2 DEF Tree
        <4> QED BY <4>1, <4>3, <2>2 DEF RepairInv, TypeOK
      <3> QED BY <1>4, <3>1, <3>2
    <2>4. TypeOK'
      BY <2>1, <2>3 DEF RepairInv, TypeOK, aux, EvoCIState
    <2>5. ControlInv'
      BY <2>1, <2>2, <2>3, <1>a DEF RepairInv, ControlInv, batch
    <2>6. PassInv' /\ TestedInv' /\ AcceptedInv' /\ ConsentInv'
      BY <2>1, <1>a, <1>b DEF PassInv, TestedInv, AcceptedInv, ConsentInv
    <2>7. PlanInv'
      BY <2>1, <2>2, <1>a DEF RepairInv, PlanInv
    <2> QED BY <2>4, <2>5, <2>6, <2>7 DEF RepairInv
  <1>5. CASE PrepareSaves
    BY <1>5, <1>a, PreparedStep DEF PrepareSaves, RepairInv, ControlInv
  <1>6. CASE PrepareCopyFails
    <2> DEFINE s == Fail(st, "infrastructure", "prepare_task")
    <2>1. EvoCIState(s)
      BY <1>0, Names, FailType
    <2>2. s.status = "failed" /\ s.verification = st.verification /\ s.supervisor_batch = batch
      BY <1>0, StateDomain DEF Fail
    <2>3. Return(s, after_prepare(s)) /\ UNCHANGED <<disk, aux>>
      BY <1>6 DEF PrepareCopyFails
    <2> HIDE DEF s
    <2>4. after_prepare(s) = "failed"
      BY <2>2 DEF after_prepare
    <2> QED BY <2>1, <2>2, <2>3, <2>4, <1>0, <1>b, QuietLeave
  <1> QED BY <1>1, <1>2, <1>3, <1>4, <1>5, <1>6 DEF PrepareTask

\* Whatever the Worker reports, its node leaves to failed, supervise or approval.
LEMMA WorkerDoneStep ==
  ASSUME RepairInv, node = "worker", NEW r, EvoCIState(r), WorkerDone(r),
         UNCHANGED <<disk, aux>>,
         r.status # "success", r.verification = st.verification,
         r.supervisor_batch = batch, r.decision = st.decision, r.tasks = st.tasks,
         r.worker_task = st.worker_task
  PROVE  RepairInv'
  <1>0. EvoCIState(st) /\ st.verification # "passed" /\ batch \in Int
    BY Running, ConstantsAssumption
  <1>1. st.worker_task \in Dispatches
    BY <1>0 DEF RepairInv, ControlInv, EvoCIState
  <1>2. st.worker_task.id \in Nat
    BY <1>1, ConstantsAssumption
  <1> DEFINE s == [r EXCEPT !.completed_task_ids = @ \cup {st.worker_task.id}]
  <1>3. EvoCIState(s)
    BY <1>2 DEF EvoCIState, InitialState
  <1>4. /\ s.status = r.status /\ s.verification = st.verification
        /\ s.supervisor_batch = batch /\ s.decision = st.decision /\ s.tasks = st.tasks
        /\ s.worker_task = st.worker_task
    BY StateDomain
  <1>5. Return(s, after_worker(s))
    BY DEF WorkerDone
  <1> HIDE DEF s
  <1>6. CASE after_worker(s) \in {"failed", "supervise"}
    <2>1. after_worker(s) = "supervise" => s.status = "running"
      BY <1>3, <1>4 DEF after_worker, EvoCIState
    <2> QED BY <2>1, <1>0, <1>3, <1>4, <1>5, <1>6, QuietLeave
  <1>7. CASE after_worker(s) = "approval"
    <2>1. s.worker_task.kind = "repair"
      BY <1>7 DEF after_worker
    <2>2. plans[batch] = NoTree
      BY DEF RepairInv, PlanInv
    <2> QED BY <2>1, <2>2, <1>0, <1>3, <1>4, <1>5, <1>7, QuietEnter
  <1> QED BY <1>6, <1>7, EdgeTypes

\* worker keeps the invariant: only a repair task reaches approval.
LEMMA WorkerStep ==
  ASSUME RepairInv, Worker
  PROVE  RepairInv'
  <1>0. EvoCIState(st) /\ st.supervisor_batch = batch /\ batch \in Nat
    BY Running, ConstantsAssumption
  <1>a. node = "worker" /\ UNCHANGED <<disk, aux>>
    BY DEF Worker, WorkerProposes, WorkerReportsNoEdit, WorkerExhausted, WorkerModelError
  <1>b. st.verification # "passed" /\ st.status # "success"
    BY <1>a, Running
  <1>1. CASE WorkerProposes
    <2>1. PICK proposal \in Proposals, status \in {"completed", "blocked", "budget_exhausted"} :
            WorkerDone([st EXCEPT !.result = status, !.artifact = TRUE,
                   !.fixer_output =
                      [edits |-> proposal.edits, risk |-> proposal.risk, batch |-> batch,
                       base |-> snapshot_edit_baseline(workspace, proposal.edits)]])
      BY <1>1 DEF WorkerProposes
    <2> DEFINE o == [edits |-> proposal.edits, risk |-> proposal.risk, batch |-> batch,
                     base |-> snapshot_edit_baseline(workspace, proposal.edits)]
               r == [st EXCEPT !.result = status, !.artifact = TRUE, !.fixer_output = o]
    <2>2. proposal.edits \in Patch /\ proposal.risk \in {"low", "high"}
      BY ConstantsAssumption
    <2>3. o \in FixerOutputs
      BY <2>2, <1>0, Shapes DEF FixerOutputs, RepairInv, TypeOK
    <2>4. WorkerDone(r)
      BY <2>1
    <2> HIDE DEF o
    <2>5. EvoCIState(r)
      BY <1>0, <2>3 DEF EvoCIState, InitialState
    <2>6. /\ r.status = st.status /\ r.verification = st.verification
          /\ r.supervisor_batch = batch /\ r.decision = st.decision /\ r.tasks = st.tasks
          /\ r.worker_task = st.worker_task
      BY <1>0, StateDomain
    <2> HIDE DEF r
    <2> QED BY <1>a, <1>b, <2>4, <2>5, <2>6, WorkerDoneStep
  <1>2. CASE WorkerReportsNoEdit
    <2>1. PICK status \in {"completed", "blocked"} :
            WorkerDone([st EXCEPT !.result = status, !.artifact = FALSE])
      BY <1>2 DEF WorkerReportsNoEdit
    <2> DEFINE r == [st EXCEPT !.result = status, !.artifact = FALSE]
    <2>5. EvoCIState(r)
      BY <1>0 DEF EvoCIState, InitialState
    <2>6. /\ r.status = st.status /\ r.verification = st.verification
          /\ r.supervisor_batch = batch /\ r.decision = st.decision /\ r.tasks = st.tasks
          /\ r.worker_task = st.worker_task
      BY <1>0, StateDomain
    <2>7. WorkerDone(r)
      BY <2>1
    <2> HIDE DEF r
    <2> QED BY <1>a, <1>b, <2>5, <2>6, <2>7, WorkerDoneStep
  <1>3. CASE WorkerExhausted
    <2>1. PICK raised \in BOOLEAN :
            WorkerDone([(IF raised THEN st ELSE Fail(st, "budget", "worker")) EXCEPT
                         !.result = "budget_exhausted", !.artifact = FALSE,
                         !.last_class = "budget", !.budget_failed = TRUE])
      BY <1>3 DEF WorkerExhausted
    <2> DEFINE f == IF raised THEN st ELSE Fail(st, "budget", "worker")
               r == [f EXCEPT !.result = "budget_exhausted", !.artifact = FALSE,
                         !.last_class = "budget", !.budget_failed = TRUE]
    <2>2. EvoCIState(f)
      BY <1>0, Names, FailType
    <2>3. /\ f.status # "success" /\ f.verification = st.verification
          /\ f.supervisor_batch = batch /\ f.decision = st.decision /\ f.tasks = st.tasks
          /\ f.worker_task = st.worker_task
      BY <1>0, <1>b, StateDomain DEF Fail
    <2>4. WorkerDone(r)
      BY <2>1
    <2> HIDE DEF f
    <2>5. EvoCIState(r)
      BY <2>2, Names DEF EvoCIState, InitialState
    <2>6. /\ r.status = f.status /\ r.verification = st.verification
          /\ r.supervisor_batch = batch /\ r.decision = st.decision /\ r.tasks = st.tasks
          /\ r.worker_task = st.worker_task
      BY <2>2, <2>3, StateDomain
    <2> HIDE DEF r
    <2> QED BY <1>a, <2>3, <2>4, <2>5, <2>6, WorkerDoneStep
  <1>4. CASE WorkerModelError
    <2> DEFINE r == [Fail(st, "model", "worker") EXCEPT
                      !.result = "blocked", !.artifact = FALSE,
                      !.last_class = "model", !.budget_failed = TRUE]
    <2>4. WorkerDone(r)
      BY <1>4 DEF WorkerModelError
    <2>5. EvoCIState(r)
      BY <1>0, Names, FailType DEF EvoCIState, InitialState
    <2>6. /\ r.status = "failed" /\ r.verification = st.verification
          /\ r.supervisor_batch = batch /\ r.decision = st.decision /\ r.tasks = st.tasks
          /\ r.worker_task = st.worker_task
      BY <1>0, StateDomain DEF Fail
    <2> HIDE DEF r
    <2> QED BY <1>a, <2>4, <2>5, <2>6, WorkerDoneStep
  <1> QED BY <1>1, <1>2, <1>3, <1>4 DEF Worker

\* approval keeps the invariant: what needs consent is applied with consent.
LEMMA ApprovalStep ==
  ASSUME RepairInv, Approval
  PROVE  RepairInv'
  <1>0. EvoCIState(st) /\ st.supervisor_batch = batch /\ batch \in 0..MaxBatches /\ batch \in Int
    BY Running, ConstantsAssumption
  <1>a. /\ node = "approval" /\ UNCHANGED <<disk, touched, unseen, foreign, crashes>>
        /\ plans[batch] = NoTree
    BY DEF Approval, ApprovalNotNeeded, ApprovalAnswered, aux, RepairInv, PlanInv
  <1>b. st.verification # "passed" /\ st.status # "success" /\ st.worker_task.kind = "repair"
    BY <1>a, Running DEF RepairInv, ControlInv
  <1>1. CASE ApprovalNotNeeded
    <2> DEFINE s == [st EXCEPT !.phase = "approval", !.approved = "yes"]
    <2>1. EvoCIState(s)
      BY <1>0, Names DEF EvoCIState, InitialState
    <2>2. /\ s.status = st.status /\ s.verification = st.verification
          /\ s.supervisor_batch = batch /\ s.decision = st.decision /\ s.tasks = st.tasks
          /\ s.worker_task = st.worker_task /\ s.fixer_output = st.fixer_output
      BY <1>0, StateDomain
    <2>3. /\ Return(s, after_approval(s)) /\ UNCHANGED <<disk, aux>>
          /\ ~(HasEdits(s.fixer_output) /\ requires_approval(s.fixer_output))
      BY <1>1, <2>2 DEF ApprovalNotNeeded
    <2> HIDE DEF s
    <2>4. CASE after_approval(s) = "failed"
      BY <2>1, <2>2, <2>3, <2>4, <1>0, <1>b, QuietLeave
    <2>5. CASE after_approval(s) = "apply_candidate"
      BY <2>1, <2>2, <2>3, <2>5, <1>0, <1>a, <1>b, QuietEnter
    <2> QED BY <2>4, <2>5, EdgeTypes
  <1>2. CASE ApprovalAnswered
    <2>1. PICK answer \in {"yes", "no"} :
            LET r == [st EXCEPT !.phase = "approval", !.approved = answer]
                s == IF answer = "yes"
                     THEN [r EXCEPT !.status = "running", !.failure_class = "none",
                                    !.failure_stage = "none"]
                     ELSE Fail(r, "policy", "approval")
            IN  /\ Return(s, after_approval(s))
                /\ consent' = IF answer = "yes" THEN batch ELSE consent
      BY <1>2 DEF ApprovalAnswered
    <2> DEFINE r == [st EXCEPT !.phase = "approval", !.approved = answer]
               s == IF answer = "yes"
                    THEN [r EXCEPT !.status = "running", !.failure_class = "none",
                                   !.failure_stage = "none"]
                    ELSE Fail(r, "policy", "approval")
    <2>2. EvoCIState(r)
      BY <1>0, Names DEF EvoCIState, InitialState
    <2>3. /\ r.verification = st.verification /\ r.approved = answer
          /\ r.supervisor_batch = batch /\ r.decision = st.decision /\ r.tasks = st.tasks
          /\ r.worker_task = st.worker_task
      BY <1>0, StateDomain
    <2>4. Return(s, after_approval(s)) /\ consent' = IF answer = "yes" THEN batch ELSE consent
      BY <2>1
    <2> HIDE DEF r
    <2>5. EvoCIState(s)
      <3>1. CASE answer = "yes"
        BY <2>2, <3>1, Names DEF EvoCIState, InitialState
      <3>2. CASE answer = "no"
        BY <2>2, <3>2, Names, FailType
      <3> QED BY <3>1, <3>2
    <2>6. /\ s.status # "success" /\ s.verification = st.verification
          /\ s.supervisor_batch = batch /\ s.decision = st.decision /\ s.tasks = st.tasks
          /\ s.worker_task = st.worker_task
          /\ answer = "no" => s.status = "failed"
      BY <2>2, <2>3, StateDomain DEF Fail
    <2> HIDE DEF s
    <2>7. workspace' \in Tree /\ consent' \in 0..MaxBatches
      BY <1>0, <1>a, <2>4 DEF RepairInv, TypeOK, disk
    <2>8. CASE after_approval(s) = "failed"
      BY <2>4, <2>5, <2>6, <2>7, <2>8, <1>0, <1>a, <1>b, LeaveNode DEF disk
    <2>9. CASE after_approval(s) = "apply_candidate"
      <3>1. consent' = batch
        BY <2>4, <2>6, <2>9 DEF after_approval
      <3> QED BY <2>4, <2>5, <2>6, <2>7, <2>9, <3>1, <1>0, <1>a, <1>b, EnterNode DEF disk
    <2> QED BY <2>8, <2>9, EdgeTypes
  <1> QED BY <1>1, <1>2 DEF Approval

\* apply_candidate returns: the verdict is still open, so any edge is fine.
LEMMA ApplyReturns ==
  ASSUME RepairInv, node = "apply_candidate", NEW s, EvoCIState(s), Return(s, after_apply(s)),
         workspace' \in Tree, UNCHANGED <<snapshots, plans, aux>>,
         s.status = st.status, s.verification = st.verification,
         s.supervisor_batch = batch, s.decision = st.decision, s.tasks = st.tasks,
         s.worker_task = st.worker_task
  PROVE  RepairInv'
  <1>1. /\ st.verification # "passed" /\ st.status # "success" /\ batch \in Int
        /\ st.worker_task.kind = "repair" /\ consent' \in 0..MaxBatches
    BY Running, ConstantsAssumption DEF RepairInv, ControlInv, TypeOK, aux
  <1>2. CASE after_apply(s) = "failed"
    BY <1>1, <1>2, LeaveNode DEF aux
  <1>3. CASE after_apply(s) \in {"rollback", "verify"}
    BY <1>1, <1>3, EnterNode DEF aux
  <1> QED BY <1>2, <1>3, EdgeTypes

\* apply_candidate's conflict handler keeps the invariant.
LEMMA ApplyStopsStep ==
  ASSUME RepairInv, step \in {"apply", "write"}, NEW class \in {"budget", "repair"},
         NEW wrote \in Patch, ApplyStops(class, wrote)
  PROVE  RepairInv'
  <1>0. EvoCIState(st) /\ st.supervisor_batch = batch
    BY Running
  <1>1. node = "apply_candidate" /\ batch \in Batches /\ plans[batch] # NoTree
    BY DEF RepairInv, ControlInv
  <1>2. plans[batch] \in Patch /\ workspace \in Tree 
    BY <1>1 DEF RepairInv, TypeOK
  <1> DEFINE s == [st EXCEPT !.phase = "apply_candidate", !.batch_conflict = TRUE,
                           !.last_class = class, !.failure_stage = "apply_candidate",
                           !.attempted = TRUE, !.attempt_baseline = plans[batch],
                           !.attempt_written = wrote]
  <1>3. EvoCIState(s)
    BY <1>0, <1>2, Names DEF EvoCIState, InitialState
  <1>4. /\ s.status = st.status /\ s.verification = st.verification
        /\ s.supervisor_batch = batch /\ s.decision = st.decision /\ s.tasks = st.tasks
        /\ s.worker_task = st.worker_task
    BY <1>0, StateDomain
  <1>5. Return(s, after_apply(s)) /\ UNCHANGED <<snapshots, plans, aux>>
    BY DEF ApplyStops
  <1>6. workspace' \in Tree
    BY <1>2, Shapes DEF ApplyStops
  <1> HIDE DEF s
  <1> QED BY <1>1, <1>3, <1>4, <1>5, <1>6, ApplyReturns

\* apply_candidate keeps the invariant: the plan is the parent's content.
LEMMA ApplyStep ==
  ASSUME RepairInv, ApplyCandidate
  PROVE  RepairInv'
  <1>0. EvoCIState(st) /\ st.supervisor_batch = batch /\ st.fixer_output \in FixerOutputs
    BY Running DEF EvoCIState
  <1>a. node = "apply_candidate"
    BY DEF ApplyCandidate, ApplyNothing, ApplyOutOfScope, ApplyBegins, ApplyFindsDone,
           ApplyChecks, ApplyWrites, ApplyConflicts, ApplyOutOfBudget, ApplyEditFails, ApplyDone,
           RepairInv, ControlInv
  <1>b. /\ st.verification # "passed" /\ st.status # "success" /\ batch \in Batches
        /\ snapshots[batch] \in Tree /\ workspace \in Tree /\ edits \in Patch
    BY <1>a, <1>0, Running DEF RepairInv, ControlInv, TypeOK, edits, FixerOutputs
  <1>1. CASE ApplyNothing
    <2> DEFINE s == [st EXCEPT !.phase = "apply_candidate"]
    <2>1. EvoCIState(s)
      BY <1>0, Names DEF EvoCIState, InitialState
    <2>2. /\ s.status = st.status /\ s.verification = st.verification
          /\ s.supervisor_batch = batch /\ s.decision = st.decision /\ s.tasks = st.tasks
          /\ s.worker_task = st.worker_task
      BY <1>0, StateDomain
    <2>3. /\ Return(s, after_apply(s)) /\ UNCHANGED <<snapshots, plans, aux>>
          /\ workspace' \in Tree
      BY <1>1, <1>b DEF ApplyNothing, disk
    <2> HIDE DEF s
    <2> QED BY <2>1, <2>2, <2>3, <1>a, ApplyReturns
  <1>2. CASE ApplyOutOfScope
    <2> DEFINE s == [st EXCEPT !.phase = "apply_candidate", !.batch_conflict = TRUE,
                           !.last_class = "repair", !.failure_stage = "apply_candidate"]
    <2>1. EvoCIState(s)
      BY <1>0, Names DEF EvoCIState, InitialState
    <2>2. /\ s.status = st.status /\ s.verification = st.verification
          /\ s.supervisor_batch = batch /\ s.decision = st.decision /\ s.tasks = st.tasks
          /\ s.worker_task = st.worker_task
      BY <1>0, StateDomain
    <2>3. /\ Return(s, after_apply(s)) /\ UNCHANGED <<snapshots, plans, aux>>
          /\ workspace' \in Tree
      BY <1>2, <1>b DEF ApplyOutOfScope, disk
    <2> HIDE DEF s
    <2> QED BY <2>1, <2>2, <2>3, <1>a, ApplyReturns
  <1>3. CASE ApplyBegins
    <2>1. /\ UNCHANGED <<node, st, workspace, snapshots, sid, copy, aux>>
          /\ step' = "apply" /\ todo' = EditedPaths(edits) /\ edits # NoPatch
          /\ written' = NoPatch
          /\ EditedPaths(edits) \subseteq st.worker_task.scope
          /\ step = "idle"
      BY <1>3 DEF ApplyBegins, HasEdits, InScope, edits
    <2>2. batch' = batch /\ edits' = edits
      BY <2>1 DEF batch, edits
    <2> DEFINE baseline == snapshot_edit_baseline(snapshots[batch], edits)
    <2>3. baseline \in Patch /\ baseline # NoTree
      BY <1>b, Shapes, ConstantsAssumption
    <2>4. plans' = IF plans[batch] # NoTree THEN plans ELSE [plans EXCEPT ![batch] = baseline]
      BY <1>3 DEF ApplyBegins
    <2>5. /\ plans' \in [Batches -> Patch \cup {NoTree}] /\ plans'[batch] # NoTree
          /\ plans'[batch] = baseline
          /\ \A b \in Batches : b # batch => plans'[b] = plans[b]
      BY <1>a, <1>b, <2>3, <2>4 DEF RepairInv, TypeOK, PlanInv
    <2>10. written' \in Patch /\ \A p \in Paths : written'[p] = Keep
      BY <2>1, Shapes DEF NoPatch
    <2>6. TypeOK'
      BY <2>1, <2>5, <2>10 DEF RepairInv, TypeOK, aux, EvoCIState, EditedPaths
    <2>7. ControlInv'
      BY <2>1, <2>2, <2>5, <1>a DEF RepairInv, ControlInv, batch, edits
    <2>8. PassInv' /\ TestedInv' /\ AcceptedInv'
      BY <2>1, <1>a, <1>b DEF PassInv, TestedInv, AcceptedInv
    <2>9. ConsentInv'
      BY <2>1, <2>2 DEF RepairInv, ConsentInv, HasEdits, requires_approval, EditedPaths, aux
    <2>11. baseline' = baseline
      BY <2>1, <2>2
    <2>12. \A b \in Batches : b > batch => plans'[b] = NoTree
      BY <2>5, <1>b, ConstantsAssumption DEF RepairInv, PlanInv, Batches
    <2>13. PlanInv'
      BY <2>1, <2>2, <2>5, <2>10, <2>11, <2>12, <1>a DEF PlanInv, EditedPaths
    <2> QED BY <2>6, <2>7, <2>8, <2>9, <2>13 DEF RepairInv
  <1>4. CASE ApplyFindsDone \/ ApplyWrites
    <2>1. PICK p \in Paths : written' = [written EXCEPT ![p] = edits[p]] /\ todo' = todo \ {p}
                              /\ workspace' \in {workspace, [workspace EXCEPT ![p] = edits[p]]}
                              /\ IsFirst(p, todo)
      BY <1>4 DEF ApplyFindsDone, ApplyWrites, disk
    <2>2. /\ UNCHANGED <<node, st, snapshots, plans, sid, copy, aux>>
          /\ step \in {"apply", "write"} /\ step' = "apply"
      BY <1>4 DEF ApplyFindsDone, ApplyWrites, disk
    <2>3. batch' = batch /\ edits' = edits
      BY <2>2 DEF batch, edits
    <2>4. todo \subseteq EditedPaths(edits) /\ written \in Patch /\ todo \subseteq Paths
      BY <2>2 DEF RepairInv, PlanInv, TypeOK
    <2>5. edits[p] # Keep /\ edits[p] \in Content
      BY <2>1, <2>4, <1>b DEF IsFirst, EditedPaths, Patch
    <2>6. workspace' \in Tree /\ written' \in Patch
      BY <2>1, <2>4, <2>5, <1>b DEF Tree, Patch
    <2>7. TypeOK'
      BY <2>1, <2>2, <2>4, <2>6 DEF RepairInv, TypeOK, aux, EvoCIState
    <2>8. ControlInv'
      BY <2>2, <2>3 DEF RepairInv, ControlInv, batch, edits
    <2>9. PassInv' /\ TestedInv' /\ AcceptedInv'
      BY <2>2, <1>a, <1>b DEF PassInv, TestedInv, AcceptedInv
    <2>10. ConsentInv'
      BY <2>2, <2>3 DEF RepairInv, ConsentInv, HasEdits, requires_approval, EditedPaths, aux
    <2>11. \A q \in Paths : written'[q] \in {Keep, edits[q]}
      BY <2>1, <2>2, <2>4 DEF RepairInv, PlanInv, Patch
    <2>12. EditedPaths(edits') = EditedPaths(edits)
      BY <2>3
    <2>13. /\ EditedPaths(edits) \subseteq st.worker_task.scope
           /\ plans[batch] # NoTree => plans[batch] = snapshot_edit_baseline(snapshots[batch], edits)
           /\ \A b \in Batches : b > batch => plans[b] = NoTree
      BY <2>2, <1>a DEF RepairInv, PlanInv
    <2>14. PlanInv'
      BY <2>1, <2>2, <2>3, <2>4, <2>11, <2>12, <2>13, <1>a DEF PlanInv, snapshot_edit_baseline
    <2> QED BY <2>7, <2>8, <2>9, <2>10, <2>14 DEF RepairInv
  <1>5. CASE ApplyConflicts \/ ApplyOutOfBudget \/ ApplyEditFails
    <2>1. written \in Patch /\ \A p \in Paths : [written EXCEPT ![p] = edits[p]] \in Patch
      BY <1>b DEF RepairInv, TypeOK, Patch
    <2>2. PICK class \in {"budget", "repair"}, wrote \in Patch :
             step \in {"apply", "write"} /\ ApplyStops(class, wrote)
      BY <1>5, <2>1 DEF ApplyConflicts, ApplyOutOfBudget, ApplyEditFails
    <2> QED BY <2>2, ApplyStopsStep
  <1>7. CASE ApplyChecks
    <2>1. /\ UNCHANGED <<node, st, workspace, snapshots, plans, todo, written, sid, copy, touched,
                         consent, foreign, crashes>>
          /\ step = "apply" /\ step' = "write" /\ unseen' = {}
      BY <1>7 DEF ApplyChecks, disk
    <2>2. batch' = batch /\ edits' = edits
      BY <2>1 DEF batch, edits
    <2>3. TypeOK'
      BY <2>1 DEF RepairInv, TypeOK, EvoCIState
    <2>4. ControlInv' /\ PassInv' /\ TestedInv' /\ AcceptedInv'
      BY <2>1, <2>2 DEF RepairInv, ControlInv, PassInv, TestedInv, AcceptedInv, batch, edits
    <2>5. ConsentInv'
      BY <2>1, <2>2 DEF RepairInv, ConsentInv, HasEdits, requires_approval, EditedPaths
    <2>6. \E p \in Paths : IsFirst(p, todo) /\ workspace[p] # edits[p]
                             /\ workspace[p] = plans[batch][p]
      BY <1>7 DEF ApplyChecks
    <2>7. \E p \in Paths : IsFirst(p, todo') /\ workspace'[p] # edits'[p]
                             /\ workspace'[p] = plans'[batch'][p]
      BY <2>1, <2>2, <2>6
    <2>8. EditedPaths(edits') = EditedPaths(edits)
      BY <2>2
    <2>9. PlanInv'
      BY <2>1, <2>2, <2>7, <2>8 DEF RepairInv, PlanInv, snapshot_edit_baseline
    <2> QED BY <2>3, <2>4, <2>5, <2>9 DEF RepairInv
  <1>6. CASE ApplyDone
    <2>0. plans[batch] \in Patch /\ written \in Patch
      BY <1>6, <1>b DEF ApplyDone, RepairInv, TypeOK, ControlInv
    <2> DEFINE s == [st EXCEPT !.phase = "apply_candidate", !.attempted = TRUE,
                           !.attempt_baseline = plans[batch], !.attempt_written = written]
    <2>1. EvoCIState(s)
      BY <1>0, <2>0, Names DEF EvoCIState, InitialState
    <2>2. /\ s.status = st.status /\ s.verification = st.verification
          /\ s.supervisor_batch = batch /\ s.decision = st.decision /\ s.tasks = st.tasks
          /\ s.worker_task = st.worker_task
      BY <1>0, StateDomain
    <2>3. /\ Return(s, after_apply(s)) /\ UNCHANGED <<snapshots, plans, aux>>
          /\ workspace' \in Tree
      BY <1>6, <1>b DEF ApplyDone, disk
    <2> HIDE DEF s
    <2> QED BY <2>1, <2>2, <2>3, <1>a, ApplyReturns
  <1> QED BY <1>1, <1>2, <1>3, <1>4, <1>5, <1>6, <1>7 DEF ApplyCandidate

\* What verify records for each outcome.
LEMMA VerifiedAsFacts ==
  ASSUME EvoCIState(st), st.status # "success", sid \in Tree, NEW outcome \in VerificationStatuses
  PROVE  LET s == VerifiedAs(outcome) IN
         /\ EvoCIState(s) /\ s.status # "success"
         /\ s.verification = outcome /\ s.verification_snapshot_id = sid
         /\ s.supervisor_batch = st.supervisor_batch /\ s.decision = st.decision
         /\ s.tasks = st.tasks /\ s.worker_task = st.worker_task
         /\ outcome = "passed" /\ ~s.batch_conflict
              => ~contains_workspace_review_bypass(workspace)
  <1> DEFINE r == [st EXCEPT !.phase = "verify", !.verification = outcome,
                             !.verification_snapshot_id = sid]
  <1>1. EvoCIState(r)
    BY Names DEF EvoCIState, InitialState
  <1>2. /\ r.status = st.status /\ r.verification = outcome /\ r.verification_snapshot_id = sid
        /\ r.supervisor_batch = st.supervisor_batch /\ r.decision = st.decision
        /\ r.tasks = st.tasks /\ r.worker_task = st.worker_task
    BY StateDomain
  <1>3. VerifiedAs(outcome) =
          CASE outcome = "passed" ->
                IF contains_workspace_review_bypass(workspace)
                THEN [r EXCEPT !.batch_conflict = TRUE, !.failure_stage = "verify"]
                ELSE r
          [] outcome = "failed" -> [r EXCEPT !.failure_stage = "verify"]
          [] outcome = "incomplete_budget" ->
                [Fail(r, "budget", "verify") EXCEPT
                    !.last_class = "budget", !.budget_failed = TRUE]
          [] outcome = "unavailable" -> Fail(r, "repair", "verify")
          [] OTHER -> Fail(r, "infrastructure", "verify")
    BY DEF VerifiedAs
  <1> HIDE DEF r
  <1>4. CASE outcome = "passed" /\ contains_workspace_review_bypass(workspace)
    <2>1. VerifiedAs(outcome) = [r EXCEPT !.batch_conflict = TRUE, !.failure_stage = "verify"]
      BY <1>3, <1>4
    <2> DEFINE s == [r EXCEPT !.batch_conflict = TRUE, !.failure_stage = "verify"]
    <2>2. EvoCIState(s)
      BY <1>1, Names DEF EvoCIState, InitialState
    <2>3. /\ s.status = st.status /\ s.verification = outcome /\ s.verification_snapshot_id = sid
          /\ s.supervisor_batch = st.supervisor_batch /\ s.decision = st.decision
          /\ s.tasks = st.tasks /\ s.worker_task = st.worker_task /\ s.batch_conflict
      BY <1>1, <1>2, StateDomain
    <2> HIDE DEF s
    <2> QED BY <2>1, <2>2, <2>3 DEF s
  <1>5. CASE outcome = "passed" /\ ~contains_workspace_review_bypass(workspace)
    BY <1>1, <1>2, <1>3, <1>5
  <1>6. CASE outcome = "failed"
    <2>1. VerifiedAs(outcome) = [r EXCEPT !.failure_stage = "verify"]
      BY <1>3, <1>6
    <2>2. EvoCIState([r EXCEPT !.failure_stage = "verify"])
      BY <1>1, Names DEF EvoCIState, InitialState
    <2> QED BY <2>1, <2>2, <1>1, <1>2, <1>6, StateDomain
  <1>7. CASE outcome = "incomplete_budget"
    <2> DEFINE s == [Fail(r, "budget", "verify") EXCEPT
                        !.last_class = "budget", !.budget_failed = TRUE]
    <2>1. VerifiedAs(outcome) = s
      BY <1>3, <1>7
    <2>2. EvoCIState(s)
      BY <1>1, FailType, Names DEF EvoCIState, InitialState
    <2> QED BY <2>1, <2>2, <1>1, <1>2, <1>7, StateDomain DEF Fail
  <1>8. CASE outcome \notin {"passed", "failed", "incomplete_budget"}
    <2>1. PICK class \in {"repair", "infrastructure"} :
            VerifiedAs(outcome) = Fail(r, class, "verify")
      BY <1>3, <1>8
    <2>2. EvoCIState(Fail(r, class, "verify"))
      BY <1>1, FailType, Names
    <2> QED BY <2>1, <2>2, <1>1, <1>2, <1>8, StateDomain DEF Fail
  <1> QED BY <1>4, <1>5, <1>6, <1>7, <1>8

\* verify keeps the invariant: finalize is entered with a verified workspace.
LEMMA VerifyStep ==
  ASSUME RepairInv, Verify
  PROVE  RepairInv'
  <1>0. EvoCIState(st) /\ st.supervisor_batch = batch /\ batch \in Int
    BY Running, ConstantsAssumption
  <1>a. node = "verify"
    BY DEF Verify, VerifyBegins, VerifyCopies, VerifyEnds, RepairInv, ControlInv
  <1>b. /\ st.verification # "passed" /\ st.status # "success" /\ workspace \in Tree
        /\ st.worker_task.kind = "repair"
    BY <1>a, Running DEF RepairInv, TypeOK, ControlInv
  <1>1. CASE VerifyBegins \/ VerifyCopies
    <2>1. /\ UNCHANGED <<node, st, disk, todo, written, aux>> /\ step' \in {"verify", "tested"}
          /\ sid' \in Tree \cup {NoTree} /\ copy' \in Tree \cup {NoTree}
      BY <1>1, <1>b DEF VerifyBegins, VerifyCopies, RepairInv, TypeOK
    <2>2. batch' = batch /\ edits' = edits
      BY <2>1 DEF batch, edits
    <2>3. TypeOK'
      BY <2>1 DEF RepairInv, TypeOK, aux, disk, EvoCIState
    <2>4. ControlInv'
      BY <2>1, <2>2, <1>a DEF RepairInv, ControlInv, batch, disk
    <2>5. PassInv' /\ AcceptedInv' /\ ConsentInv'
      BY <2>1, <1>a, <1>b DEF PassInv, AcceptedInv, ConsentInv
    <2>6. TestedInv'
      BY <1>1, <1>b, <2>1 DEF VerifyBegins, VerifyCopies, RepairInv, TestedInv, disk, aux
    <2>7. PlanInv'
      BY <2>1, <2>2, <1>a DEF RepairInv, PlanInv, disk
    <2> QED BY <2>3, <2>4, <2>5, <2>6, <2>7 DEF RepairInv
  <1>2. CASE VerifyEnds
    <2>0. /\ step = "tested" /\ UNCHANGED <<disk, aux>> /\ sid \in Tree /\ copy \in Tree
          /\ \A p \in Paths \ touched : sid[p] = workspace[p] /\ copy[p] = workspace[p]
      BY <1>2 DEF VerifyEnds, RepairInv, TestedInv
    <2>1. PICK outcome \in VerificationOutcomes :
            LET s == VerifiedAs(outcome) IN Return(s, after_verify(s))
      BY <1>2 DEF VerifyEnds
    <2>2. outcome \in VerificationStatuses /\ (outcome = "passed" => copy \in Green)
      BY DEF VerificationOutcomes, VerificationStatuses
    <2> DEFINE s == VerifiedAs(outcome)
    <2>3. /\ EvoCIState(s) /\ s.status # "success"
          /\ s.verification = outcome /\ s.verification_snapshot_id = sid
          /\ s.supervisor_batch = batch /\ s.decision = st.decision
          /\ s.tasks = st.tasks /\ s.worker_task = st.worker_task
          /\ outcome = "passed" /\ ~s.batch_conflict
               => ~contains_workspace_review_bypass(workspace)
      BY <1>0, <1>b, <2>0, <2>2, VerifiedAsFacts
    <2>4. Return(s, after_verify(s))
      BY <2>1
    <2> HIDE DEF s
    <2>5. CASE after_verify(s) = "failed"
      <3>1. s.verification # "passed"
        BY <2>5 DEF after_verify
      <3> QED BY <3>1, <2>0, <2>3, <2>4, <2>5, <1>0, QuietLeave
    <2>6. CASE after_verify(s) = "rollback"
      <3>1. s.verification = "passed" => s.batch_conflict
        BY <2>6 DEF after_verify
      <3> QED BY <3>1, <2>0, <2>3, <2>4, <2>6, <1>0, <1>a, <1>b, QuietEnter
    <2>7. CASE after_verify(s) = "finalize"
      <3>1. s.verification = "passed" /\ ~s.batch_conflict /\ copy \in Green
        BY <2>2, <2>3, <2>7 DEF after_verify
      <3>2. TypeOK'
        BY <2>0, <2>3, <2>4, <2>7, ReturnType, Names DEF RepairInv, TypeOK, disk, aux
      <3>3. /\ st' = s /\ node' = "finalize" /\ step' = "idle" /\ touched' = touched
            /\ plans' = plans /\ batch' = batch /\ workspace' = workspace
        BY <2>0, <2>3, <2>4, <2>7 DEF Return, Idle, batch, disk, aux
      <3>4. ControlInv' /\ PassInv' /\ TestedInv' /\ ConsentInv'
        BY <3>3, <2>3 DEF ControlInv, PassInv, TestedInv, ConsentInv
      <3>5. /\ s.decision = "dispatch" /\ s.worker_task = s.tasks
            /\ s.worker_task.kind = "repair"
        BY <2>3, <1>a DEF RepairInv, ControlInv
      <3>6. \A p \in Paths \ touched : workspace[p] \in Bypass => workspace[p] = Head[p]
        BY <3>1, <2>3 DEF contains_workspace_review_bypass
      <3>7. \E tree \in Green : \A p \in Paths \ touched :
              workspace[p] = tree[p] /\ s.verification_snapshot_id[p] = tree[p]
        BY <3>1, <2>0, <2>3
      <3>8. AcceptedInv'
        BY <3>1, <3>3, <3>5, <3>6, <3>7 DEF AcceptedInv
      <3>9. PlanInv'
        BY <3>3 DEF RepairInv, PlanInv
      <3> QED BY <3>2, <3>4, <3>8, <3>9 DEF RepairInv
    <2> QED BY <2>5, <2>6, <2>7, EdgeTypes
  <1> QED BY <1>1, <1>2 DEF Verify

\* rollback keeps the invariant: no rejected pass survives it.
LEMMA RollbackStep ==
  ASSUME RepairInv, Rollback
  PROVE  RepairInv'
  <1>0. /\ EvoCIState(st) /\ st.supervisor_batch = batch /\ batch \in Int
        /\ st.failed_candidates \in SUBSET Batches
    BY Running, ConstantsAssumption DEF EvoCIState
  <1>a. node = "rollback"
    BY DEF Rollback, RollbackAttempt, RollbackClears, RollbackCopies, RollbackFails,
           RepairInv, ControlInv
  <1>b. /\ st.status # "success" /\ (st.verification = "passed" => st.batch_conflict)
        /\ batch \in Batches /\ snapshots[batch] \in Tree /\ workspace \in Tree
        /\ st.attempt_baseline \in Patch /\ st.attempt_written \in Patch
    BY <1>a, <1>0 DEF RepairInv, PassInv, ControlInv, TypeOK, EvoCIState
  <1>1. CASE RollbackAttempt \/ RollbackCopies
    <2> DEFINE r == [st EXCEPT !.phase = "rollback", !.batch_conflict = FALSE,
                        !.failure_stage = StageOf,
                        !.failed_candidates =
                            IF st.artifact THEN @ \cup {batch} ELSE @]
    <2>1. EvoCIState(r)
      <3>1. (IF st.artifact THEN st.failed_candidates \cup {batch} ELSE st.failed_candidates)
               \in SUBSET Batches
        BY <1>0, <1>b
      <3>2. StageOf \in Nodes
        BY <1>0 DEF StageOf, EvoCIState
      <3> QED BY <3>1, <3>2, <1>0, Names DEF EvoCIState, InitialState
    <2>2. r.status = st.status /\ r.verification = st.verification /\ r.supervisor_batch = batch
      BY <1>0, StateDomain
    <2>3. RolledBack = IF st.batch_conflict
                       THEN [r EXCEPT !.verification = "none",
                                      !.verification_snapshot_id = NoTree]
                       ELSE r
      BY DEF RolledBack
    <2> HIDE DEF r
    <2> DEFINE s == RolledBack
    <2>4. EvoCIState(s)
      <3>1. CASE st.batch_conflict
        BY <3>1, <2>1, <2>3 DEF EvoCIState, InitialState
      <3>2. CASE ~st.batch_conflict
        BY <3>2, <2>1, <2>3
      <3> QED BY <3>1, <3>2
    <2>5. s.status = st.status /\ s.verification # "passed" /\ s.supervisor_batch = batch
      BY <2>1, <2>2, <2>3, <1>b, StateDomain
    <2>6. Return(s, after_rollback(s)) /\ UNCHANGED <<snapshots, plans, aux>>
      BY <1>1 DEF RollbackAttempt, RollbackCopies
    <2>7. workspace' \in Tree
      BY <1>1, <1>b, Shapes DEF RollbackAttempt, RollbackCopies
    <2>8. consent' \in 0..MaxBatches /\ UNCHANGED <<snapshots, plans, touched, unseen, foreign, crashes>>
      BY <2>6 DEF aux, RepairInv, TypeOK
    <2> HIDE DEF s
    <2>9. /\ after_rollback(s) \in {"failed", "supervise"}
          /\ after_rollback(s) = "supervise" => s.status = "running"
      BY <2>4, <2>5, <1>b, EdgeTypes DEF after_rollback, EvoCIState
    <2> QED BY <2>4, <2>5, <2>6, <2>7, <2>8, <2>9, <1>0, <1>b, LeaveNode
  <1>2. CASE RollbackClears
    <2>1. /\ UNCHANGED <<node, st, snapshots, plans, todo, written, sid, copy, aux>>
          /\ step' = "restore" /\ workspace' \in Tree
      BY <1>2, Shapes DEF RollbackClears
    <2>2. batch' = batch /\ edits' = edits
      BY <2>1 DEF batch, edits
    <2>3. TypeOK'
      BY <2>1 DEF RepairInv, TypeOK, aux, EvoCIState
    <2>4. ControlInv'
      BY <2>1, <2>2, <1>a DEF RepairInv, ControlInv, batch
    <2>5. PassInv' /\ TestedInv' /\ AcceptedInv' /\ ConsentInv'
      BY <2>1, <1>a, <1>b DEF PassInv, TestedInv, AcceptedInv, ConsentInv
    <2>6. PlanInv'
      BY <2>1, <2>2, <1>a DEF RepairInv, PlanInv
    <2> QED BY <2>3, <2>4, <2>5, <2>6 DEF RepairInv
  <1>3. CASE RollbackFails
    <2> DEFINE s == [Fail(st, "infrastructure", "rollback") EXCEPT !.phase = "rollback"]
    <2>1. EvoCIState(s)
      BY <1>0, Names, FailType DEF EvoCIState, InitialState
    <2>2. s.status = "failed" /\ s.supervisor_batch = batch
      BY <1>0, StateDomain DEF Fail
    <2>3. Return(s, after_rollback(s)) /\ UNCHANGED <<disk, aux>>
      BY <1>3 DEF RollbackFails
    <2> HIDE DEF s
    <2>4. after_rollback(s) = "failed"
      BY <2>2 DEF after_rollback
    <2> QED BY <2>1, <2>2, <2>3, <2>4, <1>0, QuietLeave
  <1> QED BY <1>1, <1>2, <1>3 DEF Rollback

\* finalize and failed keep the invariant.
LEMMA EndStep ==
  ASSUME RepairInv, finalize \/ failed
  PROVE  RepairInv'
  <1>0. EvoCIState(st) /\ st.supervisor_batch = batch /\ batch \in Int
    BY Running, ConstantsAssumption
  <1>1. CASE finalize
    <2>1. /\ st.decision = "dispatch" /\ node = "finalize" /\ UNCHANGED <<disk, aux>>
          /\ st.verification = "passed"
      BY <1>1 DEF finalize, RepairInv, AcceptedInv
    <2> DEFINE s1 == [st EXCEPT !.phase = "finalize", !.status = "success"]
               s2 == [st EXCEPT !.phase = "finalize", !.status = "success",
                                !.failure_class = "none", !.failure_stage = "none"]
    <2>a. EvoCIState(s1) /\ EvoCIState(s2)
      BY <1>0, Names DEF EvoCIState, InitialState
    <2>b. \A s \in {s1, s2} :
            /\ s.verification = st.verification /\ s.supervisor_batch = batch
            /\ s.verification_snapshot_id = st.verification_snapshot_id
            /\ s.decision = st.decision /\ s.tasks = st.tasks /\ s.worker_task = st.worker_task
      BY <1>0, StateDomain
    <2>c. PICK s \in {s1, s2} : Return(s, "end")
      BY <1>1, <2>1 DEF finalize
    <2>2. EvoCIState(s)
      BY <2>a
    <2>3. /\ s.verification = st.verification /\ s.supervisor_batch = batch
          /\ s.verification_snapshot_id = st.verification_snapshot_id
          /\ s.decision = st.decision /\ s.tasks = st.tasks /\ s.worker_task = st.worker_task
      BY <2>b
    <2>4. Return(s, "end")
      BY <2>c
    <2> HIDE DEF s1, s2
    <2>5. TypeOK'
      BY <2>1, <2>2, <2>4, ReturnType, Names DEF RepairInv, TypeOK, disk, aux
    <2>6. /\ st' = s /\ node' = "end" /\ step' = "idle" /\ touched' = touched
          /\ plans' = plans /\ batch' = batch /\ workspace' = workspace
      BY <2>1, <2>3, <2>4 DEF Return, Idle, batch, disk, aux
    <2>7. ControlInv' /\ PassInv' /\ TestedInv' /\ ConsentInv'
      BY <2>6 DEF ControlInv, PassInv, TestedInv, ConsentInv
    <2>8. AcceptedInv'
      BY <2>1, <2>3, <2>6 DEF RepairInv, AcceptedInv
    <2>9. PlanInv'
      BY <2>6 DEF RepairInv, PlanInv
    <2> QED BY <2>5, <2>7, <2>8, <2>9 DEF RepairInv
  <1>2. CASE failed
    <2> DEFINE f == Fail(st, resolve_failure_class, StageOf)
               s == [f EXCEPT !.phase = "failed"]
    <2>1. resolve_failure_class \in FailureClasses /\ StageOf \in Nodes
      BY <1>0, Names DEF resolve_failure_class, StageOf, EvoCIState
    <2>2. Return(s, "end") /\ UNCHANGED <<disk, aux>>
      BY <1>2 DEF failed
    <2>3. EvoCIState(f)
      BY <1>0, <2>1, FailType
    <2>4. f.status = "failed" /\ f.supervisor_batch = batch
      BY <1>0, StateDomain DEF Fail
    <2> HIDE DEF f
    <2>5. EvoCIState(s)
      BY <2>3, Names DEF EvoCIState, InitialState
    <2>6. s.status = "failed" /\ s.supervisor_batch = batch
      BY <2>3, <2>4, StateDomain
    <2> HIDE DEF s
    <2> QED BY <2>2, <2>5, <2>6, <1>0, QuietLeave
  <1> QED BY <1>1, <1>2

\* Third-party edits, crashes and cancellations keep the invariant.
LEMMA EnvironmentStep ==
  ASSUME RepairInv, Environment
  PROVE  RepairInv'
  <1>0. /\ EvoCIState(st) /\ workspace \in Tree /\ UNCHANGED <<node, st, snapshots, plans, consent>>
    BY Running DEF Environment, ForeignEdit, Crash, Cancel, RepairInv, TypeOK, disk
  <1>1. batch' = batch /\ edits' = edits
    BY <1>0 DEF batch, edits
  <1>2. EvoCIState(st')
    BY <1>0
  <1>3. CASE ForeignEdit
    <2>1. PICK p \in Paths, c \in Content :
             /\ workspace' = [workspace EXCEPT ![p] = c] /\ touched' = touched \cup {p}
             /\ unseen' = IF step = "write" THEN unseen \cup {p} ELSE unseen
      BY <1>3 DEF ForeignEdit
    <2>2. UNCHANGED <<local, crashes>> /\ foreign' \in 0..MaxForeignEdits
      BY <1>3, ConstantsAssumption DEF ForeignEdit, RepairInv, TypeOK
    <2>3. TypeOK'
      BY <1>0, <1>2, <2>1, <2>2 DEF RepairInv, TypeOK, local, Tree
    <2>4. ControlInv' /\ PassInv'
      BY <1>0, <1>1, <2>2 DEF RepairInv, ControlInv, PassInv, local, batch, edits
    <2>5. TestedInv'
      BY <1>0, <2>1, <2>2 DEF RepairInv, TestedInv, local, Tree
    <2>6. /\ touched' = touched \cup {p}
          /\ \A q \in Paths \ touched' : workspace'[q] = workspace[q]
      BY <1>0, <2>1 DEF Tree
    <2>7. AcceptedInv'
      BY <1>0, <2>6 DEF RepairInv, AcceptedInv
    <2>8. ConsentInv'
      BY <1>0, <1>1 DEF RepairInv, ConsentInv, HasEdits, requires_approval, EditedPaths
    <2>10. step' = "write" => \E q \in Paths :
              /\ IsFirst(q, todo')
              /\ q \notin unseen' => workspace'[q] # edits'[q] /\ workspace'[q] = plans'[batch'][q]
      <3>0. SUFFICES ASSUME step = "write"
                     PROVE  \E q \in Paths :
                        /\ IsFirst(q, todo')
                        /\ q \notin unseen' =>
                             workspace'[q] # edits'[q] /\ workspace'[q] = plans'[batch'][q]
        BY <2>2 DEF local
      <3>1. PICK q \in Paths : /\ IsFirst(q, todo)
                               /\ q \notin unseen => workspace[q] # edits[q]
                                                    /\ workspace[q] = plans[batch][q]
        BY <3>0 DEF RepairInv, PlanInv
      <3>2. q \notin unseen' => q \notin unseen /\ workspace'[q] = workspace[q]
        BY <3>0, <2>1, <1>0 DEF Tree
      <3>3. plans' = plans /\ todo' = todo
        BY <1>3, <2>2 DEF ForeignEdit, local
      <3> QED BY <3>1, <3>2, <3>3, <1>1
    <2>9. PlanInv'
      <3>1. plans' = plans
        BY <1>3 DEF ForeignEdit
      <3>2. /\ EditedPaths(edits') = EditedPaths(edits)
            /\ step' = step /\ todo' = todo /\ written' = written
        BY <1>1, <2>2 DEF local
      <3>3. /\ \A b \in Batches : b > batch' => plans'[b] = NoTree
            /\ node' \in {"prepare_task", "worker", "approval"} => plans'[batch'] = NoTree
            /\ node' = "apply_candidate" /\ plans'[batch'] # NoTree =>
                 plans'[batch'] = snapshot_edit_baseline(snapshots'[batch'], edits')
        BY <1>0, <1>1, <3>1 DEF RepairInv, PlanInv
      <3>4. step' \in {"apply", "write"} =>
              /\ todo' \subseteq EditedPaths(edits')
              /\ EditedPaths(edits') \subseteq st'.worker_task.scope
              /\ \A q \in Paths : written'[q] \in {Keep, edits'[q]}
        BY <1>0, <1>1, <3>2 DEF RepairInv, PlanInv
      <3> QED BY <2>10, <3>3, <3>4 DEF PlanInv
    <2> QED BY <2>3, <2>4, <2>5, <2>7, <2>8, <2>9 DEF RepairInv
  <1>4. CASE Crash \/ Cancel
    <2>1. /\ Idle /\ touched' = touched /\ unseen' = unseen /\ foreign' = foreign
          /\ crashes' \in 0..MaxCrashes
      BY <1>4, ConstantsAssumption DEF Crash, Cancel, RepairInv, TypeOK
    <2>2. workspace' \in Tree
      <3>1. CASE Crash
        BY <3>1, <1>0 DEF Crash, disk
      <3>2. CASE Cancel /\ step \in {"apply", "write"}
        <4>1. plans[batch] \in Patch /\ written \in Patch
          BY <3>2 DEF RepairInv, TypeOK, ControlInv
        <4> QED BY <3>2, <4>1, <1>0, Shapes DEF Cancel
      <3>3. CASE Cancel /\ step \notin {"apply", "write"}
        BY <3>3 DEF Cancel, RepairInv, TypeOK, ControlInv
      <3> QED BY <1>4, <3>1, <3>2, <3>3
    <2>3. TypeOK'
      BY <1>0, <1>2, <2>1, <2>2, Shapes DEF RepairInv, TypeOK, Idle
    <2>4. step' = "idle" /\ node \notin {"finalize", "end", "failed"} /\ st.status # "success"
      BY <1>4, <2>1 DEF Crash, Cancel, Idle, RepairInv, TypeOK, ControlInv, PassInv
    <2>5. ControlInv' /\ PassInv' /\ TestedInv'
      BY <1>0, <1>1, <2>4 DEF RepairInv, ControlInv, PassInv, TestedInv, batch
    <2>6. AcceptedInv'
      BY <1>0, <2>4 DEF AcceptedInv
    <2>7. ConsentInv'
      BY <1>0, <1>1 DEF RepairInv, ConsentInv, HasEdits, requires_approval, EditedPaths
    <2>8. PlanInv'
      BY <1>0, <1>1, <2>4 DEF RepairInv, PlanInv, snapshot_edit_baseline
    <2> QED BY <2>3, <2>5, <2>6, <2>7, <2>8 DEF RepairInv
  <1> QED BY <1>3, <1>4 DEF Environment

\* So does a step that changes nothing.
LEMMA StutterStep ==
  ASSUME RepairInv, UNCHANGED vars
  PROVE  RepairInv'
  <1>1. /\ UNCHANGED <<node, st, workspace, snapshots, plans, step, todo, written, sid, copy,
                       touched, unseen, consent, foreign, crashes>>
        /\ batch' = batch /\ edits' = edits
    BY DEF vars, disk, local, aux, batch, edits
  <1>2. TypeOK'
    BY <1>1 DEF RepairInv, TypeOK
  <1>3. ControlInv' /\ PassInv' /\ TestedInv' /\ AcceptedInv'
    BY <1>1 DEF RepairInv, ControlInv, PassInv, TestedInv, AcceptedInv
  <1>4. ConsentInv'
    BY <1>1 DEF RepairInv, ConsentInv
  <1>5. PlanInv'
    BY <1>1 DEF RepairInv, PlanInv
  <1> QED BY <1>2, <1>3, <1>4, <1>5 DEF RepairInv

\* The invariant holds when a run starts.
LEMMA InitialInvariant ==
  ASSUME Init
  PROVE  RepairInv
  <1>1. EvoCIState(InitialState)
    <2>1. 0 \in 0..MaxBatches
      BY ConstantsAssumption
    <2> QED BY <2>1, Shapes, Names DEF EvoCIState, InitialState
  <1>2. TypeOK
    BY <1>1, Shapes, Names, ConstantsAssumption DEF Init, TypeOK
  <1>3. st.status = "running" /\ st.verification = "none"
    BY DEF Init, InitialState
  <1>4. ControlInv /\ PassInv /\ TestedInv /\ AcceptedInv /\ ConsentInv
    BY <1>3 DEF Init, ControlInv, PassInv, TestedInv, AcceptedInv, ConsentInv
  <1>5. PlanInv
    BY DEF Init, PlanInv
  <1> QED BY <1>2, <1>4, <1>5 DEF RepairInv

\* The invariant behind the safety results holds in every reachable state of
\* the repair graph, for any workspace, proposals, crashes and third-party edits.
THEOREM InvariantHolds == Spec => []RepairInv
  <1>1. Init => RepairInv
    BY InitialInvariant
  <1>2. RepairInv /\ [Next]_vars => RepairInv'
    <2> SUFFICES ASSUME RepairInv, [Next]_vars PROVE RepairInv'
      OBVIOUS
    <2> QED BY StartStep, SuperviseStep, PrepareStep, WorkerStep, ApprovalStep, ApplyStep,
               VerifyStep, RollbackStep, EndStep, EnvironmentStep, StutterStep
            DEF Next, Graph, Done
  <1> QED BY <1>1, <1>2, PTL DEF Spec

\* Every run that ends in success passed verification on the tree it ends with,
\* up to files a third party wrote.
THEOREM SuccessIsVerified == Spec => []VerifiedSuccess
  <1>1. RepairInv => VerifiedSuccess
    BY DEF RepairInv, AcceptedInv, VerifiedSuccess
  <1> QED BY <1>1, InvariantHolds, PTL

\* No successful run adds a bypass of its own.
THEOREM SuccessHasNoBypass == Spec => []NoBypassInSuccess
  <1>1. RepairInv => NoBypassInSuccess
    BY DEF RepairInv, AcceptedInv, NoBypassInSuccess
  <1> QED BY <1>1, InvariantHolds, PTL

\* finalize is entered only from a repair task of the current batch.
THEOREM SuccessComesFromRepair == Spec => []SuccessOnlyByRepair
  <1>1. RepairInv => SuccessOnlyByRepair
    BY DEF RepairInv, AcceptedInv, SuccessOnlyByRepair
  <1> QED BY <1>1, InvariantHolds, PTL

\* The plan and the attempt agree with the candidate and the parent snapshot.
LEMMA AttemptFacts ==
  ASSUME RepairInv, step \in {"apply", "write"}
  PROVE  /\ node = "apply_candidate" /\ workspace \in Tree /\ edits \in Patch /\ written \in Patch
         /\ EditedPaths(edits) \subseteq st.worker_task.scope
         /\ \A p \in Paths : written[p] \in {Keep, edits[p]}
         /\ \A p \in EditedPaths(edits) :
               plans[batch][p] = snapshots[batch][p] /\ plans[batch][p] # Keep
  <1>1. /\ node = "apply_candidate" /\ plans[batch] # NoTree /\ batch \in Batches
        /\ workspace \in Tree /\ written \in Patch /\ snapshots[batch] \in Tree
        /\ st.fixer_output \in FixerOutputs
    BY DEF RepairInv, ControlInv, TypeOK, EvoCIState
  <1>2. edits \in Patch
    BY <1>1 DEF edits, FixerOutputs
  <1>3. /\ EditedPaths(edits) \subseteq st.worker_task.scope
        /\ \A p \in Paths : written[p] \in {Keep, edits[p]}
        /\ plans[batch] = snapshot_edit_baseline(snapshots[batch], edits)
    BY <1>1 DEF RepairInv, PlanInv
  <1>4. \A p \in EditedPaths(edits) :
            plans[batch][p] = snapshots[batch][p] /\ plans[batch][p] # Keep
    BY <1>1, <1>2, <1>3, ConstantsAssumption DEF snapshot_edit_baseline, EditedPaths, Tree
  <1> QED BY <1>1, <1>2, <1>3, <1>4

\* `wrote' is what an attempt may hand to the undo: some of the candidate's files.
Wrote(wrote) == \A p \in Paths : wrote[p] \in {Keep, edits[p]}

\* Undoing an attempt touches only files that still hold the attempt's write.
LEMMA UndoKeepsForeignContent ==
  ASSUME RepairInv, step \in {"apply", "write"}, NEW wrote, Wrote(wrote),
         workspace' = restore_attempt_writes(workspace, plans[batch], wrote),
         NEW p \in Paths, workspace'[p] # workspace[p]
  PROVE  /\ p \in st.worker_task.scope
         /\ {workspace[p], workspace'[p]} = {snapshots[batch][p], edits[p]}
  <1>1. /\ wrote[p] # Keep /\ workspace[p] = wrote[p]
        /\ workspace'[p] = BaselineContent(plans[batch], p)
    BY DEF restore_attempt_writes
  <1>2. edits[p] = wrote[p] /\ p \in EditedPaths(edits)
    BY <1>1 DEF EditedPaths, Wrote
  <1>3. workspace'[p] = snapshots[batch][p] /\ p \in st.worker_task.scope
    BY <1>1, <1>2, AttemptFacts DEF BaselineContent
  <1> QED BY <1>1, <1>2, <1>3

\* Which steps of apply_candidate change the workspace, and when they may.
LEMMA WorkspaceChanges ==
  ASSUME RepairInv, Next, node = "apply_candidate", HarnessStep, workspace' # workspace
  PROVE  /\ step \in {"apply", "write"}
         /\ \/ ApplyWrites
            \/ \E wrote \in Patch :
                  /\ Wrote(wrote)
                  /\ workspace' = restore_attempt_writes(workspace, plans[batch], wrote)
  <1>1. foreign \in Nat /\ step \notin {"copy", "verify", "tested", "restore"}
    BY ConstantsAssumption DEF RepairInv, TypeOK, ControlInv
  <1>2. ~ForeignEdit
    BY <1>1 DEF ForeignEdit, HarnessStep
  <1>3. CASE ApplyCandidate
    <2>1. CASE ApplyWrites
      BY <2>1 DEF ApplyWrites
    <2>2. CASE ApplyNothing \/ ApplyOutOfScope \/ ApplyBegins \/ ApplyFindsDone \/ ApplyChecks
               \/ ApplyDone
      BY <2>2 DEF ApplyNothing, ApplyOutOfScope, ApplyBegins, ApplyFindsDone, ApplyChecks,
           ApplyDone, disk
    <2>3. CASE ApplyConflicts \/ ApplyOutOfBudget
      <3>1. /\ step \in {"apply", "write"}
            /\ workspace' = restore_attempt_writes(workspace, plans[batch], written)
        BY <2>3 DEF ApplyConflicts, ApplyOutOfBudget, ApplyStops
      <3> QED BY <3>1, AttemptFacts DEF Wrote
    <2>4. CASE ApplyEditFails
      <3>1. step = "write"
        BY <2>4 DEF ApplyEditFails
      <3>2. PICK p \in Paths : workspace' = restore_attempt_writes(workspace, plans[batch],
                                                [written EXCEPT ![p] = edits[p]])
        BY <2>4 DEF ApplyEditFails, ApplyStops
      <3> DEFINE wrote == [written EXCEPT ![p] = edits[p]]
      <3>3. wrote \in Patch /\ Wrote(wrote)
        BY <3>1, AttemptFacts DEF Wrote, Patch
      <3> QED BY <3>1, <3>2, <3>3
    <2> QED BY <1>3, <2>1, <2>2, <2>3, <2>4 DEF ApplyCandidate
  <1>4. CASE Environment
    <2>1. /\ step \in {"apply", "write"}
          /\ workspace' = restore_attempt_writes(workspace, plans[batch], written)
      BY <1>1, <1>2, <1>4 DEF Environment, Crash, Cancel, disk
    <2> QED BY <2>1, AttemptFacts DEF Wrote
  <1>5. CASE Done
    BY <1>5 DEF Done, vars, disk
  <1>6. CASE Supervise \/ PrepareTask \/ Worker \/ Approval
    BY <1>1, <1>6 DEF Supervise, SuperviseOutOfBatches, SuperviseError, SuperviseDecides,
         PrepareTask, PrepareOutOfBudget, PrepareRejects, PrepareReuses, PrepareBegins,
         PrepareCopies, PrepareSaves, PrepareCopyFails, Worker, WorkerProposes,
         WorkerReportsNoEdit, WorkerExhausted, WorkerModelError, Approval, ApprovalNotNeeded,
         ApprovalAnswered
  <1>7. CASE bootstrap \/ retrieve_context \/ Verify \/ Rollback \/ finalize \/ failed
    BY <1>1, <1>7 DEF bootstrap, retrieve_context, Verify, VerifyBegins, VerifyCopies,
         VerifyEnds, Rollback, RollbackAttempt, RollbackClears, RollbackCopies, RollbackFails,
         finalize, failed
  <1> QED BY <1>3, <1>4, <1>5, <1>6, <1>7 DEF Next, Graph

\* apply_candidate, its conflict handler and its replays replace only the
\* parent's content by the candidate's or back, inside the write scope; only a
\* write that falls between apply_candidate's look at a file and its own write
\* can be lost, and only if the hash of the content it replaces is not compared
\* or still fits.
THEOREM ApplyIsConfined == Spec => ApplyKeepsForeignContent
  <1> DEFINE Confined ==
        node = "apply_candidate" /\ HarnessStep =>
         \A p \in Paths : workspace'[p] # workspace[p] =>
            /\ p \in st.worker_task.scope
            /\ \/ {workspace[p], workspace'[p]} = {snapshots[batch][p], edits[p]}
               \/ /\ step = "write" /\ IsFirst(p, todo) /\ p \in unseen
                  /\ HashMatches(p) /\ workspace'[p] = edits[p]
  <1>1. RepairInv /\ [Next]_vars => [Confined]_vars
    <2> SUFFICES ASSUME RepairInv, Next, node = "apply_candidate", HarnessStep,
                        NEW p \in Paths, workspace'[p] # workspace[p]
                 PROVE  /\ p \in st.worker_task.scope
                        /\ \/ {workspace[p], workspace'[p]} = {snapshots[batch][p], edits[p]}
                           \/ /\ step = "write" /\ IsFirst(p, todo) /\ p \in unseen
                              /\ HashMatches(p) /\ workspace'[p] = edits[p]
      OBVIOUS
    <2>1. /\ step \in {"apply", "write"}
          /\ \/ ApplyWrites
             \/ \E wrote \in Patch :
                  /\ Wrote(wrote)
                  /\ workspace' = restore_attempt_writes(workspace, plans[batch], wrote)
      BY WorkspaceChanges
    <2>2. CASE ApplyWrites
      <3>1. PICK q \in Paths : /\ IsFirst(q, todo)
                               /\ workspace[q] = edits[q] \/ HashMatches(q)
                               /\ workspace' = [workspace EXCEPT ![q] = edits[q]]
        BY <2>2 DEF ApplyWrites
      <3>2. q = p /\ workspace'[p] = edits[p] /\ HashMatches(p) /\ IsFirst(p, todo)
        BY <3>1, <2>1, AttemptFacts DEF Tree
      <3>3. p \in EditedPaths(edits)
        BY <3>2, <2>1 DEF IsFirst, RepairInv, PlanInv
      <3>4. step = "write"
        BY <2>2 DEF ApplyWrites
      <3>5. p \notin unseen => workspace[p] = plans[batch][p]
        <4>1. PICK r \in Paths : /\ IsFirst(r, todo)
                                 /\ r \notin unseen => workspace[r] = plans[batch][r]
          BY <3>4 DEF RepairInv, PlanInv
        <4>2. r = p
          BY <4>1, <3>2, ConstantsAssumption DEF IsFirst
        <4> QED BY <4>1, <4>2
      <3> QED BY <3>2, <3>3, <3>4, <3>5, <2>1, AttemptFacts
    <2>3. CASE \E wrote \in Patch :
                  /\ Wrote(wrote)
                  /\ workspace' = restore_attempt_writes(workspace, plans[batch], wrote)
      BY <2>1, <2>3, UndoKeepsForeignContent
    <2> QED BY <2>1, <2>2, <2>3
  <1>2. ApplyKeepsForeignContent <=> [][Confined]_vars
    BY DEF ApplyKeepsForeignContent
  <1> HIDE DEF Confined
  <1> QED BY <1>1, <1>2, InvariantHolds, PTL DEF Spec

\* A candidate that needs a human's approval changes the workspace only in a
\* batch in which it was given.
THEOREM ApprovalComesFirst == Spec => ApprovedBeforeWrite
  <1> DEFINE Approved ==
        node = "apply_candidate" /\ HarnessStep /\ workspace' # workspace
          => (requires_approval(st.fixer_output) => consent = batch)
  <1>1. RepairInv /\ [Next]_vars => [Approved]_vars
    <2> SUFFICES ASSUME RepairInv, Next, node = "apply_candidate", HarnessStep,
                        workspace' # workspace, requires_approval(st.fixer_output)
                 PROVE  consent = batch
      OBVIOUS
    <2>1. step \in {"apply", "write"}
      BY WorkspaceChanges
    <2>2. HasEdits(st.fixer_output)
      BY <2>1 DEF RepairInv, ControlInv, HasEdits, edits
    <2> QED BY <2>2 DEF RepairInv, ConsentInv
  <1>2. ApprovedBeforeWrite <=> [][Approved]_vars
    BY DEF ApprovedBeforeWrite
  <1> HIDE DEF Approved
  <1> QED BY <1>1, <1>2, InvariantHolds, PTL DEF Spec
=============================================================================
