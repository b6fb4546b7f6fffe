------------------------------ MODULE ToolLoop ------------------------------
(***************************************************************************)
(* The bounded tool loop of the model agents (agents/tool_loop.py), the    *)
(* budgets it draws on (runtime/budget.py), the append-only event store    *)
(* the budgets are rebuilt from after a restart (runtime/event_store.py,   *)
(* runtime/trajectory.py), and what the Supervisor and the Worker make of  *)
(* its failures (agents/model_agents.py, graph/builder.py).                *)
(*                                                                         *)
(* A run alternates supervisor and worker invocations; verification spends *)
(* tool calls after a worker.  Counters in memory die with the process,    *)
(* events do not; a restart begins the interrupted invocation again under  *)
(* the same invocation id.                                                 *)
(***************************************************************************)
EXTENDS Integers, Sequences, FiniteSets

CONSTANTS
    MaxModel, MaxTool,       \* run-level budget
    MaxIterations, MaxLeaf,  \* limits of one invocation
    TaskLimits,              \* limits a task may carry: [model, tool] or None
    Responses,               \* tool-call lists a model may answer with
    Skills,                  \* skills recommended to the invocation
    MaxTurns,                \* invocations of a run (bound)
    MaxVerify,               \* verification commands after a worker (bound)
    MaxCrashes,              \* restarts (bound)
    None

ASSUME LoopAssumption ==
    /\ MaxModel \in Nat /\ MaxTool \in Nat
    /\ MaxIterations \in Nat \ {0} /\ MaxLeaf \in Nat \ {0}
    /\ MaxTurns \in Nat \ {0} /\ MaxVerify \in Nat /\ MaxCrashes \in Nat
    /\ None \notin [model : Nat, tool : Nat]
    /\ None \notin [maxModel : Nat, maxTool : Nat, model : Nat, tool : Nat]
    /\ TaskLimits \subseteq [model : Nat, tool : Nat] \cup {None}
    /\ Responses \subseteq Seq([name : {"load_skill", "run_skill_script", "replace_text"},
                                skill : Skills])
    /\ IsFiniteSet(Skills)

VARIABLES
    events,      \* the event store
    budget,      \* RunBudgetManager's budget of the run, None before for_run
    task,        \* extra_budget of the invocation, None for the supervisor
    pc,          \* where the invocation stands
    turn,        \* which invocation of the run it is
    retry,       \* 1 in the supervisor's ":timeout-retry" invocation
    loop,        \* the local variables of BoundedToolAgent.run
    raised,      \* the exception that left the loop
    crashes,     \* restarts so far
    spent        \* calls really made, over all processes (history)

vars == <<events, budget, task, pc, turn, retry, loop, raised, crashes, spent>>

Min2(a, b) == IF a < b THEN a ELSE b
Max2(a, b) == IF a > b THEN a ELSE b

FINALIZATION_MODEL_CALLS == 1

Role == IF turn % 2 = 1 THEN "supervisor" ELSE "worker"
Invocation == <<turn, retry>>

(***************************************************************************)
(* Events: the id is invocation, type and key; the first one with an id    *)
(* stays.                                                                  *)
(***************************************************************************)
Event(inv, type, key, data) == [inv |-> inv, type |-> type, key |-> key, data |-> data]

SameId(e, f) == e.inv = f.inv /\ e.type = f.type /\ e.key = f.key

\* INSERT OR IGNORE on the event id.
Append1(store, e) ==
    IF \E f \in store : SameId(e, f) THEN store ELSE store \cup {e}

Emit(e) == events' = Append1(events, e)
Emit2(e, f) == events' = Append1(Append1(events, e), f)

\* What for_run counts: cleanup and post-run work has types of its own here.
Counted(type) == Cardinality({e \in events : e.type = type})

\* The projection of a run's events the run outcome works with.
build_view ==
    LET Of(type) == {e \in events : e.type = type}
        Answer(e) == {f \in Of("TOOL_RESULT") : f.inv = e.inv /\ f.key = e.key}
    IN  [model_calls     |-> Cardinality(Of("MODEL_CALL")),
         tool_calls      |-> {<<e, Answer(e)>> : e \in Of("TOOL_CALL")},
         failed          |-> {e \in Of("TOOL_RESULT") : e.data # "ok"} \cup Of("ATTEMPT_FAILED"),
         skills_selected |-> {e.data : e \in Of("SKILL_SELECTED")},
         skills_used     |-> {e.data.skill : e \in Of("SKILL_USED")}]

\* The skills a worker's result names: those its invocation's events say were used.
_harness_facts(inv) ==
    {e.data.skill : e \in {f \in events : f.inv = inv /\ f.type = "SKILL_USED"}} \cap Skills

\* mutant: a restarted run begins with an empty budget
for_runForgets == IF budget # None THEN budget ELSE [model |-> 0, tool |-> 0]

(***************************************************************************)
(* Budgets                                                                 *)
(***************************************************************************)
\* The cached budget of the run, or one rebuilt from its events.
for_run ==
    IF budget # None THEN budget
    ELSE [model |-> Counted("MODEL_CALL"), tool |-> Counted("TOOL_CALL")]

RunHasModel == for_run.model < MaxModel
RunHasTool == for_run.tool < MaxTool
TaskHasModel == task # None => task.model < task.maxModel
TaskHasTool == task # None => task.tool < task.maxTool

\* CombinedBudget: the run is charged first, and stays charged when the task
\* budget then refuses.
consume_model_call ==
    /\ RunHasModel
    /\ budget' = [for_run EXCEPT !.model = @ + 1]
    /\ task' = IF task # None /\ TaskHasModel THEN [task EXCEPT !.model = @ + 1] ELSE task

consume_tool_call ==
    /\ RunHasTool
    /\ budget' = [for_run EXCEPT !.tool = @ + 1]
    /\ task' = IF task # None /\ TaskHasTool THEN [task EXCEPT !.tool = @ + 1] ELSE task

\* How many action turns fit once one finalize call is kept back.
action_call_capacity(maxActions, remaining, taskCalls) ==
    LET run == Min2(maxActions, remaining - FINALIZATION_MODEL_CALLS)
    IN  IF remaining < 1 + FINALIZATION_MODEL_CALLS THEN 0
        ELSE IF taskCalls = None THEN Max2(0, run)
        ELSE Max2(0, Min2(run, Max2(0, taskCalls - FINALIZATION_MODEL_CALLS)))

\* mutant: the task budget ignores what the run has left
_task_budgetIgnoresRun(lim) ==
    [maxModel |-> IF lim = None THEN MaxIterations + 1 ELSE lim.model,
     maxTool |-> IF lim = None THEN MaxLeaf ELSE lim.tool,
     model |-> 0, tool |-> 0]

\* The task-level budget of a worker whose task carries the limits lim.
_task_budget(lim) ==
    LET remaining == MaxModel - for_run.model
        tools == Min2(MaxLeaf, MaxTool - for_run.tool)
        actions == action_call_capacity(MaxIterations, remaining,
                                        IF lim = None THEN None ELSE lim.model)
    IN  [maxModel |-> IF actions > 0 THEN actions + FINALIZATION_MODEL_CALLS ELSE 0,
         maxTool |-> Max2(0, IF lim = None THEN tools ELSE Min2(tools, lim.tool)),
         model |-> 0, tool |-> 0]

(***************************************************************************)
(* The loop                                                                *)
(***************************************************************************)
NoLoop == [iteration |-> 0, toolCount |-> 0, calls |-> <<>>, open |-> <<>>,
           actions |-> 0, tools |-> 0, activated |-> {}, selected |-> {},
           used |-> {}, staged |-> FALSE]

Init ==
    /\ events = {} /\ budget = None /\ task = None /\ pc = "idle" /\ turn = 1
    /\ retry = 0 /\ loop = NoLoop /\ raised = None /\ crashes = 0
    /\ spent = [model |-> 0, tool |-> 0]

Raise(kind) == pc' = "raised" /\ raised' = kind

\* mutant: no call is kept back for finalize
LoopBeginsUnreserved(t) ==
    LET remaining == Max2(0, MaxModel - for_run.model)
        own == IF t = None THEN MaxIterations ELSE Min2(MaxIterations, t.maxModel)
        actions == Min2(own, remaining)
        tools == IF t = None THEN MaxLeaf ELSE Min2(MaxLeaf, t.maxTool)
    IN  /\ budget' = for_run /\ task' = t
        /\ loop' = [NoLoop EXCEPT !.actions = actions, !.tools = tools]
        /\ IF actions >= 1 /\ tools >= 1 THEN pc' = "act" /\ raised' = None
           ELSE Raise("exhausted")

\* The entry of BoundedToolAgent.run with the extra budget t: read_tool_result is
\* registered, the limits are computed, and a run without room for one action
\* and the finalize call is refused.
LoopBegins(t) ==
    LET remaining == Max2(0, MaxModel - for_run.model)
        own == IF t = None THEN MaxIterations
               ELSE Min2(MaxIterations, Max2(0, t.maxModel - FINALIZATION_MODEL_CALLS))
        actions == Min2(own, remaining - FINALIZATION_MODEL_CALLS)
        tools == IF t = None THEN MaxLeaf ELSE Min2(MaxLeaf, t.maxTool)
        fits == remaining >= 1 + FINALIZATION_MODEL_CALLS /\ actions >= 1 /\ tools >= 1
    IN  /\ budget' = for_run /\ task' = t
        /\ loop' = [NoLoop EXCEPT !.actions = actions, !.tools = tools]
        /\ IF fits THEN pc' = "act" /\ raised' = None ELSE Raise("exhausted")

SupervisorBegins ==
    /\ pc = "idle" /\ Role = "supervisor"
    /\ LoopBegins(None)
    /\ UNCHANGED <<events, turn, retry, crashes, spent>>

\* execute: a task budget without room for two calls ends the invocation before
\* the staging copy is made; a resumed candidate is written into the copy first.
WorkerBegins ==
    /\ pc = "idle" /\ Role = "worker"
    /\ \E lim \in TaskLimits :
         LET t == _task_budget(lim)
         IN  IF t.maxModel < 1 + FINALIZATION_MODEL_CALLS
             THEN /\ budget' = for_run /\ task' = t /\ pc' = "exhausted"
                  /\ UNCHANGED <<loop, raised>>
             ELSE LoopBegins(t)
    /\ UNCHANGED <<events, turn, retry, crashes, spent>>

\* A candidate that is unknown, of another baseline, out of scope or in conflict
\* with the copy blocks the task before the loop.
WorkerBlocked ==
    /\ pc = "idle" /\ Role = "worker"
    /\ budget' = for_run /\ pc' = "done"
    /\ UNCHANGED <<events, task, turn, retry, loop, raised, crashes, spent>>

\* The next action turn: the call is charged, then the gateway is awaited.
CallsModel ==
    /\ pc = "act" /\ loop.iteration < loop.actions
    /\ IF RunHasModel /\ TaskHasModel
       THEN /\ pc' = "asking"
            /\ loop' = [loop EXCEPT !.iteration = @ + 1]
            /\ spent' = [spent EXCEPT !.model = @ + 1]
            /\ UNCHANGED raised
       ELSE Raise("exhausted") /\ UNCHANGED <<loop, spent>>
    /\ IF RunHasModel THEN consume_model_call ELSE UNCHANGED <<budget, task>>
    /\ UNCHANGED <<events, turn, retry, crashes>>

\* The id the provider gives the k-th call of an answer: new in every answer.
CallId(k) == <<"call", crashes, spent.model, k>>

\* An answer is recorded and becomes the assistant message; without tool calls
\* the loop goes on to finalize.
ModelAnswers ==
    /\ pc = "asking"
    /\ \E calls \in Responses :
         LET ids == [k \in 1..Len(calls) |-> CallId(k)]
         IN  /\ loop' = [loop EXCEPT !.calls = calls, !.open = ids]
             /\ pc' = IF calls = <<>> THEN "finalize" ELSE "tools"
    /\ Emit(Event(Invocation, "MODEL_CALL", <<"turn", loop.iteration>>, None))
    /\ UNCHANGED <<budget, task, turn, retry, raised, crashes, spent>>

\* The gateway gave up, by timeouts or otherwise, or raised what it does not
\* translate: the call is recorded with its error and the exception leaves.
ModelFails ==
    /\ pc = "asking"
    /\ \E kind \in {"timeout", "gateway", "other"} : Raise(kind)
    /\ Emit(Event(Invocation, "MODEL_CALL", <<"turn", loop.iteration>>, None))
    /\ UNCHANGED <<budget, task, turn, retry, loop, crashes, spent>>

\* mutant: only the call over the limit is answered
ToolOverLimitDropsRest ==
    /\ pc = "tools" /\ loop.calls # <<>> /\ loop.toolCount + 1 > loop.tools
    /\ loop' = [loop EXCEPT !.toolCount = @ + 1, !.calls = <<>>, !.open = Tail(@)]
    /\ pc' = "finalize"
    /\ Emit(Event(Invocation, "ATTEMPT_FAILED", <<"tool-budget", loop.iteration>>, None))
    /\ UNCHANGED <<budget, task, turn, retry, raised, crashes, spent>>

\* The next requested call is over the leaf limit: it and all later ones get an
\* error answer, and the loop finalizes.
ToolOverLimit ==
    /\ pc = "tools" /\ loop.calls # <<>> /\ loop.toolCount + 1 > loop.tools
    /\ loop' = [loop EXCEPT !.toolCount = @ + 1, !.calls = <<>>, !.open = <<>>]
    /\ pc' = "finalize"
    /\ Emit(Event(Invocation, "ATTEMPT_FAILED", <<"tool-budget", loop.iteration>>, None))
    /\ UNCHANGED <<budget, task, turn, retry, raised, crashes, spent>>

\* Charged, recorded, then invoked.
ToolBegins ==
    /\ pc = "tools" /\ loop.calls # <<>> /\ loop.toolCount + 1 <= loop.tools
    /\ IF RunHasTool /\ TaskHasTool
       THEN /\ pc' = "invoking"
            /\ loop' = [loop EXCEPT !.toolCount = @ + 1]
            /\ spent' = [spent EXCEPT !.tool = @ + 1]
            /\ Emit(Event(Invocation, "TOOL_CALL", Head(loop.open), Head(loop.calls)))
            /\ UNCHANGED raised
       ELSE /\ Raise("exhausted")
            /\ loop' = [loop EXCEPT !.toolCount = @ + 1]
            /\ UNCHANGED <<events, spent>>
    /\ IF RunHasTool THEN consume_tool_call ELSE UNCHANGED <<budget, task>>
    /\ UNCHANGED <<turn, retry, crashes>>

\* What a tool does with the call at the head: a script needs its skill loaded
\* in this invocation; anything may be refused or fail.  A load_skill fails after
\* the skill is activated, when its retrieval cannot be counted.
ToolOutcomes ==
    LET c == Head(loop.calls)
    IN  IF c.name = "run_skill_script" /\ c.skill \notin loop.activated
        THEN {"rejected"} ELSE {"ok", "failed", "rejected"}

\* What an event says of a skill's use, and the process that wrote it (history).
Use(s, kind) == [skill |-> s, kind |-> kind, process |-> crashes]

\* The event a skill tool leaves besides its result: rejected, selected or used.
SkillEvents(out) ==
    LET c == Head(loop.calls)
        id == Head(loop.open)
        rejected == Event(Invocation, "SKILL_INVOCATION_REJECTED", id, c.skill)
    IN  CASE c.name = "load_skill" /\ out # "ok" -> {rejected}
          [] c.name = "load_skill" /\ out = "ok" /\ c.skill \notin loop.selected ->
               {Event(Invocation, "SKILL_SELECTED", <<"select", c.skill>>, c.skill)}
          [] c.name = "run_skill_script" /\ out = "rejected" -> {rejected}
          [] c.name = "run_skill_script" /\ out # "rejected" ->
               {Event(Invocation, "SKILL_USED", id, Use(c.skill, "script"))}
          [] OTHER -> {}

AppendAll(store, new) == store \cup {e \in new : ~\E f \in store : SameId(e, f)}

\* The result is recorded, then the skill event, then the tool message appended.
ToolReturns ==
    /\ pc = "invoking"
    /\ \E out \in ToolOutcomes :
         LET c == Head(loop.calls)
             result == Event(Invocation, "TOOL_RESULT", Head(loop.open), out)
             activates == c.name = "load_skill" /\ out # "rejected"
             loaded == c.name = "load_skill" /\ out = "ok"
             ran == c.name = "run_skill_script" /\ out # "rejected"
         IN  /\ events' = AppendAll(Append1(events, result), SkillEvents(out))
             /\ loop' = [loop EXCEPT
                    !.calls = Tail(@), !.open = Tail(@),
                    !.activated = IF activates THEN @ \cup {c.skill} ELSE @,
                    !.selected = IF loaded THEN @ \cup {c.skill} ELSE @,
                    !.used = IF ran THEN @ \cup {c.skill} ELSE @,
                    !.staged = @ \/ (c.name = "replace_text" /\ out = "ok"
                                     /\ Role = "worker")]
             /\ pc' = IF Tail(loop.calls) = <<>> THEN "act" ELSE "tools"
    /\ UNCHANGED <<budget, task, turn, retry, raised, crashes, spent>>

\* The action turns are used up: a user message asks for the final output.
OutOfTurns ==
    /\ pc = "act" /\ loop.iteration = loop.actions
    /\ pc' = "finalize"
    /\ UNCHANGED <<events, budget, task, turn, retry, loop, raised, crashes, spent>>

\* The finalize call; a refused charge is recorded like a failed call.
CallsFinalize ==
    /\ pc = "finalize"
    /\ IF RunHasModel /\ TaskHasModel
       THEN /\ pc' = "finalizing"
            /\ spent' = [spent EXCEPT !.model = @ + 1]
            /\ UNCHANGED <<raised, events>>
       ELSE /\ Raise("exhausted") /\ UNCHANGED spent
            /\ Emit(Event(Invocation, "MODEL_CALL", <<"final", 0>>, None))
    /\ IF RunHasModel THEN consume_model_call ELSE UNCHANGED <<budget, task>>
    /\ UNCHANGED <<turn, retry, loop, crashes>>

\* mutant: every claimed skill counts
FinalAnswersTrusts ==
    /\ pc = "finalizing"
    /\ \E claimed \in SUBSET Skills :
         LET uses == {Event(Invocation, "SKILL_USED", <<"method-use", s>>,
                            Use(s, "procedure")) : s \in claimed \ loop.used}
         IN  events' = AppendAll(Append1(events,
                           Event(Invocation, "MODEL_CALL", <<"final", 0>>, None)), uses)
    /\ pc' = "done"
    /\ UNCHANGED <<budget, task, turn, retry, loop, raised, crashes, spent>>

\* The structured answer: claimed skills count when they were loaded, and a
\* procedure use is recorded for those no script has used.
FinalAnswers ==
    /\ pc = "finalizing"
    /\ \E claimed \in SUBSET Skills :
         LET valid == claimed \cap (loop.activated \cup loop.selected)
             uses == {Event(Invocation, "SKILL_USED", <<"method-use", s>>,
                            Use(s, "procedure")) : s \in valid \ loop.used}
         IN  events' = AppendAll(Append1(events,
                           Event(Invocation, "MODEL_CALL", <<"final", 0>>, None)), uses)
    /\ pc' = "done"
    /\ UNCHANGED <<budget, task, turn, retry, loop, raised, crashes, spent>>

FinalFails ==
    /\ pc = "finalizing"
    /\ \E kind \in {"timeout", "gateway", "other"} : Raise(kind)
    /\ Emit(Event(Invocation, "MODEL_CALL", <<"final", 0>>, None))
    /\ UNCHANGED <<budget, task, turn, retry, loop, crashes, spent>>

(***************************************************************************)
(* What the nodes do with an invocation's end                              *)
(***************************************************************************)
\* mutant: every failure is retried under one invocation id
SupervisorRaisedAlways ==
    /\ pc = "raised" /\ Role = "supervisor"
    /\ retry' = 1 /\ pc' = "idle"
    /\ loop' = NoLoop /\ raised' = None
    /\ UNCHANGED <<events, budget, task, turn, crashes, spent>>

\* supervise gives a timed-out Supervisor one fresh invocation; every other
\* exception ends the run.
SupervisorRaised ==
    /\ pc = "raised" /\ Role = "supervisor"
    /\ IF raised = "timeout" /\ retry = 0
       THEN retry' = 1 /\ pc' = "idle"
       ELSE retry' = retry /\ pc' = "stopped"
    /\ loop' = NoLoop /\ raised' = None
    /\ UNCHANGED <<events, budget, task, turn, crashes, spent>>

\* A repair with staged edits, its own or a resumed candidate's, survives a spent
\* budget or a failed model; without edits the run ends.  Errors of the tools' own
\* kind block the task; what nothing translates ends the process.
WorkerRaised ==
    /\ pc = "raised" /\ Role = "worker"
    /\ \E restored \in BOOLEAN :
         CASE raised # "other" /\ (loop.staged \/ restored) -> pc' = "done"
           [] raised = "exhausted" /\ ~(loop.staged \/ restored) -> pc' = "exhausted"
           [] raised \in {"timeout", "gateway"} /\ ~(loop.staged \/ restored) -> pc' = "stopped"
           [] raised = "other" -> pc' \in {"done", "stopped"}
    /\ raised' = None
    /\ UNCHANGED <<events, budget, task, turn, retry, loop, crashes, spent>>

\* The node's update is checkpointed.  A supervisor dispatches or stops; a worker
\* without edits goes back to the supervisor, with edits to verification.
SupervisorReturns ==
    /\ pc = "done" /\ Role = "supervisor"
    /\ \/ turn < MaxTurns /\ turn' = turn + 1 /\ retry' = 0 /\ pc' = "idle"
       \/ turn' = turn /\ retry' = retry /\ pc' = "stopped"
    /\ loop' = NoLoop /\ task' = None
    /\ UNCHANGED <<events, budget, raised, crashes, spent>>

WorkerReturns ==
    /\ pc = "done" /\ Role = "worker"
    /\ pc' = "verify" /\ loop' = NoLoop /\ task' = None
    /\ UNCHANGED <<events, budget, turn, retry, raised, crashes, spent>>

WorkerExhausted ==
    /\ pc = "exhausted"
    /\ pc' = "stopped"
    /\ UNCHANGED <<events, budget, task, turn, retry, loop, raised, crashes, spent>>

\* prepare_task refuses to start a worker without two model calls.
PrepareRefuses ==
    /\ pc = "idle" /\ Role = "worker" /\ MaxModel - for_run.model < 2
    /\ budget' = for_run /\ pc' = "stopped"
    /\ UNCHANGED <<events, task, turn, retry, loop, raised, crashes, spent>>

\* A verification command, keyed by batch and index.
VerifyCommand ==
    /\ pc = "verify" /\ loop.iteration < MaxVerify
    /\ IF RunHasTool
       THEN /\ consume_tool_call
            /\ loop' = [loop EXCEPT !.iteration = @ + 1]
            /\ spent' = [spent EXCEPT !.tool = @ + 1]
            /\ Emit(Event(Invocation, "TOOL_CALL", <<"verify", loop.iteration>>, None))
            /\ UNCHANGED pc
       ELSE /\ pc' = "stopped"
            /\ UNCHANGED <<events, budget, task, loop, spent>>
    /\ UNCHANGED <<turn, retry, raised, crashes>>

VerifyDone ==
    /\ pc = "verify"
    /\ \/ turn < MaxTurns /\ turn' = turn + 1 /\ pc' = "idle"
       \/ turn' = turn /\ pc' = "stopped"
    /\ retry' = 0 /\ loop' = NoLoop
    /\ UNCHANGED <<events, budget, task, raised, crashes, spent>>

\* The process dies, or the run is cancelled: memory is gone, and the node the
\* checkpoint names starts again.
Crash ==
    /\ pc # "stopped" /\ crashes < MaxCrashes
    /\ crashes' = crashes + 1
    /\ budget' = None /\ task' = None /\ loop' = NoLoop /\ raised' = None
    /\ pc' = IF pc = "verify" THEN "verify" ELSE "idle"
    /\ retry' = 0
    /\ UNCHANGED <<events, turn, spent>>

Stopped == pc = "stopped" /\ UNCHANGED vars

Step ==
    \/ SupervisorBegins \/ WorkerBegins \/ WorkerBlocked \/ PrepareRefuses
    \/ CallsModel \/ ModelAnswers \/ ModelFails
    \/ ToolOverLimit \/ ToolBegins \/ ToolReturns
    \/ OutOfTurns \/ CallsFinalize \/ FinalAnswers \/ FinalFails
    \/ SupervisorRaised \/ WorkerRaised
    \/ SupervisorReturns \/ WorkerReturns \/ WorkerExhausted
    \/ VerifyCommand \/ VerifyDone

Next == Step \/ Crash \/ Stopped

Spec == Init /\ [][Next]_vars

\* Provider calls and tools are awaited with time limits, so a running process
\* takes its next step; crashes are not owed.
FairSpec == Spec /\ WF_vars(Step)

(***************************************************************************)
(* Properties                                                              *)
(***************************************************************************)
Pcs == {"idle", "act", "asking", "tools", "invoking", "finalize", "finalizing",
        "raised", "done", "exhausted", "verify", "stopped"}

Calls == [name : {"load_skill", "run_skill_script", "replace_text"}, skill : Skills]
CallIds == {"call"} \X Nat \X Nat \X Nat
Loops == [iteration : Nat, toolCount : Nat, calls : Seq(Calls), open : Seq(CallIds),
          actions : Int, tools : Nat, activated : SUBSET Skills, selected : SUBSET Skills,
          used : SUBSET Skills, staged : BOOLEAN]

\* Every variable has its type.
LoopTypeOK ==
    /\ IsFiniteSet(events)
    /\ \A e \in events : /\ e = Event(e.inv, e.type, e.key, e.data)
                        /\ e.inv \in (1..turn) \X {0, 1}
    /\ budget \in [model : Nat, tool : Nat] \cup {None}
    /\ task \in [maxModel : Nat, maxTool : Nat, model : Nat, tool : Nat] \cup {None}
    /\ pc \in Pcs /\ turn \in 1..MaxTurns /\ retry \in {0, 1} /\ loop \in Loops
    /\ raised \in {"exhausted", "timeout", "gateway", "other", None}
    /\ pc = "raised" => raised \in {"exhausted", "timeout", "gateway", "other"}
    /\ crashes \in 0..MaxCrashes /\ spent \in [model : Nat, tool : Nat]

\* The call kept back for the structured answer is still there when the loop
\* reaches it, in the run's budget and in the task's, whatever was spent on the
\* way and however often the process was restarted.
FinalizeReserved == pc = "finalize" => RunHasModel /\ TaskHasModel

InLoop == pc \in {"act", "asking", "tools", "invoking", "finalize", "finalizing"}

\* A worker's task budget never promises more than the run has left, so a call
\* is never charged to the run and then refused by the task, and a worker never
\* dies of the run's limit in the middle of its loop.
TaskWithinRun ==
    InLoop /\ task # None =>
        /\ task.maxModel - task.model <= MaxModel - budget.model
        /\ task.maxTool - task.tool <= MaxTool - budget.tool

\* The turns that are left and the finalize call fit into both budgets.
TurnsFit ==
    /\ pc = "idle" => loop = NoLoop
    /\ InLoop => budget # None /\ loop.iteration <= loop.actions /\ loop.actions <= MaxIterations
    /\ pc = "asking" => loop.iteration >= 1
    /\ InLoop /\ pc # "finalizing" =>
         /\ budget.model + (loop.actions - loop.iteration) + 1 <= MaxModel
         /\ task # None => task.model + (loop.actions - loop.iteration) + 1 <= task.maxModel

\* The calls still to be made are the ones without an answer.
CallsAreOpen ==
    /\ Len(loop.open) = Len(loop.calls)
    /\ pc \in {"act", "asking", "finalize", "finalizing"} => loop.calls = <<>>
    /\ pc \in {"tools", "invoking"} => loop.calls # <<>>

\* A process let load_skill activate the skill in an invocation: the call is in the
\* store, and its result is not a refusal.
Loaded(inv, process, s) ==
    \E c, r \in events :
        /\ c.type = "TOOL_CALL" /\ c.inv = inv /\ c.data = [name |-> "load_skill", skill |-> s]
        /\ c.key[2] = process
        /\ r.type = "TOOL_RESULT" /\ r.inv = inv /\ r.key = c.key /\ r.data # "rejected"

\* What an event's id says of its content, and what the loop knows is in the store.
EventsTell ==
    /\ \A e \in events :
         /\ e.type = "MODEL_CALL" =>
              e.data = None /\ e.key \in ({"turn"} \X (1..MaxIterations)) \cup {<<"final", 0>>}
         /\ e.type = "SKILL_USED" => Loaded(e.inv, e.data.process, e.data.skill)
    /\ \A s \in loop.activated \cup loop.selected : Loaded(Invocation, crashes, s)

\* The ids of the calls without an answer are new: no event but the call that is
\* being invoked has one of them, so no record is lost to an earlier one.
OpenIdsAreNew ==
    /\ \A i \in 1..Len(loop.open) : loop.open[i][2] = crashes /\ loop.open[i][3] = spent.model
    /\ \A i, j \in 1..Len(loop.open) : loop.open[i] = loop.open[j] => i = j
    /\ \A e \in events : e.type \in {"TOOL_CALL", "TOOL_RESULT"} =>
         /\ e.key \in CallIds => e.key[3] <= spent.model /\ (pc = "asking" => e.key[3] < spent.model)
         /\ \A i \in 1..Len(loop.open) : e.key = loop.open[i] =>
              e.type = "TOOL_CALL" /\ pc = "invoking" /\ i = 1
    /\ pc = "invoking" =>
         Event(Invocation, "TOOL_CALL", Head(loop.open), Head(loop.calls)) \in events

\* The loop's state is well formed, its task budget lies within the run's, and the
\* turns that are left, the open calls and the events agree with one another.
LoopInv == LoopTypeOK /\ TaskWithinRun /\ TurnsFit /\ CallsAreOpen /\ EventsTell /\ OpenIdsAreNew

\* Every tool call of an assistant message has its tool message before the model
\* is called again, as the chat protocol demands.
AnsweredBeforeAsking == pc \in {"act", "finalize"} => loop.open = <<>>

\* What a restarted process counts was really spent: no event stands for a call
\* that was never made.
CountedWereMade ==
    /\ build_view.model_calls <= spent.model
    /\ Cardinality(build_view.tool_calls) <= spent.tool

\* Without a restart a run spends at most its model calls.  A first restart can
\* hide the one call in flight; each later one at most the calls of a repeated
\* node, whose events keep the ids of the first try.
OverspendBounded ==
    spent.model <= MaxModel + IF crashes = 0 THEN 0
                              ELSE 1 + (crashes - 1) * (2 * (MaxIterations + 1))

ModelCalls == {e \in events : e.type = "MODEL_CALL"}

\* The call that is awaited; its event may be there from an earlier try.
InFlight ==
    IF pc = "asking" THEN {Event(Invocation, "MODEL_CALL", <<"turn", loop.iteration>>, None)}
    ELSE IF pc = "finalizing" THEN {Event(Invocation, "MODEL_CALL", <<"final", 0>>, None)}
    ELSE {}

\* Events of an earlier try whose calls the invocation, or its retry, may still repeat.
Ahead ==
    {e \in ModelCalls :
        /\ e.inv[1] = turn /\ pc \notin {"done", "exhausted", "verify", "stopped"}
        /\ \/ e.inv[2] > retry
           \/ /\ e.inv[2] = retry /\ pc # "raised"
              /\ \/ e.key[1] = "final" /\ pc # "finalizing"
                 \/ e.key[1] = "turn" /\ e.key[2] > loop.iteration}

\* Every call made has its event, is awaited, or repeats one of an earlier try, of
\* which a restart leaves at most the calls of one node.
SpendingExplained ==
    /\ spent.model + Cardinality(Ahead)
         <= Cardinality(ModelCalls \cup InFlight) + crashes * (2 * (MaxIterations + 1))
    /\ budget # None => budget.model <= MaxModel
    /\ Cardinality(ModelCalls \cup InFlight) <= IF budget = None THEN MaxModel ELSE budget.model
    /\ spent.model <= (IF budget = None THEN Counted("MODEL_CALL") ELSE budget.model)
                      + IF crashes = 0 THEN 0 ELSE 1 + (crashes - 1) * (2 * (MaxIterations + 1))
    /\ Counted("MODEL_CALL") + Cardinality(InFlight) <= spent.model
    /\ Counted("TOOL_CALL") <= spent.tool

\* What a restart reads back is a lower bound of what was spent, and what is spent
\* exceeds the budget by a bounded number of calls only.
SpendingTracked == CountedWereMade /\ OverspendBounded /\ SpendingExplained

\* The processes whose events say that they used a skill in an invocation.
Users(inv, s) ==
    {e.data.process : e \in {f \in events : f.type = "SKILL_USED" /\ f.inv = inv /\ f.data.skill = s}}

\* Each process that says it used a skill had loaded it itself in that invocation: a
\* load by an interrupted first try under the same id does not count for its successor.
UsedWasLoaded ==
    \A inv \in {e.inv : e \in events} : \A s \in _harness_facts(inv) :
        \A process \in Users(inv, s) : Loaded(inv, process, s)

\* A worker's result names only skills that the process returning it has loaded.  It does
\* not hold: _harness_facts reads the interrupted first try's events along.
ReportsOwnUses ==
    pc = "done" /\ Role = "worker" => _harness_facts(Invocation) \subseteq loop.activated

\* README.md: "Every attempted model call [...] becomes an append-only event."
\* Once no call is in flight there is one event for each call made.
EveryCallIsAnEvent ==
    pc \notin {"asking", "finalizing"} => Counted("MODEL_CALL") = spent.model

\* A run ends: iterations, turns and restarts are all bounded.
RunEnds == <>(pc = "stopped")
=============================================================================
