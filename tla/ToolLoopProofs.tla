--------------------------- MODULE ToolLoopProofs ---------------------------
(***************************************************************************)
(* Proofs about ToolLoop, for any budgets, limits, answers and skills and  *)
(* any number of turns and restarts.                                       *)
(***************************************************************************)
EXTENDS ToolLoop, FiniteSetTheorems, FunctionTheorems, SequenceTheorems, TLAPS

Budgets == [model : Nat, tool : Nat]
Tasks == [maxModel : Nat, maxTool : Nat, model : Nat, tool : Nat]

(***************************************************************************)
(* The event store                                                         *)
(***************************************************************************)
\* Appending one event keeps the store and leaves an event with its id.
LEMMA AppendOne ==
  ASSUME NEW store, NEW e
  PROVE  /\ store \subseteq Append1(store, e) /\ Append1(store, e) \subseteq store \cup {e}
         /\ \E f \in Append1(store, e) : SameId(e, f)
         /\ IsFiniteSet(store) => IsFiniteSet(Append1(store, e))
  <1>1. Append1(store, e) = store \/ Append1(store, e) = store \cup {e}
    BY DEF Append1
  <1>2. SameId(e, e)
    BY DEF SameId
  <1> QED BY <1>1, <1>2, FS_AddElement DEF Append1

\* Appending several events does the same.
LEMMA AppendMany ==
  ASSUME NEW store, NEW new
  PROVE  /\ store \subseteq AppendAll(store, new) /\ AppendAll(store, new) \subseteq store \cup new
         /\ \A e \in new : \E f \in AppendAll(store, new) : SameId(e, f)
         /\ IsFiniteSet(store) /\ IsFiniteSet(new) => IsFiniteSet(AppendAll(store, new))
  <1>1. \A e \in new : SameId(e, e)
    BY DEF SameId
  <1>2. AppendAll(store, new) = store \cup {e \in new : ~\E f \in store : SameId(e, f)}
    BY DEF AppendAll
  <1>3. IsFiniteSet(new) => IsFiniteSet({e \in new : ~\E f \in store : SameId(e, f)})
    BY FS_Subset
  <1>4. IsFiniteSet(store) /\ IsFiniteSet(new) => IsFiniteSet(AppendAll(store, new))
    BY <1>2, <1>3, FS_Union
  <1>5. \A e \in new : \E f \in AppendAll(store, new) : SameId(e, f)
    BY <1>1, <1>2
  <1>6. store \subseteq AppendAll(store, new) /\ AppendAll(store, new) \subseteq store \cup new
    BY <1>2
  <1> QED BY <1>4, <1>5, <1>6

\* The fields of an event.
LEMMA EventFields ==
  ASSUME NEW inv, NEW type, NEW key, NEW data
  PROVE  /\ Event(inv, type, key, data).inv = inv /\ Event(inv, type, key, data).type = type
         /\ Event(inv, type, key, data).key = key /\ Event(inv, type, key, data).data = data
  BY DEF Event

\* Events of a well-formed invocation.
IsEvent(e, upto) == e = Event(e.inv, e.type, e.key, e.data) /\ e.inv \in (1 .. upto) \X {0, 1}

\* An event of the current invocation is well formed.
LEMMA CurrentEvent ==
  ASSUME LoopTypeOK, NEW type, NEW key, NEW data
  PROVE  IsEvent(Event(Invocation, type, key, data), turn)
  <1>1. turn \in 1 .. MaxTurns /\ retry \in {0, 1} /\ MaxTurns \in Nat
    BY LoopAssumption DEF LoopTypeOK
  <1>2. Invocation \in (1 .. turn) \X {0, 1}
    BY <1>1 DEF Invocation
  <1> QED BY <1>2, EventFields DEF IsEvent

\* The store of a restarted process can be counted.
LEMMA CountType ==
  ASSUME LoopTypeOK, NEW type
  PROVE  IsFiniteSet({e \in events : e.type = type}) /\ Counted(type) \in Nat
  <1>1. IsFiniteSet({e \in events : e.type = type})
    BY FS_Subset DEF LoopTypeOK
  <1> QED BY <1>1, FS_CardinalityType DEF Counted

\* The budget of the run, cached or rebuilt.
LEMMA ForRun ==
  ASSUME LoopTypeOK
  PROVE  for_run \in Budgets /\ for_run.model \in Nat /\ for_run.tool \in Nat
         /\ (budget # None => for_run = budget)
         /\ (budget = None => for_run.model = Counted("MODEL_CALL"))
  <1>1. Counted("MODEL_CALL") \in Nat /\ Counted("TOOL_CALL") \in Nat
    BY CountType
  <1>2. for_run \in Budgets
    BY <1>1 DEF for_run, Budgets, LoopTypeOK
  <1> QED BY <1>2 DEF for_run, Budgets

\* A charged call.
LEMMA ModelCharge ==
  ASSUME LoopTypeOK, consume_model_call
  PROVE  /\ budget' \in Budgets /\ budget'.model = for_run.model + 1 /\ budget'.tool = for_run.tool
         /\ for_run.model < MaxModel /\ task' \in Tasks \cup {None} /\ (task' = None <=> task = None)
         /\ task # None /\ TaskHasModel =>
              /\ task'.maxModel = task.maxModel /\ task'.maxTool = task.maxTool
              /\ task'.model = task.model + 1 /\ task'.tool = task.tool
  <1>1. for_run \in Budgets /\ for_run.model \in Nat
    BY ForRun
  <1>2. budget' = [for_run EXCEPT !.model = @ + 1] /\ for_run.model < MaxModel
    BY DEF consume_model_call, RunHasModel
  <1>3. budget' \in Budgets /\ budget'.model = for_run.model + 1 /\ budget'.tool = for_run.tool
    BY <1>1, <1>2 DEF Budgets
  <1>4. task \in Tasks \cup {None}
    BY DEF LoopTypeOK, Tasks
  <1>5. CASE task = None
    BY <1>2, <1>3, <1>5 DEF consume_model_call
  <1>6. CASE task # None /\ ~TaskHasModel
    BY <1>2, <1>3, <1>4, <1>6 DEF consume_model_call
  <1>7. CASE task # None /\ TaskHasModel
    <2>1. task \in Tasks /\ task.model \in Nat /\ task' = [task EXCEPT !.model = @ + 1]
      BY <1>4, <1>7 DEF consume_model_call, Tasks
    <2>2. /\ task' \in Tasks /\ task'.maxModel = task.maxModel /\ task'.maxTool = task.maxTool
          /\ task'.model = task.model + 1 /\ task'.tool = task.tool
      BY <2>1 DEF Tasks
    <2>3. task' # None
      BY <2>2, LoopAssumption DEF Tasks
    <2> QED BY <1>2, <1>3, <1>7, <2>2, <2>3
  <1> QED BY <1>5, <1>6, <1>7

\* The same for a tool call.
LEMMA ToolCharge ==
  ASSUME LoopTypeOK, consume_tool_call
  PROVE  /\ budget' \in Budgets /\ budget'.model = for_run.model /\ budget'.tool = for_run.tool + 1
         /\ task' \in Tasks \cup {None} /\ (task' = None <=> task = None)
         /\ task # None /\ TaskHasTool =>
              /\ task'.maxModel = task.maxModel /\ task'.maxTool = task.maxTool
              /\ task'.model = task.model /\ task'.tool = task.tool + 1
  <1>1. for_run \in Budgets /\ for_run.tool \in Nat
    BY ForRun
  <1>2. budget' = [for_run EXCEPT !.tool = @ + 1]
    BY DEF consume_tool_call
  <1>3. budget' \in Budgets /\ budget'.model = for_run.model /\ budget'.tool = for_run.tool + 1
    BY <1>1, <1>2 DEF Budgets
  <1>4. task \in Tasks \cup {None}
    BY DEF LoopTypeOK, Tasks
  <1>5. CASE task = None \/ ~TaskHasTool
    BY <1>3, <1>4, <1>5 DEF consume_tool_call
  <1>6. CASE task # None /\ TaskHasTool
    <2>1. task \in Tasks /\ task.tool \in Nat /\ task' = [task EXCEPT !.tool = @ + 1]
      BY <1>4, <1>6 DEF consume_tool_call, Tasks
    <2>2. /\ task' \in Tasks /\ task'.maxModel = task.maxModel /\ task'.maxTool = task.maxTool
          /\ task'.model = task.model /\ task'.tool = task.tool + 1
      BY <2>1 DEF Tasks
    <2>3. task' # None
      BY <2>2, LoopAssumption DEF Tasks
    <2> QED BY <1>3, <1>6, <2>2, <2>3
  <1> QED BY <1>5, <1>6

\* A task budget lies within what the run has left.
LEMMA TaskBudgetFits ==
  ASSUME LoopTypeOK, NEW lim \in TaskLimits, NEW t, t = _task_budget(lim)
  PROVE  /\ t \in Tasks /\ t # None /\ t.model = 0 /\ t.tool = 0
         /\ t.maxModel >= 1 => t.maxModel <= MaxModel - for_run.model
         /\ t.maxTool >= 1 => t.maxTool <= MaxTool - for_run.tool
  <1> DEFINE remaining == MaxModel - for_run.model
             tools == Min2(MaxLeaf, MaxTool - for_run.tool)
             own == IF lim = None THEN None ELSE lim.model
             actions == action_call_capacity(MaxIterations, remaining, own)
  <1>1. /\ for_run.model \in Nat /\ for_run.tool \in Nat /\ MaxModel \in Nat /\ MaxTool \in Nat
        /\ MaxLeaf \in Nat /\ MaxIterations \in Nat
    BY ForRun, LoopAssumption
  <1>2. lim # None => lim.model \in Nat /\ lim.tool \in Nat
    BY LoopAssumption
  <1>3. own = None \/ own \in Nat
    BY <1>2
  <1>4. actions \in Nat /\ (actions > 0 => actions + 1 <= remaining)
    <2> HIDE DEF own
    <2> QED BY <1>1, <1>3 DEF action_call_capacity, Min2, Max2, FINALIZATION_MODEL_CALLS
  <1>5. tools \in Int /\ tools <= MaxTool - for_run.tool
    BY <1>1 DEF Min2
  <1> DEFINE most == IF lim = None THEN tools ELSE Min2(tools, lim.tool)
  <1>6. most \in Int /\ most <= MaxTool - for_run.tool
    <2> HIDE DEF tools
    <2> QED BY <1>1, <1>2, <1>5 DEF Min2
  <1>7. t = [maxModel |-> IF actions > 0 THEN actions + FINALIZATION_MODEL_CALLS ELSE 0,
             maxTool |-> Max2(0, most), model |-> 0, tool |-> 0]
    BY DEF _task_budget
  <1>8. Max2(0, most) \in Nat /\ (Max2(0, most) >= 1 => Max2(0, most) <= MaxTool - for_run.tool)
    <2> HIDE DEF most
    <2> QED BY <1>6 DEF Max2
  <1> HIDE DEF actions, most
  <1>9. t \in Tasks
    BY <1>4, <1>7, <1>8 DEF Tasks, FINALIZATION_MODEL_CALLS
  <1> QED BY <1>1, <1>4, <1>7, <1>8, <1>9, LoopAssumption DEF Tasks, FINALIZATION_MODEL_CALLS

\* An invocation begins with empty local variables, in the loop only if its turns fit.
LEMMA BeginsEffect ==
  ASSUME LoopTypeOK, NEW t \in Tasks \cup {None}, LoopBegins(t)
  PROVE  /\ budget' = for_run /\ task' = t /\ loop' \in Loops /\ loop'.iteration = 0
         /\ loop'.calls = <<>> /\ loop'.open = <<>> /\ loop'.activated = {} /\ loop'.selected = {}
         /\ \/ pc' = "raised" /\ raised' = "exhausted"
            \/ /\ pc' = "act" /\ raised' = None /\ loop'.actions \in Nat \ {0}
               /\ loop'.actions <= MaxIterations /\ for_run.model + loop'.actions + 1 <= MaxModel
               /\ t # None => loop'.actions + 1 <= t.maxModel /\ t.maxTool >= 1
  <1> DEFINE remaining == Max2(0, MaxModel - for_run.model)
             own == IF t = None THEN MaxIterations
                    ELSE Min2(MaxIterations, Max2(0, t.maxModel - FINALIZATION_MODEL_CALLS))
             actions == Min2(own, remaining - FINALIZATION_MODEL_CALLS)
             tools == IF t = None THEN MaxLeaf ELSE Min2(MaxLeaf, t.maxTool)
  <1>1. /\ for_run.model \in Nat /\ MaxModel \in Nat /\ MaxLeaf \in Nat /\ MaxIterations \in Nat
        /\ t # None => t.maxModel \in Nat /\ t.maxTool \in Nat
    BY ForRun, LoopAssumption DEF Tasks
  <1>2. own \in Nat /\ own <= MaxIterations /\ (t # None /\ own >= 1 => own + 1 <= t.maxModel)
    BY <1>1 DEF Min2, Max2, FINALIZATION_MODEL_CALLS
  <1>3. /\ actions \in Int /\ actions <= own
        /\ remaining >= 2 => for_run.model + actions + 1 <= MaxModel
    <2> HIDE DEF own
    <2> QED BY <1>1, <1>2 DEF Min2, Max2, FINALIZATION_MODEL_CALLS
  <1>4. tools \in Nat /\ (t # None /\ tools >= 1 => t.maxTool >= 1)
    BY <1>1 DEF Min2
  <1>5. /\ budget' = for_run /\ task' = t
        /\ loop' = [NoLoop EXCEPT !.actions = actions, !.tools = tools]
        /\ \/ pc' = "raised" /\ raised' = "exhausted"
           \/ pc' = "act" /\ raised' = None /\ remaining >= 2 /\ actions >= 1 /\ tools >= 1
    BY DEF LoopBegins, Raise, FINALIZATION_MODEL_CALLS
  <1> HIDE DEF remaining, own, actions, tools
  <1>6. /\ loop'.iteration = 0 /\ loop'.calls = <<>> /\ loop'.open = <<>>
        /\ loop'.activated = {} /\ loop'.selected = {} /\ loop'.actions = actions
    BY <1>5 DEF NoLoop
  <1>7. loop' \in Loops
    <2>1. <<>> \in Seq(Calls) /\ <<>> \in Seq(CallIds)
      OBVIOUS
    <2> QED BY <1>3, <1>4, <1>5, <2>1 DEF NoLoop, Loops
  <1> QED BY <1>1, <1>2, <1>3, <1>4, <1>5, <1>6, <1>7

(***************************************************************************)
(* LoopInv is kept                                                         *)
(***************************************************************************)
\* The empty local variables.
LEMMA FreshLoop ==
  /\ NoLoop \in Loops /\ NoLoop.iteration = 0 /\ NoLoop.calls = <<>> /\ NoLoop.open = <<>>
  /\ NoLoop.activated = {} /\ NoLoop.selected = {}
  <1>1. <<>> \in Seq(Calls) /\ <<>> \in Seq(CallIds)
    OBVIOUS
  <1> QED BY <1>1 DEF NoLoop, Loops

\* The types of the parts of the state.
LEMMA LoopParts ==
  ASSUME LoopTypeOK
  PROVE  /\ turn \in 1 .. MaxTurns /\ turn \in Nat /\ retry \in {0, 1} /\ pc \in Pcs /\ crashes \in Nat
         /\ loop \in Loops /\ loop.iteration \in Nat /\ loop.toolCount \in Nat
         /\ loop.calls \in Seq(Calls) /\ loop.open \in Seq(CallIds)
         /\ loop.actions \in Int /\ loop.tools \in Nat /\ loop.activated \subseteq Skills
         /\ loop.selected \subseteq Skills /\ loop.used \subseteq Skills
         /\ spent \in Budgets /\ spent.model \in Nat /\ spent.tool \in Nat
         /\ budget \in Budgets \cup {None} /\ (budget # None => budget.model \in Nat /\ budget.tool \in Nat)
         /\ task \in Tasks \cup {None}
         /\ task # None => /\ task.model \in Nat /\ task.tool \in Nat
                           /\ task.maxModel \in Nat /\ task.maxTool \in Nat
  <1>1. /\ turn \in 1 .. MaxTurns /\ retry \in {0, 1} /\ pc \in Pcs /\ crashes \in 0 .. MaxCrashes
        /\ loop \in Loops /\ spent \in Budgets /\ budget \in Budgets \cup {None}
        /\ task \in Tasks \cup {None} /\ MaxTurns \in Nat /\ MaxCrashes \in Nat
    BY LoopAssumption DEF LoopTypeOK, Budgets, Tasks
  <1>2. /\ loop.iteration \in Nat /\ loop.toolCount \in Nat
        /\ loop.calls \in Seq(Calls) /\ loop.open \in Seq(CallIds)
        /\ loop.actions \in Int /\ loop.tools \in Nat /\ loop.activated \subseteq Skills
        /\ loop.selected \subseteq Skills /\ loop.used \subseteq Skills
    BY <1>1 DEF Loops
  <1> QED BY <1>1, <1>2 DEF Budgets, Tasks

\* The part of the type invariant about the store.
StoreOK ==
    /\ IsFiniteSet(events)
    /\ \A e \in events : /\ e = Event(e.inv, e.type, e.key, e.data)
                        /\ e.inv \in (1 .. turn) \X {0, 1}

\* A store that only gained well-formed events is well formed.
LEMMA StoreKept ==
  ASSUME LoopTypeOK, NEW new, IsFiniteSet(new), \A e \in new : IsEvent(e, turn),
         events \subseteq events', events' \subseteq events \cup new,
         turn' \in 1 .. MaxTurns, turn' >= turn
  PROVE  StoreOK'
  <1>1. IsFiniteSet(events \cup new)
    BY FS_Union DEF LoopTypeOK
  <1>2. IsFiniteSet(events')
    BY <1>1, FS_Subset
  <1>3. \A e \in events \cup new : IsEvent(e, turn)
    BY DEF LoopTypeOK, IsEvent
  <1>4. ASSUME NEW e \in events'
        PROVE  e = Event(e.inv, e.type, e.key, e.data) /\ e.inv \in (1 .. turn') \X {0, 1}
    <2>1. e = Event(e.inv, e.type, e.key, e.data) /\ e.inv \in (1 .. turn) \X {0, 1}
      BY <1>3, <1>4 DEF IsEvent
    <2>2. turn \in Nat /\ turn' \in Nat /\ MaxTurns \in Nat
      BY LoopParts, LoopAssumption
    <2>3. 1 .. turn \subseteq 1 .. turn'
      BY <2>2
    <2> QED BY <2>1, <2>3
  <1> QED BY <1>2, <1>4 DEF StoreOK

\* A skill that a process loaded in an invocation, according to a store.
LoadedIn(store, inv, process, s) ==
    \E c, r \in store :
        /\ c.type = "TOOL_CALL" /\ c.inv = inv /\ c.data = [name |-> "load_skill", skill |-> s]
        /\ c.key[2] = process
        /\ r.type = "TOOL_RESULT" /\ r.inv = inv /\ r.key = c.key /\ r.data # "rejected"

\* What the id of an event of a store says of its content.
Tells(e, store) ==
    /\ e.type = "MODEL_CALL" =>
         e.data = None /\ e.key \in ({"turn"} \X (1 .. MaxIterations)) \cup {<<"final", 0>>}
    /\ e.type = "SKILL_USED" => LoadedIn(store, e.inv, e.data.process, e.data.skill)

\* The invariant without the ids of the open calls.
LoopCore == LoopTypeOK /\ TaskWithinRun /\ TurnsFit /\ CallsAreOpen /\ EventsTell

\* A store that only gained events that tell the truth tells the truth.
LEMMA TellsKept ==
  ASSUME EventsTell, NEW new, events \subseteq events', events' \subseteq events \cup new,
         \A e \in new : Tells(e, events'),
         \A s \in loop'.activated \cup loop'.selected : LoadedIn(events', Invocation', crashes', s)
  PROVE  EventsTell'
  <1>1. \A e \in events : Tells(e, events')
    <2>1. \A e \in events : Tells(e, events)
      BY DEF EventsTell, Loaded, LoadedIn, Tells
    <2>2. ASSUME NEW inv, NEW process, NEW s, LoadedIn(events, inv, process, s)
          PROVE  LoadedIn(events', inv, process, s)
      BY <2>2 DEF LoadedIn
    <2> QED BY <2>1, <2>2 DEF Tells
  <1>2. \A e \in events' : Tells(e, events')
    BY <1>1
  <1> QED BY <1>2 DEF EventsTell, Loaded, LoadedIn, Tells

\* A step that leaves the store and the loaded skills alone changes nothing of it.
LEMMA TellsSame ==
  ASSUME EventsTell, events' = events, turn' = turn, retry' = retry, crashes' = crashes,
         loop'.activated = loop.activated, loop'.selected = loop.selected
  PROVE  EventsTell'
  <1>1. Invocation' = Invocation
    BY DEF Invocation
  <1>2. \A s \in loop'.activated \cup loop'.selected : LoadedIn(events', Invocation', crashes', s)
    BY <1>1 DEF EventsTell, Loaded, LoadedIn
  <1> DEFINE new == {}
  <1>3. events' \subseteq events \cup new /\ \A e \in new : Tells(e, events')
    OBVIOUS
  <1> HIDE DEF new
  <1> QED BY <1>2, <1>3, TellsKept

\* An invocation that is over, or not begun, has no more to keep.
LEMMA OutsideLoop ==
  ASSUME LoopInv, events' = events, turn' \in 1 .. MaxTurns, turn' >= turn, retry' \in {0, 1},
         loop' = NoLoop \/ (/\ loop' = loop /\ turn' = turn /\ retry' = retry
                             /\ crashes' = crashes /\ pc' # "idle"),
         pc' \in {"idle", "done", "exhausted", "verify", "stopped"},
         budget' \in Budgets \cup {None}, task' \in Tasks \cup {None},
         raised' \in {"exhausted", "timeout", "gateway", "other", None},
         crashes' \in 0 .. MaxCrashes, spent' = spent
  PROVE  LoopCore'
  <1>1. LoopTypeOK /\ CallsAreOpen /\ EventsTell
    BY DEF LoopInv
  <1>2. LoopTypeOK'
    <2>1. StoreOK'
      BY <1>1, StoreKept, FS_EmptySet
    <2>2. loop' \in Loops /\ pc' \in Pcs
      BY <1>1, LoopParts, FreshLoop DEF Pcs
    <2> QED BY <1>1, <2>1, <2>2 DEF LoopTypeOK, StoreOK, Budgets, Tasks
  <1>3. TaskWithinRun'
    BY DEF TaskWithinRun, InLoop
  <1>4. TurnsFit'
    BY DEF TurnsFit, InLoop
  <1>5. CallsAreOpen'
    BY <1>1, FreshLoop DEF CallsAreOpen
  <1>6. EventsTell'
    <2>1. \A s \in loop'.activated \cup loop'.selected : LoadedIn(events', Invocation', crashes', s)
      <3>1. CASE loop' = NoLoop
        BY <3>1, FreshLoop
      <3>2. CASE loop' = loop /\ turn' = turn /\ retry' = retry /\ crashes' = crashes
        BY <1>1, <3>2 DEF EventsTell, Loaded, LoadedIn, Invocation
      <3> QED BY <3>1, <3>2
    <2> QED BY <1>1, <2>1 DEF EventsTell, Loaded, LoadedIn
  <1> QED BY <1>2, <1>3, <1>4, <1>5, <1>6 DEF LoopCore

\* The events of the loop that carry no skill.
LEMMA Emitted ==
  ASSUME LoopTypeOK, EventsTell, NEW type \in {"MODEL_CALL", "ATTEMPT_FAILED", "TOOL_CALL"},
         NEW key, NEW data, Emit(Event(Invocation, type, key, data)),
         type = "MODEL_CALL" =>
           data = None /\ key \in ({"turn"} \X (1 .. MaxIterations)) \cup {<<"final", 0>>},
         turn' = turn, retry' = retry, crashes' = crashes,
         loop'.activated = loop.activated, loop'.selected = loop.selected
  PROVE  StoreOK' /\ EventsTell'
  <1> DEFINE e == Event(Invocation, type, key, data)
  <1>1. e.inv = Invocation /\ e.type = type /\ e.key = key /\ e.data = data /\ IsEvent(e, turn)
    BY EventFields, CurrentEvent
  <1>2. events' = Append1(events, e)
    BY DEF Emit
  <1> HIDE DEF e
  <1>3. events \subseteq events' /\ events' \subseteq events \cup {e}
    BY <1>2, AppendOne
  <1>4. StoreOK'
    <2>1. IsFiniteSet({e})
      BY FS_Singleton
    <2>2. turn' \in 1 .. MaxTurns /\ turn' >= turn
      BY LoopParts
    <2> QED BY <1>1, <1>3, <2>1, <2>2, StoreKept
  <1>5. \A s \in loop'.activated \cup loop'.selected : LoadedIn(events', Invocation', crashes', s)
    BY <1>3 DEF EventsTell, Loaded, LoadedIn, Invocation
  <1>6. \A f \in {e} : Tells(f, events')
    BY <1>1 DEF Tells
  <1>7. EventsTell'
    <2> DEFINE new == {e}
    <2>1. events' \subseteq events \cup new /\ \A f \in new : Tells(f, events')
      BY <1>3, <1>6
    <2> HIDE DEF new
    <2> QED BY <1>3, <1>5, <2>1, TellsKept
  <1> QED BY <1>4, <1>7

\* Beginning an invocation keeps the invariant.
LEMMA BeginsStep ==
  ASSUME LoopInv, SupervisorBegins \/ WorkerBegins
  PROVE  LoopCore'
  <1>1. LoopTypeOK /\ CallsAreOpen /\ EventsTell
    BY DEF LoopInv
  <1>2. UNCHANGED <<events, turn, retry, crashes, spent>>
    BY DEF SupervisorBegins, WorkerBegins
  <1>3. for_run \in Budgets /\ for_run \in Budgets \cup {None} /\ for_run # None /\ for_run.model \in Nat
        /\ for_run.tool \in Nat
    BY <1>1, ForRun, LoopAssumption DEF Budgets
  <1>4. ASSUME NEW t \in Tasks \cup {None}, LoopBegins(t),
               t # None => /\ t.model = 0 /\ t.tool = 0
                           /\ t.maxModel >= 1 => t.maxModel <= MaxModel - for_run.model
                           /\ t.maxTool >= 1 => t.maxTool <= MaxTool - for_run.tool
        PROVE  LoopCore'
    <2>1. /\ budget' = for_run /\ task' = t /\ loop' \in Loops /\ loop'.iteration = 0
          /\ loop'.calls = <<>> /\ loop'.open = <<>> /\ loop'.activated = {} /\ loop'.selected = {}
          /\ \/ pc' = "raised" /\ raised' = "exhausted"
             \/ /\ pc' = "act" /\ raised' = None /\ loop'.actions \in Nat \ {0}
                /\ loop'.actions <= MaxIterations /\ for_run.model + loop'.actions + 1 <= MaxModel
                /\ t # None => loop'.actions + 1 <= t.maxModel /\ t.maxTool >= 1
      BY <1>1, <1>4, BeginsEffect
    <2>2. LoopTypeOK'
      BY <1>1, <1>2, <1>3, <2>1 DEF LoopTypeOK, Pcs, Budgets, Tasks
    <2>3. t # None => t.maxModel \in Nat /\ t.maxTool \in Nat
      BY DEF Tasks
    <2>4. TaskWithinRun'
      BY <1>3, <1>4, <2>1, <2>3, LoopAssumption DEF TaskWithinRun, InLoop
    <2>5. TurnsFit'
      BY <1>3, <1>4, <2>1, <2>3, LoopAssumption DEF TurnsFit, InLoop
    <2>6. CallsAreOpen'
      BY <2>1 DEF CallsAreOpen
    <2>7. EventsTell'
      BY <1>1, <1>2, <2>1 DEF EventsTell, Loaded
    <2> QED BY <2>2, <2>4, <2>5, <2>6, <2>7 DEF LoopCore
  <1>5. CASE SupervisorBegins
    BY <1>4, <1>5 DEF SupervisorBegins
  <1>6. CASE WorkerBegins
    <2>1. PICK lim \in TaskLimits :
             LET t == _task_budget(lim)
             IN  \/ budget' = for_run /\ task' = t /\ pc' = "exhausted" /\ UNCHANGED <<loop, raised>>
                 \/ LoopBegins(t)
      BY <1>6 DEF WorkerBegins
    <2> DEFINE t == _task_budget(lim)
    <2>2. /\ t \in Tasks /\ t # None /\ t.model = 0 /\ t.tool = 0
          /\ t.maxModel >= 1 => t.maxModel <= MaxModel - for_run.model
          /\ t.maxTool >= 1 => t.maxTool <= MaxTool - for_run.tool
      BY <1>1, TaskBudgetFits
    <2> HIDE DEF t
    <2>3. CASE LoopBegins(t)
      BY <1>4, <2>2, <2>3
    <2>4. CASE budget' = for_run /\ task' = t /\ pc' = "exhausted" /\ UNCHANGED <<loop, raised>>
      <3>1. turn \in 1 .. MaxTurns /\ turn \in Nat /\ retry \in {0, 1}
        BY <1>1, LoopParts
      <3>2. raised \in {"exhausted", "timeout", "gateway", "other", None} /\ crashes \in 0 .. MaxCrashes
        BY <1>1 DEF LoopTypeOK
      <3> QED BY <1>2, <1>3, <2>2, <2>4, <3>1, <3>2, OutsideLoop
    <2> QED BY <2>1, <2>3, <2>4 DEF t
  <1> QED BY <1>5, <1>6

\* The actions that end an invocation, or stay outside it, keep the invariant.
LEMMA OutsideStep ==
  ASSUME LoopInv,
         \/ WorkerBlocked \/ PrepareRefuses \/ SupervisorRaised \/ WorkerRaised
         \/ SupervisorReturns \/ WorkerReturns \/ WorkerExhausted \/ VerifyDone \/ Crash
  PROVE  LoopCore'
  <1>1. LoopTypeOK
    BY DEF LoopInv
  <1>2. /\ turn \in 1 .. MaxTurns /\ turn \in Nat /\ retry \in {0, 1} /\ budget \in Budgets \cup {None}
        /\ task \in Tasks \cup {None} /\ for_run \in Budgets \cup {None}
        /\ raised \in {"exhausted", "timeout", "gateway", "other", None} /\ crashes \in 0 .. MaxCrashes
        /\ MaxTurns \in Nat /\ MaxCrashes \in Nat
    BY <1>1, LoopParts, ForRun, LoopAssumption DEF LoopTypeOK
  <1>3. CASE WorkerBlocked \/ PrepareRefuses \/ WorkerExhausted
    BY <1>2, <1>3, OutsideLoop DEF WorkerBlocked, PrepareRefuses, WorkerExhausted
  <1>4. CASE WorkerRaised
    <2>1. pc' \in {"done", "exhausted", "stopped"} /\ raised' = None
          /\ UNCHANGED <<events, budget, task, turn, retry, loop, crashes, spent>>
      <3>1. pc = "raised" => raised \in {"exhausted", "timeout", "gateway", "other"}
        BY <1>1 DEF LoopTypeOK
      <3> QED BY <1>4, <3>1 DEF WorkerRaised
    <2> QED BY <1>2, <2>1, OutsideLoop
  <1>5. CASE SupervisorRaised
    BY <1>2, <1>5, OutsideLoop DEF SupervisorRaised
  <1>6. CASE SupervisorReturns
    BY <1>2, <1>6, OutsideLoop DEF SupervisorReturns
  <1>7. CASE WorkerReturns
    BY <1>2, <1>7, OutsideLoop DEF WorkerReturns
  <1>8. CASE VerifyDone
    BY <1>2, <1>8, OutsideLoop DEF VerifyDone
  <1>9. CASE Crash
    BY <1>2, <1>9, OutsideLoop DEF Crash
  <1> QED BY <1>3, <1>4, <1>5, <1>6, <1>7, <1>8, <1>9

\* Until the finalize call is made, both budgets hold one more model call.
LEMMA MayAsk ==
  ASSUME LoopInv, InLoop, pc # "finalizing"
  PROVE  budget # None /\ for_run = budget /\ RunHasModel /\ TaskHasModel
  <1>1. LoopTypeOK /\ TurnsFit
    BY DEF LoopInv
  <1>2. budget # None /\ for_run = budget /\ budget.model \in Nat /\ MaxModel \in Nat
    BY <1>1, LoopParts, ForRun, LoopAssumption DEF TurnsFit
  <1>3. /\ loop.iteration \in Nat /\ loop.actions \in Int /\ loop.iteration <= loop.actions
        /\ budget.model + (loop.actions - loop.iteration) + 1 <= MaxModel
        /\ task # None => /\ task.model \in Nat /\ task.maxModel \in Nat
                          /\ task.model + (loop.actions - loop.iteration) + 1 <= task.maxModel
    BY <1>1, LoopParts DEF TurnsFit
  <1>4. RunHasModel
    BY <1>2, <1>3 DEF RunHasModel
  <1>5. TaskHasModel
    BY <1>3 DEF TaskHasModel
  <1> QED BY <1>2, <1>4, <1>5

\* An action turn is charged to both budgets.
LEMMA CallsModelStep ==
  ASSUME LoopInv, CallsModel
  PROVE  LoopCore'
  <1>1. LoopTypeOK /\ TaskWithinRun /\ TurnsFit /\ CallsAreOpen /\ EventsTell
    BY DEF LoopInv
  <1>2. pc = "act" /\ InLoop /\ loop.iteration < loop.actions
    BY DEF CallsModel, InLoop
  <1>3. budget # None /\ for_run = budget /\ RunHasModel /\ TaskHasModel
    BY <1>2, MayAsk
  <1>4. /\ pc' = "asking" /\ loop' = [loop EXCEPT !.iteration = @ + 1]
        /\ spent' = [spent EXCEPT !.model = @ + 1] /\ raised' = raised
        /\ consume_model_call /\ UNCHANGED <<events, turn, retry, crashes>>
    BY <1>3 DEF CallsModel
  <1>5. /\ loop \in Loops /\ loop.iteration \in Nat /\ loop.actions \in Int /\ spent \in Budgets
        /\ spent.model \in Nat /\ budget.model \in Nat /\ budget.tool \in Nat
        /\ task # None => /\ task.model \in Nat /\ task.tool \in Nat
                          /\ task.maxModel \in Nat /\ task.maxTool \in Nat
    BY <1>1, <1>3, LoopParts
  <1>6. /\ loop' \in Loops /\ loop'.iteration = loop.iteration + 1 /\ loop'.actions = loop.actions
        /\ loop'.calls = loop.calls /\ loop'.open = loop.open
        /\ loop'.activated = loop.activated /\ loop'.selected = loop.selected
    <2>1. PICK i \in Nat : i = loop.iteration + 1
      BY <1>5
    <2>2. loop' = [loop EXCEPT !.iteration = i]
      BY <1>4, <2>1
    <2> QED BY <1>5, <2>1, <2>2 DEF Loops
  <1>7. /\ budget' \in Budgets /\ budget'.model = budget.model + 1 /\ budget'.tool = budget.tool
        /\ task' \in Tasks \cup {None} /\ (task' = None <=> task = None) /\ budget' # None
        /\ task # None =>
             /\ task'.maxModel = task.maxModel /\ task'.maxTool = task.maxTool
             /\ task'.model = task.model + 1 /\ task'.tool = task.tool
    BY <1>1, <1>3, <1>4, ModelCharge, LoopAssumption DEF Budgets
  <1>8. LoopTypeOK'
    <2>1. spent' \in Budgets
      BY <1>4, <1>5 DEF Budgets
    <2> QED BY <1>1, <1>4, <1>6, <1>7, <2>1 DEF LoopTypeOK, Pcs, Budgets, Tasks
  <1>9. TaskWithinRun'
    <2>1. task # None => /\ task.maxModel - task.model <= MaxModel - budget.model
                         /\ task.maxTool - task.tool <= MaxTool - budget.tool
      BY <1>1, <1>2 DEF TaskWithinRun
    <2>2. MaxModel \in Nat /\ MaxTool \in Nat
      BY LoopAssumption
    <2>3. task # None => /\ task'.maxModel - task'.model <= MaxModel - budget'.model
                         /\ task'.maxTool - task'.tool <= MaxTool - budget'.tool
      BY <1>5, <1>7, <2>1, <2>2
    <2> QED BY <1>7, <2>3 DEF TaskWithinRun
  <1>10. TurnsFit'
    <2>1. /\ loop.iteration <= loop.actions /\ loop.actions <= MaxIterations /\ MaxModel \in Nat
          /\ budget.model + (loop.actions - loop.iteration) + 1 <= MaxModel
          /\ task # None => task.model + (loop.actions - loop.iteration) + 1 <= task.maxModel
      BY <1>1, <1>2, LoopAssumption DEF TurnsFit
    <2>2. loop'.iteration <= loop'.actions /\ loop'.actions <= MaxIterations /\ loop'.iteration >= 1
      BY <1>2, <1>5, <1>6, <2>1
    <2>3. budget'.model + (loop'.actions - loop'.iteration) + 1 <= MaxModel
      BY <1>5, <1>6, <1>7, <2>1
    <2>4. task' # None => task'.model + (loop'.actions - loop'.iteration) + 1 <= task'.maxModel
      BY <1>5, <1>6, <1>7, <2>1
    <2> QED BY <1>4, <1>7, <2>2, <2>3, <2>4 DEF TurnsFit, InLoop
  <1>11. CallsAreOpen'
    BY <1>1, <1>2, <1>4, <1>6 DEF CallsAreOpen
  <1>12. EventsTell'
    BY <1>1, <1>4, <1>6, TellsSame
  <1> QED BY <1>8, <1>9, <1>10, <1>11, <1>12 DEF LoopCore

\* The finalize call is charged to both budgets.
LEMMA CallsFinalizeStep ==
  ASSUME LoopInv, CallsFinalize
  PROVE  LoopCore'
  <1>1. LoopTypeOK /\ TaskWithinRun /\ TurnsFit /\ CallsAreOpen /\ EventsTell
    BY DEF LoopInv
  <1>2. pc = "finalize" /\ InLoop
    BY DEF CallsFinalize, InLoop
  <1>3. budget # None /\ for_run = budget /\ RunHasModel /\ TaskHasModel
    BY <1>2, MayAsk
  <1>4. /\ pc' = "finalizing" /\ spent' = [spent EXCEPT !.model = @ + 1] /\ raised' = raised
        /\ consume_model_call /\ UNCHANGED <<events, turn, retry, loop, crashes>>
    BY <1>3 DEF CallsFinalize
  <1>5. /\ spent \in Budgets /\ spent.model \in Nat /\ budget.model \in Nat /\ budget.tool \in Nat
        /\ task # None => /\ task.model \in Nat /\ task.tool \in Nat
                          /\ task.maxModel \in Nat /\ task.maxTool \in Nat
    BY <1>1, <1>3, LoopParts
  <1>6. /\ budget' \in Budgets /\ budget'.model = budget.model + 1 /\ budget'.tool = budget.tool
        /\ task' \in Tasks \cup {None} /\ (task' = None <=> task = None) /\ budget' # None
        /\ task # None =>
             /\ task'.maxModel = task.maxModel /\ task'.maxTool = task.maxTool
             /\ task'.model = task.model + 1 /\ task'.tool = task.tool
    BY <1>1, <1>3, <1>4, ModelCharge, LoopAssumption DEF Budgets
  <1>7. LoopTypeOK'
    <2>1. spent' \in Budgets
      BY <1>4, <1>5 DEF Budgets
    <2> QED BY <1>1, <1>4, <1>6, <2>1 DEF LoopTypeOK, Pcs, Budgets, Tasks
  <1>8. TaskWithinRun'
    <2>1. task # None => /\ task.maxModel - task.model <= MaxModel - budget.model
                         /\ task.maxTool - task.tool <= MaxTool - budget.tool
      BY <1>1, <1>2 DEF TaskWithinRun
    <2>2. MaxModel \in Nat /\ MaxTool \in Nat
      BY LoopAssumption
    <2>3. task # None => /\ task'.maxModel - task'.model <= MaxModel - budget'.model
                         /\ task'.maxTool - task'.tool <= MaxTool - budget'.tool
      BY <1>5, <1>6, <2>1, <2>2
    <2> QED BY <1>6, <2>3 DEF TaskWithinRun
  <1>9. TurnsFit'
    BY <1>1, <1>2, <1>4, <1>6 DEF TurnsFit, InLoop
  <1>10. CallsAreOpen'
    BY <1>1, <1>2, <1>4 DEF CallsAreOpen
  <1>11. EventsTell'
    BY <1>1, <1>4, TellsSame
  <1> QED BY <1>7, <1>8, <1>9, <1>10, <1>11 DEF LoopCore

\* The event of the awaited action turn has the number of a turn.
LEMMA TurnKey ==
  ASSUME LoopInv, pc = "asking"
  PROVE  <<"turn", loop.iteration>> \in ({"turn"} \X (1 .. MaxIterations)) \cup {<<"final", 0>>}
  <1>1. /\ loop.iteration \in Nat /\ loop.actions \in Int /\ loop.iteration >= 1
        /\ loop.iteration <= loop.actions /\ loop.actions <= MaxIterations /\ MaxIterations \in Nat
    BY LoopParts, LoopAssumption DEF LoopInv, TurnsFit, InLoop
  <1>2. loop.iteration \in 1 .. MaxIterations
    BY <1>1
  <1> QED BY <1>2

\* An answer leaves one open call for every tool call it asks for.
LEMMA ModelAnswersStep ==
  ASSUME LoopInv, ModelAnswers
  PROVE  LoopCore'
  <1>1. LoopTypeOK /\ TaskWithinRun /\ TurnsFit /\ CallsAreOpen /\ EventsTell
    BY DEF LoopInv
  <1>2. /\ pc = "asking" /\ Emit(Event(Invocation, "MODEL_CALL", <<"turn", loop.iteration>>, None))
        /\ UNCHANGED <<budget, task, turn, retry, raised, crashes, spent>>
    BY DEF ModelAnswers
  <1>3. PICK calls \in Responses :
          /\ loop' = [loop EXCEPT !.calls = calls, !.open = [k \in 1 .. Len(calls) |-> CallId(k)]]
          /\ pc' = IF calls = <<>> THEN "finalize" ELSE "tools"
    BY DEF ModelAnswers
  <1>4. calls \in Seq(Calls) /\ Len(calls) \in Nat /\ (calls = <<>> => Len(calls) = 0)
    <2>1. calls \in Seq(Calls)
      BY LoopAssumption DEF Calls
    <2> QED BY <2>1
  <1>5. [k \in 1 .. Len(calls) |-> CallId(k)] \in Seq(CallIds)
        /\ Len([k \in 1 .. Len(calls) |-> CallId(k)]) = Len(calls)
    <2>1. crashes \in Nat /\ spent.model \in Nat
      BY <1>1, LoopParts
    <2>2. \A k \in 1 .. Len(calls) : CallId(k) \in CallIds
      BY <1>4, <2>1 DEF CallId, CallIds
    <2> DEFINE ids == [k \in 1 .. Len(calls) |-> CallId(k)]
    <2>3. ids \in [1 .. Len(calls) -> CallIds]
      BY <2>2
    <2> HIDE DEF ids
    <2>4. ids \in Seq(CallIds) /\ Len(ids) = Len(calls)
      BY <1>4, <2>3
    <2> QED BY <2>4 DEF ids
  <1>6. /\ loop' \in Loops /\ loop'.iteration = loop.iteration /\ loop'.actions = loop.actions
        /\ loop'.calls = calls /\ Len(loop'.open) = Len(calls)
        /\ loop'.activated = loop.activated /\ loop'.selected = loop.selected
    <2> DEFINE ids == [k \in 1 .. Len(calls) |-> CallId(k)]
    <2>1. ids \in Seq(CallIds) /\ Len(ids) = Len(calls) /\ loop \in Loops
          /\ loop' = [loop EXCEPT !.calls = calls, !.open = ids]
      BY <1>1, <1>3, <1>5, LoopParts
    <2> HIDE DEF ids
    <2> QED BY <1>4, <2>1 DEF Loops
  <1>7. StoreOK' /\ EventsTell'
    BY <1>1, <1>2, <1>6, TurnKey, Emitted
  <1>8. LoopTypeOK'
    BY <1>1, <1>2, <1>3, <1>6, <1>7 DEF LoopTypeOK, StoreOK, Pcs
  <1>9. TaskWithinRun'
    BY <1>1, <1>2 DEF TaskWithinRun, InLoop
  <1>10. TurnsFit'
    BY <1>1, <1>2, <1>3, <1>6 DEF TurnsFit, InLoop
  <1>11. CallsAreOpen'
    BY <1>3, <1>6 DEF CallsAreOpen
  <1> QED BY <1>7, <1>8, <1>9, <1>10, <1>11 DEF LoopCore

\* A failed call leaves the loop.
LEMMA FailsStep ==
  ASSUME LoopInv, ModelFails \/ FinalFails
  PROVE  LoopCore'
  <1>1. LoopTypeOK /\ CallsAreOpen /\ EventsTell
    BY DEF LoopInv
  <1>2. PICK key \in ({"turn"} \X (1 .. MaxIterations)) \cup {<<"final", 0>>} :
          Emit(Event(Invocation, "MODEL_CALL", key, None))
    BY TurnKey DEF ModelFails, FinalFails
  <1>3. /\ pc' = "raised" /\ raised' \in {"timeout", "gateway", "other"}
        /\ UNCHANGED <<budget, task, turn, retry, loop, crashes, spent>>
    BY DEF ModelFails, FinalFails, Raise
  <1>4. StoreOK' /\ EventsTell'
    BY <1>1, <1>2, <1>3, Emitted
  <1>5. LoopTypeOK'
    BY <1>1, <1>3, <1>4 DEF LoopTypeOK, StoreOK, Pcs
  <1>6. TaskWithinRun' /\ TurnsFit' /\ CallsAreOpen'
    BY <1>1, <1>3 DEF TaskWithinRun, TurnsFit, CallsAreOpen, InLoop
  <1> QED BY <1>4, <1>5, <1>6 DEF LoopCore

\* The turns are used up.
LEMMA OutOfTurnsStep ==
  ASSUME LoopInv, OutOfTurns
  PROVE  LoopCore'
  <1>1. LoopTypeOK /\ TaskWithinRun /\ TurnsFit /\ CallsAreOpen /\ EventsTell
    BY DEF LoopInv
  <1>2. /\ pc = "act" /\ pc' = "finalize"
        /\ UNCHANGED <<events, budget, task, turn, retry, loop, raised, crashes, spent>>
    BY DEF OutOfTurns
  <1>3. LoopTypeOK'
    BY <1>1, <1>2 DEF LoopTypeOK, Pcs
  <1>4. TaskWithinRun' /\ TurnsFit' /\ CallsAreOpen'
    BY <1>1, <1>2 DEF TaskWithinRun, TurnsFit, CallsAreOpen, InLoop
  <1>5. EventsTell'
    BY <1>1, <1>2, TellsSame
  <1> QED BY <1>3, <1>4, <1>5 DEF LoopCore

\* The calls over the leaf limit are answered at once.
LEMMA ToolOverLimitStep ==
  ASSUME LoopInv, ToolOverLimit
  PROVE  LoopCore'
  <1>1. LoopTypeOK /\ TaskWithinRun /\ TurnsFit /\ CallsAreOpen /\ EventsTell
    BY DEF LoopInv
  <1>2. /\ pc = "tools" /\ pc' = "finalize"
        /\ loop' = [loop EXCEPT !.toolCount = @ + 1, !.calls = <<>>, !.open = <<>>]
        /\ Emit(Event(Invocation, "ATTEMPT_FAILED", <<"tool-budget", loop.iteration>>, None))
        /\ UNCHANGED <<budget, task, turn, retry, raised, crashes, spent>>
    BY DEF ToolOverLimit
  <1>3. /\ loop' \in Loops /\ loop'.iteration = loop.iteration /\ loop'.actions = loop.actions
        /\ loop'.calls = <<>> /\ loop'.open = <<>>
        /\ loop'.activated = loop.activated /\ loop'.selected = loop.selected
    <2>1. PICK n \in Nat : n = loop.toolCount + 1
      BY <1>1, LoopParts
    <2>2. loop' = [loop EXCEPT !.toolCount = n, !.calls = <<>>, !.open = <<>>] /\ loop \in Loops
      BY <1>1, <1>2, <2>1, LoopParts
    <2>3. <<>> \in Seq(Calls) /\ <<>> \in Seq(CallIds)
      OBVIOUS
    <2> QED BY <2>2, <2>3 DEF Loops
  <1>4. StoreOK' /\ EventsTell'
    BY <1>1, <1>2, <1>3, Emitted
  <1>5. LoopTypeOK'
    BY <1>1, <1>2, <1>3, <1>4 DEF LoopTypeOK, StoreOK, Pcs
  <1>6. TaskWithinRun'
    BY <1>1, <1>2 DEF TaskWithinRun, InLoop
  <1>7. TurnsFit'
    BY <1>1, <1>2, <1>3 DEF TurnsFit, InLoop
  <1>8. CallsAreOpen'
    BY <1>2, <1>3 DEF CallsAreOpen
  <1> QED BY <1>4, <1>5, <1>6, <1>7, <1>8 DEF LoopCore

\* A tool call is charged and recorded, or leaves the loop.
LEMMA ToolBeginsStep ==
  ASSUME LoopInv, ToolBegins
  PROVE  LoopCore'
  <1>1. LoopTypeOK /\ TaskWithinRun /\ TurnsFit /\ CallsAreOpen /\ EventsTell
    BY DEF LoopInv
  <1>2. /\ pc = "tools" /\ InLoop /\ loop' = [loop EXCEPT !.toolCount = @ + 1]
        /\ UNCHANGED <<turn, retry, crashes>>
    BY DEF ToolBegins, InLoop
  <1>3. /\ loop' \in Loops /\ loop'.iteration = loop.iteration /\ loop'.actions = loop.actions
        /\ loop'.calls = loop.calls /\ loop'.open = loop.open
        /\ loop'.activated = loop.activated /\ loop'.selected = loop.selected
    <2>1. PICK n \in Nat : n = loop.toolCount + 1
      BY <1>1, LoopParts
    <2>2. loop' = [loop EXCEPT !.toolCount = n] /\ loop \in Loops
      BY <1>1, <1>2, <2>1, LoopParts
    <2> QED BY <2>2 DEF Loops
  <1>4. budget # None /\ for_run = budget /\ budget.model \in Nat /\ budget.tool \in Nat
    BY <1>1, <1>2, MayAsk, LoopParts
  <1>5. RunHasTool =>
          /\ budget' \in Budgets /\ budget'.model = budget.model /\ budget'.tool = budget.tool + 1
          /\ budget' # None /\ task' \in Tasks \cup {None} /\ (task' = None <=> task = None)
          /\ task # None /\ TaskHasTool =>
               /\ task'.maxModel = task.maxModel /\ task'.maxTool = task.maxTool
               /\ task'.model = task.model /\ task'.tool = task.tool + 1
    <2>1. SUFFICES ASSUME RunHasTool PROVE budget' # None /\ consume_tool_call
      BY <1>1, <1>4, ToolCharge
    <2>2. consume_tool_call
      BY <2>1 DEF ToolBegins
    <2> QED BY <1>1, <2>2, ToolCharge, LoopAssumption DEF Budgets
  <1>6. ~RunHasTool => UNCHANGED <<budget, task>>
    BY DEF ToolBegins
  <1>7. budget' \in Budgets \cup {None} /\ task' \in Tasks \cup {None}
    BY <1>1, <1>5, <1>6, LoopParts
  <1>8. CASE RunHasTool /\ TaskHasTool
    <2>1. /\ pc' = "invoking" /\ spent' = [spent EXCEPT !.tool = @ + 1] /\ raised' = raised
          /\ Emit(Event(Invocation, "TOOL_CALL", Head(loop.open), Head(loop.calls)))
      BY <1>8 DEF ToolBegins
    <2>2. StoreOK' /\ EventsTell'
      BY <1>1, <1>2, <1>3, <2>1, Emitted
    <2>3. spent' \in Budgets
      <3>1. spent \in Budgets /\ spent.tool \in Nat
        BY <1>1, LoopParts
      <3> QED BY <2>1, <3>1 DEF Budgets
    <2>4. LoopTypeOK'
      BY <1>1, <1>2, <1>3, <1>7, <2>1, <2>2, <2>3 DEF LoopTypeOK, StoreOK, Pcs, Budgets, Tasks
    <2>5. task # None => task.tool \in Nat /\ task.maxTool \in Nat
      BY <1>1, LoopParts
    <2>6. TaskWithinRun'
      <3>1. task # None => /\ task.maxModel - task.model <= MaxModel - budget.model
                           /\ task.maxTool - task.tool <= MaxTool - budget.tool
        BY <1>1, <1>2 DEF TaskWithinRun
      <3>2. SUFFICES ASSUME task' # None
                     PROVE  /\ task'.maxModel - task'.model <= MaxModel - budget'.model
                            /\ task'.maxTool - task'.tool <= MaxTool - budget'.tool
        BY DEF TaskWithinRun
      <3>3. /\ task'.maxModel = task.maxModel /\ task'.maxTool = task.maxTool
            /\ task'.model = task.model /\ task'.tool = task.tool + 1 /\ task # None
            /\ budget'.model = budget.model /\ budget'.tool = budget.tool + 1
        BY <1>5, <1>8, <3>2
      <3> QED BY <1>4, <2>5, <3>1, <3>3, LoopAssumption
    <2>7. TurnsFit'
      BY <1>1, <1>2, <1>3, <1>5, <1>8, <2>1 DEF TurnsFit, InLoop
    <2>8. CallsAreOpen'
      BY <1>1, <1>2, <1>3, <2>1 DEF CallsAreOpen
    <2> QED BY <2>2, <2>4, <2>6, <2>7, <2>8 DEF LoopCore
  <1>9. CASE ~(RunHasTool /\ TaskHasTool)
    <2>1. pc' = "raised" /\ raised' = "exhausted" /\ UNCHANGED <<events, spent>>
      BY <1>9 DEF ToolBegins, Raise
    <2>2. LoopTypeOK'
      BY <1>1, <1>2, <1>3, <1>7, <2>1 DEF LoopTypeOK, Pcs, Budgets, Tasks
    <2>3. TaskWithinRun' /\ TurnsFit'
      BY <2>1 DEF TaskWithinRun, TurnsFit, InLoop
    <2>4. CallsAreOpen'
      BY <1>1, <1>3, <2>1 DEF CallsAreOpen
    <2>5. EventsTell'
      BY <1>1, <1>2, <1>3, <2>1, TellsSame
    <2> QED BY <2>2, <2>3, <2>4, <2>5 DEF LoopCore
  <1> QED BY <1>8, <1>9

\* A verification command is charged and recorded.
LEMMA VerifyCommandStep ==
  ASSUME LoopInv, VerifyCommand
  PROVE  LoopCore'
  <1>1. LoopTypeOK /\ CallsAreOpen /\ EventsTell
    BY DEF LoopInv
  <1>2. pc = "verify" /\ UNCHANGED <<turn, retry, raised, crashes>>
    BY DEF VerifyCommand
  <1>3. CASE RunHasTool
    <2>1. /\ consume_tool_call /\ loop' = [loop EXCEPT !.iteration = @ + 1] /\ pc' = pc
          /\ spent' = [spent EXCEPT !.tool = @ + 1]
          /\ Emit(Event(Invocation, "TOOL_CALL", <<"verify", loop.iteration>>, None))
      BY <1>3 DEF VerifyCommand
    <2>2. /\ loop' \in Loops /\ loop'.calls = loop.calls /\ loop'.open = loop.open
          /\ loop'.activated = loop.activated /\ loop'.selected = loop.selected
      <3>1. PICK n \in Nat : n = loop.iteration + 1
        BY <1>1, LoopParts
      <3>2. loop' = [loop EXCEPT !.iteration = n] /\ loop \in Loops
        BY <1>1, <2>1, <3>1, LoopParts
      <3> QED BY <3>2 DEF Loops
    <2>3. StoreOK' /\ EventsTell'
      BY <1>1, <1>2, <2>1, <2>2, Emitted
    <2>4. spent' \in Budgets /\ budget' \in Budgets /\ task' \in Tasks \cup {None}
      <3>1. spent \in Budgets /\ spent.tool \in Nat
        BY <1>1, LoopParts
      <3>2. spent' \in Budgets
        BY <2>1, <3>1 DEF Budgets
      <3> QED BY <1>1, <2>1, <3>2, ToolCharge
    <2>5. LoopTypeOK'
      BY <1>1, <1>2, <2>1, <2>2, <2>3, <2>4 DEF LoopTypeOK, StoreOK, Pcs, Budgets, Tasks
    <2>6. TaskWithinRun' /\ TurnsFit'
      BY <1>2, <2>1 DEF TaskWithinRun, TurnsFit, InLoop
    <2>7. CallsAreOpen'
      BY <1>1, <1>2, <2>1, <2>2 DEF CallsAreOpen
    <2> QED BY <2>3, <2>5, <2>6, <2>7 DEF LoopCore
  <1>4. CASE ~RunHasTool
    <2>1. pc' = "stopped" /\ UNCHANGED <<events, budget, task, loop, spent>>
      BY <1>4 DEF VerifyCommand
    <2>2. /\ turn \in 1 .. MaxTurns /\ turn \in Nat /\ retry \in {0, 1} /\ budget \in Budgets \cup {None}
          /\ task \in Tasks \cup {None}
          /\ raised \in {"exhausted", "timeout", "gateway", "other", None} /\ crashes \in 0 .. MaxCrashes
      BY <1>1, LoopParts DEF LoopTypeOK
    <2> QED BY <1>2, <2>1, <2>2, OutsideLoop
  <1> QED BY <1>3, <1>4

\* A result is recorded with the skill event that belongs to it.
LEMMA ToolReturnsStep ==
  ASSUME LoopInv, ToolReturns
  PROVE  LoopCore'
  <1> DEFINE c == Head(loop.calls)
             id == Head(loop.open)
             activates(out) == c.name = "load_skill" /\ out # "rejected"
             loaded(out) == c.name = "load_skill" /\ out = "ok"
             ran(out) == c.name = "run_skill_script" /\ out # "rejected"
             result(out) == Event(Invocation, "TOOL_RESULT", id, out)
  <1>1. LoopTypeOK /\ TaskWithinRun /\ TurnsFit /\ CallsAreOpen /\ EventsTell
    BY DEF LoopInv
  <1>2. pc = "invoking" /\ UNCHANGED <<budget, task, turn, retry, raised, crashes, spent>>
    BY DEF ToolReturns
  <1>3. PICK out \in ToolOutcomes :
          /\ events' = AppendAll(Append1(events, result(out)), SkillEvents(out))
          /\ loop' = [loop EXCEPT
                    !.calls = Tail(@), !.open = Tail(@),
                    !.activated = IF activates(out) THEN @ \cup {c.skill} ELSE @,
                    !.selected = IF loaded(out) THEN @ \cup {c.skill} ELSE @,
                    !.used = IF ran(out) THEN @ \cup {c.skill} ELSE @,
                    !.staged = @ \/ (c.name = "replace_text" /\ out = "ok"
                                     /\ Role = "worker")]
          /\ pc' = IF Tail(loop.calls) = <<>> THEN "act" ELSE "tools"
    BY DEF ToolReturns
  <1>4. /\ c \in Calls /\ c.skill \in Skills /\ Tail(loop.calls) \in Seq(Calls)
        /\ Tail(loop.open) \in Seq(CallIds) /\ Len(Tail(loop.open)) = Len(Tail(loop.calls))
    <2>1. /\ loop.calls \in Seq(Calls) /\ loop.calls # <<>> /\ Len(loop.open) = Len(loop.calls)
          /\ loop.open \in Seq(CallIds)
      BY <1>1, <1>2, LoopParts DEF CallsAreOpen
    <2>2. loop.open # <<>>
      BY <2>1
    <2>3. /\ c \in Calls /\ Tail(loop.calls) \in Seq(Calls) /\ Len(Tail(loop.calls)) = Len(loop.calls) - 1
          /\ Tail(loop.open) \in Seq(CallIds) /\ Len(Tail(loop.open)) = Len(loop.open) - 1
      BY <2>1, <2>2, HeadTailProperties
    <2> QED BY <2>1, <2>3 DEF Calls
  <1>5. PICK act \in SUBSET Skills, sel \in SUBSET Skills, use \in SUBSET Skills, st \in BOOLEAN :
          /\ loop' = [loop EXCEPT !.calls = Tail(loop.calls), !.open = Tail(loop.open),
                                  !.activated = act, !.selected = sel, !.used = use, !.staged = st]
          /\ act = IF activates(out) THEN loop.activated \cup {c.skill} ELSE loop.activated
          /\ sel = IF loaded(out) THEN loop.selected \cup {c.skill} ELSE loop.selected
    <2> DEFINE act == IF activates(out) THEN loop.activated \cup {c.skill} ELSE loop.activated
               sel == IF loaded(out) THEN loop.selected \cup {c.skill} ELSE loop.selected
               use == IF ran(out) THEN loop.used \cup {c.skill} ELSE loop.used
               st == loop.staged \/ (c.name = "replace_text" /\ out = "ok" /\ Role = "worker")
    <2>1. loop.activated \subseteq Skills /\ loop.selected \subseteq Skills /\ loop.used \subseteq Skills
      BY <1>1, LoopParts
    <2>2. act \in SUBSET Skills /\ sel \in SUBSET Skills /\ use \in SUBSET Skills
      BY <1>4, <2>1
    <2>3. st \in BOOLEAN
      OBVIOUS
    <2>4. loop' = [loop EXCEPT !.calls = Tail(loop.calls), !.open = Tail(loop.open),
                               !.activated = act, !.selected = sel, !.used = use, !.staged = st]
      BY <1>3
    <2> HIDE DEF act, sel, use, st
    <2>5. /\ act = IF activates(out) THEN loop.activated \cup {c.skill} ELSE loop.activated
          /\ sel = IF loaded(out) THEN loop.selected \cup {c.skill} ELSE loop.selected
      BY DEF act, sel
    <2> QED BY <2>2, <2>3, <2>4, <2>5
  <1>6. /\ loop' \in Loops /\ loop'.iteration = loop.iteration /\ loop'.actions = loop.actions
        /\ loop'.calls = Tail(loop.calls) /\ loop'.open = Tail(loop.open)
        /\ loop'.activated = act /\ loop'.selected = sel
    <2>1. loop \in Loops
      BY <1>1, LoopParts
    <2> QED BY <1>4, <1>5, <2>1 DEF Loops
  <1> DEFINE new == {result(out)} \cup SkillEvents(out)
  <1>7. /\ events \subseteq events' /\ events' \subseteq events \cup new
        /\ \A e \in SkillEvents(out) : \E f \in events' : SameId(e, f)
    <2> DEFINE store == Append1(events, result(out))
    <2>1. events \subseteq store /\ store \subseteq events \cup {result(out)}
      BY AppendOne
    <2>2. /\ store \subseteq events' /\ events' \subseteq store \cup SkillEvents(out)
          /\ \A e \in SkillEvents(out) : \E f \in events' : SameId(e, f)
      BY <1>3, AppendMany
    <2> QED BY <2>1, <2>2
  <1>8. \/ SkillEvents(out) = {}
        \/ SkillEvents(out) = {Event(Invocation, "SKILL_INVOCATION_REJECTED", id, c.skill)}
        \/ /\ SkillEvents(out) = {Event(Invocation, "SKILL_SELECTED", <<"select", c.skill>>, c.skill)}
           /\ loaded(out)
        \/ /\ SkillEvents(out) = {Event(Invocation, "SKILL_USED", id, Use(c.skill, "script"))}
           /\ ran(out)
    BY Zenon DEF SkillEvents
  <1>9. activates(out) => LoadedIn(events', Invocation, crashes, c.skill)
    <2> DEFINE call == Event(Invocation, "TOOL_CALL", id, c)
    <2>1. /\ call \in events /\ id \in CallIds /\ id[2] = crashes
          /\ \A e \in events : e.type = "TOOL_RESULT" => e.key # id
      <3>1. /\ loop.open \in Seq(CallIds) /\ loop.open # <<>> /\ Len(loop.open) = Len(loop.calls)
            /\ loop.calls \in Seq(Calls) /\ loop.calls # <<>>
        BY <1>1, <1>2, LoopParts DEF CallsAreOpen
      <3>2. 1 \in 1 .. Len(loop.open) /\ id = loop.open[1] /\ loop.open[1] \in CallIds
        BY <3>1
      <3> QED BY <1>2, <3>2 DEF LoopInv, OpenIdsAreNew
    <2>2. result(out) \in events'
      <3>1. \A f \in events : ~SameId(result(out), f)
        BY <2>1, EventFields DEF SameId
      <3>2. Append1(events, result(out)) = events \cup {result(out)}
        BY <3>1 DEF Append1, SameId
      <3> QED BY <1>3, <3>2, AppendMany
    <2>3. call.type = "TOOL_CALL" /\ call.inv = Invocation /\ call.key = id /\ call.data = c
      BY EventFields
    <2>4. /\ result(out).type = "TOOL_RESULT" /\ result(out).inv = Invocation
          /\ result(out).key = id /\ result(out).data = out
      BY EventFields
    <2>5. activates(out) => c = [name |-> "load_skill", skill |-> c.skill] /\ out # "rejected"
      BY <1>4 DEF Calls
    <2> HIDE DEF call, result, c, id
    <2> QED BY <1>7, <2>1, <2>2, <2>3, <2>4, <2>5 DEF LoadedIn
  <1>10. ran(out) => c.skill \in loop.activated
    BY <1>3 DEF ToolOutcomes
  <1> HIDE DEF c, id
  <1>11. \A e \in new : IsEvent(e, turn)
    BY <1>1, <1>8, CurrentEvent
  <1>12. IsFiniteSet(new)
    <2>1. SkillEvents(out) = {} \/ \E e : SkillEvents(out) = {e}
      BY <1>8
    <2>2. IsFiniteSet({}) /\ \A e : IsFiniteSet({e})
      BY FS_EmptySet, FS_Singleton
    <2>3. IsFiniteSet({result(out)}) /\ IsFiniteSet(SkillEvents(out))
      BY <2>1, <2>2
    <2> QED BY <2>3, FS_Union
  <1>13. \A s \in loop.activated \cup loop.selected : LoadedIn(events', Invocation, crashes, s)
    BY <1>1, <1>7 DEF EventsTell, Loaded, LoadedIn
  <1>14. \A e \in new : Tells(e, events')
    <2>1. Tells(result(out), events')
      BY EventFields DEF Tells
    <2>2. ASSUME NEW e \in SkillEvents(out) PROVE Tells(e, events')
      <3>1. CASE e = Event(Invocation, "SKILL_INVOCATION_REJECTED", id, c.skill)
        BY <3>1, EventFields DEF Tells
      <3>2. CASE e = Event(Invocation, "SKILL_SELECTED", <<"select", c.skill>>, c.skill)
        BY <3>2, EventFields DEF Tells
      <3>3. CASE ran(out) /\ e = Event(Invocation, "SKILL_USED", id, Use(c.skill, "script"))
        <4>1. /\ e.type = "SKILL_USED" /\ e.inv = Invocation
              /\ e.data.skill = c.skill /\ e.data.process = crashes
          BY <3>3, EventFields DEF Use
        <4>2. LoadedIn(events', Invocation, crashes, c.skill)
          BY <1>10, <1>13, <3>3
        <4> QED BY <4>1, <4>2 DEF Tells
      <3> QED BY <1>8, <3>1, <3>2, <3>3
    <2> QED BY <2>1, <2>2
  <1> HIDE DEF new
  <1>16. StoreOK'
    <2>1. turn' \in 1 .. MaxTurns /\ turn' >= turn
      BY <1>1, <1>2, LoopParts
    <2> QED BY <1>1, <1>7, <1>11, <1>12, <2>1, StoreKept
  <1>17. EventsTell'
    <2>1. Invocation' = Invocation
      BY <1>2 DEF Invocation
    <2>2. \A s \in loop'.activated \cup loop'.selected : LoadedIn(events', Invocation', crashes', s)
      BY <1>2, <1>5, <1>6, <1>9, <1>13, <2>1
    <2> QED BY <1>1, <1>7, <1>14, <2>2, TellsKept
  <1>18. LoopTypeOK'
    BY <1>1, <1>2, <1>3, <1>6, <1>16 DEF LoopTypeOK, StoreOK, Pcs
  <1>19. TaskWithinRun'
    BY <1>1, <1>2 DEF TaskWithinRun, InLoop
  <1>20. TurnsFit'
    BY <1>1, <1>2, <1>3, <1>6 DEF TurnsFit, InLoop
  <1>21. CallsAreOpen'
    BY <1>3, <1>4, <1>6 DEF CallsAreOpen
  <1> QED BY <1>17, <1>18, <1>19, <1>20, <1>21 DEF LoopCore

\* The structured answer records uses of loaded skills only.
LEMMA FinalAnswersStep ==
  ASSUME LoopInv, FinalAnswers
  PROVE  LoopCore'
  <1> DEFINE use(s) == Event(Invocation, "SKILL_USED", <<"method-use", s>>,
                             Use(s, "procedure"))
             final == Event(Invocation, "MODEL_CALL", <<"final", 0>>, None)
  <1>1. LoopTypeOK /\ CallsAreOpen /\ EventsTell
    BY DEF LoopInv
  <1>2. pc' = "done" /\ UNCHANGED <<budget, task, turn, retry, loop, raised, crashes, spent>>
    BY DEF FinalAnswers
  <1>3. PICK S \in SUBSET (loop.activated \cup loop.selected) :
          events' = AppendAll(Append1(events, final), {use(s) : s \in S})
    <2>1. PICK claimed \in SUBSET Skills :
            events' = AppendAll(Append1(events, final),
                        {use(s) : s \in (claimed \cap (loop.activated \cup loop.selected)) \ loop.used})
      BY DEF FinalAnswers
    <2> DEFINE S == (claimed \cap (loop.activated \cup loop.selected)) \ loop.used
    <2>2. S \in SUBSET (loop.activated \cup loop.selected)
      OBVIOUS
    <2> QED BY <2>1, <2>2
  <1> DEFINE uses == {use(s) : s \in S}
             new == {final} \cup uses
  <1>4. IsFiniteSet(uses)
    <2>1. IsFiniteSet(S)
      <3>1. S \subseteq Skills
        BY <1>1, LoopParts
      <3> QED BY <3>1, LoopAssumption, FS_Subset
    <2> DEFINE f == [s \in S |-> use(s)]
    <2>2. f \in Surjection(S, uses)
      BY DEF Surjection
    <2> HIDE DEF f, uses
    <2> QED BY <2>1, <2>2, FS_Surjection
  <1>5. events \subseteq events' /\ events' \subseteq events \cup new
    <2> DEFINE store == Append1(events, final)
    <2>1. events \subseteq store /\ store \subseteq events \cup {final}
      BY AppendOne
    <2>2. store \subseteq events' /\ events' \subseteq store \cup uses
      BY <1>3, AppendMany
    <2> QED BY <2>1, <2>2
  <1>6. \A e \in new : IsEvent(e, turn)
    BY <1>1, CurrentEvent
  <1>7. IsFiniteSet(new)
    <2>1. IsFiniteSet({final})
      BY FS_Singleton
    <2> QED BY <1>4, <2>1, FS_Union
  <1>8. \A s \in loop.activated \cup loop.selected : LoadedIn(events', Invocation, crashes, s)
    BY <1>1, <1>5 DEF EventsTell, Loaded, LoadedIn
  <1>9. \A e \in new : Tells(e, events')
    <2>1. Tells(final, events')
      BY EventFields DEF Tells
    <2>2. ASSUME NEW s \in S PROVE Tells(use(s), events')
      <3>1. /\ use(s).type = "SKILL_USED" /\ use(s).inv = Invocation
            /\ use(s).data.skill = s /\ use(s).data.process = crashes
        BY EventFields DEF Use
      <3> HIDE DEF use
      <3> QED BY <1>8, <2>2, <3>1 DEF Tells
    <2> QED BY <2>1, <2>2
  <1> HIDE DEF new
  <1>10. StoreOK'
    <2>1. turn' \in 1 .. MaxTurns /\ turn' >= turn
      BY <1>1, <1>2, LoopParts
    <2> QED BY <1>1, <1>5, <1>6, <1>7, <2>1, StoreKept
  <1>11. EventsTell'
    <2>1. Invocation' = Invocation
      BY <1>2 DEF Invocation
    <2>2. \A s \in loop'.activated \cup loop'.selected : LoadedIn(events', Invocation', crashes', s)
      BY <1>2, <1>8, <2>1
    <2> QED BY <1>1, <1>5, <1>9, <2>2, TellsKept
  <1>12. LoopTypeOK'
    BY <1>1, <1>2, <1>10 DEF LoopTypeOK, StoreOK, Pcs
  <1>13. TaskWithinRun' /\ TurnsFit' /\ CallsAreOpen'
    BY <1>1, <1>2 DEF TaskWithinRun, TurnsFit, CallsAreOpen, InLoop
  <1> QED BY <1>11, <1>12, <1>13 DEF LoopCore

(***************************************************************************)
(* The ids of the open calls stay new                                      *)
(***************************************************************************)
\* A record of a tool: its call or its result.
ToolRecord(e) == e.type \in {"TOOL_CALL", "TOOL_RESULT"}

\* The facts of OpenIdsAreNew about the calls that are open.
LEMMA OpenIds ==
  ASSUME LoopInv
  PROVE  /\ loop.open \in Seq(CallIds) /\ Len(loop.open) \in Nat
         /\ \A i \in 1 .. Len(loop.open) :
              loop.open[i] \in CallIds /\ loop.open[i][2] = crashes /\ loop.open[i][3] = spent.model
         /\ \A e \in events : ToolRecord(e) /\ pc # "invoking" =>
              \A i \in 1 .. Len(loop.open) : e.key # loop.open[i]
         /\ \A e \in events : ToolRecord(e) /\ e.key \in CallIds =>
              e.key[3] \in Nat /\ e.key[3] <= spent.model /\ (pc = "asking" => e.key[3] < spent.model)
  <1>1. loop.open \in Seq(CallIds)
    BY LoopParts DEF LoopInv
  <1>2. Len(loop.open) \in Nat /\ \A i \in 1 .. Len(loop.open) : loop.open[i] \in CallIds
    BY <1>1
  <1>3. \A k \in CallIds : k[3] \in Nat
    BY DEF CallIds
  <1> QED BY <1>1, <1>2, <1>3 DEF LoopInv, OpenIdsAreNew, ToolRecord

\* A step that invokes no tool and leaves the open calls, or closes them all, keeps
\* their ids new when the events it adds have none.
LEMMA IdsKept ==
  ASSUME LoopInv, events \subseteq events', pc' # "invoking", spent'.model \in Nat,
         \A e \in events' \ events : ToolRecord(e) => e.key \notin CallIds,
         \/ loop'.open = <<>> /\ spent'.model >= spent.model
         \/ /\ loop'.open = loop.open /\ pc # "invoking"
            /\ crashes' = crashes /\ spent'.model = spent.model,
         pc' = "asking" => spent'.model > spent.model
  PROVE  OpenIdsAreNew'
  <1>1. /\ loop.open \in Seq(CallIds) /\ Len(loop.open) \in Nat /\ spent.model \in Nat
        /\ \A i \in 1 .. Len(loop.open) :
             loop.open[i] \in CallIds /\ loop.open[i][2] = crashes /\ loop.open[i][3] = spent.model
        /\ \A e \in events : ToolRecord(e) /\ pc # "invoking" =>
             \A i \in 1 .. Len(loop.open) : e.key # loop.open[i]
        /\ \A e \in events : ToolRecord(e) /\ e.key \in CallIds =>
             e.key[3] \in Nat /\ e.key[3] <= spent.model
    BY OpenIds, LoopParts DEF LoopInv
  <1>2. \A i, j \in 1 .. Len(loop.open) : loop.open[i] = loop.open[j] => i = j
    BY DEF LoopInv, OpenIdsAreNew
  <1>3. ASSUME NEW e \in events', ToolRecord(e), e.key \in CallIds
        PROVE  e.key[3] <= spent'.model /\ (pc' = "asking" => e.key[3] < spent'.model)
    <2>1. e \in events
      BY <1>3
    <2>2. e.key[3] \in Nat /\ e.key[3] <= spent.model
      BY <1>1, <1>3, <2>1
    <2> QED BY <1>1, <2>2
  <1>4. CASE loop'.open = <<>>
    <2>1. Len(loop'.open) = 0
      BY <1>4
    <2> QED BY <1>3, <2>1 DEF OpenIdsAreNew, ToolRecord
  <1>5. CASE loop'.open = loop.open /\ pc # "invoking" /\ crashes' = crashes /\ spent'.model = spent.model
    <2>1. ASSUME NEW e \in events', ToolRecord(e), NEW i \in 1 .. Len(loop.open)
          PROVE  e.key # loop.open[i]
      BY <1>1, <1>5, <2>1
    <2> QED BY <1>1, <1>2, <1>3, <1>5, <2>1 DEF OpenIdsAreNew, ToolRecord
  <1> QED BY <1>4, <1>5

\* The ids of an answer are new.
LEMMA IdsAnswered ==
  ASSUME LoopInv, ModelAnswers
  PROVE  OpenIdsAreNew'
  <1>1. /\ pc = "asking" /\ crashes' = crashes /\ spent' = spent
        /\ Emit(Event(Invocation, "MODEL_CALL", <<"turn", loop.iteration>>, None))
    BY DEF ModelAnswers
  <1>2. PICK calls \in Responses :
          /\ loop' = [loop EXCEPT !.calls = calls, !.open = [k \in 1 .. Len(calls) |-> CallId(k)]]
          /\ pc' = IF calls = <<>> THEN "finalize" ELSE "tools"
    BY DEF ModelAnswers
  <1> DEFINE ids == [k \in 1 .. Len(calls) |-> CallId(k)]
  <1>3. Len(calls) \in Nat /\ loop \in Loops /\ crashes \in Nat /\ spent.model \in Nat
    <2>1. calls \in Seq(Calls)
      BY LoopAssumption DEF Calls
    <2> QED BY <2>1, LoopParts DEF LoopInv
  <1>4. /\ Len(ids) = Len(calls)
        /\ \A k \in 1 .. Len(calls) : ids[k] = <<"call", crashes, spent.model, k>>
    BY <1>3 DEF CallId
  <1>5. loop'.open = ids
    <2> HIDE DEF ids
    <2> QED BY <1>2, <1>3 DEF Loops, ids
  <1> HIDE DEF ids
  <1>6. \A e \in events' : ToolRecord(e) => e \in events
    <2>1. events' \subseteq events \cup {Event(Invocation, "MODEL_CALL", <<"turn", loop.iteration>>, None)}
      BY <1>1, AppendOne DEF Emit
    <2> QED BY <2>1, EventFields DEF ToolRecord
  <1>7. ASSUME NEW e \in events', ToolRecord(e)
        PROVE  /\ e.key \in CallIds => e.key[3] <= spent.model
               /\ \A k \in 1 .. Len(calls) : e.key # ids[k]
    <2>1. e.key \in CallIds => e.key[3] \in Nat /\ e.key[3] < spent.model
      BY <1>1, <1>6, <1>7, OpenIds
    <2>2. ASSUME NEW k \in 1 .. Len(calls)
          PROVE  ids[k] \in CallIds /\ ids[k][3] = spent.model
      <3>1. k \in Nat /\ ids[k] = <<"call", crashes, spent.model, k>>
        BY <1>3, <1>4
      <3>2. <<"call", crashes, spent.model, k>> \in CallIds
        BY <1>3, <3>1 DEF CallIds
      <3>3. <<"call", crashes, spent.model, k>>[3] = spent.model
        OBVIOUS
      <3> QED BY <3>1, <3>2, <3>3
    <2>3. \A k \in 1 .. Len(calls) : e.key # ids[k]
      <3>1. SUFFICES ASSUME NEW k \in 1 .. Len(calls), e.key = ids[k] PROVE FALSE
        OBVIOUS
      <3>2. e.key \in CallIds /\ e.key[3] = spent.model
        BY <2>2, <3>1
      <3> QED BY <1>3, <2>1, <3>2
    <2> QED BY <1>3, <2>1, <2>3
  <1>8. pc' # "asking" /\ pc' # "invoking"
    BY <1>2
  <1>9. \A i, j \in 1 .. Len(calls) : ids[i] = ids[j] => i = j
    BY <1>4
  <1> QED BY <1>1, <1>4, <1>5, <1>7, <1>8, <1>9 DEF OpenIdsAreNew, ToolRecord

\* The call at the head gets its record.
LEMMA IdsInvoked ==
  ASSUME LoopInv, ToolBegins, pc' = "invoking"
  PROVE  OpenIdsAreNew'
  <1> DEFINE call == Event(Invocation, "TOOL_CALL", Head(loop.open), Head(loop.calls))
  <1>1. /\ pc = "tools" /\ loop.calls # <<>> /\ loop' = [loop EXCEPT !.toolCount = @ + 1]
        /\ Emit(call) /\ spent' = [spent EXCEPT !.tool = @ + 1] /\ UNCHANGED <<turn, retry, crashes>>
    BY DEF ToolBegins, Raise
  <1>2. /\ loop \in Loops /\ spent \in Budgets /\ spent.tool \in Nat /\ loop.toolCount \in Nat
        /\ Len(loop.open) = Len(loop.calls) /\ loop.calls \in Seq(Calls) /\ loop.open \in Seq(CallIds)
    BY LoopParts DEF LoopInv, CallsAreOpen
  <1>3. loop'.open = loop.open /\ loop'.calls = loop.calls /\ spent'.model = spent.model
    BY <1>1, <1>2 DEF Loops, Budgets
  <1>4. 1 \in 1 .. Len(loop.open) /\ Head(loop.open) = loop.open[1] /\ Invocation' = Invocation
    BY <1>1, <1>2 DEF Invocation
  <1>5. /\ call.type = "TOOL_CALL" /\ call.key = loop.open[1]
        /\ call = Event(Invocation', "TOOL_CALL", Head(loop'.open), Head(loop'.calls))
    BY <1>3, <1>4, EventFields
  <1> HIDE DEF call
  <1>6. events' = Append1(events, call)
    BY <1>1 DEF Emit
  <1>7. \A f \in events : ~SameId(call, f)
    BY <1>1, <1>4, <1>5, OpenIds DEF SameId, ToolRecord
  <1>8. events' = events \cup {call}
    BY <1>6, <1>7 DEF Append1, SameId
  <1>9. ASSUME NEW e \in events', ToolRecord(e)
        PROVE  /\ e.key \in CallIds => e.key[3] <= spent.model
               /\ \A i \in 1 .. Len(loop.open) : e.key = loop.open[i] => e.type = "TOOL_CALL" /\ i = 1
    <2>1. CASE e \in events
      BY <1>1, <1>9, <2>1, OpenIds
    <2>2. CASE e = call
      <3>1. loop.open[1][3] = spent.model /\ spent.model \in Nat
        BY <1>4, OpenIds, LoopParts DEF LoopInv
      <3>2. \A i \in 1 .. Len(loop.open) : loop.open[1] = loop.open[i] => i = 1
        BY <1>4 DEF LoopInv, OpenIdsAreNew
      <3> QED BY <1>5, <2>2, <3>1, <3>2
    <2> QED BY <1>8, <2>1, <2>2
  <1>10. call \in events'
    BY <1>8
  <1>11. /\ \A i \in 1 .. Len(loop.open) : loop.open[i][2] = crashes /\ loop.open[i][3] = spent.model
         /\ \A i, j \in 1 .. Len(loop.open) : loop.open[i] = loop.open[j] => i = j
    BY DEF LoopInv, OpenIdsAreNew
  <1> QED BY <1>1, <1>3, <1>5, <1>9, <1>10, <1>11 DEF OpenIdsAreNew, ToolRecord

\* The call that got its result is closed.
LEMMA IdsReturned ==
  ASSUME LoopInv, ToolReturns
  PROVE  OpenIdsAreNew'
  <1> DEFINE id == Head(loop.open)
  <1>1. /\ pc = "invoking" /\ crashes' = crashes /\ spent' = spent /\ pc' \in {"act", "tools"}
        /\ loop'.open = Tail(loop.open)
    <2>1. loop \in Loops
      BY LoopParts DEF LoopInv
    <2> QED BY <2>1 DEF ToolReturns, Loops
  <1>2. /\ loop.open \in Seq(CallIds) /\ loop.open # <<>> /\ Len(loop.open) \in Nat
        /\ 1 \in 1 .. Len(loop.open) /\ id = loop.open[1]
    <2>1. /\ Len(loop.open) = Len(loop.calls) /\ loop.calls \in Seq(Calls) /\ loop.calls # <<>>
          /\ loop.open \in Seq(CallIds)
      BY <1>1, LoopParts DEF LoopInv, CallsAreOpen
    <2> QED BY <2>1
  <1>3. /\ Len(Tail(loop.open)) = Len(loop.open) - 1
        /\ \A i \in 1 .. Len(Tail(loop.open)) :
             i + 1 \in 1 .. Len(loop.open) /\ i + 1 # 1 /\ Tail(loop.open)[i] = loop.open[i + 1]
    BY <1>2, HeadTailProperties
  <1>4. PICK out \in ToolOutcomes :
          events' = AppendAll(Append1(events, Event(Invocation, "TOOL_RESULT", id, out)), SkillEvents(out))
    BY DEF ToolReturns
  <1>5. \A e \in SkillEvents(out) : ~ToolRecord(e)
    BY EventFields DEF SkillEvents, ToolRecord
  <1>6. \A e \in events' : ToolRecord(e) => e \in events \/ e.key = id
    <2>1. /\ events' \subseteq Append1(events, Event(Invocation, "TOOL_RESULT", id, out)) \cup SkillEvents(out)
          /\ Append1(events, Event(Invocation, "TOOL_RESULT", id, out))
               \subseteq events \cup {Event(Invocation, "TOOL_RESULT", id, out)}
      BY <1>4, AppendMany, AppendOne
    <2> QED BY <1>5, <2>1, EventFields
  <1> HIDE DEF id
  <1>7. /\ \A i \in 1 .. Len(loop.open) : loop.open[i][2] = crashes /\ loop.open[i][3] = spent.model
        /\ \A i, j \in 1 .. Len(loop.open) : loop.open[i] = loop.open[j] => i = j
        /\ \A e \in events : ToolRecord(e) =>
             /\ e.key \in CallIds => e.key[3] <= spent.model
             /\ \A i \in 1 .. Len(loop.open) : e.key = loop.open[i] => i = 1
    BY DEF LoopInv, OpenIdsAreNew, ToolRecord
  <1>8. ASSUME NEW e \in events', ToolRecord(e)
        PROVE  /\ e.key \in CallIds => e.key[3] <= spent.model
               /\ \A i \in 1 .. Len(loop.open) : e.key = loop.open[i] => i = 1
    <2>1. CASE e \in events
      BY <1>7, <1>8, <2>1
    <2>2. CASE e.key = id
      <3>1. spent.model \in Nat
        BY LoopParts DEF LoopInv
      <3> QED BY <1>2, <1>7, <2>2, <3>1
    <2> QED BY <1>6, <1>8, <2>1, <2>2
  <1>9. \A i \in 1 .. Len(loop'.open) : loop'.open[i][2] = crashes /\ loop'.open[i][3] = spent.model
    BY <1>1, <1>3, <1>7
  <1>10. \A i, j \in 1 .. Len(loop'.open) : loop'.open[i] = loop'.open[j] => i = j
    <2> SUFFICES ASSUME NEW i \in 1 .. Len(loop'.open), NEW j \in 1 .. Len(loop'.open),
                        loop'.open[i] = loop'.open[j]
                 PROVE  i = j
      OBVIOUS
    <2>1. i + 1 = j + 1
      BY <1>1, <1>3, <1>7
    <2>2. i \in Int /\ j \in Int
      BY <1>1, <1>2, <1>3
    <2> QED BY <2>1, <2>2
  <1>11. \A e \in events' : ToolRecord(e) => \A i \in 1 .. Len(loop'.open) : e.key # loop'.open[i]
    BY <1>1, <1>3, <1>8
  <1> QED BY <1>1, <1>8, <1>9, <1>10, <1>11 DEF OpenIdsAreNew, ToolRecord

\* Every step keeps the ids of the open calls new.
LEMMA IdsStep ==
  ASSUME LoopInv, [Next]_vars
  PROVE  OpenIdsAreNew'
  <1>1. /\ spent \in Budgets /\ spent.model \in Nat /\ loop \in Loops /\ LoopTypeOK /\ CallsAreOpen
        /\ loop.toolCount \in Nat /\ loop.iteration \in Nat
    BY LoopParts DEF LoopInv
  <1>2. NoLoop.open = <<>>
    BY FreshLoop
  <1>3. pc \in {"act", "finalize"} => loop.open = <<>>
    <2>1. Len(loop.open) = Len(loop.calls) /\ (pc \in {"act", "finalize"} => loop.calls = <<>>)
      BY <1>1 DEF CallsAreOpen
    <2>2. loop.open \in Seq(CallIds)
      BY LoopParts DEF LoopInv
    <2> QED BY <2>1, <2>2, EmptySeq
  <1>4. ASSUME NEW key, NEW data, NEW type \in {"MODEL_CALL", "ATTEMPT_FAILED"},
               Emit(Event(Invocation, type, key, data))
        PROVE  events \subseteq events' /\ \A e \in events' \ events : ~ToolRecord(e)
    BY <1>4, AppendOne, EventFields DEF Emit, ToolRecord
  <1>5. CASE SupervisorBegins \/ WorkerBegins
    <2>1. events' = events /\ spent' = spent /\ crashes' = crashes /\ pc = "idle"
      BY <1>5 DEF SupervisorBegins, WorkerBegins
    <2>2. pc' \in {"act", "raised", "exhausted"} /\ (loop'.open = <<>> \/ loop' = loop)
      <3>1. ASSUME NEW t, LoopBegins(t)
            PROVE  pc' \in {"act", "raised"} /\ loop'.open = <<>>
        BY <3>1 DEF LoopBegins, Raise, NoLoop
      <3>2. CASE SupervisorBegins
        BY <3>1, <3>2 DEF SupervisorBegins
      <3>3. CASE WorkerBegins
        BY <3>1, <3>3 DEF WorkerBegins
      <3> QED BY <1>5, <3>2, <3>3
    <2> QED BY <1>1, <2>1, <2>2, IdsKept
  <1>6. CASE \/ WorkerBlocked \/ PrepareRefuses \/ SupervisorRaised \/ WorkerRaised
             \/ SupervisorReturns \/ WorkerReturns \/ WorkerExhausted \/ VerifyDone \/ Crash
    <2>1. /\ events' = events /\ spent' = spent
          /\ loop' = NoLoop \/ (loop' = loop /\ crashes' = crashes)
          /\ pc' \notin {"invoking", "asking"} /\ (pc # "invoking" \/ loop' = NoLoop)
      <3>1. CASE WorkerRaised
        <4>1. pc = "raised" => raised \in {"exhausted", "timeout", "gateway", "other"}
          BY <1>1 DEF LoopTypeOK
        <4>2. pc' \in {"done", "exhausted", "stopped"}
          BY <3>1, <4>1 DEF WorkerRaised
        <4> QED BY <3>1, <4>2 DEF WorkerRaised
      <3>2. CASE ~WorkerRaised
        BY <1>6, <3>2 DEF WorkerBlocked, PrepareRefuses, SupervisorRaised, SupervisorReturns,
                          WorkerReturns, WorkerExhausted, VerifyDone, Crash
      <3> QED BY <3>1, <3>2
    <2> QED BY <1>1, <1>2, <2>1, IdsKept
  <1>7. CASE CallsModel \/ CallsFinalize
    <2>1. spent' = spent \/ spent' = [spent EXCEPT !.model = @ + 1]
      BY <1>7 DEF CallsModel, CallsFinalize
    <2>2. spent'.model \in Nat /\ spent'.model >= spent.model
          /\ (spent' # spent => spent'.model > spent.model)
      BY <1>1, <2>1 DEF Budgets
    <2>3. loop'.open = <<>>
      <3>1. CASE CallsFinalize
        BY <1>3, <3>1 DEF CallsFinalize
      <3>2. CASE CallsModel
        <4>1. loop' = loop \/ loop' = [loop EXCEPT !.iteration = @ + 1]
          BY <3>2 DEF CallsModel
        <4> QED BY <1>1, <1>3, <3>2, <4>1 DEF CallsModel, Loops
      <3> QED BY <1>7, <3>1, <3>2
    <2>4. events \subseteq events' /\ \A e \in events' \ events : ~ToolRecord(e)
      BY <1>4, <1>7 DEF CallsModel, CallsFinalize
    <2>5. /\ pc' \in {"asking", "finalizing", "raised"}
          /\ pc' = "asking" => spent' = [spent EXCEPT !.model = @ + 1]
      BY <1>7 DEF CallsModel, CallsFinalize, Raise
    <2>6. pc' = "asking" => spent'.model > spent.model
      BY <1>1, <2>5 DEF Budgets
    <2> QED BY <2>2, <2>3, <2>4, <2>5, <2>6, IdsKept
  <1>8. CASE ModelFails \/ FinalFails \/ OutOfTurns \/ ToolOverLimit
    <2>1. /\ spent' = spent /\ crashes' = crashes /\ pc' \notin {"invoking", "asking"}
          /\ pc # "invoking"
      BY <1>8 DEF ModelFails, FinalFails, OutOfTurns, ToolOverLimit, Raise
    <2>2. events \subseteq events' /\ \A e \in events' \ events : ~ToolRecord(e)
      BY <1>4, <1>8 DEF ModelFails, FinalFails, OutOfTurns, ToolOverLimit
    <2>3. loop' = loop \/ loop'.open = <<>>
      BY <1>1, <1>8 DEF ModelFails, FinalFails, OutOfTurns, ToolOverLimit, Loops
    <2> QED BY <1>1, <2>1, <2>2, <2>3, IdsKept
  <1>9. CASE FinalAnswers
    <2>1. spent' = spent /\ crashes' = crashes /\ pc' = "done" /\ pc = "finalizing" /\ loop' = loop
      BY <1>9 DEF FinalAnswers
    <2>2. events \subseteq events' /\ \A e \in events' \ events : ~ToolRecord(e)
      <3> DEFINE use(s) == Event(Invocation, "SKILL_USED", <<"method-use", s>>, Use(s, "procedure"))
                 final == Event(Invocation, "MODEL_CALL", <<"final", 0>>, None)
      <3>1. PICK S \in SUBSET Skills :
              events' = AppendAll(Append1(events, final), {use(s) : s \in S})
        <4>1. PICK claimed \in SUBSET Skills :
                events' = AppendAll(Append1(events, final),
                            {use(s) : s \in (claimed \cap (loop.activated \cup loop.selected)) \ loop.used})
          BY <1>9 DEF FinalAnswers
        <4> DEFINE S == (claimed \cap (loop.activated \cup loop.selected)) \ loop.used
        <4>2. S \in SUBSET Skills
          OBVIOUS
        <4> QED BY <4>1, <4>2
      <3>2. /\ events \subseteq Append1(events, final) /\ Append1(events, final) \subseteq events \cup {final}
            /\ Append1(events, final) \subseteq events'
            /\ events' \subseteq Append1(events, final) \cup {use(s) : s \in S}
        BY <3>1, AppendOne, AppendMany
      <3>3. ~ToolRecord(final) /\ \A s \in S : ~ToolRecord(use(s))
        BY EventFields DEF ToolRecord
      <3> HIDE DEF final, use
      <3> QED BY <3>2, <3>3
    <2> QED BY <1>1, <2>1, <2>2, IdsKept
  <1>10. CASE VerifyCommand
    <2>1. /\ crashes' = crashes /\ pc = "verify" /\ pc' \in {"verify", "stopped"}
          /\ loop' = loop \/ loop' = [loop EXCEPT !.iteration = @ + 1]
          /\ spent' = spent \/ spent' = [spent EXCEPT !.tool = @ + 1]
          /\ \/ events' = events
             \/ Emit(Event(Invocation, "TOOL_CALL", <<"verify", loop.iteration>>, None))
      BY <1>10 DEF VerifyCommand
    <2>2. spent'.model = spent.model /\ loop'.open = loop.open
      BY <1>1, <2>1 DEF Budgets, Loops
    <2>3. <<"verify", loop.iteration>> \notin CallIds
      <3>1. \A k \in CallIds : k[1] = "call"
        BY DEF CallIds
      <3>2. <<"verify", loop.iteration>>[1] = "verify"
        OBVIOUS
      <3> QED BY <3>1, <3>2
    <2>4. /\ events \subseteq events'
          /\ \A e \in events' \ events : e.key \notin CallIds
      <3>1. CASE events' = events
        BY <3>1
      <3>2. CASE Emit(Event(Invocation, "TOOL_CALL", <<"verify", loop.iteration>>, None))
        BY <2>3, <3>2, AppendOne, EventFields DEF Emit
      <3> QED BY <2>1, <3>1, <3>2
    <2> QED BY <1>1, <2>1, <2>2, <2>4, IdsKept
  <1>11. CASE ToolBegins
    <2>1. CASE pc' = "invoking"
      BY <1>11, <2>1, IdsInvoked
    <2>2. CASE pc' # "invoking"
      <3>1. /\ pc' = "raised" /\ pc = "tools" /\ loop' = [loop EXCEPT !.toolCount = @ + 1]
            /\ UNCHANGED <<events, spent, crashes>>
        BY <1>11, <2>2 DEF ToolBegins, Raise
      <3>2. loop'.open = loop.open
        BY <1>1, <3>1 DEF Loops
      <3> QED BY <1>1, <3>1, <3>2, IdsKept
    <2> QED BY <2>1, <2>2
  <1>12. CASE ModelAnswers
    BY <1>12, IdsAnswered
  <1>13. CASE ToolReturns
    BY <1>13, IdsReturned
  <1>14. CASE UNCHANGED vars
    BY <1>14 DEF vars, LoopInv, OpenIdsAreNew, Invocation
  <1> QED BY <1>5, <1>6, <1>7, <1>8, <1>9, <1>10, <1>11, <1>12, <1>13, <1>14 DEF Next, Step, Stopped

\* Every step keeps the invariant.
LEMMA LoopStep == LoopInv /\ [Next]_vars => LoopInv'
  <1> SUFFICES ASSUME LoopInv, [Next]_vars
               PROVE  LoopCore'
    BY IdsStep DEF LoopInv, LoopCore
  <1>1. CASE SupervisorBegins \/ WorkerBegins
    BY <1>1, BeginsStep
  <1>2. CASE \/ WorkerBlocked \/ PrepareRefuses \/ SupervisorRaised \/ WorkerRaised
             \/ SupervisorReturns \/ WorkerReturns \/ WorkerExhausted \/ VerifyDone \/ Crash
    BY <1>2, OutsideStep
  <1>3. CASE CallsModel
    BY <1>3, CallsModelStep
  <1>4. CASE ModelAnswers
    BY <1>4, ModelAnswersStep
  <1>5. CASE ModelFails \/ FinalFails
    BY <1>5, FailsStep
  <1>6. CASE ToolOverLimit
    BY <1>6, ToolOverLimitStep
  <1>7. CASE ToolBegins
    BY <1>7, ToolBeginsStep
  <1>8. CASE ToolReturns
    BY <1>8, ToolReturnsStep
  <1>9. CASE OutOfTurns
    BY <1>9, OutOfTurnsStep
  <1>10. CASE CallsFinalize
    BY <1>10, CallsFinalizeStep
  <1>11. CASE FinalAnswers
    BY <1>11, FinalAnswersStep
  <1>12. CASE VerifyCommand
    BY <1>12, VerifyCommandStep
  <1>13. CASE UNCHANGED vars
    BY <1>13 DEF vars, LoopInv, LoopCore, LoopTypeOK, TaskWithinRun, TurnsFit, CallsAreOpen, EventsTell,
                 InLoop, Loaded, Invocation
  <1> QED BY <1>1, <1>2, <1>3, <1>4, <1>5, <1>6, <1>7, <1>8, <1>9, <1>10, <1>11, <1>12, <1>13
          DEF Next, Step, Stopped

\* A run starts in the invariant.
LEMMA LoopInit == Init => LoopInv
  <1> SUFFICES ASSUME Init
               PROVE  LoopInv
    OBVIOUS
  <1>1. LoopTypeOK
    <2>1. IsFiniteSet(events) /\ events = {}
      BY FS_EmptySet DEF Init
    <2>2. loop \in Loops /\ pc \in Pcs /\ pc # "raised"
      BY FreshLoop DEF Init, Pcs
    <2> QED BY <2>1, <2>2, LoopAssumption DEF Init, LoopTypeOK
  <1>2. TaskWithinRun /\ TurnsFit
    BY DEF Init, TaskWithinRun, TurnsFit, InLoop
  <1>3. CallsAreOpen
    BY FreshLoop DEF Init, CallsAreOpen
  <1>4. EventsTell
    BY FreshLoop DEF Init, EventsTell
  <1>5. OpenIdsAreNew
    <2>1. Len(loop.open) = 0 /\ events = {} /\ pc = "idle"
      BY FreshLoop DEF Init
    <2> QED BY <2>1 DEF OpenIdsAreNew
  <1> QED BY <1>1, <1>2, <1>3, <1>4, <1>5 DEF LoopInv

\* In every run of the tool loop the state is well formed, the task budget lies within
\* the run's, the turns that are left fit, events and open calls agree with the loop, and no record of
\* a call is lost to an earlier one
\* (BoundedToolAgent.run, CombinedBudget, EventStore.append).
THEOREM LoopCorrect == Spec => []LoopInv
  <1> QED BY LoopInit, LoopStep, PTL DEF Spec

\* The call kept back for the structured answer can always be made
\* (BoundedToolAgent.run reserves FINALIZATION_MODEL_CALLS).
THEOREM FinalizeIsReserved == Spec => []FinalizeReserved
  <1>1. LoopInv => FinalizeReserved
    BY MayAsk DEF FinalizeReserved, InLoop
  <1> QED BY <1>1, LoopCorrect, PTL

\* The model is never called while a tool call is unanswered (the tool messages that
\* BoundedToolAgent.run appends).
THEOREM CallsAreAnswered == Spec => []AnsweredBeforeAsking
  <1>1. LoopInv => AnsweredBeforeAsking
    <2> SUFFICES ASSUME LoopInv, pc \in {"act", "finalize"}
                 PROVE  loop.open = <<>>
      BY DEF AnsweredBeforeAsking
    <2>1. Len(loop.open) = Len(loop.calls) /\ loop.calls = <<>>
      BY DEF LoopInv, CallsAreOpen
    <2>2. loop.open \in Seq(CallIds)
      BY LoopParts DEF LoopInv
    <2> QED BY <2>1, <2>2, EmptySeq
  <1> QED BY <1>1, LoopCorrect, PTL

\* A process reports a skill as used only in an invocation in which it loaded the skill
\* itself (BoundedToolAgent.run's activated skills, _harness_facts).
THEOREM UsedSkillsWereLoaded == Spec => []UsedWasLoaded
  <1>1. LoopInv => UsedWasLoaded
    <2> SUFFICES ASSUME LoopInv, NEW inv, NEW s, NEW process \in Users(inv, s)
                 PROVE  Loaded(inv, process, s)
      BY DEF UsedWasLoaded
    <2>1. PICK e \in events :
            e.type = "SKILL_USED" /\ e.inv = inv /\ e.data.skill = s /\ e.data.process = process
      BY DEF Users
    <2> QED BY <2>1 DEF LoopInv, EventsTell
  <1> QED BY <1>1, LoopCorrect, PTL

(***************************************************************************)
(* What is spent                                                           *)
(***************************************************************************)
\* The calls of one node, its retry included.
NodeCalls == 2 * (MaxIterations + 1)

\* What restarts may hide of the model calls made.
Hidden(k) == IF k = 0 THEN 0 ELSE 1 + (k - 1) * NodeCalls

\* One more restart hides the calls of one more node.
LEMMA HiddenGrows ==
  ASSUME NEW k \in Nat
  PROVE  /\ NodeCalls \in Nat /\ Hidden(k) \in Nat /\ k * NodeCalls \in Nat
         /\ (k + 1) * NodeCalls = k * NodeCalls + NodeCalls
         /\ Hidden(k + 1) = 1 + k * NodeCalls /\ Hidden(k) <= Hidden(k + 1)
  <1>1. NodeCalls \in Nat
    BY LoopAssumption DEF NodeCalls
  <1>2. ASSUME NEW n \in Nat, NEW j \in Nat
        PROVE  /\ j * n \in Nat /\ (j + 1) * n = j * n + n
               /\ j # 0 => (j - 1) * n \in Nat /\ (j - 1) * n + n = j * n
    OBVIOUS
  <1>3. Hidden(k + 1) = 1 + k * NodeCalls
    <2>1. k + 1 # 0 /\ (k + 1) - 1 = k
      OBVIOUS
    <2> QED BY <2>1 DEF Hidden
  <1>4. k * NodeCalls \in Nat /\ (k + 1) * NodeCalls = k * NodeCalls + NodeCalls
        /\ (k # 0 => (k - 1) * NodeCalls \in Nat /\ (k - 1) * NodeCalls + NodeCalls = k * NodeCalls)
    BY <1>1, <1>2
  <1>5. Hidden(k) \in Nat /\ Hidden(k) <= Hidden(k + 1)
    <2>1. CASE k = 0
      BY <1>3, <1>4, <2>1 DEF Hidden
    <2>2. CASE k # 0
      <3>1. Hidden(k) = 1 + (k - 1) * NodeCalls
        BY <2>2 DEF Hidden
      <3> QED BY <1>1, <1>3, <1>4, <2>2, <3>1
    <2> QED BY <2>1, <2>2
  <1> QED BY <1>1, <1>3, <1>4, <1>5

\* The sets of events the accounts compare are finite.
LEMMA AccountTypes ==
  ASSUME LoopTypeOK
  PROVE  /\ IsFiniteSet(ModelCalls) /\ IsFiniteSet(InFlight) /\ IsFiniteSet(Ahead)
         /\ IsFiniteSet(ModelCalls \cup InFlight)
         /\ Cardinality(ModelCalls) \in Nat /\ Cardinality(InFlight) \in Nat /\ Cardinality(Ahead) \in Nat
         /\ Cardinality(ModelCalls \cup InFlight) \in Nat
         /\ Counted("MODEL_CALL") = Cardinality(ModelCalls) /\ Counted("TOOL_CALL") \in Nat
         /\ Cardinality(ModelCalls) <= Cardinality(ModelCalls \cup InFlight)
         /\ Cardinality(ModelCalls \cup InFlight) <= Cardinality(ModelCalls) + Cardinality(InFlight)
         /\ Cardinality(ModelCalls \cup InFlight) <= Cardinality(ModelCalls) + 1
  <1>1. IsFiniteSet(ModelCalls) /\ Counted("MODEL_CALL") = Cardinality(ModelCalls)
    BY CountType DEF ModelCalls, Counted
  <1>2. InFlight = {} \/ \E e : InFlight = {e}
    BY DEF InFlight
  <1>3. IsFiniteSet(InFlight) /\ Cardinality(InFlight) \in {0, 1}
    <2>1. IsFiniteSet({}) /\ Cardinality({}) = 0 /\ \A e : IsFiniteSet({e}) /\ Cardinality({e}) = 1
      BY FS_EmptySet, FS_Singleton
    <2> QED BY <1>2, <2>1
  <1>4. IsFiniteSet(Ahead)
    BY <1>1, FS_Subset DEF Ahead
  <1>5. /\ IsFiniteSet(ModelCalls \cup InFlight) /\ IsFiniteSet(ModelCalls \cap InFlight)
        /\ Cardinality(ModelCalls \cup InFlight)
             = Cardinality(ModelCalls) + Cardinality(InFlight) - Cardinality(ModelCalls \cap InFlight)
    BY <1>1, <1>3, FS_Union, FS_Subset
  <1>6. /\ Cardinality(ModelCalls) \in Nat /\ Cardinality(Ahead) \in Nat
        /\ Cardinality(ModelCalls \cup InFlight) \in Nat /\ Cardinality(ModelCalls \cap InFlight) \in Nat
    BY <1>1, <1>4, <1>5, FS_CardinalityType
  <1>7. Cardinality(ModelCalls) <= Cardinality(ModelCalls \cup InFlight)
    BY <1>5, FS_Subset
  <1>8. Counted("TOOL_CALL") \in Nat
    BY CountType
  <1> QED BY <1>1, <1>3, <1>4, <1>5, <1>6, <1>7, <1>8

\* The view of a run has at most one tool call for each event.
LEMMA ViewCounts ==
  ASSUME LoopTypeOK
  PROVE  build_view.model_calls = Counted("MODEL_CALL")
         /\ Cardinality(build_view.tool_calls) \in Nat
         /\ Cardinality(build_view.tool_calls) <= Counted("TOOL_CALL")
  <1> DEFINE T == {e \in events : e.type = "TOOL_CALL"}
             R == {e \in events : e.type = "TOOL_RESULT"}
             Answer(e) == {f \in R : f.inv = e.inv /\ f.key = e.key}
             V == {<<e, Answer(e)>> : e \in T}
  <1>1. build_view.tool_calls = V /\ build_view.model_calls = Counted("MODEL_CALL")
    BY DEF build_view, Counted
  <1>2. IsFiniteSet(T) /\ Counted("TOOL_CALL") = Cardinality(T)
    BY CountType DEF Counted
  <1> DEFINE view == [e \in T |-> <<e, Answer(e)>>]
  <1>3. view \in Surjection(T, V)
    BY DEF Surjection
  <1> HIDE DEF view, T, V
  <1>4. IsFiniteSet(V) /\ Cardinality(V) <= Cardinality(T)
    BY <1>2, <1>3, FS_Surjection
  <1> QED BY <1>1, <1>2, <1>4, FS_CardinalityType

\* The accounts follow from what explains them.
LEMMA SpendingFollows ==
  ASSUME LoopTypeOK, SpendingExplained
  PROVE  CountedWereMade /\ (budget # None => OverspendBounded)
  <1>1. CountedWereMade
    <2>1. /\ spent.model \in Nat /\ spent.tool \in Nat /\ Counted("MODEL_CALL") \in Nat
          /\ Cardinality(InFlight) \in Nat /\ Counted("TOOL_CALL") \in Nat
      BY LoopParts, AccountTypes
    <2>2. Counted("MODEL_CALL") + Cardinality(InFlight) <= spent.model /\ Counted("TOOL_CALL") <= spent.tool
      BY DEF SpendingExplained
    <2> QED BY <2>1, <2>2, ViewCounts DEF CountedWereMade
  <1>2. ASSUME budget # None PROVE OverspendBounded
    <2>1. budget.model <= MaxModel /\ spent.model <= budget.model + Hidden(crashes)
      BY <1>2 DEF SpendingExplained, Hidden, NodeCalls
    <2>2. budget.model \in Nat /\ spent.model \in Nat /\ crashes \in Nat /\ MaxModel \in Nat
      BY <1>2, LoopParts, LoopAssumption
    <2>3. Hidden(crashes) \in Nat
      BY <2>2, HiddenGrows
    <2>4. spent.model <= MaxModel + Hidden(crashes)
      BY <2>1, <2>2, <2>3
    <2> QED BY <2>4 DEF OverspendBounded, Hidden, NodeCalls
  <1> QED BY <1>1, <1>2

\* An awaited call means a budget is there.
LEMMA FlightNeedsBudget ==
  ASSUME LoopInv
  PROVE  budget = None => InFlight = {}
  BY DEF LoopInv, TurnsFit, InLoop, InFlight

\* The numbers behind SpendingExplained, by name.
Books ==
    /\ spent.model + Cardinality(Ahead) <= Cardinality(ModelCalls \cup InFlight) + crashes * NodeCalls
    /\ budget # None => budget.model <= MaxModel
    /\ Cardinality(ModelCalls \cup InFlight) <= IF budget = None THEN MaxModel ELSE budget.model
    /\ spent.model <= for_run.model + Hidden(crashes)
    /\ Cardinality(ModelCalls) + Cardinality(InFlight) <= spent.model
    /\ Counted("TOOL_CALL") <= spent.tool

\* They say the same as the property.
LEMMA Accounts ==
  ASSUME LoopTypeOK
  PROVE  SpendingExplained <=> Books
  <1>1. for_run.model = IF budget = None THEN Counted("MODEL_CALL") ELSE budget.model
    BY ForRun
  <1>2. Counted("MODEL_CALL") = Cardinality(ModelCalls)
    BY AccountTypes
  <1> QED BY <1>1, <1>2 DEF SpendingExplained, Books, NodeCalls, Hidden

\* The types of these numbers.
BookTypes ==
    /\ spent.model \in Nat /\ spent.tool \in Nat /\ for_run.model \in Nat /\ crashes \in Nat
    /\ budget # None => for_run.model = budget.model /\ budget.model \in Nat
    /\ budget = None => for_run.model = Cardinality(ModelCalls)
    /\ Cardinality(ModelCalls) \in Nat /\ Cardinality(InFlight) \in Nat /\ Cardinality(Ahead) \in Nat
    /\ Cardinality(ModelCalls \cup InFlight) \in Nat /\ Counted("TOOL_CALL") \in Nat
    /\ Cardinality(ModelCalls \cup InFlight) <= Cardinality(ModelCalls) + Cardinality(InFlight)
    /\ Cardinality(ModelCalls \cup InFlight) <= Cardinality(ModelCalls) + 1
    /\ IsFiniteSet(Ahead) /\ IsFiniteSet(ModelCalls)
    /\ crashes * NodeCalls \in Nat /\ Hidden(crashes) \in Nat

\* They have these types in every well-formed state.
LEMMA BookTypesOK == LoopTypeOK => BookTypes
  <1> SUFFICES ASSUME LoopTypeOK
               PROVE  BookTypes
    OBVIOUS
  <1>1. /\ spent.model \in Nat /\ spent.tool \in Nat /\ for_run.model \in Nat /\ crashes \in Nat
        /\ budget # None => for_run.model = budget.model /\ budget.model \in Nat
        /\ budget = None => for_run.model = Cardinality(ModelCalls)
    BY LoopParts, ForRun, AccountTypes
  <1>2. crashes * NodeCalls \in Nat /\ Hidden(crashes) \in Nat
    BY <1>1, HiddenGrows
  <1> QED BY <1>1, <1>2, AccountTypes DEF BookTypes

\* The accounts give the property's last part.
LEMMA BooksExplain == LoopTypeOK /\ Books => SpendingExplained
  BY Accounts

\* The last part of the property gives the others while there is a budget.
LEMMA ExplainedFollows == LoopTypeOK /\ SpendingExplained => CountedWereMade /\ (budget # None => OverspendBounded)
  BY SpendingFollows

\* A step that makes no model call, and at most records the awaited one, keeps the accounts.
LEMMA NothingSpent ==
  ASSUME LoopInv, LoopInv', SpendingTracked,
         ModelCalls' = ModelCalls \cup InFlight, InFlight' = {}, Ahead' \subseteq Ahead,
         spent'.model = spent.model, crashes' = crashes,
         Counted("TOOL_CALL")' - spent'.tool <= Counted("TOOL_CALL") - spent.tool,
         budget' = None => budget = None, budget' # None => budget'.model = for_run.model
  PROVE  SpendingTracked'
  <1>1. LoopTypeOK /\ LoopTypeOK' /\ SpendingExplained /\ OverspendBounded /\ crashes \in Nat
        /\ MaxModel \in Nat
    BY LoopParts, LoopAssumption DEF LoopInv, SpendingTracked
  <1>2. BookTypes /\ Books /\ (budget = None => InFlight = {})
    BY <1>1, BookTypesOK, Accounts, FlightNeedsBudget
  <1>3. BookTypes'
    BY <1>1, BookTypesOK, PTL
  <1>4. /\ Cardinality(ModelCalls)' = Cardinality(ModelCalls \cup InFlight)
        /\ Cardinality(ModelCalls \cup InFlight)' = Cardinality(ModelCalls \cup InFlight)
        /\ Cardinality(InFlight)' = 0
    BY FS_EmptySet
  <1>5. Cardinality(Ahead)' <= Cardinality(Ahead)
    BY <1>2, FS_Subset DEF BookTypes
  <1>6. budget = None => Cardinality(ModelCalls)' = Cardinality(ModelCalls)
    BY <1>2
  <1>7. spent'.model <= for_run'.model + Hidden(crashes')
    BY <1>1, <1>2, <1>3, <1>4 DEF Books, BookTypes
  <1>8. Cardinality(ModelCalls \cup InFlight)' <= IF budget' = None THEN MaxModel ELSE budget'.model
    BY <1>1, <1>2, <1>3, <1>4, <1>6 DEF Books, BookTypes
  <1>9. budget' # None => budget'.model <= MaxModel
    BY <1>1, <1>2, <1>3 DEF Books, BookTypes
  <1>10. Books'
    BY <1>1, <1>2, <1>3, <1>4, <1>5, <1>7, <1>8, <1>9 DEF Books, BookTypes
  <1>11. SpendingExplained'
    BY <1>1, <1>10, BooksExplain, PTL
  <1>12. CountedWereMade' /\ (budget' # None => OverspendBounded')
    <2>1. (budget # None => OverspendBounded)' <=> (budget' # None => OverspendBounded')
      OBVIOUS
    <2> QED BY <1>1, <1>11, <2>1, ExplainedFollows, PTL
  <1>13. OverspendBounded'
    BY <1>1, <1>12 DEF OverspendBounded
  <1> QED BY <1>11, <1>12, <1>13 DEF SpendingTracked

\* A charged call is new in the store, or repeats one that was ahead.
LEMMA OneCallMade ==
  ASSUME LoopInv, LoopInv', SpendingTracked, NEW e,
         events' = events, InFlight = {}, InFlight' = {e}, Ahead' \subseteq Ahead,
         e \in ModelCalls => e \in Ahead /\ e \notin Ahead',
         spent'.model = spent.model + 1, spent'.tool = spent.tool, crashes' = crashes,
         budget # None, budget.model < MaxModel, budget' # None, budget'.model = budget.model + 1
  PROVE  SpendingTracked'
  <1>1. LoopTypeOK /\ LoopTypeOK' /\ SpendingExplained /\ crashes \in Nat /\ MaxModel \in Nat
    BY LoopParts, LoopAssumption DEF LoopInv, SpendingTracked
  <1>2. BookTypes /\ Books
    BY <1>1, BookTypesOK, Accounts
  <1>3. BookTypes'
    BY <1>1, BookTypesOK, PTL
  <1>4. ModelCalls' = ModelCalls /\ Counted("TOOL_CALL")' = Counted("TOOL_CALL")
    BY DEF ModelCalls, Counted
  <1>5. /\ Cardinality(InFlight) = 0 /\ Cardinality(InFlight)' = 1
        /\ Cardinality(ModelCalls \cup InFlight) = Cardinality(ModelCalls)
        /\ Cardinality(ModelCalls \cup InFlight)' = Cardinality(ModelCalls \cup {e})
    <2>1. Cardinality({}) = 0 /\ Cardinality({e}) = 1 /\ ModelCalls \cup {} = ModelCalls
      BY FS_EmptySet, FS_Singleton
    <2> QED BY <1>4, <2>1
  <1>6. Cardinality(ModelCalls \cup {e})
          = IF e \in ModelCalls THEN Cardinality(ModelCalls) ELSE Cardinality(ModelCalls) + 1
    BY <1>2, FS_AddElement DEF BookTypes
  <1>7. Cardinality(Ahead)' <= IF e \in ModelCalls THEN Cardinality(Ahead) - 1 ELSE Cardinality(Ahead)
    <2>1. CASE e \in ModelCalls
      <3>1. Ahead' \subseteq Ahead \ {e} /\ e \in Ahead
        BY <2>1
      <3>2. IsFiniteSet(Ahead \ {e}) /\ Cardinality(Ahead \ {e}) = Cardinality(Ahead) - 1
        BY <1>2, <3>1, FS_RemoveElement DEF BookTypes
      <3>3. Cardinality(Ahead') <= Cardinality(Ahead \ {e})
        BY <3>1, <3>2, FS_Subset
      <3> QED BY <2>1, <3>2, <3>3
    <2>2. CASE e \notin ModelCalls
      BY <1>2, <2>2, FS_Subset DEF BookTypes
    <2> QED BY <2>1, <2>2
  <1>8. Books'
    <2>1. spent'.model + Cardinality(Ahead)' <= Cardinality(ModelCalls \cup InFlight)' + crashes' * NodeCalls
      <3>1. /\ spent.model + Cardinality(Ahead) <= Cardinality(ModelCalls) + crashes * NodeCalls
            /\ spent.model \in Nat /\ Cardinality(Ahead) \in Nat /\ Cardinality(ModelCalls) \in Nat
            /\ crashes * NodeCalls \in Nat /\ Cardinality(Ahead)' \in Nat
        BY <1>2, <1>3, <1>5 DEF Books, BookTypes
      <3>2. CASE e \in ModelCalls
        BY <1>5, <1>6, <1>7, <3>1, <3>2
      <3>3. CASE e \notin ModelCalls
        BY <1>5, <1>6, <1>7, <3>1, <3>3
      <3> QED BY <3>2, <3>3
    <2>2. spent'.model <= for_run'.model + Hidden(crashes')
      BY <1>2, <1>3 DEF Books, BookTypes
    <2>3. Cardinality(ModelCalls \cup InFlight)' <= budget'.model
      BY <1>2, <1>3, <1>5, <1>6 DEF Books, BookTypes
    <2>4. Cardinality(ModelCalls)' + Cardinality(InFlight)' <= spent'.model
      BY <1>2, <1>3, <1>4, <1>5 DEF Books, BookTypes
    <2>5. budget'.model <= MaxModel
      BY <1>1, <1>2 DEF BookTypes
    <2> QED BY <1>2, <1>4, <2>1, <2>2, <2>3, <2>4, <2>5 DEF Books
  <1>9. SpendingExplained'
    BY <1>1, <1>8, BooksExplain, PTL
  <1>10. CountedWereMade' /\ (budget' # None => OverspendBounded')
    <2>1. (budget # None => OverspendBounded)' <=> (budget' # None => OverspendBounded')
      OBVIOUS
    <2> QED BY <1>1, <1>9, <2>1, ExplainedFollows, PTL
  <1> QED BY <1>9, <1>10 DEF SpendingTracked

\* The calls of one turn are few.
LEMMA TurnSlots ==
  ASSUME NEW t, NEW S,
         \A e \in S : \E r \in 0 .. 1 : \E k \in ({"turn"} \X (1 .. MaxIterations)) \cup {<<"final", 0>>} :
           e = Event(<<t, r>>, "MODEL_CALL", k, None)
  PROVE  IsFiniteSet(S) /\ Cardinality(S) <= NodeCalls
  <1> DEFINE key(i) == IF i = 0 THEN <<"final", 0>> ELSE <<"turn", i>>
             slot(p) == Event(<<t, p[2]>>, "MODEL_CALL", key(p[1]), None)
             P == (0 .. MaxIterations) \X (0 .. 1)
             Slots == {slot(p) : p \in P}
  <1>1. MaxIterations \in Nat
    BY LoopAssumption
  <1>2. IsFiniteSet(P) /\ Cardinality(P) = NodeCalls
    <2>1. IsFiniteSet(0 .. MaxIterations) /\ Cardinality(0 .. MaxIterations) = MaxIterations + 1
      BY <1>1, FS_Interval
    <2>2. IsFiniteSet(0 .. 1) /\ Cardinality(0 .. 1) = 2
      <3>1. IsFiniteSet({0}) /\ Cardinality({0}) = 1
        BY FS_Singleton
      <3>2. IsFiniteSet({0} \cup {1}) /\ Cardinality({0} \cup {1}) = Cardinality({0}) + 1
        BY <3>1, FS_AddElement
      <3>3. 0 .. 1 = {0} \cup {1}
        OBVIOUS
      <3> QED BY <3>1, <3>2, <3>3
    <2>3. /\ IsFiniteSet(P)
          /\ Cardinality(P) = Cardinality(0 .. MaxIterations) * Cardinality(0 .. 1)
      BY <2>1, <2>2, FS_Product
    <2>4. Cardinality(P) = (MaxIterations + 1) * 2
      BY <2>1, <2>2, <2>3
    <2> QED BY <1>1, <2>3, <2>4 DEF NodeCalls
  <1>3. IsFiniteSet(Slots) /\ Cardinality(Slots) <= Cardinality(P)
    <2> DEFINE f == [p \in P |-> slot(p)]
    <2>1. f \in Surjection(P, Slots)
      BY DEF Surjection
    <2> HIDE DEF f, P, Slots
    <2> QED BY <1>2, <2>1, FS_Surjection
  <1>4. S \subseteq Slots
    <2> SUFFICES ASSUME NEW e \in S
                 PROVE  e \in Slots
      OBVIOUS
    <2>1. PICK r \in 0 .. 1, k \in ({"turn"} \X (1 .. MaxIterations)) \cup {<<"final", 0>>} :
            e = Event(<<t, r>>, "MODEL_CALL", k, None)
      OBVIOUS
    <2>2. PICK i \in 0 .. MaxIterations : k = key(i)
      <3>1. CASE k = <<"final", 0>>
        BY <1>1, <3>1
      <3>2. CASE k \in {"turn"} \X (1 .. MaxIterations)
        <4>1. PICK i \in 1 .. MaxIterations : k = <<"turn", i>>
          BY <3>2
        <4>2. i \in 0 .. MaxIterations /\ i # 0
          BY <1>1, <4>1
        <4> QED BY <4>1, <4>2
      <3> QED BY <3>1, <3>2
    <2>3. <<i, r>> \in P /\ slot(<<i, r>>) = e
      BY <2>1, <2>2
    <2> QED BY <2>3
  <1>5. Cardinality(S) <= Cardinality(Slots) /\ IsFiniteSet(S)
    BY <1>3, <1>4, FS_Subset
  <1>6. Cardinality(S) \in Nat /\ Cardinality(Slots) \in Nat /\ Cardinality(P) \in Nat
    BY <1>2, <1>3, <1>5, FS_CardinalityType
  <1> HIDE DEF P, Slots
  <1> QED BY <1>2, <1>3, <1>5, <1>6

\* A model call's event is determined by its id.
LEMMA CallForm ==
  ASSUME LoopInv, NEW e \in ModelCalls \cup InFlight
  PROVE  /\ e.inv \in (1 .. turn) \X {0, 1}
         /\ e.key \in ({"turn"} \X (1 .. MaxIterations)) \cup {<<"final", 0>>}
         /\ e = Event(e.inv, "MODEL_CALL", e.key, None)
  <1>1. CASE e \in ModelCalls
    <2>1. e \in events /\ e.type = "MODEL_CALL"
      BY <1>1 DEF ModelCalls
    <2> QED BY <2>1 DEF LoopInv, LoopTypeOK, EventsTell
  <1>2. CASE e \in InFlight
    <2>1. PICK k : /\ e = Event(Invocation, "MODEL_CALL", k, None)
                   /\ k \in ({"turn"} \X (1 .. MaxIterations)) \cup {<<"final", 0>>}
      BY <1>2, TurnKey DEF InFlight
    <2>2. IsEvent(e, turn) /\ e.inv = Invocation /\ e.key = k
      BY <2>1, CurrentEvent, EventFields DEF LoopInv
    <2> QED BY <2>1, <2>2 DEF IsEvent
  <1> QED BY <1>1, <1>2

\* A restart hides at most the calls of one node.
LEMMA CrashSpends ==
  ASSUME LoopInv, LoopInv', SpendingTracked, Crash
  PROVE  SpendingTracked'
  <1>1. LoopTypeOK /\ LoopTypeOK' /\ SpendingExplained /\ OverspendBounded /\ crashes \in Nat
        /\ MaxModel \in Nat
    BY LoopParts, LoopAssumption DEF LoopInv, SpendingTracked
  <1>2. BookTypes /\ Books
    BY <1>1, BookTypesOK, Accounts
  <1>3. BookTypes'
    BY <1>1, BookTypesOK, PTL
  <1>4. /\ pc # "stopped" /\ crashes' = crashes + 1 /\ budget' = None /\ loop' = NoLoop /\ retry' = 0
        /\ pc' \in {"verify", "idle"} /\ events' = events /\ turn' = turn /\ spent' = spent
    BY DEF Crash
  <1>5. /\ ModelCalls' = ModelCalls /\ Counted("TOOL_CALL")' = Counted("TOOL_CALL")
        /\ InFlight' = {}
    BY <1>4 DEF ModelCalls, Counted, InFlight
  <1>6. /\ Cardinality(InFlight)' = 0
        /\ Cardinality(ModelCalls \cup InFlight)' = Cardinality(ModelCalls)
    <2>1. Cardinality({}) = 0 /\ ModelCalls \cup {} = ModelCalls
      BY FS_EmptySet
    <2> QED BY <1>5, <2>1
  <1> DEFINE Lost == InFlight \ ModelCalls
  <1>7. Cardinality(ModelCalls \cup InFlight) = Cardinality(ModelCalls) + Cardinality(Lost)
        /\ Cardinality(Lost) \in Nat /\ IsFiniteSet(Lost)
    <2>1. IsFiniteSet(ModelCalls) /\ IsFiniteSet(InFlight)
      BY <1>1, AccountTypes
    <2>2. IsFiniteSet(Lost)
      BY <2>1, FS_Difference
    <2>3. ModelCalls \cup InFlight = ModelCalls \cup Lost /\ ModelCalls \cap Lost = {}
      OBVIOUS
    <2>4. Cardinality(ModelCalls \cup Lost) = Cardinality(ModelCalls) + Cardinality(Lost) - Cardinality(ModelCalls \cap Lost)
      BY <2>1, <2>2, FS_Union
    <2>5. Cardinality(ModelCalls \cap Lost) = 0
      BY <2>3, FS_EmptySet
    <2>6. Cardinality(Lost) \in Nat /\ Cardinality(ModelCalls) \in Nat
      BY <2>1, <2>2, FS_CardinalityType
    <2> HIDE DEF Lost
    <2> QED BY <2>2, <2>3, <2>4, <2>5, <2>6
  <1>8. Cardinality(Ahead)' + Cardinality(Lost) <= NodeCalls
    <2>1. Ahead' \subseteq ModelCalls /\ \A e \in Ahead' : e.inv[1] = turn
      BY <1>4, <1>5 DEF Ahead
    <2>2. \A e \in Lost : e.inv = Invocation
      BY EventFields DEF InFlight
    <2>3. \A e \in Ahead' \cup Lost : \E r \in 0 .. 1 :
            \E k \in ({"turn"} \X (1 .. MaxIterations)) \cup {<<"final", 0>>} :
              e = Event(<<turn, r>>, "MODEL_CALL", k, None)
      <3> SUFFICES ASSUME NEW e \in Ahead' \cup Lost
                   PROVE  \E r \in 0 .. 1 :
                            \E k \in ({"turn"} \X (1 .. MaxIterations)) \cup {<<"final", 0>>} :
                              e = Event(<<turn, r>>, "MODEL_CALL", k, None)
        OBVIOUS
      <3>1. /\ e.inv \in (1 .. turn) \X {0, 1}
            /\ e.key \in ({"turn"} \X (1 .. MaxIterations)) \cup {<<"final", 0>>}
            /\ e = Event(e.inv, "MODEL_CALL", e.key, None)
        BY <2>1, CallForm
      <3>2. e.inv[1] = turn
        BY <2>1, <2>2 DEF Invocation
      <3>3. e.inv = <<turn, e.inv[2]>> /\ e.inv[2] \in 0 .. 1
        BY <3>1, <3>2
      <3> QED BY <3>1, <3>3
    <2>4. IsFiniteSet(Ahead' \cup Lost) /\ Cardinality(Ahead' \cup Lost) <= NodeCalls
      BY <2>3, TurnSlots
    <2>5. Ahead' \cap Lost = {}
      BY <2>1
    <2>6. IsFiniteSet(Ahead')
      BY <1>3 DEF BookTypes
    <2> HIDE DEF Lost
    <2>7. Cardinality(Ahead' \cup Lost) = Cardinality(Ahead') + Cardinality(Lost) - Cardinality({})
      BY <1>7, <2>5, <2>6, FS_Union
    <2>8. Cardinality({}) = 0 /\ Cardinality(Ahead') \in Nat
      BY <2>6, FS_EmptySet, FS_CardinalityType
    <2> QED BY <1>7, <2>4, <2>7, <2>8
  <1>9. /\ NodeCalls \in Nat /\ (crashes + 1) * NodeCalls = crashes * NodeCalls + NodeCalls
        /\ Hidden(crashes + 1) = 1 + crashes * NodeCalls /\ Hidden(crashes) <= Hidden(crashes + 1)
        /\ Hidden(crashes) \in Nat /\ Hidden(crashes + 1) \in Nat /\ crashes * NodeCalls \in Nat
    BY <1>1, HiddenGrows
  <1> HIDE DEF Lost
  <1>10. Books'
    <2>1. spent'.model + Cardinality(Ahead)' <= Cardinality(ModelCalls \cup InFlight)' + crashes' * NodeCalls
      BY <1>2, <1>3, <1>4, <1>6, <1>7, <1>8, <1>9 DEF Books, BookTypes
    <2>2. spent'.model <= for_run'.model + Hidden(crashes')
      <3>1. spent.model <= Cardinality(ModelCalls) + 1 + crashes * NodeCalls
        BY <1>2, <1>9 DEF Books, BookTypes
      <3>2. for_run'.model = Cardinality(ModelCalls)
        BY <1>3, <1>4, <1>5 DEF BookTypes
      <3> QED BY <1>2, <1>4, <1>9, <3>1, <3>2 DEF BookTypes
    <2>3. Cardinality(ModelCalls \cup InFlight)' <= MaxModel
      BY <1>1, <1>2, <1>6, <1>7 DEF Books, BookTypes
    <2>4. Cardinality(ModelCalls)' + Cardinality(InFlight)' <= spent'.model
      BY <1>2, <1>4, <1>5, <1>6 DEF Books, BookTypes
    <2> QED BY <1>2, <1>4, <1>5, <2>1, <2>2, <2>3, <2>4 DEF Books
  <1>11. SpendingExplained'
    BY <1>1, <1>10, BooksExplain, PTL
  <1>12. CountedWereMade'
    BY <1>1, <1>11, ExplainedFollows, PTL
  <1>13. OverspendBounded'
    <2>1. spent.model <= MaxModel + Hidden(crashes)
      BY <1>1 DEF OverspendBounded, Hidden, NodeCalls
    <2>2. spent'.model <= MaxModel + Hidden(crashes')
      BY <1>1, <1>2, <1>4, <1>9, <2>1 DEF BookTypes
    <2> QED BY <2>2 DEF OverspendBounded, Hidden, NodeCalls
  <1> QED BY <1>11, <1>12, <1>13 DEF SpendingTracked

\* The events of one type in a store.
OfType(store, type) == {e \in store : e.type = type}

\* Appending an event of another type changes nothing here.
LEMMA OtherType ==
  ASSUME NEW store, NEW e, NEW new, NEW type, e.type # type, \A x \in new : x.type # type
  PROVE  /\ OfType(Append1(store, e), type) = OfType(store, type)
         /\ OfType(AppendAll(store, new), type) = OfType(store, type)
  BY DEF OfType, Append1, AppendAll

\* Appending an event of a type adds at most that event to it.
LEMMA OwnType ==
  ASSUME NEW store, NEW e, IsFiniteSet(store)
  PROVE  /\ IsFiniteSet(OfType(store, e.type))
         /\ Cardinality(OfType(store, e.type)) \in Nat
         /\ Cardinality(OfType(Append1(store, e), e.type)) \in Nat
         /\ Cardinality(OfType(Append1(store, e), e.type)) <= Cardinality(OfType(store, e.type)) + 1
  <1> DEFINE S == OfType(store, e.type)
             T == OfType(Append1(store, e), e.type)
  <1>1. IsFiniteSet(S)
    BY FS_Subset DEF OfType
  <1>2. T \subseteq S \cup {e}
    BY DEF OfType, Append1
  <1> HIDE DEF S, T
  <1>3. IsFiniteSet(S \cup {e}) /\ Cardinality(S \cup {e}) <= Cardinality(S) + 1
    <2>1. Cardinality(S) \in Nat
      BY <1>1, FS_CardinalityType
    <2>2. IsFiniteSet(S \cup {e})
          /\ Cardinality(S \cup {e}) = IF e \in S THEN Cardinality(S) ELSE Cardinality(S) + 1
      BY <1>1, FS_AddElement
    <2> QED BY <2>1, <2>2
  <1>4. IsFiniteSet(T) /\ Cardinality(T) <= Cardinality(S \cup {e})
    BY <1>2, <1>3, FS_Subset
  <1>5. Cardinality(S) \in Nat /\ Cardinality(T) \in Nat /\ Cardinality(S \cup {e}) \in Nat
    BY <1>1, <1>3, <1>4, FS_CardinalityType
  <1>6. Cardinality(T) <= Cardinality(S) + 1
    BY <1>3, <1>4, <1>5
  <1> QED BY <1>1, <1>5, <1>6 DEF S, T

\* The counters in terms of the store.
LEMMA CountersOf ==
  /\ ModelCalls = OfType(events, "MODEL_CALL") /\ ModelCalls' = OfType(events', "MODEL_CALL")
  /\ Counted("TOOL_CALL") = Cardinality(OfType(events, "TOOL_CALL"))
  /\ Counted("TOOL_CALL")' = Cardinality(OfType(events', "TOOL_CALL"))
  BY DEF ModelCalls, Counted, OfType

\* Recording the awaited call adds it, unless an earlier try already has.
LEMMA CallRecorded ==
  ASSUME LoopInv, NEW k, InFlight = {Event(Invocation, "MODEL_CALL", k, None)}
  PROVE  OfType(Append1(events, Event(Invocation, "MODEL_CALL", k, None)), "MODEL_CALL")
           = ModelCalls \cup InFlight
  <1> DEFINE f == Event(Invocation, "MODEL_CALL", k, None)
  <1>1. f.type = "MODEL_CALL" /\ f.inv = Invocation /\ f.key = k
    BY EventFields
  <1>2. CASE \E g \in events : SameId(f, g)
    <2>1. PICK g \in events : SameId(f, g)
      BY <1>2
    <2>2. g.type = "MODEL_CALL" /\ g.inv = Invocation /\ g.key = k /\ g \in ModelCalls
      BY <1>1, <2>1 DEF SameId, ModelCalls
    <2>3. g = f
      BY <2>2, CallForm
    <2>4. Append1(events, f) = events
      BY <1>2 DEF Append1
    <2> QED BY <2>2, <2>3, <2>4 DEF OfType, ModelCalls
  <1>3. CASE ~\E g \in events : SameId(f, g)
    <2>1. Append1(events, f) = events \cup {f}
      BY <1>3 DEF Append1
    <2> HIDE DEF f
    <2>2. OfType(events \cup {f}, "MODEL_CALL") = ModelCalls \cup {f}
      BY <1>1 DEF OfType, ModelCalls
    <2> QED BY <2>1, <2>2 DEF f
  <1> QED BY <1>2, <1>3

\* A step that leaves store and spending alone keeps the accounts.
LEMMA Quiet ==
  ASSUME LoopInv, LoopInv', SpendingTracked,
         events' = events, spent' = spent, crashes' = crashes,
         pc \notin {"asking", "finalizing"}, pc' \notin {"asking", "finalizing"},
         Ahead' \subseteq Ahead,
         budget' = None => budget = None, budget' # None => budget'.model = for_run.model
  PROVE  SpendingTracked'
  <1>1. InFlight = {} /\ InFlight' = {}
    BY DEF InFlight
  <1>2. ModelCalls' = ModelCalls \cup InFlight /\ Counted("TOOL_CALL")' = Counted("TOOL_CALL")
    BY <1>1 DEF ModelCalls, Counted
  <1>3. Counted("TOOL_CALL")' - spent'.tool <= Counted("TOOL_CALL") - spent.tool
    <2>1. Counted("TOOL_CALL") \in Nat /\ spent.tool \in Nat
      BY LoopParts, AccountTypes DEF LoopInv
    <2> QED BY <1>2, <2>1
  <1>4. spent'.model = spent.model
    OBVIOUS
  <1> QED BY <1>1, <1>2, <1>3, <1>4, NothingSpent

\* The actions before and after the loop spend nothing.
LEMMA OutsideSpends ==
  ASSUME LoopInv, LoopInv', SpendingTracked,
         \/ SupervisorBegins \/ WorkerBegins \/ WorkerBlocked \/ PrepareRefuses \/ SupervisorRaised
         \/ WorkerRaised \/ SupervisorReturns \/ WorkerReturns \/ WorkerExhausted \/ VerifyDone
         \/ OutOfTurns
  PROVE  SpendingTracked'
  <1>1. /\ LoopTypeOK /\ for_run # None /\ turn \in Nat /\ retry \in {0, 1}
        /\ budget # None => for_run = budget
    BY LoopParts, ForRun, LoopAssumption DEF LoopInv, Budgets
  <1>2. \A e \in ModelCalls : e.inv[1] \in 1 .. turn /\ e.inv[2] \in {0, 1}
    BY CallForm
  <1>3. events' = events /\ spent' = spent /\ crashes' = crashes /\ ModelCalls' = ModelCalls
    BY DEF SupervisorBegins, WorkerBegins, WorkerBlocked, PrepareRefuses, SupervisorRaised,
           WorkerRaised, SupervisorReturns, WorkerReturns, WorkerExhausted, VerifyDone, OutOfTurns,
           ModelCalls
  <1>4. pc' \in {"done", "exhausted", "verify", "stopped"} => Ahead' = {}
    BY DEF Ahead
  <1>5. CASE SupervisorBegins \/ WorkerBegins
    <2>1. /\ pc = "idle" /\ budget' = for_run /\ turn' = turn /\ retry' = retry
          /\ \/ pc' = "exhausted"
             \/ pc' \in {"act", "raised"} /\ loop'.iteration = 0
      <3>1. ASSUME NEW t, LoopBegins(t)
            PROVE  budget' = for_run /\ pc' \in {"act", "raised"} /\ loop'.iteration = 0
        BY <3>1 DEF LoopBegins, Raise, NoLoop
      <3>2. CASE SupervisorBegins
        BY <3>1, <3>2 DEF SupervisorBegins
      <3>3. CASE WorkerBegins
        BY <3>1, <3>3 DEF WorkerBegins
      <3> QED BY <1>5, <3>2, <3>3
    <2>2. loop.iteration = 0
      BY <2>1, FreshLoop DEF LoopInv, TurnsFit
    <2>3. Ahead' \subseteq Ahead
      BY <1>3, <1>4, <2>1, <2>2 DEF Ahead
    <2> QED BY <1>1, <1>3, <2>1, <2>3, Quiet
  <1>6. CASE WorkerBlocked \/ PrepareRefuses \/ WorkerExhausted
    <2>1. /\ pc \in {"idle", "exhausted"} /\ pc' \in {"done", "stopped"}
          /\ budget' = for_run \/ budget' = budget
      BY <1>6 DEF WorkerBlocked, PrepareRefuses, WorkerExhausted
    <2> QED BY <1>1, <1>3, <1>4, <2>1, Quiet
  <1>7. CASE SupervisorRaised
    <2>1. /\ pc = "raised" /\ budget' = budget /\ turn' = turn
          /\ \/ retry = 0 /\ retry' = 1 /\ pc' = "idle"
             \/ pc' = "stopped"
      BY <1>7 DEF SupervisorRaised
    <2>2. Ahead' \subseteq Ahead
      BY <1>2, <1>3, <1>4, <2>1 DEF Ahead
    <2> QED BY <1>1, <1>3, <2>1, <2>2, Quiet
  <1>8. CASE WorkerRaised
    <2>1. pc = "raised" /\ pc' \in {"done", "exhausted", "stopped"} /\ budget' = budget
      <3>1. pc = "raised" => raised \in {"exhausted", "timeout", "gateway", "other"}
        BY <1>1 DEF LoopTypeOK
      <3> QED BY <1>8, <3>1 DEF WorkerRaised
    <2> QED BY <1>1, <1>3, <1>4, <2>1, Quiet
  <1>9. CASE SupervisorReturns \/ VerifyDone
    <2>1. /\ pc \in {"done", "verify"} /\ budget' = budget
          /\ \/ turn' = turn + 1 /\ pc' = "idle"
             \/ pc' = "stopped"
      BY <1>9 DEF SupervisorReturns, VerifyDone
    <2>2. Ahead' \subseteq Ahead
      BY <1>1, <1>2, <1>3, <1>4, <2>1 DEF Ahead
    <2> QED BY <1>1, <1>3, <2>1, <2>2, Quiet
  <1>10. CASE WorkerReturns
    <2>1. pc = "done" /\ pc' = "verify" /\ budget' = budget
      BY <1>10 DEF WorkerReturns
    <2> QED BY <1>1, <1>3, <1>4, <2>1, Quiet
  <1>11. CASE OutOfTurns
    <2>1. /\ pc = "act" /\ pc' = "finalize" /\ budget' = budget
          /\ turn' = turn /\ retry' = retry /\ loop' = loop
      BY <1>11 DEF OutOfTurns
    <2>2. Ahead' \subseteq Ahead
      BY <1>3, <2>1 DEF Ahead
    <2> QED BY <1>1, <1>3, <2>1, <2>2, Quiet
  <1> QED BY <1>5, <1>6, <1>7, <1>8, <1>9, <1>10, <1>11

\* Charging a model call is accounted for by its awaited event.
LEMMA CallSpends ==
  ASSUME LoopInv, LoopInv', SpendingTracked, CallsModel \/ CallsFinalize
  PROVE  SpendingTracked'
  <1>1. LoopTypeOK /\ pc \in {"act", "finalize"} /\ InLoop
    BY DEF LoopInv, CallsModel, CallsFinalize, InLoop
  <1>2. budget # None /\ for_run = budget /\ RunHasModel /\ TaskHasModel
    BY <1>1, MayAsk
  <1>3. budget.model < MaxModel
    BY <1>2 DEF RunHasModel
  <1>4. /\ consume_model_call /\ spent' = [spent EXCEPT !.model = @ + 1]
        /\ UNCHANGED <<events, turn, retry, crashes>>
        /\ \/ pc = "act" /\ pc' = "asking" /\ loop' = [loop EXCEPT !.iteration = @ + 1]
           \/ pc = "finalize" /\ pc' = "finalizing" /\ loop' = loop
    BY <1>2 DEF CallsModel, CallsFinalize
  <1>5. spent'.model = spent.model + 1 /\ spent'.tool = spent.tool
    <2>1. spent \in Budgets
      BY <1>1, LoopParts
    <2> QED BY <1>4, <2>1 DEF Budgets
  <1>6. budget' # None /\ budget'.model = budget.model + 1
    BY <1>1, <1>2, <1>4, ModelCharge, LoopAssumption DEF Budgets
  <1>7. loop \in Loops /\ loop.iteration \in Nat
    BY <1>1, LoopParts
  <1>8. InFlight = {} /\ ModelCalls' = ModelCalls /\ Invocation' = Invocation
    BY <1>1, <1>4 DEF InFlight, ModelCalls, Invocation
  <1>9. \A e \in ModelCalls : /\ e = Event(e.inv, "MODEL_CALL", e.key, None) /\ e.inv = <<e.inv[1], e.inv[2]>>
                             /\ \/ e.key = <<"final", 0>> /\ e.key[1] = "final"
                                \/ /\ e.key = <<"turn", e.key[2]>> /\ e.key[1] = "turn"
                                   /\ e.key[2] \in 1 .. MaxIterations
    <2> SUFFICES ASSUME NEW e \in ModelCalls
                 PROVE  /\ e = Event(e.inv, "MODEL_CALL", e.key, None) /\ e.inv = <<e.inv[1], e.inv[2]>>
                        /\ \/ e.key = <<"final", 0>> /\ e.key[1] = "final"
                           \/ /\ e.key = <<"turn", e.key[2]>> /\ e.key[1] = "turn"
                              /\ e.key[2] \in 1 .. MaxIterations
      OBVIOUS
    <2>1. /\ e.inv \in (1 .. turn) \X {0, 1}
          /\ e.key \in ({"turn"} \X (1 .. MaxIterations)) \cup {<<"final", 0>>}
          /\ e = Event(e.inv, "MODEL_CALL", e.key, None)
      BY CallForm
    <2>2. CASE e.key = <<"final", 0>>
      BY <2>1, <2>2
    <2>3. CASE e.key \in {"turn"} \X (1 .. MaxIterations)
      BY <2>1, <2>3
    <2> QED BY <2>1, <2>2, <2>3
  <1>10. CASE pc = "act"
    <2>1. /\ pc' = "asking" /\ loop' = [loop EXCEPT !.iteration = @ + 1]
          /\ loop'.iteration = loop.iteration + 1
      <3>1. pc' = "asking" /\ loop' = [loop EXCEPT !.iteration = @ + 1]
        BY <1>4, <1>10
      <3> QED BY <1>7, <3>1 DEF Loops
    <2> DEFINE e == Event(Invocation, "MODEL_CALL", <<"turn", loop.iteration + 1>>, None)
    <2>2. InFlight' = {e}
      BY <1>8, <2>1 DEF InFlight
    <2>3. e.inv = <<turn, retry>> /\ e.key = <<"turn", loop.iteration + 1>>
      BY EventFields DEF Invocation
    <2>4. e \notin Ahead'
      <3>1. retry \in {0, 1} /\ retry' = retry
        BY <1>1, <1>4, LoopParts
      <3>2. e.inv[2] = retry /\ e.key[1] = "turn" /\ e.key[2] = loop.iteration + 1
        BY <2>3
      <3> HIDE DEF e
      <3> QED BY <1>7, <2>1, <3>1, <3>2 DEF Ahead
    <2> HIDE DEF e
    <2>5. Ahead' \subseteq Ahead
      BY <1>4, <1>7, <1>8, <1>9, <1>10, <2>1 DEF Ahead
    <2>6. e \in ModelCalls => e \in Ahead
      BY <1>7, <1>10, <2>3 DEF Ahead
    <2> QED BY <1>2, <1>3, <1>4, <1>5, <1>6, <1>8, <2>2, <2>4, <2>5, <2>6, OneCallMade
  <1>11. CASE pc = "finalize"
    <2>1. pc' = "finalizing" /\ loop' = loop
      BY <1>4, <1>11
    <2> DEFINE e == Event(Invocation, "MODEL_CALL", <<"final", 0>>, None)
    <2>2. InFlight' = {e}
      BY <1>8, <2>1 DEF InFlight
    <2>3. e.inv = <<turn, retry>> /\ e.key = <<"final", 0>>
      BY EventFields DEF Invocation
    <2>4. e \notin Ahead'
      BY <1>1, <1>4, <2>1, <2>3, LoopParts DEF Ahead
    <2> HIDE DEF e
    <2>5. Ahead' \subseteq Ahead
      BY <1>4, <1>8, <1>11, <2>1 DEF Ahead
    <2>6. e \in ModelCalls => e \in Ahead
      BY <1>11, <2>3 DEF Ahead
    <2> QED BY <1>2, <1>3, <1>4, <1>5, <1>6, <1>8, <2>2, <2>4, <2>5, <2>6, OneCallMade
  <1> QED BY <1>1, <1>10, <1>11

\* Recording the end of an awaited call spends nothing.
LEMMA RecordSpends ==
  ASSUME LoopInv, LoopInv', SpendingTracked, ModelAnswers \/ ModelFails \/ FinalAnswers \/ FinalFails
  PROVE  SpendingTracked'
  <1> DEFINE key == IF pc = "asking" THEN <<"turn", loop.iteration>> ELSE <<"final", 0>>
             f == Event(Invocation, "MODEL_CALL", key, None)
  <1>1. LoopTypeOK /\ pc \in {"asking", "finalizing"} /\ InLoop /\ f.type = "MODEL_CALL"
    <2>1. pc \in {"asking", "finalizing"}
      BY DEF ModelAnswers, ModelFails, FinalAnswers, FinalFails
    <2>2. f.type = "MODEL_CALL"
      BY EventFields
    <2> QED BY <2>1, <2>2 DEF LoopInv, InLoop
  <1>2. InFlight = {f}
    BY <1>1 DEF InFlight
  <1>3. PICK new : events' = AppendAll(Append1(events, f), new) /\ \A x \in new : x.type = "SKILL_USED"
    <2>1. CASE ModelAnswers \/ ModelFails \/ FinalFails
      <3>1. events' = Append1(events, f)
        BY <2>1 DEF ModelAnswers, ModelFails, FinalFails, Emit
      <3>2. Append1(events, f) = AppendAll(Append1(events, f), {})
        BY DEF AppendAll
      <3> QED BY <3>1, <3>2
    <2>2. CASE FinalAnswers
      <3>1. PICK claimed \in SUBSET Skills :
              LET valid == claimed \cap (loop.activated \cup loop.selected)
                  uses == {Event(Invocation, "SKILL_USED", <<"method-use", s>>,
                                 Use(s, "procedure")) : s \in valid \ loop.used}
              IN  events' = AppendAll(Append1(events, f), uses)
        BY <2>2 DEF FinalAnswers
      <3> DEFINE uses == {Event(Invocation, "SKILL_USED", <<"method-use", s>>,
                                Use(s, "procedure")) :
                            s \in (claimed \cap (loop.activated \cup loop.selected)) \ loop.used}
      <3>2. ASSUME NEW s
            PROVE  Event(Invocation, "SKILL_USED", <<"method-use", s>>,
                         Use(s, "procedure")).type = "SKILL_USED"
        BY EventFields
      <3>3. events' = AppendAll(Append1(events, f), uses) /\ \A x \in uses : x.type = "SKILL_USED"
        BY <3>1, <3>2
      <3> HIDE DEF uses
      <3> QED BY <3>3
    <2> QED BY <2>1, <2>2
  <1>4. OfType(events', "MODEL_CALL") = OfType(Append1(events, f), "MODEL_CALL")
        /\ OfType(events', "TOOL_CALL") = OfType(events, "TOOL_CALL")
    <2> HIDE DEF f
    <2>1. \A x \in new : x.type # "MODEL_CALL" /\ x.type # "TOOL_CALL"
      BY <1>3
    <2> QED BY <1>1, <1>3, <2>1 DEF OfType, Append1, AppendAll
  <1>5. ModelCalls' = ModelCalls \cup InFlight /\ Counted("TOOL_CALL")' = Counted("TOOL_CALL")
    BY <1>2, <1>4, CallRecorded, CountersOf
  <1>6. /\ spent' = spent /\ crashes' = crashes /\ budget' = budget /\ turn' = turn /\ retry' = retry
        /\ loop'.iteration = loop.iteration
        /\ \/ pc = "asking" /\ pc' \in {"finalize", "tools", "raised"}
           \/ pc = "finalizing" /\ pc' \in {"done", "raised"}
    <2>1. loop \in Loops
      BY <1>1, LoopParts
    <2> QED BY <2>1 DEF ModelAnswers, ModelFails, FinalAnswers, FinalFails, Raise, Loops
  <1>7. InFlight' = {} /\ Invocation = <<turn, retry>> /\ loop.iteration \in Nat /\ retry \in {0, 1}
    BY <1>1, <1>6, LoopParts DEF InFlight, Invocation
  <1>8. Ahead' \subseteq Ahead
    <2> SUFFICES ASSUME NEW e \in Ahead'
                 PROVE  e \in Ahead
      OBVIOUS
    <2>1. /\ e \in ModelCalls \cup InFlight /\ e.inv[1] = turn /\ pc' # "done"
          /\ \/ e.inv[2] > retry
             \/ /\ e.inv[2] = retry /\ pc' # "raised"
                /\ e.key[1] = "final" \/ (e.key[1] = "turn" /\ e.key[2] > loop.iteration)
      BY <1>5, <1>6 DEF Ahead
    <2>2. e \notin InFlight
      <3> SUFFICES ASSUME e = f
                   PROVE  FALSE
        BY <1>2
      <3>1. e.inv = <<turn, retry>> /\ e.key = key
        BY <1>7, EventFields
      <3>2. pc = "asking"
        BY <1>1, <1>6, <1>7, <2>1, <3>1
      <3>3. e.key = <<"turn", loop.iteration>>
        BY <3>1, <3>2
      <3> QED BY <1>7, <2>1, <3>1, <3>3
    <2>3. e \in ModelCalls
      BY <2>1, <2>2
    <2> QED BY <1>1, <1>6, <2>1, <2>3 DEF Ahead
  <1>9. budget # None /\ for_run = budget
    BY <1>1, ForRun DEF LoopInv, TurnsFit
  <1>10. Counted("TOOL_CALL") \in Nat /\ spent.tool \in Nat
    BY <1>1, AccountTypes, LoopParts
  <1>11. Counted("TOOL_CALL")' - spent'.tool <= Counted("TOOL_CALL") - spent.tool /\ spent'.model = spent.model
    BY <1>5, <1>6, <1>10
  <1> QED BY <1>5, <1>6, <1>7, <1>8, <1>9, <1>11, NothingSpent

\* Tool calls are counted where they are made, and are no model calls.
LEMMA ToolSpends ==
  ASSUME LoopInv, LoopInv', SpendingTracked,
         ToolOverLimit \/ ToolBegins \/ ToolReturns \/ VerifyCommand
  PROVE  SpendingTracked'
  <1>1. /\ LoopTypeOK /\ IsFiniteSet(events) /\ loop \in Loops /\ spent \in Budgets /\ spent.tool \in Nat
        /\ spent.model \in Nat /\ Counted("TOOL_CALL") \in Nat /\ for_run # None
        /\ budget # None => for_run = budget
    BY LoopParts, AccountTypes, ForRun, LoopAssumption DEF LoopInv, LoopTypeOK, Budgets
  <1>2. /\ pc \in {"tools", "invoking", "verify"} /\ crashes' = crashes /\ turn' = turn /\ retry' = retry
        /\ pc' \in {"finalize", "invoking", "raised", "act", "tools", "verify", "stopped"}
        /\ pc = "verify" => pc' \in {"verify", "stopped"}
    BY DEF ToolOverLimit, ToolBegins, ToolReturns, VerifyCommand, Raise
  <1>3. pc # "verify" => loop'.iteration = loop.iteration
    BY <1>1, <1>2 DEF ToolOverLimit, ToolBegins, ToolReturns, VerifyCommand, Loops
  <1>4. InFlight = {} /\ InFlight' = {}
    BY <1>2 DEF InFlight
  <1>5. (budget' = None => budget = None) /\ (budget' # None => budget'.model = for_run.model)
    <2>1. consume_tool_call => budget' # None /\ budget'.model = for_run.model
      BY <1>1, ToolCharge, LoopAssumption DEF Budgets
    <2>2. consume_tool_call \/ budget' = budget
      BY DEF ToolOverLimit, ToolBegins, ToolReturns, VerifyCommand
    <2> QED BY <1>1, <2>1, <2>2
  <1>6. /\ OfType(events', "MODEL_CALL") = OfType(events, "MODEL_CALL") /\ spent'.model = spent.model
        /\ Counted("TOOL_CALL")' - spent'.tool <= Counted("TOOL_CALL") - spent.tool
    <2>1. CASE events' = events /\ spent' = spent
      BY <1>1, <2>1, CountersOf
    <2>2. ASSUME NEW key, NEW data, Emit(Event(Invocation, "TOOL_CALL", key, data)),
                 spent' = [spent EXCEPT !.tool = @ + 1]
          PROVE  /\ OfType(events', "MODEL_CALL") = OfType(events, "MODEL_CALL")
                 /\ spent'.model = spent.model
                 /\ Counted("TOOL_CALL")' - spent'.tool <= Counted("TOOL_CALL") - spent.tool
      <3> DEFINE e == Event(Invocation, "TOOL_CALL", key, data)
      <3>1. e.type = "TOOL_CALL" /\ events' = Append1(events, e)
        BY <2>2, EventFields DEF Emit
      <3> HIDE DEF e
      <3>2. OfType(events', "MODEL_CALL") = OfType(events, "MODEL_CALL")
        BY <3>1 DEF OfType, Append1
      <3>3. /\ Cardinality(OfType(events, "TOOL_CALL")) \in Nat
            /\ Cardinality(OfType(events', "TOOL_CALL")) \in Nat
            /\ Cardinality(OfType(events', "TOOL_CALL")) <= Cardinality(OfType(events, "TOOL_CALL")) + 1
        BY <1>1, <3>1, OwnType
      <3>4. spent'.model = spent.model /\ spent'.tool = spent.tool + 1
        BY <1>1, <2>2 DEF Budgets
      <3> QED BY <1>1, <3>2, <3>3, <3>4, CountersOf
    <2>3. CASE ToolOverLimit
      <3> DEFINE e == Event(Invocation, "ATTEMPT_FAILED", <<"tool-budget", loop.iteration>>, None)
      <3>1. events' = Append1(events, e) /\ e.type = "ATTEMPT_FAILED" /\ spent' = spent
        BY <2>3, EventFields DEF ToolOverLimit, Emit
      <3> HIDE DEF e
      <3>2. /\ OfType(events', "MODEL_CALL") = OfType(events, "MODEL_CALL")
            /\ OfType(events', "TOOL_CALL") = OfType(events, "TOOL_CALL")
        BY <3>1 DEF OfType, Append1
      <3> QED BY <1>1, <3>1, <3>2, CountersOf
    <2>4. CASE ToolReturns
      <3>1. PICK out \in ToolOutcomes :
              events' = AppendAll(Append1(events, Event(Invocation, "TOOL_RESULT", Head(loop.open), out)),
                                  SkillEvents(out))
        BY <2>4 DEF ToolReturns
      <3> DEFINE e == Event(Invocation, "TOOL_RESULT", Head(loop.open), out)
      <3>2. e.type = "TOOL_RESULT" /\ spent' = spent
        <4>1. e.type = "TOOL_RESULT"
          BY EventFields
        <4>2. spent' = spent
          BY <2>4 DEF ToolReturns
        <4> QED BY <4>1, <4>2
      <3>3. \A x \in SkillEvents(out) : x.type \in {"SKILL_INVOCATION_REJECTED", "SKILL_SELECTED", "SKILL_USED"}
        <4> DEFINE c == Head(loop.calls)
                   id == Head(loop.open)
        <4>1. \/ SkillEvents(out) = {}
              \/ SkillEvents(out) = {Event(Invocation, "SKILL_INVOCATION_REJECTED", id, c.skill)}
              \/ SkillEvents(out) = {Event(Invocation, "SKILL_SELECTED", <<"select", c.skill>>, c.skill)}
              \/ SkillEvents(out) = {Event(Invocation, "SKILL_USED", id, Use(c.skill, "script"))}
          BY Zenon DEF SkillEvents
        <4> HIDE DEF c, id
        <4>2. /\ Event(Invocation, "SKILL_INVOCATION_REJECTED", id, c.skill).type = "SKILL_INVOCATION_REJECTED"
              /\ Event(Invocation, "SKILL_SELECTED", <<"select", c.skill>>, c.skill).type = "SKILL_SELECTED"
              /\ Event(Invocation, "SKILL_USED", id, Use(c.skill, "script")).type = "SKILL_USED"
          BY EventFields
        <4> QED BY <4>1, <4>2
      <3> HIDE DEF e
      <3>4. /\ OfType(events', "MODEL_CALL") = OfType(events, "MODEL_CALL")
            /\ OfType(events', "TOOL_CALL") = OfType(events, "TOOL_CALL")
        <4>1. events' = AppendAll(Append1(events, e), SkillEvents(out))
          BY <3>1 DEF e
        <4>2. \A x \in SkillEvents(out) : x.type # "MODEL_CALL" /\ x.type # "TOOL_CALL"
          BY <3>3
        <4> QED BY <3>2, <4>1, <4>2 DEF OfType, Append1, AppendAll
      <3> QED BY <1>1, <3>2, <3>4, CountersOf
    <2>5. CASE ToolBegins
      BY <2>1, <2>2, <2>5 DEF ToolBegins
    <2>6. CASE VerifyCommand
      BY <2>1, <2>2, <2>6 DEF VerifyCommand
    <2> QED BY <2>3, <2>4, <2>5, <2>6
  <1>7. ModelCalls' = ModelCalls \cup InFlight
    BY <1>4, <1>6, CountersOf
  <1>8. Ahead' \subseteq Ahead
    <2>1. pc' \in {"verify", "stopped"} => Ahead' = {}
      BY DEF Ahead
    <2>2. CASE pc # "verify"
      BY <1>2, <1>3, <1>4, <1>7, <2>1, <2>2 DEF Ahead
    <2> QED BY <1>2, <2>1, <2>2
  <1> QED BY <1>2, <1>4, <1>5, <1>6, <1>7, <1>8, NothingSpent

\* Every step keeps the accounts.
LEMMA SpendingStep == LoopInv /\ LoopInv' /\ SpendingTracked /\ [Next]_vars => SpendingTracked'
  <1> SUFFICES ASSUME LoopInv, LoopInv', SpendingTracked, [Next]_vars
               PROVE  SpendingTracked'
    OBVIOUS
  <1>1. CASE \/ SupervisorBegins \/ WorkerBegins \/ WorkerBlocked \/ PrepareRefuses \/ SupervisorRaised
             \/ WorkerRaised \/ SupervisorReturns \/ WorkerReturns \/ WorkerExhausted \/ VerifyDone
             \/ OutOfTurns
    BY <1>1, OutsideSpends
  <1>2. CASE CallsModel \/ CallsFinalize
    BY <1>2, CallSpends
  <1>3. CASE ModelAnswers \/ ModelFails \/ FinalAnswers \/ FinalFails
    BY <1>3, RecordSpends
  <1>4. CASE ToolOverLimit \/ ToolBegins \/ ToolReturns \/ VerifyCommand
    BY <1>4, ToolSpends
  <1>5. CASE Crash
    BY <1>5, CrashSpends
  <1>6. CASE UNCHANGED vars
    BY <1>6 DEF vars, SpendingTracked, CountedWereMade, build_view, OverspendBounded,
                SpendingExplained, Ahead, ModelCalls, InFlight, Invocation, Counted
  <1> QED BY <1>1, <1>2, <1>3, <1>4, <1>5, <1>6 DEF Next, Step, Stopped

\* What a restarted process counts was really spent, and what was spent exceeds the
\* budget by a bounded number of calls only, for any number of restarts
\* (RunBudgetManager.for_run, CombinedBudget.consume_model_call, EventStore.append).
THEOREM SpendingIsTracked == Spec => []SpendingTracked
  <1>1. Init => SpendingTracked
    <2> SUFFICES ASSUME Init
                 PROVE  SpendingTracked
      OBVIOUS
    <2>1. LoopInv
      BY LoopInit
    <2>2. /\ ModelCalls = {} /\ InFlight = {} /\ Ahead = {} /\ Counted("TOOL_CALL") = 0
          /\ Counted("MODEL_CALL") = 0 /\ Cardinality({}) = 0 /\ crashes = 0 /\ budget = None
          /\ spent.model = 0 /\ spent.tool = 0 /\ MaxModel \in Nat
      <3>1. events = {} /\ pc = "idle" /\ Cardinality({}) = 0
        BY FS_EmptySet DEF Init
      <3>2. {e \in events : e.type = "TOOL_CALL"} = {} /\ {e \in events : e.type = "MODEL_CALL"} = {}
        BY <3>1
      <3> QED BY <3>1, <3>2, LoopAssumption DEF Init, ModelCalls, InFlight, Ahead, Counted
    <2>3. BookTypes
      BY <2>1, BookTypesOK DEF LoopInv
    <2>4. Books
      <3>1. Cardinality(ModelCalls \cup InFlight) = 0
        BY <2>2
      <3> QED BY <2>2, <2>3, <3>1 DEF Books, BookTypes
    <2>5. SpendingExplained /\ CountedWereMade
      BY <2>1, <2>4, BooksExplain, ExplainedFollows DEF LoopInv
    <2>6. OverspendBounded
      BY <2>2 DEF OverspendBounded
    <2> QED BY <2>5, <2>6 DEF SpendingTracked
  <1> QED BY <1>1, LoopInit, LoopStep, SpendingStep, PTL DEF Spec
=============================================================================
