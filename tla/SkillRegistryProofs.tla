------------------------ MODULE SkillRegistryProofs ------------------------
(***************************************************************************)
(* Proofs about SkillRegistry, for any number of learning processes, any   *)
(* versions, runs and deaths.  RegistryInv is inductive.  Its parts are    *)
(* kept one by one: the types (TypeStep), what is registered               *)
(* (RegisteredStep), what is validated (ValidatedStep), the memory file    *)
(* (LessonsStep), what the only process at work relies on (AloneStep,      *)
(* LostStep) and where the versions are while none has died                *)
(* (UndisturbedStep).                                                      *)
(***************************************************************************)
EXTENDS SkillRegistry, FiniteSetTheorems, SequenceTheorems, TLAPS

\* A step of process w sets these local variables and leaves the others alone.
Becomes(w, pc, fresh, moved, stash) ==
  /\ writer' \in [Writers -> Locals]
  /\ \A u \in Writers \ {w} : writer'[u] = writer[u]
  /\ writer'[w].pc = pc /\ writer'[w].fresh = fresh /\ writer'[w].moved = moved
  /\ writer'[w].stash = stash /\ writer'[w].kind = writer[w].kind
  /\ writer'[w].ver = writer[w].ver /\ writer'[w].enabled = writer[w].enabled

\* Process w returns.
Ends(w) ==
  /\ writer' \in [Writers -> Locals] /\ writer'[w] = Idle
  /\ \A u \in Writers \ {w} : writer'[u] = writer[u]

\* Going on to another program point changes nothing else.
LEMMA GoEffect ==
  ASSUME RegistryTypeOK, NEW w \in Writers,
         NEW pc \in {"validate", "stash", "move", "place", "rows", "clean", "undo", "undoNew"},
         Go(w, pc)
  PROVE  Becomes(w, pc, writer[w].fresh, writer[w].moved, writer[w].stash)
  <1>1. writer \in [Writers -> Locals]
    BY DEF RegistryTypeOK
  <1> QED BY <1>1 DEF Go, Becomes, Locals

\* Returning resets the local variables.
LEMMA ReturnEffect ==
  ASSUME RegistryTypeOK, NEW w \in Writers, Return(w)
  PROVE  Ends(w)
  <1>1. writer \in [Writers -> Locals] /\ Idle \in Locals
    BY DEF RegistryTypeOK, Idle, Locals
  <1> QED BY <1>1 DEF Return, Ends

\* The flag that the memory file is new.
LEMMA FreshEffect ==
  ASSUME RegistryTypeOK, NEW w \in Writers, NEW b \in BOOLEAN,
         writer' = [writer EXCEPT ![w] = [@ EXCEPT !.pc = "place", !.fresh = b]]
  PROVE  Becomes(w, "place", b, writer[w].moved, writer[w].stash)
  <1>1. writer \in [Writers -> Locals]
    BY DEF RegistryTypeOK
  <1> QED BY <1>1 DEF Becomes, Locals

\* A new candidate is staged.
LEMMA StagesEffect ==
  ASSUME RegistryTypeOK, NEW w \in Writers, NEW k \in {"create", "update"}, NEW v \in Versions,
         Stages(w, k, v)
  PROVE  /\ writer' \in [Writers -> Locals]
         /\ \A u \in Writers \ {w} : writer'[u] = writer[u]
         /\ writer'[w].pc = "validate" /\ writer'[w].kind = k /\ writer'[w].ver = v
         /\ writer'[w].fresh = FALSE /\ writer'[w].moved = FALSE /\ writer'[w].stash = None
  <1>1. writer \in [Writers -> Locals]
    BY DEF RegistryTypeOK
  <1>2. PICK e : /\ e = IF k = "create" THEN TRUE ELSE row.enabled
                 /\ writer' = [writer EXCEPT ![w] =
                      [Idle EXCEPT !.pc = "validate", !.kind = k, !.ver = v, !.enabled = e]]
    BY DEF Stages
  <1>3. e \in BOOLEAN
    BY <1>2 DEF Stages, RegistryTypeOK, Rows
  <1> QED BY <1>1, <1>2, <1>3 DEF Locals, Idle

\* A candidate is refused, or goes on by its kind.
LEMMA ValidatesEffect ==
  ASSUME RegistryTypeOK, NEW w \in Writers, Validates(w)
  PROVE  \/ Ends(w) /\ memory' = memory
         \/ /\ writer[w].ver \in Sound /\ writer[w].kind = "create" /\ package = None
            /\ \E b \in BOOLEAN : /\ b <=> memory = None
                                  /\ Becomes(w, "place", b, writer[w].moved, writer[w].stash)
            /\ memory' = IF memory = None THEN <<>> ELSE memory
         \/ /\ writer[w].ver \in Sound /\ writer[w].kind = "update" /\ package # None
            /\ Becomes(w, "stash", writer[w].fresh, writer[w].moved, writer[w].stash)
            /\ memory' = memory
  <1>1. writer[w].kind \in {"create", "update"} /\ At(w, "validate")
    BY DEF RegistryTypeOK, Validates, At, Locals
  <1>2. CASE ~(writer[w].ver \in Sound /\ (writer[w].kind = "create") = (package = None))
    BY <1>2, ReturnEffect DEF Validates
  <1>3. CASE writer[w].ver \in Sound /\ writer[w].kind = "create" /\ package = None
    <2>1. PICK b \in BOOLEAN : b <=> memory = None
      <3>1. CASE memory = None
        BY <3>1
      <3>2. CASE memory # None
        BY <3>2
      <3> QED BY <3>1, <3>2
    <2>2. b = (memory = None)
      BY <2>1
    <2>3. /\ writer' = [writer EXCEPT ![w] = [@ EXCEPT !.pc = "place", !.fresh = b]]
          /\ memory' = IF memory = None THEN <<>> ELSE memory
      BY <1>3, <2>2 DEF Validates
    <2> QED BY <1>3, <2>1, <2>3, FreshEffect
  <1>4. CASE writer[w].ver \in Sound /\ writer[w].kind = "update" /\ package # None
    BY <1>4, GoEffect DEF Validates
  <1> QED BY <1>1, <1>2, <1>3, <1>4

\* The backup is set aside.
LEMMA AsideEffect ==
  ASSUME RegistryTypeOK, NEW w \in Writers, SetsPreviousAside(w)
  PROVE  Becomes(w, "move", writer[w].fresh, writer[w].moved, previous)
  <1>1. writer \in [Writers -> Locals] /\ previous \in Versions \cup {None}
    BY DEF RegistryTypeOK
  <1> QED BY <1>1 DEF SetsPreviousAside, Becomes, Locals

\* The package becomes the backup.
LEMMA MovesEffect ==
  ASSUME RegistryTypeOK, NEW w \in Writers, MovesCurrent(w)
  PROVE  Becomes(w, "place", writer[w].fresh, TRUE, writer[w].stash)
  <1>1. writer \in [Writers -> Locals]
    BY DEF RegistryTypeOK
  <1> QED BY <1>1 DEF MovesCurrent, Becomes, Locals
\* A process that goes on or returns keeps the types of the local variables.
LEMMA WriterTypes ==
  ASSUME RegistryTypeOK, NEW w \in Writers,
         \/ Ends(w)
         \/ /\ ~At(w, "idle")
            /\ \E pc \in {"validate", "stash", "move", "place", "rows", "clean", "undo", "undoNew"} :
               \E fresh, moved, stash : Becomes(w, pc, fresh, moved, stash)
  PROVE  /\ writer' \in [Writers -> Locals]
         /\ \A u \in Writers : IF At(u, "idle")' THEN writer'[u] = Idle
                               ELSE writer'[u].kind # None /\ writer'[u].ver \in Versions
  <1>1. \A u \in Writers : IF At(u, "idle") THEN writer[u] = Idle
                            ELSE writer[u].kind # None /\ writer[u].ver \in Versions
    BY DEF RegistryTypeOK
  <1>2. CASE Ends(w)
    BY <1>1, <1>2 DEF Ends, At, Idle
  <1>3. ASSUME ~At(w, "idle"), NEW fresh, NEW moved, NEW stash,
               NEW pc \in {"validate", "stash", "move", "place", "rows", "clean", "undo", "undoNew"},
               Becomes(w, pc, fresh, moved, stash)
        PROVE  /\ writer' \in [Writers -> Locals]
               /\ \A u \in Writers : IF At(u, "idle")' THEN writer'[u] = Idle
                                     ELSE writer'[u].kind # None /\ writer'[u].ver \in Versions
    BY <1>1, <1>3 DEF Becomes, At
  <1> QED BY <1>2, <1>3

\* The steps of a learning process.
Works(w) ==
  \/ \E k \in {"create", "update"}, v \in Versions : Stages(w, k, v)
  \/ Validates(w) \/ SetsPreviousAside(w) \/ MovesCurrent(w) \/ Places(w)
  \/ Commits(w) \/ Cleans(w) \/ Fails(w) \/ UndoesNew(w) \/ Undoes(w) \/ Dies(w)

\* Every step of a process keeps the types of the local variables.
LEMMA WriterTypeStep ==
  ASSUME RegistryTypeOK, NEW w \in Writers, Works(w)
  PROVE  /\ writer' \in [Writers -> Locals]
         /\ \A u \in Writers : IF At(u, "idle")' THEN writer'[u] = Idle
                               ELSE writer'[u].kind # None /\ writer'[u].ver \in Versions
  <1> USE DEF At
  <1>1. ASSUME NEW k \in {"create", "update"}, NEW v \in Versions, Stages(w, k, v)
        PROVE  /\ writer' \in [Writers -> Locals]
               /\ \A u \in Writers : IF At(u, "idle")' THEN writer'[u] = Idle
                                     ELSE writer'[u].kind # None /\ writer'[u].ver \in Versions
    <2>1. k # None
      BY RegistryAssumption
    <2>2. /\ writer' \in [Writers -> Locals] /\ \A u \in Writers \ {w} : writer'[u] = writer[u]
          /\ writer'[w].pc = "validate" /\ writer'[w].kind = k /\ writer'[w].ver = v
      BY <1>1, StagesEffect
    <2>3. \A u \in Writers : IF At(u, "idle") THEN writer[u] = Idle
                             ELSE writer[u].kind # None /\ writer[u].ver \in Versions
      BY DEF RegistryTypeOK
    <2> QED BY <2>1, <2>2, <2>3
  <1>2. CASE Validates(w)
    BY <1>2, ValidatesEffect, WriterTypes DEF Validates
  <1>3. CASE SetsPreviousAside(w)
    BY <1>3, AsideEffect, WriterTypes DEF SetsPreviousAside
  <1>4. CASE MovesCurrent(w)
    BY <1>4, MovesEffect, WriterTypes DEF MovesCurrent
  <1>5. CASE Places(w) \/ Commits(w) \/ Fails(w)
    <2>1. ~At(w, "idle") /\ \E pc \in {"rows", "clean", "undo", "undoNew"} : Go(w, pc)
      BY <1>5 DEF Places, Commits, Fails
    <2> QED BY <2>1, GoEffect, WriterTypes
  <1>6. CASE Cleans(w) \/ UndoesNew(w) \/ Undoes(w) \/ Dies(w)
    <2>1. Return(w)
      BY <1>6 DEF Cleans, UndoesNew, Undoes, Dies
    <2> QED BY <2>1, ReturnEffect, WriterTypes
  <1> QED BY <1>1, <1>2, <1>3, <1>4, <1>5, <1>6 DEF Works

\* Every step of a process keeps the types.
LEMMA WorksType ==
  ASSUME RegistryTypeOK, NEW w \in Writers, Works(w)
  PROVE  RegistryTypeOK'
  <1>1. /\ writer' \in [Writers -> Locals]
        /\ \A u \in Writers : IF At(u, "idle")' THEN writer'[u] = Idle
                              ELSE writer'[u].kind # None /\ writer'[u].ver \in Versions
    BY WriterTypeStep
  <1>2. /\ writer[w] \in Locals /\ writer[w].stash \in Versions \cup {None}
        /\ writer[w].enabled \in BOOLEAN /\ <<>> \in Seq(Runs) /\ MaxCrashes \in Nat
    BY RegistryAssumption DEF RegistryTypeOK, Locals
  <1>3. ~At(w, "idle") => writer[w].ver \in Versions
    BY DEF RegistryTypeOK
  <1> USE DEF RegistryTypeOK, files, history
  <1>4. ASSUME NEW k \in {"create", "update"}, NEW v \in Versions, Stages(w, k, v)
        PROVE  RegistryTypeOK'
    <2>1. raced' \in BOOLEAN
      BY <1>4 DEF Stages
    <2> QED BY <1>1, <1>4, <2>1 DEF Stages
  <1>5. CASE Validates(w)
    <2>1. memory' \in Seq(Runs) \cup {None}
      BY <1>2, <1>5 DEF Validates
    <2>2. UNCHANGED <<row, ops, package, previous, litter, operator, agent, crashes, history>>
      BY <1>5 DEF Validates
    <2> QED BY <1>1, <2>1, <2>2
  <1>6. CASE SetsPreviousAside(w) \/ MovesCurrent(w)
    BY <1>1, <1>6 DEF SetsPreviousAside, MovesCurrent
  <1>7. CASE Places(w)
    BY <1>1, <1>3, <1>7 DEF Places, At
  <1>8. CASE Commits(w)
    <2>1. writer[w].ver \in Versions
      BY <1>3, <1>8 DEF Commits, At
    <2>2. row' \in Rows /\ ops' \in SUBSET Versions /\ again' \in BOOLEAN
      BY <1>2, <1>8, <2>1 DEF Commits, Rows
    <2> QED BY <1>1, <1>8, <2>2 DEF Commits
  <1>9. CASE Cleans(w) \/ Fails(w)
    BY <1>1, <1>9 DEF Cleans, Fails
  <1>10. CASE UndoesNew(w)
    BY <1>1, <1>10 DEF UndoesNew
  <1>11. CASE Undoes(w)
    <2>1. /\ package' \in Versions \cup {None} /\ previous' \in Versions \cup {None}
          /\ litter' \in SUBSET Versions
      BY <1>2, <1>11 DEF Undoes
    <2> QED BY <1>1, <1>11, <2>1 DEF Undoes
  <1>12. CASE Dies(w)
    <2>1. litter' \in SUBSET Versions /\ crashes' \in 0 .. MaxCrashes
      BY <1>2, <1>12 DEF Dies
    <2> QED BY <1>1, <1>12, <2>1 DEF Dies
  <1> QED BY <1>4, <1>5, <1>6, <1>7, <1>8, <1>9, <1>10, <1>11, <1>12 DEF Works

\* The operator, the agent and the runs that finish.
Uses ==
  \/ \E b \in BOOLEAN : OperatorReads(b)
  \/ _set_enabled \/ load_skill \/ ReadsPackage \/ execute_skill \/ run_skill_script
  \/ \E r \in Runs : append_skill_memory(r)

\* They leave the directories and the learning processes alone.
LEMMA UsesEffect ==
  ASSUME Uses
  PROVE  UNCHANGED <<ops, package, previous, litter, writer, crashes, again>>
  BY DEF Uses, OperatorReads, _set_enabled, load_skill, ReadsPackage, execute_skill,
     run_skill_script, append_skill_memory, files, history

\* They keep the types.
LEMMA UsesType ==
  ASSUME RegistryTypeOK, Registered, Uses
  PROVE  RegistryTypeOK'
  <1>1. UNCHANGED <<ops, package, previous, litter, writer, crashes, again>>
    BY UsesEffect
  <1>2. /\ writer' \in [Writers -> Locals]
        /\ \A u \in Writers : IF At(u, "idle")' THEN writer'[u] = Idle
                              ELSE writer'[u].kind # None /\ writer'[u].ver \in Versions
    BY <1>1 DEF RegistryTypeOK, At
  <1> USE DEF RegistryTypeOK, files, history
  <1>3. ASSUME NEW b \in BOOLEAN, OperatorReads(b)
        PROVE  RegistryTypeOK'
    <2>1. operator' \in Rows
      BY <1>3 DEF OperatorReads, Rows
    <2> QED BY <1>1, <1>2, <1>3, <2>1 DEF OperatorReads
  <1>4. CASE _set_enabled
    <2>1. disabled' \in BOOLEAN /\ raced' \in BOOLEAN
      BY <1>4 DEF _set_enabled
    <2> QED BY <1>1, <1>2, <1>4, <2>1 DEF _set_enabled
  <1>5. CASE load_skill \/ execute_skill
    <2>1. agent' \in [pc : {"idle", "load", "script"}, row : Rows \cup {None}, loaded : BOOLEAN]
      BY <1>5 DEF load_skill, execute_skill
    <2> QED BY <1>1, <1>2, <1>5, <2>1 DEF load_skill, execute_skill
  <1>6. CASE ReadsPackage
    <2>1. agent' \in [pc : {"idle", "load", "script"}, row : Rows \cup {None}, loaded : BOOLEAN]
      <3>1. PICK b : b = (agent.loaded \/ package = agent.row.ver) /\ agent' = [NoAgent EXCEPT !.loaded = b]
        BY <1>6 DEF ReadsPackage
      <3>2. b \in BOOLEAN
        BY <3>1
      <3> QED BY <3>1, <3>2 DEF NoAgent
    <2>2. last' \in ({"given", "ran"} \X Versions) \cup {None}
      <3>1. last' = None \/ (last' = <<"given", package>> /\ package = agent.row.ver)
        BY <1>6 DEF ReadsPackage
      <3>2. agent.row.ver \in Versions
        BY <1>6 DEF ReadsPackage, Registered
      <3> QED BY <3>1, <3>2
    <2> QED BY <1>1, <1>2, <1>6, <2>1, <2>2 DEF ReadsPackage
  <1>7. CASE run_skill_script
    <2>1. agent' \in [pc : {"idle", "load", "script"}, row : Rows \cup {None}, loaded : BOOLEAN]
      BY <1>7 DEF run_skill_script
    <2>2. last' = None \/ (last' = <<"ran", package>> /\ package # None)
      BY <1>7 DEF run_skill_script
    <2> QED BY <1>1, <1>2, <1>7, <2>1, <2>2 DEF run_skill_script
  <1>8. ASSUME NEW r \in Runs, append_skill_memory(r)
        PROVE  RegistryTypeOK'
    <2>1. memory' \in Seq(Runs)
      <3>1. (IF memory = None THEN <<>> ELSE memory) \in Seq(Runs)
        OBVIOUS
      <3> QED BY <1>8, <3>1, AppendProperties DEF append_skill_memory
    <2> QED BY <1>1, <1>2, <1>8, <2>1 DEF append_skill_memory
  <1> QED BY <1>3, <1>4, <1>5, <1>6, <1>7, <1>8 DEF Uses

\* Only a commit changes the row and the ledger, and no process touches operator and agent.
LEMMA WorksRow ==
  ASSUME NEW w \in Writers, Works(w)
  PROVE  UNCHANGED <<operator, agent, last>> /\ (Commits(w) \/ UNCHANGED <<row, ops, again>>)
  BY DEF Works, Stages, Validates, SetsPreviousAside, MovesCurrent, Places, Commits, Cleans,
     Fails, UndoesNew, Undoes, Dies, files, history

\* What is registered stays so, and a row that is read is a registered one.
LEMMA RegisteredStep ==
  ASSUME RegistryTypeOK, Registered, (\E w \in Writers : Works(w)) \/ Uses
  PROVE  Registered' /\ ops \subseteq ops' /\ (row # None => row' # None)
  <1>0. \A x \in Rows : x # None
    BY RegistryAssumption DEF Rows
  <1>1. ASSUME NEW w \in Writers, Works(w)
        PROVE  Registered' /\ ops \subseteq ops' /\ (row # None => row' # None)
    <2>1. UNCHANGED <<operator, agent>> /\ (Commits(w) \/ UNCHANGED <<row, ops>>)
      BY <1>1, WorksRow
    <2>2. CASE Commits(w)
      <3>1. /\ row' = [ver |-> writer[w].ver, enabled |-> writer[w].enabled]
            /\ ops' = ops \cup {writer[w].ver}
        BY <2>2 DEF Commits
      <3>2. row' \in Rows
        BY <1>1, WorksType, <3>1, <2>2 DEF RegistryTypeOK, Rows, Locals, Commits, At
      <3> QED BY <1>0, <2>1, <3>1, <3>2 DEF Registered
    <2> QED BY <2>1, <2>2 DEF Registered
  <1>2. CASE Uses
    <2>1. ops' = ops
      BY <1>2, UsesEffect
    <2>2. ASSUME NEW b \in BOOLEAN, OperatorReads(b)
          PROVE  Registered' /\ row' = row
      BY <2>2 DEF OperatorReads, Registered
    <2>3. CASE _set_enabled
      BY <1>0, <2>1, <2>3 DEF _set_enabled, Registered
    <2>4. CASE load_skill
      <3>1. agent'.row = row
        BY <2>4 DEF load_skill, RegistryTypeOK
      <3> QED BY <2>4, <3>1 DEF load_skill, Registered
    <2>5. CASE ReadsPackage
      <3>1. agent'.pc = "idle"
        BY <2>5 DEF ReadsPackage, NoAgent
      <3> QED BY <2>5, <3>1 DEF ReadsPackage, Registered
    <2>6. CASE execute_skill \/ run_skill_script
      <3>1. agent'.pc \in {"idle", "script"}
        BY <2>6 DEF execute_skill, run_skill_script, RegistryTypeOK
      <3> QED BY <2>6, <3>1 DEF execute_skill, run_skill_script, Registered
    <2>7. ASSUME NEW r \in Runs, append_skill_memory(r)
          PROVE  Registered' /\ row' = row
      BY <2>7 DEF append_skill_memory, Registered
    <2> QED BY <1>2, <2>1, <2>2, <2>3, <2>4, <2>5, <2>6, <2>7
            DEF Uses, load_skill, ReadsPackage, execute_skill, run_skill_script, _set_enabled
  <1> QED BY <1>1, <1>2

\* Unvalidated content reaches neither package nor backup.
LEMMA ValidatedStep ==
  ASSUME RegistryTypeOK, Validated, (\E w \in Writers : Works(w)) \/ Uses
  PROVE  Validated'
  <1>1. CASE Uses
    BY <1>1, UsesEffect DEF Validated
  <1>2. ASSUME NEW w \in Writers, Works(w)
        PROVE  Validated'
    <2>1. ASSUME NEW k \in {"create", "update"}, NEW v \in Versions, Stages(w, k, v)
          PROVE  Validated'
      BY <2>1, StagesEffect DEF Stages, files, Validated
    <2>2. CASE Ends(w) /\ UNCHANGED <<package, previous>>
      BY <2>2 DEF Ends, Idle, Validated
    <2>3. CASE Validates(w)
      <3>1. UNCHANGED <<package, previous>>
        BY <2>3 DEF Validates
      <3> QED BY <2>2, <2>3, <3>1, ValidatesEffect DEF Becomes, Validated
    <2>4. CASE SetsPreviousAside(w)
      <3>1. Becomes(w, "move", writer[w].fresh, writer[w].moved, previous)
        BY <2>4, AsideEffect
      <3>2. writer[w].pc = "stash" /\ previous' = None /\ package' = package
        BY <2>4 DEF SetsPreviousAside, At
      <3> QED BY <3>1, <3>2 DEF Becomes, Validated
    <2>5. CASE MovesCurrent(w)
      BY <2>5, MovesEffect DEF MovesCurrent, Becomes, Validated, At
    <2>6. CASE Places(w)
      <3>1. Becomes(w, "rows", writer[w].fresh, writer[w].moved, writer[w].stash)
        BY <2>6, GoEffect DEF Places
      <3> QED BY <2>6, <3>1 DEF Places, Becomes, Validated, At
    <2>7. CASE Commits(w) \/ Fails(w)
      <3>1. PICK pc \in {"clean", "undo", "undoNew"} :
              Becomes(w, pc, writer[w].fresh, writer[w].moved, writer[w].stash)
        BY <2>7, GoEffect DEF Commits, Fails
      <3>2. UNCHANGED <<package, previous>>
        BY <2>7 DEF Commits, Fails, files
      <3> QED BY <3>1, <3>2 DEF Becomes, Validated
    <2>8. CASE Cleans(w) \/ Dies(w)
      BY <2>2, <2>8, ReturnEffect DEF Cleans, Dies, files
    <2>9. CASE UndoesNew(w) \/ Undoes(w)
      <3>1. Ends(w)
        BY <2>9, ReturnEffect DEF UndoesNew, Undoes
      <3>2. package' \in Sound \cup {None} /\ previous' \in Sound \cup {None}
        BY <2>9 DEF UndoesNew, Undoes, Validated
      <3> QED BY <3>1, <3>2 DEF Ends, Idle, Validated
    <2> QED BY <1>2, <2>1, <2>3, <2>4, <2>5, <2>6, <2>7, <2>8, <2>9 DEF Works
  <1> QED BY <1>1, <1>2

\* What the agent is given was registered, what it runs was validated.
LEMMA LastStep ==
  ASSUME RegistryTypeOK, Registered, Validated, GivenWasRegistered, OnlyValidatedRuns,
         (\E w \in Writers : Works(w)) \/ Uses
  PROVE  GivenWasRegistered' /\ OnlyValidatedRuns'
  <1>1. ops \subseteq ops'
    BY RegisteredStep
  <1>2. CASE last' = last
    BY <1>1, <1>2 DEF GivenWasRegistered, OnlyValidatedRuns
  <1>3. CASE ReadsPackage
    <2>1. last' = None \/ (last' = <<"given", package>> /\ package = agent.row.ver)
      BY <1>3 DEF ReadsPackage
    <2>2. agent.row.ver \in ops
      BY <1>3 DEF ReadsPackage, Registered
    <2>3. \A v \in Versions : None # <<"given", v>> /\ None # <<"ran", v>>
      BY RegistryAssumption
    <2> QED BY <1>1, <2>1, <2>2, <2>3 DEF GivenWasRegistered, OnlyValidatedRuns
  <1>4. CASE run_skill_script
    <2>1. last' = None \/ (last' = <<"ran", package>> /\ package # None)
      BY <1>4 DEF run_skill_script
    <2>2. package # None => package \in Sound
      BY DEF Validated
    <2>3. \A v \in Versions : None # <<"given", v>> /\ None # <<"ran", v>>
      BY RegistryAssumption
    <2> QED BY <1>1, <2>1, <2>2, <2>3 DEF GivenWasRegistered, OnlyValidatedRuns
  <1>5. CASE last' # last /\ ~ReadsPackage /\ ~run_skill_script
    BY <1>5, WorksRow DEF Uses, OperatorReads, _set_enabled, load_skill, execute_skill,
       append_skill_memory, history
  <1> QED BY <1>2, <1>3, <1>4, <1>5

\* A sequence is a prefix of itself and of what it is appended to.
LEMMA PrefixFacts ==
  ASSUME NEW s \in Seq(Runs), NEW r \in Runs
  PROVE  IsPrefix(s, s) /\ IsPrefix(s, Append(s, r))
  <1>1. Len(s) \in Nat /\ Append(s, r) \in Seq(Runs) /\ Len(Append(s, r)) = Len(s) + 1
        /\ \A i \in 1 .. Len(s) : Append(s, r)[i] = s[i]
    OBVIOUS
  <1>2. SubSeq(s, 1, Len(s)) = SubSeq(Append(s, r), 1, Len(s))
    BY <1>1
  <1> QED BY <1>1, <1>2 DEF IsPrefix

\* Appending a new element keeps a sequence injective.
LEMMA InjectiveAppend ==
  ASSUME NEW s \in Seq(Runs), NEW r \in Runs, IsInjective(s), r \notin Range(s)
  PROVE  IsInjective(Append(s, r))
  <1>1. /\ Len(s) \in Nat /\ DOMAIN s = 1 .. Len(s) /\ DOMAIN Append(s, r) = 1 .. Len(s) + 1
        /\ Append(s, r)[Len(s) + 1] = r /\ \A i \in 1 .. Len(s) : Append(s, r)[i] = s[i]
    OBVIOUS
  <1>2. \A i \in 1 .. Len(s) : s[i] # r
    BY <1>1 DEF Range
  <1> QED BY <1>1, <1>2 DEF IsInjective

\* A lesson is there once, and unless processes overlap it stays.
LEMMA LessonsStep ==
  ASSUME RegistryTypeOK, IsInjective(Lessons), ~raced => Alone,
         (\E w \in Writers : Works(w)) \/ Uses
  PROVE  IsInjective(Lessons)' /\ (~raced' => IsPrefix(Lessons, Lessons'))
  <1>1. Lessons \in Seq(Runs)
    BY DEF RegistryTypeOK, Lessons
  <1>2. CASE Lessons' = Lessons
    <2>1. IsPrefix(Lessons, Lessons)
      <3>1. Len(Lessons) \in Nat
        BY <1>1
      <3> QED BY <3>1 DEF IsPrefix
    <2> QED BY <1>2, <2>1 DEF IsInjective
  <1>3. ASSUME NEW w \in Writers, UndoesNew(w)
        PROVE  IsInjective(Lessons)' /\ (~raced' => Lessons' = Lessons)
    <2>1. CASE ~writer[w].fresh
      BY <1>3, <2>1 DEF UndoesNew, Lessons
    <2>2. CASE writer[w].fresh
      <3>1. memory' = None /\ raced' = raced
        BY <1>3, <2>2 DEF UndoesNew, history
      <3>2. IsInjective(Lessons)'
        BY <3>1 DEF Lessons, IsInjective
      <3>3. ~raced => memory = <<>>
        BY <1>3, <2>2 DEF UndoesNew, Alone, Holds, At
      <3> QED BY <3>1, <3>2, <3>3 DEF Lessons
    <2> QED BY <2>1, <2>2
  <1>4. ASSUME NEW r \in Runs, append_skill_memory(r)
        PROVE  IsInjective(Lessons)' /\ IsPrefix(Lessons, Lessons')
    <2>1. r \notin Range(Lessons) /\ memory' = Append(Lessons, r)
      BY <1>4 DEF append_skill_memory, Lessons, Range
    <2>2. Append(Lessons, r) \in Seq(Runs)
      BY <1>1, AppendProperties
    <2>3. Lessons' = Append(Lessons, r)
      BY <2>1, <2>2, RegistryAssumption DEF Lessons
    <2>4. IsInjective(Append(Lessons, r)) /\ IsPrefix(Lessons, Append(Lessons, r))
      BY <1>1, <2>1, PrefixFacts, InjectiveAppend
    <2> QED BY <2>3, <2>4 DEF IsInjective
  <1>5. ASSUME NEW w \in Writers, Validates(w)
        PROVE  Lessons' = Lessons
    <2>1. memory' = memory \/ (memory = None /\ memory' = <<>>)
      BY <1>5 DEF Validates
    <2> QED BY <2>1 DEF Lessons
  <1>6. ASSUME NEW w \in Writers, Works(w), ~Validates(w), ~UndoesNew(w)
        PROVE  Lessons' = Lessons
    BY <1>6 DEF Works, Stages, SetsPreviousAside, MovesCurrent, Places, Commits, Cleans, Fails,
       Undoes, Dies, files, Lessons
  <1>7. ASSUME Uses, ~\E r \in Runs : append_skill_memory(r)
        PROVE  Lessons' = Lessons
    BY <1>7 DEF Uses, OperatorReads, _set_enabled, load_skill, ReadsPackage, execute_skill,
       run_skill_script, files, Lessons
  <1>8. CASE Uses
    BY <1>2, <1>4, <1>7, <1>8
  <1>9. ASSUME NEW w \in Writers, Works(w)
        PROVE  IsInjective(Lessons)' /\ (~raced' => IsPrefix(Lessons, Lessons'))
    <2>1. CASE Lessons' = Lessons
      BY <1>2, <2>1
    <2>2. CASE UndoesNew(w)
      <3>1. IsInjective(Lessons)' /\ (~raced' => Lessons' = Lessons)
        BY <2>2, <1>3
      <3> QED BY <1>2, <3>1
    <2> QED BY <1>5, <1>6, <1>9, <2>1, <2>2
  <1> QED BY <1>8, <1>9

\* Processes that overlapped have overlapped.
LEMMA RacedStays ==
  ASSUME (\E w \in Writers : Works(w)) \/ Uses, ~raced'
  PROVE  ~raced
  BY DEF Works, Stages, Validates, SetsPreviousAside, MovesCurrent, Places, Commits, Cleans,
     Fails, UndoesNew, Undoes, Dies, Uses, OperatorReads, _set_enabled, load_skill, ReadsPackage,
     execute_skill, run_skill_script, append_skill_memory, files, history

\* Unless processes overlap, the one that acts is the only one at work.
LEMMA OthersIdle ==
  ASSUME RegistryTypeOK, ~raced => Alone, NEW w \in Writers, Works(w), ~raced'
  PROVE  /\ \A u \in Writers \ {w} : At(u, "idle") /\ writer[u] = Idle
         /\ At(w, "idle") \/ Holds(w)
         /\ \A u \in Writers \ {w} : At(u, "idle")'
  <1>1. \A u \in Writers : At(u, "idle") => writer[u] = Idle
    BY DEF RegistryTypeOK
  <1>2. \A u \in Writers \ {w} : writer'[u] = writer[u]
    <2>1. CASE \E k \in {"create", "update"}, v \in Versions : Stages(w, k, v)
      BY <2>1, StagesEffect
    <2>2. CASE Validates(w)
      BY <2>2, ValidatesEffect DEF Becomes, Ends
    <2>3. CASE SetsPreviousAside(w) \/ MovesCurrent(w)
      BY <2>3, AsideEffect, MovesEffect DEF Becomes
    <2>4. CASE Places(w) \/ Commits(w) \/ Fails(w)
      <3>1. \E pc \in {"rows", "clean", "undo", "undoNew"} : Go(w, pc)
        BY <2>4 DEF Places, Commits, Fails
      <3> QED BY <3>1, GoEffect DEF Becomes
    <2>5. CASE Cleans(w) \/ UndoesNew(w) \/ Undoes(w) \/ Dies(w)
      BY <2>5, ReturnEffect DEF Cleans, UndoesNew, Undoes, Dies, Ends
    <2> QED BY <2>1, <2>2, <2>3, <2>4, <2>5 DEF Works
  <1>3. ASSUME NEW k \in {"create", "update"}, NEW v \in Versions, Stages(w, k, v)
        PROVE  At(w, "idle") /\ \A u \in Writers \ {w} : At(u, "idle")
    BY <1>3 DEF Stages
  <1>4. CASE ~\E k \in {"create", "update"}, v \in Versions : Stages(w, k, v)
    <2>1. ~At(w, "idle")
      BY <1>4 DEF Works, Validates, SetsPreviousAside, MovesCurrent, Places, Commits, Cleans,
         Fails, UndoesNew, Undoes, Dies, At
    <2>2. ~raced
      BY RacedStays
    <2> QED BY <1>1, <1>2, <2>1, <2>2 DEF Alone, At
  <1> QED BY <1>1, <1>2, <1>3, <1>4 DEF At

\* What the only process at work relies on, after its step.
LEMMA HoldsStep ==
  ASSUME RegistryTypeOK, Registered, ~raced => Alone, NEW w \in Writers, Works(w), ~raced'
  PROVE  /\ At(w, "idle")' \/ Holds(w)'
         /\ Commits(w) => writer[w].ver \notin ops
  <1>1. At(w, "idle") \/ Holds(w)
    BY OthersIdle
  <1>2. \A x \in Rows : x # None
    BY RegistryAssumption DEF Rows
  <1> USE DEF At
  <1>3. ASSUME NEW k \in {"create", "update"}, NEW v \in Versions, Stages(w, k, v)
        PROVE  Holds(w)'
    <2>1. /\ writer'[w].pc = "validate" /\ writer'[w].kind = k /\ writer'[w].ver = v
          /\ writer'[w].fresh = FALSE /\ writer'[w].moved = FALSE /\ writer'[w].stash = None
      BY <1>3, StagesEffect
    <2>2. v \notin ops /\ (k = "create" <=> row = None) /\ UNCHANGED <<row, ops>>
      BY <1>3 DEF Stages
    <2> QED BY <2>1, <2>2 DEF Holds
  <1>4. CASE Validates(w)
    <2>1. Holds(w) /\ writer[w].pc = "validate" /\ UNCHANGED <<row, ops, package, previous>>
      BY <1>1, <1>4 DEF Validates
    <2> QED BY <1>4, <2>1, ValidatesEffect DEF Holds, Becomes, Ends, Idle
  <1>5. CASE SetsPreviousAside(w)
    <2>1. Holds(w) /\ writer[w].pc = "stash" /\ UNCHANGED <<row, ops, package>> /\ previous' = None
      BY <1>1, <1>5 DEF SetsPreviousAside
    <2> QED BY <1>5, <2>1, AsideEffect DEF Holds, Becomes
  <1>6. CASE MovesCurrent(w)
    <2>1. /\ Holds(w) /\ writer[w].pc = "move" /\ UNCHANGED <<row, ops>> /\ previous' = package
          /\ package' = None /\ package # None
      BY <1>1, <1>6 DEF MovesCurrent
    <2> QED BY <1>6, <2>1, MovesEffect DEF Holds, Becomes
  <1>7. CASE Places(w)
    <2>1. /\ Holds(w) /\ writer[w].pc = "place" /\ UNCHANGED <<row, ops, previous, memory>>
          /\ package' = writer[w].ver
      BY <1>1, <1>7 DEF Places
    <2>2. Becomes(w, "rows", writer[w].fresh, writer[w].moved, writer[w].stash)
      BY <1>7, GoEffect DEF Places
    <2> QED BY <2>1, <2>2 DEF Holds, Becomes
  <1>8. CASE Commits(w)
    <2>1. /\ Holds(w) /\ writer[w].pc = "rows" /\ UNCHANGED <<package, previous, memory>>
          /\ row' = [ver |-> writer[w].ver, enabled |-> writer[w].enabled]
      BY <1>1, <1>8 DEF Commits, files
    <2>2. Becomes(w, "clean", writer[w].fresh, writer[w].moved, writer[w].stash)
      BY <1>8, GoEffect DEF Commits
    <2>3. row' \in Rows
      BY <2>1 DEF RegistryTypeOK, Rows, Locals
    <2> QED BY <1>2, <2>1, <2>2, <2>3 DEF Holds, Becomes
  <1>9. CASE Fails(w)
    <2>1. /\ Holds(w) /\ writer[w].pc \in {"stash", "move", "place", "rows"}
          /\ UNCHANGED <<row, ops, package, previous, memory>>
      BY <1>1, <1>9 DEF Fails, files
    <2>2. writer[w].kind \in {"create", "update"}
      BY <2>1 DEF RegistryTypeOK, Locals
    <2>3. CASE writer[w].kind = "create"
      <3>1. Becomes(w, "undoNew", writer[w].fresh, writer[w].moved, writer[w].stash)
        BY <1>9, <2>3, GoEffect DEF Fails
      <3> QED BY <2>1, <2>3, <3>1 DEF Holds, Becomes
    <2>4. CASE writer[w].kind = "update"
      <3>1. Becomes(w, "undo", writer[w].fresh, writer[w].moved, writer[w].stash)
        BY <1>9, <2>4, GoEffect DEF Fails
      <3> QED BY <2>1, <2>4, <3>1 DEF Holds, Becomes
    <2> QED BY <2>2, <2>3, <2>4
  <1>10. CASE Cleans(w) \/ UndoesNew(w) \/ Undoes(w) \/ Dies(w)
    <2>1. Return(w)
      BY <1>10 DEF Cleans, UndoesNew, Undoes, Dies
    <2>2. writer'[w] = Idle
      BY <2>1, ReturnEffect DEF Ends
    <2> QED BY <1>1, <2>2 DEF Idle, Commits, Holds
  <1>11. Commits(w) => writer[w].ver \notin ops
    BY <1>1 DEF Commits, Holds
  <1> QED BY <1>3, <1>4, <1>5, <1>6, <1>7, <1>8, <1>9, <1>10, <1>11 DEF Works

\* The operator, the agent and the lessons do not disturb the process at work.
LEMMA HoldsUses ==
  ASSUME RegistryTypeOK, Registered, NEW w \in Writers, ~At(w, "idle"), Holds(w), Uses, ~raced'
  PROVE  Holds(w)'
  <1>1. UNCHANGED <<ops, package, previous, writer>>
    BY UsesEffect
  <1>2. CASE row' = row /\ memory' = memory
    BY <1>1, <1>2 DEF Holds
  <1>3. CASE _set_enabled
    <2>1. row # None /\ row' # None /\ row'.ver = row.ver /\ memory' = memory
      BY <1>3 DEF _set_enabled, Registered, files
    <2> QED BY <1>1, <2>1 DEF Holds
  <1>4. ASSUME NEW r \in Runs, append_skill_memory(r)
        PROVE  Holds(w)'
    <2>1. row # None /\ row' = row
      BY <1>4 DEF append_skill_memory
    <2> QED BY <1>1, <2>1 DEF Holds
  <1>5. CASE ~_set_enabled /\ ~\E r \in Runs : append_skill_memory(r)
    BY <1>2, <1>5 DEF Uses, OperatorReads, load_skill, ReadsPackage, execute_skill,
       run_skill_script, files
  <1> QED BY <1>3, <1>4, <1>5

\* Unless processes overlap, one is at work, finds what it left, and installs once.
LEMMA AloneStep ==
  ASSUME RegistryTypeOK, Registered, ~raced => ~again /\ Alone,
         (\E w \in Writers : Works(w)) \/ Uses, ~raced'
  PROVE  ~again' /\ Alone'
  <1>1. ~raced
    BY RacedStays
  <1>2. ASSUME NEW w \in Writers, Works(w)
        PROVE  ~again' /\ Alone'
    <2>1. Commits(w) => writer[w].ver \notin ops
      BY <1>2, HoldsStep
    <2>2. \A u \in Writers \ {w} : At(u, "idle")'
      BY <1>2, OthersIdle
    <2>3. ~again'
      BY <1>1, <1>2, <2>1, WorksRow, HoldsStep DEF Commits
    <2>4. At(w, "idle")' \/ Holds(w)'
      BY <1>2, HoldsStep
    <2> QED BY <2>2, <2>3, <2>4 DEF Alone
  <1>3. CASE Uses
    <2>1. UNCHANGED <<writer, again>>
      BY <1>3, UsesEffect
    <2> QED BY <1>1, <1>3, <2>1, HoldsUses DEF Alone, At
  <1> QED BY <1>2, <1>3

\* The registered version survives every step.
LEMMA LostStep ==
  ASSUME RegistryTypeOK, Registered, ~raced => Alone, NeverLost,
         (\E w \in Writers : Works(w)) \/ Uses, ~raced', row' # None
  PROVE  row'.ver \in {package', previous'} \cup litter' \cup {writer'[u].stash : u \in Writers}
  <1>1. ~raced
    BY RacedStays
  <1>2. row # None => /\ row.ver \in ops /\ row.ver # None
                      /\ \/ row.ver \in {package, previous} \cup litter
                         \/ \E u \in Writers : writer[u].stash = row.ver
    BY <1>1, RegistryAssumption DEF NeverLost, Registered, RegistryTypeOK, Rows
  <1>3. ASSUME NEW w \in Writers, Works(w)
        PROVE  \/ row'.ver \in {package', previous'} \cup litter'
               \/ \E u \in Writers : writer'[u].stash = row'.ver
    <2> USE DEF At, files
    <2>1. /\ \A u \in Writers \ {w} : writer[u] = Idle /\ writer'[u].pc = "idle"
          /\ At(w, "idle") \/ Holds(w)
      BY <1>3, OthersIdle
    <2>2. CASE Commits(w)
      BY <2>1, <2>2 DEF Commits, Holds
    <2>3. row' = row \/ Commits(w)
      BY <1>3, WorksRow
    <2>4. row # None => row.ver \in {package, previous} \cup litter \cup {writer[w].stash}
      BY <1>2, <2>1 DEF Idle
    <2>5. CASE row = None
      BY <2>2, <2>3, <2>5
    <2>6. CASE row # None /\ ~Commits(w)
      <3>1. row' = row /\ row.ver \in ops /\ row.ver # None
        BY <1>2, <2>3, <2>6
      <3>2. CASE UNCHANGED <<package, previous, litter>> /\ writer'[w].stash = writer[w].stash
        BY <2>4, <2>6, <3>1, <3>2
      <3>3. CASE \E k \in {"create", "update"}, v \in Versions : Stages(w, k, v)
        <4>1. writer[w] = Idle /\ UNCHANGED <<package, previous, litter>>
          BY <3>3 DEF Stages, RegistryTypeOK
        <4> QED BY <2>4, <2>6, <3>1, <4>1 DEF Idle
      <3>4. CASE Validates(w)
        <4>1. Holds(w) /\ writer[w].stash = None /\ UNCHANGED <<package, previous, litter>>
          BY <2>1, <3>4 DEF Validates, Holds
        <4> QED BY <2>4, <2>6, <3>1, <4>1
      <3>5. CASE SetsPreviousAside(w)
        <4>1. writer[w].stash = None /\ writer'[w].stash = previous /\ UNCHANGED <<package, litter>>
          BY <2>1, <3>5, AsideEffect DEF SetsPreviousAside, Holds, Becomes
        <4> QED BY <2>4, <2>6, <3>1, <4>1
      <3>6. CASE MovesCurrent(w)
        <4>1. /\ previous = None /\ writer'[w].stash = writer[w].stash /\ previous' = package
              /\ litter' = litter
          BY <3>6, MovesEffect DEF MovesCurrent, Becomes
        <4> QED BY <2>4, <2>6, <3>1, <4>1
      <3>7. CASE Places(w)
        <4>1. /\ package = None /\ writer'[w].stash = writer[w].stash
              /\ UNCHANGED <<previous, litter>>
          BY <3>7, GoEffect DEF Places, Becomes
        <4> QED BY <2>4, <2>6, <3>1, <4>1
      <3>8. CASE Fails(w)
        <4>1. \E pc \in {"undo", "undoNew"} : Go(w, pc)
          BY <3>8 DEF Fails
        <4>2. writer'[w].stash = writer[w].stash /\ UNCHANGED <<package, previous, litter>>
          BY <3>8, <4>1, GoEffect DEF Fails, Becomes
        <4> QED BY <3>2, <4>2
      <3>9. CASE Cleans(w)
        BY <2>1, <3>1, <3>9 DEF Cleans, Holds
      <3>10. CASE UndoesNew(w)
        BY <2>1, <2>6, <3>10 DEF UndoesNew, Holds
      <3>11. CASE Undoes(w)
        <4>1. Holds(w) /\ writer[w].pc = "undo" /\ writer[w].ver \notin ops
          BY <2>1, <3>11 DEF Undoes, Holds
        <4>2. CASE writer[w].moved
          <5>1. package' = previous /\ previous' = writer[w].stash /\ litter \subseteq litter'
            BY <3>11, <4>2 DEF Undoes
          <5>2. row.ver # package
            BY <3>1, <4>1, <4>2 DEF Holds
          <5> QED BY <2>4, <2>6, <3>1, <5>1, <5>2
        <4>3. CASE ~writer[w].moved
          <5>1. package # None /\ (previous = None \/ writer[w].stash = None)
            BY <4>1, <4>3 DEF Holds
          <5>2. /\ package' = package /\ litter \subseteq litter'
                /\ previous' = IF previous = None THEN writer[w].stash ELSE previous
            BY <3>11, <4>3, <5>1 DEF Undoes
          <5> QED BY <2>4, <2>6, <3>1, <5>1, <5>2
        <4> QED BY <4>2, <4>3
      <3>12. CASE Dies(w)
        <4>1. UNCHANGED <<package, previous>> /\ litter \subseteq litter'
              /\ (writer[w].stash # None => writer[w].stash \in litter')
          BY <3>12 DEF Dies
        <4> QED BY <2>4, <2>6, <3>1, <4>1
      <3> QED BY <1>3, <2>6, <3>3, <3>4, <3>5, <3>6, <3>7, <3>8, <3>9, <3>10, <3>11, <3>12 DEF Works
    <2> QED BY <2>2, <2>5, <2>6
  <1>4. CASE Uses
    <2>1. UNCHANGED <<package, previous, litter, writer>>
      BY <1>4, UsesEffect
    <2>2. row # None /\ row'.ver = row.ver
      <3>1. CASE _set_enabled
        BY <3>1 DEF _set_enabled, Registered
      <3>2. CASE ~_set_enabled
        BY <1>4, <3>2 DEF Uses, OperatorReads, load_skill, ReadsPackage, execute_skill,
           run_skill_script, append_skill_memory
      <3> QED BY <3>1, <3>2
    <2> QED BY <1>2, <2>1, <2>2
  <1> QED BY <1>3, <1>4

\* What keeps the registry settled.
LEMMA SettledKept ==
  ASSUME Settled, UNCHANGED <<ops, package, previous>>,
         \/ UNCHANGED <<row, memory>>
         \/ row # None /\ row' # None /\ row'.ver = row.ver
  PROVE  Settled'
  BY DEF Settled, Backed

\* Where the versions are after a step of the only process at work.
LEMMA PlacedStep ==
  ASSUME RegistryTypeOK, Registered, ~raced => Alone, Undisturbed,
         NEW w \in Writers, Works(w), ~Dies(w), ~raced'
  PROVE  litter' = {} /\ (At(w, "idle")' => Settled') /\ Placed(w)'
  <1>1. At(w, "idle") \/ Holds(w)
    BY OthersIdle
  <1>2. litter = {} /\ Placed(w)
    BY DEF Undisturbed
  <1>3. \A u \in Writers \ {w} : At(u, "idle")
    BY OthersIdle
  <1> USE DEF At, files
  <1>4. ASSUME NEW k \in {"create", "update"}, NEW v \in Versions, Stages(w, k, v)
        PROVE  litter' = {} /\ (At(w, "idle")' => Settled') /\ Placed(w)'
    <2>1. Settled
      BY <1>3, <1>4 DEF Undisturbed, Quiet, Stages
    <2>2. Settled' /\ litter' = litter
      BY <1>4, <2>1, SettledKept DEF Stages
    <2>3. writer'[w].pc = "validate"
      BY <1>4, StagesEffect
    <2> QED BY <1>2, <2>2, <2>3 DEF Placed
  <1>5. CASE Validates(w)
    <2>1. /\ Holds(w) /\ Settled /\ writer[w].pc = "validate"
          /\ UNCHANGED <<row, ops, package, previous, litter>>
      BY <1>1, <1>2, <1>5 DEF Validates, Placed
    <2>2. CASE Ends(w) /\ memory' = memory
      <3>1. Settled' /\ writer'[w].pc = "idle"
        BY <2>1, <2>2, SettledKept DEF Ends, Idle
      <3> QED BY <1>2, <2>1, <3>1 DEF Placed
    <2>3. CASE /\ writer[w].kind = "create"
               /\ \E b \in BOOLEAN : /\ b <=> memory = None
                                     /\ Becomes(w, "place", b, writer[w].moved, writer[w].stash)
      <3>1. row = None /\ memory = None /\ previous = None
        BY <2>1, <2>3 DEF Holds, Settled
      <3>2. writer'[w].pc = "place" /\ writer'[w].kind = "create" /\ writer'[w].fresh
        BY <2>3, <3>1 DEF Becomes
      <3> QED BY <1>2, <2>1, <3>1, <3>2 DEF Placed
    <2>4. CASE /\ Becomes(w, "stash", writer[w].fresh, writer[w].moved, writer[w].stash)
               /\ memory' = memory
      <3>1. Settled' /\ writer'[w].pc = "stash"
        BY <2>1, <2>4, SettledKept DEF Becomes
      <3> QED BY <1>2, <2>1, <3>1 DEF Placed
    <2> QED BY <1>5, <2>2, <2>3, <2>4, ValidatesEffect
  <1>6. CASE SetsPreviousAside(w)
    <2>1. /\ Holds(w) /\ Settled /\ writer[w].pc = "stash"
          /\ UNCHANGED <<row, ops, package, litter>>
      BY <1>1, <1>2, <1>6 DEF SetsPreviousAside, Placed
    <2>2. row # None
      BY <2>1 DEF Holds
    <2>3. writer'[w].pc = "move" /\ writer'[w].stash = previous
      BY <1>6, AsideEffect DEF Becomes
    <2> QED BY <1>2, <2>1, <2>2, <2>3 DEF Placed, Settled, Backed
  <1>7. CASE MovesCurrent(w)
    <2>1. /\ Holds(w) /\ writer[w].pc = "move" /\ UNCHANGED <<row, ops, litter>>
          /\ previous' = package
      BY <1>1, <1>7 DEF MovesCurrent
    <2>2. writer[w].kind = "update" /\ package = row.ver /\ Backed(writer[w].stash)
      BY <1>2, <2>1 DEF Holds, Placed
    <2>3. /\ writer'[w].pc = "place" /\ writer'[w].stash = writer[w].stash
          /\ writer'[w].kind = writer[w].kind
      BY <1>7, MovesEffect DEF Becomes
    <2> QED BY <1>2, <2>1, <2>2, <2>3 DEF Placed, Backed
  <1>8. CASE Places(w)
    <2>1. /\ Holds(w) /\ writer[w].pc = "place" /\ UNCHANGED <<row, ops, previous, litter>>
      BY <1>1, <1>8 DEF Places
    <2>2. /\ writer'[w].pc = "rows" /\ writer'[w].stash = writer[w].stash
          /\ writer'[w].kind = writer[w].kind /\ writer'[w].fresh = writer[w].fresh
      BY <1>8, GoEffect DEF Places, Becomes
    <2> QED BY <1>2, <2>1, <2>2 DEF Placed, Backed
  <1>9. CASE Commits(w)
    <2>1. /\ Holds(w) /\ writer[w].pc = "rows" /\ UNCHANGED <<package, previous, litter>>
          /\ row' = [ver |-> writer[w].ver, enabled |-> writer[w].enabled]
          /\ ops' = ops \cup {writer[w].ver}
      BY <1>1, <1>9 DEF Commits
    <2>2. row' # None /\ writer'[w].pc = "clean"
      <3>1. row' \in Rows
        BY <2>1 DEF RegistryTypeOK, Rows, Locals
      <3> QED BY <1>9, <3>1, GoEffect, RegistryAssumption DEF Commits, Becomes, Rows
    <2>3. package' = row'.ver
      BY <2>1 DEF Holds
    <2>4. previous' \in ops' \cup {None} /\ ((\E u \in ops' : u # row'.ver) => previous' \in ops')
      <3>1. CASE writer[w].kind = "update"
        BY <1>2, <2>1, <3>1 DEF Placed, Holds, Registered
      <3>2. CASE writer[w].kind = "create"
        BY <1>2, <2>1, <3>2 DEF Placed, Holds, Registered
      <3> QED BY <2>1, <3>1, <3>2 DEF RegistryTypeOK, Locals
    <2> QED BY <1>2, <2>1, <2>2, <2>3, <2>4 DEF Placed, Settled, Backed
  <1>10. CASE Cleans(w)
    <2>1. /\ Settled /\ UNCHANGED <<row, ops, package, previous, memory, litter>>
      BY <1>2, <1>10 DEF Cleans, Placed
    <2>2. Settled' /\ writer'[w].pc = "idle"
      BY <1>10, <2>1, SettledKept, ReturnEffect DEF Cleans, Ends, Idle
    <2> QED BY <1>2, <2>1, <2>2 DEF Placed
  <1>11. CASE Fails(w)
    <2>1. /\ Holds(w) /\ writer[w].pc \in {"stash", "move", "place", "rows"}
          /\ UNCHANGED <<row, ops, package, previous, litter>>
      BY <1>1, <1>11 DEF Fails
    <2>2. CASE writer[w].kind = "create"
      <3>1. /\ writer'[w].pc = "undoNew" /\ writer'[w].fresh = writer[w].fresh
        BY <1>11, <2>2, GoEffect DEF Fails, Becomes
      <3>2. writer[w].fresh /\ previous = None
        BY <1>2, <2>1, <2>2 DEF Placed, Holds
      <3> QED BY <1>2, <2>1, <3>1, <3>2 DEF Placed
    <2>3. CASE writer[w].kind = "update"
      <3>1. /\ writer'[w].pc = "undo" /\ writer'[w].moved = writer[w].moved
            /\ writer'[w].stash = writer[w].stash
        BY <1>11, <2>3, GoEffect DEF Fails, Becomes
      <3>2. CASE writer[w].pc \in {"place", "rows"}
        BY <1>2, <2>1, <2>3, <3>1, <3>2 DEF Placed, Holds, Backed
      <3>3. CASE writer[w].pc = "move"
        BY <1>2, <2>1, <3>1, <3>3 DEF Placed, Holds, Backed
      <3>4. CASE writer[w].pc = "stash"
        <4>1. /\ writer[w].stash = None /\ ~writer[w].moved /\ package = row.ver
              /\ Backed(previous)
          BY <1>2, <2>1, <3>4 DEF Placed, Holds, Settled
        <4> QED BY <1>2, <2>1, <3>1, <4>1 DEF Placed, Backed
      <3> QED BY <2>1, <3>2, <3>3, <3>4
    <2> QED BY <2>1, <2>2, <2>3 DEF RegistryTypeOK, Locals
  <1>12. CASE UndoesNew(w)
    <2>1. Holds(w) /\ writer[w].pc = "undoNew" /\ UNCHANGED <<row, ops, litter>>
      BY <1>1, <1>12 DEF UndoesNew
    <2>2. row = None /\ writer[w].fresh
      BY <1>2, <2>1 DEF Holds, Placed
    <2>3. package' = None /\ memory' = None /\ previous' = None
      BY <1>12, <2>2 DEF UndoesNew
    <2>4. writer'[w].pc = "idle"
      BY <1>12, ReturnEffect DEF UndoesNew, Ends, Idle
    <2> QED BY <1>2, <2>1, <2>2, <2>3, <2>4 DEF Placed, Settled
  <1>13. CASE Undoes(w)
    <2>1. Holds(w) /\ writer[w].pc = "undo" /\ UNCHANGED <<row, ops>>
      BY <1>1, <1>13 DEF Undoes
    <2>2. row # None
      BY <2>1 DEF Holds
    <2>3. writer'[w].pc = "idle"
      BY <1>13, ReturnEffect DEF Undoes, Ends, Idle
    <2>4. CASE writer[w].moved
      <3>1. package' = previous /\ previous' = writer[w].stash /\ litter' = litter
        BY <1>13, <2>4 DEF Undoes
      <3> QED BY <1>2, <2>1, <2>2, <2>3, <2>4, <3>1 DEF Placed, Settled, Backed
    <2>5. CASE ~writer[w].moved
      <3>1. package # None /\ (previous = None \/ writer[w].stash = None)
        BY <2>1, <2>5 DEF Holds
      <3>2. /\ package' = package /\ litter' = litter
            /\ previous' = IF previous = None THEN writer[w].stash ELSE previous
        BY <1>13, <2>5, <3>1 DEF Undoes
      <3> QED BY <1>2, <2>1, <2>2, <2>3, <2>5, <3>2 DEF Placed, Settled, Backed
    <2> QED BY <2>4, <2>5
  <1> QED BY <1>4, <1>5, <1>6, <1>7, <1>8, <1>9, <1>10, <1>11, <1>12, <1>13 DEF Works

\* Unless a process died or processes overlap, every version is where it belongs.
LEMMA UndisturbedStep ==
  ASSUME RegistryTypeOK, Registered, ~raced => Alone, ~raced /\ crashes = 0 => Undisturbed,
         (\E w \in Writers : Works(w)) \/ Uses, ~raced', crashes' = 0
  PROVE  Undisturbed'
  <1>1. ~raced
    BY RacedStays
  <1>2. crashes \in Nat
    BY RegistryAssumption DEF RegistryTypeOK
  <1>3. ASSUME NEW w \in Writers, Works(w)
        PROVE  Undisturbed'
    <2>1. ~Dies(w)
      BY <1>2 DEF Dies
    <2>2. crashes = 0
      BY <1>3, <2>1 DEF Works, Stages, Validates, SetsPreviousAside, MovesCurrent, Places, Commits,
         Cleans, Fails, UndoesNew, Undoes
    <2>3. litter' = {} /\ (At(w, "idle")' => Settled') /\ Placed(w)'
      BY <1>1, <1>3, <2>1, <2>2, PlacedStep
    <2>4. \A u \in Writers \ {w} : Placed(u)'
      BY <1>3, OthersIdle DEF Placed, At
    <2> QED BY <2>3, <2>4 DEF Undisturbed, Quiet
  <1>4. CASE Uses
    <2>1. UNCHANGED <<ops, package, previous, litter, writer, crashes>>
      BY <1>4, UsesEffect
    <2>2. Undisturbed
      BY <1>1, <2>1
    <2>3. \/ UNCHANGED <<row, memory>>
          \/ row # None /\ row' # None /\ row'.ver = row.ver
      <3>1. CASE _set_enabled
        BY <3>1 DEF _set_enabled, Registered
      <3>2. CASE ~_set_enabled
        BY <1>4, <3>2 DEF Uses, OperatorReads, load_skill, ReadsPackage, execute_skill,
           run_skill_script, append_skill_memory, files
      <3> QED BY <3>1, <3>2
    <2>4. Settled => Settled'
      BY <2>1, <2>3, SettledKept
    <2>5. ASSUME NEW w \in Writers PROVE Placed(w)'
      <3>1. Placed(w) /\ row'.ver = row.ver
        BY <2>2, <2>3 DEF Undisturbed
      <3> QED BY <2>1, <2>4, <3>1 DEF Placed, Backed
    <2> QED BY <2>1, <2>2, <2>4, <2>5 DEF Undisturbed, Quiet, At
  <1> QED BY <1>3, <1>4

\* RegistryInv, and what the agent was last given and last ran.
FullInv == RegistryInv /\ GivenWasRegistered /\ OnlyValidatedRuns

\* An empty registry.
LEMMA InitFull == Init => FullInv
  <1> SUFFICES ASSUME Init PROVE FullInv
    OBVIOUS
  <1>1. Idle \in Locals /\ Idle.pc = "idle" /\ Idle.stash = None
    BY DEF Idle, Locals
  <1>2. \A w \in Writers : writer[w] = Idle
    BY DEF Init
  <1>3. RegistryTypeOK
    <2>1. agent \in [pc : {"idle", "load", "script"}, row : Rows \cup {None}, loaded : BOOLEAN]
      BY DEF Init, NoAgent
    <2>2. writer \in [Writers -> Locals]
      BY <1>1 DEF Init
    <2>3. \A w \in Writers : At(w, "idle") /\ writer[w] = Idle
      BY <1>1, <1>2 DEF At
    <2>4. again \in BOOLEAN /\ disabled \in BOOLEAN /\ raced \in BOOLEAN
      BY Zenon DEF Init
    <2>5. crashes \in 0 .. MaxCrashes
      BY RegistryAssumption DEF Init
    <2> QED BY <2>1, <2>2, <2>3, <2>4, <2>5 DEF Init, RegistryTypeOK
  <1>4. Registered
    BY DEF Init, Registered, NoAgent
  <1>5. Validated /\ NeverLost
    BY <1>1, <1>2 DEF Init, Validated, NeverLost
  <1>6. IsInjective(Lessons)
    BY DEF Init, Lessons, IsInjective
  <1>7. ~again /\ Alone
    BY <1>1, <1>2 DEF Init, Alone, At
  <1>8. Undisturbed
    BY <1>1, <1>2 DEF Init, Undisturbed, Settled, Placed
  <1>9. GivenWasRegistered /\ OnlyValidatedRuns
    <2>1. last = None /\ \A v \in Versions : None # <<"given", v>> /\ None # <<"ran", v>>
      BY RegistryAssumption DEF Init
    <2> QED BY <2>1 DEF GivenWasRegistered, OnlyValidatedRuns
  <1> QED BY <1>3, <1>4, <1>5, <1>6, <1>7, <1>8, <1>9 DEF FullInv, RegistryInv

\* The next-state relation, split into the processes and the others.
LEMMA NextSplit == Next => (\E w \in Writers : Works(w)) \/ Uses
  BY DEF Next, Works, Uses

\* The invariant is inductive.
LEMMA FullStep == FullInv /\ [Next]_vars => FullInv'
  <1>1. ASSUME FullInv, Next
        PROVE  FullInv'
    <2>1. (\E w \in Writers : Works(w)) \/ Uses
      BY <1>1, NextSplit
    <2>2. /\ RegistryTypeOK /\ Registered /\ Validated /\ NeverLost /\ IsInjective(Lessons)
          /\ (~raced => ~again /\ Alone) /\ (~raced /\ crashes = 0 => Undisturbed)
          /\ GivenWasRegistered /\ OnlyValidatedRuns
      BY <1>1 DEF FullInv, RegistryInv
    <2>3. RegistryTypeOK'
      BY <2>1, <2>2, WorksType, UsesType
    <2>4. Registered' /\ Validated' /\ GivenWasRegistered' /\ OnlyValidatedRuns'
      BY <2>1, <2>2, RegisteredStep, ValidatedStep, LastStep
    <2>5. IsInjective(Lessons)'
      BY <2>1, <2>2, LessonsStep
    <2>6. ~raced' => ~again' /\ Alone'
      BY <2>1, <2>2, AloneStep
    <2>7. ~raced' /\ crashes' = 0 => Undisturbed'
      BY <2>1, <2>2, UndisturbedStep
    <2>8. NeverLost'
      BY <2>1, <2>2, LostStep DEF NeverLost
    <2> QED BY <2>3, <2>4, <2>5, <2>6, <2>7, <2>8 DEF FullInv, RegistryInv
  <1>2. ASSUME FullInv, UNCHANGED vars
        PROVE  FullInv'
    BY <1>2 DEF FullInv, RegistryInv, vars, files, history, RegistryTypeOK, Registered, Validated,
       NeverLost, Lessons, IsInjective, Alone, Holds, Undisturbed, Settled, Backed, Placed, Quiet,
       At, GivenWasRegistered, OnlyValidatedRuns
  <1> QED BY <1>1, <1>2

\* The invariant, with its two companions, holds in every behaviour.
LEMMA AlwaysFull == Spec => []FullInv
  BY InitFull, FullStep, PTL DEF Spec

\* SkillRegistry.RegistryInv holds in every behaviour, for any number of learning
\* processes: among others, the registered version is never lost.
THEOREM RegistryCorrect == Spec => []RegistryInv
  <1>1. FullInv => RegistryInv
    BY DEF FullInv
  <1> QED BY <1>1, AlwaysFull, PTL

\* SkillRegistry.InstalledOnce: a replayed decision installs its version once.
THEOREM OperationsInstallOnce == Spec => []InstalledOnce
  <1>1. RegistryInv => InstalledOnce
    BY DEF RegistryInv, InstalledOnce
  <1> QED BY <1>1, RegistryCorrect, PTL

\* Two recorded operations include one that the row is not about.
LEMMA SecondOperation ==
  ASSUME NEW S, NEW x, Cardinality(S) >= 2
  PROVE  \E u \in S : u # x
  <1> SUFFICES ASSUME \A u \in S : u = x PROVE FALSE
    OBVIOUS
  <1>1. IsFiniteSet({x}) /\ Cardinality({x}) = 1
    BY FS_Singleton
  <1>2. S \in SUBSET {x}
    OBVIOUS
  <1>3. Cardinality(S) <= 1 /\ Cardinality(S) \in Nat
    BY <1>1, <1>2, FS_Subset, FS_CardinalityType
  <1> QED BY <1>3

\* SkillRegistry.CleanWhenIdle: whatever failed on the way, package and row agree and the
\* backup is there.
THEOREM IdleRegistryIsClean == Spec => []CleanWhenIdle
  <1>1. ASSUME RegistryInv PROVE CleanWhenIdle
    <2> SUFFICES ASSUME Quiet, crashes = 0, ~raced
                 PROVE  /\ row = None => package = None /\ memory = None
                        /\ row # None => package = row.ver /\ litter = {}
                        /\ Cardinality(ops) >= 2 => previous \in ops
      BY DEF CleanWhenIdle
    <2>1. litter = {} /\ Settled /\ Registered
      BY <1>1 DEF RegistryInv, Undisturbed
    <2>2. Cardinality(ops) >= 2 => previous \in ops
      <3> SUFFICES ASSUME Cardinality(ops) >= 2 PROVE previous \in ops
        OBVIOUS
      <3>1. \E u \in ops : u # row.ver
        BY SecondOperation
      <3>2. row # None
        BY <2>1, <3>1 DEF Registered
      <3> QED BY <2>1, <3>1, <3>2 DEF Settled, Backed
    <2> QED BY <2>1, <2>2 DEF Settled
  <1> QED BY <1>1, RegistryCorrect, PTL

\* SkillRegistry.GivenWasRegistered: an agent reads registered versions only.
THEOREM AgentsReadRegistered == Spec => []GivenWasRegistered
  <1>1. FullInv => GivenWasRegistered
    BY DEF FullInv
  <1> QED BY <1>1, AlwaysFull, PTL

\* SkillRegistry.OnlyValidatedRuns: an agent runs validated content only.
THEOREM AgentsRunValidated == Spec => []OnlyValidatedRuns
  <1>1. FullInv => OnlyValidatedRuns
    BY DEF FullInv
  <1> QED BY <1>1, AlwaysFull, PTL

\* SkillRegistry.LessonsKeptOnce: unless processes overlap, no step loses a lesson or
\* writes one twice.
THEOREM LessonsAreKept == Spec => LessonsKeptOnce
  <1>1. ASSUME RegistryInv, [Next]_vars
        PROVE  [~raced' => IsPrefix(Lessons, Lessons') /\ IsInjective(Lessons')]_vars
    <2>1. CASE UNCHANGED vars
      BY <2>1
    <2>2. CASE Next
      <3>1. (\E w \in Writers : Works(w)) \/ Uses
        BY <2>2, NextSplit
      <3>2. RegistryTypeOK /\ IsInjective(Lessons) /\ (~raced => Alone)
        BY <1>1 DEF RegistryInv
      <3>3. IsInjective(Lessons)' /\ (~raced' => IsPrefix(Lessons, Lessons'))
        BY <3>1, <3>2, LessonsStep
      <3> QED BY <3>3 DEF IsInjective
    <2> QED BY <1>1, <2>1, <2>2
  <1> QED BY <1>1, RegistryCorrect, PTL DEF Spec, LessonsKeptOnce
=============================================================================
