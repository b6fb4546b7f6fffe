------------------------------ MODULE Outcome ------------------------------
(***************************************************************************)
(* What a finished run leaves behind (graph/outcome.py): the terminal      *)
(* status, an episode, skill statistics, a long-term fact                  *)
(* (memory/consolidation.py, memory/store.py), a mined skill and skill     *)
(* lessons.  Several runs finish over shared stores.  The node that does   *)
(* this may die after any store call and is then replayed from its start;  *)
(* the ledgers of the two stores make the replay skip what is done.        *)
(*                                                                         *)
(* Benchmark runs defer: learning starts once the official evaluator has   *)
(* spoken (cli.py).  Their process is not resumed, but a resumed campaign  *)
(* tries an unrecorded or failed task again under the same run id and over *)
(* the same stores, and that try may end in another way.  Installing a     *)
(* skill is one step here; SkillRegistry takes it apart.                   *)
(***************************************************************************)
EXTENDS Naturals, Sequences, FiniteSets, Functions, SequencesExt

CONSTANTS
    Runs,         \* runs that finish
    Kinds,        \* how a run may have ended
    Facts,        \* contents of long-term facts, up to normalisation
    MaxTroubles,  \* deaths, failing calls and tasks tried again, together (bound)
    None

Classes == {"repair", "model", "budget", "policy", "infrastructure"}

\* graph: the graph's own result; class: its failure class; official: what the
\* evaluator will say of a deferred run; used: a skill was used; scriptFailed:
\* its script failed; patch, verified, attempt: what the state holds.
KindType ==
    [graph : {"success", "failed"}, class : Classes \cup {None}, defer : BOOLEAN,
     official : {"passed", "failed", "unavailable"}, used : BOOLEAN,
     scriptFailed : BOOLEAN, patch : BOOLEAN, verified : BOOLEAN, attempt : BOOLEAN]

ASSUME OutcomeAssumption ==
    /\ Kinds \subseteq {k \in KindType : (k.graph = "success") = (k.class = None)}
    /\ MaxTroubles \in Nat
    /\ None \notin Facts /\ "none" \notin Facts /\ None \notin Classes
    /\ None \notin {"none", "skill", "success", "failed", "failure"}
    /\ None \notin [success : BOOLEAN, class : Classes \cup {None}]

VARIABLES
    kind,       \* run -> how its current try ended
    past,       \* run -> judgements of its earlier tries (history)
    pc,         \* run -> next step of finalize/failed and persist_run_outcome
    verdict,    \* run -> [success, class] that persist_run_outcome was given
    status,     \* run store and terminal event
    episodes,   \* run -> episode, or None
    ledger,     \* run -> applied_operations of both stores
    uses,       \* skill_stats: use_count, success_count
    facts,      \* fact -> source_run_ids
    skills,     \* mined packages: the runs that installed one
    lessons,    \* memory.md of the used skill
    local,      \* run -> candidate, decision and learning_errors in memory; dropped:
                \* its lesson was given up in silence (history)
    troubles

stores == <<status, episodes, ledger, uses, facts, skills, lessons>>
vars == <<kind, past, pc, verdict, stores, local, troubles>>

\* use: what was counted (the ledger's row says only that something was)
NoOps == [memDecision |-> None, memCommit |-> None, use |-> None,
          mineDecision |-> None, skill |-> FALSE]
NoLocal == [candidate |-> None, decision |-> None, errors |-> {}, dropped |-> FALSE]

Init ==
    /\ kind \in [Runs -> Kinds]
    /\ past = [r \in Runs |-> {}]
    /\ pc = [r \in Runs |-> "end"]
    /\ verdict = [r \in Runs |-> None]
    /\ status = [r \in Runs |-> None]
    /\ episodes = [r \in Runs |-> None]
    /\ ledger = [r \in Runs |-> NoOps]
    /\ uses = [count |-> 0, success |-> 0]
    /\ facts = [f \in Facts |-> {}]
    /\ skills = {} /\ lessons = <<>>
    /\ local = [r \in Runs |-> NoLocal]
    /\ troubles = 0

Go(r, step) == pc' = [pc EXCEPT ![r] = step]

Trouble == troubles < MaxTroubles /\ troubles' = troubles + 1

\* learning_error: recorded, and the work goes on with the next stage.
learning_error(r, stage, step) ==
    /\ Trouble
    /\ local' = [local EXCEPT ![r].errors = @ \cup {stage}]
    /\ Go(r, step)

\* What a stage of persist_run_outcome goes by: how the try ended and the verdict
\* that was given.
Now(r) == [kind |-> kind[r], verdict |-> verdict[r]]
Ok(j) == j.verdict.success
Class(j) == j.verdict.class

(***************************************************************************)
(* finalize, failed and the benchmark driver                               *)
(***************************************************************************)
Given(r, success, class) ==
    /\ verdict' = [verdict EXCEPT ![r] = [success |-> success, class |-> class]]
    /\ Go(r, "terminal")

\* A deferring runtime leaves a success and an infrastructure failure to the
\* driver; everything else is persisted by the node.
Ends(r) ==
    LET k == kind[r]
    IN  /\ pc[r] = "end"
        /\ IF k.defer /\ (k.graph = "success" \/ k.class = "infrastructure")
           THEN Go(r, "awaiting") /\ UNCHANGED verdict
           ELSE Given(r, k.graph = "success", k.class)
        /\ UNCHANGED <<kind, past, stores, local, troubles>>

\* mutant: the graph's own verdict is enough
official_learning_verdictTrusts(r) ==
    /\ pc[r] = "awaiting"
    /\ Given(r, kind[r].graph = "success", kind[r].class)
    /\ UNCHANGED <<kind, past, stores, local, troubles>>

\* The official evaluator is the authority for deferred learning.
official_learning_verdict(r) ==
    LET o == kind[r].official
    IN  /\ pc[r] = "awaiting"
        /\ Given(r, o = "passed", CASE o = "passed" -> None
                                    [] o = "failed" -> "repair"
                                    [] o = "unavailable" -> "infrastructure")
        /\ UNCHANGED <<kind, past, stores, local, troubles>>

(***************************************************************************)
(* persist_run_outcome, store call by store call                           *)
(***************************************************************************)
Final(j) == IF Ok(j) THEN "success" ELSE "failed"

\* The terminal event and the run's status, which a rerun overwrites.
Terminal(r) ==
    /\ pc[r] = "terminal"
    /\ status' = [status EXCEPT ![r] = Final(Now(r))]
    /\ Go(r, "episode")
    /\ UNCHANGED <<kind, past, verdict, episodes, ledger, uses, facts, skills, lessons, local,
                   troubles>>

should_persist_episode(j) ==
    CASE Ok(j) -> TRUE
      [] Class(j) = "model" -> j.kind.patch /\ j.kind.verified
      [] Class(j) = "infrastructure" -> FALSE
      [] Class(j) = "budget" -> j.kind.attempt
      [] Class(j) = "policy" -> j.kind.patch
      [] Class(j) = "repair" -> TRUE

\* INSERT OR IGNORE on the run: the first episode stays.
add_episode(r) ==
    /\ pc[r] = "episode"
    /\ episodes' = IF should_persist_episode(Now(r)) /\ episodes[r] = None
                   THEN [episodes EXCEPT ![r] = verdict[r]] ELSE episodes
    /\ Go(r, "uses")
    /\ UNCHANGED <<kind, past, verdict, status, ledger, uses, facts, skills, lessons, local,
                   troubles>>

\* An episode that cannot be written ends the node with an exception.
EpisodeFails(r) ==
    /\ pc[r] = "episode" /\ should_persist_episode(Now(r))
    /\ learning_error(r, "episode", IF kind[r].defer THEN "abandoned" ELSE "down")
    /\ UNCHANGED <<kind, past, verdict, stores>>

CountsUse(j) == j.kind.used /\ Class(j) \notin {"infrastructure", "model", "budget"}
UseSucceeded(j) == Ok(j) /\ ~j.kind.scriptFailed
UseOutcome(j) == IF UseSucceeded(j) THEN "success" ELSE "failure"

\* Statistics and ledger entry in one transaction.
record_use(r) ==
    /\ pc[r] = "uses" /\ CountsUse(Now(r))
    /\ IF ledger[r].use # None THEN UNCHANGED <<uses, ledger>>
       ELSE LET o == UseOutcome(Now(r))
            IN  /\ uses' = [count |-> uses.count + 1,
                            success |-> uses.success + IF o = "success" THEN 1 ELSE 0]
                /\ ledger' = [ledger EXCEPT ![r].use = o]
    /\ Go(r, "memAsk")
    /\ UNCHANGED <<kind, past, verdict, status, episodes, facts, skills, lessons, local, troubles>>

UseFails(r) ==
    /\ pc[r] = "uses" /\ CountsUse(Now(r))
    /\ learning_error(r, "use", "memAsk")
    /\ UNCHANGED <<kind, past, verdict, stores>>

NoUse(r) ==
    /\ pc[r] = "uses" /\ ~CountsUse(Now(r))
    /\ Go(r, "memAsk")
    /\ UNCHANGED <<kind, past, verdict, stores, local, troubles>>

\* Only a verified success is consolidated.
Consolidated(j) == Ok(j) /\ j.kind.verified

\* mutant: a recorded decision is taken to be carried out
ConsolidatesOnce(r) ==
    /\ pc[r] = "memAsk"
    /\ IF Consolidated(Now(r)) /\ ledger[r].memDecision = None
       THEN Go(r, "memAsked") ELSE Go(r, "mine")
    /\ UNCHANGED <<kind, past, verdict, stores, local, troubles>>

\* mutant: the model is asked on every replay
ConsolidatesAnew(r) ==
    /\ pc[r] = "memAsk"
    /\ IF Consolidated(Now(r)) THEN Go(r, "memAsked") ELSE Go(r, "mine")
    /\ UNCHANGED <<kind, past, verdict, stores, local, troubles>>

\* A recorded decision is used again.
Consolidates(r) ==
    /\ pc[r] = "memAsk"
    /\ LET old == ledger[r].memDecision
       IN  IF ~Consolidated(Now(r)) THEN Go(r, "mine") /\ UNCHANGED local
           ELSE IF old = None THEN Go(r, "memAsked") /\ UNCHANGED local
           ELSE Go(r, "memCommit") /\ local' = [local EXCEPT ![r].candidate = old]
    /\ UNCHANGED <<kind, past, verdict, stores, troubles>>

\* The answer, a fact or none, is recorded before it is acted on.
propose(r) ==
    /\ pc[r] = "memAsked"
    /\ \E c \in Facts \cup {"none"} :
         /\ ledger' = [ledger EXCEPT ![r].memDecision = IF @ = None THEN c ELSE @]
         /\ local' = [local EXCEPT ![r].candidate = c]
    /\ Go(r, "memCommit")
    /\ UNCHANGED <<kind, past, verdict, status, episodes, uses, facts, skills, lessons, troubles>>

\* mutant: a merge keeps the newest source only
commit_candidateReplaces(r) ==
    LET c == local[r].candidate
        done == ledger[r].memCommit # None
    IN  /\ pc[r] = "memCommit"
        /\ facts' = IF done \/ c \notin Facts THEN facts ELSE [facts EXCEPT ![c] = {r}]
        /\ ledger' = IF done THEN ledger ELSE [ledger EXCEPT ![r].memCommit = c]
        /\ Go(r, "mine")
        /\ UNCHANGED <<kind, past, verdict, status, episodes, uses, skills, lessons, local, troubles>>

\* commit_candidate and add_long_term: one transaction merges the source runs of
\* equal facts and writes the ledger entry.
commit_candidate(r) ==
    LET c == local[r].candidate
        done == ledger[r].memCommit # None
    IN  /\ pc[r] = "memCommit"
        /\ facts' = IF done \/ c \notin Facts THEN facts
                    ELSE [facts EXCEPT ![c] = @ \cup {r}]
        /\ ledger' = IF done THEN ledger ELSE [ledger EXCEPT ![r].memCommit = c]
        /\ Go(r, "mine")
        /\ UNCHANGED <<kind, past, verdict, status, episodes, uses, skills, lessons, local, troubles>>

MemoryFails(r) ==
    /\ pc[r] \in {"memAsked", "memCommit"}
    /\ learning_error(r, "memory", "mine")
    /\ UNCHANGED <<kind, past, verdict, stores>>

\* Every success is mined, and a failed repair that used a skill.
should_mine(j) ==
    /\ Class(j) \notin {"infrastructure", "model", "budget"}
    /\ Ok(j) \/ (Class(j) = "repair" /\ j.kind.used)

Mines(r) ==
    /\ pc[r] = "mine"
    /\ LET old == ledger[r].mineDecision
       IN  IF ~should_mine(Now(r)) THEN Go(r, "lessons") /\ UNCHANGED local
           ELSE IF old = None THEN Go(r, "mineAsked") /\ UNCHANGED local
           ELSE Go(r, "skill") /\ local' = [local EXCEPT ![r].decision = old]
    /\ UNCHANGED <<kind, past, verdict, stores, troubles>>

decide(r) ==
    /\ pc[r] = "mineAsked"
    /\ \E d \in {"none", "skill"} :
         /\ ledger' = [ledger EXCEPT ![r].mineDecision = d]
         /\ local' = [local EXCEPT ![r].decision = d]
    /\ Go(r, "skill")
    /\ UNCHANGED <<kind, past, verdict, status, episodes, uses, facts, skills, lessons, troubles>>

\* mutant: a decision for nothing is asked for again
InstallsOrAsks(r) ==
    /\ pc[r] = "skill"
    /\ LET due == Ok(Now(r)) /\ local[r].decision = "skill" /\ ~ledger[r].skill
       IN  /\ skills' = IF due THEN skills \cup {r} ELSE skills
           /\ ledger' = IF due THEN [ledger EXCEPT ![r].skill = TRUE] ELSE ledger
    /\ Go(r, IF local[r].decision = "none" THEN "mine" ELSE "lessons")
    /\ UNCHANGED <<kind, past, verdict, status, episodes, uses, facts, lessons, local, troubles>>

\* A successful run's new or updated skill, once per run.
Installs(r) ==
    /\ pc[r] = "skill"
    /\ LET due == Ok(Now(r)) /\ local[r].decision = "skill" /\ ~ledger[r].skill
       IN  /\ skills' = IF due THEN skills \cup {r} ELSE skills
           /\ ledger' = IF due THEN [ledger EXCEPT ![r].skill = TRUE] ELSE ledger
    /\ Go(r, "lessons")
    /\ UNCHANGED <<kind, past, verdict, status, episodes, uses, facts, lessons, local, troubles>>

MiningFails(r) ==
    /\ \/ pc[r] = "mineAsked"
       \/ pc[r] = "skill" /\ Ok(Now(r)) /\ local[r].decision = "skill"
    /\ learning_error(r, "mining", "lessons")
    /\ UNCHANGED <<kind, past, verdict, stores>>

WritesLesson(j) ==
    /\ j.kind.used /\ Class(j) \notin {"infrastructure", "model"}
    /\ Ok(j) \/ Class(j) = "repair"

\* What the lesson says: a failed script is a failure even in a success.
AppendsLesson(r) ==
    LET lesson == [run |-> r, outcome |-> UseOutcome(Now(r))]
    IN  /\ pc[r] = "lessons"
        /\ lessons' = IF WritesLesson(Now(r)) /\ ~\E i \in DOMAIN lessons : lessons[i].run = r
                      THEN Append(lessons, lesson) ELSE lessons
        /\ Go(r, "returned")
        /\ UNCHANGED <<kind, past, verdict, status, episodes, ledger, uses, facts, skills, local,
                       troubles>>

\* append_skill_memory returns False when the package directory is away (an update is
\* moving it, or died while it did), and nobody looks at its answer.
DropsLesson(r) ==
    /\ pc[r] = "lessons" /\ WritesLesson(Now(r))
    /\ Trouble
    /\ local' = [local EXCEPT ![r].dropped = TRUE]
    /\ Go(r, "returned")
    /\ UNCHANGED <<kind, past, verdict, stores>>

LessonFails(r) ==
    /\ pc[r] = "lessons" /\ WritesLesson(Now(r))
    /\ learning_error(r, "lesson", "returned")
    /\ UNCHANGED <<kind, past, verdict, stores>>

\* The process dies or the run is cancelled.
Dies(r) ==
    /\ pc[r] \notin {"down", "abandoned", "returned"}
    /\ Trouble
    /\ Go(r, IF kind[r].defer THEN "abandoned" ELSE "down")
    /\ UNCHANGED <<kind, past, verdict, stores, local>>

\* The resumed run replays the node from the same state.
Replays(r) ==
    /\ pc[r] = "down"
    /\ Go(r, "end")
    /\ local' = [local EXCEPT ![r] = NoLocal]
    /\ UNCHANGED <<kind, past, verdict, stores, troubles>>

\* The verdicts given under a run id, that of the current try among them.
Judgements(r) == past[r] \cup IF verdict[r] = None THEN {} ELSE {Now(r)}

\* A resumed campaign tries the task again, under the id and over the stores of the
\* try that died, failed, or returned without a recorded result.  The try may end
\* in another way; its trajectory still holds the skill events of the earlier one.
Reruns(r) ==
    /\ pc[r] \in {"abandoned", "returned"} /\ kind[r].defer
    /\ Trouble
    /\ \E k \in Kinds :
         /\ k.defer /\ (kind[r].used => k.used) /\ (kind[r].scriptFailed => k.scriptFailed)
         /\ kind' = [kind EXCEPT ![r] = k]
    /\ past' = [past EXCEPT ![r] = Judgements(r)]
    /\ verdict' = [verdict EXCEPT ![r] = None]
    /\ local' = [local EXCEPT ![r] = NoLocal]
    /\ Go(r, "end")
    /\ UNCHANGED stores

Step(r) ==
    \/ Ends(r) \/ official_learning_verdict(r) \/ Terminal(r)
    \/ add_episode(r) \/ EpisodeFails(r)
    \/ record_use(r) \/ UseFails(r) \/ NoUse(r)
    \/ Consolidates(r) \/ propose(r) \/ commit_candidate(r) \/ MemoryFails(r)
    \/ Mines(r) \/ decide(r) \/ Installs(r) \/ MiningFails(r)
    \/ AppendsLesson(r) \/ DropsLesson(r) \/ LessonFails(r) \/ Replays(r)

Over == /\ \A r \in Runs : pc[r] \in {"returned", "abandoned"}
        /\ UNCHANGED vars

Next == (\E r \in Runs : Step(r) \/ Dies(r) \/ Reruns(r)) \/ Over

Spec == Init /\ [][Next]_vars

\* While a run can go on, or be resumed, some run does.
FairSpec == Spec /\ WF_vars(\E r \in Runs : Step(r))

(***************************************************************************)
(* Properties                                                              *)
(***************************************************************************)
Verdicts == [success : BOOLEAN, class : Classes \cup {None}]
Ledgers == [memDecision : Facts \cup {"none", None}, memCommit : Facts \cup {"none", None},
            use : {"success", "failure", None}, mineDecision : {"none", "skill", None},
            skill : BOOLEAN]
Locals == [candidate : Facts \cup {"none", None}, decision : {"none", "skill", None},
           errors : SUBSET {"episode", "use", "memory", "mining", "lesson"}, dropped : BOOLEAN]

\* Every variable has its type.
OutcomeTypeOK ==
    /\ kind \in [Runs -> Kinds]
    /\ past \in [Runs -> SUBSET [kind : Kinds, verdict : Verdicts]]
    /\ pc \in [Runs -> {"end", "awaiting", "terminal", "episode", "uses", "memAsk", "memAsked",
                        "memCommit", "mine", "mineAsked", "skill", "lessons", "returned",
                        "down", "abandoned"}]
    /\ verdict \in [Runs -> Verdicts \cup {None}] /\ episodes \in [Runs -> Verdicts \cup {None}]
    /\ status \in [Runs -> {"success", "failed", None}]
    /\ ledger \in [Runs -> Ledgers] /\ local \in [Runs -> Locals]
    /\ uses \in [count : Nat, success : Nat]
    /\ facts \in [Facts -> SUBSET Runs] /\ skills \in SUBSET Runs
    /\ lessons \in Seq([run : Runs, outcome : {"success", "failure"}])
    /\ troubles \in 0..MaxTroubles

\* The ledgers tell the truth: what they call done is in the stores, once, however
\* often the node was replayed or the task tried again, and whatever the other runs
\* wrote meanwhile.
LedgerMatchesStores ==
    /\ uses.count = Cardinality({r \in Runs : ledger[r].use # None})
    /\ uses.success = Cardinality({r \in Runs : ledger[r].use = "success"})
    /\ \A f \in Facts : facts[f] = {r \in Runs : ledger[r].memCommit = f}
    /\ skills = {r \in Runs : ledger[r].skill}
    /\ \A i, j \in DOMAIN lessons : lessons[i].run = lessons[j].run => i = j

\* Whether the official evaluator judges such a run, and the verdict it ends with.
Deferred(k) == k.defer /\ (k.graph = "success" \/ k.class = "infrastructure")
VerdictOf(k) ==
    IF Deferred(k)
    THEN [success |-> k.official = "passed",
          class |-> CASE k.official = "passed" -> None
                      [] k.official = "failed" -> "repair"
                      [] k.official = "unavailable" -> "infrastructure"]
    ELSE [success |-> k.graph = "success", class |-> k.class]

Wrote(r) == \E i \in DOMAIN lessons : lessons[i].run = r

\* Before persist_run_outcome, or with the process gone.
Outside == {"end", "awaiting", "down", "abandoned"}

\* A try has one verdict, which every replay comes to, and sets the run's status once;
\* only a benchmark's task has an earlier try.
Judged(r) ==
    /\ verdict[r] # None => verdict[r] = VerdictOf(kind[r])
    /\ \A j \in past[r] : j.verdict = VerdictOf(j.kind) /\ kind[r].defer
    /\ pc[r] \notin Outside => verdict[r] # None
    /\ pc[r] \notin Outside \cup {"terminal"} => status[r] = Final(Now(r))

\* All that a run has left in the stores is what the verdict of one of its tries allows.
Allowed(r) ==
    LET some == Judgements(r)
    IN  /\ status[r] # None => \E j \in some : status[r] = Final(j)
        /\ episodes[r] # None => \E j \in some : episodes[r] = j.verdict /\ should_persist_episode(j)
        /\ ledger[r].use # None => \E j \in some : CountsUse(j) /\ ledger[r].use = UseOutcome(j)
        /\ ledger[r].memDecision # None => \E j \in some : Consolidated(j)
        /\ ledger[r].memCommit # None => ledger[r].memCommit = ledger[r].memDecision
        /\ ledger[r].mineDecision # None => \E j \in some : should_mine(j)
        /\ ledger[r].skill => ledger[r].mineDecision = "skill" /\ \E j \in some : Ok(j)
        /\ \A i \in DOMAIN lessons : lessons[i].run = r =>
             \E j \in some : WritesLesson(j) /\ lessons[i].outcome = UseOutcome(j)

\* What the node's next step relies on.
Prepared(r) ==
    /\ pc[r] = "awaiting" => Deferred(kind[r])
    /\ pc[r] = "memAsked" => Consolidated(Now(r)) /\ ledger[r].memDecision = None
    /\ pc[r] = "memCommit" =>
         /\ ledger[r].memDecision = local[r].candidate /\ local[r].candidate # None
         /\ Consolidated(Now(r))
    /\ pc[r] = "mineAsked" => should_mine(Now(r)) /\ ledger[r].mineDecision = None
    /\ pc[r] = "skill" => ledger[r].mineDecision = local[r].decision /\ local[r].decision # None

FromLessons == {"lessons", "returned"}
FromMine == {"mine", "mineAsked", "skill"} \cup FromLessons
FromMemory == {"memAsk", "memAsked", "memCommit"} \cup FromMine
FromUses == {"uses"} \cup FromMemory

\* A stage the node has passed is done, or reported; a lesson may also be dropped.
Passed(r) ==
    LET now == Now(r)
        Done(stage, due, done) == due => done \/ stage \in local[r].errors
    IN  /\ pc[r] \in FromUses /\ should_persist_episode(now) => episodes[r] # None
        /\ pc[r] \in FromMemory => Done("use", CountsUse(now), ledger[r].use # None)
        /\ pc[r] \in FromMine => Done("memory", Consolidated(now), ledger[r].memCommit # None)
        /\ pc[r] \in FromLessons =>
             /\ Done("mining", should_mine(now), ledger[r].mineDecision # None)
             /\ Done("mining", Ok(now) /\ ledger[r].mineDecision = "skill", ledger[r].skill)
        /\ pc[r] = "returned" => Done("lesson", WritesLesson(now), Wrote(r) \/ local[r].dropped)

\* The stores are well formed and agree with the ledgers of what was done, and every
\* run stands where its verdicts and its ledger put it.
OutcomeInv ==
    /\ OutcomeTypeOK /\ LedgerMatchesStores
    /\ \A r \in Runs : Judged(r) /\ Allowed(r) /\ Prepared(r) /\ Passed(r)

\* A recorded decision is what is carried out: neither a crash between the two nor a
\* later try lets a second answer of the model replace the first.
CarriesOutTheDecision ==
    \A r \in Runs :
        /\ ledger[r].memCommit # None => ledger[r].memCommit = ledger[r].memDecision
        /\ ledger[r].skill => ledger[r].mineDecision = "skill"

\* The ways a run ended that a verdict was given for.
Ended(r) == {j.kind : j \in Judgements(r)}

\* Only a run with a success among its verdicts leaves a fact or a skill;
\* infrastructure, model and budget failures leave no statistics, infrastructure no
\* episode; a benchmark run is judged by the official evaluator, not by its own CI; a
\* run that has returned has the status of its last verdict: docs/architecture.md has
\* learning run "after the core outcome is frozen".
LearnsFromVerdict ==
    \A r \in Runs :
        LET Evaluated(k) == k.defer /\ k.class \in {None, "infrastructure"}
            Good(k) == IF Evaluated(k) THEN k.official = "passed" ELSE k.graph = "success"
            Of(k, classes) == ~Evaluated(k) /\ k.class \in classes
        IN  /\ (\E f \in Facts : r \in facts[f]) \/ r \in skills => \E k \in Ended(r) : Good(k)
            /\ pc[r] = "returned" => (status[r] = "success") = Good(kind[r])
            /\ status[r] # None => \E k \in Ended(r) : (status[r] = "success") = Good(k)
            /\ episodes[r] # None =>
                 \E k \in Ended(r) : episodes[r].success = Good(k) /\ ~Of(k, {"infrastructure"})
            /\ ledger[r].use # None =>
                 \E k \in Ended(r) : ~Of(k, {"infrastructure", "model", "budget"})
            /\ \A i \in DOMAIN lessons : lessons[i].run = r /\ lessons[i].outcome = "success" =>
                 \E k \in Ended(r) : Good(k) /\ ~k.scriptFailed

\* A run that returns has done all that was due, however often it was restarted, or
\* has reported the stage that failed; only a lesson may be dropped in silence.
CompleteOrReported ==
    \A r \in Runs : pc[r] = "returned" =>
        LET now == Now(r)
            Done(stage, due, done) == due => done \/ stage \in local[r].errors
        IN  /\ should_persist_episode(now) => episodes[r] # None
            /\ Done("use", CountsUse(now), ledger[r].use # None)
            /\ Done("memory", Consolidated(now), ledger[r].memCommit # None)
            /\ Done("mining", should_mine(now), ledger[r].mineDecision # None)
            /\ Done("mining", Ok(now) /\ ledger[r].mineDecision = "skill", ledger[r].skill)
            /\ Done("lesson", WritesLesson(now), Wrote(r) \/ local[r].dropped)

\* Every run comes to its end and stays there, once interrupted runs are resumed and
\* the campaign is not resumed again.
RunsReturn == <>[](\A r \in Runs : pc[r] \in {"returned", "abandoned"})

\* What the code does not give, shown by OutcomeRerun.cfg: that a run which learnt as
\* a success is recorded as one.  A task tried again adds its verdict to what the
\* earlier try left under the same run id.
LeavesOneVerdict ==
    \A r \in Runs : pc[r] = "returned" /\ ((\E f \in Facts : r \in facts[f]) \/ r \in skills)
        => status[r] = "success"

\* What the code does not give, shown by OutcomeLesson.cfg: that a run which returns
\* has written the lesson of the skill it used, or says that it could not.
LessonsAreReported ==
    \A r \in Runs : pc[r] = "returned" /\ WritesLesson(Now(r))
        => Wrote(r) \/ "lesson" \in local[r].errors
=============================================================================
