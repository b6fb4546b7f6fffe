--------------------------- MODULE OutcomeProofs ---------------------------
(***************************************************************************)
(* Proofs about Outcome, for any set of runs, any ways they ended, any     *)
(* facts, and any number of deaths, failing calls and tasks tried again.   *)
(* OutcomeInv is inductive.  A step of a run changes the records of that   *)
(* run only (OnlyRun), so the other runs keep their part of it             *)
(* (OthersKept), and every action is looked at for its own run             *)
(* (JudgedStep, AllowedStep, PreparedStep, PassedStep) and for the shared  *)
(* stores (UsesStep, StoresStep).  The judgements of a run only grow       *)
(* (JudgementsGrow), which is what keeps the marks of an earlier try       *)
(* allowed.                                                                *)
(***************************************************************************)
EXTENDS Outcome, FiniteSetTheorems, SequenceTheorems, TLAPS

\* A step of the run, of whatever sort.
Acts(r) == Step(r) \/ Dies(r) \/ Reruns(r)

\* The steps that give a verdict.
Gives(r) == Ends(r) \/ official_learning_verdict(r)

\* The lesson a step of r may append.
LessonOf(r) == [run |-> r, outcome |-> UseOutcome(Now(r))]

\* What a step of r leaves alone.
OnlyRun(r) ==
  /\ \A q \in Runs \ {r} :
       /\ kind'[q] = kind[q] /\ past'[q] = past[q]
       /\ pc'[q] = pc[q] /\ verdict'[q] = verdict[q] /\ status'[q] = status[q]
       /\ episodes'[q] = episodes[q] /\ ledger'[q] = ledger[q] /\ local'[q] = local[q]
  /\ lessons' = lessons \/ lessons' = Append(lessons, LessonOf(r))

\* The records of a kind.
LEMMA KindFacts ==
  ASSUME NEW k \in Kinds
  PROVE  /\ k \in KindType /\ (k.graph = "success" <=> k.class = None)
         /\ k.defer \in BOOLEAN /\ k.used \in BOOLEAN /\ k.verified \in BOOLEAN
         /\ k.scriptFailed \in BOOLEAN
  <1>1. k \in KindType /\ (k.graph = "success" <=> k.class = None)
    BY OutcomeAssumption
  <1> QED BY <1>1 DEF KindType

\* The verdict on a kind is a verdict, and a success has no failure class.
LEMMA VerdictType ==
  ASSUME NEW k \in Kinds
  PROVE  /\ VerdictOf(k) \in Verdicts /\ VerdictOf(k) # None
         /\ VerdictOf(k).success => VerdictOf(k).class = None
  <1>1. /\ k.official \in {"passed", "failed", "unavailable"} /\ k.class \in Classes \cup {None}
        /\ k.graph = "success" => k.class = None
    BY KindFacts DEF KindType
  <1>2. VerdictOf(k) \in Verdicts
    BY <1>1 DEF VerdictOf, Verdicts, Classes
  <1>3. VerdictOf(k).success => VerdictOf(k).class = None
    BY <1>1 DEF VerdictOf
  <1> QED BY <1>2, <1>3, OutcomeAssumption DEF Verdicts

\* What persist_run_outcome goes by is the same while the try goes on.
LEMMA SameTry ==
  ASSUME NEW r \in Runs, kind'[r] = kind[r], past'[r] = past[r], verdict'[r] = verdict[r]
  PROVE  Now(r)' = Now(r) /\ Judgements(r)' = Judgements(r)
  <1>1. Now(r)' = Now(r)
    BY DEF Now
  <1> QED BY <1>1 DEF Judgements

\* In persist_run_outcome the verdict is there, and it is one of the run's judgements.
LEMMA InsideFacts ==
  ASSUME OutcomeInv, NEW r \in Runs, pc[r] \notin Outside
  PROVE  /\ verdict[r] # None /\ verdict[r] = VerdictOf(kind[r]) /\ Now(r) \in Judgements(r)
         /\ Ok(Now(r)) => should_mine(Now(r))
  <1>1. verdict[r] # None /\ verdict[r] = VerdictOf(kind[r])
    BY DEF OutcomeInv, Judged
  <1>2. kind[r] \in Kinds
    BY DEF OutcomeInv, OutcomeTypeOK
  <1>3. Ok(Now(r)) => Class(Now(r)) = None
    BY <1>1, <1>2, VerdictType DEF Ok, Class, Now
  <1>4. None \notin {"infrastructure", "model", "budget"}
    BY OutcomeAssumption DEF Classes
  <1>5. Ok(Now(r)) => should_mine(Now(r))
    BY <1>3, <1>4 DEF should_mine
  <1> QED BY <1>1, <1>5 DEF Judgements

\* Appending a lesson of r adds nothing to the lessons of another run.
LEMMA LessonsOfOthers ==
  ASSUME OutcomeTypeOK, NEW r \in Runs, OnlyRun(r), NEW q \in Runs \ {r}
  PROVE  /\ Wrote(q)' <=> Wrote(q)
         /\ \A i \in DOMAIN lessons' : lessons'[i].run = q =>
              i \in DOMAIN lessons /\ lessons'[i] = lessons[i]
  <1>1. CASE lessons' = lessons
    BY <1>1 DEF Wrote
  <1>2. CASE lessons' = Append(lessons, LessonOf(r))
    <2>1. lessons \in Seq([run : Runs, outcome : {"success", "failure"}])
      BY DEF OutcomeTypeOK
    <2>2. /\ DOMAIN lessons = 1 .. Len(lessons) /\ DOMAIN lessons' = 1 .. Len(lessons) + 1
          /\ Len(lessons) \in Nat
          /\ \A i \in 1 .. Len(lessons) : lessons'[i] = lessons[i]
          /\ lessons'[Len(lessons) + 1] = LessonOf(r)
      BY <1>2, <2>1
    <2>3. LessonOf(r).run = r
      BY DEF LessonOf
    <2> QED BY <2>2, <2>3 DEF Wrote
  <1> QED BY <1>1, <1>2 DEF OnlyRun

\* What a run left stays allowed while its judgements grow and its records stay.
LEMMA AllowedKept ==
  ASSUME NEW r \in Runs, Allowed(r), \A j \in Judgements(r) : j \in Judgements(r)',
         status'[r] = status[r], episodes'[r] = episodes[r], ledger'[r] = ledger[r],
         \A i \in DOMAIN lessons' : lessons'[i].run = r =>
            i \in DOMAIN lessons /\ lessons'[i] = lessons[i]
  PROVE  Allowed(r)'
  BY DEF Allowed

\* The other runs keep their part of the invariant.
LEMMA OthersKept ==
  ASSUME OutcomeInv, NEW r \in Runs, OnlyRun(r), NEW q \in Runs \ {r}
  PROVE  Judged(q)' /\ Allowed(q)' /\ Prepared(q)' /\ Passed(q)'
  <1>1. Judged(q) /\ Allowed(q) /\ Prepared(q) /\ Passed(q)
    BY DEF OutcomeInv
  <1>2. /\ kind'[q] = kind[q] /\ past'[q] = past[q]
        /\ pc'[q] = pc[q] /\ verdict'[q] = verdict[q] /\ status'[q] = status[q]
        /\ episodes'[q] = episodes[q] /\ ledger'[q] = ledger[q] /\ local'[q] = local[q]
    BY DEF OnlyRun
  <1>3. Now(q)' = Now(q) /\ Judgements(q)' = Judgements(q)
    BY <1>2, SameTry
  <1>4. /\ Wrote(q)' <=> Wrote(q)
        /\ \A i \in DOMAIN lessons' : lessons'[i].run = q =>
              i \in DOMAIN lessons /\ lessons'[i] = lessons[i]
    BY LessonsOfOthers DEF OutcomeInv
  <1>5. Judged(q)'
    BY <1>1, <1>2, <1>3 DEF Judged
  <1>6. Allowed(q)'
    BY <1>1, <1>2, <1>3, <1>4, AllowedKept
  <1>7. Prepared(q)'
    BY <1>1, <1>2, <1>3 DEF Prepared
  <1>8. Passed(q)'
    BY <1>1, <1>2, <1>3, <1>4 DEF Passed
  <1> QED BY <1>5, <1>6, <1>7, <1>8

\* Every action of a run changes the records of that run only.
LEMMA OnlyStep ==
  ASSUME OutcomeTypeOK, NEW r \in Runs, Acts(r)
  PROVE  OnlyRun(r)
  <1> USE DEF OnlyRun, Go, OutcomeTypeOK, stores
  <1>1. CASE Ends(r) \/ official_learning_verdict(r)
    BY <1>1 DEF Ends, official_learning_verdict, Given
  <1>2. CASE Terminal(r) \/ add_episode(r)
    BY <1>2 DEF Terminal, add_episode
  <1>3. CASE EpisodeFails(r) \/ UseFails(r) \/ MemoryFails(r) \/ MiningFails(r) \/ LessonFails(r)
    BY <1>3 DEF EpisodeFails, UseFails, MemoryFails, MiningFails, LessonFails, learning_error
  <1>4. CASE record_use(r) \/ NoUse(r)
    BY <1>4 DEF record_use, NoUse
  <1>5. CASE Consolidates(r) \/ propose(r) \/ commit_candidate(r)
    BY <1>5 DEF Consolidates, propose, commit_candidate
  <1>6. CASE Mines(r) \/ decide(r) \/ Installs(r)
    BY <1>6 DEF Mines, decide, Installs
  <1>7. CASE AppendsLesson(r)
    BY <1>7 DEF AppendsLesson, LessonOf
  <1>8. CASE DropsLesson(r) \/ Replays(r) \/ Dies(r)
    BY <1>8 DEF DropsLesson, Replays, Dies
  <1>9. CASE Reruns(r)
    BY <1>9 DEF Reruns
  <1> QED BY <1>1, <1>2, <1>3, <1>4, <1>5, <1>6, <1>7, <1>8, <1>9 DEF Acts, Step

\* Only a step that gives a verdict and a new try change what the run goes by.
LEMMA TryKept ==
  ASSUME NEW r \in Runs, Acts(r), ~Gives(r), ~Reruns(r)
  PROVE  kind' = kind /\ past' = past /\ verdict' = verdict
  BY DEF Acts, Gives, Step, Dies, Terminal, add_episode, EpisodeFails, record_use, UseFails, NoUse,
     Consolidates, propose, commit_candidate, MemoryFails, Mines, decide, Installs, MiningFails,
     AppendsLesson, DropsLesson, LessonFails, Replays

\* A try is given its verdict once; a replay comes to the same one.
LEMMA GivenOnce ==
  ASSUME OutcomeInv, NEW r \in Runs, Gives(r)
  PROVE  /\ UNCHANGED <<kind, past, stores, local, troubles>>
         /\ pc' \in [Runs -> {"end", "awaiting", "terminal", "episode", "uses", "memAsk", "memAsked",
                        "memCommit", "mine", "mineAsked", "skill", "lessons", "returned",
                        "down", "abandoned"}]
         /\ pc'[r] \in {"awaiting", "terminal"}
         /\ pc'[r] = "awaiting" => Deferred(kind[r])
         /\ pc'[r] = "terminal" => verdict'[r] # None
         /\ \/ verdict' = verdict
            \/ verdict[r] = None /\ verdict' = [verdict EXCEPT ![r] = VerdictOf(kind[r])]
  <1>1. /\ OutcomeTypeOK /\ VerdictOf(kind[r]) # None
        /\ verdict[r] # None => verdict[r] = VerdictOf(kind[r])
    BY VerdictType DEF OutcomeInv, OutcomeTypeOK, Judged
  <1>2. ASSUME verdict' = [verdict EXCEPT ![r] = VerdictOf(kind[r])]
        PROVE  /\ verdict'[r] # None
               /\ \/ verdict' = verdict
                  \/ verdict[r] = None /\ verdict' = [verdict EXCEPT ![r] = VerdictOf(kind[r])]
    BY <1>1, <1>2 DEF OutcomeTypeOK
  <1>3. CASE Ends(r)
    <2>1. UNCHANGED <<kind, past, stores, local, troubles>>
      BY <1>3 DEF Ends
    <2>2. CASE Deferred(kind[r])
      <3>1. Go(r, "awaiting") /\ UNCHANGED verdict
        BY <1>3, <2>2 DEF Ends, Deferred
      <3> QED BY <1>1, <2>1, <2>2, <3>1 DEF Go, OutcomeTypeOK
    <2>3. CASE ~Deferred(kind[r])
      <3>1. Given(r, kind[r].graph = "success", kind[r].class)
        BY <1>3, <2>3 DEF Ends, Deferred
      <3>2. verdict' = [verdict EXCEPT ![r] = VerdictOf(kind[r])]
        BY <3>1, <2>3 DEF Given, VerdictOf
      <3> QED BY <1>1, <1>2, <2>1, <3>1, <3>2 DEF Given, Go, OutcomeTypeOK
    <2> QED BY <2>2, <2>3
  <1>4. CASE official_learning_verdict(r)
    <2>1. Deferred(kind[r])
      BY <1>4 DEF OutcomeInv, Prepared, official_learning_verdict
    <2>2. VerdictOf(kind[r]) =
            [success |-> kind[r].official = "passed",
             class |-> CASE kind[r].official = "passed" -> None
                         [] kind[r].official = "failed" -> "repair"
                         [] kind[r].official = "unavailable" -> "infrastructure"]
      BY <2>1 DEF VerdictOf
    <2>3. verdict' = [verdict EXCEPT ![r] = VerdictOf(kind[r])]
      BY <1>4, <2>2, Zenon DEF official_learning_verdict, Given
    <2>4. pc' = [pc EXCEPT ![r] = "terminal"] /\ UNCHANGED <<kind, past, stores, local, troubles>>
      BY <1>4, Zenon DEF official_learning_verdict, Given, Go
    <2> QED BY <1>1, <1>2, <2>3, <2>4 DEF OutcomeTypeOK
  <1> QED BY <1>3, <1>4 DEF Gives

\* What a new try changes.
LEMMA RerunFacts ==
  ASSUME OutcomeInv, NEW r \in Runs, Reruns(r)
  PROVE  /\ UNCHANGED stores /\ pc'[r] = "end" /\ verdict'[r] = None
         /\ past'[r] = Judgements(r) /\ Judgements(r)' = Judgements(r)
         /\ kind'[r] \in Kinds /\ kind'[r].defer
         /\ Judgements(r) \in SUBSET [kind : Kinds, verdict : Verdicts]
         /\ \A j \in Judgements(r) : j.verdict = VerdictOf(j.kind)
  <1>1. /\ OutcomeTypeOK /\ kind[r] \in Kinds /\ Judged(r)
        /\ verdict[r] \in Verdicts \cup {None}
        /\ past[r] \in SUBSET [kind : Kinds, verdict : Verdicts]
    BY DEF OutcomeInv, OutcomeTypeOK
  <1>2. UNCHANGED stores /\ pc'[r] = "end" /\ verdict'[r] = None /\ past'[r] = Judgements(r)
    BY <1>1 DEF Reruns, Go, OutcomeTypeOK
  <1>3. Judgements(r)' = Judgements(r)
    BY <1>2 DEF Judgements
  <1>4. PICK k \in Kinds : k.defer /\ kind' = [kind EXCEPT ![r] = k]
    BY DEF Reruns
  <1>5. kind'[r] = k
    BY <1>1, <1>4 DEF OutcomeTypeOK
  <1>6. Now(r).kind = kind[r] /\ Now(r).verdict = verdict[r]
    BY DEF Now
  <1>7. verdict[r] # None => Now(r) \in [kind : Kinds, verdict : Verdicts]
    BY <1>1 DEF Now
  <1>8. Judgements(r) \in SUBSET [kind : Kinds, verdict : Verdicts]
    BY <1>1, <1>7 DEF Judgements
  <1>9. \A j \in Judgements(r) : j.verdict = VerdictOf(j.kind)
    BY <1>1, <1>6 DEF Judgements, Judged
  <1> QED BY <1>2, <1>3, <1>4, <1>5, <1>8, <1>9

\* The judgements of a run only grow.
LEMMA JudgementsGrow ==
  ASSUME OutcomeInv, NEW r \in Runs, Acts(r)
  PROVE  \A j \in Judgements(r) : j \in Judgements(r)'
  <1>1. CASE Gives(r)
    <2>1. /\ kind' = kind /\ past' = past
          /\ verdict' = verdict \/ verdict[r] = None
      BY <1>1, GivenOnce
    <2>2. CASE verdict' = verdict
      BY <2>1, <2>2, SameTry
    <2>3. CASE verdict[r] = None
      BY <2>1, <2>3 DEF Judgements
    <2> QED BY <2>1, <2>2, <2>3
  <1>2. CASE Reruns(r)
    BY <1>2, RerunFacts
  <1>3. CASE ~Gives(r) /\ ~Reruns(r)
    BY <1>3, TryKept, SameTry
  <1> QED BY <1>1, <1>2, <1>3

\* Every action keeps the types.
LEMMA TypeStep ==
  ASSUME OutcomeInv, NEW r \in Runs, Acts(r)
  PROVE  OutcomeTypeOK'
  <1>1. OutcomeTypeOK /\ local[r] \in Locals /\ ledger[r] \in Ledgers
        /\ MaxTroubles \in Nat /\ troubles \in 0 .. MaxTroubles
        /\ ledger \in [Runs -> Ledgers] /\ local \in [Runs -> Locals]
        /\ uses \in [count : Nat, success : Nat]
        /\ lessons \in Seq([run : Runs, outcome : {"success", "failure"}])
    BY OutcomeAssumption DEF OutcomeInv, OutcomeTypeOK
  <1>2. CASE Gives(r)
    <2>1. VerdictOf(kind[r]) \in Verdicts
      BY <1>1, VerdictType DEF OutcomeTypeOK
    <2>2. verdict' \in [Runs -> Verdicts \cup {None}]
      BY <1>1, <1>2, <2>1, GivenOnce DEF OutcomeTypeOK
    <2> QED BY <1>1, <1>2, <2>2, GivenOnce DEF OutcomeTypeOK, stores
  <1>3. ASSUME Trouble PROVE troubles' \in 0 .. MaxTroubles
    BY <1>1, <1>3 DEF Trouble
  <1>4. CASE Terminal(r)
    BY <1>1, <1>4 DEF Terminal, Final, Go, OutcomeTypeOK
  <1>5. CASE add_episode(r)
    <2>1. verdict[r] \in Verdicts \cup {None}
      BY <1>1 DEF OutcomeTypeOK
    <2> QED BY <1>1, <1>5, <2>1 DEF add_episode, Go, OutcomeTypeOK
  <1>6. CASE EpisodeFails(r) \/ UseFails(r) \/ MemoryFails(r) \/ MiningFails(r) \/ LessonFails(r)
    <2>1. PICK stage \in {"episode", "use", "memory", "mining", "lesson"},
              step \in {"abandoned", "down", "memAsk", "mine", "lessons", "returned"} :
              learning_error(r, stage, step)
      BY <1>6 DEF EpisodeFails, UseFails, MemoryFails, MiningFails, LessonFails
    <2>2. UNCHANGED <<kind, past, verdict, stores>>
      BY <1>6 DEF EpisodeFails, UseFails, MemoryFails, MiningFails, LessonFails
    <2>3. local' \in [Runs -> Locals]
      BY <1>1, <2>1 DEF learning_error, Locals, OutcomeTypeOK
    <2>4. pc' = [pc EXCEPT ![r] = step] /\ troubles' \in 0 .. MaxTroubles
      BY <1>3, <2>1 DEF learning_error, Go
    <2> QED BY <1>1, <2>2, <2>3, <2>4 DEF OutcomeTypeOK, stores
  <1>7. CASE record_use(r)
    <2>1. ledger' \in [Runs -> Ledgers]
      <3>1. UseOutcome(Now(r)) \in {"success", "failure"}
        BY DEF UseOutcome
      <3>2. ledger' = ledger \/ ledger' = [ledger EXCEPT ![r].use = UseOutcome(Now(r))]
        BY <1>7 DEF record_use
      <3>3. [ledger EXCEPT ![r].use = UseOutcome(Now(r))] \in [Runs -> Ledgers]
        BY <1>1, <3>1 DEF Ledgers
      <3> QED BY <1>1, <3>2, <3>3
    <2>2. uses' \in [count : Nat, success : Nat]
      <3>1. uses.count \in Nat /\ uses.success \in Nat
        BY <1>1
      <3>2. \/ uses' = uses
            \/ uses' = [count |-> uses.count + 1, success |-> uses.success + 1]
            \/ uses' = [count |-> uses.count + 1, success |-> uses.success + 0]
        BY <1>7 DEF record_use
      <3> QED BY <1>1, <3>1, <3>2
    <2> QED BY <1>1, <1>7, <2>1, <2>2 DEF record_use, Go, OutcomeTypeOK
  <1>8. CASE NoUse(r)
    BY <1>1, <1>8 DEF NoUse, Go, OutcomeTypeOK, stores
  <1>9. CASE Consolidates(r)
    <2>1. local' \in [Runs -> Locals]
      <3>1. ledger[r].memDecision \in Facts \cup {"none", None} /\ local \in [Runs -> Locals]
        BY <1>1 DEF Ledgers, OutcomeTypeOK
      <3>2. \/ local' = local
            \/ local' = [local EXCEPT ![r].candidate = ledger[r].memDecision]
        BY <1>9 DEF Consolidates
      <3> QED BY <3>1, <3>2 DEF Locals
    <2> QED BY <1>1, <1>9, <2>1 DEF Consolidates, Go, OutcomeTypeOK, stores
  <1>10. CASE propose(r)
    <2>1. PICK c \in Facts \cup {"none"} :
             /\ ledger' = [ledger EXCEPT ![r].memDecision = IF @ = None THEN c ELSE @]
             /\ local' = [local EXCEPT ![r].candidate = c]
      BY <1>10 DEF propose
    <2>2. ledger' \in [Runs -> Ledgers]
      BY <1>1, <2>1 DEF Ledgers, OutcomeTypeOK
    <2>3. local' \in [Runs -> Locals]
      BY <1>1, <2>1 DEF Locals, OutcomeTypeOK
    <2> QED BY <1>1, <1>10, <2>2, <2>3 DEF propose, Go, OutcomeTypeOK
  <1>11. CASE commit_candidate(r)
    <2>1. local[r].candidate \in Facts \cup {"none", None}
      BY <1>1 DEF Locals
    <2>2. ledger' \in [Runs -> Ledgers]
      BY <1>1, <1>11, <2>1 DEF commit_candidate, Ledgers, OutcomeTypeOK
    <2>3. facts' \in [Facts -> SUBSET Runs]
      BY <1>1, <1>11, <2>1 DEF commit_candidate, OutcomeTypeOK
    <2> QED BY <1>1, <1>11, <2>2, <2>3 DEF commit_candidate, Go, OutcomeTypeOK
  <1>12. CASE Mines(r)
    <2>1. local' \in [Runs -> Locals]
      <3>1. ledger[r].mineDecision \in {"none", "skill", None}
        BY <1>1 DEF Ledgers
      <3>2. \/ local' = local
            \/ local' = [local EXCEPT ![r].decision = ledger[r].mineDecision]
        BY <1>12 DEF Mines
      <3> QED BY <1>1, <3>1, <3>2 DEF Locals
    <2> QED BY <1>1, <1>12, <2>1 DEF Mines, Go, OutcomeTypeOK, stores
  <1>13. CASE decide(r)
    <2>1. PICK d \in {"none", "skill"} :
             /\ ledger' = [ledger EXCEPT ![r].mineDecision = d]
             /\ local' = [local EXCEPT ![r].decision = d]
      BY <1>13 DEF decide
    <2>2. ledger' \in [Runs -> Ledgers]
      BY <1>1, <2>1 DEF Ledgers, OutcomeTypeOK
    <2>3. local' \in [Runs -> Locals]
      BY <1>1, <2>1 DEF Locals, OutcomeTypeOK
    <2> QED BY <1>1, <1>13, <2>2, <2>3 DEF decide, Go, OutcomeTypeOK
  <1>14. CASE Installs(r)
    <2>1. ledger' \in [Runs -> Ledgers]
      BY <1>1, <1>14 DEF Installs, Ledgers, OutcomeTypeOK
    <2> QED BY <1>1, <1>14, <2>1 DEF Installs, Go, OutcomeTypeOK
  <1>15. CASE AppendsLesson(r)
    <2>1. LessonOf(r) \in [run : Runs, outcome : {"success", "failure"}]
      BY DEF LessonOf, UseOutcome
    <2>2. lessons' \in Seq([run : Runs, outcome : {"success", "failure"}])
      <3>1. lessons' = lessons \/ lessons' = Append(lessons, LessonOf(r))
        BY <1>15 DEF AppendsLesson, LessonOf
      <3>2. Append(lessons, LessonOf(r)) \in Seq([run : Runs, outcome : {"success", "failure"}])
        BY <1>1, <2>1, AppendProperties
      <3> QED BY <1>1, <3>1, <3>2
    <2> QED BY <1>1, <1>15, <2>2 DEF AppendsLesson, Go, OutcomeTypeOK
  <1>16. CASE DropsLesson(r)
    <2>1. local' \in [Runs -> Locals]
      <3>1. TRUE \in BOOLEAN /\ local' = [local EXCEPT ![r].dropped = TRUE]
        BY <1>16 DEF DropsLesson
      <3> QED BY <1>1, <3>1 DEF Locals
    <2> QED BY <1>1, <1>3, <1>16, <2>1 DEF DropsLesson, Go, OutcomeTypeOK, stores
  <1>17. NoLocal \in Locals
    BY DEF NoLocal, Locals
  <1>18. CASE Replays(r)
    BY <1>1, <1>17, <1>18 DEF Replays, Go, OutcomeTypeOK, stores
  <1>19. CASE Dies(r)
    BY <1>1, <1>3, <1>19 DEF Dies, Go, OutcomeTypeOK, stores
  <1>20. CASE Reruns(r)
    <2>1. Judgements(r) \in SUBSET [kind : Kinds, verdict : Verdicts]
      BY <1>20, RerunFacts
    <2>2. past' \in [Runs -> SUBSET [kind : Kinds, verdict : Verdicts]]
      BY <1>1, <1>20, <2>1 DEF Reruns, OutcomeTypeOK
    <2>3. kind' \in [Runs -> Kinds]
      BY <1>1, <1>20 DEF Reruns, OutcomeTypeOK
    <2> QED BY <1>1, <1>3, <1>17, <1>20, <2>2, <2>3 DEF Reruns, Go, OutcomeTypeOK, stores
  <1> QED BY <1>2, <1>4, <1>5, <1>6, <1>7, <1>8, <1>9, <1>10, <1>11, <1>12, <1>13, <1>14,
             <1>15, <1>16, <1>18, <1>19, <1>20 DEF Acts, Step, Gives

\* The acting run has one verdict per try.
LEMMA JudgedStep ==
  ASSUME OutcomeInv, NEW r \in Runs, Acts(r)
  PROVE  Judged(r)'
  <1>1. /\ Judged(r) /\ status \in [Runs -> {"success", "failed", None}]
        /\ pc \in [Runs -> {"end", "awaiting", "terminal", "episode", "uses", "memAsk", "memAsked",
                        "memCommit", "mine", "mineAsked", "skill", "lessons", "returned",
                        "down", "abandoned"}]
        /\ verdict \in [Runs -> Verdicts \cup {None}]
    BY DEF OutcomeInv, OutcomeTypeOK
  <1>2. CASE Gives(r)
    <2>1. /\ UNCHANGED <<kind, past, stores>> /\ pc'[r] \in {"awaiting", "terminal"}
          /\ pc'[r] = "terminal" => verdict'[r] # None
          /\ verdict'[r] = verdict[r] \/ verdict'[r] = VerdictOf(kind[r])
      BY <1>1, <1>2, GivenOnce
    <2> QED BY <1>1, <2>1 DEF Judged, Outside
  <1>3. CASE Reruns(r)
    BY <1>3, RerunFacts DEF Judged, Outside
  <1>4. CASE ~Gives(r) /\ ~Reruns(r)
    <2>1. kind' = kind /\ past' = past /\ verdict' = verdict
      BY <1>4, TryKept
    <2>2. Now(r)' = Now(r)
      BY <2>1, SameTry
    <2>3. CASE Terminal(r)
      <3>1. pc[r] = "terminal" /\ status'[r] = Final(Now(r))
        BY <1>1, <2>3 DEF Terminal
      <3> QED BY <1>1, <2>1, <2>2, <3>1 DEF Judged, Outside
    <2>4. CASE Replays(r) \/ Dies(r) \/ EpisodeFails(r)
      <3>1. pc'[r] \in Outside
        BY <1>1, <2>4 DEF Replays, Dies, EpisodeFails, learning_error, Go, Outside
      <3> QED BY <1>1, <2>1, <3>1 DEF Judged
    <2>5. CASE ~(Terminal(r) \/ Replays(r) \/ Dies(r) \/ EpisodeFails(r))
      <3>1. status' = status /\ pc[r] \notin Outside \cup {"terminal"}
        BY <1>4, <2>5 DEF Acts, Gives, Step, add_episode, record_use, UseFails, NoUse,
           Consolidates, propose, commit_candidate, MemoryFails, Mines, decide, Installs,
           MiningFails, AppendsLesson, DropsLesson, LessonFails, Outside, stores
      <3> QED BY <1>1, <2>1, <2>2, <3>1 DEF Judged
    <2> QED BY <2>3, <2>4, <2>5
  <1> QED BY <1>2, <1>3, <1>4

\* What the acting run leaves is allowed.
LEMMA AllowedStep ==
  ASSUME OutcomeInv, NEW r \in Runs, Acts(r)
  PROVE  Allowed(r)'
  <1>1. /\ Allowed(r) /\ Prepared(r) /\ ledger \in [Runs -> Ledgers] /\ ledger[r] \in Ledgers
        /\ pc \in [Runs -> {"end", "awaiting", "terminal", "episode", "uses", "memAsk", "memAsked",
                        "memCommit", "mine", "mineAsked", "skill", "lessons", "returned",
                        "down", "abandoned"}]
        /\ status \in [Runs -> {"success", "failed", None}]
        /\ episodes \in [Runs -> Verdicts \cup {None}]
    BY DEF OutcomeInv, OutcomeTypeOK
  <1>2. \A j \in Judgements(r) : j \in Judgements(r)'
    BY JudgementsGrow
  <1>3. ASSUME UNCHANGED stores PROVE Allowed(r)'
    BY <1>1, <1>2, <1>3, AllowedKept DEF stores
  <1>4. CASE Gives(r) \/ Reruns(r)
    BY <1>3, <1>4, GivenOnce, RerunFacts
  <1>5. CASE EpisodeFails(r) \/ UseFails(r) \/ MemoryFails(r) \/ MiningFails(r) \/ LessonFails(r)
    BY <1>3, <1>5 DEF EpisodeFails, UseFails, MemoryFails, MiningFails, LessonFails
  <1>6. CASE NoUse(r) \/ Consolidates(r) \/ Mines(r) \/ DropsLesson(r) \/ Replays(r) \/ Dies(r)
    BY <1>3, <1>6 DEF NoUse, Consolidates, Mines, DropsLesson, Replays, Dies
  <1>7. ASSUME pc[r] \notin Outside PROVE Now(r) \in Judgements(r)'
    BY <1>2, <1>7, InsideFacts
  <1>8. CASE Terminal(r)
    <2>1. Now(r) \in Judgements(r)' /\ status'[r] = Final(Now(r))
      BY <1>1, <1>7, <1>8 DEF Terminal, Outside
    <2> QED BY <1>1, <1>2, <1>8, <2>1 DEF Allowed, Terminal
  <1>9. CASE add_episode(r)
    <2>1. Now(r) \in Judgements(r)' /\ Now(r).verdict = verdict[r]
      BY <1>7, <1>9 DEF add_episode, Outside, Now
    <2>2. episodes'[r] = episodes[r] \/ (episodes'[r] = verdict[r] /\ should_persist_episode(Now(r)))
      BY <1>1, <1>9 DEF add_episode
    <2> QED BY <1>1, <1>2, <1>9, <2>1, <2>2 DEF Allowed, add_episode
  <1>10. CASE record_use(r)
    <2>1. Now(r) \in Judgements(r)' /\ CountsUse(Now(r))
      BY <1>7, <1>10 DEF record_use, Outside
    <2>2. /\ ledger'[r].memDecision = ledger[r].memDecision
          /\ ledger'[r].memCommit = ledger[r].memCommit
          /\ ledger'[r].mineDecision = ledger[r].mineDecision /\ ledger'[r].skill = ledger[r].skill
          /\ ledger'[r].use \in {ledger[r].use, UseOutcome(Now(r))}
      BY <1>1, <1>10 DEF record_use, Ledgers
    <2> QED BY <1>1, <1>2, <1>10, <2>1, <2>2 DEF Allowed, record_use
  <1>11. CASE propose(r)
    <2>1. Now(r) \in Judgements(r)' /\ ledger[r].memDecision = None /\ Consolidated(Now(r))
      BY <1>1, <1>7, <1>11 DEF propose, Prepared, Outside
    <2>2. /\ ledger'[r].use = ledger[r].use /\ ledger'[r].memCommit = ledger[r].memCommit
          /\ ledger'[r].mineDecision = ledger[r].mineDecision /\ ledger'[r].skill = ledger[r].skill
      BY <1>1, <1>11 DEF propose, Ledgers
    <2> QED BY <1>1, <1>2, <1>11, <2>1, <2>2 DEF Allowed, propose
  <1>12. CASE commit_candidate(r)
    <2>1. ledger[r].memDecision = local[r].candidate
      BY <1>1, <1>12 DEF commit_candidate, Prepared
    <2>2. /\ ledger'[r].use = ledger[r].use /\ ledger'[r].memDecision = ledger[r].memDecision
          /\ ledger'[r].mineDecision = ledger[r].mineDecision /\ ledger'[r].skill = ledger[r].skill
          /\ ledger'[r].memCommit \in {ledger[r].memCommit, local[r].candidate}
      BY <1>1, <1>12 DEF commit_candidate, Ledgers
    <2> QED BY <1>1, <1>2, <1>12, <2>1, <2>2 DEF Allowed, commit_candidate
  <1>13. CASE decide(r)
    <2>1. Now(r) \in Judgements(r)' /\ should_mine(Now(r))
          /\ ledger[r].mineDecision = None /\ None # "skill"
      BY <1>1, <1>7, <1>13, OutcomeAssumption DEF decide, Prepared, Outside
    <2>2. /\ ledger'[r].use = ledger[r].use /\ ledger'[r].memDecision = ledger[r].memDecision
          /\ ledger'[r].memCommit = ledger[r].memCommit /\ ledger'[r].skill = ledger[r].skill
      BY <1>1, <1>13 DEF decide, Ledgers
    <2> QED BY <1>1, <1>2, <1>13, <2>1, <2>2 DEF Allowed, decide
  <1>14. CASE Installs(r)
    <2>1. Now(r) \in Judgements(r)' /\ ledger[r].mineDecision = local[r].decision
      BY <1>1, <1>7, <1>14 DEF Installs, Prepared, Outside
    <2>2. /\ ledger'[r].use = ledger[r].use /\ ledger'[r].memDecision = ledger[r].memDecision
          /\ ledger'[r].memCommit = ledger[r].memCommit
          /\ ledger'[r].mineDecision = ledger[r].mineDecision
          /\ ledger'[r].skill => ledger[r].skill \/ (Ok(Now(r)) /\ local[r].decision = "skill")
      BY <1>1, <1>14 DEF Installs, Ledgers
    <2> QED BY <1>1, <1>2, <1>14, <2>1, <2>2 DEF Allowed, Installs
  <1>15. CASE AppendsLesson(r)
    <2>1. Now(r) \in Judgements(r)'
      BY <1>7, <1>15 DEF AppendsLesson, Outside
    <2>2. \A i \in DOMAIN lessons' : lessons'[i].run = r =>
            \E j \in Judgements(r)' : WritesLesson(j) /\ lessons'[i].outcome = UseOutcome(j)
      <3>1. CASE lessons' = lessons
        BY <1>1, <1>2, <3>1 DEF Allowed
      <3>2. CASE WritesLesson(Now(r)) /\ lessons' = Append(lessons, LessonOf(r))
        <4>1. lessons \in Seq([run : Runs, outcome : {"success", "failure"}])
          BY DEF OutcomeInv, OutcomeTypeOK
        <4>2. \A i \in DOMAIN lessons' : (i \in DOMAIN lessons /\ lessons'[i] = lessons[i])
                                          \/ lessons'[i] = LessonOf(r)
          BY <3>2, <4>1
        <4>3. LessonOf(r).outcome = UseOutcome(Now(r))
          BY DEF LessonOf
        <4> QED BY <1>1, <1>2, <2>1, <3>2, <4>2, <4>3 DEF Allowed
      <3> QED BY <1>15, <3>1, <3>2 DEF AppendsLesson, LessonOf
    <2> QED BY <1>1, <1>2, <1>15, <2>2 DEF Allowed, AppendsLesson
  <1> QED BY <1>4, <1>5, <1>6, <1>8, <1>9, <1>10, <1>11, <1>12, <1>13, <1>14, <1>15
          DEF Acts, Step, Gives

\* What the next step of the run that acts relies on.
LEMMA PreparedStep ==
  ASSUME OutcomeInv, NEW r \in Runs, Acts(r)
  PROVE  Prepared(r)'
  <1>1. /\ Prepared(r) /\ ledger \in [Runs -> Ledgers] /\ ledger[r] \in Ledgers
        /\ local \in [Runs -> Locals] /\ local[r] \in Locals
        /\ pc \in [Runs -> {"end", "awaiting", "terminal", "episode", "uses", "memAsk", "memAsked",
                        "memCommit", "mine", "mineAsked", "skill", "lessons", "returned",
                        "down", "abandoned"}]
    BY DEF OutcomeInv, OutcomeTypeOK
  <1>2. CASE Gives(r)
    <2>1. kind' = kind /\ pc'[r] \in {"awaiting", "terminal"} /\ (pc'[r] = "awaiting" => Deferred(kind[r]))
      BY <1>2, GivenOnce
    <2> QED BY <2>1 DEF Prepared
  <1>3. ASSUME pc'[r] \notin {"awaiting", "memAsked", "memCommit", "mineAsked", "skill"}
        PROVE  Prepared(r)'
    BY <1>3 DEF Prepared
  <1>4. CASE Terminal(r) \/ add_episode(r) \/ record_use(r) \/ NoUse(r) \/ commit_candidate(r)
             \/ Installs(r) \/ AppendsLesson(r) \/ DropsLesson(r) \/ Replays(r) \/ Dies(r)
             \/ Reruns(r)
    BY <1>1, <1>3, <1>4 DEF Terminal, add_episode, record_use, NoUse, commit_candidate, Installs,
       AppendsLesson, DropsLesson, Replays, Dies, Reruns, Go
  <1>5. CASE EpisodeFails(r) \/ UseFails(r) \/ MemoryFails(r) \/ MiningFails(r) \/ LessonFails(r)
    BY <1>1, <1>3, <1>5 DEF EpisodeFails, UseFails, MemoryFails, MiningFails, LessonFails,
       learning_error, Go
  <1>6. ASSUME kind' = kind, verdict' = verdict
        PROVE  Now(r)' = Now(r)
    BY <1>6 DEF Now
  <1>7. CASE Consolidates(r)
    <2>1. kind' = kind /\ verdict' = verdict /\ ledger' = ledger
      BY <1>7 DEF Consolidates, stores
    <2>2. \/ pc'[r] = "mine"
          \/ pc'[r] = "memAsked" /\ Consolidated(Now(r)) /\ ledger[r].memDecision = None
          \/ /\ pc'[r] = "memCommit" /\ ledger[r].memDecision # None /\ Consolidated(Now(r))
             /\ local' = [local EXCEPT ![r].candidate = ledger[r].memDecision]
      BY <1>1, <1>7 DEF Consolidates, Go
    <2>3. [local EXCEPT ![r].candidate = ledger[r].memDecision][r].candidate = ledger[r].memDecision
      BY <1>1 DEF Locals
    <2> QED BY <1>6, <2>1, <2>2, <2>3 DEF Prepared
  <1>8. CASE propose(r)
    <2>1. PICK c \in Facts \cup {"none"} :
             /\ ledger' = [ledger EXCEPT ![r].memDecision = IF @ = None THEN c ELSE @]
             /\ local' = [local EXCEPT ![r].candidate = c]
      BY <1>8 DEF propose
    <2>2. ledger[r].memDecision = None /\ c # None
      BY <1>1, <1>8, OutcomeAssumption DEF propose, Prepared
    <2>3. ledger'[r].memDecision = c /\ local'[r].candidate = c
      BY <1>1, <2>1, <2>2 DEF Ledgers, Locals
    <2>4. pc'[r] = "memCommit" /\ kind' = kind /\ verdict' = verdict /\ Consolidated(Now(r))
      BY <1>1, <1>8 DEF propose, Go, Prepared
    <2> QED BY <1>6, <2>2, <2>3, <2>4 DEF Prepared
  <1>9. CASE Mines(r)
    <2>1. kind' = kind /\ verdict' = verdict /\ ledger' = ledger
      BY <1>9 DEF Mines, stores
    <2>2. \/ pc'[r] = "lessons"
          \/ pc'[r] = "mineAsked" /\ should_mine(Now(r)) /\ ledger[r].mineDecision = None
          \/ /\ pc'[r] = "skill" /\ ledger[r].mineDecision # None
             /\ local' = [local EXCEPT ![r].decision = ledger[r].mineDecision]
      BY <1>1, <1>9 DEF Mines, Go
    <2>3. [local EXCEPT ![r].decision = ledger[r].mineDecision][r].decision = ledger[r].mineDecision
      BY <1>1 DEF Locals
    <2> QED BY <1>6, <2>1, <2>2, <2>3 DEF Prepared
  <1>10. CASE decide(r)
    <2>1. PICK d \in {"none", "skill"} :
             /\ ledger' = [ledger EXCEPT ![r].mineDecision = d]
             /\ local' = [local EXCEPT ![r].decision = d]
      BY <1>10 DEF decide
    <2>2. d # None
      BY OutcomeAssumption
    <2>3. ledger'[r].mineDecision = d /\ local'[r].decision = d
      BY <1>1, <2>1 DEF Ledgers, Locals
    <2>4. pc'[r] = "skill"
      BY <1>1, <1>10 DEF decide, Go
    <2> QED BY <2>2, <2>3, <2>4 DEF Prepared
  <1> QED BY <1>2, <1>4, <1>5, <1>7, <1>8, <1>9, <1>10 DEF Acts, Step, Gives

\* A stage the acting run passes is done, or reported.
LEMMA PassedStep ==
  ASSUME OutcomeInv, NEW r \in Runs, Acts(r)
  PROVE  Passed(r)'
  <1>1. /\ Prepared(r) /\ Passed(r)
        /\ ledger \in [Runs -> Ledgers] /\ ledger[r] \in Ledgers
        /\ local \in [Runs -> Locals] /\ local[r] \in Locals
        /\ pc \in [Runs -> {"end", "awaiting", "terminal", "episode", "uses", "memAsk", "memAsked",
                        "memCommit", "mine", "mineAsked", "skill", "lessons", "returned",
                        "down", "abandoned"}] /\ episodes \in [Runs -> Verdicts \cup {None}]
    BY DEF OutcomeInv, OutcomeTypeOK
  <1> USE DEF FromUses, FromMemory, FromMine, FromLessons
  <1>2. ASSUME pc'[r] \notin FromUses
        PROVE  Passed(r)'
    BY <1>2 DEF Passed
  <1>3. CASE Gives(r)
    BY <1>2, <1>3, GivenOnce
  <1>4. CASE Terminal(r) \/ Replays(r) \/ Dies(r) \/ Reruns(r) \/ EpisodeFails(r)
    BY <1>1, <1>2, <1>4 DEF Terminal, Replays, Dies, Reruns, EpisodeFails, learning_error, Go
  <1>5. ASSUME kind' = kind, verdict' = verdict
        PROVE  Now(r)' = Now(r)
    BY <1>5 DEF Now
  <1>6. CASE add_episode(r)
    <2>1. kind' = kind /\ verdict' = verdict /\ pc'[r] = "uses"
      BY <1>1, <1>6 DEF add_episode, Go
    <2>2. verdict[r] # None
      BY <1>6, InsideFacts DEF add_episode, Outside
    <2>3. should_persist_episode(Now(r)) => episodes'[r] # None
      BY <1>1, <1>6, <2>2 DEF add_episode
    <2> QED BY <1>5, <2>1, <2>3 DEF Passed
  <1>7. CASE UseFails(r) \/ MemoryFails(r) \/ MiningFails(r) \/ LessonFails(r)
    <2>1. UNCHANGED <<kind, verdict, stores>>
      BY <1>7 DEF UseFails, MemoryFails, MiningFails, LessonFails
    <2>2. \/ pc[r] = "uses" /\ learning_error(r, "use", "memAsk")
          \/ pc[r] \in {"memAsked", "memCommit"} /\ learning_error(r, "memory", "mine")
          \/ pc[r] \in {"mineAsked", "skill"} /\ learning_error(r, "mining", "lessons")
          \/ pc[r] = "lessons" /\ learning_error(r, "lesson", "returned")
      BY <1>7 DEF UseFails, MemoryFails, MiningFails, LessonFails
    <2>3. \/ pc[r] = "uses" /\ pc'[r] = "memAsk" /\ local'[r].errors = local[r].errors \cup {"use"}
          \/ /\ pc[r] \in {"memAsked", "memCommit"} /\ pc'[r] = "mine"
             /\ local'[r].errors = local[r].errors \cup {"memory"}
          \/ /\ pc[r] \in {"mineAsked", "skill"} /\ pc'[r] = "lessons"
             /\ local'[r].errors = local[r].errors \cup {"mining"}
          \/ /\ pc[r] = "lessons" /\ pc'[r] = "returned"
             /\ local'[r].errors = local[r].errors \cup {"lesson"}
      BY <1>1, <2>2 DEF learning_error, Go, Locals
    <2>4. Wrote(r)' = Wrote(r)
      BY <2>1 DEF Wrote, stores
    <2> QED BY <1>1, <1>5, <2>1, <2>3, <2>4 DEF Passed, stores
  <1>8. CASE record_use(r) \/ NoUse(r)
    <2>1. /\ kind' = kind /\ verdict' = verdict /\ pc[r] = "uses" /\ pc'[r] = "memAsk"
          /\ episodes' = episodes /\ local' = local
      BY <1>1, <1>8 DEF record_use, NoUse, Go, stores
    <2>2. CountsUse(Now(r)) => ledger'[r].use # None
      <3>1. UseOutcome(Now(r)) # None
        BY OutcomeAssumption DEF UseOutcome
      <3> QED BY <1>1, <1>8, <3>1 DEF record_use, NoUse, Ledgers
    <2> QED BY <1>1, <1>5, <2>1, <2>2 DEF Passed
  <1>9. CASE Consolidates(r)
    <2>1. /\ kind' = kind /\ verdict' = verdict /\ pc[r] = "memAsk" /\ ledger' = ledger
          /\ episodes' = episodes /\ pc'[r] \in {"mine", "memAsked", "memCommit"}
          /\ pc'[r] = "mine" => ~Consolidated(Now(r))
      BY <1>1, <1>9 DEF Consolidates, Go, stores
    <2>2. local'[r].errors = local[r].errors
      BY <1>1, <1>9 DEF Consolidates, Locals
    <2> QED BY <1>1, <1>5, <2>1, <2>2 DEF Passed
  <1>10. CASE propose(r)
    <2>1. /\ kind' = kind /\ verdict' = verdict /\ pc[r] = "memAsked" /\ pc'[r] = "memCommit"
          /\ episodes' = episodes
      BY <1>1, <1>10 DEF propose, Go
    <2>2. local'[r].errors = local[r].errors /\ ledger'[r].use = ledger[r].use
      BY <1>1, <1>10 DEF propose, Locals, Ledgers
    <2> QED BY <1>1, <1>5, <2>1, <2>2 DEF Passed
  <1>11. CASE commit_candidate(r)
    <2>1. /\ kind' = kind /\ verdict' = verdict /\ pc[r] = "memCommit" /\ pc'[r] = "mine"
          /\ episodes' = episodes /\ local' = local
      BY <1>1, <1>11 DEF commit_candidate, Go
    <2>2. ledger'[r].use = ledger[r].use /\ ledger'[r].memCommit # None
      BY <1>1, <1>11, <2>1 DEF commit_candidate, Ledgers, Prepared
    <2> QED BY <1>1, <1>5, <2>1, <2>2 DEF Passed
  <1>12. CASE Mines(r)
    <2>1. /\ kind' = kind /\ verdict' = verdict /\ pc[r] = "mine" /\ ledger' = ledger
          /\ episodes' = episodes /\ pc'[r] \in {"lessons", "mineAsked", "skill"}
          /\ pc'[r] = "lessons" => ~should_mine(Now(r))
      BY <1>1, <1>12 DEF Mines, Go, stores
    <2>2. local'[r].errors = local[r].errors
      BY <1>1, <1>12 DEF Mines, Locals
    <2>3. Ok(Now(r)) => should_mine(Now(r))
      BY <2>1, InsideFacts DEF Outside
    <2> QED BY <1>1, <1>5, <2>1, <2>2, <2>3 DEF Passed
  <1>13. CASE decide(r)
    <2>1. /\ kind' = kind /\ verdict' = verdict /\ pc[r] = "mineAsked" /\ pc'[r] = "skill"
          /\ episodes' = episodes
      BY <1>1, <1>13 DEF decide, Go
    <2>2. /\ local'[r].errors = local[r].errors /\ ledger'[r].use = ledger[r].use
          /\ ledger'[r].memCommit = ledger[r].memCommit
      BY <1>1, <1>13 DEF decide, Locals, Ledgers
    <2> QED BY <1>1, <1>5, <2>1, <2>2 DEF Passed
  <1>14. CASE Installs(r)
    <2>1. /\ kind' = kind /\ verdict' = verdict /\ pc[r] = "skill" /\ pc'[r] = "lessons"
          /\ episodes' = episodes /\ local' = local
          /\ ledger[r].mineDecision = local[r].decision /\ local[r].decision # None
      BY <1>1, <1>14 DEF Installs, Go, Prepared
    <2>2. /\ ledger'[r].use = ledger[r].use /\ ledger'[r].memCommit = ledger[r].memCommit
          /\ ledger'[r].mineDecision = ledger[r].mineDecision
          /\ Ok(Now(r)) /\ local[r].decision = "skill" => ledger'[r].skill
      BY <1>1, <1>14 DEF Installs, Ledgers
    <2> QED BY <1>1, <1>5, <2>1, <2>2 DEF Passed
  <1>15. CASE AppendsLesson(r)
    <2>1. /\ kind' = kind /\ verdict' = verdict /\ pc[r] = "lessons" /\ pc'[r] = "returned"
          /\ episodes' = episodes /\ local' = local /\ ledger' = ledger
      BY <1>1, <1>15 DEF AppendsLesson, Go
    <2>2. WritesLesson(Now(r)) => Wrote(r)'
      <3>1. CASE Wrote(r)
        BY <1>15, <3>1 DEF AppendsLesson, Wrote
      <3>2. CASE WritesLesson(Now(r)) /\ ~Wrote(r)
        <4>1. lessons' = Append(lessons, LessonOf(r))
          BY <1>15, <3>2 DEF AppendsLesson, Wrote, LessonOf
        <4>2. lessons \in Seq([run : Runs, outcome : {"success", "failure"}])
          BY DEF OutcomeInv, OutcomeTypeOK
        <4>3. Len(lessons) + 1 \in DOMAIN lessons' /\ lessons'[Len(lessons) + 1] = LessonOf(r)
          BY <4>1, <4>2
        <4> QED BY <4>3 DEF LessonOf, Wrote
      <3> QED BY <3>1, <3>2
    <2> QED BY <1>1, <1>5, <2>1, <2>2 DEF Passed
  <1>16. CASE DropsLesson(r)
    <2>1. /\ kind' = kind /\ verdict' = verdict /\ pc[r] = "lessons" /\ pc'[r] = "returned"
          /\ episodes' = episodes /\ ledger' = ledger
      BY <1>1, <1>16 DEF DropsLesson, Go, stores
    <2>2. local'[r].dropped /\ local'[r].errors = local[r].errors
      BY <1>1, <1>16 DEF DropsLesson, Locals
    <2> QED BY <1>1, <1>5, <2>1, <2>2 DEF Passed
  <1> QED BY <1>3, <1>4, <1>6, <1>7, <1>8, <1>9, <1>10, <1>11, <1>12, <1>13, <1>14, <1>15, <1>16
          DEF Acts, Step, Gives

\* The runs whose use of a skill is counted, and those counted as a success.
Counted == {q \in Runs : ledger[q].use # None}
Successes == {q \in Runs : ledger[q].use = "success"}

\* The statistics count the runs in the ledger.
LEMMA UsesStep ==
  ASSUME OutcomeInv, IsFiniteSet(Counted), NEW r \in Runs, Acts(r)
  PROVE  /\ IsFiniteSet(Counted)'
         /\ uses'.count = Cardinality(Counted)' /\ uses'.success = Cardinality(Successes)'
  <1>1. /\ uses.count = Cardinality(Counted) /\ uses.success = Cardinality(Successes)
        /\ ledger \in [Runs -> Ledgers] /\ ledger[r] \in Ledgers
        /\ uses \in [count : Nat, success : Nat]
    BY DEF OutcomeInv, OutcomeTypeOK, LedgerMatchesStores, Counted, Successes
  <1>2. CASE uses' = uses /\ \A q \in Runs : ledger'[q].use = ledger[q].use
    <2>1. Counted' = Counted /\ Successes' = Successes
      BY <1>2 DEF Counted, Successes
    <2> QED BY <1>1, <1>2, <2>1
  <1>3. CASE record_use(r) /\ ledger[r].use = None
    <2> DEFINE o == UseOutcome(Now(r))
    <2>1. /\ ledger' = [ledger EXCEPT ![r].use = o]
          /\ uses' = [count |-> uses.count + 1,
                       success |-> uses.success + IF o = "success" THEN 1 ELSE 0]
      BY <1>3 DEF record_use
    <2>2. o \in {"success", "failure"} /\ o # None /\ None # "success"
      BY OutcomeAssumption DEF UseOutcome
    <2> HIDE DEF o
    <2>3. ledger'[r].use = o /\ \A q \in Runs \ {r} : ledger'[q].use = ledger[q].use
      BY <1>1, <2>1 DEF Ledgers
    <2>4. Counted' = Counted \cup {r} /\ r \notin Counted
      BY <1>3, <2>2, <2>3 DEF Counted
    <2>5. IsFiniteSet(Counted)' /\ Cardinality(Counted)' = Cardinality(Counted) + 1
      BY <2>4, FS_AddElement
    <2>6. IsFiniteSet(Successes) /\ r \notin Successes
      BY <1>3, <2>2, FS_Subset DEF Counted, Successes
    <2>7. CASE o = "success"
      <3>1. Successes' = Successes \cup {r}
        BY <2>3, <2>7 DEF Successes
      <3>2. Cardinality(Successes)' = Cardinality(Successes) + 1
        BY <2>6, <3>1, FS_AddElement
      <3> QED BY <1>1, <2>1, <2>5, <2>7, <3>2
    <2>8. CASE o # "success"
      <3>1. Successes' = Successes
        BY <2>3, <2>6, <2>8 DEF Successes
      <3>2. uses.success + 0 = uses.success
        BY <1>1
      <3> QED BY <1>1, <2>1, <2>5, <2>8, <3>1, <3>2
    <2> QED BY <2>7, <2>8
  <1>4. CASE record_use(r) /\ ledger[r].use # None
    BY <1>2, <1>4 DEF record_use
  <1>5. CASE Gives(r) \/ Reruns(r)
    BY <1>2, <1>5, GivenOnce, RerunFacts DEF stores
  <1>6. CASE ~(record_use(r) \/ Gives(r) \/ Reruns(r))
    <2>1. uses' = uses
      BY <1>6 DEF Acts, Gives, Step, Dies, Terminal, add_episode, EpisodeFails, UseFails, NoUse,
         Consolidates, propose, commit_candidate, MemoryFails, Mines, decide, Installs,
         MiningFails, AppendsLesson, DropsLesson, LessonFails, Replays, stores
    <2>2. CASE propose(r) \/ commit_candidate(r) \/ decide(r) \/ Installs(r)
      <3>1. \A q \in Runs : ledger'[q].use = ledger[q].use
        BY <1>1, <2>2 DEF propose, commit_candidate, decide, Installs, Ledgers
      <3> QED BY <1>2, <2>1, <3>1
    <2>3. CASE ~(propose(r) \/ commit_candidate(r) \/ decide(r) \/ Installs(r))
      <3>1. ledger' = ledger
        BY <1>6, <2>3 DEF Acts, Gives, Step, Dies, Terminal, add_episode, EpisodeFails, UseFails,
           NoUse, Consolidates, MemoryFails, Mines, MiningFails, AppendsLesson, DropsLesson,
           LessonFails, Replays, stores
      <3> QED BY <1>2, <2>1, <3>1
    <2> QED BY <2>2, <2>3
  <1> QED BY <1>3, <1>4, <1>5, <1>6

\* Facts, skills and lessons agree with the ledger.
LEMMA StoresStep ==
  ASSUME OutcomeInv, NEW r \in Runs, Acts(r)
  PROVE  /\ \A f \in Facts : facts'[f] = {q \in Runs : ledger'[q].memCommit = f}
         /\ skills' = {q \in Runs : ledger'[q].skill}
         /\ \A i, j \in DOMAIN lessons' : lessons'[i].run = lessons'[j].run => i = j
  <1>1. /\ \A f \in Facts : facts[f] = {q \in Runs : ledger[q].memCommit = f}
        /\ skills = {q \in Runs : ledger[q].skill}
        /\ \A i, j \in DOMAIN lessons : lessons[i].run = lessons[j].run => i = j
        /\ ledger \in [Runs -> Ledgers] /\ ledger[r] \in Ledgers /\ facts \in [Facts -> SUBSET Runs]
        /\ lessons \in Seq([run : Runs, outcome : {"success", "failure"}])
    BY DEF OutcomeInv, OutcomeTypeOK, LedgerMatchesStores
  <1>2. CASE commit_candidate(r)
    <2>1. lessons' = lessons /\ skills' = skills
      BY <1>2 DEF commit_candidate
    <2>2. \A q \in Runs : ledger'[q].skill = ledger[q].skill
      BY <1>1, <1>2 DEF commit_candidate, Ledgers
    <2>3. CASE ledger[r].memCommit # None
      BY <1>1, <1>2, <2>3 DEF commit_candidate
    <2>4. CASE ledger[r].memCommit = None
      <3>1. /\ ledger' = [ledger EXCEPT ![r].memCommit = local[r].candidate]
            /\ facts' = IF local[r].candidate \notin Facts THEN facts
                        ELSE [facts EXCEPT ![local[r].candidate] = @ \cup {r}]
        BY <1>2, <2>4 DEF commit_candidate
      <3>2. /\ ledger'[r].memCommit = local[r].candidate
            /\ \A q \in Runs \ {r} : ledger'[q].memCommit = ledger[q].memCommit
        BY <1>1, <3>1 DEF Ledgers
      <3>3. ASSUME NEW f \in Facts
            PROVE  facts'[f] = {q \in Runs : ledger'[q].memCommit = f}
        <4>1. f # None /\ r \notin facts[f]
          BY <1>1, <2>4, OutcomeAssumption
        <4>2. facts'[f] = IF local[r].candidate = f THEN facts[f] \cup {r} ELSE facts[f]
          BY <1>1, <3>1
        <4> QED BY <1>1, <3>2, <4>1, <4>2
      <3> QED BY <1>1, <2>1, <2>2, <3>3
    <2> QED BY <2>3, <2>4
  <1>3. CASE Installs(r)
    <2>1. lessons' = lessons /\ facts' = facts
      BY <1>3 DEF Installs
    <2>2. \A q \in Runs : ledger'[q].memCommit = ledger[q].memCommit
      BY <1>1, <1>3 DEF Installs, Ledgers
    <2>3. skills' = {q \in Runs : ledger'[q].skill}
      <3>1. CASE skills' = skills /\ ledger' = ledger
        BY <1>1, <3>1
      <3>2. CASE skills' = skills \cup {r} /\ ledger' = [ledger EXCEPT ![r].skill = TRUE]
        <4>1. \A q \in Runs : ledger'[q].skill <=> (ledger[q].skill \/ q = r)
          BY <1>1, <3>2 DEF Ledgers
        <4> QED BY <1>1, <3>2, <4>1
      <3> QED BY <1>3, <3>1, <3>2 DEF Installs
    <2> QED BY <1>1, <2>1, <2>2, <2>3
  <1>4. CASE AppendsLesson(r)
    <2>1. ledger' = ledger /\ facts' = facts /\ skills' = skills
      BY <1>4 DEF AppendsLesson
    <2>2. CASE lessons' = lessons
      BY <1>1, <2>1, <2>2
    <2>3. CASE ~Wrote(r) /\ lessons' = Append(lessons, LessonOf(r))
      <3>1. /\ DOMAIN lessons = 1 .. Len(lessons) /\ DOMAIN lessons' = 1 .. Len(lessons) + 1
            /\ Len(lessons) \in Nat
            /\ \A i \in 1 .. Len(lessons) : lessons'[i] = lessons[i]
            /\ lessons'[Len(lessons) + 1] = LessonOf(r)
        BY <1>1, <2>3
      <3>2. LessonOf(r).run = r /\ \A i \in 1 .. Len(lessons) : lessons[i].run # r
        BY <2>3, <3>1 DEF LessonOf, Wrote
      <3> QED BY <1>1, <2>1, <3>1, <3>2
    <2> QED BY <1>4, <2>2, <2>3 DEF AppendsLesson, Wrote, LessonOf
  <1>5. CASE Gives(r) \/ Reruns(r)
    BY <1>1, <1>5, GivenOnce, RerunFacts DEF stores
  <1>6. CASE ~(commit_candidate(r) \/ Installs(r) \/ AppendsLesson(r) \/ Gives(r) \/ Reruns(r))
    <2>1. facts' = facts /\ skills' = skills /\ lessons' = lessons
      BY <1>6 DEF Acts, Gives, Step, Dies, Terminal, add_episode, EpisodeFails, record_use, UseFails,
         NoUse, Consolidates, propose, MemoryFails, Mines, decide, MiningFails, DropsLesson, LessonFails,
         Replays, stores
    <2>2. \A q \in Runs : /\ ledger'[q].memCommit = ledger[q].memCommit
                           /\ ledger'[q].skill = ledger[q].skill
      <3>1. CASE record_use(r) \/ propose(r) \/ decide(r)
        <4>1. CASE record_use(r)
          BY <1>1, <4>1 DEF record_use, Ledgers
        <4>2. CASE propose(r)
          BY <1>1, <4>2 DEF propose, Ledgers
        <4>3. CASE decide(r)
          BY <1>1, <4>3 DEF decide, Ledgers
        <4> QED BY <3>1, <4>1, <4>2, <4>3
      <3>2. CASE ~(record_use(r) \/ propose(r) \/ decide(r))
        BY <1>6, <3>2 DEF Acts, Gives, Step, Dies, Terminal, add_episode, EpisodeFails, UseFails,
           NoUse, Consolidates, MemoryFails, Mines, MiningFails, DropsLesson, LessonFails, Replays, stores
      <3> QED BY <3>1, <3>2
    <2> QED BY <1>1, <2>1, <2>2
  <1> QED BY <1>2, <1>3, <1>4, <1>5, <1>6

\* The invariant with the fact the counting needs: only finitely many runs are counted.
CountingInv == OutcomeInv /\ IsFiniteSet(Counted)

\* Before a run ends the stores are empty.
LEMMA InitCounting == Init => CountingInv
  <1> SUFFICES ASSUME Init PROVE CountingInv
    OBVIOUS
  <1>1. NoOps \in Ledgers /\ NoLocal \in Locals /\ <<>> \in Seq([run : Runs, outcome : {"success", "failure"}])
    BY DEF NoOps, Ledgers, NoLocal, Locals
  <1>2. OutcomeTypeOK
    BY <1>1, OutcomeAssumption DEF Init, OutcomeTypeOK
  <1>3. Counted = {} /\ Successes = {} /\ Cardinality({}) = 0 /\ IsFiniteSet({})
    <2>1. \A r \in Runs : ledger[r].use = None /\ None # "success"
      BY OutcomeAssumption DEF Init, NoOps
    <2> QED BY <2>1, FS_EmptySet DEF Counted, Successes
  <1>4. LedgerMatchesStores
    <2>1. \A f \in Facts : facts[f] = {r \in Runs : ledger[r].memCommit = f}
      BY OutcomeAssumption DEF Init, NoOps
    <2>2. skills = {r \in Runs : ledger[r].skill} /\ DOMAIN lessons = {}
      BY DEF Init, NoOps
    <2>3. uses.count = 0 /\ uses.success = 0
      BY DEF Init
    <2> QED BY <1>3, <2>1, <2>2, <2>3 DEF LedgerMatchesStores, Counted, Successes
  <1>5. ASSUME NEW r \in Runs PROVE Judged(r) /\ Allowed(r) /\ Prepared(r) /\ Passed(r)
    <2>1. /\ pc[r] = "end" /\ verdict[r] = None /\ status[r] = None /\ episodes[r] = None
          /\ ledger[r] = NoOps /\ DOMAIN lessons = {} /\ past[r] = {}
      BY DEF Init
    <2>2. Judged(r) /\ Allowed(r)
      BY <2>1 DEF Judged, Allowed, NoOps, Outside
    <2> QED BY <2>1, <2>2 DEF Prepared, Passed, FromUses, FromMemory, FromMine, FromLessons
  <1> QED BY <1>2, <1>3, <1>4, <1>5 DEF CountingInv, OutcomeInv

\* The invariant is inductive.
LEMMA CountingStep == CountingInv /\ [Next]_vars => CountingInv'
  <1>1. ASSUME CountingInv, NEW r \in Runs, Acts(r)
        PROVE  CountingInv'
    <2>1. OutcomeInv /\ IsFiniteSet(Counted) /\ OutcomeTypeOK
      BY <1>1 DEF CountingInv, OutcomeInv
    <2>2. OutcomeTypeOK'
      BY <1>1, <2>1, TypeStep
    <2>3. LedgerMatchesStores' /\ IsFiniteSet(Counted)'
      BY <1>1, <2>1, UsesStep, StoresStep DEF LedgerMatchesStores, Counted, Successes
    <2>4. Judged(r)' /\ Allowed(r)' /\ Prepared(r)' /\ Passed(r)'
      BY <1>1, <2>1, JudgedStep, AllowedStep, PreparedStep, PassedStep
    <2>5. \A q \in Runs \ {r} : Judged(q)' /\ Allowed(q)' /\ Prepared(q)' /\ Passed(q)'
      BY <1>1, <2>1, OnlyStep, OthersKept
    <2>6. \A q \in Runs : Judged(q)' /\ Allowed(q)' /\ Prepared(q)' /\ Passed(q)'
      BY <2>4, <2>5
    <2> QED BY <2>2, <2>3, <2>6 DEF CountingInv, OutcomeInv
  <1>2. ASSUME CountingInv, UNCHANGED vars
        PROVE  CountingInv'
    <2>1. OutcomeTypeOK' /\ LedgerMatchesStores' /\ IsFiniteSet(Counted)'
      BY <1>2 DEF CountingInv, OutcomeInv, OutcomeTypeOK, LedgerMatchesStores, Counted, vars,
         stores
    <2>2. ASSUME NEW r \in Runs PROVE Judged(r)' /\ Allowed(r)' /\ Prepared(r)' /\ Passed(r)'
      <3>1. /\ Judged(r) /\ Allowed(r) /\ Prepared(r) /\ Passed(r)
            /\ UNCHANGED <<kind, past, pc, verdict, stores, local>>
        BY <1>2 DEF CountingInv, OutcomeInv, vars
      <3>2. Now(r)' = Now(r) /\ Judgements(r)' = Judgements(r)
        BY <3>1, SameTry
      <3>3. Allowed(r)'
        BY <3>1, <3>2, AllowedKept DEF stores
      <3> QED BY <3>1, <3>2, <3>3 DEF Judged, Prepared, Passed, Wrote, stores
    <2> QED BY <2>1, <2>2 DEF CountingInv, OutcomeInv
  <1> QED BY <1>1, <1>2 DEF Next, Over, Acts

\* Outcome.OutcomeInv holds in every behaviour: whatever is called done in a ledger is in
\* the stores exactly once, and every run has left what the verdict of one of its tries
\* allows, also when a campaign tries its task again and another verdict is given.
THEOREM OutcomeCorrect == Spec => []OutcomeInv
  <1>1. CountingInv => OutcomeInv
    BY DEF CountingInv
  <1> QED BY <1>1, InitCounting, CountingStep, PTL DEF Spec

\* Outcome.CarriesOutTheDecision: what is committed and installed is the recorded decision.
THEOREM DecisionIsCarriedOut == Spec => []CarriesOutTheDecision
  <1>1. OutcomeInv => CarriesOutTheDecision
    BY DEF OutcomeInv, Allowed, CarriesOutTheDecision
  <1> QED BY <1>1, OutcomeCorrect, PTL

\* Outcome.CompleteOrReported: a run that returned did all that was due, or reported it;
\* only a lesson without its package directory is dropped in silence.
THEOREM ReturnsComplete == Spec => []CompleteOrReported
  <1>1. OutcomeInv => CompleteOrReported
    BY DEF OutcomeInv, Passed, CompleteOrReported, Wrote, FromUses, FromMemory, FromMine,
       FromLessons
  <1> QED BY <1>1, OutcomeCorrect, PTL

\* What the rules of LearnsFromVerdict say of a kind is what the code's verdict says.
LEMMA KindRules ==
  ASSUME NEW k \in Kinds, NEW j, j.kind = k, j.verdict = VerdictOf(k)
  PROVE  LET Evaluated == k.defer /\ k.class \in {None, "infrastructure"}
             Good == IF Evaluated THEN k.official = "passed" ELSE k.graph = "success"
         IN  /\ Ok(j) = Good
             /\ ~Evaluated => Class(j) = k.class /\ (k.class = "infrastructure" => ~Ok(j))
  <1>1. k.graph = "success" <=> k.class = None
    BY KindFacts
  <1>2. (k.defer /\ k.class \in {None, "infrastructure"}) <=> Deferred(k)
    BY <1>1, KindFacts DEF Deferred
  <1>3. None # "infrastructure"
    BY OutcomeAssumption DEF Classes
  <1>4. CASE Deferred(k)
    <2>1. VerdictOf(k).success = (k.official = "passed")
      BY <1>4 DEF VerdictOf
    <2> QED BY <1>2, <1>4, <2>1 DEF Ok
  <1>5. CASE ~Deferred(k)
    <2>1. VerdictOf(k).success = (k.graph = "success") /\ VerdictOf(k).class = k.class
      BY <1>5 DEF VerdictOf
    <2>2. k.class = "infrastructure" => k.graph # "success"
      BY <1>1, <1>3
    <2> QED BY <1>2, <1>5, <2>1, <2>2 DEF Ok, Class
  <1> QED BY <1>4, <1>5

\* A judgement of a run is a verdict on one of the ways it ended.
LEMMA JudgementFacts ==
  ASSUME OutcomeInv, NEW r \in Runs, NEW j \in Judgements(r)
  PROVE  j.kind \in Kinds /\ j.kind \in Ended(r) /\ j.verdict = VerdictOf(j.kind)
  <1>1. /\ past[r] \in SUBSET [kind : Kinds, verdict : Verdicts] /\ kind[r] \in Kinds /\ Judged(r)
    BY DEF OutcomeInv, OutcomeTypeOK
  <1>2. CASE j \in past[r]
    BY <1>1, <1>2 DEF Judged, Ended
  <1>3. CASE verdict[r] # None /\ j = Now(r)
    <2>1. j.kind = kind[r] /\ j.verdict = verdict[r]
      BY <1>3 DEF Now
    <2> QED BY <1>1, <1>3, <2>1 DEF Judged, Ended
  <1> QED BY <1>2, <1>3 DEF Judgements

\* What a run leaves is what the verdict on one of its tries allows.
LEMMA VerdictRules ==
  ASSUME OutcomeInv, NEW r \in Runs
  PROVE  LET Evaluated(k) == k.defer /\ k.class \in {None, "infrastructure"}
             Good(k) == IF Evaluated(k) THEN k.official = "passed" ELSE k.graph = "success"
             Of(k, classes) == ~Evaluated(k) /\ k.class \in classes
         IN  /\ (\E f \in Facts : r \in facts[f]) \/ r \in skills => \E k \in Ended(r) : Good(k)
             /\ pc[r] = "returned" => (status[r] = "success") = Good(kind[r])
             /\ status[r] # None => \E k \in Ended(r) : (status[r] = "success") = Good(k)
             /\ episodes[r] # None =>
                  \E k \in Ended(r) : episodes[r].success = Good(k) /\ ~Of(k, {"infrastructure"})
             /\ ledger[r].use # None =>
                  \E k \in Ended(r) : ~Of(k, {"infrastructure", "model", "budget"})
             /\ \A i \in DOMAIN lessons : lessons[i].run = r /\ lessons[i].outcome = "success" =>
                  \E k \in Ended(r) : Good(k) /\ ~k.scriptFailed
  <1> DEFINE Evaluated(k) == k.defer /\ k.class \in {None, "infrastructure"}
             Good(k) == IF Evaluated(k) THEN k.official = "passed" ELSE k.graph = "success"
             Of(k, classes) == ~Evaluated(k) /\ k.class \in classes
  <1>1. Judged(r) /\ Allowed(r) /\ LedgerMatchesStores /\ kind[r] \in Kinds
    BY DEF OutcomeInv, OutcomeTypeOK
  <1>2. \A j \in Judgements(r) :
           /\ j.kind \in Ended(r) /\ Ok(j) = Good(j.kind)
           /\ ~Evaluated(j.kind) => Class(j) = j.kind.class /\ (j.kind.class = "infrastructure" => ~Ok(j))
    BY JudgementFacts, KindRules
  <1>3. \A j \in Judgements(r) : Final(j) = "success" <=> Good(j.kind)
    BY <1>2 DEF Final
  <1> HIDE DEF Evaluated, Good
  <1>4. (\E f \in Facts : r \in facts[f]) \/ r \in skills => \E k \in Ended(r) : Good(k)
    <2>1. ASSUME NEW f \in Facts, r \in facts[f] PROVE \E j \in Judgements(r) : Ok(j)
      <3>1. ledger[r].memCommit = f /\ f # None
        BY <1>1, <2>1, OutcomeAssumption DEF LedgerMatchesStores
      <3> QED BY <1>1, <3>1 DEF Allowed, Consolidated
    <2>2. ASSUME r \in skills PROVE \E j \in Judgements(r) : Ok(j)
      <3>1. ledger[r].skill
        BY <1>1, <2>2 DEF LedgerMatchesStores
      <3> QED BY <1>1, <3>1 DEF Allowed
    <2> QED BY <1>2, <2>1, <2>2
  <1>5. pc[r] = "returned" => (status[r] = "success") = Good(kind[r])
    <2> SUFFICES ASSUME pc[r] = "returned" PROVE (status[r] = "success") = Good(kind[r])
      OBVIOUS
    <2>1. Now(r) \in Judgements(r) /\ Now(r).kind = kind[r]
      BY InsideFacts DEF Outside, Now
    <2>2. status[r] = Final(Now(r))
      BY <1>1 DEF Judged, Outside
    <2>3. Good(kind[r]) \in BOOLEAN
      BY DEF Good
    <2> QED BY <1>3, <2>1, <2>2, <2>3
  <1>6. status[r] # None => \E k \in Ended(r) : (status[r] = "success") = Good(k)
    <2> SUFFICES ASSUME status[r] # None
                 PROVE  \E k \in Ended(r) : (status[r] = "success") = Good(k)
      OBVIOUS
    <2>1. PICK j \in Judgements(r) : status[r] = Final(j)
      BY <1>1 DEF Allowed
    <2>2. Good(j.kind) \in BOOLEAN
      BY DEF Good
    <2> QED BY <1>2, <1>3, <2>1, <2>2
  <1>7. episodes[r] # None =>
           \E k \in Ended(r) : episodes[r].success = Good(k) /\ ~Of(k, {"infrastructure"})
    <2> SUFFICES ASSUME episodes[r] # None
                 PROVE  \E k \in Ended(r) : episodes[r].success = Good(k) /\ ~Of(k, {"infrastructure"})
      OBVIOUS
    <2>1. PICK j \in Judgements(r) : episodes[r] = j.verdict /\ should_persist_episode(j)
      BY <1>1 DEF Allowed
    <2>2. episodes[r].success = Good(j.kind)
      BY <1>2, <2>1 DEF Ok
    <2>3. ~Of(j.kind, {"infrastructure"})
      BY <1>2, <2>1 DEF should_persist_episode
    <2> QED BY <1>2, <2>2, <2>3
  <1>8. ledger[r].use # None =>
           \E k \in Ended(r) : ~Of(k, {"infrastructure", "model", "budget"})
    <2> SUFFICES ASSUME ledger[r].use # None
                 PROVE  \E k \in Ended(r) : ~Of(k, {"infrastructure", "model", "budget"})
      OBVIOUS
    <2>1. PICK j \in Judgements(r) : CountsUse(j)
      BY <1>1 DEF Allowed
    <2> QED BY <1>2, <2>1 DEF CountsUse
  <1>9. ASSUME NEW i \in DOMAIN lessons, lessons[i].run = r, lessons[i].outcome = "success"
        PROVE  \E k \in Ended(r) : Good(k) /\ ~k.scriptFailed
    <2>1. PICK j \in Judgements(r) : lessons[i].outcome = UseOutcome(j)
      BY <1>1, <1>9 DEF Allowed
    <2>2. Ok(j) /\ ~j.kind.scriptFailed
      BY <1>9, <2>1 DEF UseOutcome, UseSucceeded
    <2> QED BY <1>2, <2>2
  <1> USE DEF Evaluated, Good
  <1> QED BY <1>4, <1>5, <1>6, <1>7, <1>8, <1>9

\* Outcome.LearnsFromVerdict: only a success is learnt from, for a deferred run the
\* official evaluator says what a success is, and a returned run has the status of its
\* last verdict, also when a campaign tried the task more than once.
THEOREM LearningFollowsTheVerdict == Spec => []LearnsFromVerdict
  <1>1. OutcomeInv => LearnsFromVerdict
    BY VerdictRules DEF LearnsFromVerdict
  <1> QED BY <1>1, OutcomeCorrect, PTL
=============================================================================
