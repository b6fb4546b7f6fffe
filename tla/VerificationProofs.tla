------------------------- MODULE VerificationProofs -------------------------
(***************************************************************************)
(* Proofs about Verification, for any command lists, budgets, tests,       *)
(* retries and faults.                                                     *)
(***************************************************************************)
EXTENDS Verification, FiniteSetTheorems, SequenceTheorems, TLAPS

(***************************************************************************)
(* The plan and the verdict                                                *)
(***************************************************************************)
\* A function on an initial segment is a sequence of its values.
LEMMA SegmentIsSequence ==
  ASSUME NEW n \in Nat, NEW f, f = [i \in 1 .. n |-> f[i]]
  PROVE  f \in Seq(Range(f))
  <1>1. \A i \in 1 .. n : f[i] \in Range(f)
    BY DEF Range
  <1>2. [i \in 1 .. n |-> f[i]] \in [1 .. n -> Range(f)]
    BY <1>1
  <1> QED BY <1>2

\* A plan is a sequence.
LEMMA PlanIsSequence ==
  ASSUME NEW in \in Inputs
  PROVE  build_verification_plan(in) \in Seq(Range(build_verification_plan(in)))
  <1> DEFINE Tag(s, source) == [i \in DOMAIN s |-> [command |-> s[i], source |-> source]]
             first == Tag(in.mandatory, "mandatory")
             rest == Tag(in.supplementary, "supplementary")
             all == first \o rest
             kept == {i \in DOMAIN all : \A j \in DOMAIN all : j < i => all[j].command # all[i].command}
             kth(k) == CHOOSE i \in kept : Cardinality({j \in kept : j <= i}) = k
             planned == [k \in 1 .. Cardinality(kept) |-> all[kth(k)]]
  <1>1. in.mandatory \in Seq(Range(in.mandatory)) /\ in.supplementary \in Seq(Range(in.supplementary))
    BY VerificationAssumption
  <1>2. first \in Seq(Range(first)) /\ rest \in Seq(Range(rest))
    <2>1. first = [i \in 1 .. Len(in.mandatory) |-> first[i]] /\ Len(in.mandatory) \in Nat
      BY <1>1
    <2>2. rest = [i \in 1 .. Len(in.supplementary) |-> rest[i]] /\ Len(in.supplementary) \in Nat
      BY <1>1
    <2> HIDE DEF first, rest
    <2> QED BY <2>1, <2>2, SegmentIsSequence
  <1> HIDE DEF first, rest
  <1>3. all \in Seq(Range(first) \cup Range(rest))
    <2>1. first \in Seq(Range(first) \cup Range(rest)) /\ rest \in Seq(Range(first) \cup Range(rest))
      BY <1>2 DEF Range
    <2> QED BY <2>1
  <1>4. DOMAIN all = 1 .. Len(all) /\ Len(all) \in Nat
    BY <1>3
  <1>5. IsFiniteSet(1 .. Len(all))
    BY <1>4, FS_Interval
  <1>6. kept \subseteq 1 .. Len(all)
    BY <1>4
  <1>7. IsFiniteSet(kept)
    BY <1>5, <1>6, FS_Subset
  <1>8. Cardinality(kept) \in Nat
    BY <1>7, FS_CardinalityType
  <1>9. planned \in Seq(Range(planned))
    <2> DEFINE n == Cardinality(kept)
               f(k) == all[kth(k)]
    <2>1. n \in Nat
      BY <1>8
    <2> HIDE DEF n, f
    <2>2. [k \in 1 .. n |-> f(k)] \in Seq(Range([k \in 1 .. n |-> f(k)]))
      BY <2>1 DEF Range
    <2> QED BY <2>2 DEF n, f
  <1>10. build_verification_plan(in) = planned
    BY DEF build_verification_plan, first, rest
  <1> QED BY <1>9, <1>10

\* The results of a broken-off run name every planned command.
LEMMA SkipRestFills ==
  ASSUME plan \in Seq(Range(plan)), NEW ran \in Seq(Results), Len(ran) <= Len(plan)
  PROVE  /\ SkipRest(ran) \in Seq(Results) /\ Len(SkipRest(ran)) = Len(plan)
         /\ \A i \in 1 .. Len(ran) : SkipRest(ran)[i] = ran[i]
         /\ \A i \in 1 .. Len(plan) : i > Len(ran) => ~SkipRest(ran)[i].executed
  <1>1. Len(plan) \in Nat /\ Len(ran) \in Nat
    OBVIOUS
  <1> DEFINE m == Len(plan) - Len(ran)
             skipped == [i \in 1 .. m |-> Skipped]
  <1>2. m \in Nat /\ Len(ran) + m = Len(plan)
    BY <1>1
  <1> HIDE DEF m
  <1>3. Skipped \in Results /\ ~Skipped.executed
    BY DEF Skipped, Results, Outputs
  <1>4. skipped \in Seq(Results) /\ Len(skipped) = m /\ \A i \in 1 .. m : skipped[i] = Skipped
    BY <1>2, <1>3
  <1> HIDE DEF skipped
  <1>5. SkipRest(ran) = ran \o skipped
    BY DEF SkipRest, skipped, m
  <1>6. /\ ran \o skipped \in Seq(Results) /\ Len(ran \o skipped) = Len(ran) + m
        /\ \A i \in 1 .. Len(ran) + m :
             (ran \o skipped)[i] = IF i <= Len(ran) THEN ran[i] ELSE skipped[i - Len(ran)]
    BY <1>4, ConcatProperties
  <1>7. \A i \in 1 .. Len(plan) : i > Len(ran) => i - Len(ran) \in 1 .. m
    BY <1>1, <1>2
  <1> QED BY <1>1, <1>2, <1>3, <1>4, <1>5, <1>6, <1>7

\* No command was run.
LEMMA NothingRun ==
  ASSUME plan \in Seq(Range(plan))
  PROVE  /\ SkipRest(<<>>) \in Seq(Results) /\ Len(SkipRest(<<>>)) = Len(plan)
         /\ \A i \in DOMAIN SkipRest(<<>>) : ~SkipRest(<<>>)[i].executed
  <1> DEFINE ran == <<>>
  <1>1. ran \in Seq(Results) /\ Len(ran) = 0
    OBVIOUS
  <1>2. Len(ran) = 0 /\ Len(plan) \in Nat /\ Len(ran) <= Len(plan)
    BY <1>1
  <1> HIDE DEF ran
  <1>3. /\ SkipRest(ran) \in Seq(Results) /\ Len(SkipRest(ran)) = Len(plan)
        /\ \A i \in 1 .. Len(plan) : i > Len(ran) => ~SkipRest(ran)[i].executed
    BY <1>1, <1>2, SkipRestFills
  <1>4. \A i \in DOMAIN SkipRest(ran) : ~SkipRest(ran)[i].executed
    BY <1>2, <1>3
  <1> QED BY <1>3, <1>4 DEF ran

\* What a verdict on commands can be, and what it says of them.
LEMMA VerdictSays ==
  ASSUME plan \in Seq(Range(plan)), NEW rs \in Seq(Results), Len(rs) <= Len(plan), NEW why, NEW oracle \in BOOLEAN
  PROVE  LET v == evaluate_verification(rs, oracle, why)
         IN  /\ v \in {"unavailable", "inconclusive", "infra_error", "failed", "incomplete", "passed"}
             /\ v = "passed" => /\ oracle /\ why = None /\ Len(rs) = Len(plan)
                                /\ \A i \in DOMAIN rs : rs[i].executed /\ ~Failed(rs[i])
             /\ v = "failed" => oracle /\ \E i \in DOMAIN rs : Failed(rs[i]) /\ ~rs[i].timed_out
  <1> DEFINE v == evaluate_verification(rs, oracle, why)
             failed == {r \in Range(rs) : Failed(r)}
             env == {r \in failed : environment_failure_reason(r) # None}
             ran == {i \in DOMAIN rs : rs[i].executed}
  <1>1. v = IF ~oracle THEN "unavailable"
            ELSE IF env # {}
                 THEN IF \E r \in failed : r.output \in {"baseline", "both"} THEN "inconclusive" ELSE "infra_error"
            ELSE IF failed # {} THEN "failed"
            ELSE IF why # None \/ Cardinality(ran) < Len(plan) THEN "incomplete"
            ELSE "passed"
    BY DEF evaluate_verification
  <1>2. Len(rs) \in Nat /\ Len(plan) \in Nat /\ DOMAIN rs = 1 .. Len(rs)
    OBVIOUS
  <1>3. IsFiniteSet(1 .. Len(rs)) /\ Cardinality(1 .. Len(rs)) = Len(rs)
    <2> DEFINE n == Len(rs)
    <2>1. n \in Nat /\ 1 \in Int /\ n \in Int
      BY <1>2
    <2> HIDE DEF n
    <2>2. IsFiniteSet(1 .. n) /\ Cardinality(1 .. n) = (IF 1 > n THEN 0 ELSE n - 1 + 1)
      BY <2>1, FS_Interval
    <2>3. (IF 1 > n THEN 0 ELSE n - 1 + 1) = n
      BY <2>1
    <2> QED BY <2>2, <2>3 DEF n
  <1>4. /\ IsFiniteSet(ran) /\ Cardinality(ran) <= Len(rs) /\ Cardinality(ran) \in Nat
        /\ Cardinality(ran) = Len(rs) => ran = 1 .. Len(rs)
    <2>1. ran \subseteq 1 .. Len(rs)
      BY <1>2
    <2> HIDE DEF ran
    <2>2. /\ IsFiniteSet(ran) /\ Cardinality(ran) <= Cardinality(1 .. Len(rs))
          /\ Cardinality(ran) = Cardinality(1 .. Len(rs)) => ran = 1 .. Len(rs)
      BY <1>3, <2>1, FS_Subset
    <2>3. Cardinality(ran) \in Nat
      BY <2>2, FS_CardinalityType
    <2> QED BY <1>3, <2>2, <2>3
  <1>5. ASSUME failed # {}, env = {}
        PROVE  \E i \in DOMAIN rs : Failed(rs[i]) /\ ~rs[i].timed_out
    <2>1. PICK r \in failed : r \in Range(rs) /\ Failed(r)
      BY <1>5
    <2>a. PICK i \in DOMAIN rs : r = rs[i]
      BY <2>1 DEF Range
    <2>2. Failed(rs[i]) /\ rs[i].executed /\ environment_failure_reason(rs[i]) = None
      BY <1>5, <2>1, <2>a DEF Failed
    <2>3. ~rs[i].timed_out
      BY <2>2, VerificationAssumption DEF environment_failure_reason
    <2> QED BY <2>2, <2>3
  <1>6. ASSUME failed = {}, ~(Cardinality(ran) < Len(plan))
        PROVE  Len(rs) = Len(plan) /\ \A i \in DOMAIN rs : rs[i].executed /\ ~Failed(rs[i])
    <2>1. Len(rs) = Len(plan) /\ ran = 1 .. Len(rs)
      <3> HIDE DEF ran
      <3> QED BY <1>2, <1>4, <1>6
    <2>2. \A i \in DOMAIN rs : ~Failed(rs[i])
      BY <1>6 DEF Range
    <2> QED BY <1>2, <2>1, <2>2
  <1> HIDE DEF v, failed, env, ran
  <1> QED BY <1>1, <1>5, <1>6 DEF v

(***************************************************************************)
(* The inductive invariant                                                 *)
(***************************************************************************)
\* Where the coroutine, the thread, the copy and the containers stand, and what
\* results and scores stand for: all of VerificationInv that is not a consequence.
Core ==
  /\ VerificationTypeOK /\ ThreadFits /\ CopyHeld /\ ContainersHeld
  /\ ResultsRecorded /\ VerdictComesLast /\ ScoresCompare

\* What the verdict says.
Verdicts == VerdictMatchesRuns /\ FailBeforePassAfter

\* While there is no verdict, it says nothing.
LEMMA Undecided ==
  ASSUME verdict = None
  PROVE  Verdicts
  BY VerificationAssumption DEF Verdicts, VerdictMatchesRuns, FailBeforePassAfter

\* There are as many containers as daemon calls that failed, at most.
LEMMA ContainersFinite ==
  ASSUME VerificationTypeOK
  PROVE  /\ IsFiniteSet(containers) /\ IsFiniteSet(containers \ registered)
         /\ Cardinality(containers \ registered) \in Nat
         /\ faults \in Nat /\ faults <= MaxFaults /\ MaxFaults \in Nat /\ extra \in Nat
  <1>1. PtpRetries \in Nat /\ MaxFaults \in Nat
    BY VerificationAssumption
  <1>2. IsFiniteSet({"baseline", "final"}) /\ IsFiniteSet(0 .. PtpRetries)
    <2>1. IsFiniteSet({}) 
      BY FS_EmptySet
    <2>2. IsFiniteSet({} \cup {"baseline"})
      BY <2>1, FS_AddElement
    <2>3. IsFiniteSet(({} \cup {"baseline"}) \cup {"final"})
      BY <2>2, FS_AddElement
    <2>4. ({} \cup {"baseline"}) \cup {"final"} = {"baseline", "final"}
      OBVIOUS
    <2>5. IsFiniteSet(0 .. PtpRetries)
      BY <1>1, FS_Interval
    <2> QED BY <2>3, <2>4, <2>5
  <1>3. IsFiniteSet({"baseline", "final"} \X (0 .. PtpRetries))
    BY <1>2, FS_Product
  <1>4. containers \subseteq {"baseline", "final"} \X (0 .. PtpRetries) /\ faults \in 0 .. MaxFaults
        /\ extra \in 0 .. PtpRetries
    BY DEF VerificationTypeOK
  <1>5. IsFiniteSet(containers)
    BY <1>3, <1>4, FS_Subset
  <1>6. IsFiniteSet(containers \ registered)
    BY <1>5, FS_Subset
  <1>7. Cardinality(containers \ registered) \in Nat
    BY <1>6, FS_CardinalityType
  <1> QED BY <1>1, <1>4, <1>5, <1>6, <1>7

\* A local verification leaves containers and scores alone.
LEMMA LocalFrame ==
  ASSUME VerificationTypeOK, ThreadFits, ThreadFits', ContainersHeld, ScoresCompare,
         mode = "local", mode' = mode, pc' # "preflight", UNCHANGED docker,
         faults' = faults \/ faults' = faults + 1
  PROVE  ContainersHeld' /\ ScoresCompare'
  <1>1. /\ UNCHANGED phase /\ UNCHANGED before /\ UNCHANGED score /\ UNCHANGED extra
        /\ UNCHANGED containers /\ UNCHANGED registered
    BY DEF docker
  <1>2. thread.at \notin {"prepare", "ftp", "ptp", "remove"} /\ thread'.at \notin {"prepare", "ftp", "ptp", "remove"}
    BY DEF ThreadFits
  <1>3. Cardinality(containers \ registered) <= faults /\ registered = {}
    BY <1>2 DEF ContainersHeld
  <1>4. Cardinality((containers \ registered)') <= faults'
    BY <1>1, <1>3, ContainersFinite
  <1>5. ContainersHeld'
    BY <1>1, <1>2, <1>3, <1>4 DEF ContainersHeld
  <1>6. ScoresCompare'
    BY <1>1 DEF ScoresCompare, FailedBefore
  <1> QED BY <1>5, <1>6

\* A failing operation.
LEMMA Faulty ==
  ASSUME VerificationTypeOK, Fault
  PROVE  faults' = faults + 1 /\ faults' \in 0 .. MaxFaults
  BY ContainersFinite DEF Fault

(***************************************************************************)
(* VerificationService.run                                                 *)
(***************************************************************************)
\* Before the first command.
LEMMA LocalBeginsKeeps ==
  ASSUME Core, LocalBegins
  PROVE  Core' /\ Verdicts'
  <1> USE DEF Core
  <1>1. CASE ~HasOracle
    <2>1. results' \in Seq(Results) /\ Len(results') = Len(plan)
      BY <1>1, NothingRun DEF LocalBegins, VerificationTypeOK
    <2>2. \A i \in DOMAIN results' : ~results'[i].executed
      BY <1>1, NothingRun DEF LocalBegins, VerificationTypeOK
    <2>3. verdict' = "unavailable"
      BY <1>1 DEF LocalBegins, evaluate_verification
    <2>4. VerificationTypeOK'
      BY <1>1, <2>1, <2>3 DEF LocalBegins, VerificationTypeOK, docker
    <2>5. ThreadFits' /\ CopyHeld' /\ VerdictComesLast'
      BY <1>1 DEF LocalBegins, ThreadFits, CopyHeld, VerdictComesLast
    <2>6. ContainersHeld' /\ ScoresCompare'
      BY <2>5, LocalFrame DEF LocalBegins
    <2>7. ResultsRecorded'
      BY <1>1, <2>2 DEF LocalBegins, ResultsRecorded
    <2>8. Verdicts'
      BY <2>3 DEF Verdicts, VerdictMatchesRuns, FailBeforePassAfter
    <2> QED BY <2>4, <2>5, <2>6, <2>7, <2>8
  <1>2. CASE HasOracle
    <2>1. VerificationTypeOK'
      BY <1>2 DEF LocalBegins, VerificationTypeOK, docker
    <2>2. ThreadFits' /\ CopyHeld'
      BY <1>2 DEF LocalBegins, ThreadFits, CopyHeld
    <2>3. VerdictComesLast' /\ verdict' = None
      BY <1>2 DEF LocalBegins, VerdictComesLast, HasOracle
    <2>4. ContainersHeld' /\ ScoresCompare'
      BY <2>2, LocalFrame DEF LocalBegins
    <2>5. ResultsRecorded'
      BY <1>2 DEF LocalBegins, ResultsRecorded
    <2>6. Verdicts'
      BY <2>3, VerificationAssumption DEF Verdicts, VerdictMatchesRuns, FailBeforePassAfter
    <2> QED BY <2>1, <2>2, <2>3, <2>4, <2>5, <2>6
  <1> QED BY <1>1, <1>2

\* The copy is made, or its making fails.
LEMMA CopyKeeps ==
  ASSUME Core, isolated_workspace
  PROVE  Core' /\ verdict' = None
  <1> USE DEF Core
  <1>m. mode = "local" /\ mode' = mode
    BY DEF isolated_workspace, CopyHeld
  <1>f. faults' = faults \/ (faults' = faults + 1 /\ faults' \in 0 .. MaxFaults)
    BY Faulty DEF isolated_workspace
  <1>1. VerificationTypeOK'
    <2>1. copy' \in BOOLEAN
      BY ZenonT(20) DEF isolated_workspace
    <2>2. faults' \in 0 .. MaxFaults
      BY <1>f DEF VerificationTypeOK
    <2> QED BY <2>1, <2>2 DEF isolated_workspace, VerificationTypeOK, docker
  <1>2. ThreadFits' /\ CopyHeld'
    BY <1>m DEF isolated_workspace, ThreadFits, CopyHeld
  <1>3. VerdictComesLast' /\ verdict' = None
    BY DEF isolated_workspace, VerdictComesLast, HasOracle
  <1>4. ContainersHeld' /\ ScoresCompare'
    BY <1>2, <1>m, <1>f, LocalFrame DEF isolated_workspace
  <1>5. ResultsRecorded'
    BY DEF isolated_workspace, ResultsRecorded
  <1> QED BY <1>1, <1>2, <1>3, <1>4, <1>5

\* Executed results that tell what became of their processes.
OnRecord(rs) ==
  \A i \in DOMAIN rs : rs[i].executed => i <= Len(fates) /\ rs[i].exit = fates[i] /\ Ran(rs[i])

\* A broken-off run names every command, and what it ran stays on record.
LEMMA BrokenOffRecords ==
  ASSUME VerificationTypeOK, NEW ran \in Seq(Results), Len(ran) <= Len(plan), OnRecord(ran),
         results' = SkipRest(ran), fates' = fates, pc' = "cleanup"
  PROVE  results' \in Seq(Results) /\ Len(results') = Len(plan) /\ ResultsRecorded'
  <1>1. plan \in Seq(Range(plan)) /\ Len(plan) \in Nat /\ Len(ran) \in Nat
    BY DEF VerificationTypeOK
  <1>2. /\ results' \in Seq(Results) /\ Len(results') = Len(plan)
        /\ \A i \in 1 .. Len(ran) : results'[i] = ran[i]
        /\ \A i \in 1 .. Len(plan) : i > Len(ran) => ~results'[i].executed
    BY <1>1, SkipRestFills
  <1>3. \A i \in DOMAIN results' : results'[i].executed => i \in DOMAIN ran /\ results'[i] = ran[i]
    BY <1>1, <1>2
  <1>4. \A i \in DOMAIN results' :
          results'[i].executed => i <= Len(fates) /\ results'[i].exit = fates[i] /\ Ran(results'[i])
    BY <1>3 DEF OnRecord
  <1>5. ResultsRecorded'
    BY <1>4 DEF ResultsRecorded, Ran
  <1> QED BY <1>2, <1>5

\* The next command, an exhausted budget, or no directory to run it in.
LEMMA NextCommandKeeps ==
  ASSUME Core, NextCommand
  PROVE  Core' /\ verdict' = None
  <1> USE DEF Core
  <1>n. mode = "local" /\ mode' = mode /\ plan' = plan /\ fates' = fates
    BY DEF NextCommand, CopyHeld
  <1>v. VerdictComesLast' /\ verdict' = None
    BY DEF NextCommand, VerdictComesLast, HasOracle
  <1>1. CASE budget > 0 /\ budget' = budget - 1 /\ Spawns("queued") /\ pc' = "await"
             /\ UNCHANGED <<results, cause, raising, faults>>
    <2>1. VerificationTypeOK'
      <3>1. thread' = [at |-> "queued", cancellation |-> FALSE, out |-> None]
        BY <1>1 DEF Spawns, NoThread
      <3>2. thread' = [at |-> thread'.at, cancellation |-> thread'.cancellation, out |-> thread'.out]
        BY <3>1
      <3>3. budget' \in Nat
        BY <1>1 DEF VerificationTypeOK
      <3> QED BY <1>1, <3>2, <3>3 DEF NextCommand, VerificationTypeOK, docker
    <2>2. ThreadFits'
      BY <1>1, <1>n DEF NextCommand, ThreadFits, Spawns, NoThread
    <2>3. CopyHeld'
      BY <1>1, <1>n DEF NextCommand, CopyHeld, ThreadFits
    <2>4. ContainersHeld' /\ ScoresCompare'
      BY <2>2, <1>1, <1>n, LocalFrame DEF NextCommand
    <2>5. thread'.at = "queued"
      BY <1>1 DEF Spawns, NoThread
    <2>6. ResultsRecorded'
      BY <1>1, <1>n, <2>5 DEF NextCommand, ResultsRecorded
    <2> QED BY <2>1, <2>2, <2>3, <2>4, <2>6, <1>v
  <1>2. CASE budget = 0 /\ results' = SkipRest(results) /\ cause' = "budget" /\ pc' = "cleanup"
             /\ UNCHANGED <<budget, raising, thread, faults>>
    <2>1. results' \in Seq(Results) /\ Len(results') = Len(plan) /\ ResultsRecorded'
      BY <1>2, <1>n, BrokenOffRecords DEF VerificationTypeOK, ResultsRecorded, OnRecord
    <2>2. VerificationTypeOK'
      BY <1>2, <2>1 DEF NextCommand, VerificationTypeOK, docker
    <2>3. ThreadFits' /\ CopyHeld'
      BY <1>2, <1>n DEF NextCommand, ThreadFits, CopyHeld
    <2>4. ContainersHeld' /\ ScoresCompare'
      BY <2>3, <1>2, <1>n, LocalFrame DEF NextCommand
    <2> QED BY <2>1, <2>2, <2>3, <2>4, <1>v
  <1>3. CASE Fault /\ raising' = "ValueError" /\ pc' = "cleanup"
             /\ UNCHANGED <<budget, results, cause, thread>>
    <2>f. faults' = faults + 1 /\ faults' \in 0 .. MaxFaults
      BY <1>3, Faulty
    <2>1. VerificationTypeOK'
      BY <1>3, <2>f DEF NextCommand, VerificationTypeOK, docker
    <2>2. ThreadFits' /\ CopyHeld'
      BY <1>3, <1>n DEF NextCommand, ThreadFits, CopyHeld
    <2>3. ContainersHeld' /\ ScoresCompare'
      BY <2>2, <1>3, <1>n, <2>f, LocalFrame DEF NextCommand
    <2>4. ResultsRecorded'
      BY <1>3, <1>n DEF NextCommand, ResultsRecorded
    <2> QED BY <2>1, <2>2, <2>3, <2>4, <1>v
  <1> QED BY <1>1, <1>2, <1>3 DEF NextCommand

\* All commands have run.
LEMMA AllRunKeeps ==
  ASSUME Core, AllRun
  PROVE  Core' /\ verdict' = None
  <1> USE DEF Core
  <1>m. mode = "local" /\ mode' = mode
    BY DEF AllRun, CopyHeld
  <1>1. VerificationTypeOK'
    BY DEF AllRun, VerificationTypeOK, docker
  <1>2. ThreadFits' /\ CopyHeld'
    BY <1>m DEF AllRun, ThreadFits, CopyHeld
  <1>3. VerdictComesLast' /\ verdict' = None
    BY DEF AllRun, VerdictComesLast, HasOracle
  <1>4. ContainersHeld' /\ ScoresCompare'
    BY <1>2, <1>m, LocalFrame DEF AllRun
  <1>5. ResultsRecorded'
    BY DEF AllRun, ResultsRecorded
  <1> QED BY <1>1, <1>2, <1>3, <1>4, <1>5

\* What the thread of a command came to.
LEMMA Received ==
  ASSUME Core, pc = "await", mode = "local", thread.at = "done"
  PROVE  /\ thread.out.kind \in {"result", "refused", "stuck", "cancelled"}
         /\ Len(results) < Len(plan) /\ OnRecord(results)
         /\ \A i \in DOMAIN results : results[i].executed /\ ~Failed(results[i])
         /\ thread.out.kind = "result" => /\ thread.out.result \in Results /\ Ran(thread.out.result)
                                          /\ Len(fates) = Len(results) + 1
                                          /\ thread.out.result.exit = fates[Len(fates)]
  <1>1. thread.out \in [kind : {"result"}, result : Results] \cup [kind : {"refused", "stuck", "cancelled"}]
    BY DEF Core, ThreadFits
  <1>2. thread.out.kind \in {"result", "refused", "stuck", "cancelled"}
        /\ (thread.out.kind = "result" => thread.out.result \in Results)
    BY <1>1
  <1>3. /\ Len(results) < Len(plan) /\ OnRecord(results)
        /\ \A i \in DOMAIN results : results[i].executed /\ ~Failed(results[i])
    BY DEF Core, ResultsRecorded, OnRecord
  <1>4. thread.out.kind = "result" => /\ Ran(thread.out.result) /\ Len(fates) = Len(results) + 1
                                      /\ thread.out.result.exit = fates[Len(fates)]
    BY DEF Core, ResultsRecorded
  <1> QED BY <1>2, <1>3, <1>4

\* What the runner returned, or raised.
LEMMA ReceivesKeeps ==
  ASSUME Core, Receives
  PROVE  Core' /\ verdict' = None
  <1> USE DEF Core
  <1>n. pc = "await" /\ mode = "local" /\ mode' = mode /\ plan' = plan /\ fates' = fates /\ thread.at = "done"
        /\ faults' = faults /\ UNCHANGED docker /\ pc' \in {"next", "cleanup"} /\ thread' = NoThread
    BY DEF Receives
  <1>v. VerdictComesLast' /\ verdict' = None
    BY DEF Receives, VerdictComesLast, HasOracle
  <1>t. ThreadFits'
    BY <1>n DEF ThreadFits, NoThread
  <1>c. CopyHeld'
    BY <1>n DEF Receives, CopyHeld, ThreadFits
  <1>d. ContainersHeld' /\ ScoresCompare'
    BY <1>n, <1>t, LocalFrame
  <1>l. /\ results \in Seq(Results) /\ Len(results) \in Nat /\ Len(plan) \in Nat
        /\ fates \in Seq({"zero", "nonzero", "killed"})
    BY DEF VerificationTypeOK
  <1>r. results' \in Seq(Results) /\ Len(results') <= Len(plan) /\ ResultsRecorded'
        /\ cause' \in {None, "budget", "execution"}
    <2>1. CASE thread.out.kind = "result" /\ UNCHANGED <<cause, raising>>
      <3> DEFINE r == thread.out.result
                 done == Append(results, r)
      <3>1. r \in Results /\ Ran(r) /\ Len(fates) = Len(results) + 1 /\ r.exit = fates[Len(fates)]
            /\ Len(results) < Len(plan) /\ OnRecord(results)
            /\ \A i \in DOMAIN results : results[i].executed /\ ~Failed(results[i])
        BY <2>1, <1>n, Received
      <3>2. IF Failed(r) THEN results' = SkipRest(done) /\ pc' = "cleanup" ELSE results' = done /\ pc' = "next"
        BY <2>1 DEF Receives
      <3>3. cause' \in {None, "budget", "execution"}
        BY <2>1 DEF VerificationTypeOK
      <3> HIDE DEF r
      <3>4. /\ done \in Seq(Results) /\ Len(done) = Len(results) + 1 /\ DOMAIN done = 1 .. Len(results) + 1
            /\ \A i \in 1 .. Len(results) + 1 : done[i] = IF i <= Len(results) THEN results[i] ELSE r
        BY <3>1, <1>l
      <3> HIDE DEF done
      <3>5. OnRecord(done)
        <4>1. \A i \in DOMAIN results : results[i].executed =>
                i <= Len(fates) /\ results[i].exit = fates[i] /\ Ran(results[i])
          BY <3>1 DEF OnRecord
        <4>2. ASSUME NEW i \in DOMAIN done, done[i].executed
              PROVE  i <= Len(fates) /\ done[i].exit = fates[i] /\ Ran(done[i])
          <5>1. CASE i <= Len(results)
            BY <5>1, <4>1, <4>2, <3>4, <1>l
          <5>2. CASE ~(i <= Len(results))
            <6>1. i = Len(results) + 1 /\ done[i] = r
              BY <5>2, <3>4, <1>l
            <6> QED BY <6>1, <3>1
          <5> QED BY <5>1, <5>2
        <4> QED BY <4>2 DEF OnRecord
      <3>6. CASE Failed(r)
        <4>1. Len(done) <= Len(plan)
          BY <3>1, <3>4, <1>l
        <4>2. results' = SkipRest(done) /\ pc' = "cleanup"
          BY <3>2, <3>6
        <4>3. results' \in Seq(Results) /\ Len(results') = Len(plan) /\ ResultsRecorded'
          BY <4>1, <4>2, <3>4, <3>5, <1>n, BrokenOffRecords
        <4> QED BY <4>3, <3>3, <1>l
      <3>7. CASE ~Failed(r)
        <4>1. results' = done /\ pc' = "next"
          BY <3>2, <3>7
        <4>2. \A i \in DOMAIN results' : results'[i].executed /\ ~Failed(results'[i])
          BY <4>1, <3>1, <3>4, <3>7, <1>l DEF Ran
        <4>3. Len(fates') = Len(results')
          BY <4>1, <3>1, <3>4, <1>n
        <4>4. ResultsRecorded'
          BY <4>1, <4>2, <4>3, <3>5, <1>n DEF ResultsRecorded, OnRecord
        <4> QED BY <4>1, <4>4, <3>1, <3>3, <3>4, <1>l
      <3> QED BY <3>6, <3>7
    <2>2. CASE thread.out.kind = "refused" /\ results' = SkipRest(results) /\ cause' = "execution"
               /\ pc' = "cleanup" /\ UNCHANGED raising
      <3>1. Len(results) <= Len(plan) /\ OnRecord(results)
        BY <1>n, <1>l, Received
      <3>2. results' \in Seq(Results) /\ Len(results') = Len(plan) /\ ResultsRecorded'
        BY <2>2, <3>1, <1>n, <1>l, BrokenOffRecords
      <3> QED BY <3>2, <2>2, <1>l
    <2>3. CASE thread.out.kind = "stuck" /\ raising' = "TimeoutExpired" /\ pc' = "cleanup"
               /\ UNCHANGED <<results, cause>>
      <3>1. OnRecord(results)
        BY <1>n, Received
      <3>2. ResultsRecorded'
        BY <2>3, <3>1, <1>n DEF ResultsRecorded, OnRecord
      <3> QED BY <2>3, <3>2 DEF VerificationTypeOK
    <2> QED BY <2>1, <2>2, <2>3 DEF Receives
  <1>1. VerificationTypeOK'
    BY <1>r, <1>n DEF Receives, VerificationTypeOK, docker, NoThread
  <1> QED BY <1>1, <1>v, <1>t, <1>c, <1>d, <1>r

\* The copy is removed.
LEMMA CleansKeeps ==
  ASSUME Core, Cleans
  PROVE  Core' /\ verdict' = None
  <1> USE DEF Core
  <1>m. mode = "local" /\ mode' = mode
    BY DEF Cleans, CopyHeld
  <1>f. faults' = faults \/ (faults' = faults + 1 /\ faults' \in 0 .. MaxFaults)
    BY Faulty DEF Cleans
  <1>1. VerificationTypeOK'
    <2>1. faults' \in 0 .. MaxFaults /\ pc' \in {"raised", "verdict"}
      BY <1>f DEF VerificationTypeOK, Cleans
    <2>2. copy' \in BOOLEAN
      <3>1. FALSE \in BOOLEAN /\ copy \in BOOLEAN
        BY ZenonT(20) DEF VerificationTypeOK
      <3>2. copy' = FALSE \/ copy' = copy
        BY DEF Cleans
      <3> QED BY <3>1, <3>2
    <2> QED BY <2>1, <2>2 DEF Cleans, VerificationTypeOK, docker
  <1>2. ThreadFits' /\ CopyHeld'
    BY <1>m DEF Cleans, ThreadFits, CopyHeld
  <1>3. VerdictComesLast' /\ verdict' = None
    BY DEF Cleans, VerdictComesLast, HasOracle
  <1>4. ContainersHeld' /\ ScoresCompare'
    BY <1>2, <1>m, <1>f, LocalFrame DEF Cleans
  <1>5. ResultsRecorded'
    BY DEF Cleans, ResultsRecorded
  <1> QED BY <1>1, <1>2, <1>3, <1>4, <1>5

\* The verdict on the commands.
LEMMA ConcludesKeeps ==
  ASSUME Core, Concludes
  PROVE  Core' /\ Verdicts'
  <1> USE DEF Core
  <1> DEFINE why == IF raising # None /\ cause = None THEN "execution" ELSE cause
             all == IF raising # None /\ results = <<>> THEN SkipRest(<<>>) ELSE results
  <1>m. mode = "local" /\ mode' = mode /\ HasOracle /\ plan' = plan /\ fates' = fates /\ raising' = raising
    BY DEF Concludes, CopyHeld, VerdictComesLast
  <1>a. cause' = why /\ results' = all /\ verdict' = evaluate_verification(all, TRUE, why)
    BY DEF Concludes
  <1>l. plan \in Seq(Range(plan)) /\ Len(plan) \in Nat /\ Len(fates) \in Nat /\ Len(fates) <= Len(plan)
        /\ fates \in Seq({"zero", "nonzero", "killed"})
    BY DEF VerificationTypeOK
  <1>w. why \in {None, "budget", "execution"} /\ (why = None => raising = None /\ cause = None)
    BY VerificationAssumption DEF VerificationTypeOK
  <1>r. all \in Seq(Results) /\ Len(all) <= Len(plan) /\ OnRecord(all)
    <2>1. CASE raising # None /\ results = <<>>
      BY <2>1, <1>l, NothingRun DEF OnRecord
    <2>2. CASE ~(raising # None /\ results = <<>>)
      BY <2>2 DEF VerificationTypeOK, ResultsRecorded, OnRecord
    <2> QED BY <2>1, <2>2
  <1> HIDE DEF why, all
  <1>s. /\ verdict' \in {"unavailable", "inconclusive", "infra_error", "failed", "incomplete", "passed"}
        /\ verdict' = "passed" => /\ why = None /\ Len(all) = Len(plan)
                                  /\ \A i \in DOMAIN all : all[i].executed /\ ~Failed(all[i])
        /\ verdict' = "failed" => \E i \in DOMAIN all : Failed(all[i]) /\ ~all[i].timed_out
    BY <1>a, <1>l, <1>r, VerdictSays
  <1>1. VerificationTypeOK'
    <2>1. /\ cause' \in {None, "budget", "execution"} /\ results' \in Seq(Results)
          /\ Len(results') <= Len(plan)
      BY <1>a, <1>r, <1>w
    <2>2. /\ UNCHANGED <<mode, plan, budget, copy, thread, process, fates, faults>>
          /\ UNCHANGED <<phase, score, extra, containers, registered>> /\ pc' = "done"
      BY DEF Concludes, docker
    <2> QED BY <1>s, <2>1, <2>2 DEF VerificationTypeOK
  <1>2. ThreadFits' /\ CopyHeld'
    BY <1>m DEF Concludes, ThreadFits, CopyHeld
  <1>3. VerdictComesLast'
    BY DEF Concludes, VerdictComesLast
  <1>4. ContainersHeld' /\ ScoresCompare'
    BY <1>2, <1>m, LocalFrame DEF Concludes
  <1>5. ResultsRecorded'
    BY <1>a, <1>r, <1>m DEF Concludes, ResultsRecorded, OnRecord
  <1>d. DOMAIN all = 1 .. Len(all) /\ DOMAIN fates = 1 .. Len(fates) /\ Len(all) \in Nat
    BY <1>r, <1>l
  <1>6. ASSUME verdict' = "passed"
        PROVE  Len(fates) = Len(plan) /\ (\A i \in DOMAIN fates : fates[i] = "zero") /\ raising = None
    <2>1. raising = None /\ Len(all) = Len(plan) /\ \A i \in DOMAIN all : all[i].executed /\ ~Failed(all[i])
      BY <1>6, <1>s, <1>w
    <2>2. \A i \in 1 .. Len(plan) : i <= Len(fates) /\ fates[i] = "zero"
      BY <2>1, <1>d, <1>r DEF OnRecord, Failed
    <2>3. Len(fates) = Len(plan)
      <3>1. CASE Len(plan) = 0
        BY <3>1, <1>l
      <3>2. CASE Len(plan) # 0
        <4>1. Len(plan) \in 1 .. Len(plan)
          BY <3>2, <1>l
        <4> QED BY <4>1, <2>2, <1>l
      <3> QED BY <3>1, <3>2
    <2> QED BY <2>1, <2>2, <2>3, <1>d
  <1>7. ASSUME verdict' = "failed"
        PROVE  \E i \in DOMAIN fates : fates[i] = "nonzero"
    <2>1. PICK i \in DOMAIN all : Failed(all[i]) /\ ~all[i].timed_out
      BY <1>7, <1>s
    <2>2. all[i].executed /\ all[i].exit # "zero"
      BY <2>1 DEF Failed
    <2>3. i <= Len(fates) /\ all[i].exit = fates[i] /\ Ran(all[i])
      BY <2>1, <2>2, <1>r DEF OnRecord
    <2>4. fates[i] = "nonzero" /\ i \in DOMAIN fates
      BY <2>1, <2>2, <2>3, <1>d, <1>l DEF Ran
    <2> QED BY <2>4
  <1>8. FailBeforePassAfter'
    BY <1>m DEF FailBeforePassAfter
  <1>9. HasOracle'
    BY <1>m DEF HasOracle
  <1>10. VerdictMatchesRuns'
    BY <1>6, <1>7, <1>9, <1>m DEF VerdictMatchesRuns
  <1> QED BY <1>1, <1>2, <1>3, <1>4, <1>5, <1>8, <1>10 DEF Verdicts

(***************************************************************************)
(* run_cancellable                                                         *)
(***************************************************************************)
\* A cancellation is noted.
LEMMA CancelsKeeps ==
  ASSUME Core, Cancels
  PROVE  Core' /\ verdict' = None
  <1> USE DEF Core
  <1>a. thread' = [at |-> thread.at, cancellation |-> TRUE, out |-> thread.out]
    <2>1. thread = [at |-> thread.at, cancellation |-> thread.cancellation, out |-> thread.out]
      BY DEF VerificationTypeOK
    <2>2. thread' = [thread EXCEPT !.cancellation = TRUE]
      BY DEF Cancels
    <2> QED BY <2>1, <2>2
  <1>b. thread'.at = thread.at /\ thread'.out = thread.out
        /\ thread' = [at |-> thread'.at, cancellation |-> thread'.cancellation, out |-> thread'.out]
    BY <1>a
  <1>1. VerificationTypeOK'
    BY <1>b DEF Cancels, VerificationTypeOK, docker
  <1>2. ThreadFits'
    BY <1>b DEF Cancels, ThreadFits
  <1>3. CopyHeld'
    BY <1>b DEF Cancels, CopyHeld
  <1>4. VerdictComesLast' /\ verdict' = None
    BY DEF Cancels, VerdictComesLast, HasOracle
  <1>5. ContainersHeld'
    BY <1>b DEF Cancels, ContainersHeld, Container, docker
  <1>6. ScoresCompare'
    BY <1>b DEF Cancels, ScoresCompare, FailedBefore, docker
  <1>7. ResultsRecorded'
    BY <1>b DEF Cancels, ResultsRecorded
  <1> QED BY <1>1, <1>2, <1>3, <1>4, <1>5, <1>6, <1>7

\* The cancelled coroutine goes on when the thread is done.
LEMMA JoinedKeeps ==
  ASSUME Core, Joined
  PROVE  Core' /\ verdict' = None
  <1> USE DEF Core
  <1>b. thread'.at = "none" /\ thread.at = "done"
        /\ thread' = [at |-> thread'.at, cancellation |-> thread'.cancellation, out |-> thread'.out]
    BY DEF Joined, NoThread
  <1>1. VerificationTypeOK'
    BY <1>b DEF Joined, VerificationTypeOK, docker
  <1>2. ThreadFits'
    BY <1>b DEF Joined, ThreadFits
  <1>3. CopyHeld'
    BY <1>b DEF Joined, CopyHeld, VerificationTypeOK
  <1>4. VerdictComesLast' /\ verdict' = None
    BY DEF Joined, VerdictComesLast, HasOracle
  <1>5. ContainersHeld'
    BY <1>b DEF Joined, ContainersHeld, Container, docker
  <1>6. ScoresCompare'
    BY <1>b DEF Joined, ScoresCompare, FailedBefore, docker
  <1>7. ResultsRecorded'
    BY <1>b DEF Joined, ResultsRecorded
  <1> QED BY <1>1, <1>2, <1>3, <1>4, <1>5, <1>6, <1>7

(***************************************************************************)
(* run_grouped_subprocess                                                  *)
(***************************************************************************)
\* A job is done.
LEMMA DoneSets ==
  ASSUME VerificationTypeOK, NEW out, Done(out)
  PROVE  /\ thread' = [at |-> thread'.at, cancellation |-> thread'.cancellation, out |-> thread'.out]
         /\ thread'.at = "done" /\ thread'.out = out
  <1>1. thread = [at |-> thread.at, cancellation |-> thread.cancellation, out |-> thread.out]
    BY DEF VerificationTypeOK
  <1>2. thread' = [thread EXCEPT !.at = "done", !.out = out]
    BY DEF Done
  <1>3. thread' = [at |-> "done", cancellation |-> thread.cancellation, out |-> out]
    BY <1>1, <1>2
  <1> QED BY <1>3

\* A job goes on to its next step.
LEMMA MovesOn ==
  ASSUME VerificationTypeOK, NEW step, thread' = [thread EXCEPT !.at = step]
  PROVE  /\ thread' = [at |-> thread'.at, cancellation |-> thread'.cancellation, out |-> thread'.out]
         /\ thread'.at = step /\ thread'.out = thread.out
  <1>1. thread = [at |-> thread.at, cancellation |-> thread.cancellation, out |-> thread.out]
    BY DEF VerificationTypeOK
  <1>2. thread' = [at |-> step, cancellation |-> thread.cancellation, out |-> thread.out]
    BY <1>1
  <1> QED BY <1>2

\* A thread that owns a process works for a waiting local verification.
LEMMA OwnsProcess ==
  ASSUME Core, thread.at \in {"queued", "running", "reap"}
  PROVE  /\ mode = "local" /\ pc \in {"await", "joining"} /\ copy /\ verdict = None
         /\ Len(fates) = Len(results) /\ Len(results) < Len(plan)
         /\ Len(results) \in Nat /\ Len(plan) \in Nat
  <1>1. mode = "local" /\ pc \in {"await", "joining"}
    BY DEF Core, ThreadFits, VerificationTypeOK
  <1>2. copy /\ verdict = None
    BY <1>1 DEF Core, CopyHeld, VerdictComesLast
  <1>3. Len(fates) = Len(results) /\ Len(results) < Len(plan)
    BY <1>1 DEF Core, ResultsRecorded
  <1> QED BY <1>1, <1>2, <1>3 DEF Core, VerificationTypeOK

\* The thread decides nothing.
LEMMA ServiceFrame ==
  ASSUME Core, UNCHANGED service, thread.at # "none"
  PROVE  /\ VerdictComesLast' /\ verdict' = None /\ mode' = mode /\ plan' = plan /\ pc' = pc
         /\ results' = results /\ copy' = copy /\ budget' = budget /\ cause' = cause
         /\ raising' = None /\ pc \in {"await", "joining"}
  <1>1. pc \in {"await", "joining"}
    BY DEF Core, ThreadFits, VerificationTypeOK
  <1> QED BY <1>1 DEF Core, service, VerdictComesLast, HasOracle

\* A command is started, refused, or not started at all.
LEMMA PopenKeeps ==
  ASSUME Core, Popen
  PROVE  Core' /\ verdict' = None
  <1> USE DEF Core
  <1>o. /\ mode = "local" /\ pc \in {"await", "joining"} /\ copy /\ Len(fates) = Len(results)
        /\ Len(results) < Len(plan) /\ Len(results) \in Nat /\ thread.at = "queued"
    BY OwnsProcess DEF Popen
  <1>s. /\ VerdictComesLast' /\ verdict' = None /\ mode' = mode /\ plan' = plan /\ pc' = pc
        /\ results' = results /\ copy' = copy /\ budget' = budget /\ cause' = cause /\ raising' = None
    BY <1>o, ServiceFrame DEF Popen
  <1>d. UNCHANGED docker /\ fates' = fates
    BY DEF Popen
  <1>f. (faults' = faults \/ faults' = faults + 1) /\ faults' \in 0 .. MaxFaults
    BY Faulty DEF Popen, VerificationTypeOK
  <1>t. /\ thread' = [at |-> thread'.at, cancellation |-> thread'.cancellation, out |-> thread'.out]
        /\ \/ thread'.at = "done" /\ thread'.out \in [kind : {"cancelled", "refused"}] /\ process' = process
           \/ thread'.at = "running" /\ process' = [main |-> "alive", group |-> FALSE, output |-> "plain"]
    <2>1. CASE Done([kind |-> "cancelled"]) /\ UNCHANGED process
      BY <2>1, DoneSets
    <2>2. CASE Done([kind |-> "refused"]) /\ UNCHANGED process
      BY <2>2, DoneSets
    <2>3. CASE process' = [NoProcess EXCEPT !.main = "alive"] /\ thread' = [thread EXCEPT !.at = "running"]
      BY <2>3, MovesOn DEF NoProcess
    <2> QED BY <2>1, <2>2, <2>3 DEF Popen
  <1>1. VerificationTypeOK'
    <2>1. process' \in [main : {"none", "alive", "zero", "nonzero", "killed", "stuck"},
                        group : BOOLEAN, output : Outputs]
      <3>1. CASE process' = process
        BY <3>1 DEF VerificationTypeOK
      <3>2. CASE process' = [main |-> "alive", group |-> FALSE, output |-> "plain"]
        <4>1. FALSE \in BOOLEAN
          OBVIOUS
        <4> QED BY <3>2, <4>1 DEF Outputs
      <3> QED BY <3>1, <3>2, <1>t
    <2> QED BY <2>1, <1>t, <1>s, <1>d, <1>f DEF VerificationTypeOK, docker
  <1>2. ThreadFits'
    BY <1>t, <1>s, <1>o DEF ThreadFits
  <1>3. CopyHeld'
    BY <1>t, <1>s, <1>o, VerificationAssumption DEF CopyHeld
  <1>4. ContainersHeld' /\ ScoresCompare'
    BY <1>2, <1>s, <1>o, <1>d, <1>f, LocalFrame
  <1>5. ResultsRecorded'
    BY <1>t, <1>s, <1>o, <1>d DEF ResultsRecorded
  <1> QED BY <1>1, <1>2, <1>3, <1>4, <1>5, <1>s

\* The process exits by itself.
LEMMA ProcessExitsKeeps ==
  ASSUME Core, ProcessExits
  PROVE  Core' /\ verdict' = None
  <1> USE DEF Core
  <1>a. thread.at \in {"running", "reap"}
    BY DEF ProcessExits, CopyHeld
  <1>o. /\ mode = "local" /\ pc \in {"await", "joining"} /\ copy
    BY <1>a, OwnsProcess
  <1>s. /\ VerdictComesLast' /\ verdict' = None /\ mode' = mode /\ plan' = plan /\ pc' = pc
        /\ results' = results /\ copy' = copy /\ budget' = budget /\ cause' = cause /\ raising' = None
    BY <1>a, ServiceFrame DEF ProcessExits
  <1>d. UNCHANGED docker /\ fates' = fates /\ thread' = thread /\ faults' = faults
    BY DEF ProcessExits
  <1>p. process' \in [main : {"zero", "nonzero"}, group : BOOLEAN, output : Outputs]
    BY DEF ProcessExits
  <1>1. VerificationTypeOK'
    BY <1>p, <1>s, <1>d DEF VerificationTypeOK, docker
  <1>2. ThreadFits'
    BY <1>p, <1>s, <1>d, <1>o, <1>a DEF ThreadFits
  <1>3. CopyHeld'
    BY <1>a, <1>s, <1>d, <1>o, <1>p, VerificationAssumption DEF CopyHeld
  <1>4. ContainersHeld' /\ ScoresCompare'
    BY <1>2, <1>s, <1>o, <1>d, LocalFrame
  <1>5. ResultsRecorded'
    BY <1>s, <1>o, <1>d DEF ResultsRecorded
  <1> QED BY <1>1, <1>2, <1>3, <1>4, <1>5, <1>s

\* The polling ends.
LEMMA LoopEndsKeeps ==
  ASSUME Core, LoopEnds
  PROVE  Core' /\ verdict' = None
  <1> USE DEF Core
  <1>o. /\ mode = "local" /\ pc \in {"await", "joining"} /\ copy /\ thread.at = "running"
        /\ Len(fates) = Len(results)
    BY OwnsProcess DEF LoopEnds
  <1>s. /\ VerdictComesLast' /\ verdict' = None /\ mode' = mode /\ plan' = plan /\ pc' = pc
        /\ results' = results /\ copy' = copy /\ budget' = budget /\ cause' = cause /\ raising' = None
    BY <1>o, ServiceFrame DEF LoopEnds
  <1>d. UNCHANGED docker /\ fates' = fates /\ process' = process
    BY DEF LoopEnds
  <1>f. (faults' = faults \/ faults' = faults + 1) /\ faults' \in 0 .. MaxFaults
    BY Faulty DEF LoopEnds, VerificationTypeOK
  <1>t. /\ thread' = [at |-> thread'.at, cancellation |-> thread'.cancellation, out |-> thread'.out]
        /\ thread'.at = "reap" /\ thread'.out \in {"exited", "timed_out", "cancelled", "OSError"}
        /\ thread'.out = "exited" => process.main # "alive"
    <2>1. thread = [at |-> thread.at, cancellation |-> thread.cancellation, out |-> thread.out]
      BY DEF VerificationTypeOK
    <2>2. PICK out \in {"cancelled", "timed_out", "exited", "OSError"} :
            /\ thread' = [thread EXCEPT !.at = "reap", !.out = out]
            /\ out = "exited" => process.main # "alive"
      BY DEF LoopEnds
    <2>3. thread' = [at |-> "reap", cancellation |-> thread.cancellation, out |-> out]
      BY <2>1, <2>2
    <2> QED BY <2>2, <2>3
  <1>1. VerificationTypeOK'
    BY <1>t, <1>s, <1>d, <1>f DEF VerificationTypeOK, docker
  <1>2. ThreadFits'
    BY <1>t, <1>s, <1>d, <1>o DEF ThreadFits
  <1>3. CopyHeld'
    BY <1>t, <1>s, <1>d, <1>o, VerificationAssumption DEF CopyHeld
  <1>4. ContainersHeld' /\ ScoresCompare'
    BY <1>2, <1>s, <1>o, <1>d, <1>f, LocalFrame
  <1>5. ResultsRecorded'
    BY <1>t, <1>s, <1>o, <1>d DEF ResultsRecorded
  <1> QED BY <1>1, <1>2, <1>3, <1>4, <1>5, <1>s

\* The group is killed, or cannot be.
LEMMA KillKeeps ==
  ASSUME Core, _kill_process_group
  PROVE  Core' /\ verdict' = None
  <1> USE DEF Core
  <1>o. /\ mode = "local" /\ pc \in {"await", "joining"} /\ copy /\ thread.at = "reap"
        /\ Len(fates) = Len(results) /\ Len(results) < Len(plan) /\ Len(results) \in Nat /\ Len(plan) \in Nat
    BY OwnsProcess DEF _kill_process_group
  <1>s. /\ VerdictComesLast' /\ verdict' = None /\ mode' = mode /\ plan' = plan /\ pc' = pc
        /\ results' = results /\ copy' = copy /\ budget' = budget /\ cause' = cause /\ raising' = None
    BY <1>o, ServiceFrame DEF _kill_process_group
  <1>d. UNCHANGED docker
    BY DEF _kill_process_group
  <1>y. /\ process.main \in {"alive", "zero", "nonzero"} /\ process.output \in Outputs
        /\ process.group \in BOOLEAN
        /\ process = [main |-> process.main, group |-> process.group, output |-> process.output]
        /\ thread.out \in {"exited", "timed_out", "cancelled", "OSError"}
        /\ thread.out = "exited" => process.main # "alive"
        /\ fates \in Seq({"zero", "nonzero", "killed"})
    BY <1>o DEF ThreadFits, VerificationTypeOK
  <1>1. CASE LET code == IF process.main = "alive" THEN "killed" ELSE process.main
             IN  /\ process' = [process EXCEPT !.main = code, !.group = FALSE]
                 /\ fates' = Append(fates, code)
                 /\ \/ Done(CommandOutcome(code)) /\ UNCHANGED faults
                    \/ Fault /\ Done([kind |-> "refused"])
    <2> DEFINE code == IF process.main = "alive" THEN "killed" ELSE process.main
               r == [executed |-> TRUE, exit |-> code, timed_out |-> thread.out = "timed_out",
                     output |-> process.output]
    <2>1. code \in {"zero", "nonzero", "killed"} /\ (process.main # "alive" => code \in {"zero", "nonzero"})
      BY <1>y
    <2>2. PICK late \in BOOLEAN : late = (thread.out = "timed_out")
      OBVIOUS
    <2>3. r = [executed |-> TRUE, exit |-> code, timed_out |-> late, output |-> process.output]
      BY <2>2
    <2>4. process' = [process EXCEPT !.main = code, !.group = FALSE] /\ fates' = Append(fates, code)
          /\ \/ \E kind \in {"cancelled", "refused"} : Done([kind |-> kind])
             \/ thread.out \in {"exited", "timed_out"} /\ Done([kind |-> "result", result |-> r])
      BY <1>1, <1>y DEF CommandOutcome
    <2>f. (faults' = faults \/ faults' = faults + 1) /\ faults' \in 0 .. MaxFaults
      BY <1>1, Faulty DEF VerificationTypeOK
    <2> HIDE DEF code, r
    <2>5. r \in Results /\ r.exit = code /\ r.timed_out = late /\ r.executed
      BY <2>1, <2>3, <1>y DEF Results
    <2>6. thread.out \in {"exited", "timed_out"} => Ran(r)
      BY <2>1, <2>2, <2>5, <1>y DEF Ran
    <2>7. process' = [main |-> code, group |-> FALSE, output |-> process.output]
      BY <2>4, <1>y
    <2>8. /\ fates' \in Seq({"zero", "nonzero", "killed"}) /\ Len(fates') = Len(fates) + 1
          /\ fates'[Len(fates')] = code /\ \A i \in 1 .. Len(fates) : fates'[i] = fates[i]
      BY <2>1, <2>4, <1>y
    <2>9. /\ thread' = [at |-> thread'.at, cancellation |-> thread'.cancellation, out |-> thread'.out]
          /\ thread'.at = "done"
          /\ \/ thread'.out \in [kind : {"cancelled", "refused"}]
             \/ thread'.out = [kind |-> "result", result |-> r] /\ Ran(r)
      <3>1. CASE \E kind \in {"cancelled", "refused"} : Done([kind |-> kind])
        <4>1. PICK kind \in {"cancelled", "refused"} : Done([kind |-> kind])
          BY <3>1
        <4> QED BY <4>1, DoneSets
      <3>2. CASE thread.out \in {"exited", "timed_out"} /\ Done([kind |-> "result", result |-> r])
        BY <3>2, <2>6, DoneSets
      <3> QED BY <3>1, <3>2, <2>4
    <2>10. VerificationTypeOK'
      <3>1. process' \in [main : {"none", "alive", "zero", "nonzero", "killed", "stuck"},
                          group : BOOLEAN, output : Outputs]
        BY <2>1, <2>7, <1>y
      <3>2. Len(fates') <= Len(plan)
        BY <2>8, <1>o
      <3> QED BY <3>1, <3>2, <2>f, <2>8, <2>9, <1>s, <1>d DEF VerificationTypeOK, docker
    <2>11. ThreadFits'
      <3>1. thread'.out \in [kind : {"result"}, result : Results] \cup [kind : {"refused", "stuck", "cancelled"}]
        BY <2>9, <2>5
      <3> QED BY <3>1, <2>9, <1>s, <1>o DEF ThreadFits
    <2>12. CopyHeld'
      BY <2>1, <2>7, <1>s, <1>o, VerificationAssumption DEF CopyHeld
    <2>13. ContainersHeld' /\ ScoresCompare'
      BY <2>11, <2>f, <1>s, <1>o, <1>d, LocalFrame
    <2>14. ResultsRecorded'
      <3>1. \A i \in DOMAIN results : i \in 1 .. Len(results)
        BY DEF VerificationTypeOK
      <3>2. \A i \in DOMAIN results' : results'[i].executed =>
              i <= Len(fates') /\ results'[i].exit = fates'[i] /\ Ran(results'[i])
        BY <3>1, <2>8, <1>s, <1>o DEF ResultsRecorded
      <3>3. \A i \in DOMAIN results' : results'[i].executed /\ ~Failed(results'[i])
        BY <1>s, <1>o DEF ResultsRecorded
      <3>4. CASE thread'.out \in [kind : {"cancelled", "refused"}]
        <4>1. thread'.out.kind \in {"cancelled", "refused"}
          BY <3>4
        <4> QED BY <4>1, <3>2, <3>3, <2>8, <2>9, <1>s, <1>o DEF ResultsRecorded
      <3>5. CASE thread'.out = [kind |-> "result", result |-> r] /\ Ran(r)
        <4>1. thread'.out.kind = "result" /\ thread'.out.result = r /\ Ran(r)
          BY <3>5
        <4>2. Len(fates') = Len(results) + 1 /\ r.exit = fates'[Len(fates')]
          BY <2>5, <2>8, <1>o
        <4> QED BY <4>1, <4>2, <3>2, <3>3, <2>9, <1>s, <1>o DEF ResultsRecorded
      <3> QED BY <3>4, <3>5, <2>9
    <2> QED BY <2>10, <2>11, <2>12, <2>13, <2>14, <1>s
  <1>2. CASE /\ process.main = "alive" /\ Fault /\ process' = [process EXCEPT !.main = "stuck"]
             /\ \E kind \in {"stuck", "refused"} : Done([kind |-> kind])
             /\ UNCHANGED fates
    <2>1. faults' = faults + 1 /\ faults' \in 0 .. MaxFaults
      BY <1>2, Faulty
    <2>2. process' = [main |-> "stuck", group |-> process.group, output |-> process.output]
      BY <1>2, <1>y
    <2>3. /\ thread' = [at |-> thread'.at, cancellation |-> thread'.cancellation, out |-> thread'.out]
          /\ thread'.at = "done" /\ thread'.out \in [kind : {"stuck", "refused"}]
          /\ thread'.out.kind \in {"stuck", "refused"}
      <3>1. PICK kind \in {"stuck", "refused"} : Done([kind |-> kind])
        BY <1>2
      <3> QED BY <3>1, DoneSets
    <2>4. VerificationTypeOK'
      <3>1. process' \in [main : {"none", "alive", "zero", "nonzero", "killed", "stuck"},
                          group : BOOLEAN, output : Outputs]
        BY <2>2, <1>y
      <3> QED BY <3>1, <1>2, <2>1, <2>3, <1>s, <1>d DEF VerificationTypeOK, docker
    <2>5. ThreadFits'
      BY <2>3, <1>s, <1>o DEF ThreadFits
    <2>6. CopyHeld'
      BY <1>2, <2>2, <1>s, <1>o, VerificationAssumption DEF CopyHeld
    <2>7. ContainersHeld' /\ ScoresCompare'
      BY <2>5, <2>1, <1>s, <1>o, <1>d, LocalFrame
    <2>8. ResultsRecorded'
      BY <1>2, <2>3, <1>s, <1>o DEF ResultsRecorded
    <2> QED BY <2>4, <2>5, <2>6, <2>7, <2>8, <1>s
  <1> QED BY <1>1, <1>2 DEF _kill_process_group

(***************************************************************************)
(* DockerReplayVerifier                                                    *)
(***************************************************************************)
\* An official verification has no copy, no process and no results.
LEMMA OfficialFrame ==
  ASSUME Core, mode = "official", mode' = mode, plan' = plan, results' = results, fates' = fates,
         copy' = copy, process' = process, raising' # "RemovalError",
         pc' \in {"start", "await", "joining", "done", "raised"}
  PROVE  CopyHeld' /\ ResultsRecorded'
  <1>1. thread.at \notin {"running", "reap"}
    BY DEF Core, ThreadFits
  <1>2. process.main # "alive" /\ ~process.group /\ ~copy
    BY <1>1 DEF Core, CopyHeld
  <1>3. CopyHeld'
    BY <1>2 DEF CopyHeld
  <1>4. ResultsRecorded'
    BY DEF Core, ResultsRecorded
  <1> QED BY <1>3, <1>4

\* A fresh thread.
LEMMA SpawnsOne ==
  ASSUME NEW job, Spawns(job)
  PROVE  /\ thread' = [at |-> thread'.at, cancellation |-> thread'.cancellation, out |-> thread'.out]
         /\ thread'.at = job
  <1>1. thread' = [at |-> job, cancellation |-> FALSE, out |-> None]
    BY DEF Spawns, NoThread
  <1> QED BY <1>1

\* The tests of the unrepaired task begin.
LEMMA PreflightBeginsKeeps ==
  ASSUME Core, PreflightBegins
  PROVE  Core' /\ verdict' = None
  <1> USE DEF Core
  <1>m. mode = "official" /\ mode' = mode /\ pc' = "await" /\ UNCHANGED docker /\ thread.at = "none"
    BY DEF PreflightBegins, CopyHeld, ThreadFits, VerificationTypeOK
  <1>t. thread' = [at |-> thread'.at, cancellation |-> thread'.cancellation, out |-> thread'.out]
        /\ thread'.at = "start"
    BY SpawnsOne DEF PreflightBegins
  <1>1. VerificationTypeOK'
    BY <1>t DEF PreflightBegins, VerificationTypeOK, docker
  <1>2. ThreadFits'
    BY <1>t, <1>m DEF ThreadFits
  <1>3. CopyHeld' /\ ResultsRecorded'
    BY <1>m, OfficialFrame, VerificationAssumption DEF PreflightBegins, VerdictComesLast
  <1>4. VerdictComesLast' /\ verdict' = None
    BY <1>m DEF PreflightBegins, VerdictComesLast
  <1>5. ContainersHeld'
    BY <1>t, <1>m DEF PreflightBegins, ContainersHeld, Container, docker
  <1>6. ScoresCompare'
    BY <1>t, <1>m DEF PreflightBegins, ScoresCompare, FailedBefore, docker
  <1> QED BY <1>1, <1>2, <1>3, <1>4, <1>5, <1>6

\* The tests of the unrepaired task are over.
LEMMA PreflightKeeps ==
  ASSUME Core, preflight
  PROVE  Core' /\ verdict' = None
  <1> USE DEF Core
  <1>m. mode = "official" /\ mode' = mode /\ pc' \in {"start", "raised"} /\ thread.at = "done"
        /\ pc = "await" /\ phase' \in {"baseline", "final"}
    BY DEF preflight
  <1>t. thread' = [at |-> thread'.at, cancellation |-> thread'.cancellation, out |-> thread'.out]
        /\ thread'.at = "none"
    BY DEF preflight, NoThread
  <1>1. VerificationTypeOK'
    <2>1. score' = [ftp |-> score'.ftp, ptp |-> score'.ptp, infra |-> score'.infra]
      BY DEF preflight, VerificationTypeOK, NoScore
    <2> QED BY <1>t, <1>m, <2>1 DEF preflight, VerificationTypeOK
  <1>2. ThreadFits'
    BY <1>t, <1>m DEF ThreadFits
  <1>3. CopyHeld' /\ ResultsRecorded'
    BY <1>m, OfficialFrame, VerificationAssumption DEF preflight, VerdictComesLast
  <1>4. VerdictComesLast' /\ verdict' = None
    BY <1>m DEF preflight, VerdictComesLast
  <1>5. ContainersHeld'
    <2>1. registered = {} /\ registered' = {} /\ containers' = containers /\ faults' = faults
          /\ Cardinality(containers \ registered) <= faults
      BY <1>m DEF preflight, ContainersHeld
    <2> QED BY <2>1, <1>t DEF ContainersHeld
  <1>6. ScoresCompare'
    <2>1. CASE before' = [status |-> PreflightStatus, ftp |-> score.ftp] /\ phase' = "final" /\ pc' = "start"
      <3>1. ASSUME before'.status = "reproduced"
            PROVE  /\ \A n \in FailToPass : before'.ftp[n] \in {"PASSED", "FAILED", "ERROR"}
                   /\ \E n \in FailToPass : before'.ftp[n] # "PASSED"
        <4>1. PreflightStatus = "reproduced" /\ before'.ftp = score.ftp
          BY <3>1, <2>1
        <4>2. /\ \A n \in FailToPass : score.ftp[n] \in {"PASSED", "FAILED", "ERROR"}
              /\ \E n \in FailToPass : score.ftp[n] \in {"FAILED", "ERROR"}
          BY <4>1 DEF PreflightStatus
        <4> QED BY <4>1, <4>2
      <3> QED BY <3>1, <2>1, <1>t DEF ScoresCompare, FailedBefore
    <2>2. CASE pc' = "raised" /\ UNCHANGED <<before, phase, score>>
      BY <2>2, <1>t DEF ScoresCompare, FailedBefore
    <2> QED BY <2>1, <2>2 DEF preflight
  <1> QED BY <1>1, <1>2, <1>3, <1>4, <1>5, <1>6

\* The tests of the candidate begin, or there is a verdict without them.
LEMMA OfficialBeginsKeeps ==
  ASSUME Core, OfficialBegins
  PROVE  Core' /\ Verdicts'
  <1> USE DEF Core
  <1>m. mode = "official" /\ mode' = mode /\ pc' \in {"await", "done"} /\ thread.at = "none" /\ pc = "start"
        /\ UNCHANGED docker /\ raising' = raising
    BY DEF OfficialBegins, Verdict, ThreadFits
  <1>c. \/ /\ pc' = "done" /\ thread' = thread
           /\ verdict' \in {"unavailable", "infra_error", "incomplete"}
        \/ pc' = "await" /\ verdict' = verdict /\ before.status = "reproduced" /\ Spawns("patch")
    BY DEF OfficialBegins, Verdict
  <1>b. budget' \in Nat /\ cause' \in {None, "budget", "execution"}
    <2>1. budget' = budget \/ (budget > 0 /\ budget' = budget - 1)
      BY DEF OfficialBegins
    <2> QED BY <2>1 DEF OfficialBegins, VerificationTypeOK
  <1>t. thread' = [at |-> thread'.at, cancellation |-> thread'.cancellation, out |-> thread'.out]
        /\ (pc' = "done" => thread'.at = "none") /\ (pc' = "await" => thread'.at = "patch")
    <2>1. CASE Spawns("patch") /\ pc' = "await"
      BY <2>1, SpawnsOne
    <2>2. CASE thread' = thread /\ pc' = "done"
      BY <2>2, <1>m DEF VerificationTypeOK
    <2> QED BY <2>1, <2>2, <1>c
  <1>1. VerificationTypeOK'
    BY <1>t, <1>b, <1>c, <1>m DEF OfficialBegins, VerificationTypeOK, docker
  <1>2. ThreadFits'
    BY <1>t, <1>m, <1>c DEF ThreadFits
  <1>3. CopyHeld' /\ ResultsRecorded'
    BY <1>m, OfficialFrame, VerificationAssumption DEF OfficialBegins, VerdictComesLast
  <1>4. VerdictComesLast'
    BY <1>m, <1>c DEF OfficialBegins, VerdictComesLast
  <1>5. ContainersHeld'
    BY <1>t, <1>m, <1>c DEF OfficialBegins, ContainersHeld, Container, docker
  <1>6. ScoresCompare'
    BY <1>t, <1>m, <1>c DEF ScoresCompare, FailedBefore, docker
  <1>7. verdict' \notin {"passed", "failed"}
    BY <1>c, <1>m, VerificationAssumption DEF VerdictComesLast
  <1>8. Verdicts'
    BY <1>7 DEF Verdicts, VerdictMatchesRuns, FailBeforePassAfter
  <1> QED BY <1>1, <1>2, <1>3, <1>4, <1>5, <1>6, <1>8

\* The verdict on the candidate.
LEMMA VerifyCandidateKeeps ==
  ASSUME Core, verify_candidate
  PROVE  Core' /\ Verdicts'
  <1> USE DEF Core
  <1>m. mode = "official" /\ mode' = mode /\ pc = "await" /\ pc' \in {"await", "done", "raised"}
        /\ thread.at = "done" /\ phase = "final" /\ UNCHANGED docker /\ raising = None /\ verdict = None
    BY DEF verify_candidate, Verdict, VerdictComesLast
  <1>k. before.status = "reproduced" /\ FailedBefore
    BY <1>m DEF ScoresCompare
  <1>c. \/ Spawns("start") /\ pc' = "await" /\ UNCHANGED <<raising, verdict>>
        \/ /\ thread' = NoThread /\ pc' = "done" /\ UNCHANGED raising /\ verdict' = "infra_error"
        \/ thread' = NoThread /\ pc' = "raised" /\ UNCHANGED verdict
        \/ /\ thread.out.kind = "score" /\ thread' = NoThread /\ pc' = "done" /\ UNCHANGED raising
           /\ verdict' = IF score.infra THEN "infra_error"
                         ELSE IF AllPassed(score.ftp) /\ AllPassed(score.ptp) THEN "passed"
                         ELSE "failed"
    BY <1>m DEF verify_candidate, Verdict
  <1>t. thread' = [at |-> thread'.at, cancellation |-> thread'.cancellation, out |-> thread'.out]
        /\ (pc' # "await" => thread'.at = "none") /\ (pc' = "await" => thread'.at = "start")
    <2>1. CASE Spawns("start") /\ pc' = "await"
      BY <2>1, SpawnsOne
    <2>2. CASE thread' = NoThread /\ pc' # "await"
      BY <2>2 DEF NoThread
    <2> QED BY <2>1, <2>2, <1>c
  <1>v. verdict' \in {None, "infra_error", "failed", "passed"} /\ (pc' # "done" => verdict' = None)
        /\ (pc' # "raised" => raising' = None)
    BY <1>c, <1>m
  <1>1. VerificationTypeOK'
    BY <1>t, <1>v, <1>m DEF verify_candidate, VerificationTypeOK, docker
  <1>2. ThreadFits'
    BY <1>t, <1>m DEF ThreadFits
  <1>3. CopyHeld' /\ ResultsRecorded'
    <2>1. raising' # "RemovalError"
      BY <1>m, VerificationAssumption DEF verify_candidate
    <2> QED BY <1>m, <2>1, OfficialFrame DEF verify_candidate
  <1>4. VerdictComesLast'
    BY <1>m, <1>v DEF verify_candidate, VerdictComesLast
  <1>5. ContainersHeld'
    BY <1>t, <1>m DEF verify_candidate, ContainersHeld, Container, docker
  <1>6. ScoresCompare'
    BY <1>t, <1>m, <1>k DEF ScoresCompare, FailedBefore, docker
  <1>7. FailBeforePassAfter'
    BY <1>k, <1>m DEF FailBeforePassAfter, FailedBefore, docker
  <1>8. VerdictMatchesRuns'
    <2>1. ASSUME verdict' = "passed"
          PROVE  /\ AllPassed(score.ftp) /\ AllPassed(score.ptp) /\ DOMAIN score.ptp = PassToPass
                 /\ raising' = None
      <3>1. /\ thread.out.kind = "score" /\ ~score.infra /\ AllPassed(score.ftp) /\ AllPassed(score.ptp)
            /\ raising' = None
        BY <2>1, <1>c, <1>m, VerificationAssumption
      <3> QED BY <3>1, <1>m DEF ScoresCompare
    <2>2. ASSUME verdict' = "failed"
          PROVE  \E s \in {score.ftp, score.ptp} : \E n \in DOMAIN s : s[n] # "PASSED"
      <3>1. ~AllPassed(score.ftp) \/ ~AllPassed(score.ptp)
        BY <2>2, <1>c, <1>m, VerificationAssumption
      <3> QED BY <3>1 DEF AllPassed
    <2>3. score' = score
      BY <1>m DEF docker
    <2> QED BY <2>1, <2>2, <2>3, <1>m DEF VerdictMatchesRuns, AllPassed
  <1> QED BY <1>1, <1>2, <1>3, <1>4, <1>5, <1>6, <1>7, <1>8 DEF Verdicts

\* A thread with the candidate or a container works for a waiting official
\* verification, whose coroutine, copy and commands it leaves alone.
LEMMA DockerFrame ==
  ASSUME Core, thread.at \in {"patch", "start", "prepare", "ftp", "ptp", "remove"},
         UNCHANGED service, process' = process, fates' = fates
  PROVE  /\ mode = "official" /\ mode' = mode /\ pc \in {"await", "joining"} /\ pc' = pc /\ plan' = plan
         /\ results' = results /\ verdict' = None /\ budget' = budget /\ cause' = cause /\ copy' = copy
         /\ CopyHeld' /\ ResultsRecorded' /\ VerdictComesLast'
  <1>1. mode = "official"
    BY DEF Core, ThreadFits, VerificationTypeOK
  <1>2. /\ mode' = mode /\ pc \in {"await", "joining"} /\ pc' = pc /\ plan' = plan /\ results' = results
        /\ verdict' = None /\ budget' = budget /\ cause' = cause /\ copy' = copy /\ VerdictComesLast'
        /\ raising' = None
    BY ServiceFrame
  <1>3. CopyHeld' /\ ResultsRecorded'
    BY <1>1, <1>2, VerificationAssumption, OfficialFrame
  <1> QED BY <1>1, <1>2, <1>3

\* The candidate's patch is built, or found unusable.
LEMMA PatchKeeps ==
  ASSUME Core, build_candidate_patch
  PROVE  Core' /\ verdict' = None
  <1> USE DEF Core
  <1>s. /\ mode = "official" /\ mode' = mode /\ pc \in {"await", "joining"} /\ pc' = pc /\ plan' = plan
        /\ results' = results /\ verdict' = None /\ budget' = budget /\ cause' = cause /\ copy' = copy
        /\ CopyHeld' /\ ResultsRecorded' /\ VerdictComesLast'
    BY DockerFrame DEF build_candidate_patch
  <1>d. UNCHANGED docker /\ process' = process /\ fates' = fates /\ thread.at = "patch"
    BY DEF build_candidate_patch
  <1>f. (faults' = faults \/ faults' = faults + 1) /\ faults' \in 0 .. MaxFaults
    BY Faulty DEF build_candidate_patch, VerificationTypeOK
  <1>t. /\ thread' = [at |-> thread'.at, cancellation |-> thread'.cancellation, out |-> thread'.out]
        /\ thread'.at = "done" /\ thread'.out \in [kind : {"patch", "bad_patch", "TimeoutExpired"}]
    <2>1. PICK kind \in {"patch", "bad_patch", "TimeoutExpired"} : Done([kind |-> kind])
      BY DEF build_candidate_patch
    <2> QED BY <2>1, DoneSets
  <1>1. VerificationTypeOK'
    BY <1>t, <1>s, <1>d, <1>f DEF VerificationTypeOK, docker
  <1>2. ThreadFits'
    BY <1>t, <1>s DEF ThreadFits
  <1>3. ContainersHeld'
    <2>1. UNCHANGED <<registered, containers, phase, extra>> /\ registered = {}
      BY <1>d DEF ContainersHeld, docker
    <2>2. Cardinality(containers \ registered) \in Nat
      BY ContainersFinite DEF VerificationTypeOK
    <2>3. faults \in Nat
      BY VerificationAssumption DEF VerificationTypeOK
    <2> QED BY <2>1, <2>2, <2>3, <1>t, <1>d, <1>f DEF ContainersHeld, Container
  <1>4. ScoresCompare'
    BY <1>t, <1>s, <1>d DEF ScoresCompare, FailedBefore, docker
  <1> QED BY <1>1, <1>2, <1>3, <1>4, <1>s

\* A container is started, or the client gives up on it.
LEMMA StartKeeps ==
  ASSUME Core, _start_eval_container
  PROVE  Core' /\ verdict' = None
  <1> USE DEF Core
  <1>s. /\ mode = "official" /\ mode' = mode /\ pc \in {"await", "joining"} /\ pc' = pc /\ plan' = plan
        /\ results' = results /\ verdict' = None /\ budget' = budget /\ cause' = cause /\ copy' = copy
        /\ CopyHeld' /\ ResultsRecorded' /\ VerdictComesLast'
    BY DockerFrame DEF _start_eval_container
  <1>d. /\ process' = process /\ fates' = fates /\ phase' = phase /\ before' = before /\ score' = score
        /\ extra' = extra /\ thread.at = "start" /\ registered = {}
    BY DEF _start_eval_container, ContainersHeld
  <1>n. Container \in {"baseline", "final"} \X (0 .. PtpRetries) /\ Container' = Container
    BY <1>d DEF Container, VerificationTypeOK
  <1> DEFINE c == Container
  <1>f. /\ IsFiniteSet(containers) /\ Cardinality(containers) <= faults /\ faults \in Nat
        /\ Cardinality(containers) \in Nat /\ containers \ registered = containers
    <2>1. containers \ registered = containers
      BY <1>d
    <2> QED BY <2>1, ContainersFinite DEF ContainersHeld
  <1>y. c \in {"baseline", "final"} \X (0 .. PtpRetries)
        /\ containers \subseteq {"baseline", "final"} \X (0 .. PtpRetries)
    BY <1>n DEF VerificationTypeOK
  <1>1. CASE /\ containers' = containers \cup {c} /\ registered' = registered \cup {c}
             /\ thread' = [thread EXCEPT !.at = "prepare"] /\ UNCHANGED faults
    <2>t. /\ thread' = [at |-> thread'.at, cancellation |-> thread'.cancellation, out |-> thread'.out]
          /\ thread'.at = "prepare"
      BY <1>1, MovesOn
    <2>1. VerificationTypeOK'
      <3>1. registered' \subseteq containers' /\ containers' \subseteq {"baseline", "final"} \X (0 .. PtpRetries)
        BY <1>1, <1>y, <1>d
      <3> QED BY <3>1, <1>1, <2>t, <1>s, <1>d DEF VerificationTypeOK
    <2>2. ThreadFits'
      BY <2>t, <1>s DEF ThreadFits
    <2>3. ContainersHeld'
      <3>1. registered' = {c} /\ (containers \ registered)' \subseteq containers
        BY <1>1, <1>d
      <3>2. Cardinality((containers \ registered)') <= Cardinality(containers)
            /\ Cardinality((containers \ registered)') \in Nat
        BY <3>1, <1>f, FS_Subset, FS_CardinalityType
      <3>3. Cardinality((containers \ registered)') <= faults'
        BY <3>2, <1>f, <1>1
      <3> QED BY <3>1, <3>3, <2>t, <1>n DEF ContainersHeld
    <2>4. ScoresCompare'
      BY <2>t, <1>s, <1>d DEF ScoresCompare, FailedBefore
    <2> QED BY <2>1, <2>2, <2>3, <2>4, <1>s
  <1>2. CASE /\ Fault /\ containers' \in {containers, containers \cup {c}}
             /\ Done([kind |-> "DockerError"]) /\ UNCHANGED registered
    <2>t. /\ thread' = [at |-> thread'.at, cancellation |-> thread'.cancellation, out |-> thread'.out]
          /\ thread'.at = "done" /\ thread'.out = [kind |-> "DockerError"]
      BY <1>2, DoneSets
    <2>f. faults' = faults + 1 /\ faults' \in 0 .. MaxFaults
      BY <1>2, Faulty
    <2>1. VerificationTypeOK'
      <3>1. registered' \subseteq containers' /\ containers' \subseteq {"baseline", "final"} \X (0 .. PtpRetries)
        BY <1>2, <1>y, <1>d
      <3> QED BY <3>1, <2>f, <2>t, <1>s, <1>d DEF VerificationTypeOK
    <2>2. ThreadFits'
      BY <2>t, <1>s DEF ThreadFits
    <2>3. ContainersHeld'
      <3>1. registered' = {} /\ (containers \ registered)' = containers'
        BY <1>2, <1>d
      <3>2. Cardinality(containers \cup {c}) = Cardinality(containers)
            \/ Cardinality(containers \cup {c}) = Cardinality(containers) + 1
        BY <1>f, FS_AddElement
      <3>3. Cardinality(containers') = Cardinality(containers)
            \/ Cardinality(containers') = Cardinality(containers) + 1
        BY <1>2, <3>2
      <3>4. Cardinality((containers \ registered)') <= faults'
        BY <3>1, <3>3, <1>f, <2>f
      <3> QED BY <3>1, <3>4, <2>t DEF ContainersHeld
    <2>4. ScoresCompare'
      BY <2>t, <1>s, <1>d DEF ScoresCompare, FailedBefore
    <2> QED BY <2>1, <2>2, <2>3, <2>4, <1>s
  <1> QED BY <1>1, <1>2 DEF _start_eval_container

\* A step in a running container, with the score it leaves.
LEMMA ScoringKeeps ==
  ASSUME Core, thread.at \in {"prepare", "ftp", "ptp"}, NEW step \in {"ftp", "ptp", "remove"},
         thread' = [thread EXCEPT !.at = step],
         UNCHANGED <<service, process, phase, before, extra, containers, registered, fates>>,
         faults' = faults \/ (faults' = faults + 1 /\ faults' \in 0 .. MaxFaults),
         score' = [ftp |-> score'.ftp, ptp |-> score'.ptp, infra |-> score'.infra],
         step = "remove" /\ phase = "final" /\ ~score'.infra => DOMAIN score'.ptp = PassToPass
  PROVE  Core' /\ verdict' = None
  <1> USE DEF Core
  <1>s. /\ mode = "official" /\ mode' = mode /\ pc \in {"await", "joining"} /\ pc' = pc /\ plan' = plan
        /\ results' = results /\ verdict' = None /\ budget' = budget /\ cause' = cause /\ copy' = copy
        /\ CopyHeld' /\ ResultsRecorded' /\ VerdictComesLast'
    BY DockerFrame
  <1>t. /\ thread' = [at |-> thread'.at, cancellation |-> thread'.cancellation, out |-> thread'.out]
        /\ thread'.at = step
    BY MovesOn
  <1>f. faults' \in 0 .. MaxFaults
    BY DEF VerificationTypeOK
  <1>1. VerificationTypeOK'
    BY <1>t, <1>s, <1>f DEF VerificationTypeOK
  <1>2. ThreadFits'
    BY <1>t, <1>s DEF ThreadFits
  <1>3. ContainersHeld'
    <2>1. registered = {Container} /\ Cardinality(containers \ registered) <= faults /\ Container' = Container
      BY DEF ContainersHeld, Container
    <2>2. Cardinality((containers \ registered)') <= faults'
      BY <2>1, ContainersFinite
    <2> QED BY <2>1, <2>2, <1>t DEF ContainersHeld
  <1>4. ScoresCompare'
    BY <1>t, <1>s DEF ScoresCompare, FailedBefore
  <1> QED BY <1>1, <1>2, <1>3, <1>4, <1>s

\* The patches are applied, or are not.
LEMMA ApplyKeeps ==
  ASSUME Core, _apply_patch
  PROVE  Core' /\ verdict' = None
  <1>1. CASE thread' = [thread EXCEPT !.at = "ftp"] /\ UNCHANGED <<score, faults>>
    <2>1. score' = [ftp |-> score'.ftp, ptp |-> score'.ptp, infra |-> score'.infra]
      BY <1>1 DEF Core, VerificationTypeOK
    <2> QED BY <1>1, <2>1, ScoringKeeps DEF _apply_patch
  <1>2. CASE /\ Fault /\ thread' = [thread EXCEPT !.at = "remove"]
             /\ score' = [ftp |-> [n \in FailToPass |-> "MISSING"], ptp |-> <<>>, infra |-> TRUE]
    <2>1. faults' = faults + 1 /\ faults' \in 0 .. MaxFaults
      BY <1>2, Faulty DEF Core
    <2>2. score' = [ftp |-> score'.ftp, ptp |-> score'.ptp, infra |-> score'.infra] /\ score'.infra
      BY <1>2
    <2> QED BY <1>2, <2>1, <2>2, ScoringKeeps DEF _apply_patch
  <1> QED BY <1>1, <1>2 DEF _apply_patch

\* The tests that failed before.
LEMMA FailToPassKeeps ==
  ASSUME Core, RunsFailToPass
  PROVE  Core' /\ verdict' = None
  <1>1. PICK late \in BOOLEAN, statuses \in [FailToPass -> Statuses] :
          LET infra == detect_infra_reason(late, statuses)
          IN  /\ score' = [ftp |-> statuses, ptp |-> <<>>, infra |-> infra]
              /\ thread' = [thread EXCEPT !.at =
                     IF infra \/ PassToPass = {} \/ phase = "baseline" THEN "remove" ELSE "ptp"]
    BY DEF RunsFailToPass
  <1>2. PICK infra \in BOOLEAN : infra = detect_infra_reason(late, statuses)
    BY Zenon DEF detect_infra_reason
  <1>3. /\ score' = [ftp |-> statuses, ptp |-> <<>>, infra |-> infra]
        /\ thread' = [thread EXCEPT !.at =
               IF infra \/ PassToPass = {} \/ phase = "baseline" THEN "remove" ELSE "ptp"]
    BY <1>1, <1>2
  <1> DEFINE step == IF infra \/ PassToPass = {} \/ phase = "baseline" THEN "remove" ELSE "ptp"
  <1>4. step \in {"ftp", "ptp", "remove"} /\ thread' = [thread EXCEPT !.at = step]
    BY <1>3
  <1>5. score' = [ftp |-> score'.ftp, ptp |-> score'.ptp, infra |-> score'.infra]
        /\ score'.infra = infra /\ score'.ptp = <<>> /\ DOMAIN score'.ptp = {}
    BY <1>3
  <1>6. step = "remove" /\ phase = "final" /\ ~score'.infra => DOMAIN score'.ptp = PassToPass
    BY <1>5
  <1> HIDE DEF step
  <1> QED BY <1>4, <1>5, <1>6, ScoringKeeps DEF RunsFailToPass

\* The tests that passed before.
LEMMA PassToPassKeeps ==
  ASSUME Core, RunsPassToPass
  PROVE  Core' /\ verdict' = None
  <1>1. PICK late \in BOOLEAN, statuses \in [PassToPass -> Statuses] :
          score' = [score EXCEPT !.ptp = statuses, !.infra = detect_infra_reason(late, statuses)]
    BY DEF RunsPassToPass
  <1>2. PICK infra \in BOOLEAN : infra = detect_infra_reason(late, statuses)
    BY Zenon DEF detect_infra_reason
  <1>3. score = [ftp |-> score.ftp, ptp |-> score.ptp, infra |-> score.infra]
    BY DEF Core, VerificationTypeOK
  <1>4. score' = [ftp |-> score.ftp, ptp |-> statuses, infra |-> infra]
    BY <1>1, <1>2, <1>3
  <1>5. score' = [ftp |-> score'.ftp, ptp |-> score'.ptp, infra |-> score'.infra]
        /\ DOMAIN score'.ptp = PassToPass
    BY <1>4
  <1> QED BY <1>5, ScoringKeeps DEF RunsPassToPass

\* Both lists in one run.
LEMMA TogetherKeeps ==
  ASSUME Core, RunsTogether
  PROVE  Core' /\ verdict' = None
  <1>1. PICK late \in BOOLEAN, statuses \in [FailToPass \cup PassToPass -> Statuses] :
          score' = [ftp |-> [n \in FailToPass |-> statuses[n]],
                    ptp |-> [n \in PassToPass |-> statuses[n]],
                    infra |-> detect_infra_reason(late, statuses)]
    BY DEF RunsTogether
  <1>2. PICK infra \in BOOLEAN : infra = detect_infra_reason(late, statuses)
    BY Zenon DEF detect_infra_reason
  <1>3. score' = [ftp |-> [n \in FailToPass |-> statuses[n]],
                  ptp |-> [n \in PassToPass |-> statuses[n]], infra |-> infra]
    BY <1>1, <1>2
  <1>4. score' = [ftp |-> score'.ftp, ptp |-> score'.ptp, infra |-> score'.infra]
        /\ DOMAIN score'.ptp = PassToPass
    BY <1>3
  <1> QED BY <1>4, ScoringKeeps DEF RunsTogether

\* The container is removed, and perhaps a new attempt begins.
LEMMA RemoveKeeps ==
  ASSUME Core, _remove
  PROVE  Core' /\ verdict' = None
  <1> USE DEF Core
  <1>s. /\ mode = "official" /\ mode' = mode /\ pc \in {"await", "joining"} /\ pc' = pc /\ plan' = plan
        /\ results' = results /\ verdict' = None /\ budget' = budget /\ cause' = cause /\ copy' = copy
        /\ CopyHeld' /\ ResultsRecorded' /\ VerdictComesLast'
    BY DockerFrame DEF _remove
  <1>d. /\ process' = process /\ fates' = fates /\ phase' = phase /\ before' = before /\ score' = score
        /\ thread.at = "remove" /\ registered = {Container}
    BY DEF _remove, ContainersHeld
  <1> DEFINE c == Container
             others == containers \ {c}
  <1>r. registered' = {}
    BY <1>d DEF _remove
  <1>f. /\ IsFiniteSet(others) /\ Cardinality(others) <= faults /\ faults \in Nat
        /\ Cardinality(others) \in Nat /\ c \in containers
    <2>1. containers \ registered = others /\ c \in containers
      BY <1>d DEF VerificationTypeOK
    <2> QED BY <2>1, ContainersFinite DEF ContainersHeld
  <1>t. /\ thread' = [at |-> thread'.at, cancellation |-> thread'.cancellation, out |-> thread'.out]
        /\ \/ thread'.at = "start" /\ extra' = extra + 1 /\ extra < PtpRetries
           \/ thread'.at = "done" /\ thread'.out = [kind |-> "score"] /\ extra' = extra
    <2>1. CASE thread' = [thread EXCEPT !.at = "start"] /\ extra' = extra + 1 /\ extra < PtpRetries
      BY <2>1, MovesOn
    <2>2. CASE Done([kind |-> "score"]) /\ extra' = extra
      BY <2>2, DoneSets
    <2> QED BY <2>1, <2>2 DEF _remove
  <1>e. extra' \in 0 .. PtpRetries
    <2>1. extra \in 0 .. PtpRetries /\ PtpRetries \in Nat
      BY VerificationAssumption DEF VerificationTypeOK
    <2> QED BY <2>1, <1>t
  <1>g. /\ (containers' = others /\ faults' = faults) \/ (containers' = containers /\ faults' = faults + 1)
        /\ faults' \in 0 .. MaxFaults
    BY Faulty DEF _remove, VerificationTypeOK
  <1>1. VerificationTypeOK'
    <2>1. registered' \subseteq containers' /\ containers' \subseteq {"baseline", "final"} \X (0 .. PtpRetries)
      BY <1>r, <1>g DEF VerificationTypeOK
    <2> QED BY <2>1, <1>e, <1>g, <1>t, <1>s, <1>d DEF VerificationTypeOK
  <1>2. ThreadFits'
    BY <1>t, <1>s DEF ThreadFits
  <1>3. ContainersHeld'
    <2>1. (containers \ registered)' = containers'
      BY <1>r
    <2>2. Cardinality(others \cup {c}) = Cardinality(others) \/ Cardinality(others \cup {c}) = Cardinality(others) + 1
      <3> HIDE DEF others, c
      <3>1. Cardinality(others \cup {c}) = IF c \in others THEN Cardinality(others) ELSE Cardinality(others) + 1
        BY <1>f, FS_AddElement
      <3> QED BY <3>1
    <2>3. others \cup {c} = containers
      BY <1>f
    <2>4. Cardinality(containers') <= faults'
      <3>1. CASE containers' = others /\ faults' = faults
        <4>1. Cardinality(containers') = Cardinality(others)
          BY <3>1
        <4> QED BY <4>1, <3>1, <1>f
      <3>2. CASE containers' = containers /\ faults' = faults + 1
        <4>1. containers' = others \cup {c}
          BY <3>2, <2>3
        <4>2. Cardinality(containers') = Cardinality(others \cup {c})
          BY <4>1
        <4> HIDE DEF others, c
        <4> QED BY <4>2, <2>2, <3>2, <1>f
      <3> QED BY <3>1, <3>2, <1>g
    <2> QED BY <2>1, <2>4, <1>r, <1>t DEF ContainersHeld
  <1>4. ScoresCompare'
    BY <1>t, <1>s, <1>d DEF ScoresCompare, FailedBefore
  <1> QED BY <1>1, <1>2, <1>3, <1>4, <1>s

(***************************************************************************)
(* The theorems                                                            *)
(***************************************************************************)
\* The invariant holds when the verification is asked for.
LEMMA InitKeeps ==
  ASSUME Init
  PROVE  Core /\ Verdicts
  <1>a. PtpRetries \in Nat /\ MaxFaults \in Nat /\ Budgets \subseteq Nat
    BY VerificationAssumption
  <1>p. plan \in Seq(Range(plan)) /\ Len(plan) \in Nat
    <2>1. PICK in \in Inputs : plan = build_verification_plan(in)
      BY DEF Init
    <2>2. plan \in Seq(Range(plan))
      BY <2>1, PlanIsSequence
    <2> QED BY <2>2
  <1>t. thread = [at |-> "none", cancellation |-> FALSE, out |-> None]
        /\ process = [main |-> "none", group |-> FALSE, output |-> "plain"]
        /\ score = [ftp |-> <<>>, ptp |-> <<>>, infra |-> FALSE]
    BY DEF Init, NoThread, NoProcess, NoScore
  <1>1. VerificationTypeOK
    <2>1. thread = [at |-> thread.at, cancellation |-> thread.cancellation, out |-> thread.out]
          /\ score = [ftp |-> score.ftp, ptp |-> score.ptp, infra |-> score.infra]
      BY <1>t
    <2>2. process \in [main : {"none", "alive", "zero", "nonzero", "killed", "stuck"},
                       group : BOOLEAN, output : Outputs]
      <3>1. FALSE \in BOOLEAN
        OBVIOUS
      <3> QED BY <1>t, <3>1 DEF Outputs
    <2>3. results \in Seq(Results) /\ fates \in Seq({"zero", "nonzero", "killed"})
          /\ Len(results) <= Len(plan) /\ Len(fates) <= Len(plan)
      BY <1>p DEF Init
    <2>4. copy \in BOOLEAN
      BY ZenonT(20) DEF Init
    <2>5. extra \in 0 .. PtpRetries /\ faults \in 0 .. MaxFaults /\ budget \in Nat
      BY <1>a DEF Init
    <2> QED BY <1>p, <2>1, <2>2, <2>3, <2>4, <2>5 DEF Init, VerificationTypeOK
  <1>2. ThreadFits
    BY <1>t DEF Init, ThreadFits
  <1>3. CopyHeld
    BY <1>t, VerificationAssumption DEF Init, CopyHeld
  <1>4. ContainersHeld
    <2>1. containers \ registered = {} /\ registered = {} /\ faults = 0
      BY DEF Init
    <2>2. Cardinality(containers \ registered) = 0
      BY <2>1, FS_EmptySet
    <2> QED BY <2>1, <2>2, <1>t DEF ContainersHeld
  <1>5. ResultsRecorded
    BY <1>t DEF Init, ResultsRecorded
  <1>6. VerdictComesLast /\ verdict = None
    BY DEF Init, VerdictComesLast
  <1>7. ScoresCompare
    BY <1>t DEF Init, ScoresCompare
  <1> QED BY <1>1, <1>2, <1>3, <1>4, <1>5, <1>6, <1>7, Undecided DEF Core

\* A state that changes nothing.
LEMMA StutterKeeps ==
  ASSUME Core, Verdicts, UNCHANGED vars
  PROVE  Core' /\ Verdicts'
  <1>1. /\ UNCHANGED mode /\ UNCHANGED plan /\ UNCHANGED budget /\ UNCHANGED pc /\ UNCHANGED results
        /\ UNCHANGED cause /\ UNCHANGED raising /\ UNCHANGED copy /\ UNCHANGED verdict
        /\ UNCHANGED thread /\ UNCHANGED process /\ UNCHANGED phase /\ UNCHANGED before
        /\ UNCHANGED score /\ UNCHANGED extra /\ UNCHANGED containers /\ UNCHANGED registered
        /\ UNCHANGED faults /\ UNCHANGED fates
    BY DEF vars, service, docker
  <1>2. VerificationTypeOK'
    BY <1>1 DEF Core, VerificationTypeOK
  <1>3. ThreadFits' /\ CopyHeld'
    BY <1>1 DEF Core, ThreadFits, CopyHeld
  <1>4. ContainersHeld'
    BY <1>1 DEF Core, ContainersHeld, Container
  <1>5. ResultsRecorded'
    BY <1>1 DEF Core, ResultsRecorded
  <1>6. VerdictComesLast' /\ ScoresCompare'
    BY <1>1 DEF Core, VerdictComesLast, ScoresCompare, HasOracle, FailedBefore
  <1>7. Verdicts'
    BY <1>1 DEF Verdicts, VerdictMatchesRuns, FailBeforePassAfter, AllPassed, HasOracle, FailedBefore
  <1> QED BY <1>2, <1>3, <1>4, <1>5, <1>6, <1>7 DEF Core

\* Before the end, the verdict says nothing after a step either.
LEMMA UndecidedNext ==
  ASSUME verdict' = None
  PROVE  Verdicts'
  BY VerificationAssumption DEF Verdicts, VerdictMatchesRuns, FailBeforePassAfter

\* Every step keeps the invariant.
LEMMA NextKeeps ==
  ASSUME Core, Verdicts, [Next]_vars
  PROVE  Core' /\ Verdicts'
  <1>1. CASE Coroutine
    BY <1>1, LocalBeginsKeeps, CopyKeeps, NextCommandKeeps, AllRunKeeps, ReceivesKeeps, CleansKeeps,
       ConcludesKeeps, JoinedKeeps, PreflightBeginsKeeps, PreflightKeeps, OfficialBeginsKeeps,
       VerifyCandidateKeeps, UndecidedNext DEF Coroutine
  <1>2. CASE Thread
    BY <1>2, PopenKeeps, LoopEndsKeeps, KillKeeps, PatchKeeps, StartKeeps, ApplyKeeps, FailToPassKeeps,
       PassToPassKeeps, TogetherKeeps, RemoveKeeps, UndecidedNext DEF Thread
  <1>3. CASE Cancels
    BY <1>3, CancelsKeeps, UndecidedNext
  <1>4. CASE ProcessExits
    BY <1>4, ProcessExitsKeeps, UndecidedNext
  <1>5. CASE Over \/ UNCHANGED vars
    BY <1>5, StutterKeeps DEF Over
  <1> QED BY <1>1, <1>2, <1>3, <1>4, <1>5 DEF Next

\* The invariant of every run.
THEOREM VerificationIsSound == Spec => [](Core /\ Verdicts)
  <1>1. Init => Core /\ Verdicts
    BY InitKeeps
  <1>2. Core /\ Verdicts /\ [Next]_vars => (Core /\ Verdicts)'
    BY NextKeeps
  <1> QED BY <1>1, <1>2, PTL DEF Spec

\* What the coroutine, the thread, the copy and the containers keep at all times
\* gives what is left of them when a verification ends.
LEMMA CoreSuffices ==
  ASSUME Core, Verdicts
  PROVE  VerificationInv
  <1> USE DEF Core
  <1>1. CopyOutlivesProcess
    <2>1. ASSUME process.main = "alive" \/ process.group
          PROVE  copy /\ thread.at \in {"running", "reap"}
      <3>1. thread.at \in {"running", "reap"}
        BY <2>1 DEF CopyHeld
      <3> QED BY <3>1, OwnsProcess
    <2>2. ASSUME Ended
          PROVE  /\ thread.at = "none"
                 /\ copy => pc = "done" /\ raising = "RemovalError" /\ verdict # "passed"
      <3>1. thread.at = "none" /\ (copy => raising = "RemovalError" /\ pc = "done")
        BY <2>2 DEF Ended, ThreadFits, CopyHeld
      <3>2. verdict = "passed" => raising = None
        BY DEF Verdicts, VerdictMatchesRuns
      <3> QED BY <3>1, <3>2, VerificationAssumption
    <2> QED BY <2>1, <2>2 DEF CopyOutlivesProcess
  <1>2. ContainersRemoved
    <2>1. ASSUME Ended
          PROVE  registered = {} /\ Cardinality(containers) <= faults
      <3>1. thread.at = "none"
        BY <2>1 DEF Ended, ThreadFits
      <3>2. registered = {} /\ Cardinality(containers \ registered) <= faults
        BY <3>1 DEF ContainersHeld
      <3>3. containers \ registered = containers
        BY <3>2
      <3> QED BY <3>2, <3>3
    <2> QED BY <2>1 DEF ContainersRemoved
  <1> QED BY <1>1, <1>2 DEF VerificationInv

\* What a verification holds and what it has on record: a process runs only in its
\* copy and under its thread, every container is registered while it is used, and
\* what outlives the verification is a failed call's.
THEOREM VerificationCorrect == Spec => []VerificationInv
  <1>1. Core /\ Verdicts => VerificationInv
    BY CoreSuffices
  <1> QED BY <1>1, VerificationIsSound, PTL

\* A verdict is about what really ran: service.run and verify_candidate pass only
\* what all passed, and blame only what a test reported.
THEOREM VerdictIsTrue == Spec => []VerdictMatchesRuns
  <1>1. Verdicts => VerdictMatchesRuns
    BY DEF Verdicts
  <1> QED BY <1>1, VerificationIsSound, PTL

\* An official verdict is given only on a failure that was seen before the repair.
THEOREM FailsBeforePasses == Spec => []FailBeforePassAfter
  <1>1. Verdicts => FailBeforePassAfter
    BY DEF Verdicts
  <1> QED BY <1>1, VerificationIsSound, PTL
=============================================================================
