---------------------------- MODULE Verification ----------------------------
(***************************************************************************)
(* One verification of a candidate, as the verify node asks for it         *)
(* (graph/builder.py): the harness's commands in an isolated copy          *)
(* (verification/service.py), each a subprocess that a worker thread owns  *)
(* (tools/shell.py), or the official tests in fresh containers             *)
(* (benchmark/docker.py).                                                  *)
(*                                                                         *)
(* Coroutine, thread, subprocess and Docker daemon move by themselves: the *)
(* node may be cancelled while the thread still owns a process, a process  *)
(* may exit while it is being timed out, and every file or daemon          *)
(* operation may fail.                                                     *)
(***************************************************************************)
EXTENDS Naturals, Sequences, FiniteSets, SequencesExt

CONSTANTS
    Inputs,        \* pairs of command lists: mandatory, supplementary
    Budgets,       \* tool calls the run may have left
    FailToPass, PassToPass,  \* test nodes of the benchmark task
    PtpRetries,    \* ptp_retries
    MaxFaults,     \* failing file, process or daemon operations (bound)
    None

ASSUME VerificationAssumption ==
    /\ \A in \in Inputs : /\ in.mandatory \in Seq(Range(in.mandatory))
                         /\ in.supplementary \in Seq(Range(in.supplementary))
    /\ Budgets \subseteq Nat /\ FailToPass # {} /\ PtpRetries \in Nat /\ MaxFaults \in Nat
    /\ None \notin {"passed", "failed", "execution", "timeout", "marker", "RemovalError"}

VARIABLES
    mode,        \* "local" or "official"
    plan,        \* build_verification_plan
    budget,      \* tool calls left
    pc,          \* where the coroutine stands
    results,     \* VerificationCommandResult of each planned command so far
    cause,       \* incomplete_cause; None while there is no incomplete_reason
    raising,     \* the exception the coroutine is unwinding
    copy,        \* the isolated copy exists
    thread,      \* the worker of run_cancellable: step, cancellation event, outcome
    process,     \* the subprocess, and whether a child of its group holds the pipes
    phase,       \* "baseline" in preflight, "final" afterwards
    before,      \* BenchmarkPreflightResult: status and test results before the repair
    score,       \* SuiteScore of the last attempt
    extra,       \* attempts of score_patches made before this one
    containers,  \* containers of the task the daemon runs
    registered,  \* _eval_containers
    verdict,     \* the VerificationResult
    faults,
    fates        \* how each command's process came to its end (history)

service == <<mode, plan, budget, pc, results, cause, raising, copy, verdict>>
docker == <<phase, before, score, extra, containers, registered>>
vars == <<service, thread, process, docker, faults, fates>>

Outputs == {"plain", "env", "baseline", "both"}
Statuses == {"PASSED", "FAILED", "ERROR", "SKIPPED", "MISSING"}
NoThread == [at |-> "none", cancellation |-> FALSE, out |-> None]
NoProcess == [main |-> "none", group |-> FALSE, output |-> "plain"]
NoScore == [ftp |-> <<>>, ptp |-> <<>>, infra |-> FALSE]

Fault == faults < MaxFaults /\ faults' = faults + 1

(***************************************************************************)
(* The plan and the verdict                                                *)
(***************************************************************************)
\* Mandatory commands first; a command that is there already is not repeated.
build_verification_plan(in) ==
    LET Tag(s, source) == [i \in DOMAIN s |-> [command |-> s[i], source |-> source]]
        all == Tag(in.mandatory, "mandatory") \o Tag(in.supplementary, "supplementary")
        kept == {i \in DOMAIN all : \A j \in DOMAIN all : j < i => all[j].command # all[i].command}
        kth(k) == CHOOSE i \in kept : Cardinality({j \in kept : j <= i}) = k
    IN  [k \in 1 .. Cardinality(kept) |-> all[kth(k)]]

HasOracle == \E x \in Range(plan) : x.source = "mandatory"

Skipped == [executed |-> FALSE, exit |-> "none", timed_out |-> FALSE, output |-> "plain"]

\* results, filled up with entries for the commands that were not run
SkipRest(done) == done \o [i \in 1 .. Len(plan) - Len(done) |-> Skipped]

\* A result failed; its failure is the environment's when it timed out or its
\* output has a marker of a collection or import error ("env", "both").  A note
\* that the unrepaired task failed the same way ("baseline", "both") is no marker.
Failed(r) == r.executed /\ (r.exit # "zero" \/ r.timed_out)
environment_failure_reason(r) ==
    IF ~r.executed THEN None
    ELSE IF r.timed_out THEN "timeout"
    ELSE IF r.output \in {"env", "both"} THEN "marker" ELSE None

\* mutant: checks that were not run are not missed
evaluate_verificationPartial(rs, oracle, why) ==
    IF ~oracle THEN "unavailable"
    ELSE IF \E r \in Range(rs) : Failed(r) THEN "failed" ELSE "passed"

evaluate_verification(rs, oracle, why) ==
    LET failed == {r \in Range(rs) : Failed(r)}
        env == {r \in failed : environment_failure_reason(r) # None}
        executed == Cardinality({i \in DOMAIN rs : rs[i].executed})
    IN  IF ~oracle THEN "unavailable"
        ELSE IF env # {}
             THEN IF \E r \in failed : r.output \in {"baseline", "both"} THEN "inconclusive" ELSE "infra_error"
        ELSE IF failed # {} THEN "failed"
        ELSE IF why # None \/ executed < Len(plan) THEN "incomplete"
        ELSE "passed"

Init ==
    /\ mode \in {"local", "official"}
    /\ plan \in {build_verification_plan(in) : in \in Inputs}
    /\ budget \in Budgets
    /\ pc = IF mode = "local" THEN "start" ELSE "preflight"
    /\ results = <<>> /\ cause = None /\ raising = None /\ copy = FALSE
    /\ thread = NoThread /\ process = NoProcess
    /\ phase = "baseline" /\ before = None /\ score = NoScore /\ extra = 0 /\ containers = {} /\ registered = {}
    /\ verdict = None /\ faults = 0 /\ fates = <<>>

(***************************************************************************)
(* VerificationService.run                                                 *)
(***************************************************************************)
Spawns(job) == thread' = [NoThread EXCEPT !.at = job]

LocalBegins ==
    /\ pc = "start" /\ mode = "local"
    /\ IF HasOracle THEN pc' = "copy" /\ UNCHANGED <<results, verdict>>
       ELSE /\ results' = SkipRest(<<>>) /\ pc' = "done"
            /\ verdict' = evaluate_verification(SkipRest(<<>>), FALSE, None)
    /\ UNCHANGED <<mode, plan, budget, cause, raising, copy, thread, process, docker, faults, fates>>

\* The temporary directory and the copy in it; what is left of a failed copy is
\* removed on the way out.
isolated_workspace ==
    /\ pc = "copy"
    /\ \/ copy' = TRUE /\ pc' = "next" /\ UNCHANGED <<raising, faults>>
       \/ Fault /\ copy' = TRUE /\ raising' = "OSError" /\ pc' = "cleanup"
    /\ UNCHANGED <<mode, plan, budget, results, cause, verdict, thread, process, docker, fates>>

\* The next command is charged and handed to a thread.  A directory that does
\* not exist raises through the loop; an exhausted budget ends it.
NextCommand ==
    /\ pc = "next" /\ Len(results) < Len(plan)
    /\ \/ /\ budget > 0 /\ budget' = budget - 1
          /\ Spawns("queued") /\ pc' = "await"
          /\ UNCHANGED <<results, cause, raising, faults>>
       \/ /\ budget = 0
          /\ results' = SkipRest(results) /\ cause' = "budget" /\ pc' = "cleanup"
          /\ UNCHANGED <<budget, raising, thread, faults>>
       \/ /\ Fault /\ raising' = "ValueError" /\ pc' = "cleanup"
          /\ UNCHANGED <<budget, results, cause, thread>>
    /\ UNCHANGED <<mode, plan, copy, verdict, process, docker, fates>>

AllRun ==
    /\ pc = "next" /\ Len(results) = Len(plan) /\ pc' = "cleanup"
    /\ UNCHANGED <<mode, plan, budget, results, cause, raising, copy, verdict, thread, process,
                   docker, faults, fates>>

\* What the runner returned or raised.  The first failed command is the last.
Receives ==
    /\ pc = "await" /\ mode = "local" /\ thread.at = "done"
    /\ \/ /\ thread.out.kind = "result"
          /\ LET done == Append(results, thread.out.result)
             IN  IF Failed(thread.out.result) THEN results' = SkipRest(done) /\ pc' = "cleanup"
                 ELSE results' = done /\ pc' = "next"
          /\ UNCHANGED <<cause, raising>>
       \/ /\ thread.out.kind = "refused"
          /\ results' = SkipRest(results) /\ cause' = "execution" /\ pc' = "cleanup"
          /\ UNCHANGED raising
       \/ /\ thread.out.kind = "stuck"
          /\ raising' = "TimeoutExpired" /\ pc' = "cleanup"
          /\ UNCHANGED <<results, cause>>
    /\ thread' = NoThread
    /\ UNCHANGED <<mode, plan, budget, copy, verdict, process, docker, faults, fates>>

\* The copy is removed, whatever is being raised.  A removal that fails leaves it,
\* and its OSError takes the place of the exception on its way, a cancellation
\* included.
Cleans ==
    /\ pc = "cleanup"
    /\ \/ /\ copy' = FALSE /\ pc' = IF raising = "CancelledError" THEN "raised" ELSE "verdict"
          /\ UNCHANGED <<raising, faults>>
       \/ Fault /\ raising' = "RemovalError" /\ pc' = "verdict" /\ UNCHANGED copy
    /\ UNCHANGED <<mode, plan, budget, results, cause, verdict, thread, process, docker, fates>>

\* An exception that reaches run's handler is an incomplete verification.
Concludes ==
    /\ pc = "verdict"
    /\ LET why == IF raising # None /\ cause = None THEN "execution" ELSE cause
           all == IF raising # None /\ results = <<>> THEN SkipRest(<<>>) ELSE results
       IN  /\ cause' = why /\ results' = all
           /\ verdict' = evaluate_verification(all, TRUE, why)
    /\ pc' = "done"
    /\ UNCHANGED <<mode, plan, budget, raising, copy, thread, process, docker, faults, fates>>

(***************************************************************************)
(* run_cancellable: the coroutine waits for a thread                       *)
(***************************************************************************)
\* mutant: a cancelled caller does not wait for its thread
CancelsAtOnce ==
    /\ pc = "await" /\ thread' = [thread EXCEPT !.cancellation = TRUE]
    /\ raising' = "CancelledError"
    /\ pc' = IF mode = "local" THEN "cleanup" ELSE "raised"
    /\ UNCHANGED <<mode, plan, budget, results, cause, copy, verdict, process, docker, faults, fates>>

\* A cancellation sets the event; further ones change nothing.
Cancels ==
    /\ pc = "await"
    /\ thread' = [thread EXCEPT !.cancellation = TRUE]
    /\ pc' = "joining"
    /\ UNCHANGED <<mode, plan, budget, results, cause, raising, copy, verdict, process, docker,
                   faults, fates>>

\* The cancellation is raised once the thread is done, whatever it came to.
Joined ==
    /\ pc = "joining" /\ thread.at = "done"
    /\ raising' = "CancelledError" /\ thread' = NoThread
    /\ pc' = IF mode = "local" THEN "cleanup" ELSE "raised"
    /\ UNCHANGED <<mode, plan, budget, results, cause, copy, verdict, process, docker, faults, fates>>

(***************************************************************************)
(* run_grouped_subprocess, in the thread                                   *)
(***************************************************************************)
Done(out) == thread' = [thread EXCEPT !.at = "done", !.out = out]

\* A cancelled job starts nothing; a command may be refused or not be there.
Popen ==
    /\ thread.at = "queued"
    /\ \/ /\ thread.cancellation /\ Done([kind |-> "cancelled"])
          /\ UNCHANGED <<process, faults>>
       \/ /\ ~thread.cancellation
          /\ process' = [NoProcess EXCEPT !.main = "alive"]
          /\ thread' = [thread EXCEPT !.at = "running"]
          /\ UNCHANGED faults
       \/ /\ ~thread.cancellation /\ Fault /\ Done([kind |-> "refused"])
          /\ UNCHANGED process
    /\ UNCHANGED <<service, docker, fates>>

\* The process exits (external); a child of its group may live on with the pipes.
ProcessExits ==
    /\ process.main = "alive"
    /\ \E code \in {"zero", "nonzero"}, child \in BOOLEAN, text \in Outputs :
         process' = [main |-> code, group |-> child, output |-> text]
    /\ UNCHANGED <<service, thread, docker, faults, fates>>

\* mutant: the polling has no deadline
LoopEndsByExit ==
    /\ thread.at = "running" /\ process.main # "alive"
    /\ thread' = [thread EXCEPT !.at = "reap", !.out = "exited"]
    /\ UNCHANGED <<service, process, docker, faults, fates>>

\* The polling loop ends by cancellation, by the deadline, when the process has
\* exited and both pipes are closed, or when a pipe cannot be read.
LoopEnds ==
    /\ thread.at = "running"
    /\ \E out \in {"cancelled", "timed_out", "exited", "OSError"} :
         /\ thread' = [thread EXCEPT !.at = "reap", !.out = out]
         /\ out = "cancelled" => thread.cancellation
         /\ out = "exited" => process.main # "alive" /\ ~process.group
         /\ IF out = "OSError" THEN Fault ELSE UNCHANGED faults
    /\ UNCHANGED <<service, process, docker, fates>>

\* What the command came to once its process is gone: an exception of the loop is
\* raised anew, and an OSError is for run a command that was not executed.
CommandOutcome(code) ==
    CASE thread.out = "cancelled" -> [kind |-> "cancelled"]
      [] thread.out = "OSError" -> [kind |-> "refused"]
      [] OTHER -> [kind |-> "result",
                   result |-> [executed |-> TRUE, exit |-> code,
                               timed_out |-> thread.out = "timed_out",
                               output |-> process.output]]

\* The group is killed and the process waited for; one that cannot be reaped in
\* time raises, and lives on.  Either way the command's pycache directory goes
\* next, and an OSError of that is all that is left of the command.
_kill_process_group ==
    /\ thread.at = "reap"
    /\ \/ LET code == IF process.main = "alive" THEN "killed" ELSE process.main
          IN  /\ process' = [process EXCEPT !.main = code, !.group = FALSE]
              /\ fates' = Append(fates, code)
              /\ \/ Done(CommandOutcome(code)) /\ UNCHANGED faults
                 \/ Fault /\ Done([kind |-> "refused"])
       \/ /\ process.main = "alive" /\ Fault
          /\ process' = [process EXCEPT !.main = "stuck"]
          /\ \E kind \in {"stuck", "refused"} : Done([kind |-> kind])
          /\ UNCHANGED fates
    /\ UNCHANGED <<service, docker>>

(***************************************************************************)
(* DockerReplayVerifier                                                    *)
(***************************************************************************)
Verdict(status) == verdict' = status /\ pc' = "done"
AllPassed(statuses) == \A n \in DOMAIN statuses : statuses[n] = "PASSED"

PreflightBegins ==
    /\ pc = "preflight" /\ Spawns("start") /\ pc' = "await"
    /\ UNCHANGED <<mode, plan, budget, results, cause, raising, copy, verdict, process, docker,
                   faults, fates>>

\* mutant: anything but a pass reproduces the failure
PreflightStatusLax ==
    IF score.infra THEN "infra_error"
    ELSE IF AllPassed(score.ftp) THEN "not_reproduced" ELSE "reproduced"

\* What the official tests say of the task before the repair.
PreflightStatus ==
    IF score.infra THEN "infra_error"
    ELSE IF /\ \A n \in FailToPass : score.ftp[n] \in {"PASSED", "FAILED", "ERROR"}
            /\ \E n \in FailToPass : score.ftp[n] \in {"FAILED", "ERROR"} THEN "reproduced"
    ELSE IF AllPassed(score.ftp) THEN "not_reproduced"
    ELSE "infra_error"

preflight ==
    /\ pc = "await" /\ mode = "official" /\ phase = "baseline" /\ thread.at = "done"
    /\ thread' = NoThread
    /\ \/ /\ thread.out.kind = "score"
          /\ before' = [status |-> PreflightStatus, ftp |-> score.ftp]
          /\ phase' = "final" /\ score' = NoScore /\ pc' = "start" /\ UNCHANGED raising
       \/ /\ thread.out.kind = "DockerError" /\ raising' = "DockerError" /\ pc' = "raised"
          /\ UNCHANGED <<before, phase, score>>
    /\ UNCHANGED <<mode, plan, budget, results, cause, copy, verdict, process, extra, containers,
                   registered, faults, fates>>

\* The node charges one call; without a reproduced failure there is no oracle.
OfficialBegins ==
    /\ pc = "start" /\ mode = "official"
    /\ \/ /\ budget = 0 /\ Verdict("incomplete") /\ cause' = "budget"
          /\ UNCHANGED <<budget, thread>>
       \/ /\ budget > 0 /\ budget' = budget - 1
          /\ IF before.status = "reproduced" THEN Spawns("patch") /\ pc' = "await" /\ UNCHANGED verdict
             ELSE /\ Verdict(IF before.status = "infra_error" THEN "infra_error" ELSE "unavailable")
                  /\ UNCHANGED thread
          /\ UNCHANGED cause
    /\ UNCHANGED <<mode, plan, results, raising, copy, process, docker, faults, fates>>

\* The candidate's diff may be unreadable, unsafe, or touch a protected file; git
\* may take too long, or not start.
build_candidate_patch ==
    /\ thread.at = "patch"
    /\ \/ \E kind \in {"patch", "bad_patch"} : Done([kind |-> kind]) /\ UNCHANGED faults
       \/ Fault /\ Done([kind |-> "TimeoutExpired"])
    /\ UNCHANGED <<service, process, docker, fates>>

Container == <<phase, extra>>

\* The client may give up on a container that the daemon starts all the same.
_start_eval_container ==
    /\ thread.at = "start"
    /\ \/ /\ containers' = containers \cup {Container} /\ registered' = registered \cup {Container}
          /\ thread' = [thread EXCEPT !.at = "prepare"] /\ UNCHANGED faults
       \/ /\ Fault /\ containers' \in {containers, containers \cup {Container}}
          /\ Done([kind |-> "DockerError"]) /\ UNCHANGED registered
    /\ UNCHANGED <<service, process, phase, before, score, extra, fates>>

\* Test patch, candidate patch, reinstall.
_apply_patch ==
    /\ thread.at = "prepare"
    /\ \/ thread' = [thread EXCEPT !.at = "ftp"] /\ UNCHANGED <<score, faults>>
       \/ /\ Fault /\ thread' = [thread EXCEPT !.at = "remove"]
          /\ score' = [ftp |-> [n \in FailToPass |-> "MISSING"], ptp |-> <<>>, infra |-> TRUE]
    /\ UNCHANGED <<service, process, phase, before, extra, containers, registered, fates>>

\* A run that timed out or left a node out says nothing about the candidate.
detect_infra_reason(late, statuses) ==
    late \/ \E n \in DOMAIN statuses : statuses[n] = "MISSING"

RunsFailToPass ==
    /\ thread.at = "ftp"
    /\ \E late \in BOOLEAN, statuses \in [FailToPass -> Statuses] :
         LET infra == detect_infra_reason(late, statuses)
         IN  /\ score' = [ftp |-> statuses, ptp |-> <<>>, infra |-> infra]
             /\ thread' = [thread EXCEPT !.at =
                    IF infra \/ PassToPass = {} \/ phase = "baseline" THEN "remove" ELSE "ptp"]
    /\ UNCHANGED <<service, process, phase, before, extra, containers, registered, faults, fates>>

RunsPassToPass ==
    /\ thread.at = "ptp"
    /\ \E late \in BOOLEAN, statuses \in [PassToPass -> Statuses] :
         score' = [score EXCEPT !.ptp = statuses, !.infra = detect_infra_reason(late, statuses)]
    /\ thread' = [thread EXCEPT !.at = "remove"]
    /\ UNCHANGED <<service, process, phase, before, extra, containers, registered, faults, fates>>

\* Django's tests, both lists in one run.  Which tasks have them is left open.
RunsTogether ==
    /\ thread.at = "ftp" /\ phase = "final" /\ PassToPass # {}
    /\ \E late \in BOOLEAN, statuses \in [FailToPass \cup PassToPass -> Statuses] :
         score' = [ftp |-> [n \in FailToPass |-> statuses[n]],
                   ptp |-> [n \in PassToPass |-> statuses[n]],
                   infra |-> detect_infra_reason(late, statuses)]
    /\ thread' = [thread EXCEPT !.at = "remove"]
    /\ UNCHANGED <<service, process, phase, before, extra, containers, registered, faults, fates>>

_should_retry_ptp ==
    /\ ~score.infra /\ AllPassed(score.ftp)
    /\ \A n \in DOMAIN score.ptp : score.ptp[n] \in {"PASSED", "FAILED"}
    /\ \E n \in DOMAIN score.ptp : score.ptp[n] = "FAILED"

\* The attempt's container is removed and forgotten, also when docker rm fails;
\* a flaky regression is tried again in a new one.
_remove ==
    /\ thread.at = "remove"
    /\ \/ containers' = containers \ {Container} /\ UNCHANGED faults
       \/ Fault /\ UNCHANGED containers
    /\ registered' = registered \ {Container}
    /\ IF extra < PtpRetries /\ phase = "final" /\ _should_retry_ptp
       THEN extra' = extra + 1 /\ thread' = [thread EXCEPT !.at = "start"]
       ELSE UNCHANGED extra /\ Done([kind |-> "score"])
    /\ UNCHANGED <<service, process, phase, before, score, fates>>

\* The verdict on the last attempt.
verify_candidate ==
    /\ pc = "await" /\ mode = "official" /\ phase = "final" /\ thread.at = "done"
    /\ \/ /\ thread.out.kind = "patch" /\ Spawns("start")
          /\ UNCHANGED <<pc, raising, verdict>>
       \/ /\ thread.out.kind = "bad_patch" /\ Verdict("infra_error")
          /\ thread' = NoThread /\ UNCHANGED raising
       \/ /\ thread.out.kind \in {"TimeoutExpired", "DockerError"}
          /\ raising' = thread.out.kind /\ pc' = "raised"
          /\ thread' = NoThread /\ UNCHANGED verdict
       \/ /\ thread.out.kind = "score" /\ thread' = NoThread /\ UNCHANGED raising
          /\ Verdict(IF score.infra THEN "infra_error"
                     ELSE IF AllPassed(score.ftp) /\ AllPassed(score.ptp) THEN "passed"
                     ELSE "failed")
    /\ UNCHANGED <<mode, plan, budget, results, cause, copy, process, docker, faults, fates>>

(***************************************************************************)
(* Specification                                                           *)
(***************************************************************************)
Coroutine ==
    \/ LocalBegins \/ isolated_workspace \/ NextCommand \/ AllRun \/ Receives \/ Cleans \/ Concludes
    \/ Joined \/ PreflightBegins \/ preflight \/ OfficialBegins \/ verify_candidate

Thread ==
    \/ Popen \/ LoopEnds \/ _kill_process_group \/ build_candidate_patch \/ _start_eval_container
    \/ _apply_patch \/ RunsFailToPass \/ RunsPassToPass \/ RunsTogether
    \/ _remove

Ended == pc \in {"done", "raised"}
Over == Ended /\ thread.at \in {"none", "done"} /\ UNCHANGED vars

Next == Coroutine \/ Cancels \/ Thread \/ ProcessExits \/ Over

Spec == Init /\ [][Next]_vars

\* The event loop and the thread run; polling ends at its deadline, and docker
\* commands have time limits.  The tested program and the canceller owe nothing.
FairSpec == Spec /\ WF_vars(Coroutine) /\ WF_vars(Thread)

(***************************************************************************)
(* Properties                                                              *)
(***************************************************************************)
Results == [executed : BOOLEAN, exit : {"none", "zero", "nonzero", "killed"},
            timed_out : BOOLEAN, output : Outputs]

\* Every variable has its type.
VerificationTypeOK ==
    /\ mode \in {"local", "official"} /\ plan \in Seq(Range(plan))
    /\ budget \in Nat /\ copy \in BOOLEAN /\ cause \in {None, "budget", "execution"}
    /\ pc \in {"preflight", "start", "copy", "next", "await", "joining", "cleanup", "verdict", "done", "raised"}
    /\ results \in Seq(Results) /\ fates \in Seq({"zero", "nonzero", "killed"})
    /\ Len(results) <= Len(plan) /\ Len(fates) <= Len(plan)
    /\ verdict \in {None, "unavailable", "inconclusive", "infra_error", "failed", "incomplete", "passed"}
    /\ thread = [at |-> thread.at, cancellation |-> thread.cancellation, out |-> thread.out]
    /\ process \in [main : {"none", "alive", "zero", "nonzero", "killed", "stuck"},
                    group : BOOLEAN, output : Outputs]
    /\ phase \in {"baseline", "final"} /\ extra \in 0 .. PtpRetries
    /\ score = [ftp |-> score.ftp, ptp |-> score.ptp, infra |-> score.infra]
    /\ registered \subseteq containers /\ containers \subseteq {"baseline", "final"} \X (0 .. PtpRetries)
    /\ faults \in 0 .. MaxFaults

\* The isolated copy outlives the process that works in it, a cancelled command's
\* included, and a process group nobody reads from is gone; only a process that
\* cannot be killed is left.  A copy is left only where removing it failed, and
\* then there is a verdict, and it is not a pass.
CopyOutlivesProcess ==
    /\ process.main = "alive" \/ process.group => copy /\ thread.at \in {"running", "reap"}
    /\ Ended => thread.at = "none" /\ (copy => pc = "done" /\ raising = "RemovalError" /\ verdict # "passed")

\* When the verification is over, every container it started is removed: one is
\* left only where docker run or docker rm itself failed.
ContainersRemoved == Ended => registered = {} /\ Cardinality(containers) <= faults

\* A thread works only while the coroutine waits for it, and hands over what a
\* job of its mode can come to.
ThreadFits ==
    LET OfProcess == {"queued", "running", "reap"}
        OfDocker == {"patch", "start", "prepare", "ftp", "ptp", "remove"}
    IN  /\ thread.at = "none" <=> pc \notin {"await", "joining"}
        /\ thread.at \in {"none", "done"} \cup (IF mode = "local" THEN OfProcess ELSE OfDocker)
        /\ thread.at \in {"running", "reap"} => process.main \in {"alive", "zero", "nonzero"}
        /\ thread.at = "reap" => thread.out \in {"exited", "timed_out", "cancelled", "OSError"}
        /\ thread.at = "reap" /\ thread.out = "exited" => process.main # "alive"
        /\ thread.at = "done" =>
             IF mode = "local"
             THEN thread.out \in [kind : {"result"}, result : Results] \cup [kind : {"refused", "stuck", "cancelled"}]
             ELSE thread.out \in [kind : {"patch", "bad_patch", "score", "TimeoutExpired", "DockerError"}]

\* The copy is there from its creation to the clean-up, after it where that
\* failed, and a process only while its thread is.
CopyHeld ==
    /\ pc \in IF mode = "local" THEN {"start", "copy", "next", "await", "joining", "cleanup", "verdict", "done", "raised"}
              ELSE {"preflight", "start", "await", "joining", "done", "raised"}
    /\ copy <=> \/ mode = "local" /\ pc \in {"next", "await", "joining", "cleanup"}
                \/ raising = "RemovalError"
    /\ raising = "RemovalError" => mode = "local" /\ pc \in {"verdict", "done"}
    /\ process.main = "alive" \/ process.group => thread.at \in {"running", "reap"}
    /\ process.main = "alive" => ~process.group

\* The thread's container is registered, and every other one is a failed call's.
ContainersHeld ==
    /\ registered = IF thread.at \in {"prepare", "ftp", "ptp", "remove"} THEN {Container} ELSE {}
    /\ Cardinality(containers \ registered) <= faults

\* A process that ran to its end, or was killed at its deadline.
Ran(r) == r.executed /\ (~r.timed_out => r.exit \in {"zero", "nonzero"})

\* An executed result tells what became of its process, and until one fails every
\* command so far has passed.
ResultsRecorded ==
    /\ \A i \in DOMAIN results :
         results[i].executed => i <= Len(fates) /\ results[i].exit = fates[i] /\ Ran(results[i])
    /\ mode = "local" /\ pc \in {"start", "copy", "next", "await", "joining"} =>
         \A i \in DOMAIN results : results[i].executed /\ ~Failed(results[i])
    /\ mode = "local" /\ pc \in {"start", "copy", "next"} => Len(fates) = Len(results)
    /\ mode = "local" /\ pc \in {"await", "joining"} =>
         /\ Len(results) < Len(plan)
         /\ thread.at # "done" => Len(fates) = Len(results)
         /\ thread.at = "done" =>
              CASE thread.out.kind = "result" ->
                     /\ Len(fates) = Len(results) + 1 /\ Ran(thread.out.result)
                     /\ thread.out.result.exit = fates[Len(fates)]
                [] thread.out.kind = "stuck" -> Len(fates) = Len(results)
                [] OTHER -> Len(fates) <= Len(results) + 1

\* There is no verdict before the end, none of commands without an oracle, and no
\* exception on its way while the coroutine still works.
VerdictComesLast ==
    /\ pc # "done" => verdict = None
    /\ mode = "local" /\ pc \notin {"start", "done"} => HasOracle
    /\ pc \notin {"cleanup", "verdict", "done", "raised"} => raising = None

\* What the tests of the unrepaired task have to say of a reproduced failure.
FailedBefore ==
    /\ \A n \in FailToPass : before.ftp[n] \in {"PASSED", "FAILED", "ERROR"}
    /\ \E n \in FailToPass : before.ftp[n] # "PASSED"

\* The official tests of a candidate run after the failure was reproduced, and a
\* score that is not the environment's names every test.
ScoresCompare ==
    /\ pc = "preflight" => phase = "baseline"
    /\ phase = "final" /\ before.status = "reproduced" => FailedBefore
    /\ mode = "official" /\ phase = "final" /\ pc \in {"await", "joining"} => before.status = "reproduced"
    /\ mode = "official" /\ phase = "final" /\ ~score.infra
         /\ (thread.at = "remove" \/ (thread.at = "done" /\ thread.out.kind = "score")) =>
           DOMAIN score.ptp = PassToPass

\* What a verification keeps: the thread, the copy and the containers it holds,
\* and what its results and scores stand for.
VerificationInv ==
    /\ VerificationTypeOK /\ CopyOutlivesProcess /\ ContainersRemoved
    /\ ThreadFits /\ CopyHeld /\ ContainersHeld /\ ResultsRecorded /\ VerdictComesLast /\ ScoresCompare

\* The verdict is about what really ran.  A pass: each planned command ran and
\* exited with zero, or every official test passed in the last container, and
\* nobody cancelled.  A failure is one the candidate's own tests reported: a
\* command that was killed, refused or never run is not blamed on the candidate.
VerdictMatchesRuns ==
    LET Green == IF mode = "local"
                 THEN Len(fates) = Len(plan) /\ \A i \in DOMAIN fates : fates[i] = "zero"
                 ELSE AllPassed(score.ftp) /\ DOMAIN score.ptp = PassToPass /\ AllPassed(score.ptp)
        Red == IF mode = "local" THEN \E i \in DOMAIN fates : fates[i] = "nonzero"
               ELSE \E s \in {score.ftp, score.ptp} : \E n \in DOMAIN s : s[n] # "PASSED"
    IN  /\ verdict = "passed" => Green /\ raising = None
        /\ verdict = "failed" => Red
        /\ verdict \in {"passed", "failed"} => HasOracle \/ mode = "official"

\* Official verdicts compare two fresh images: what passes or fails after the
\* repair was seen to fail before it, by tests that ran, without the candidate.
FailBeforePassAfter ==
    mode = "official" /\ verdict \in {"passed", "failed"} => FailedBefore

\* A verification comes to an end, whatever the commands do: with a verdict, or
\* with the exception the node undoes the candidate for.
VerificationEnds == <>Ended
=============================================================================
