------------------------------ MODULE Campaign ------------------------------
(***************************************************************************)
(* A benchmark campaign (benchmark/campaign.py) with the runner that fills *)
(* its rounds (benchmark/runner.py).  A process is a slot in which         *)
(* `evoci benchmark run --campaign-dir D --round R' is invoked, with       *)
(* Reruns again and again and each time with a new pid: it takes the       *)
(* writer lock, prepares the round, runs the tasks that have no result yet *)
(* and finalizes the round.                                                *)
(*                                                                         *)
(* Each write that reaches the disk by itself (os.replace, a lock file, an *)
(* append) is a step of its own, so that another process or a crash may    *)
(* come in between.  What a generation or a branch holds is the set of     *)
(* lessons <<round, task>> in its memory and skill stores.                 *)
(***************************************************************************)
EXTENDS Integers, Sequences

CONSTANTS
    Procs,        \* process slots
    CanSignal,    \* pairs of slots whose users may signal each other
    Dead,         \* the pid of a process that is gone
    None,         \* no file, no dictionary
    MaxRound,     \* rounds an operator may ask for
    RoundTasks,   \* the task ids in each round's manifest
    Reruns,       \* whether a slot is used for more than one invocation
    MaxStops      \* bound on crashes and interrupts

Rounds == 1..MaxRound
Generations == 0..MaxRound
Tasks == UNION {RoundTasks[r] : r \in Rounds}
Lesson == Rounds \X Tasks

\* .writer.lock: the process that created it, and whether its pid is in it.
Locks == [by : Procs \cup {Dead}, written : BOOLEAN]

\* campaign.json; rounds/round-R/metadata.json holds a status only.
RoundStatus == {"none", "running", "complete"}
Metadata == [current : Generations, lineage : Seq(Generations), rounds : [Rounds -> RoundStatus]]

\* "ok" is any final status; "error" stands for error and infra_error.
Statuses == {"none", "ok", "error"}
NoResults == [t \in Tasks |-> "none"]

ASSUME CampaignAssumption ==
    /\ MaxRound \in Nat \ {0}
    /\ DOMAIN RoundTasks = Rounds
    /\ Dead \notin Procs
    /\ \A lessons \in SUBSET Lesson : lessons # None
    /\ None \notin Locks /\ None \notin Metadata
    /\ CanSignal \subseteq Procs \X Procs
    /\ Reruns \in BOOLEAN
    /\ MaxStops \in Nat

VARIABLES
    lock,         \* .writer.lock
    campaign,     \* campaign.json
    generations,  \* generations/generation-G
    rounds,       \* the status in rounds/round-R/metadata.json
    runs,         \* rounds/round-R/runs.jsonl
    torn,         \* rounds whose runs.jsonl has a line that cannot be parsed
    branches,     \* rounds/round-R/learning-delta: the tasks that learned something
    proc,         \* the memory of each process
    finished,     \* history: tasks of a round that had a final result on disk
    returned,     \* history: rounds whose finalize_round returned
    overlapped,   \* history: whether two processes were inside writer_lock at once
    stopped,      \* history: the <<step, round>> of Fragile at which one was stopped
    stops         \* crashes and interrupts so far

round_dir == <<rounds, runs, torn, branches>>
disk == <<lock, campaign, generations, round_dir>>
history == <<finished, returned, overlapped, stopped, stops>>
vars == <<disk, proc, history>>

\* The steps before, inside and after `with manager.writer_lock()'.
Body == {"initialize", "init_meta", "prepare", "create", "register", "load", "run",
         "rewrite", "finalize", "publish", "mark", "read", "commit"}
Steps == Body \cup {"idle", "lock", "owner", "unlink", "relock", "write_pid", "release", "done"}

\* Between two writes that belong together.
Fragile == {"register", "rewrite", "mark", "read", "commit"}

\* at: the next step; round: --round; seen: campaign.json as read; pending: tasks the
\* runner still has to finish; results: results_by_id; staged: the temporary generation.
Process == [at : Steps, round : Rounds, seen : Metadata \cup {None}, pending : SUBSET Tasks,
            results : [Tasks -> Statuses], staged : SUBSET Lesson]

Idle == [at |-> "idle", round |-> 1, seen |-> None, pending |-> {},
         results |-> NoResults, staged |-> {}]

TypeOK ==
    /\ lock \in Locks \cup {None}
    /\ campaign \in Metadata \cup {None}
    /\ generations \in [Generations -> {None} \cup SUBSET Lesson]
    /\ rounds \in [Rounds -> RoundStatus]
    /\ runs \in [Rounds -> [Tasks -> Statuses]]
    /\ torn \in SUBSET Rounds
    /\ branches \in [Rounds -> SUBSET Tasks]
    /\ proc \in [Procs -> Process]
    /\ finished \in [Rounds -> SUBSET Tasks]
    /\ returned \in SUBSET Rounds
    /\ overlapped \in BOOLEAN
    /\ stopped \in SUBSET (Fragile \X Rounds)
    /\ stops \in 0..MaxStops

At(p, step) == proc[p].at = step
Goto(p, step) == proc' = [proc EXCEPT ![p].at = step]
Exit(p) == proc' = [proc EXCEPT ![p] = [Idle EXCEPT !.at = IF Reruns THEN "idle" ELSE "done"]]

\* An exception in the body: the finally clause of writer_lock comes next.
Raise(p) == Goto(p, "release")
----------------------------------------------------------------------------
(* writer_lock                                                             *)

Invoke(p) ==
    /\ At(p, "idle")
    /\ \E r \in Rounds : proc' = [proc EXCEPT ![p].at = "lock", ![p].round = r]
    /\ UNCHANGED <<disk, history>>

\* os.open(O_CREAT | O_EXCL), the first time or after a stale lock was removed,
\* creates an empty file.
LockCreates(p) ==
    /\ At(p, "lock") \/ At(p, "relock")
    /\ lock = None
    /\ lock' = [by |-> p, written |-> FALSE]
    /\ Goto(p, "write_pid")
    /\ UNCHANGED <<campaign, generations, round_dir, history>>

\* FileExistsError: the owner is looked up next.
LockExists(p) ==
    /\ At(p, "lock") /\ lock # None
    /\ Goto(p, "owner")
    /\ UNCHANGED <<disk, history>>

\* os.kill(pid, 0) reaches the owner.
Alive(p) == lock.by \in Procs /\ <<p, lock.by>> \in CanSignal

\* Mutant: wait for the lock instead of refusing.
LockSpins(p) ==
    /\ At(p, "owner") /\ lock # None
    /\ ~lock.written \/ Alive(p)
    /\ Goto(p, "lock")
    /\ UNCHANGED <<disk, history>>

\* A live owner, or a lock file without a pid, which is not JSON.
LockRefused(p) ==
    /\ At(p, "owner") /\ lock # None
    /\ ~lock.written \/ Alive(p)
    /\ Exit(p)
    /\ UNCHANGED <<disk, history>>

\* Mutant: a lock file that cannot be read is taken for a stale one.
UnreadableIsStale(p) ==
    /\ At(p, "owner")
    /\ lock # None => ~lock.written \/ ~Alive(p)
    /\ Goto(p, "unlink")
    /\ UNCHANGED <<disk, history>>

\* The owner is gone: _safe_json found no file, or os.kill no such process.
LockStale(p) ==
    /\ At(p, "owner")
    /\ lock # None => lock.written /\ ~Alive(p)
    /\ Goto(p, "unlink")
    /\ UNCHANGED <<disk, history>>

LockUnlinks(p) ==
    /\ At(p, "unlink")
    /\ lock' = None
    /\ Goto(p, "relock")
    /\ UNCHANGED <<campaign, generations, round_dir, history>>

LockLost(p) ==
    /\ At(p, "relock") /\ lock # None
    /\ Exit(p)
    /\ UNCHANGED <<disk, history>>

\* The pid goes into the file this process created, if that is still the lock.
LockWritten(p) ==
    /\ At(p, "write_pid")
    /\ lock' = IF lock # None /\ lock.by = p THEN [lock EXCEPT !.written = TRUE] ELSE lock
    /\ overlapped' = (overlapped \/ \E q \in Procs : proc[q].at \in Body)
    /\ Goto(p, "initialize")
    /\ UNCHANGED <<campaign, generations, round_dir, finished, returned, stopped, stops>>

\* finally: whatever lock file is there is removed.
Release(p) ==
    /\ At(p, "release")
    /\ lock' = None
    /\ Exit(p)
    /\ UNCHANGED <<campaign, generations, round_dir, history>>
----------------------------------------------------------------------------
(* initialize and prepare_round                                            *)

InitializeReads(p) ==
    /\ At(p, "initialize") /\ campaign # None
    /\ proc' = [proc EXCEPT ![p].at = "prepare", ![p].seen = campaign]
    /\ UNCHANGED <<disk, history>>

InitializePublishes(p) ==
    /\ At(p, "initialize") /\ campaign = None
    /\ generations[0] = None
    /\ generations' = [generations EXCEPT ![0] = {}]
    /\ Goto(p, "init_meta")
    /\ UNCHANGED <<lock, campaign, round_dir, history>>

\* generation-0 is there, campaign.json is not: os.replace refuses.
InitializeStuck(p) ==
    /\ At(p, "initialize") /\ campaign = None
    /\ generations[0] # None
    /\ Raise(p)
    /\ UNCHANGED <<disk, history>>

NewCampaign == [current |-> 0, lineage |-> <<0>>, rounds |-> [r \in Rounds |-> "none"]]

InitializeWrites(p) ==
    /\ At(p, "init_meta")
    /\ campaign' = NewCampaign
    /\ proc' = [proc EXCEPT ![p].at = "prepare", ![p].seen = NewCampaign]
    /\ UNCHANGED <<lock, generations, round_dir, history>>

\* Mutant: the parent has to be published, not to be in the lineage.
PublishedIsEnough(p) == generations[proc[p].round - 1] # None

HasParent(p) ==
    generations[proc[p].round - 1] # None /\ proc[p].seen.current >= proc[p].round - 1

\* _task_overlap_warnings, for task ids.
Overlaps(p) ==
    \E q \in Rounds : /\ proc[p].seen.rounds[q] # "none"
                      /\ RoundTasks[q] \cap RoundTasks[proc[p].round] # {}

\* No parent, a round that is finalized already, or (with --campaign-strict) a
\* round that repeats tasks.
PrepareRefused(p) ==
    /\ At(p, "prepare")
    /\ \/ ~HasParent(p)
       \/ rounds[proc[p].round] = "none" /\ proc[p].seen.current >= proc[p].round
       \/ rounds[proc[p].round] = "none" /\ Overlaps(p)
    /\ Raise(p)
    /\ UNCHANGED <<disk, history>>

PrepareResumes(p) ==
    /\ At(p, "prepare")
    /\ HasParent(p) /\ rounds[proc[p].round] # "none"
    /\ Goto(p, "load")
    /\ UNCHANGED <<disk, history>>

\* A new round: the checks above passed for the campaign.json that was read.
PrepareAccepts(p) ==
    /\ At(p, "prepare")
    /\ HasParent(p) /\ rounds[proc[p].round] = "none" /\ proc[p].seen.current < proc[p].round
    /\ Goto(p, "create")
    /\ UNCHANGED <<disk, history>>

\* Mutant: the new round is not entered in campaign.json.
CreatesUnregistered(p) ==
    /\ At(p, "create")
    /\ rounds' = [rounds EXCEPT ![proc[p].round] = "running"]
    /\ Goto(p, "load")
    /\ UNCHANGED <<lock, campaign, generations, runs, torn, branches, history>>

\* Its metadata.json is written, whatever is there by now ...
PrepareCreates(p) ==
    /\ At(p, "create")
    /\ rounds' = [rounds EXCEPT ![proc[p].round] = "running"]
    /\ Goto(p, "register")
    /\ UNCHANGED <<lock, campaign, generations, runs, torn, branches, history>>

\* ... and then campaign.json, as it was read and with this round.
PrepareRegisters(p) ==
    /\ At(p, "register")
    /\ campaign' = [proc[p].seen EXCEPT !.rounds[proc[p].round] = "running"]
    /\ Goto(p, "load")
    /\ UNCHANGED <<lock, generations, round_dir, history>>
----------------------------------------------------------------------------
(* BenchmarkRunner.run                                                     *)

\* Mutant: a resumed round starts from an empty result file.
PriorForgotten(r) == {}

\* The results that a resumed round keeps.
Prior(r) == {t \in RoundTasks[r] : runs[r][t] = "ok"}

RunnerLoads(p) ==
    /\ At(p, "load") /\ proc[p].round \notin torn
    /\ LET prior == Prior(proc[p].round)
       IN  proc' = [proc EXCEPT ![p].at = "run",
                      ![p].results = [t \in Tasks |-> IF t \in prior THEN "ok" ELSE "none"],
                      ![p].pending = RoundTasks[proc[p].round] \ prior]
    /\ UNCHANGED <<disk, history>>

\* BenchmarkResult.model_validate_json raises on the torn line.
RunnerCannotLoad(p) ==
    /\ At(p, "load") /\ proc[p].round \in torn
    /\ Raise(p)
    /\ UNCHANGED <<disk, history>>

\* A task's run records what it learned in its own branch of the parent.
TaskLearns(p, t) ==
    /\ At(p, "run") /\ t \in proc[p].pending \ branches[proc[p].round]
    /\ branches' = [branches EXCEPT ![proc[p].round] = @ \cup {t}]
    /\ UNCHANGED <<lock, campaign, generations, rounds, runs, torn, proc, history>>

\* A result is appended as soon as its task completes.
TaskEnds(p, t, status) ==
    /\ At(p, "run") /\ t \in proc[p].pending
    /\ runs' = [runs EXCEPT ![proc[p].round][t] = status]
    /\ proc' = [proc EXCEPT ![p].results[t] = status, ![p].pending = @ \ {t}]
    /\ finished' = IF status = "ok" THEN [finished EXCEPT ![proc[p].round] = @ \cup {t}]
                   ELSE finished
    /\ UNCHANGED <<lock, campaign, generations, rounds, torn, branches, returned, overlapped,
                   stopped, stops>>

\* _write_outputs opens runs.jsonl for writing, which empties it ...
RunnerTruncates(p) ==
    /\ At(p, "run") /\ proc[p].pending = {}
    /\ runs' = [runs EXCEPT ![proc[p].round] = NoResults]
    /\ torn' = torn \ {proc[p].round}
    /\ Goto(p, "rewrite")
    /\ UNCHANGED <<lock, campaign, generations, rounds, branches, history>>

\* ... and writes all results.
RunnerRewrites(p) ==
    /\ At(p, "rewrite")
    /\ runs' = [runs EXCEPT ![proc[p].round] = proc[p].results]
    /\ Goto(p, "finalize")
    /\ UNCHANGED <<lock, campaign, generations, rounds, torn, branches, history>>
----------------------------------------------------------------------------
(* finalize_round                                                          *)

FinalizeReturns(p) ==
    /\ At(p, "finalize") /\ generations[proc[p].round] # None
    /\ returned' = returned \cup {proc[p].round}
    /\ Goto(p, "release")
    /\ UNCHANGED <<disk, finished, overlapped, stopped, stops>>

\* Copy the parent and merge every branch into a temporary directory.
FinalizeStages(p) ==
    /\ At(p, "finalize") /\ generations[proc[p].round] = None
    /\ proc' = [proc EXCEPT ![p].at = "publish", ![p].staged =
                  generations[proc[p].round - 1] \cup ({proc[p].round} \X branches[proc[p].round])]
    /\ UNCHANGED <<disk, history>>

\* A merge may fail, for instance on a skill without its package.
FinalizeMergeFails(p) ==
    /\ At(p, "finalize") /\ generations[proc[p].round] = None
    /\ Raise(p)
    /\ UNCHANGED <<disk, history>>

\* Mutant: a generation that is there is replaced.
PublishOverwrites(p) ==
    /\ At(p, "publish")
    /\ generations' = [generations EXCEPT ![proc[p].round] = proc[p].staged]
    /\ Goto(p, "mark")
    /\ UNCHANGED <<lock, campaign, round_dir, history>>

FinalizePublishes(p) ==
    /\ At(p, "publish") /\ generations[proc[p].round] = None
    /\ generations' = [generations EXCEPT ![proc[p].round] = proc[p].staged]
    /\ Goto(p, "mark")
    /\ UNCHANGED <<lock, campaign, round_dir, history>>

\* os.replace does not replace a directory that is not empty.
FinalizePreempted(p) ==
    /\ At(p, "publish") /\ generations[proc[p].round] # None
    /\ Raise(p)
    /\ UNCHANGED <<disk, history>>

FinalizeMarks(p) ==
    /\ At(p, "mark")
    /\ rounds' = [rounds EXCEPT ![proc[p].round] = "complete"]
    /\ Goto(p, "read")
    /\ UNCHANGED <<lock, campaign, generations, runs, torn, branches, history>>

\* Mutant: a round that campaign.json does not know is added to it.
ReadsUnregistered(p) ==
    /\ At(p, "read")
    /\ proc' = [proc EXCEPT ![p].at = "commit", ![p].seen = campaign]
    /\ UNCHANGED <<disk, history>>

FinalizeReads(p) ==
    /\ At(p, "read") /\ campaign.rounds[proc[p].round] # "none"
    /\ proc' = [proc EXCEPT ![p].at = "commit", ![p].seen = campaign]
    /\ UNCHANGED <<disk, history>>

\* campaign["rounds"][str(round_number)] raises KeyError.
FinalizeUnregistered(p) ==
    /\ At(p, "read") /\ campaign.rounds[proc[p].round] = "none"
    /\ Raise(p)
    /\ UNCHANGED <<disk, history>>

FinalizeCommits(p) ==
    /\ At(p, "commit")
    /\ campaign' = [current |-> proc[p].round,
                    lineage |-> Append(proc[p].seen.lineage, proc[p].round),
                    rounds |-> [proc[p].seen.rounds EXCEPT ![proc[p].round] = "complete"]]
    /\ returned' = returned \cup {proc[p].round}
    /\ Goto(p, "release")
    /\ UNCHANGED <<lock, generations, round_dir, finished, overlapped, stopped, stops>>
----------------------------------------------------------------------------
(* The environment.                                                        *)

\* Bookkeeping of a stop.
Stops(p) ==
    /\ stops' = stops + 1
    /\ stopped' = stopped \cup (({proc[p].at} \cap Fragile) \X {proc[p].round})
    /\ UNCHANGED overlapped

\* The process dies.  Its lock stays, with a pid that no process has, and the
\* write of runs.jsonl it was in may leave half a line.
Crash(p) ==
    /\ stops < MaxStops /\ proc[p].at \notin {"idle", "done"}
    /\ \/ UNCHANGED torn
       \/ proc[p].at \in {"run", "rewrite"} /\ torn' = torn \cup {proc[p].round}
    /\ lock' = IF lock # None /\ lock.by = p THEN [lock EXCEPT !.by = Dead] ELSE lock
    /\ Exit(p)
    /\ Stops(p)
    /\ UNCHANGED <<campaign, generations, rounds, runs, branches, finished, returned>>

\* Ctrl-C or an unexpected exception: the lock is released.
Interrupt(p) ==
    /\ stops < MaxStops /\ proc[p].at \in Body
    /\ Raise(p)
    /\ Stops(p)
    /\ UNCHANGED <<disk, finished, returned>>
----------------------------------------------------------------------------
Init ==
    /\ lock = None /\ campaign = None
    /\ generations = [g \in Generations |-> None]
    /\ rounds = [r \in Rounds |-> "none"]
    /\ runs = [r \in Rounds |-> NoResults] /\ torn = {}
    /\ branches = [r \in Rounds |-> {}]
    /\ proc = [p \in Procs |-> Idle]
    /\ finished = [r \in Rounds |-> {}] /\ returned = {}
    /\ overlapped = FALSE /\ stopped = {} /\ stops = 0

WriterLock(p) ==
    \/ LockCreates(p) \/ LockExists(p) \/ LockRefused(p) \/ LockStale(p) \/ LockUnlinks(p)
    \/ LockLost(p) \/ LockWritten(p) \/ Release(p)

PrepareRound(p) ==
    \/ InitializeReads(p) \/ InitializePublishes(p) \/ InitializeStuck(p)
    \/ InitializeWrites(p) \/ PrepareRefused(p) \/ PrepareResumes(p)
    \/ PrepareAccepts(p) \/ PrepareCreates(p) \/ PrepareRegisters(p)

Runner(p) ==
    \/ RunnerLoads(p) \/ RunnerCannotLoad(p) \/ RunnerTruncates(p) \/ RunnerRewrites(p)
    \/ \E t \in Tasks : TaskLearns(p, t)
    \/ \E t \in Tasks, status \in {"ok", "error"} : TaskEnds(p, t, status)

FinalizeRound(p) ==
    \/ FinalizeReturns(p) \/ FinalizeStages(p) \/ FinalizeMergeFails(p)
    \/ FinalizePublishes(p) \/ FinalizePreempted(p) \/ FinalizeMarks(p)
    \/ FinalizeReads(p) \/ FinalizeUnregistered(p) \/ FinalizeCommits(p)

\* The steps of a running invocation.
Invocation(p) == WriterLock(p) \/ PrepareRound(p) \/ Runner(p) \/ FinalizeRound(p)

Next == \E p \in Procs : Invoke(p) \/ Invocation(p) \/ Crash(p) \/ Interrupt(p)

Spec == Init /\ [][Next]_vars

\* A started invocation keeps running; nobody has to start one.
FairSpec == Spec /\ \A p \in Procs : WF_vars(Invocation(p))
----------------------------------------------------------------------------
(* The inductive invariant behind the lineage theorems.  It does not use   *)
(* the writer lock: os.replace, which publishes a generation once, is what *)
(* keeps two writers from corrupting the lineage.                          *)

\* A campaign.json that is or was on disk: a chain of published generations from 0,
\* with rounds that exist and whose parents are in it.
Known(m) ==
    /\ m # None /\ campaign # None
    /\ m.lineage = [i \in 1..m.current + 1 |-> i - 1]
    /\ \A g \in 0..m.current : generations[g] # None
    /\ \A r \in Rounds : m.rounds[r] # "none" => rounds[r] # "none" /\ m.current >= r - 1

DiskInv ==
    /\ campaign # None => Known(campaign)
    /\ \A r \in Rounds : generations[r] # None => rounds[r] # "none"
    /\ \A r \in Rounds : branches[r] \subseteq RoundTasks[r]

\* The steps with a campaign.json in memory, those in a round that exists, and those
\* between the publication of a generation and its commit.
Reading == {"prepare", "create", "register", "commit"}
InRound == {"register", "load", "run", "rewrite", "finalize", "publish", "mark", "read", "commit"}
Committing == {"mark", "read", "commit"}

\* What a process may rely on at each step of prepare_round and finalize_round.
ProcInv(p) ==
    LET r == proc[p].round
        seen == proc[p].seen
    IN  /\ At(p, "init_meta") => campaign = None /\ generations[0] # None
        /\ proc[p].at \in Reading => Known(seen)
        /\ proc[p].at \in InRound => campaign # None /\ rounds[r] # "none"
        /\ proc[p].at \in InRound \cup {"create"} => generations[r - 1] # None
        /\ proc[p].at \in {"create", "register", "commit"} => seen.current = r - 1
        /\ At(p, "run") => proc[p].pending \subseteq RoundTasks[r]
        /\ At(p, "publish") =>
              \E learned \in SUBSET ({r} \X RoundTasks[r]) :
                 proc[p].staged = generations[r - 1] \cup learned
        /\ proc[p].at \in Committing => generations[r] # None /\ campaign.current < r

\* One process creates the campaign, and one commits a round: until then no copy of
\* campaign.json, however stale, has the round's generation.
UniqueInv ==
    \A p, q \in Procs : p # q =>
        /\ ~(At(p, "init_meta") /\ At(q, "init_meta"))
        /\ proc[p].at \in Committing /\ proc[q].at \in Committing =>
              proc[p].round # proc[q].round
        /\ proc[p].at \in Committing /\ proc[q].at \in Reading =>
              proc[q].seen.current < proc[p].round

CampaignInv == TypeOK /\ DiskInv /\ (\A p \in Procs : ProcInv(p)) /\ UniqueInv

\* The rest holds as long as one process at a time writes: what a step leaves behind
\* is what the next step goes on with, and what was read of campaign.json is still
\* there.  The exceptions are stops between two writes that belong together.
HalfCommitted(r) == \E s \in {"register", "mark", "read", "commit"} : <<s, r>> \in stopped
HalfWritten(r) == <<"rewrite", r>> \in stopped

\* A round is in campaign.json as soon as it is registered, its generation as soon
\* as it is committed.
Recorded ==
    /\ \A r \in Rounds : rounds[r] # "none" =>
          \/ campaign # None /\ campaign.rounds[r] # "none"
          \/ HalfCommitted(r)
          \/ \E p \in Procs : At(p, "register") /\ proc[p].round = r
    /\ \A r \in Rounds : generations[r] # None =>
          \/ campaign # None /\ campaign.current >= r
          \/ HalfCommitted(r)
          \/ \E p \in Procs : proc[p].at \in Committing /\ proc[p].round = r
    /\ \A r \in returned : (campaign # None /\ campaign.current >= r) \/ HalfCommitted(r)
    /\ \A p \in Procs : proc[p].at \in Reading => proc[p].seen = campaign

\* A final result stays in runs.jsonl, and while that is rewritten in results_by_id.
ResultsKept ==
    /\ \A r \in Rounds : \A t \in finished[r] :
          /\ t \in RoundTasks[r]
          /\ \/ runs[r][t] = "ok"
             \/ HalfWritten(r)
             \/ \E p \in Procs : At(p, "rewrite") /\ proc[p].round = r
    /\ \A p \in Procs : (At(p, "run") \/ At(p, "rewrite")) /\ ~HalfWritten(proc[p].round) =>
          \A t \in finished[proc[p].round] : proc[p].results[t] = "ok"
    /\ \A p \in Procs : At(p, "run") /\ ~HalfWritten(proc[p].round) =>
          proc[p].pending \cap finished[proc[p].round] = {}

\* Two invocations are never inside `with manager.writer_lock()' at once.
OneWriter ==
    \A p, q \in Procs : proc[p].at \in Body /\ proc[q].at \in Body => p = q

Undisturbed == ~overlapped => OneWriter /\ Recorded /\ ResultsKept
----------------------------------------------------------------------------
(* Properties.                                                             *)

\* campaign.json names an unbroken chain of published generations, from 0 to the
\* current one, whatever crashes, and even if two processes write at once.
LineageUnbroken ==
    campaign # None =>
        /\ campaign.lineage = [i \in 1..campaign.current + 1 |-> i - 1]
        /\ \A g \in 0..campaign.current : generations[g] # None

\* The campaign is a lineage: published generations never change, each is its
\* parent and lessons of its own round, and campaign.json follows one by one until
\* two writers overlap; then a stale copy of it may come back.
L == INSTANCE Lineage WITH current <- IF campaign = None THEN -1 ELSE campaign.current
LineageSpec == L!Spec

\* campaign.json never goes back to an earlier generation (not so once a second
\* process got past writer_lock: CampaignStaleWrite.cfg).
NeverBack == [][campaign # None => campaign'.current >= campaign.current]_campaign

\* When finalize_round has returned, the campaign has moved on to its generation,
\* so that the next round can start.
ReturnedIsCommitted ==
    \A r \in returned : campaign # None /\ campaign.current >= r

\* The same with one writer, whatever stops it, except between the two writes that
\* register the round or the three that publish and commit it.
CommittedUnlessStopped ==
    ~overlapped => \A r \in returned \ {q \in Rounds : HalfCommitted(q)} :
                      campaign # None /\ campaign.current >= r

\* With one writer a resumed round runs a task again only if it had no final result,
\* whatever stopped it before, except within the rewrite of runs.jsonl.
RetriesErrorsOnly ==
    \A p \in Procs : ~overlapped /\ At(p, "run") /\ ~HalfWritten(proc[p].round) =>
        proc[p].pending \cap finished[proc[p].round] = {}

\* Every started invocation ends, also when it crashes or finds what a crash left.
InvocationEnds ==
    \A p \in Procs : At(p, "lock") ~> proc[p].at \in {"idle", "done"}
=============================================================================
