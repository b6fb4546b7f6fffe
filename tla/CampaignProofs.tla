--------------------------- MODULE CampaignProofs ---------------------------
(***************************************************************************)
(* Proofs about Campaign, for any number of processes, rounds and tasks,   *)
(* any crashes and interrupts, and whatever os.kill answers: published     *)
(* generations survive two writers, and what campaign.json names is a      *)
(* chain of them.  CampaignInv is inductive.  Most steps leave the files   *)
(* of the lineage alone and are instances of Frame; the seven steps that   *)
(* create or replace one of them have a lemma each.  What needs one writer *)
(* follows from Undisturbed, in the last section.                          *)
(***************************************************************************)
EXTENDS Campaign, TLAPS

\* The files that the lineage consists of.
LineageFiles == <<campaign, generations, rounds>>

\* Entering a step changes nothing else in the memory of any process.
LEMMA GotoFacts ==
  ASSUME TypeOK, NEW p \in Procs, NEW s \in Steps, Goto(p, s)
  PROVE  /\ proc' \in [Procs -> Process]
         /\ proc'[p].at = s
         /\ proc'[p].round = proc[p].round /\ proc'[p].seen = proc[p].seen
         /\ proc'[p].pending = proc[p].pending /\ proc'[p].staged = proc[p].staged
         /\ \A q \in Procs \ {p} : proc'[q] = proc[q]
  BY DEF TypeOK, Goto, Process

\* The memory of a process that ended has its type and promises nothing.
LEMMA ExitFacts ==
  ASSUME TypeOK, NEW p \in Procs, Exit(p)
  PROVE  /\ proc' \in [Procs -> Process]
         /\ proc'[p].at \in {"idle", "done"}
         /\ \A q \in Procs \ {p} : proc'[q] = proc[q]
  <1>1. Idle \in Process /\ DOMAIN Idle = {"at", "round", "seen", "pending", "results", "staged"}
    BY CampaignAssumption DEF Idle, Process, Steps, Rounds, NoResults, Statuses
  <1>2. [Idle EXCEPT !.at = IF Reruns THEN "idle" ELSE "done"] \in Process
    BY <1>1, CampaignAssumption DEF Idle, Process, Steps
  <1> QED BY <1>1, <1>2 DEF TypeOK, Exit, Idle

\* A step that writes one process's memory leaves that of the others alone.
LEMMA UpdateFacts ==
  ASSUME TypeOK, NEW p \in Procs, NEW m \in Process, proc' = [proc EXCEPT ![p] = m]
  PROVE  /\ proc' \in [Procs -> Process]
         /\ proc'[p] = m
         /\ \A q \in Procs \ {p} : proc'[q] = proc[q]
  BY DEF TypeOK

\* The steps at which a process relies on nothing.
Unbound == {"idle", "done", "lock", "owner", "unlink", "relock", "write_pid", "initialize",
            "release"}

\* The names of the steps inside the lock are names of steps.
LEMMA StepNames ==
  /\ \A s \in {"initialize", "init_meta", "prepare", "create", "register", "load", "run", "rewrite",
               "finalize", "publish", "mark", "read", "commit", "release"} : s \in Steps
  /\ "release" \in Unbound
  BY DEF Steps, Body, Unbound

\* Round numbers and their parents are generations, and no set of lessons is None.
LEMMA RoundFacts ==
  /\ \A r \in Rounds : r \in Generations /\ r - 1 \in Generations /\ r # 0 /\ r \in Int
  /\ 0 \in Generations /\ {} # None
  /\ \A lessons \in SUBSET Lesson : lessons # None
  <1>1. {} \in SUBSET Lesson
    OBVIOUS
  <1> QED BY <1>1, CampaignAssumption DEF Rounds, Generations

\* What a step of p that leaves the lineage's files alone has to show.
LEMMA Frame ==
  ASSUME CampaignInv, TypeOK', NEW p \in Procs,
         \A q \in Procs \ {p} : proc'[q] = proc[q],
         UNCHANGED LineageFiles,
         \A r \in Rounds : branches'[r] \subseteq RoundTasks[r],
         ProcInv(p)',
         proc'[p].at # "init_meta",
         proc'[p].at \in Committing =>
            proc[p].at \in Committing /\ proc'[p].round = proc[p].round,
         proc'[p].at \in Reading =>
            \/ proc[p].at \in Reading /\ proc'[p].seen = proc[p].seen
            \/ proc'[p].seen = campaign
  PROVE  CampaignInv'
  <1>1. DiskInv'
    BY DEF CampaignInv, DiskInv, Known, LineageFiles
  <1>2. ASSUME NEW q \in Procs PROVE ProcInv(q)'
    <2>1. CASE q = p
      BY <2>1
    <2>2. CASE q # p
      <3>1. proc'[q] = proc[q] /\ ProcInv(q)
        BY <2>2 DEF CampaignInv
      <3> QED BY <3>1 DEF ProcInv, Known, At, LineageFiles
    <2> QED BY <2>1, <2>2
  <1>3. \A q \in Procs : proc[q].at \in Committing => campaign.current < proc[q].round
    BY DEF CampaignInv, ProcInv
  <1>4. UniqueInv'
    <2>1. ASSUME NEW o \in Procs, NEW q \in Procs, o # q,
                 proc'[o].at \in Committing, proc'[q].at \in Reading
          PROVE  proc'[q].seen.current < proc'[o].round
      <3>1. proc[o].at \in Committing /\ proc'[o].round = proc[o].round
        BY <2>1
      <3>2. proc[q].at \in Reading => proc[q].seen.current < proc[o].round
        BY <2>1, <3>1 DEF CampaignInv, UniqueInv
      <3> QED BY <1>3, <2>1, <3>1, <3>2
    <2>2. ASSUME NEW o \in Procs, NEW q \in Procs, o # q,
                 proc'[o].at \in Committing, proc'[q].at \in Committing
          PROVE  proc'[o].round # proc'[q].round
      BY <2>2 DEF CampaignInv, UniqueInv
    <2>3. ASSUME NEW o \in Procs, NEW q \in Procs, o # q
          PROVE  ~(proc'[o].at = "init_meta" /\ proc'[q].at = "init_meta")
      BY <2>3 DEF CampaignInv, UniqueInv, At
    <2> QED BY <2>1, <2>2, <2>3 DEF UniqueInv, At
  <1> QED BY <1>1, <1>2, <1>4 DEF CampaignInv

\* A campaign.json that was on disk stays a chain of generations when the files of
\* the lineage are added to.
LEMMA KnownStays ==
  ASSUME NEW m \in Metadata, Known(m), campaign' # None,
         \A g \in Generations : generations[g] # None => generations'[g] # None,
         \A r \in Rounds : rounds[r] # "none" => rounds'[r] # "none"
  PROVE  Known(m)'
  <1>1. m.current \in Generations
    BY DEF Metadata
  <1>2. \A g \in 0..m.current : g \in Generations
    BY <1>1, CampaignAssumption DEF Generations
  <1> QED BY <1>2 DEF Known

\* What another process relies on survives an addition to those files, and a
\* campaign.json without the generation it is about to commit.
LEMMA OthersKeep ==
  ASSUME CampaignInv, NEW q \in Procs, proc'[q] = proc[q], campaign # None, campaign' # None,
         \A g \in Generations : generations[g] # None => generations'[g] = generations[g],
         \A r \in Rounds : rounds[r] # "none" => rounds'[r] # "none",
         proc[q].at \in Committing => campaign'.current < proc[q].round
  PROVE  ProcInv(q)'
  <1> DEFINE r == proc[q].round
  <1>1. ProcInv(q) /\ r \in Rounds /\ proc[q].seen \in Metadata \cup {None}
    BY DEF CampaignInv, TypeOK, Process
  <1>2. r \in Generations /\ r - 1 \in Generations
    BY <1>1, RoundFacts
  <1>3. proc[q].at \in Reading => Known(proc[q].seen)'
    <2>1. SUFFICES ASSUME proc[q].at \in Reading PROVE Known(proc[q].seen)'
      OBVIOUS
    <2>2. Known(proc[q].seen)
      BY <1>1, <2>1 DEF ProcInv
    <2>3. PICK m \in Metadata : m = proc[q].seen
      BY <1>1, <2>2 DEF Known
    <2>4. Known(m)'
      BY <2>2, <2>3, KnownStays
    <2> QED BY <2>3, <2>4 DEF Known
  <1>4. ~At(q, "init_meta")
    BY <1>1 DEF ProcInv
  <1>5. proc[q].at \in InRound \cup {"create"} =>
          generations[r - 1] # None /\ generations'[r - 1] = generations[r - 1]
    BY <1>1, <1>2 DEF ProcInv
  <1>6. proc[q].at \in Committing => generations'[r] # None
    BY <1>1, <1>2 DEF ProcInv
  <1>7. At(q, "publish") => \E learned \in SUBSET ({r} \X RoundTasks[r]) :
                               proc[q].staged = generations'[r - 1] \cup learned
    BY <1>1, <1>5 DEF ProcInv, At, InRound
  <1> QED BY <1>1, <1>3, <1>4, <1>5, <1>6, <1>7 DEF ProcInv, At

\* A step of p to such a place keeps the invariant.
LEMMA Unbinds ==
  ASSUME CampaignInv, TypeOK', NEW p \in Procs,
         \A q \in Procs \ {p} : proc'[q] = proc[q],
         UNCHANGED LineageFiles, UNCHANGED branches,
         proc'[p].at \in Unbound
  PROVE  CampaignInv'
  <1>1. ProcInv(p)'
    BY DEF ProcInv, At, Unbound, InRound, Committing, Reading
  <1>2. \A r \in Rounds : branches'[r] \subseteq RoundTasks[r]
    BY DEF CampaignInv, DiskInv
  <1> QED BY <1>1, <1>2, Frame DEF Unbound, Committing, Reading

\* Leaving for such a place without touching the disk, the most frequent case.
LEMMA Leaves ==
  ASSUME CampaignInv, NEW p \in Procs, NEW s \in Unbound, Goto(p, s), UNCHANGED disk,
         returned' \in SUBSET Rounds, stops' \in 0..MaxStops, UNCHANGED <<finished, overlapped>>,
         stopped' \in SUBSET (Fragile \X Rounds)
  PROVE  CampaignInv'
  <1>1. s \in Steps
    BY DEF Unbound, Steps, Body
  <1>2. TypeOK'
    BY <1>1, GotoFacts DEF CampaignInv, TypeOK, disk, round_dir
  <1> QED BY <1>1, <1>2, GotoFacts, Unbinds DEF CampaignInv, disk, round_dir, LineageFiles

\* writer_lock, with the invocation before it and the exit after it.
LEMMA LockSteps ==
  ASSUME CampaignInv, NEW p \in Procs, Invoke(p) \/ WriterLock(p)
  PROVE  CampaignInv'
  <1> USE DEF CampaignInv
  <1> DEFINE Stay == /\ UNCHANGED <<campaign, generations, round_dir>>
                     /\ UNCHANGED <<finished, returned, stopped, stops>>
                     /\ overlapped' \in BOOLEAN
  <1>1. ASSUME NEW s \in Unbound, Goto(p, s), Stay, lock' \in Locks \cup {None}
        PROVE  CampaignInv'
    <2>1. s \in Steps
      BY DEF Unbound, Steps, Body
    <2>2. TypeOK'
      BY <1>1, <2>1, GotoFacts DEF TypeOK, round_dir, history
    <2> QED BY <1>1, <2>1, <2>2, GotoFacts, Unbinds DEF round_dir, LineageFiles
  <1>2. ASSUME Exit(p), Stay, lock' \in Locks \cup {None}
        PROVE  CampaignInv'
    <2>1. TypeOK'
      BY <1>2, ExitFacts DEF TypeOK, round_dir, history
    <2> QED BY <1>2, <2>1, ExitFacts, Unbinds DEF round_dir, LineageFiles, Unbound
  <1>3. /\ UNCHANGED <<disk, history>> => Stay /\ UNCHANGED lock
        /\ UNCHANGED <<campaign, generations, round_dir, history>> => Stay
    BY DEF disk, history, TypeOK
  <1>4. lock \in Locks \cup {None}
    BY DEF TypeOK
  <1>5. CASE Invoke(p)
    <2>1. PICK r \in Rounds : proc' = [proc EXCEPT ![p].at = "lock", ![p].round = r]
      BY <1>5 DEF Invoke
    <2>2. /\ proc' \in [Procs -> Process] /\ proc'[p].at \in Unbound
          /\ \A q \in Procs \ {p} : proc'[q] = proc[q]
      <3>1. proc[p] \in Process /\ "lock" \in Steps
        BY DEF TypeOK, Steps
      <3>2. proc' = [proc EXCEPT ![p] = [proc[p] EXCEPT !.at = "lock", !.round = r]]
        BY <2>1 DEF TypeOK
      <3>3. [proc[p] EXCEPT !.at = "lock", !.round = r] \in Process
        BY <3>1 DEF Process
      <3> QED BY <3>1, <3>2, <3>3 DEF TypeOK, Process, Unbound
    <2>3. TypeOK'
      BY <1>5, <2>2 DEF Invoke, TypeOK, disk, round_dir, history
    <2> QED BY <1>5, <2>2, <2>3, Unbinds DEF Invoke, disk, round_dir, LineageFiles
  <1>6. CASE LockCreates(p)
    <2>1. lock' \in Locks
      BY <1>6 DEF LockCreates, Locks
    <2> QED BY <1>6, <2>1, <1>1, <1>3 DEF LockCreates, Unbound
  <1>7. CASE LockExists(p)
    BY <1>7, <1>1, <1>3, <1>4 DEF LockExists, Unbound
  <1>8. CASE LockRefused(p)
    BY <1>8, <1>2, <1>3, <1>4 DEF LockRefused
  <1>9. CASE LockStale(p)
    BY <1>9, <1>1, <1>3, <1>4 DEF LockStale, Unbound
  <1>10. CASE LockUnlinks(p)
    BY <1>10, <1>1, <1>3 DEF LockUnlinks, Unbound
  <1>11. CASE LockLost(p)
    BY <1>11, <1>2, <1>3, <1>4 DEF LockLost
  <1>12. CASE LockWritten(p)
    <2>1. lock' \in Locks \cup {None}
      BY <1>12, <1>4 DEF LockWritten, Locks
    <2>2. overlapped' \in BOOLEAN
      <3>1. PICK b \in BOOLEAN : b = \E q \in Procs : proc[q].at \in Body
        OBVIOUS
      <3>2. overlapped' = (overlapped \/ b)
        BY <1>12, <3>1 DEF LockWritten
      <3> QED BY <3>2 DEF TypeOK
    <2> QED BY <1>12, <2>1, <2>2, <1>1 DEF LockWritten, Unbound
  <1>13. CASE Release(p)
    BY <1>13, <1>2, <1>3 DEF Release
  <1> QED BY <1>5, <1>6, <1>7, <1>8, <1>9, <1>10, <1>11, <1>12, <1>13 DEF WriterLock

\* A crash at any step, and an interrupt.
LEMMA StopSteps ==
  ASSUME CampaignInv, NEW p \in Procs, Crash(p) \/ Interrupt(p)
  PROVE  CampaignInv'
  <1> USE DEF CampaignInv
  <1>1. stops' \in 0..MaxStops /\ overlapped' = overlapped
    BY CampaignAssumption DEF Crash, Interrupt, Stops, TypeOK
  <1>2. stopped' \in SUBSET (Fragile \X Rounds)
    <2>1. proc[p].round \in Rounds
      BY DEF TypeOK, Process
    <2>2. stopped' = stopped \cup (({proc[p].at} \cap Fragile) \X {proc[p].round})
      BY DEF Crash, Interrupt, Stops
    <2> QED BY <2>1, <2>2 DEF TypeOK
  <1>3. CASE Crash(p)
    <2>1. lock' \in Locks \cup {None}
      BY <1>3 DEF Crash, TypeOK, Locks
    <2>2. torn' \in SUBSET Rounds
      BY <1>3 DEF Crash, TypeOK, Process
    <2>3. TypeOK'
      BY <1>1, <1>2, <1>3, <2>1, <2>2, ExitFacts DEF Crash, TypeOK
    <2> QED BY <1>3, <2>3, ExitFacts, Unbinds DEF Crash, LineageFiles, Unbound
  <1>4. CASE Interrupt(p)
    <2>1. returned' \in SUBSET Rounds
      BY <1>4 DEF Interrupt, TypeOK
    <2> QED BY <1>1, <1>2, <1>4, <2>1, Leaves, StepNames DEF Interrupt, Raise
  <1> QED BY <1>3, <1>4

\* Reading campaign.json, refusing a round, and resuming one.
LEMMA ReadingSteps ==
  ASSUME CampaignInv, NEW p \in Procs,
         \/ InitializeReads(p) \/ InitializeStuck(p) \/ PrepareRefused(p)
         \/ PrepareResumes(p) \/ PrepareAccepts(p)
  PROVE  CampaignInv'
  <1> USE DEF CampaignInv
  <1>1. CASE InitializeReads(p)
    <2> DEFINE m == [proc[p] EXCEPT !.at = "prepare", !.seen = campaign]
    <2>1. proc' = [proc EXCEPT ![p] = m]
      BY <1>1 DEF InitializeReads, TypeOK
    <2>2. proc[p] \in Process
      BY DEF TypeOK
    <2>3. m \in Process /\ m.at = "prepare" /\ m.seen = campaign
      BY <2>2, StepNames DEF Process, TypeOK
    <2> HIDE DEF m
    <2>4. /\ proc' \in [Procs -> Process] /\ proc'[p].at = "prepare" /\ proc'[p].seen = campaign
          /\ \A q \in Procs \ {p} : proc'[q] = proc[q]
      BY <2>1, <2>3, UpdateFacts
    <2>5. TypeOK' /\ UNCHANGED LineageFiles /\ UNCHANGED branches
      BY <1>1, <2>4 DEF InitializeReads, TypeOK, disk, round_dir, history, LineageFiles
    <2>6. ProcInv(p)'
      BY <1>1, <2>4, <2>5 DEF InitializeReads, DiskInv, ProcInv, Known, At, InRound,
         Committing, Reading, LineageFiles
    <2> QED BY <2>4, <2>5, <2>6, Frame DEF DiskInv, Committing
  <1>2. CASE InitializeStuck(p)
    BY <1>2, Leaves, StepNames DEF InitializeStuck, Raise, history, TypeOK
  <1>3. CASE PrepareRefused(p)
    BY <1>3, Leaves, StepNames DEF PrepareRefused, Raise, history, TypeOK
  <1>4. CASE PrepareResumes(p)
    <2>1. TypeOK' /\ UNCHANGED LineageFiles /\ UNCHANGED branches
      BY <1>4, GotoFacts, StepNames DEF PrepareResumes, TypeOK, disk, round_dir, history,
         LineageFiles
    <2>2. /\ proc'[p].at = "load" /\ proc'[p].round = proc[p].round
          /\ \A q \in Procs \ {p} : proc'[q] = proc[q]
      BY <1>4, GotoFacts, StepNames DEF PrepareResumes
    <2>3. /\ campaign # None /\ rounds[proc[p].round] # "none"
          /\ generations[proc[p].round - 1] # None
      BY <1>4 DEF PrepareResumes, ProcInv, HasParent, At, Reading, Known
    <2>4. ProcInv(p)'
      BY <2>1, <2>2, <2>3 DEF ProcInv, At, InRound, Committing, Reading, LineageFiles
    <2> QED BY <2>1, <2>2, <2>4, Frame DEF DiskInv, Committing, Reading
  <1>5. CASE PrepareAccepts(p)
    <2>1. TypeOK' /\ UNCHANGED LineageFiles /\ UNCHANGED branches
      BY <1>5, GotoFacts, StepNames DEF PrepareAccepts, TypeOK, disk, round_dir, history,
         LineageFiles
    <2>2. /\ proc'[p].at = "create" /\ proc'[p].round = proc[p].round
          /\ proc'[p].seen = proc[p].seen /\ \A q \in Procs \ {p} : proc'[q] = proc[q]
      BY <1>5, GotoFacts, StepNames DEF PrepareAccepts
    <2>3. /\ proc[p].at \in Reading /\ Known(proc[p].seen)
          /\ generations[proc[p].round - 1] # None
          /\ proc[p].seen.current >= proc[p].round - 1
          /\ proc[p].seen.current < proc[p].round
      BY <1>5 DEF PrepareAccepts, ProcInv, HasParent, At, Reading
    <2>4. proc[p].seen.current = proc[p].round - 1
      <3>1. proc[p].round \in Rounds /\ proc[p].seen \in Metadata
        BY <2>3 DEF TypeOK, Process, Known
      <3> QED BY <2>3, <3>1, RoundFacts DEF Metadata, Generations
    <2>5. Known(proc[p].seen)'
      BY <2>1, <2>2, <2>3 DEF Known, LineageFiles
    <2>6. ProcInv(p)'
      BY <2>1, <2>2, <2>3, <2>4, <2>5
         DEF ProcInv, At, InRound, Committing, Reading, LineageFiles
    <2> QED BY <2>1, <2>2, <2>3, <2>6, Frame DEF DiskInv, Committing
  <1> QED BY <1>1, <1>2, <1>3, <1>4, <1>5

\* A process in a round, or about to create one, has seen the campaign exist.
LEMMA InRoundNeedsCampaign ==
  ASSUME CampaignInv, campaign = None, NEW q \in Procs
  PROVE  proc[q].at \notin InRound \cup Reading
  BY DEF CampaignInv, ProcInv, Known

\* Publishing generation-0.
LEMMA InitializePublishesInv ==
  ASSUME CampaignInv, NEW p \in Procs, InitializePublishes(p)
  PROVE  CampaignInv'
  <1> USE DEF CampaignInv, InitializePublishes
  <1>1. /\ proc' \in [Procs -> Process] /\ proc'[p].at = "init_meta"
        /\ \A q \in Procs \ {p} : proc'[q] = proc[q]
    BY GotoFacts, StepNames
  <1>2. /\ generations' \in [Generations -> {None} \cup SUBSET Lesson]
        /\ generations'[0] # None /\ \A r \in Rounds : generations'[r] = generations[r]
    BY RoundFacts DEF TypeOK
  <1>3. TypeOK'
    BY <1>1, <1>2 DEF TypeOK, round_dir, history
  <1>4. DiskInv'
    BY <1>2 DEF DiskInv, round_dir
  <1>5. \A q \in Procs : ~At(q, "init_meta")
    BY DEF ProcInv
  <1>6. ASSUME NEW q \in Procs PROVE ProcInv(q)'
    BY <1>1, <1>2, <1>5, InRoundNeedsCampaign DEF ProcInv, At, InRound, Committing, Reading
  <1>7. UniqueInv'
    BY <1>1, <1>5, InRoundNeedsCampaign DEF UniqueInv, At, InRound, Committing, Reading
  <1> QED BY <1>3, <1>4, <1>6, <1>7

\* The first campaign.json is one.
LEMMA NewCampaignType ==
  NewCampaign \in Metadata /\ NewCampaign # None
  <1>1. <<0>> \in Seq(Generations) /\ [r \in Rounds |-> "none"] \in [Rounds -> RoundStatus]
    BY RoundFacts DEF RoundStatus
  <1>2. NewCampaign \in Metadata
    BY <1>1, RoundFacts DEF NewCampaign, Metadata
  <1> QED BY <1>2, CampaignAssumption

\* Writing the first campaign.json.
LEMMA InitializeWritesInv ==
  ASSUME CampaignInv, NEW p \in Procs, InitializeWrites(p)
  PROVE  CampaignInv'
  <1> USE DEF CampaignInv, InitializeWrites
  <1> DEFINE m == [proc[p] EXCEPT !.at = "prepare", !.seen = NewCampaign]
  <1>1. NewCampaign \in Metadata /\ NewCampaign # None
    BY NewCampaignType
  <1>2. proc' = [proc EXCEPT ![p] = m] /\ proc[p] \in Process
    BY DEF TypeOK
  <1>3. m \in Process /\ m.at = "prepare" /\ m.seen = NewCampaign
    BY <1>1, <1>2, StepNames DEF Process
  <1> HIDE DEF m
  <1>4. /\ proc' \in [Procs -> Process] /\ proc'[p].at = "prepare"
        /\ proc'[p].seen = NewCampaign /\ \A q \in Procs \ {p} : proc'[q] = proc[q]
    BY <1>2, <1>3, UpdateFacts
  <1>5. TypeOK'
    BY <1>1, <1>4 DEF TypeOK, round_dir, history
  <1>6. campaign = None /\ generations[0] # None
    BY DEF ProcInv
  <1>7. Known(NewCampaign)'
    <2>1. <<0>> = [i \in 1..0 + 1 |-> i - 1] /\ 0..0 = {0}
      OBVIOUS
    <2>2. /\ NewCampaign.current = 0 /\ NewCampaign.lineage = <<0>>
          /\ \A r \in Rounds : NewCampaign.rounds[r] = "none"
      BY DEF NewCampaign
    <2> QED BY <1>1, <1>6, <2>1, <2>2 DEF Known
  <1>8. DiskInv'
    BY <1>6, <1>7 DEF DiskInv, round_dir
  <1>9. ASSUME NEW q \in Procs PROVE ProcInv(q)'
    <2>1. CASE q = p
      BY <1>4, <1>7, <2>1 DEF ProcInv, At, InRound, Committing, Reading
    <2>2. CASE q # p
      <3>1. proc'[q] = proc[q] /\ proc[q].at # "init_meta"
        BY <1>4, <2>2 DEF UniqueInv, At
      <3> QED BY <1>6, <3>1, InRoundNeedsCampaign DEF ProcInv, At, InRound, Committing, Reading
    <2> QED BY <2>1, <2>2
  <1>10. UniqueInv'
    BY <1>4, <1>6, InRoundNeedsCampaign DEF UniqueInv, At, Committing, InRound
  <1> QED BY <1>5, <1>8, <1>9, <1>10

\* Creating the directory of a round.
LEMMA PrepareCreatesInv ==
  ASSUME CampaignInv, NEW p \in Procs, PrepareCreates(p)
  PROVE  CampaignInv'
  <1> USE DEF CampaignInv, PrepareCreates
  <1> DEFINE r == proc[p].round
             seen == proc[p].seen
  <1>1. /\ proc' \in [Procs -> Process] /\ proc'[p].at = "register"
        /\ proc'[p].round = r /\ proc'[p].seen = seen
        /\ \A q \in Procs \ {p} : proc'[q] = proc[q]
    BY GotoFacts, StepNames
  <1>2. /\ r \in Rounds /\ proc[p].at \in Reading /\ Known(seen) /\ seen.current = r - 1
        /\ generations[r - 1] # None /\ campaign # None /\ seen \in Metadata
    BY DEF TypeOK, Process, ProcInv, Known, At, Reading
  <1>3. /\ rounds' \in [Rounds -> RoundStatus]
        /\ \A s \in Rounds : rounds[s] # "none" => rounds'[s] # "none"
        /\ rounds'[r] # "none"
    BY <1>2 DEF TypeOK, RoundStatus
  <1>4. TypeOK'
    BY <1>1, <1>3 DEF TypeOK, history
  <1>5. ASSUME NEW m \in Metadata, Known(m) PROVE Known(m)'
    BY <1>2, <1>3, <1>5, KnownStays
  <1>6. DiskInv'
    <2>1. PICK m \in Metadata : m = campaign /\ Known(m)
      BY <1>2 DEF DiskInv, TypeOK
    <2>2. Known(m)'
      BY <1>5, <2>1
    <2> QED BY <1>3, <2>1, <2>2 DEF DiskInv, Known
  <1>7. ProcInv(p)'
    <2>1. PICK m \in Metadata : m = seen
      BY <1>2
    <2>2. Known(m)'
      BY <1>2, <1>5, <2>1
    <2>3. Known(proc[p].seen)'
      BY <1>1, <2>1, <2>2 DEF Known
    <2> QED BY <1>1, <1>2, <1>3, <2>3 DEF ProcInv, At, InRound, Committing
  <1>8. ASSUME NEW q \in Procs, q # p PROVE ProcInv(q)'
    <2>1. proc[q].at \in Committing => campaign'.current < proc[q].round
      BY DEF ProcInv
    <2> QED BY <1>1, <1>2, <1>3, <1>8, <2>1, OthersKeep
  <1>9. UniqueInv'
    BY <1>1, <1>2 DEF UniqueInv, At, Committing
  <1> QED BY <1>4, <1>6, <1>7, <1>8, <1>9

\* Entering a round in campaign.json: the copy that is written may be an old one.
LEMMA PrepareRegistersInv ==
  ASSUME CampaignInv, NEW p \in Procs, PrepareRegisters(p)
  PROVE  CampaignInv'
  <1> USE DEF CampaignInv, PrepareRegisters
  <1> DEFINE r == proc[p].round
             seen == proc[p].seen
  <1>1. /\ proc' \in [Procs -> Process] /\ proc'[p].at = "load" /\ proc'[p].round = r
        /\ \A q \in Procs \ {p} : proc'[q] = proc[q]
    BY GotoFacts, StepNames
  <1>2. /\ r \in Rounds /\ proc[p].at \in Reading /\ Known(seen) /\ seen.current = r - 1
        /\ campaign # None /\ rounds[r] # "none" /\ generations[r - 1] # None
        /\ seen \in Metadata
    BY DEF TypeOK, Process, ProcInv, InRound, At, Reading, Known
  <1>3. /\ campaign' \in Metadata /\ campaign'.current = r - 1
        /\ campaign'.lineage = seen.lineage /\ campaign'.rounds[r] = "running"
        /\ \A s \in Rounds : s # r => campaign'.rounds[s] = seen.rounds[s]
    BY <1>2 DEF Metadata, RoundStatus
  <1>4. campaign' # None /\ UNCHANGED <<generations, rounds, branches>>
    BY <1>3, CampaignAssumption DEF round_dir
  <1>5. TypeOK'
    BY <1>1, <1>3 DEF TypeOK, round_dir, history
  <1>6. Known(campaign)'
    <2>1. r - 1 >= r - 1
      BY <1>2, RoundFacts
    <2> QED BY <1>2, <1>3, <1>4, <2>1 DEF Known
  <1>7. DiskInv'
    BY <1>4, <1>6 DEF DiskInv
  <1>8. ProcInv(p)'
    BY <1>1, <1>2, <1>4 DEF ProcInv, At, InRound, Committing, Reading
  <1>9. ASSUME NEW q \in Procs, q # p PROVE ProcInv(q)'
    <2>1. proc[q].at \in Committing => campaign'.current < proc[q].round
      BY <1>2, <1>3, <1>9 DEF UniqueInv
    <2> QED BY <1>1, <1>2, <1>4, <1>9, <2>1, OthersKeep
  <1>10. UniqueInv'
    BY <1>1 DEF UniqueInv, At, Committing, Reading
  <1> QED BY <1>5, <1>7, <1>8, <1>9, <1>10

\* A step of p from inside a round to a place that the runner is in.
LEMMA StaysInRound ==
  ASSUME CampaignInv, TypeOK', NEW p \in Procs,
         \A q \in Procs \ {p} : proc'[q] = proc[q],
         UNCHANGED LineageFiles,
         \A r \in Rounds : branches'[r] \subseteq RoundTasks[r],
         proc[p].at \in InRound, proc'[p].round = proc[p].round,
         proc'[p].at \in {"load", "run", "rewrite", "finalize"},
         proc'[p].at = "run" => proc'[p].pending \subseteq RoundTasks[proc[p].round]
  PROVE  CampaignInv'
  <1>1. ProcInv(p)'
    BY DEF CampaignInv, ProcInv, At, Committing, InRound, Reading, LineageFiles
  <1> QED BY <1>1, Frame DEF Committing, Reading

\* The runner: it changes results, pending tasks and branches only.
LEMMA RunnerSteps ==
  ASSUME CampaignInv, NEW p \in Procs, Runner(p)
  PROVE  CampaignInv'
  <1> USE DEF CampaignInv
  <1> DEFINE r == proc[p].round
  <1>1. proc[p] \in Process /\ r \in Rounds /\ proc[p].pending \subseteq Tasks
    BY DEF TypeOK, Process
  <1>2. RoundTasks[r] \subseteq Tasks
    BY <1>1 DEF Tasks
  <1>3. At(p, "run") => proc[p].pending \subseteq RoundTasks[r]
    BY DEF ProcInv
  <1>4. CASE RunnerLoads(p)
    <2> DEFINE m == [proc[p] EXCEPT !.at = "run",
                       !.results = [t \in Tasks |-> IF t \in Prior(r) THEN "ok" ELSE "none"],
                       !.pending = RoundTasks[r] \ Prior(r)]
    <2>1. proc' = [proc EXCEPT ![p] = m]
      BY <1>4 DEF RunnerLoads, TypeOK
    <2>2. /\ m \in Process /\ m.at = "run" /\ m.round = r /\ m.pending \subseteq RoundTasks[r]
      BY <1>1, <1>2, StepNames DEF Process, Statuses
    <2> HIDE DEF m
    <2>3. /\ proc' \in [Procs -> Process] /\ proc'[p] = m
          /\ \A q \in Procs \ {p} : proc'[q] = proc[q]
      BY <2>1, <2>2, UpdateFacts
    <2>4. TypeOK' /\ UNCHANGED LineageFiles /\ UNCHANGED branches
      BY <1>4, <2>3 DEF RunnerLoads, TypeOK, disk, round_dir, history, LineageFiles
    <2> QED BY <1>4, <2>2, <2>3, <2>4, StaysInRound DEF RunnerLoads, At, InRound, DiskInv
  <1>5. CASE RunnerCannotLoad(p)
    BY <1>5, Leaves, StepNames DEF RunnerCannotLoad, Raise, history, TypeOK
  <1>6. CASE RunnerTruncates(p)
    <2>1. NoResults \in [Tasks -> Statuses]
      BY DEF NoResults, Statuses
    <2>2. TypeOK' /\ UNCHANGED LineageFiles
      BY <1>1, <1>6, <2>1, GotoFacts, StepNames DEF RunnerTruncates, TypeOK, history,
         LineageFiles
    <2> QED BY <1>6, <2>2, GotoFacts, StepNames, StaysInRound
            DEF RunnerTruncates, At, InRound, DiskInv
  <1>7. CASE RunnerRewrites(p)
    <2>1. proc[p].results \in [Tasks -> Statuses]
      BY <1>1 DEF Process
    <2>2. TypeOK' /\ UNCHANGED LineageFiles
      BY <1>1, <1>7, <2>1, GotoFacts, StepNames DEF RunnerRewrites, TypeOK, history,
         LineageFiles
    <2> QED BY <1>7, <2>2, GotoFacts, StepNames, StaysInRound
            DEF RunnerRewrites, At, InRound, DiskInv
  <1>8. ASSUME NEW t \in Tasks, TaskLearns(p, t) PROVE CampaignInv'
    <2>1. t \in RoundTasks[r]
      BY <1>3, <1>8 DEF TaskLearns
    <2>2. /\ branches' \in [Rounds -> SUBSET Tasks]
          /\ \A s \in Rounds : branches'[s] \subseteq RoundTasks[s]
      BY <1>1, <1>8, <2>1 DEF TaskLearns, TypeOK, DiskInv
    <2>3. TypeOK' /\ UNCHANGED LineageFiles
      BY <1>8, <2>2 DEF TaskLearns, TypeOK, history, LineageFiles
    <2> QED BY <1>3, <1>8, <2>2, <2>3, StaysInRound DEF TaskLearns, At, InRound
  <1>9. ASSUME NEW t \in Tasks, NEW status \in {"ok", "error"}, TaskEnds(p, t, status)
        PROVE  CampaignInv'
    <2> DEFINE m == [proc[p] EXCEPT !.results[t] = status, !.pending = @ \ {t}]
    <2>1. proc' = [proc EXCEPT ![p] = m]
      BY <1>9 DEF TaskEnds, TypeOK, Process
    <2>2. /\ m \in Process /\ m.at = proc[p].at /\ m.round = r
          /\ m.pending \subseteq proc[p].pending
      BY <1>1 DEF Process, Statuses
    <2> HIDE DEF m
    <2>3. /\ proc' \in [Procs -> Process] /\ proc'[p] = m
          /\ \A q \in Procs \ {p} : proc'[q] = proc[q]
      BY <2>1, <2>2, UpdateFacts
    <2>4. runs' \in [Rounds -> [Tasks -> Statuses]] /\ finished' \in [Rounds -> SUBSET Tasks]
      BY <1>1, <1>9 DEF TaskEnds, TypeOK, Statuses
    <2>5. TypeOK' /\ UNCHANGED LineageFiles
      BY <1>9, <2>3, <2>4 DEF TaskEnds, TypeOK, LineageFiles
    <2> QED BY <1>3, <1>9, <2>2, <2>3, <2>5, StaysInRound DEF TaskEnds, At, InRound, DiskInv
  <1> QED BY <1>4, <1>5, <1>6, <1>7, <1>8, <1>9 DEF Runner

\* The parent of a round that a process works on is published, and no copy of
\* campaign.json has a generation that is not.
LEMMA ParentPublished ==
  ASSUME CampaignInv, NEW q \in Procs, proc[q].at \in InRound
  PROVE  /\ proc[q].round \in Rounds /\ campaign \in Metadata /\ campaign # None
         /\ campaign.current \in Int /\ rounds[proc[q].round] # "none"
         /\ generations[proc[q].round - 1] # None
  BY DEF CampaignInv, ProcInv, TypeOK, Process, Metadata, Generations

LEMMA UnpublishedIsNew ==
  ASSUME NEW m \in Metadata, Known(m), NEW r \in Rounds, generations[r] = None
  PROVE  m.current < r
  <1>1. m.current \in Int /\ r \in Int /\ r >= 0
    BY RoundFacts DEF Metadata, Generations, Rounds
  <1>2. ~(r \in 0..m.current)
    BY DEF Known
  <1> QED BY <1>1, <1>2

\* finalize_round up to the new generation, and the read before the commit.
LEMMA FinalizeSteps ==
  ASSUME CampaignInv, NEW p \in Procs,
         \/ FinalizeReturns(p) \/ FinalizeStages(p) \/ FinalizeMergeFails(p)
         \/ FinalizePreempted(p) \/ FinalizeReads(p) \/ FinalizeUnregistered(p)
  PROVE  CampaignInv'
  <1> USE DEF CampaignInv
  <1> DEFINE r == proc[p].round
  <1>1. proc[p] \in Process /\ r \in Rounds
    BY DEF TypeOK, Process
  <1>2. CASE FinalizeReturns(p)
    BY <1>1, <1>2, Leaves, StepNames DEF FinalizeReturns, TypeOK
  <1>3. CASE FinalizeStages(p)
    <2> DEFINE learned == {r} \X branches[r]
               m == [proc[p] EXCEPT !.at = "publish", !.staged = generations[r - 1] \cup learned]
    <2>1. proc[p].at \in InRound
      BY <1>3 DEF FinalizeStages, At, InRound
    <2>2. generations[r - 1] \in SUBSET Lesson
      BY <1>1, <2>1, ParentPublished, RoundFacts DEF TypeOK
    <2>3. learned \in SUBSET Lesson
      BY <1>1 DEF TypeOK, Lesson
    <2>4. learned \in SUBSET ({r} \X RoundTasks[r])
      BY <1>1 DEF DiskInv
    <2> HIDE DEF learned
    <2>5. proc' = [proc EXCEPT ![p] = m]
      BY <1>3 DEF FinalizeStages, TypeOK, learned
    <2>6. /\ m \in Process /\ m.at = "publish" /\ m.round = r
          /\ m.staged = generations[r - 1] \cup learned
      BY <1>1, <2>2, <2>3, StepNames DEF Process
    <2> HIDE DEF m
    <2>7. /\ proc' \in [Procs -> Process] /\ proc'[p] = m
          /\ \A q \in Procs \ {p} : proc'[q] = proc[q]
      BY <2>5, <2>6, UpdateFacts
    <2>8. TypeOK' /\ UNCHANGED LineageFiles /\ UNCHANGED branches
      BY <1>3, <2>7 DEF FinalizeStages, TypeOK, disk, round_dir, history, LineageFiles
    <2>9. ProcInv(p)'
      BY <2>1, <2>4, <2>6, <2>7, <2>8
         DEF ProcInv, At, Committing, InRound, Reading, LineageFiles
    <2> QED BY <2>6, <2>7, <2>8, <2>9, Frame DEF DiskInv, Committing, Reading
  <1>4. CASE FinalizeMergeFails(p)
    BY <1>4, Leaves, StepNames DEF FinalizeMergeFails, Raise, history, TypeOK
  <1>5. CASE FinalizePreempted(p)
    BY <1>5, Leaves, StepNames DEF FinalizePreempted, Raise, history, TypeOK
  <1>6. CASE FinalizeReads(p)
    <2> DEFINE m == [proc[p] EXCEPT !.at = "commit", !.seen = campaign]
    <2>1. proc[p].at \in Committing /\ proc[p].at \in InRound
      BY <1>6 DEF FinalizeReads, At, Committing, InRound
    <2>2. proc' = [proc EXCEPT ![p] = m]
      BY <1>6 DEF FinalizeReads, TypeOK
    <2>3. m \in Process /\ m.at = "commit" /\ m.round = r /\ m.seen = campaign
      BY <1>1, StepNames DEF Process, TypeOK
    <2> HIDE DEF m
    <2>4. /\ proc' \in [Procs -> Process] /\ proc'[p] = m
          /\ \A q \in Procs \ {p} : proc'[q] = proc[q]
      BY <2>2, <2>3, UpdateFacts
    <2>5. TypeOK' /\ UNCHANGED LineageFiles /\ UNCHANGED branches
      BY <1>6, <2>4 DEF FinalizeReads, TypeOK, disk, round_dir, history, LineageFiles
    <2>6. /\ Known(campaign) /\ campaign # None /\ rounds[r] # "none"
          /\ generations[r] # None /\ generations[r - 1] # None /\ campaign.current < r
      BY <2>1 DEF ProcInv, DiskInv
    <2>7. campaign.current = r - 1
      <3>1. campaign.current >= r - 1
        BY <1>1, <1>6, <2>6 DEF FinalizeReads, Known
      <3> QED BY <1>1, <2>1, <2>6, <3>1, ParentPublished, RoundFacts
    <2>8. ProcInv(p)'
      <3>1. Known(campaign)'
        BY <2>5, <2>6 DEF Known, LineageFiles
      <3> QED BY <2>3, <2>4, <2>5, <2>6, <2>7, <3>1
              DEF ProcInv, At, Committing, InRound, LineageFiles
    <2> QED BY <2>1, <2>3, <2>4, <2>5, <2>8, Frame DEF DiskInv
  <1>7. CASE FinalizeUnregistered(p)
    BY <1>7, Leaves, StepNames DEF FinalizeUnregistered, Raise, history, TypeOK
  <1> QED BY <1>2, <1>3, <1>4, <1>5, <1>6, <1>7

\* Publishing a generation: os.replace lets one process do it.
LEMMA FinalizePublishesInv ==
  ASSUME CampaignInv, NEW p \in Procs, FinalizePublishes(p)
  PROVE  CampaignInv'
  <1> USE DEF CampaignInv, FinalizePublishes
  <1> DEFINE r == proc[p].round
  <1>1. /\ proc' \in [Procs -> Process] /\ proc'[p].at = "mark" /\ proc'[p].round = r
        /\ \A q \in Procs \ {p} : proc'[q] = proc[q]
    BY GotoFacts, StepNames
  <1>2. proc[p].at \in InRound
    BY DEF At, InRound
  <1>3. /\ r \in Rounds /\ campaign \in Metadata /\ campaign # None /\ rounds[r] # "none"
        /\ generations[r] = None /\ generations[r - 1] # None
    BY <1>2, ParentPublished
  <1>4. proc[p].staged \in SUBSET Lesson /\ proc[p].staged # None
    BY RoundFacts DEF TypeOK, Process
  <1>5. /\ generations' \in [Generations -> {None} \cup SUBSET Lesson]
        /\ generations'[r] # None
        /\ \A g \in Generations : g # r => generations'[g] = generations[g]
    BY <1>3, <1>4, RoundFacts DEF TypeOK
  <1>6. TypeOK'
    BY <1>1, <1>5 DEF TypeOK, round_dir, history
  <1>7. /\ \A g \in Generations : generations[g] # None => generations'[g] = generations[g]
        /\ UNCHANGED <<campaign, rounds, branches>>
    BY <1>3, <1>5 DEF round_dir
  <1>8. Known(campaign)
    BY <1>3 DEF DiskInv
  <1>9. DiskInv'
    <2>1. PICK m \in Metadata : m = campaign
      BY <1>3
    <2>2. Known(m)'
      BY <1>3, <1>7, <1>8, <2>1, KnownStays
    <2>3. \A s \in Rounds : generations'[s] # None => rounds[s] # "none"
      BY <1>3, <1>5, RoundFacts DEF DiskInv
    <2> QED BY <1>7, <2>1, <2>2, <2>3 DEF DiskInv, Known
  <1>10. campaign.current < r
    BY <1>3, <1>8, UnpublishedIsNew
  <1>11. ProcInv(p)'
    <2>1. generations'[r - 1] # None
      BY <1>3, <1>7, RoundFacts
    <2> QED BY <1>1, <1>3, <1>5, <1>7, <1>10, <2>1 DEF ProcInv, At, InRound, Committing, Reading
  <1>12. ASSUME NEW q \in Procs, q # p PROVE ProcInv(q)'
    <2>1. proc[q].at \in Committing => campaign'.current < proc[q].round
      BY <1>7 DEF ProcInv
    <2> QED BY <1>1, <1>3, <1>7, <1>12, <2>1, OthersKeep
  <1>13. ASSUME NEW q \in Procs
         PROVE  /\ proc[q].at \in Committing => proc[q].round # r
                /\ proc[q].at \in Reading => proc[q].seen.current < r
    <2>1. proc[q].at \in Committing => generations[proc[q].round] # None
      BY DEF ProcInv
    <2>2. proc[q].at \in Reading => Known(proc[q].seen) /\ proc[q].seen \in Metadata
      BY DEF ProcInv, Known, TypeOK, Process
    <2> QED BY <1>3, <2>1, <2>2, UnpublishedIsNew
  <1>14. UniqueInv'
    BY <1>1, <1>13 DEF UniqueInv, At, Committing, Reading
  <1> QED BY <1>6, <1>9, <1>11, <1>12, <1>14

\* Marking the round complete.
LEMMA FinalizeMarksInv ==
  ASSUME CampaignInv, NEW p \in Procs, FinalizeMarks(p)
  PROVE  CampaignInv'
  <1> USE DEF CampaignInv, FinalizeMarks
  <1> DEFINE r == proc[p].round
  <1>1. /\ proc' \in [Procs -> Process] /\ proc'[p].at = "read" /\ proc'[p].round = r
        /\ \A q \in Procs \ {p} : proc'[q] = proc[q]
    BY GotoFacts, StepNames
  <1>2. /\ r \in Rounds /\ campaign \in Metadata /\ campaign # None
        /\ proc[p].at \in Committing /\ proc[p].at \in InRound
    BY ParentPublished DEF At, Committing, InRound
  <1>3. /\ rounds' \in [Rounds -> RoundStatus]
        /\ \A s \in Rounds : rounds[s] # "none" => rounds'[s] # "none"
    BY <1>2 DEF TypeOK, RoundStatus
  <1>4. TypeOK'
    BY <1>1, <1>3 DEF TypeOK, history
  <1>5. DiskInv'
    <2>1. PICK m \in Metadata : m = campaign /\ Known(m)
      BY <1>2 DEF DiskInv
    <2>2. Known(m)'
      BY <1>2, <1>3, <2>1, KnownStays
    <2> QED BY <1>3, <2>1, <2>2 DEF DiskInv, Known
  <1>6. ProcInv(p)'
    BY <1>1, <1>2, <1>3 DEF ProcInv, At, InRound, Committing, Reading
  <1>7. ASSUME NEW q \in Procs, q # p PROVE ProcInv(q)'
    <2>1. proc[q].at \in Committing => campaign'.current < proc[q].round
      BY DEF ProcInv
    <2> QED BY <1>1, <1>2, <1>3, <1>7, <2>1, OthersKeep
  <1>8. UniqueInv'
    BY <1>1, <1>2 DEF UniqueInv, At, Committing, Reading
  <1> QED BY <1>4, <1>5, <1>6, <1>7, <1>8

\* A chain of generations, one longer.
LEMMA ChainAppend ==
  ASSUME NEW r \in Nat \ {0}
  PROVE  Append([i \in 1..r |-> i - 1], r) = [i \in 1..r + 1 |-> i - 1]
  <1>1. [i \in 1..r |-> i - 1] \in Seq(Int) /\ Len([i \in 1..r |-> i - 1]) = r
    OBVIOUS
  <1> QED BY <1>1

\* What finalize_round writes is a campaign.json.
LEMMA CommitType ==
  ASSUME CampaignInv, NEW p \in Procs, FinalizeCommits(p)
  PROVE  campaign' \in Metadata /\ campaign' # None
  <1> DEFINE r == proc[p].round
             seen == proc[p].seen
  <1>1. r \in Rounds /\ seen \in Metadata
    BY DEF FinalizeCommits, CampaignInv, TypeOK, Process, ProcInv, Known, At, Reading
  <1>2. Append(seen.lineage, r) \in Seq(Generations)
    BY <1>1, RoundFacts DEF Metadata
  <1>3. [seen.rounds EXCEPT ![r] = "complete"] \in [Rounds -> RoundStatus]
    BY <1>1 DEF Metadata, RoundStatus
  <1>4. campaign' \in Metadata
    BY <1>1, <1>2, <1>3, RoundFacts DEF FinalizeCommits, Metadata
  <1> QED BY <1>4, CampaignAssumption

\* Writing the new generation into campaign.json.
LEMMA FinalizeCommitsInv ==
  ASSUME CampaignInv, NEW p \in Procs, FinalizeCommits(p)
  PROVE  CampaignInv'
  <1> USE DEF CampaignInv, FinalizeCommits
  <1> DEFINE r == proc[p].round
             seen == proc[p].seen
  <1>1. /\ proc' \in [Procs -> Process] /\ proc'[p].at = "release"
        /\ \A q \in Procs \ {p} : proc'[q] = proc[q]
    BY GotoFacts, StepNames
  <1>2. /\ r \in Rounds /\ r \in Nat \ {0} /\ Known(seen) /\ seen.current = r - 1
        /\ campaign # None /\ rounds[r] # "none" /\ generations[r] # None
        /\ proc[p].at \in Reading /\ proc[p].at \in Committing
    BY DEF TypeOK, Process, ProcInv, InRound, Committing, Reading, At, Rounds
  <1>3. seen \in Metadata
    BY <1>2 DEF TypeOK, Process, Known
  <1>4. campaign'.lineage = [i \in 1..r + 1 |-> i - 1]
    <2>1. seen.current + 1 = r
      BY <1>2
    <2>2. seen.lineage = [i \in 1..r |-> i - 1]
      BY <1>2, <2>1 DEF Known
    <2> QED BY <1>2, <2>2, ChainAppend
  <1>5. /\ campaign' \in Metadata /\ campaign'.current = r
        /\ campaign'.rounds = [seen.rounds EXCEPT ![r] = "complete"]
    BY CommitType
  <1>6. campaign' # None
    BY CommitType
  <1>7. TypeOK'
    <2>1. returned' \in SUBSET Rounds
      BY <1>2 DEF TypeOK
    <2> QED BY <1>1, <1>5, <2>1 DEF TypeOK, round_dir
  <1>8. UNCHANGED <<generations, rounds, branches>>
    BY DEF round_dir
  <1>9. Known(campaign)'
    <2>1. ASSUME NEW s \in Rounds, campaign'.rounds[s] # "none"
          PROVE  rounds[s] # "none" /\ r >= s - 1
      <3>1. CASE s = r
        BY <1>2, <3>1
      <3>2. CASE s # r
        <4>1. seen.rounds[s] # "none"
          BY <1>3, <1>5, <2>1, <3>2 DEF Metadata
        <4> QED BY <1>2, <4>1, RoundFacts DEF Known
      <3> QED BY <3>1, <3>2
    <2>2. ASSUME NEW g \in 0..r PROVE generations[g] # None
      <3>1. g = r \/ g \in 0..seen.current
        BY <1>2
      <3> QED BY <1>2, <3>1 DEF Known
    <2> QED BY <1>4, <1>5, <1>6, <1>8, <2>1, <2>2 DEF Known
  <1>10. DiskInv'
    BY <1>8, <1>9 DEF DiskInv
  <1>11. ASSUME NEW q \in Procs, q # p PROVE ProcInv(q)'
    <2>1. proc[q].at \in Committing => campaign'.current < proc[q].round
      <3>1. SUFFICES ASSUME proc[q].at \in Committing PROVE r < proc[q].round
        BY <1>5
      <3>2. r - 1 < proc[q].round /\ proc[q].round # r
        BY <1>2, <1>11, <3>1 DEF UniqueInv
      <3>3. proc[q].round \in Int
        BY RoundFacts DEF TypeOK, Process
      <3> QED BY <1>2, <3>2, <3>3
    <2> QED BY <1>1, <1>2, <1>6, <1>8, <1>11, <2>1, OthersKeep
  <1>12. ProcInv(p)'
    BY <1>1 DEF ProcInv, At, InRound, Committing, Reading
  <1>13. UniqueInv'
    BY <1>1 DEF UniqueInv, At, Committing, Reading
  <1> QED BY <1>7, <1>10, <1>11, <1>12, <1>13
----------------------------------------------------------------------------
\* The empty campaign directory satisfies the invariant.
LEMMA InitInv ==
  Init => CampaignInv
  <1> SUFFICES ASSUME Init PROVE CampaignInv
    OBVIOUS
  <1> USE DEF Init
  <1>1. Idle \in Process /\ Idle.at = "idle"
    BY CampaignAssumption DEF Idle, Process, Steps, Rounds, NoResults, Statuses
  <1>2. NoResults \in [Tasks -> Statuses]
    BY DEF NoResults, Statuses
  <1>3. TypeOK
    <2>1. overlapped \in BOOLEAN
      OBVIOUS
    <2>2. stopped \in SUBSET (Fragile \X Rounds) /\ stops \in 0..MaxStops
      BY CampaignAssumption
    <2> QED BY <1>1, <1>2, <2>1, <2>2, CampaignAssumption DEF TypeOK, RoundStatus
  <1>4. DiskInv
    BY RoundFacts DEF DiskInv
  <1>5. \A p \in Procs : ProcInv(p)
    BY <1>1 DEF ProcInv, At, InRound, Committing, Reading
  <1>6. UniqueInv
    BY <1>1 DEF UniqueInv, At, Committing, Reading
  <1> QED BY <1>3, <1>4, <1>5, <1>6 DEF CampaignInv

\* Every step keeps the invariant.
LEMMA NextInv ==
  ASSUME CampaignInv, [Next]_vars
  PROVE  CampaignInv'
  <1>1. CASE UNCHANGED vars
    <2>1. /\ UNCHANGED <<lock, campaign, generations, rounds, runs, torn, branches, proc>>
          /\ UNCHANGED <<finished, returned, overlapped, stopped, stops>>
      BY <1>1 DEF vars, disk, round_dir, history
    <2>2. TypeOK'
      BY <2>1 DEF CampaignInv, TypeOK
    <2>3. DiskInv' /\ UniqueInv'
      BY <2>1 DEF CampaignInv, DiskInv, Known, UniqueInv, At
    <2>4. ASSUME NEW p \in Procs PROVE ProcInv(p)'
      <3>1. ProcInv(p)
        BY DEF CampaignInv
      <3>2. \A m : Known(m) => Known(m)'
        BY <2>1 DEF Known
      <3> QED BY <2>1, <3>1, <3>2 DEF ProcInv, At
    <2> QED BY <2>2, <2>3, <2>4 DEF CampaignInv
  <1>2. ASSUME NEW p \in Procs, Invoke(p) \/ Invocation(p) \/ Crash(p) \/ Interrupt(p)
        PROVE  CampaignInv'
    <2>1. CASE PrepareRound(p)
      BY <2>1, ReadingSteps, InitializePublishesInv, InitializeWritesInv, PrepareCreatesInv,
         PrepareRegistersInv DEF PrepareRound
    <2>2. CASE FinalizeRound(p)
      BY <2>2, FinalizeSteps, FinalizePublishesInv, FinalizeMarksInv, FinalizeCommitsInv
         DEF FinalizeRound
    <2> QED BY <1>2, <2>1, <2>2, LockSteps, RunnerSteps, StopSteps DEF Invocation
  <1> QED BY <1>1, <1>2 DEF Next

\* campaign.json, old copies of it included, names published generations only, every
\* generation is committed by the process that published it, and every process's
\* memory is consistent with that, whatever interleaves, crashes or gets past
\* writer_lock.
THEOREM CampaignCorrect == Spec => []CampaignInv
  <1>1. Init => CampaignInv
    BY InitInv
  <1>2. CampaignInv /\ [Next]_vars => CampaignInv'
    BY NextInv
  <1> QED BY <1>1, <1>2, PTL DEF Spec

\* campaign.json always names an unbroken chain of published generations.
THEOREM LineageIsUnbroken == Spec => []LineageUnbroken
  <1>1. CampaignInv => LineageUnbroken
    BY DEF CampaignInv, DiskInv, Known, LineageUnbroken
  <1> QED BY <1>1, CampaignCorrect, PTL

----------------------------------------------------------------------------
(* One writer at a time.  Two writers can defeat what follows, so it is    *)
(* promised as long as none have overlapped; what a stop leaves half done  *)
(* is named round by round in stopped.                                     *)

\* A step changes the memory of one process.
LEMMA OthersUnchanged ==
  ASSUME CampaignInv, NEW p \in Procs,
         Invoke(p) \/ Invocation(p) \/ Crash(p) \/ Interrupt(p)
  PROVE  \A q \in Procs \ {p} : proc'[q] = proc[q]
  <1> USE DEF CampaignInv, TypeOK, Goto, Raise, Exit
  <1>1. CASE Invoke(p) \/ Crash(p) \/ Interrupt(p)
    BY <1>1 DEF Invoke, Crash, Interrupt
  <1>2. CASE WriterLock(p)
    BY <1>2 DEF WriterLock, LockCreates, LockExists, LockRefused, LockStale, LockUnlinks,
       LockLost, LockWritten, Release
  <1>3. CASE PrepareRound(p)
    BY <1>3 DEF PrepareRound, InitializeReads, InitializePublishes, InitializeStuck,
       InitializeWrites, PrepareRefused, PrepareResumes, PrepareAccepts, PrepareCreates,
       PrepareRegisters
  <1>4. CASE Runner(p)
    BY <1>4 DEF Runner, RunnerLoads, RunnerCannotLoad, RunnerTruncates, RunnerRewrites,
       TaskLearns, TaskEnds
  <1>5. CASE FinalizeRound(p)
    BY <1>5 DEF FinalizeRound, FinalizeReturns, FinalizeStages, FinalizeMergeFails,
       FinalizePublishes, FinalizePreempted, FinalizeMarks, FinalizeReads,
       FinalizeUnregistered, FinalizeCommits
  <1> QED BY <1>1, <1>2, <1>3, <1>4, <1>5 DEF Invocation

\* A second process is noted when it enters; nobody else enters.
LEMMA OneWriterStays ==
  ASSUME CampaignInv, ~overlapped => OneWriter, ~overlapped', NEW p \in Procs,
         Invoke(p) \/ Invocation(p) \/ Crash(p) \/ Interrupt(p)
  PROVE  ~overlapped /\ OneWriter'
  <1>1. \A q \in Procs \ {p} : proc'[q] = proc[q]
    BY OthersUnchanged
  <1>2. TypeOK
    BY DEF CampaignInv
  <1>3. CASE LockWritten(p)
    <2>1. ~overlapped /\ \A q \in Procs : proc[q].at \notin Body
      BY <1>3 DEF LockWritten
    <2> QED BY <1>1, <2>1 DEF OneWriter
  <1>4. CASE ~LockWritten(p)
    <2>1. overlapped' = overlapped
      BY <1>4 DEF Invoke, Crash, Interrupt, Stops, Invocation, WriterLock, LockCreates,
         LockExists, LockRefused, LockStale, LockUnlinks, LockLost, Release, PrepareRound,
         InitializeReads, InitializePublishes, InitializeStuck, InitializeWrites,
         PrepareRefused, PrepareResumes, PrepareAccepts, PrepareCreates, PrepareRegisters,
         Runner, RunnerLoads, RunnerCannotLoad, RunnerTruncates, RunnerRewrites, TaskLearns,
         TaskEnds, FinalizeRound, FinalizeReturns, FinalizeStages, FinalizeMergeFails,
         FinalizePublishes, FinalizePreempted, FinalizeMarks, FinalizeReads,
         FinalizeUnregistered, FinalizeCommits, history
    <2>2. proc'[p].at \in Body => proc[p].at \in Body
      <3>1. CASE Invoke(p)
        <4>1. PICK r \in Rounds : proc' = [proc EXCEPT ![p].at = "lock", ![p].round = r]
          BY <3>1 DEF Invoke
        <4> QED BY <1>2, <4>1 DEF TypeOK, Process, Body
      <3>2. CASE WriterLock(p)
        <4> DEFINE Outside == {"write_pid", "owner", "unlink", "relock"}
        <4>1. Exit(p) \/ \E s \in Outside : Goto(p, s)
          BY <1>4, <3>2 DEF WriterLock, LockCreates, LockExists, LockRefused, LockStale,
             LockUnlinks, LockLost, Release
        <4>2. \A s \in Outside : s \in Steps /\ s \notin Body
          BY DEF Steps, Body
        <4>3. CASE Exit(p)
          BY <1>2, <4>3, ExitFacts DEF Body
        <4>4. ASSUME NEW s \in Outside, Goto(p, s) PROVE proc'[p].at \notin Body
          BY <1>2, <4>2, <4>4, GotoFacts
        <4> QED BY <4>1, <4>3, <4>4
      <3>3. CASE PrepareRound(p) \/ Runner(p) \/ FinalizeRound(p)
        BY <3>3 DEF PrepareRound, InitializeReads, InitializePublishes, InitializeStuck,
           InitializeWrites, PrepareRefused, PrepareResumes, PrepareAccepts, PrepareCreates,
           PrepareRegisters, Runner, RunnerLoads, RunnerCannotLoad, RunnerTruncates,
           RunnerRewrites, TaskLearns, TaskEnds, FinalizeRound, FinalizeReturns,
           FinalizeStages, FinalizeMergeFails, FinalizePublishes, FinalizePreempted,
           FinalizeMarks, FinalizeReads, FinalizeUnregistered, FinalizeCommits, At, Body
      <3>4. CASE Crash(p)
        BY <1>2, <3>4, ExitFacts DEF Crash, Body
      <3>5. CASE Interrupt(p)
        BY <3>5 DEF Interrupt
      <3> QED BY <3>1, <3>2, <3>3, <3>4, <3>5 DEF Invocation
    <2> QED BY <1>1, <2>1, <2>2 DEF OneWriter
  <1> QED BY <1>3, <1>4

\* A step of p that leaves the files of the lineage alone keeps what is recorded.
LEMMA RecordedFrame ==
  ASSUME Recorded, NEW p \in Procs,
         \A q \in Procs \ {p} : proc'[q] = proc[q],
         UNCHANGED LineageFiles, UNCHANGED <<returned, stopped>>,
         proc[p].at # "register",
         proc[p].at \in Committing =>
            proc'[p].at \in Committing /\ proc'[p].round = proc[p].round,
         proc'[p].at \in Reading => proc'[p].seen = campaign
  PROVE  Recorded'
  <1>1. \A r : HalfCommitted(r)' <=> HalfCommitted(r)
    BY DEF HalfCommitted
  <1>2. ASSUME NEW r \in Rounds, rounds'[r] # "none", ~HalfCommitted(r)
        PROVE  \/ campaign' # None /\ campaign'.rounds[r] # "none"
               \/ \E q \in Procs : At(q, "register")' /\ proc'[q].round = r
    BY <1>2 DEF Recorded, LineageFiles, At
  <1>3. ASSUME NEW r \in Rounds, generations'[r] # None, ~HalfCommitted(r)
        PROVE  \/ campaign' # None /\ campaign'.current >= r
               \/ \E q \in Procs : proc'[q].at \in Committing /\ proc'[q].round = r
    BY <1>3 DEF Recorded, LineageFiles
  <1>4. \A q \in Procs : proc'[q].at \in Reading => proc'[q].seen = campaign'
    BY DEF Recorded, LineageFiles
  <1>5. \A r \in returned' : (campaign' # None /\ campaign'.current >= r) \/ HalfCommitted(r)
    BY DEF Recorded, LineageFiles
  <1> QED BY <1>1, <1>2, <1>3, <1>4, <1>5 DEF Recorded

\* A step of p outside the rewrite that touches no result keeps the results.
LEMMA ResultsFrame ==
  ASSUME ResultsKept, NEW p \in Procs,
         \A q \in Procs \ {p} : proc'[q] = proc[q],
         UNCHANGED <<runs, finished, stopped>>,
         proc[p].at # "rewrite", proc'[p].at \notin {"run", "rewrite"}
  PROVE  ResultsKept'
  BY DEF ResultsKept, HalfWritten, At

\* A step of p between places that promise nothing.
LEMMA UndisturbedFrame ==
  ASSUME Recorded, ResultsKept, NEW p \in Procs,
         \A q \in Procs \ {p} : proc'[q] = proc[q],
         UNCHANGED LineageFiles, UNCHANGED <<runs, finished, returned, stopped>>,
         proc[p].at \notin Committing \cup {"register", "rewrite"},
         proc'[p].at \notin Reading \cup {"run", "rewrite"}
  PROVE  Recorded' /\ ResultsKept'
  BY RecordedFrame, ResultsFrame

\* While p is inside writer_lock, no other process is at a step of the body.
LEMMA AloneInside ==
  ASSUME OneWriter, NEW p \in Procs, proc[p].at \in Body
  PROVE  \A q \in Procs \ {p} : /\ proc[q].at \notin Reading \cup Committing
                                /\ proc[q].at \notin {"run", "rewrite", "init_meta", "register"}
  BY DEF OneWriter, Body, Reading, Committing

\* writer_lock reads and writes nothing but the lock file.
LEMMA LockUndisturbed ==
  ASSUME CampaignInv, Recorded, ResultsKept, NEW p \in Procs, Invoke(p) \/ WriterLock(p)
  PROVE  Recorded' /\ ResultsKept'
  <1> DEFINE Outside == {"idle", "lock", "owner", "unlink", "relock", "write_pid", "release",
                         "done", "initialize"}
  <1>1. TypeOK /\ proc[p] \in Process
    BY DEF CampaignInv, TypeOK
  <1>2. proc[p].at \in Outside
    BY DEF Invoke, WriterLock, LockCreates, LockExists, LockRefused, LockStale, LockUnlinks,
       LockLost, LockWritten, Release, At
  <1>3. UNCHANGED LineageFiles /\ UNCHANGED <<runs, finished, returned, stopped>>
    BY DEF Invoke, WriterLock, LockCreates, LockExists, LockRefused, LockStale, LockUnlinks,
       LockLost, LockWritten, Release, disk, round_dir, history, LineageFiles
  <1>4. /\ \A q \in Procs \ {p} : proc'[q] = proc[q]
        /\ proc'[p].at \in Outside
    <2>1. CASE Invoke(p)
      <3>1. PICK r \in Rounds : proc' = [proc EXCEPT ![p].at = "lock", ![p].round = r]
        BY <2>1 DEF Invoke
      <3> QED BY <1>1, <3>1 DEF TypeOK, Process
    <2>2. CASE WriterLock(p)
      <3>1. Exit(p) \/ \E s \in Outside : Goto(p, s)
        BY <2>2 DEF WriterLock, LockCreates, LockExists, LockRefused, LockStale, LockUnlinks,
           LockLost, LockWritten, Release
      <3>2. \A s \in Outside : s \in Steps
        BY DEF Steps, Body
      <3>3. CASE Exit(p)
        BY <1>1, <3>3, ExitFacts
      <3>4. ASSUME NEW s \in Outside, Goto(p, s)
            PROVE /\ \A q \in Procs \ {p} : proc'[q] = proc[q]
                  /\ proc'[p].at \in Outside
        BY <1>1, <3>2, <3>4, GotoFacts
      <3> QED BY <3>1, <3>3, <3>4
    <2> QED BY <2>1, <2>2
  <1> QED BY <1>2, <1>3, <1>4, UndisturbedFrame DEF Committing, Reading

\* initialize: campaign.json is read, or found to be missing.
LEMMA InitializeUndisturbed ==
  ASSUME CampaignInv, OneWriter, Recorded, ResultsKept, NEW p \in Procs,
         \/ InitializeReads(p) \/ InitializePublishes(p) \/ InitializeStuck(p)
         \/ InitializeWrites(p)
  PROVE  Recorded' /\ ResultsKept'
  <1>1. TypeOK /\ proc[p] \in Process
    BY DEF CampaignInv, TypeOK
  <1>2. proc[p].at \in {"initialize", "init_meta"}
    BY DEF InitializeReads, InitializePublishes, InitializeStuck, InitializeWrites, At
  <1>3. \A q \in Procs \ {p} : proc[q].at \notin Reading
    BY <1>2, AloneInside DEF Body
  <1>4. \A q \in Procs \ {p} : proc'[q] = proc[q]
    BY <1>1 DEF InitializeReads, InitializePublishes, InitializeStuck, InitializeWrites, Goto,
       Raise, TypeOK
  <1>5. UNCHANGED <<runs, finished, returned, rounds, stopped>>
    BY DEF InitializeReads, InitializePublishes, InitializeStuck, InitializeWrites, disk,
       round_dir, history
  <1>6. proc'[p].at \in {"prepare", "init_meta", "release"}
    BY <1>1 DEF InitializeReads, InitializePublishes, InitializeStuck, InitializeWrites, Goto,
       Raise, TypeOK, Process
  <1>7. ResultsKept'
    BY <1>2, <1>4, <1>5, <1>6, ResultsFrame
  <1>8. CASE InitializeReads(p)
    <2>1. UNCHANGED LineageFiles /\ proc'[p].seen = campaign
      BY <1>1, <1>8 DEF InitializeReads, disk, round_dir, LineageFiles, TypeOK, Process
    <2> QED BY <1>2, <1>4, <1>5, <1>7, <2>1, RecordedFrame DEF Committing
  <1>9. CASE InitializeStuck(p)
    <2>1. UNCHANGED LineageFiles /\ proc'[p].at = "release"
      BY <1>1, <1>9 DEF InitializeStuck, disk, round_dir, LineageFiles, TypeOK, Process, Raise,
         Goto
    <2> QED BY <1>2, <1>4, <1>5, <1>7, <2>1, RecordedFrame DEF Committing, Reading
  <1>10. CASE InitializePublishes(p) \/ InitializeWrites(p)
    <2>1. campaign = None
      BY <1>10 DEF InitializePublishes, InitializeWrites, CampaignInv, ProcInv
    <2>2. \A q \in Procs : proc[q].at \notin InRound
      BY <2>1, InRoundNeedsCampaign
    <2>3. /\ \A r \in Rounds : rounds[r] # "none" => HalfCommitted(r)
          /\ \A r \in Rounds : generations[r] # None => HalfCommitted(r)
          /\ \A r \in returned : HalfCommitted(r)
      BY <2>1, <2>2 DEF Recorded, At, InRound, Committing
    <2>4. /\ \A r \in Rounds : rounds'[r] = rounds[r] /\ generations'[r] = generations[r]
          /\ \A r : HalfCommitted(r)' <=> HalfCommitted(r)
      <3>1. \A r \in Rounds : generations'[r] = generations[r]
        BY <1>1, <1>10, RoundFacts DEF InitializePublishes, InitializeWrites, TypeOK
      <3> QED BY <1>5, <3>1 DEF HalfCommitted
    <2>5. \A q \in Procs : proc'[q].at \in Reading => proc'[q].seen = campaign'
      <3>1. CASE InitializePublishes(p)
        <4>1. proc'[p].at = "init_meta"
          BY <1>1, <3>1 DEF InitializePublishes, Goto, TypeOK, Process
        <4> QED BY <1>3, <1>4, <4>1 DEF Reading
      <3>2. CASE InitializeWrites(p)
        <4>1. proc'[p].seen = NewCampaign /\ campaign' = NewCampaign
          BY <1>1, <3>2 DEF InitializeWrites, TypeOK, Process
        <4> QED BY <1>3, <1>4, <4>1
      <3> QED BY <1>10, <3>1, <3>2
    <2>6. Recorded'
      BY <1>5, <2>3, <2>4, <2>5 DEF Recorded
    <2> QED BY <1>7, <2>6
  <1> QED BY <1>8, <1>9, <1>10

\* prepare_round: what it creates is registered before anything else happens.
LEMMA PrepareUndisturbed ==
  ASSUME CampaignInv, OneWriter, Recorded, ResultsKept, NEW p \in Procs,
         \/ PrepareRefused(p) \/ PrepareResumes(p) \/ PrepareAccepts(p)
         \/ PrepareCreates(p) \/ PrepareRegisters(p)
  PROVE  Recorded' /\ ResultsKept'
  <1> DEFINE r == proc[p].round
  <1>1. TypeOK /\ proc[p] \in Process /\ r \in Rounds
    BY DEF CampaignInv, TypeOK, Process
  <1>2. proc[p].at \in {"prepare", "create", "register"} /\ proc[p].seen = campaign
    BY DEF PrepareRefused, PrepareResumes, PrepareAccepts, PrepareCreates, PrepareRegisters, At,
       Recorded, Reading
  <1>3. \A q \in Procs \ {p} : proc[q].at \notin Reading \cup Committing
    BY <1>2, AloneInside DEF Body
  <1>4. PICK s \in {"release", "load", "create", "register"} : Goto(p, s)
    BY DEF PrepareRefused, PrepareResumes, PrepareAccepts, PrepareCreates, PrepareRegisters,
       Raise
  <1>5. /\ \A q \in Procs \ {p} : proc'[q] = proc[q]
        /\ proc'[p].at = s /\ proc'[p].round = r /\ proc'[p].seen = campaign
    BY <1>1, <1>2, <1>4, GotoFacts, StepNames
  <1>6. UNCHANGED <<runs, finished, returned, generations, stopped>>
    BY DEF PrepareRefused, PrepareResumes, PrepareAccepts, PrepareCreates, PrepareRegisters,
       disk, round_dir, history
  <1>7. ResultsKept'
    BY <1>2, <1>5, <1>6, ResultsFrame
  <1>8. \A q : HalfCommitted(q)' <=> HalfCommitted(q)
    BY <1>6 DEF HalfCommitted
  \* What is on disk of other rounds is in campaign.json, or was interrupted.
  <1>9. /\ \A q \in Rounds : rounds[q] # "none" /\ ~HalfCommitted(q) =>
               \/ campaign # None /\ campaign.rounds[q] # "none"
               \/ proc[p].at = "register" /\ q = r
        /\ \A q \in Rounds : generations[q] # None /\ ~HalfCommitted(q) =>
               campaign # None /\ campaign.current >= q
    BY <1>2, <1>3 DEF Recorded, At, Reading, Committing
  <1>10. CASE PrepareRefused(p) \/ PrepareResumes(p) \/ PrepareAccepts(p)
    <2>1. UNCHANGED LineageFiles /\ proc[p].at = "prepare"
      BY <1>10 DEF PrepareRefused, PrepareResumes, PrepareAccepts, disk, round_dir,
         LineageFiles, At
    <2> QED BY <1>5, <1>6, <1>7, <2>1, RecordedFrame DEF Committing
  <1>11. CASE PrepareCreates(p)
    <2>1. /\ rounds' = [rounds EXCEPT ![r] = "running"] /\ campaign' = campaign
          /\ proc[p].at = "create" /\ proc'[p].at = "register"
      BY <1>1, <1>11, GotoFacts, StepNames DEF PrepareCreates, At
    <2>2. ASSUME NEW q \in Rounds, rounds'[q] # "none", ~HalfCommitted(q)
          PROVE  \/ campaign' # None /\ campaign'.rounds[q] # "none"
                 \/ \E o \in Procs : proc'[o].at = "register" /\ proc'[o].round = q
      <3>1. CASE q = r
        BY <1>5, <2>1, <3>1
      <3>2. CASE q # r
        <4>1. rounds[q] # "none"
          BY <1>1, <2>1, <2>2, <3>2 DEF TypeOK
        <4> QED BY <1>9, <2>1, <2>2, <4>1
      <3> QED BY <3>1, <3>2
    <2>3. \A q \in Procs : proc'[q].at \in Reading => proc'[q].seen = campaign'
      BY <1>3, <1>5, <2>1
    <2>4. \A q \in returned' : (campaign' # None /\ campaign'.current >= q) \/ HalfCommitted(q)
      BY <1>6, <2>1 DEF Recorded
    <2> QED BY <1>6, <1>7, <1>8, <1>9, <2>1, <2>2, <2>3, <2>4 DEF Recorded, At
  <1>12. CASE PrepareRegisters(p)
    <2>1. /\ campaign' = [campaign EXCEPT !.rounds[r] = "running"] /\ rounds' = rounds
          /\ proc[p].at = "register" /\ proc'[p].at = "load"
      BY <1>1, <1>2, <1>12, GotoFacts, StepNames DEF PrepareRegisters, At, round_dir
    <2>2. campaign \in Metadata
      BY <2>1, ParentPublished DEF InRound
    <2>3. /\ campaign' \in Metadata /\ campaign'.current = campaign.current
          /\ campaign'.rounds[r] = "running"
          /\ \A q \in Rounds : q # r => campaign'.rounds[q] = campaign.rounds[q]
      BY <1>1, <2>1, <2>2 DEF Metadata, RoundStatus
    <2>4. campaign' # None
      BY <2>3, CampaignAssumption
    <2>5. ASSUME NEW q \in Rounds, rounds'[q] # "none", ~HalfCommitted(q)
          PROVE  campaign'.rounds[q] # "none"
      <3>1. CASE q = r
        BY <2>3, <3>1
      <3>2. CASE q # r
        BY <1>9, <2>1, <2>3, <2>5, <3>2
      <3> QED BY <3>1, <3>2
    <2>6. \A q \in returned' : campaign'.current >= q \/ HalfCommitted(q)
      BY <1>6, <2>3 DEF Recorded
    <2>7. \A q \in Procs : proc'[q].at \notin Reading
      BY <1>3, <1>5, <2>1 DEF Reading
    <2> QED BY <1>6, <1>7, <1>8, <1>9, <2>3, <2>4, <2>5, <2>6, <2>7 DEF Recorded
  <1> QED BY <1>10, <1>11, <1>12

\* The runner keeps a final result in the file, or in memory while it rewrites it.
LEMMA RunnerUndisturbed ==
  ASSUME CampaignInv, OneWriter, Recorded, ResultsKept, NEW p \in Procs, Runner(p)
  PROVE  Recorded' /\ ResultsKept'
  <1> DEFINE r == proc[p].round
  <1>1. TypeOK /\ proc[p] \in Process /\ r \in Rounds
    BY DEF CampaignInv, TypeOK, Process
  <1>2. RoundTasks[r] \subseteq Tasks
    BY <1>1 DEF Tasks
  <1>3. proc[p].at \in {"load", "run", "rewrite"}
    BY DEF Runner, RunnerLoads, RunnerCannotLoad, RunnerTruncates, RunnerRewrites, TaskLearns,
       TaskEnds, At
  <1>4. \A q \in Procs \ {p} : proc[q].at \notin {"run", "rewrite"}
    BY <1>3, AloneInside DEF Body
  <1>5. UNCHANGED LineageFiles /\ UNCHANGED <<returned, stopped>>
    BY DEF Runner, RunnerLoads, RunnerCannotLoad, RunnerTruncates, RunnerRewrites, TaskLearns,
       TaskEnds, disk, round_dir, history, LineageFiles
  <1>6. ASSUME \A q \in Procs \ {p} : proc'[q] = proc[q],
               proc'[p].at \in {"run", "rewrite", "finalize", "release"}
        PROVE  Recorded'
    BY <1>3, <1>5, <1>6, RecordedFrame DEF Committing, Reading
  <1>7. finished \in [Rounds -> SUBSET Tasks] /\ runs \in [Rounds -> [Tasks -> Statuses]]
    BY <1>1 DEF TypeOK
  <1>8. /\ \A q \in Rounds : \A t \in finished[q] : t \in RoundTasks[q]
        /\ \A q \in Rounds : ~HalfWritten(q) /\ (proc[p].at # "rewrite" \/ q # r) =>
              \A t \in finished[q] : runs[q][t] = "ok"
        /\ proc[p].at \in {"run", "rewrite"} /\ ~HalfWritten(r) =>
              \A t \in finished[r] : proc[p].results[t] = "ok"
        /\ proc[p].at = "run" /\ ~HalfWritten(r) => proc[p].pending \cap finished[r] = {}
        /\ \A q : HalfWritten(q)' <=> HalfWritten(q)
    BY <1>4, <1>5 DEF ResultsKept, HalfWritten, At
  <1>9. CASE RunnerLoads(p)
    <2> DEFINE m == [proc[p] EXCEPT !.at = "run",
                       !.results = [t \in Tasks |-> IF t \in Prior(r) THEN "ok" ELSE "none"],
                       !.pending = RoundTasks[r] \ Prior(r)]
    <2>1. proc' = [proc EXCEPT ![p] = m]
      BY <1>1, <1>9 DEF RunnerLoads, TypeOK
    <2>2. /\ m \in Process /\ m.at = "run" /\ m.round = r /\ m.pending = RoundTasks[r] \ Prior(r)
          /\ \A t \in Prior(r) : m.results[t] = "ok"
      <3>1. Prior(r) \subseteq Tasks
        BY <1>2 DEF Prior
      <3> QED BY <1>1, <1>2, <3>1, StepNames DEF Process, Statuses
    <2> HIDE DEF m
    <2>3. proc'[p] = m /\ \A q \in Procs \ {p} : proc'[q] = proc[q]
      BY <1>1, <2>1, <2>2, UpdateFacts
    <2>4. finished' = finished /\ runs' = runs /\ proc[p].at = "load"
      BY <1>9 DEF RunnerLoads, disk, round_dir, history, At
    <2>5. ~HalfWritten(r) => finished[r] \subseteq Prior(r)
      BY <1>1, <1>8, <2>4 DEF Prior
    <2>6. ResultsKept'
      BY <1>4, <1>8, <2>2, <2>3, <2>4, <2>5 DEF ResultsKept, At
    <2> QED BY <1>6, <2>2, <2>3, <2>6
  <1>10. CASE RunnerCannotLoad(p)
    <2>1. /\ \A q \in Procs \ {p} : proc'[q] = proc[q]
          /\ proc'[p].at = "release" /\ proc[p].at = "load" /\ UNCHANGED <<runs, finished>>
      BY <1>1, <1>10, GotoFacts, StepNames
         DEF RunnerCannotLoad, Raise, disk, round_dir, history, At
    <2> QED BY <1>5, <1>6, <2>1, ResultsFrame
  <1>11. CASE RunnerTruncates(p)
    <2>1. /\ \A q \in Procs \ {p} : proc'[q] = proc[q]
          /\ proc'[p].at = "rewrite" /\ proc'[p].round = r /\ proc[p].at = "run"
      BY <1>1, <1>11, GotoFacts, StepNames DEF RunnerTruncates, At
    <2>2. proc'[p].results = proc[p].results
      BY <1>1, <1>11 DEF RunnerTruncates, Goto, TypeOK, Process
    <2>3. finished' = finished /\ \A q \in Rounds : q # r => runs'[q] = runs[q]
      BY <1>1, <1>7, <1>11 DEF RunnerTruncates, history
    <2>4. ResultsKept'
      BY <1>4, <1>8, <2>1, <2>2, <2>3 DEF ResultsKept, At
    <2> QED BY <1>6, <2>1, <2>4
  <1>12. CASE RunnerRewrites(p)
    <2>1. /\ \A q \in Procs \ {p} : proc'[q] = proc[q]
          /\ proc'[p].at = "finalize" /\ proc[p].at = "rewrite"
      BY <1>1, <1>12, GotoFacts, StepNames DEF RunnerRewrites, At
    <2>2. /\ finished' = finished /\ \A q \in Rounds : q # r => runs'[q] = runs[q]
          /\ runs'[r] = proc[p].results
      BY <1>1, <1>7, <1>12 DEF RunnerRewrites, history
    <2>3. \A q \in Rounds : ~HalfWritten(q) => \A t \in finished'[q] : runs'[q][t] = "ok"
      BY <1>8, <2>1, <2>2
    <2>4. ResultsKept'
      BY <1>4, <1>8, <2>1, <2>2, <2>3 DEF ResultsKept, At
    <2> QED BY <1>6, <2>1, <2>4
  <1>13. ASSUME NEW t \in Tasks, TaskLearns(p, t)
         PROVE  Recorded' /\ ResultsKept'
    <2>1. proc' = proc /\ UNCHANGED <<runs, finished>> /\ proc[p].at = "run"
      BY <1>13 DEF TaskLearns, history, At
    <2>2. ResultsKept'
      BY <1>5, <2>1 DEF ResultsKept, HalfWritten, At
    <2> QED BY <1>6, <2>1, <2>2
  <1>14. ASSUME NEW t \in Tasks, NEW status \in {"ok", "error"}, TaskEnds(p, t, status)
         PROVE  Recorded' /\ ResultsKept'
    <2> DEFINE m == [proc[p] EXCEPT !.results = [@ EXCEPT ![t] = status], !.pending = @ \ {t}]
    <2>1. proc' = [proc EXCEPT ![p] = m]
      BY <1>1, <1>14 DEF TaskEnds, TypeOK, Process
    <2>2. /\ m \in Process /\ m.at = proc[p].at /\ m.round = r
          /\ m.pending = proc[p].pending \ {t} /\ m.results[t] = status
          /\ \A u \in Tasks : u # t => m.results[u] = proc[p].results[u]
      BY <1>1 DEF Process, Statuses
    <2> HIDE DEF m
    <2>3. proc'[p] = m /\ \A q \in Procs \ {p} : proc'[q] = proc[q]
      BY <1>1, <2>1, <2>2, UpdateFacts
    <2>4. proc[p].at = "run" /\ t \in proc[p].pending /\ t \in RoundTasks[r]
      BY <1>14 DEF TaskEnds, At, CampaignInv, ProcInv
    <2>5. /\ runs'[r][t] = status /\ \A u \in Tasks : u # t => runs'[r][u] = runs[r][u]
          /\ \A q \in Rounds : q # r => runs'[q] = runs[q]
      BY <1>1, <1>7, <1>14 DEF TaskEnds
    <2>6. /\ \A q \in Rounds : q # r => finished'[q] = finished[q]
          /\ finished'[r] \subseteq Tasks
          /\ \/ finished'[r] = finished[r]
             \/ status = "ok" /\ finished'[r] = finished[r] \cup {t}
      BY <1>1, <1>7, <1>14 DEF TaskEnds
    <2>7. ~HalfWritten(r) =>
            \A u \in finished'[r] : \/ u \in finished[r] /\ u # t
                                    \/ u = t /\ status = "ok"
      BY <1>8, <2>4, <2>6
    <2>8. ~HalfWritten(r) =>
            \A u \in finished'[r] : /\ runs'[r][u] = "ok"
                                    /\ m.results[u] = "ok" /\ u \notin m.pending
      BY <1>1, <1>8, <2>2, <2>4, <2>5, <2>6, <2>7
    <2>9. \A q \in Rounds : \A u \in finished'[q] :
             u \in RoundTasks[q] /\ (HalfWritten(q) \/ runs'[q][u] = "ok")
      <3>1. ASSUME NEW q \in Rounds, NEW u \in finished'[q] PROVE u \in RoundTasks[q]
        BY <1>8, <2>4, <2>6, <3>1
      <3>2. ASSUME NEW q \in Rounds, NEW u \in finished'[q], ~HalfWritten(q)
            PROVE  runs'[q][u] = "ok"
        <4>1. CASE q = r
          BY <2>8, <3>2, <4>1
        <4>2. CASE q # r
          BY <1>8, <2>5, <2>6, <3>2, <4>2
        <4> QED BY <4>1, <4>2
      <3> QED BY <3>1, <3>2
    <2>10. ResultsKept'
      <3>1. \A q \in Procs : proc'[q].at \in {"run", "rewrite"} => q = p /\ proc'[q].at = "run"
        BY <1>4, <2>2, <2>3, <2>4
      <3>2. \A q \in Rounds : \A u \in finished'[q] :
               u \in RoundTasks[q] /\ (HalfWritten(q)' \/ runs'[q][u] = "ok")
        BY <1>8, <2>9
      <3>3. ASSUME NEW q \in Procs, proc'[q].at \in {"run", "rewrite"},
                   ~HalfWritten(proc[q].round)'
            PROVE  /\ \A u \in finished'[proc'[q].round] : proc'[q].results[u] = "ok"
                   /\ proc'[q].pending \cap finished'[proc'[q].round] = {}
        <4>1. q = p /\ proc'[q] = m /\ proc'[q].round = r
          BY <2>2, <2>3, <3>1, <3>3
        <4>2. ~HalfWritten(r)
          BY <1>5, <3>3, <4>1 DEF HalfWritten
        <4> QED BY <2>8, <4>1, <4>2
      <3> QED BY <3>1, <3>2, <3>3 DEF ResultsKept, At
    <2> QED BY <1>6, <2>2, <2>3, <2>4, <2>10
  <1> QED BY <1>9, <1>10, <1>11, <1>12, <1>13, <1>14 DEF Runner

\* finalize_round: a generation that is published is committed next.
LEMMA FinalizeUndisturbed ==
  ASSUME CampaignInv, OneWriter, Recorded, ResultsKept, NEW p \in Procs, FinalizeRound(p)
  PROVE  Recorded' /\ ResultsKept'
  <1> DEFINE r == proc[p].round
  <1>1. TypeOK /\ proc[p] \in Process /\ r \in Rounds
    BY DEF CampaignInv, TypeOK, Process
  <1>2. proc[p].at \in {"finalize", "publish", "mark", "read", "commit"}
    BY DEF FinalizeRound, FinalizeReturns, FinalizeStages, FinalizeMergeFails,
       FinalizePublishes, FinalizePreempted, FinalizeMarks, FinalizeReads,
       FinalizeUnregistered, FinalizeCommits, At
  <1>3. \A q \in Procs \ {p} : proc[q].at \notin Reading \cup Committing
    BY <1>2, AloneInside DEF Body
  <1>4. /\ \A q \in Procs \ {p} : proc'[q] = proc[q]
        /\ proc'[p].at \in {"release", "publish", "mark", "read", "commit"}
        /\ proc'[p].round = r
    <2>1. CASE FinalizeStages(p) \/ FinalizeReads(p)
      BY <1>1, <2>1 DEF FinalizeStages, FinalizeReads, TypeOK, Process
    <2>2. CASE ~(FinalizeStages(p) \/ FinalizeReads(p))
      <3>1. PICK s \in {"release", "mark", "read"} : Goto(p, s)
        BY <2>2 DEF FinalizeRound, FinalizeReturns, FinalizeMergeFails, FinalizePublishes,
           FinalizePreempted, FinalizeMarks, FinalizeUnregistered, FinalizeCommits, Raise
      <3> QED BY <1>1, <3>1, GotoFacts, StepNames
    <2> QED BY <2>1, <2>2
  <1>5. UNCHANGED <<runs, finished, stopped>>
    BY DEF FinalizeRound, FinalizeReturns, FinalizeStages, FinalizeMergeFails,
       FinalizePublishes, FinalizePreempted, FinalizeMarks, FinalizeReads,
       FinalizeUnregistered, FinalizeCommits, disk, round_dir, history
  <1>6. ResultsKept'
    BY <1>2, <1>4, <1>5, ResultsFrame
  <1>7. proc[p].at \in InRound
    BY <1>2 DEF InRound
  <1>8. /\ campaign # None /\ campaign \in Metadata /\ rounds[r] # "none"
        /\ campaign.current \in Int
        /\ \A q : HalfCommitted(q)' <=> HalfCommitted(q)
    BY <1>5, <1>7, ParentPublished DEF HalfCommitted
  \* Every round is registered and every generation but p's own is committed, or was
  \* interrupted.
  <1>9. \A q \in Rounds : rounds[q] # "none" /\ ~HalfCommitted(q) => campaign.rounds[q] # "none"
    BY <1>2, <1>3 DEF Recorded, At, Reading
  <1>10. \A q \in Rounds : generations[q] # None /\ ~HalfCommitted(q) =>
            \/ campaign.current >= q
            \/ proc[p].at \in Committing /\ q = r
    <2>1. ASSUME NEW q \in Rounds, generations[q] # None, ~HalfCommitted(q)
          PROVE  \/ campaign.current >= q
                 \/ \E o \in Procs : proc[o].at \in Committing /\ proc[o].round = q
      BY <2>1 DEF Recorded
    <2> QED BY <1>3, <2>1
  <1>11. \A q \in returned : campaign.current >= q \/ HalfCommitted(q)
    BY DEF Recorded
  <1>12. CASE FinalizeReturns(p)
    <2>1. /\ returned' = returned \cup {r} /\ UNCHANGED LineageFiles /\ generations[r] # None
          /\ proc[p].at = "finalize" /\ proc'[p].at = "release"
      BY <1>1, <1>12, GotoFacts, StepNames DEF FinalizeReturns, disk, round_dir, LineageFiles, At
    <2>2. \A q \in returned' : campaign.current >= q \/ HalfCommitted(q)
      BY <1>1, <1>10, <1>11, <2>1 DEF Committing
    <2>3. \A q \in Procs : proc'[q].at \notin Reading
      BY <1>3, <1>4, <2>1 DEF Reading
    <2>4. \A q \in Rounds : generations[q] # None => campaign.current >= q \/ HalfCommitted(q)
      BY <1>10, <2>1 DEF Committing
    <2> QED BY <1>6, <1>8, <1>9, <2>1, <2>2, <2>3, <2>4 DEF Recorded, LineageFiles
  <1>13. CASE FinalizeStages(p) \/ FinalizeMergeFails(p) \/ FinalizePreempted(p)
    <2>1. /\ UNCHANGED LineageFiles /\ UNCHANGED <<returned, stopped>>
          /\ proc[p].at \in {"finalize", "publish"}
      BY <1>13 DEF FinalizeStages, FinalizeMergeFails, FinalizePreempted, disk, round_dir,
         LineageFiles, history, At
    <2>2. proc'[p].at \in {"publish", "release"}
      BY <1>1, <1>13, GotoFacts, StepNames
         DEF FinalizeStages, FinalizeMergeFails, FinalizePreempted, Raise, TypeOK, Process
    <2> QED BY <1>4, <1>6, <2>1, <2>2, RecordedFrame DEF Committing, Reading
  <1>14. CASE FinalizePublishes(p)
    <2>1. /\ generations' = [generations EXCEPT ![r] = proc[p].staged]
          /\ UNCHANGED <<campaign, rounds, returned>>
          /\ proc[p].at = "publish" /\ proc'[p].at = "mark"
      BY <1>1, <1>14, GotoFacts, StepNames DEF FinalizePublishes, round_dir, history, At
    <2>2. \A q \in Rounds : generations'[q] # None /\ ~HalfCommitted(q) =>
             campaign.current >= q \/ q = r
      BY <1>1, <1>10, <2>1, RoundFacts DEF TypeOK
    <2>3. proc'[p].at \in Committing /\ \A q \in Procs : proc'[q].at \notin Reading
      BY <1>3, <1>4, <2>1 DEF Reading, Committing
    <2>4. ASSUME NEW q \in Rounds, generations'[q] # None, ~HalfCommitted(q)
          PROVE  \/ campaign'.current >= q
                 \/ \E o \in Procs : proc'[o].at \in Committing /\ proc'[o].round = q
      BY <1>4, <2>1, <2>2, <2>3, <2>4
    <2> QED BY <1>6, <1>8, <1>9, <1>11, <2>1, <2>3, <2>4 DEF Recorded
  <1>15. CASE FinalizeMarks(p)
    <2>1. /\ rounds' = [rounds EXCEPT ![r] = "complete"]
          /\ UNCHANGED <<campaign, generations, returned>>
          /\ proc[p].at = "mark" /\ proc'[p].at = "read"
      BY <1>1, <1>15, GotoFacts, StepNames DEF FinalizeMarks, history, At
    <2>2. \A q \in Rounds : rounds'[q] # "none" /\ ~HalfCommitted(q) =>
             campaign.rounds[q] # "none"
      BY <1>1, <1>8, <1>9, <2>1 DEF TypeOK
    <2>3. proc'[p].at \in Committing /\ \A q \in Procs : proc'[q].at \notin Reading
      BY <1>3, <1>4, <2>1 DEF Reading, Committing
    <2>4. ASSUME NEW q \in Rounds, generations'[q] # None, ~HalfCommitted(q)
          PROVE  \/ campaign'.current >= q
                 \/ \E o \in Procs : proc'[o].at \in Committing /\ proc'[o].round = q
      BY <1>4, <1>10, <2>1, <2>3, <2>4
    <2> QED BY <1>6, <1>8, <1>11, <2>1, <2>2, <2>3, <2>4 DEF Recorded
  <1>16. CASE FinalizeReads(p)
    <2>1. /\ UNCHANGED LineageFiles /\ UNCHANGED <<returned, stopped>> /\ proc[p].at = "read"
          /\ proc'[p].at = "commit" /\ proc'[p].seen = campaign
      BY <1>1, <1>16 DEF FinalizeReads, disk, round_dir, LineageFiles, history, At, TypeOK,
         Process
    <2> QED BY <1>4, <1>6, <2>1, RecordedFrame DEF Committing
  <1>17. CASE FinalizeUnregistered(p)
    <2>1. /\ UNCHANGED LineageFiles /\ UNCHANGED <<returned, stopped>> /\ proc[p].at = "read"
          /\ proc'[p].at = "release" /\ campaign.rounds[r] = "none"
      BY <1>1, <1>17, GotoFacts, StepNames
         DEF FinalizeUnregistered, Raise, disk, round_dir, LineageFiles, history, At
    <2>2. HalfCommitted(r)
      BY <1>1, <1>8, <1>9, <2>1
    <2>3. \A q \in Rounds : generations[q] # None => campaign.current >= q \/ HalfCommitted(q)
      BY <1>10, <2>2
    <2>4. \A q \in Procs : proc'[q].at \notin Reading
      BY <1>3, <1>4, <2>1 DEF Reading
    <2> QED BY <1>6, <1>8, <1>9, <1>11, <2>1, <2>3, <2>4 DEF Recorded, LineageFiles
  <1>18. CASE FinalizeCommits(p)
    <2>1. /\ proc[p].at = "commit" /\ proc'[p].at = "release" /\ returned' = returned \cup {r}
          /\ UNCHANGED <<generations, rounds>>
      BY <1>1, <1>18, GotoFacts, StepNames DEF FinalizeCommits, round_dir, At
    <2>2. proc[p].seen = campaign /\ campaign.current = r - 1
      BY <2>1 DEF Recorded, Reading, CampaignInv, ProcInv
    <2>3. campaign'.current = r /\ campaign'.rounds = [campaign.rounds EXCEPT ![r] = "complete"]
      BY <1>18, <2>2 DEF FinalizeCommits
    <2>4. campaign' # None
      BY <1>18, CommitType
    <2>5. campaign.rounds \in [Rounds -> RoundStatus]
      BY <1>8 DEF Metadata
    <2>6. \A q \in Rounds : rounds'[q] # "none" /\ ~HalfCommitted(q) =>
             campaign'.rounds[q] # "none"
      BY <1>1, <1>9, <2>1, <2>3, <2>5
    <2>7. \A q \in Rounds : generations'[q] # None => campaign'.current >= q \/ HalfCommitted(q)
      BY <1>1, <1>10, <2>1, <2>2, <2>3, RoundFacts
    <2>8. \A q \in returned' : campaign'.current >= q \/ HalfCommitted(q)
      BY <1>1, <1>11, <2>1, <2>2, <2>3, RoundFacts DEF TypeOK
    <2>9. \A q \in Procs : proc'[q].at \notin Reading
      BY <1>3, <1>4, <2>1 DEF Reading
    <2> QED BY <1>6, <1>8, <2>4, <2>6, <2>7, <2>8, <2>9 DEF Recorded
  <1> QED BY <1>12, <1>13, <1>14, <1>15, <1>16, <1>17, <1>18 DEF FinalizeRound

\* An empty campaign directory has nothing to lose.
LEMMA InitUndisturbed ==
  Init => Undisturbed
  <1> SUFFICES ASSUME Init PROVE Undisturbed
    OBVIOUS
  <1>1. \A p \in Procs : proc[p].at = "idle"
    BY DEF Init, Idle
  <1>2. OneWriter
    BY <1>1 DEF OneWriter, Body
  <1>3. Recorded
    BY <1>1, RoundFacts DEF Init, Recorded, Reading
  <1>4. ResultsKept
    BY <1>1 DEF Init, ResultsKept, At
  <1> QED BY <1>2, <1>3, <1>4 DEF Undisturbed

\* A stop between two writes is noted with its round; any other leaves nothing half done.
LEMMA StopUndisturbed ==
  ASSUME CampaignInv, Recorded, ResultsKept, NEW p \in Procs, Crash(p) \/ Interrupt(p)
  PROVE  Recorded' /\ ResultsKept'
  <1> DEFINE r == proc[p].round
  <1>1. TypeOK /\ proc[p] \in Process /\ r \in Rounds
    BY DEF CampaignInv, TypeOK, Process
  <1>2. /\ \A q \in Procs \ {p} : proc'[q] = proc[q]
        /\ proc'[p].at \in {"idle", "done", "release"}
    <2>1. CASE Crash(p)
      BY <1>1, <2>1, ExitFacts DEF Crash
    <2>2. CASE Interrupt(p)
      BY <1>1, <2>2, GotoFacts, StepNames DEF Interrupt, Raise
    <2> QED BY <2>1, <2>2
  <1>3. UNCHANGED LineageFiles /\ UNCHANGED <<runs, finished, returned>>
    BY DEF Crash, Interrupt, disk, round_dir, LineageFiles
  <1>4. stopped' = stopped \cup (({proc[p].at} \cap Fragile) \X {r})
    BY DEF Crash, Interrupt, Stops
  <1>5. /\ \A q : HalfCommitted(q) => HalfCommitted(q)'
        /\ \A q : HalfWritten(q) => HalfWritten(q)'
    BY <1>4 DEF HalfCommitted, HalfWritten
  <1>6. ASSUME NEW q \in Rounds, q = r
        PROVE  /\ proc[p].at \in Committing \cup {"register"} => HalfCommitted(q)'
               /\ proc[p].at = "rewrite" => HalfWritten(q)'
    <2>1. proc[p].at \in Fragile => <<proc[p].at, q>> \in stopped'
      BY <1>4, <1>6
    <2> QED BY <2>1 DEF HalfCommitted, HalfWritten, Fragile, Committing
  <1>7. Recorded'
    <2>1. ASSUME NEW q \in Rounds, rounds'[q] # "none", ~HalfCommitted(q)'
          PROVE  \/ campaign' # None /\ campaign'.rounds[q] # "none"
                 \/ \E o \in Procs : proc'[o].at = "register" /\ proc'[o].round = q
      BY <1>2, <1>3, <1>5, <1>6, <2>1 DEF Recorded, LineageFiles, At
    <2>2. ASSUME NEW q \in Rounds, generations'[q] # None, ~HalfCommitted(q)'
          PROVE  \/ campaign' # None /\ campaign'.current >= q
                 \/ \E o \in Procs : proc'[o].at \in Committing /\ proc'[o].round = q
      BY <1>2, <1>3, <1>5, <1>6, <2>2 DEF Recorded, LineageFiles
    <2>3. \A q \in Procs : proc'[q].at \in Reading => proc'[q].seen = campaign'
      BY <1>2, <1>3 DEF Recorded, LineageFiles, Reading
    <2>4. \A q \in returned' :
             (campaign' # None /\ campaign'.current >= q) \/ HalfCommitted(q)'
      BY <1>3, <1>5 DEF Recorded, LineageFiles
    <2> QED BY <2>1, <2>2, <2>3, <2>4 DEF Recorded, At
  <1>8. ResultsKept'
    BY <1>2, <1>3, <1>5, <1>6 DEF ResultsKept, At
  <1> QED BY <1>7, <1>8

\* Every step keeps what one writer keeps.
LEMMA NextUndisturbed ==
  ASSUME CampaignInv, Undisturbed, [Next]_vars
  PROVE  Undisturbed'
  <1>1. CASE UNCHANGED vars
    <2>1. /\ UNCHANGED <<campaign, generations, rounds, runs, proc, finished, returned>>
          /\ UNCHANGED <<overlapped, stopped>>
      BY <1>1 DEF vars, disk, round_dir, history
    <2>2. /\ \A q : HalfCommitted(q)' <=> HalfCommitted(q)
          /\ \A q : HalfWritten(q)' <=> HalfWritten(q)
      BY <2>1 DEF HalfCommitted, HalfWritten
    <2> QED BY <2>1, <2>2 DEF Undisturbed, OneWriter, Recorded, ResultsKept, At
  <1>2. ASSUME NEW p \in Procs, Invoke(p) \/ Invocation(p) \/ Crash(p) \/ Interrupt(p)
        PROVE  Undisturbed'
    <2>1. SUFFICES ASSUME ~overlapped' PROVE OneWriter' /\ Recorded' /\ ResultsKept'
      BY DEF Undisturbed
    <2>2. ~overlapped /\ OneWriter'
      BY <1>2, <2>1, OneWriterStays DEF Undisturbed
    <2>3. OneWriter /\ Recorded /\ ResultsKept
      BY <2>2 DEF Undisturbed
    <2>4. CASE Crash(p) \/ Interrupt(p)
      BY <2>2, <2>3, <2>4, StopUndisturbed
    <2>5. CASE Invoke(p) \/ Invocation(p)
      BY <2>2, <2>3, <2>5, LockUndisturbed, InitializeUndisturbed, PrepareUndisturbed,
         RunnerUndisturbed, FinalizeUndisturbed DEF Invocation, PrepareRound
    <2> QED BY <1>2, <2>4, <2>5
  <1> QED BY <1>1, <1>2 DEF Next

\* Until two writers overlap, an invocation leaves no half of a step behind but what
\* stopped names: every round and generation on disk is in campaign.json, every final
\* result in runs.jsonl, and what was read of campaign.json is what it still says.
THEOREM CampaignIsUndisturbed == Spec => []Undisturbed
  <1>1. Init => Undisturbed
    BY InitUndisturbed
  <1>2. CampaignInv /\ Undisturbed /\ [Next]_vars => Undisturbed'
    BY NextUndisturbed
  <1> QED BY <1>1, <1>2, CampaignCorrect, PTL DEF Spec

\* When finalize_round has returned, campaign.json has moved on to its generation,
\* unless two writers have overlapped or one was stopped while it registered or
\* committed that round.
THEOREM ReturnedRoundsAreCommitted == Spec => []CommittedUnlessStopped
  <1>1. CampaignInv /\ Undisturbed => CommittedUnlessStopped
    BY DEF CampaignInv, TypeOK, Undisturbed, Recorded, CommittedUnlessStopped
  <1> QED BY <1>1, CampaignCorrect, CampaignIsUndisturbed, PTL

\* A resumed round does not run a task again that had a final result, unless two
\* writers have overlapped or one was stopped while it rewrote runs.jsonl.
THEOREM FinalResultsAreNotRerun == Spec => []RetriesErrorsOnly
  <1>1. Undisturbed => RetriesErrorsOnly
    BY DEF Undisturbed, ResultsKept, RetriesErrorsOnly
  <1> QED BY <1>1, CampaignIsUndisturbed, PTL
----------------------------------------------------------------------------
(* The refinement.                                                         *)

\* The state of Lineage that the campaign stands for.
Current == IF campaign = None THEN -1 ELSE campaign.current
Refines == [L!Next]_<<generations, Current, overlapped>>

\* Steps that keep the generations and the current one are stutters of Lineage, or
\* note an overlap.
LEMMA Stutter ==
  ASSUME UNCHANGED <<campaign, generations>>,
         overlapped' = overlapped \/ overlapped' = TRUE
  PROVE  Refines
  BY DEF Refines, Current, L!Next, L!Overlap

\* campaign.json becomes one that was on disk before, or is next in line.
LEMMA Replaced ==
  ASSUME CampaignInv, Undisturbed, campaign # None, campaign' \in Metadata, campaign' # None,
         Known(campaign)', UNCHANGED <<generations, overlapped>>,
         ~overlapped => campaign'.current \in {campaign.current, campaign.current + 1}
  PROVE  Refines
  <1>1. campaign \in Metadata /\ campaign.current \in Int /\ campaign'.current \in 0..MaxRound
    BY DEF CampaignInv, TypeOK, Metadata, Generations
  <1>2. \A g \in 0..campaign'.current : generations[g] # None
    BY DEF Known
  <1>3. Current = campaign.current /\ Current' = campaign'.current
    BY DEF Current
  <1>4. CASE overlapped
    BY <1>1, <1>2, <1>3, <1>4 DEF Refines, L!Next, L!Misplace, Current
  <1>5. CASE ~overlapped /\ campaign'.current = campaign.current
    BY <1>3, <1>5 DEF Refines, Current
  <1>6. CASE ~overlapped /\ campaign'.current = campaign.current + 1
    <2>1. campaign.current < MaxRound /\ generations[campaign.current + 1] # None
      BY <1>1, <1>2, <1>6, CampaignAssumption
    <2>2. L!Commit
      BY <1>3, <1>6, <2>1 DEF L!Commit, Current
    <2> QED BY <2>2 DEF Refines, L!Next, Current
  <1> QED BY <1>4, <1>5, <1>6

\* Each step is a step of Lineage or leaves it alone.
LEMMA NextRefines ==
  ASSUME CampaignInv, Undisturbed, [Next]_vars
  PROVE  Refines
  <1>1. CASE UNCHANGED vars
    BY <1>1, Stutter DEF vars, disk, history
  <1>2. ASSUME NEW p \in Procs, Invoke(p) \/ Invocation(p) \/ Crash(p) \/ Interrupt(p)
        PROVE  Refines
    <2> DEFINE r == proc[p].round
    <2>1. CASE LockWritten(p)
      <3>1. PICK b \in BOOLEAN : b = \E q \in Procs : proc[q].at \in Body
        OBVIOUS
      <3>2. overlapped' = (overlapped \/ b) /\ UNCHANGED <<campaign, generations>>
        BY <2>1, <3>1 DEF LockWritten
      <3>3. overlapped' = overlapped \/ overlapped' = TRUE
        BY <3>2 DEF CampaignInv, TypeOK
      <3> QED BY <3>2, <3>3, Stutter
    <2>2. CASE \/ Invoke(p) \/ (WriterLock(p) /\ ~LockWritten(p)) \/ Crash(p) \/ Interrupt(p)
      BY <2>2, Stutter DEF Invoke, WriterLock, LockCreates, LockExists, LockRefused,
         LockStale, LockUnlinks, LockLost, Release, Crash, Interrupt, Stops, disk, history
    <2>3. CASE \/ InitializeReads(p) \/ InitializeStuck(p) \/ PrepareRefused(p)
               \/ PrepareResumes(p) \/ PrepareAccepts(p) \/ PrepareCreates(p)
      BY <2>3, Stutter DEF InitializeReads, InitializeStuck, PrepareRefused, PrepareResumes,
         PrepareAccepts, PrepareCreates, disk, history
    <2>4. CASE Runner(p)
      BY <2>4, Stutter DEF Runner, RunnerLoads, RunnerCannotLoad, TaskLearns, TaskEnds,
         RunnerTruncates, RunnerRewrites, disk, history
    <2>5. CASE \/ FinalizeReturns(p) \/ FinalizeStages(p) \/ FinalizeMergeFails(p)
               \/ FinalizePreempted(p) \/ FinalizeMarks(p) \/ FinalizeReads(p)
               \/ FinalizeUnregistered(p)
      BY <2>5, Stutter DEF FinalizeReturns, FinalizeStages, FinalizeMergeFails,
         FinalizePreempted, FinalizeMarks, FinalizeReads, FinalizeUnregistered, disk, history
    <2>6. CASE InitializePublishes(p)
      BY <2>6 DEF InitializePublishes, Refines, Current, L!Next, L!PublishFirst, history
    <2>7. CASE InitializeWrites(p)
      <3>1. campaign = None /\ generations[0] # None
        BY <2>7 DEF InitializeWrites, CampaignInv, ProcInv
      <3>2. /\ campaign' = NewCampaign /\ NewCampaign.current = 0
            /\ UNCHANGED <<generations, overlapped>>
        BY <2>7 DEF InitializeWrites, NewCampaign, history
      <3>3. Current = -1 /\ Current' = 0
        BY <3>1, <3>2, NewCampaignType DEF Current
      <3>4. L!Commit
        BY <3>1, <3>2, <3>3, CampaignAssumption DEF L!Commit, Current
      <3> QED BY <3>4 DEF Refines, L!Next
    <2>8. CASE PrepareRegisters(p)
      <3>1. /\ proc[p].at \in Reading /\ proc[p].at \in InRound /\ r \in Rounds
            /\ Known(proc[p].seen) /\ proc[p].seen \in Metadata /\ campaign # None
        BY <2>8 DEF PrepareRegisters, CampaignInv, ProcInv, Known, TypeOK, Process, At,
           Reading, InRound
      <3>2. /\ campaign' \in Metadata /\ campaign'.current = proc[p].seen.current
            /\ UNCHANGED <<generations, overlapped>>
        BY <2>8, <3>1 DEF PrepareRegisters, Metadata, RoundStatus, history
      <3>3. ~overlapped => proc[p].seen = campaign
        BY <3>1 DEF Undisturbed, Recorded
      <3>4. campaign' # None /\ Known(campaign)'
        BY <2>8, <3>2, PrepareRegistersInv, CampaignAssumption DEF CampaignInv, DiskInv
      <3> QED BY <3>1, <3>2, <3>3, <3>4, Replaced
    <2>9. CASE FinalizePublishes(p)
      <3>1. proc[p].at \in InRound /\ proc[p].at = "publish"
        BY <2>9 DEF FinalizePublishes, At, InRound
      <3>2. r \in 1..MaxRound /\ generations[r - 1] # None /\ generations[r] = None
        BY <2>9, <3>1, ParentPublished DEF FinalizePublishes, Rounds
      <3>3. PICK learned \in SUBSET ({r} \X RoundTasks[r]) :
               proc[p].staged = generations[r - 1] \cup learned
        BY <3>1 DEF CampaignInv, ProcInv, At
      <3>4. generations' = [generations EXCEPT ![r] = generations[r - 1] \cup learned]
            /\ UNCHANGED <<campaign, overlapped>>
        BY <2>9, <3>3 DEF FinalizePublishes, history
      <3>5. L!Publish(r)
        BY <3>2, <3>3, <3>4 DEF L!Publish, L!Lessons, Current
      <3> QED BY <3>2, <3>5 DEF Refines, L!Next
    <2>10. CASE FinalizeCommits(p)
      <3>1. /\ proc[p].at \in Reading /\ proc[p].at \in InRound /\ r \in Rounds
            /\ proc[p].seen.current = r - 1 /\ campaign # None
        BY <2>10 DEF FinalizeCommits, CampaignInv, ProcInv, TypeOK, Process, At, Reading,
           InRound
      <3>2. campaign'.current = r /\ UNCHANGED <<generations, overlapped>>
        BY <2>10 DEF FinalizeCommits
      <3>3. ~overlapped => campaign'.current = campaign.current + 1
        BY <3>1, <3>2, RoundFacts DEF Undisturbed, Recorded
      <3>4. campaign' \in Metadata /\ campaign' # None /\ Known(campaign)'
        BY <2>10, CommitType, FinalizeCommitsInv DEF CampaignInv, DiskInv
      <3> QED BY <3>1, <3>2, <3>3, <3>4, Replaced
    <2> QED BY <1>2, <2>1, <2>2, <2>3, <2>4, <2>5, <2>6, <2>7, <2>8, <2>9, <2>10
            DEF Invocation, PrepareRound, FinalizeRound
  <1> QED BY <1>1, <1>2 DEF Next

\* The campaign implements Lineage: published generations never change, each holds
\* its parent and lessons of its own round, and campaign.json follows one by one, or,
\* once two writers have overlapped, is set to a generation whose parents are all
\* published.
THEOREM CampaignRefinesLineage == Spec => LineageSpec
  <1>1. Init => L!Init
    BY DEF Init, L!Init, Generations
  <1>2. CampaignInv /\ Undisturbed /\ [Next]_vars
          => [L!Next]_<<generations, IF campaign = None THEN -1 ELSE campaign.current, overlapped>>
    BY NextRefines DEF Refines, Current
  <1> QED BY <1>1, <1>2, CampaignCorrect, CampaignIsUndisturbed, PTL
          DEF Spec, LineageSpec, L!Spec

\* campaign.json never goes back, as long as no two writers have overlapped.
THEOREM NeverBackAlone == Spec => [][~overlapped' /\ campaign # None =>
                                      campaign' # None /\ campaign'.current >= campaign.current]_campaign
  <1>1. ASSUME CampaignInv, CampaignInv', [L!Next]_<<generations, Current, overlapped>>,
               ~overlapped', campaign # None
        PROVE  campaign' # None /\ campaign'.current >= campaign.current
    <2>1. campaign.current \in 0..MaxRound
      BY <1>1 DEF CampaignInv, TypeOK, Metadata, Generations
    <2>2. Current = campaign.current
      BY <1>1 DEF Current
    <2>3. CASE UNCHANGED <<generations, Current, overlapped>>
      <3>1. Current' = campaign.current
        BY <2>2, <2>3
      <3> QED BY <2>1, <3>1 DEF Current
    <2>4. CASE L!Next
      <3>1. Current' >= Current
        BY <1>1, <2>1, <2>2, <2>4
           DEF L!Next, L!PublishFirst, L!Commit, L!Overlap, L!Misplace, L!Publish, Current
      <3> QED BY <2>1, <2>2, <3>1 DEF Current
    <2> QED BY <1>1, <2>3, <2>4
  <1>2. CampaignInv /\ Undisturbed /\ [Next]_vars /\ CampaignInv' =>
          [~overlapped' /\ campaign # None =>
             campaign' # None /\ campaign'.current >= campaign.current]_campaign
    BY <1>1, NextRefines DEF Refines
  <1> QED BY <1>2, CampaignCorrect, CampaignIsUndisturbed, PTL DEF Spec

\* One process, however often it is invoked and stopped, never overlaps with itself.
THEOREM OneProcessIsEnough ==
  ASSUME \A p, q \in Procs : p = q
  PROVE  Spec => []~overlapped
  <1>1. Init => ~overlapped
    BY DEF Init
  <1>2. CampaignInv /\ ~overlapped /\ [Next]_vars => ~overlapped'
    <2> SUFFICES ASSUME CampaignInv, ~overlapped, [Next]_vars PROVE ~overlapped'
      OBVIOUS
    <2>1. ASSUME NEW p \in Procs, LockWritten(p) PROVE ~overlapped'
      <3>1. \A q \in Procs : proc[q].at = "write_pid"
        BY <2>1 DEF LockWritten, At
      <3> QED BY <2>1, <3>1 DEF LockWritten, Body
    <2>2. ASSUME NEW p \in Procs, Invoke(p) \/ Invocation(p) \/ Crash(p) \/ Interrupt(p),
                 ~LockWritten(p)
          PROVE  ~overlapped'
      BY <2>2 DEF Invoke, Crash, Interrupt, Stops, Invocation, WriterLock, LockCreates,
         LockExists, LockRefused, LockStale, LockUnlinks, LockLost, Release, PrepareRound,
         InitializeReads, InitializePublishes, InitializeStuck, InitializeWrites,
         PrepareRefused, PrepareResumes, PrepareAccepts, PrepareCreates, PrepareRegisters,
         Runner, RunnerLoads, RunnerCannotLoad, RunnerTruncates, RunnerRewrites, TaskLearns,
         TaskEnds, FinalizeRound, FinalizeReturns, FinalizeStages, FinalizeMergeFails,
         FinalizePublishes, FinalizePreempted, FinalizeMarks, FinalizeReads,
         FinalizeUnregistered, FinalizeCommits, history
    <2>3. CASE UNCHANGED vars
      BY <2>3 DEF vars, history
    <2> QED BY <2>1, <2>2, <2>3 DEF Next
  <1> QED BY <1>1, <1>2, CampaignCorrect, PTL DEF Spec
=============================================================================
