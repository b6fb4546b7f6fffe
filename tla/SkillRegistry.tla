--------------------------- MODULE SkillRegistry ---------------------------
(***************************************************************************)
(* The capability registry (capability/registry.py): one skill, whose      *)
(* current package, backup and usage memory are directories and files and  *)
(* whose row, ledger and statistics are in SQLite.  Learning processes     *)
(* create and update it, an operator enables and disables it, an agent     *)
(* loads it and runs its script (tools/registry.py,                        *)
(* capability/execution.py), finished runs append lessons to its memory.   *)
(*                                                                         *)
(* A version of the package is named by the operation key that installs    *)
(* it: the candidate is fixed once the decision is recorded, so a replay   *)
(* installs the same content.  Renames and the row transaction are atomic, *)
(* nothing makes them atomic together.                                     *)
(***************************************************************************)
EXTENDS Naturals, Sequences, FiniteSets, SequencesExt

CONSTANTS
    Writers,       \* learning processes
    Versions,      \* operation keys, and the package content each installs
    Sound,         \* the versions that pass validation
    Runs,          \* finished runs that used the skill
    MaxCrashes,    \* process deaths (bound)
    None

ASSUME RegistryAssumption ==
    /\ Sound \subseteq Versions /\ None \notin Versions
    /\ None \notin [ver : Versions, enabled : BOOLEAN] /\ None \notin Seq(Runs)
    /\ None \notin {"create", "update"} /\ None \notin {"given", "ran"} \X Versions
    /\ MaxCrashes \in Nat

VARIABLES
    row,        \* skills row: [ver, enabled], or None
    ops,        \* applied_operations
    package, previous,  \* the version in the directory, or None
    litter,     \* versions in .old-previous-* directories no process owns
    memory,     \* memory.md: the runs whose lesson it holds, or None
    writer,     \* local variables of create_skill and update_skill
    operator,   \* enable/disable: the row it read, and the value it writes
    agent,      \* local variables of the skill tools of one invocation
    crashes,
    again,      \* an operation was applied a second time (history)
    disabled,   \* the operator's last word was disable (history)
    raced,      \* writers overlapped, or the operator wrote a row it had not read (history)
    last        \* what the agent was given to read, or ran, last (history)

files == <<package, previous, litter, memory>>
history == <<again, disabled, raced, last>>
vars == <<row, ops, files, writer, operator, agent, crashes, history>>

Idle == [pc |-> "idle", kind |-> None, ver |-> None, enabled |-> TRUE,
         fresh |-> FALSE, moved |-> FALSE, stash |-> None]

NoAgent == [pc |-> "idle", row |-> None, loaded |-> FALSE]

Init ==
    /\ row = None /\ ops = {} /\ package = None /\ previous = None
    /\ litter = {} /\ memory = None
    /\ writer = [w \in Writers |-> Idle]
    /\ operator = None /\ agent = NoAgent /\ crashes = 0
    /\ again = FALSE /\ disabled = FALSE /\ raced = FALSE /\ last = None

At(w, pc) == writer[w].pc = pc
Go(w, pc) == writer' = [writer EXCEPT ![w].pc = pc]
Return(w) == writer' = [writer EXCEPT ![w] = Idle]

\* mutant: the ledger is not consulted
StagesAgain(w, kind, v) ==
    /\ At(w, "idle")
    /\ (kind = "create") = (row = None)
    /\ writer' = [writer EXCEPT ![w] =
           [Idle EXCEPT !.pc = "validate", !.kind = kind, !.ver = v,
                        !.enabled = IF kind = "create" THEN TRUE ELSE row.enabled]]
    /\ raced' = (raced \/ \E u \in Writers \ {w} : ~At(u, "idle"))
    /\ UNCHANGED <<row, ops, files, operator, agent, crashes, again, disabled, last>>

(***************************************************************************)
(* create_skill and update_skill                                           *)
(***************************************************************************)
\* A recorded operation returns the existing skill; a create of a known skill
\* and an update of an unknown one are refused; otherwise the candidate is
\* written to a staging directory, for an update with the flag the row has now.
Stages(w, kind, v) ==
    /\ At(w, "idle") /\ v \notin ops
    /\ (kind = "create") = (row = None)
    /\ writer' = [writer EXCEPT ![w] =
           [Idle EXCEPT !.pc = "validate", !.kind = kind, !.ver = v,
                        !.enabled = IF kind = "create" THEN TRUE ELSE row.enabled]]
    /\ raced' = (raced \/ \E u \in Writers \ {w} : ~At(u, "idle"))
    /\ UNCHANGED <<row, ops, files, operator, agent, crashes, again, disabled, last>>

\* mutant: what validation says is not looked at
ValidatesNothing(w) ==
    LET me == writer[w]
    IN  /\ At(w, "validate")
        /\ IF (me.kind = "create") # (package = None) THEN Return(w) /\ UNCHANGED memory
           ELSE IF me.kind = "create"
           THEN /\ writer' = [writer EXCEPT ![w] = [@ EXCEPT !.pc = "place", !.fresh = memory = None]]
                /\ memory' = IF memory = None THEN <<>> ELSE memory
           ELSE Go(w, "stash") /\ UNCHANGED memory
        /\ UNCHANGED <<row, ops, package, previous, litter, operator, agent, crashes, history>>

\* A candidate that fails validation is deleted.  A create needs a free package
\* directory and makes the memory file; an update needs the current package.
Validates(w) ==
    LET me == writer[w]
        passes == me.ver \in Sound /\ (me.kind = "create") = (package = None)
    IN  /\ At(w, "validate")
        /\ IF ~passes THEN Return(w) /\ UNCHANGED memory
           ELSE IF me.kind = "create"
           THEN /\ writer' = [writer EXCEPT ![w] = [@ EXCEPT !.pc = "place", !.fresh = memory = None]]
                /\ memory' = IF memory = None THEN <<>> ELSE memory
           ELSE Go(w, "stash") /\ UNCHANGED memory
        /\ UNCHANGED <<row, ops, package, previous, litter, operator, agent, crashes, history>>

\* mutant: the older backup is deleted at once
DropsPrevious(w) ==
    /\ At(w, "stash")
    /\ Go(w, "move")
    /\ previous' = None
    /\ UNCHANGED <<row, ops, package, litter, memory, operator, agent, crashes, history>>

\* previous/ is set aside under a name of its own.
SetsPreviousAside(w) ==
    /\ At(w, "stash")
    /\ writer' = [writer EXCEPT ![w] = [@ EXCEPT !.pc = "move", !.stash = previous]]
    /\ previous' = None
    /\ UNCHANGED <<row, ops, package, litter, memory, operator, agent, crashes, history>>

\* package/ becomes previous/.
MovesCurrent(w) ==
    /\ At(w, "move") /\ package # None /\ previous = None
    /\ previous' = package /\ package' = None
    /\ writer' = [writer EXCEPT ![w] = [@ EXCEPT !.pc = "place", !.moved = TRUE]]
    /\ UNCHANGED <<row, ops, litter, memory, operator, agent, crashes, history>>

\* mutant: an update starts a new skill directory
PlacesAfresh(w) ==
    /\ At(w, "place") /\ package = None
    /\ package' = writer[w].ver /\ memory' = <<>>
    /\ Go(w, "rows")
    /\ UNCHANGED <<row, ops, previous, litter, operator, agent, crashes, history>>

\* The staging directory becomes package/.
Places(w) ==
    /\ At(w, "place") /\ package = None
    /\ package' = writer[w].ver
    /\ Go(w, "rows")
    /\ UNCHANGED <<row, ops, previous, litter, memory, operator, agent, crashes, history>>

\* Row, search text, statistics and ledger entry in one transaction; then the
\* backup that was set aside is deleted.
Commits(w) ==
    LET me == writer[w]
    IN  /\ At(w, "rows")
        /\ row' = [ver |-> me.ver, enabled |-> me.enabled]
        /\ ops' = ops \cup {me.ver}
        /\ again' = (again \/ me.ver \in ops)
        /\ Go(w, "clean")
        /\ UNCHANGED <<files, operator, agent, crashes, disabled, raced, last>>

Cleans(w) ==
    /\ At(w, "clean")
    /\ Return(w)
    /\ UNCHANGED <<row, ops, files, operator, agent, crashes, history>>

\* A rename or the transaction fails: another process was there first, or the
\* system refuses.
Fails(w) ==
    /\ writer[w].pc \in {"stash", "move", "place", "rows"}
    /\ Go(w, IF writer[w].kind = "create" THEN "undoNew" ELSE "undo")
    /\ UNCHANGED <<row, ops, files, operator, agent, crashes, history>>

\* _install_new deletes what it made, and the skill's directory when that was new.
UndoesNew(w) ==
    /\ At(w, "undoNew")
    /\ package' = None
    /\ memory' = IF writer[w].fresh THEN None ELSE memory
    /\ previous' = IF writer[w].fresh THEN None ELSE previous
    /\ Return(w)
    /\ UNCHANGED <<row, ops, litter, operator, agent, crashes, history>>

\* mutant: the handler forgets to put the backup back
UndoesLosingBackup(w) ==
    LET me == writer[w]
        kept == IF me.moved THEN None ELSE package
    IN  /\ At(w, "undo")
        /\ package' = IF kept = None THEN previous ELSE kept
        /\ previous' = IF kept = None THEN None ELSE previous
        /\ Return(w)
        /\ UNCHANGED <<row, ops, litter, memory, operator, agent, crashes, history>>

\* _install_update deletes the candidate, moves the backup back, then the older
\* backup.
Undoes(w) ==
    LET me == writer[w]
        kept == IF me.moved THEN None ELSE package
        backup == IF kept = None THEN None ELSE previous
    IN  /\ At(w, "undo")
        /\ package' = IF kept = None THEN previous ELSE kept
        /\ previous' = IF backup = None THEN me.stash ELSE backup
        /\ litter' = litter \cup (IF backup # None /\ me.stash # None THEN {me.stash} ELSE {})
        /\ Return(w)
        /\ UNCHANGED <<row, ops, memory, operator, agent, crashes, history>>

\* The process dies: its directories stay.  (Nothing ever reads a staging
\* directory again: its name is unique.)
Dies(w) ==
    /\ ~At(w, "idle") /\ crashes < MaxCrashes
    /\ crashes' = crashes + 1
    /\ litter' = litter \cup (IF writer[w].stash # None THEN {writer[w].stash} ELSE {})
    /\ Return(w)
    /\ UNCHANGED <<row, ops, package, previous, memory, operator, agent, history>>

(***************************************************************************)
(* enable and disable: the row is read, then written back with the flag    *)
(***************************************************************************)
OperatorReads(b) ==
    /\ operator = None /\ row # None
    /\ operator' = [ver |-> row.ver, enabled |-> b]
    /\ UNCHANGED <<row, ops, files, writer, agent, crashes, history>>

_set_enabled ==
    /\ operator # None
    /\ row' = operator /\ operator' = None
    /\ disabled' = ~operator.enabled
    /\ raced' = (raced \/ operator.ver # row.ver)
    /\ UNCHANGED <<ops, files, writer, agent, crashes, again, last>>

(***************************************************************************)
(* The agent's tools                                                       *)
(***************************************************************************)
\* The row is read first, and only an enabled skill goes on.
load_skill ==
    /\ agent.pc = "idle" /\ row # None /\ row.enabled
    /\ agent' = [agent EXCEPT !.pc = "load", !.row = row]
    /\ UNCHANGED <<row, ops, files, writer, operator, crashes, history>>

\* mutant: the digest is not compared
ReadsAnyPackage ==
    /\ agent.pc = "load"
    /\ LET hit == package # None
       IN  /\ last' = IF hit THEN <<"given", package>> ELSE None
           /\ agent' = [NoAgent EXCEPT !.loaded = agent.loaded \/ hit]
    /\ UNCHANGED <<row, ops, files, writer, operator, crashes, again, disabled, raced>>

\* SKILL.md, or a resource, is given out when its digest is the manifest's.
ReadsPackage ==
    /\ agent.pc = "load"
    /\ LET hit == package = agent.row.ver
       IN  /\ last' = IF hit THEN <<"given", package>> ELSE None
           /\ agent' = [NoAgent EXCEPT !.loaded = agent.loaded \/ hit]
    /\ UNCHANGED <<row, ops, files, writer, operator, crashes, again, disabled, raced>>

\* A loaded, enabled skill's script: the file named by the row's path is run.
execute_skill ==
    /\ agent.pc = "idle" /\ agent.loaded /\ row.enabled
    /\ agent' = [agent EXCEPT !.pc = "script"]
    /\ UNCHANGED <<row, ops, files, writer, operator, crashes, history>>

\* The row is read again; the script's digest is not compared.
run_skill_script ==
    /\ agent.pc = "script"
    /\ last' = IF row.enabled /\ package # None THEN <<"ran", package>> ELSE None
    /\ agent' = [agent EXCEPT !.pc = "idle"]
    /\ UNCHANGED <<row, ops, files, writer, operator, crashes, again, disabled, raced>>

\* Under the file lock: nothing without a package, nothing for a run whose
\* marker is there.  A replayed run comes again.
append_skill_memory(r) ==
    /\ package # None /\ row # None
    /\ memory # None => r \notin Range(memory)
    /\ memory' = Append(IF memory = None THEN <<>> ELSE memory, r)
    /\ UNCHANGED <<row, ops, package, previous, litter, writer, operator, agent, crashes, history>>

Next ==
    \/ \E w \in Writers :
         \/ \E kind \in {"create", "update"}, v \in Versions : Stages(w, kind, v)
         \/ Validates(w) \/ SetsPreviousAside(w) \/ MovesCurrent(w) \/ Places(w)
         \/ Commits(w) \/ Cleans(w) \/ Fails(w) \/ UndoesNew(w) \/ Undoes(w) \/ Dies(w)
    \/ \E b \in BOOLEAN : OperatorReads(b)
    \/ _set_enabled
    \/ load_skill \/ ReadsPackage \/ execute_skill \/ run_skill_script
    \/ \E r \in Runs : append_skill_memory(r)

Spec == Init /\ [][Next]_vars

(***************************************************************************)
(* Properties                                                              *)
(***************************************************************************)
Lessons == IF memory = None THEN <<>> ELSE memory
Quiet == \A w \in Writers : At(w, "idle")

Rows == [ver : Versions, enabled : BOOLEAN]
Locals == [pc : {"idle", "validate", "stash", "move", "place", "rows", "clean", "undo", "undoNew"},
           kind : {"create", "update", None}, ver : Versions \cup {None}, enabled : BOOLEAN,
           fresh : BOOLEAN, moved : BOOLEAN, stash : Versions \cup {None}]

\* Every variable has its type.
RegistryTypeOK ==
    /\ row \in Rows \cup {None} /\ operator \in Rows \cup {None}
    /\ ops \in SUBSET Versions /\ litter \in SUBSET Versions
    /\ package \in Versions \cup {None} /\ previous \in Versions \cup {None}
    /\ memory \in Seq(Runs) \cup {None}
    /\ writer \in [Writers -> Locals]
    /\ \A w \in Writers : IF At(w, "idle") THEN writer[w] = Idle
                          ELSE writer[w].kind # None /\ writer[w].ver \in Versions
    /\ agent \in [pc : {"idle", "load", "script"}, row : Rows \cup {None}, loaded : BOOLEAN]
    /\ crashes \in 0..MaxCrashes /\ last \in ({"given", "ran"} \X Versions) \cup {None}
    /\ again \in BOOLEAN /\ disabled \in BOOLEAN /\ raced \in BOOLEAN

\* A decision that is replayed after a crash installs its version once.
InstalledOnce == ~raced => ~again

\* With no process dead and none at work, the package on disk is the one the
\* row describes, whatever validation, rename or transaction failed on the way,
\* and an updated skill has its one backup.
CleanWhenIdle ==
    Quiet /\ crashes = 0 /\ ~raced =>
        /\ row = None => package = None /\ memory = None
        /\ row # None => package = row.ver /\ litter = {}
        /\ Cardinality(ops) >= 2 => previous \in ops

\* The registered version is somewhere on disk, also when processes died between
\* two renames, or between the renames and the transaction.
NeverLost ==
    row # None /\ ~raced =>
        row.ver \in {package, previous} \cup litter \cup {writer[w].stash : w \in Writers}

\* Every row anyone holds was committed, and there is a row once anything was.
Registered ==
    /\ row # None => row.ver \in ops
    /\ row = None => ops = {} /\ operator = None
    /\ operator # None => operator.ver \in ops
    /\ agent.pc = "load" => agent.row # None /\ agent.row.ver \in ops

\* What is in the directories, or on its way there, passed validation.
Validated ==
    /\ package \in Sound \cup {None} /\ previous \in Sound \cup {None}
    /\ \A w \in Writers :
         /\ writer[w].stash \in Sound \cup {None}
         /\ writer[w].pc \in {"stash", "move", "place", "rows"} => writer[w].ver \in Sound

\* What the only process at work can rely on.
Holds(w) ==
    LET me == writer[w]
    IN  /\ me.pc # "clean" => me.ver \notin ops /\ (me.kind = "create" <=> row = None)
        /\ me.pc \in {"stash", "move", "undo"} => me.kind = "update"
        /\ me.pc = "undoNew" => me.kind = "create"
        /\ me.pc \in {"validate", "stash"} => me.stash = None
        /\ me.pc \in {"validate", "stash", "move"} => ~me.moved
        /\ me.pc \in {"stash", "move"} => package # None
        /\ me.pc = "move" => previous = None
        /\ me.pc = "place" => package = None
        /\ me.pc = "rows" => package = me.ver
        /\ me.pc \in {"place", "rows"} /\ me.kind = "update" => me.moved /\ previous # None
        /\ me.pc = "clean" => row # None /\ row.ver = package
        /\ me.pc = "undo" /\ me.moved => previous # None /\ package \in {None, me.ver}
        /\ me.pc = "undo" /\ ~me.moved => package # None /\ (previous = None \/ me.stash = None)
        /\ me.pc \in {"place", "rows", "undoNew"} /\ me.kind = "create" /\ me.fresh =>
             memory = <<>>

Alone ==
    \A w \in Writers : ~At(w, "idle") => Holds(w) /\ \A u \in Writers \ {w} : At(u, "idle")

\* x is the backup there has to be, if there has to be one.
Backed(x) == x \in ops \cup {None} /\ ((\E u \in ops : u # row.ver) => x \in ops)

Settled ==
    /\ row = None => package = None /\ previous = None /\ memory = None
    /\ row # None => package = row.ver /\ Backed(previous)

\* Where the versions are while the only process is at work and none ever died.
Placed(w) ==
    LET me == writer[w]
    IN  /\ me.pc \in {"validate", "stash", "clean"} => Settled
        /\ me.pc = "move" => package = row.ver /\ Backed(me.stash)
        /\ me.pc \in {"place", "rows"} /\ me.kind = "update" =>
             previous = row.ver /\ Backed(me.stash)
        /\ me.pc \in {"place", "rows", "undoNew"} /\ me.kind = "create" =>
             me.fresh /\ previous = None
        /\ me.pc = "undo" =>
             IF me.moved THEN previous = row.ver /\ Backed(me.stash)
             ELSE package = row.ver /\ Backed(IF previous = None THEN me.stash ELSE previous)

Undisturbed == litter = {} /\ (Quiet => Settled) /\ \A w \in Writers : Placed(w)

\* The registry's state is well formed; the version it registered is never lost; and
\* unless processes overlap, the one at work finds what it left.
RegistryInv ==
    /\ RegistryTypeOK /\ Registered /\ Validated /\ NeverLost /\ IsInjective(Lessons)
    /\ ~raced => ~again /\ Alone
    /\ ~raced /\ crashes = 0 => Undisturbed

\* What an agent is given to read was registered: a package that is in place
\* before its row, or after a row nobody wrote, is not given out.
GivenWasRegistered == \A v \in Versions : last = <<"given", v>> => v \in ops

\* Nothing runs that did not pass validation, not even while a package is being
\* replaced or taken back.
OnlyValidatedRuns == \A v \in Versions : last = <<"ran", v>> => v \in Sound

\* A lesson is written once and stays: updates, failed updates and restarts keep
\* the memory file, and a replayed run adds nothing.
LessonsKeptOnce == [][
    ~raced' => IsPrefix(Lessons, Lessons') /\ IsInjective(Lessons')]_vars

\* docs/skills.md: "The registry rejects a colliding new_skill slug."  A refused
\* create leaves the skill that was there first in place.
CollisionKeepsFirst ==
    Quiet /\ crashes = 0 /\ row # None => package # None

\* docs/skills.md: "Disabled skills are not retrieved or executed."
DisabledNotExecuted ==
    [][run_skill_script /\ last' # None => ~disabled]_vars
=============================================================================
