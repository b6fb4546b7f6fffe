------------------------------ MODULE Lineage ------------------------------
(***************************************************************************)
(* What a benchmark campaign promises about its generations: they are      *)
(* published whole, one after the other, each holding what its parent      *)
(* holds and what the tasks of its own round learned; a published          *)
(* generation never changes; and campaign.json moves on to the next        *)
(* generation only, and only once it is published.  When two writers have  *)
(* overlapped, campaign.json may instead be set to any generation whose    *)
(* line of parents is published, an earlier one included.                  *)
(***************************************************************************)
EXTENDS Integers

CONSTANTS
    MaxRound,     \* bound on the rounds of the campaign
    RoundTasks,   \* the tasks of each round
    None          \* a generation that is not published

VARIABLES
    generations,  \* what each generation holds
    current,      \* the campaign's current generation, -1 before the first
    overlapped    \* whether two writers have been at work at once

\* What a round's tasks can teach: one lesson per task.
Lessons(r) == {r} \X RoundTasks[r]

Init ==
    /\ generations = [g \in 0..MaxRound |-> None]
    /\ current = -1
    /\ overlapped = FALSE

PublishFirst ==
    /\ generations[0] = None
    /\ generations' = [generations EXCEPT ![0] = {}]
    /\ UNCHANGED <<current, overlapped>>

Publish(r) ==
    /\ generations[r] = None
    /\ generations[r - 1] # None
    /\ \E learned \in SUBSET Lessons(r) :
          generations' = [generations EXCEPT ![r] = generations[r - 1] \cup learned]
    /\ UNCHANGED <<current, overlapped>>

Commit ==
    /\ current < MaxRound
    /\ generations[current + 1] # None
    /\ current' = current + 1
    /\ UNCHANGED <<generations, overlapped>>

Overlap ==
    /\ overlapped' = TRUE
    /\ UNCHANGED <<generations, current>>

\* A copy of campaign.json that one writer read is written after another's.
Misplace ==
    /\ overlapped
    /\ \E g \in 0..MaxRound :
          /\ \A h \in 0..g : generations[h] # None
          /\ current' = g
    /\ UNCHANGED <<generations, overlapped>>

Next == PublishFirst \/ Commit \/ Overlap \/ Misplace \/ \E r \in 1..MaxRound : Publish(r)

Spec == Init /\ [][Next]_<<generations, current, overlapped>>
=============================================================================
