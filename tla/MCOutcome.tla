----------------------------- MODULE MCOutcome -----------------------------
(* Instance of Outcome for TLC.                                             *)
EXTENDS Outcome

CONSTANTS r1, r2, f1

End(graph, class) ==
    [graph |-> graph, class |-> class, defer |-> FALSE, official |-> "passed",
     used |-> TRUE, scriptFailed |-> FALSE, patch |-> TRUE, verified |-> TRUE, attempt |-> TRUE]
Success == End("success", None)

\* A success with a failed script and two failures, which are replayed; and benchmark
\* runs that the evaluator passes, fails or, before a skill was used, cannot judge: a
\* resumed campaign turns the last into the others and these two into one another.
MCKinds ==
    {[Success EXCEPT !.scriptFailed = TRUE],
     [End("failed", "infrastructure") EXCEPT !.defer = TRUE, !.official = "unavailable",
                                              !.used = FALSE]}
    \cup {[Success EXCEPT !.defer = TRUE, !.official = o] : o \in {"passed", "failed"}}
    \cup {End("failed", c) : c \in {"repair", "model"}}
=============================================================================
