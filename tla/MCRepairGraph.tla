--------------------------- MODULE MCRepairGraph ---------------------------
(* Instances of RepairGraph for TLC: two files and three contents.         *)
EXTENDS RepairGraph

P1 == 1
P2 == 2
MCPaths == {P1, P2}
\* The second file does not exist yet.
MCHead == [p \in MCPaths |-> IF p = P1 THEN "base" ELSE Absent]

\* CI needs the fix in the first file.
MCGreen == {t \in [MCPaths -> {"base", "fix", "skip", Absent}] : t[P1] \in {"fix", "skip"}}

OneFile(p, c) == [q \in MCPaths |-> IF q = p THEN c ELSE Keep]

\* A good one-file fix, one that skips the test, one that only creates a file, a
\* sensitive two-file fix, and a wrong one that deletes a file for another.
MCProposals ==
    {[edits |-> OneFile(P1, "fix"), risk |-> "low"],
     [edits |-> OneFile(P1, "skip"), risk |-> "low"],
     [edits |-> OneFile(P2, "fix"), risk |-> "high"],
     [edits |-> [p \in MCPaths |-> "fix"], risk |-> "low"],
     [edits |-> [p \in MCPaths |-> IF p = P1 THEN Absent ELSE "skip"], risk |-> "low"]}

Task(id, kind, scope, fits) == [id |-> id, kind |-> kind, scope |-> scope, fits |-> fits]

MCDispatches ==
    {Task(1, "repair", MCPaths, TRUE), Task(2, "repair", {P1}, TRUE),
     Task(2, "repair", {P2}, TRUE), Task(2, "investigate", {}, TRUE),
     Task(1, "repair", {}, TRUE), Task(3, "repair", MCPaths, FALSE)}

MCSensitive == {MCPaths}
=============================================================================
