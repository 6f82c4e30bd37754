---------------------------- MODULE MCAiGeneration ----------------------------
(* Instances of AiGeneration for TLC.                                      *)
EXTENDS AiGeneration

Cause(class, status, abortAt, after) ==
    [class |-> class, status |-> status, abortAt |-> abortAt, after |-> after]

AllDrafts == {{}, {"short"}, {"keywords", "long"}, {"markup"}, {"language"}}
(* A key refused, a malformed request, a limit with and without headers, a *)
(* failing server, a lost connection, a connection timed out inside the    *)
(* SDK's own error, an abort nested too deep to be found.                  *)
AllFailures ==
    {Cause("api", s, -1, 0) : s \in {401, 403, 400, 429, 500, 0}} \cup
    {Cause("api", 429, -1, 1500), Cause("api", 429, 2, 1500),
     Cause("api", 0, MAX_CAUSE_DEPTH, 0), Cause("other", 0, MAX_CAUSE_DEPTH + 1, 0)}
=============================================================================
