---------------------------- MODULE MCCommunicate ----------------------------
(* Pipes that hold one unit, and messages and outputs of several.             *)
EXTENDS Communicate

\* Several pipes, which takes threads, or at most one.
MCGivens == {{"input", "output", "error"}, {"output", "error"},
             {}, {"input"}, {"output"}, {"error"}}
MCWriteErrors == {{"input"}}

=============================================================================
