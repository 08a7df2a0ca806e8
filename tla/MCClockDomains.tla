---------------------------- MODULE MCClockDomains ----------------------------
(* Trees of a few objects under the system, and what scripts do to them.       *)
EXTENDS ClockDomains

\* The script gives domains to the objects it made and leaves the system its own.
MCObjects == 1 .. MaxNodes

=============================================================================
