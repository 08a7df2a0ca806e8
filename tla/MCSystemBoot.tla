---------------------------- MODULE MCSystemBoot ----------------------------
(* Up to three processes on three harts, with hart numbers of three bits.     *)
EXTENDS SystemBoot

MCRequests == {1, 2, 5, 7}
MCOutputs == {1, 2}

=============================================================================
