---------------------------- MODULE MCEventChannel ----------------------------
(* One hart's channel with bounds small enough for TLC and large enough for    *)
(* the emulator to fill both buffers and the queue and to be held back.        *)
EXTENDS EventChannel

MCHarts == {0}
MCPayload == {"insn"}

=============================================================================
