-------------------------- MODULE MC_CodecRecovery --------------------------
(* CodecRecovery with the values its configurations give the constants.    *)
EXTENDS CodecRecovery
=============================================================================
