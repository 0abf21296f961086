-------------------------- MODULE MCSettingsStore --------------------------
(* SettingsStore.tla for model checking: every thread is of one process, and *)
(* two keys are enough, one clamped and one that falls back to a default.    *)
EXTENDS SettingsStore

MCOwnerOne == [t \in Threads |-> CHOOSE p \in Procs : TRUE]
MCKeyOrder == <<"VoiceCodec2Mode", "VoiceOpusBitrateKbps">>

=============================================================================
