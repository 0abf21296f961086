--------------------------- MODULE MCVoiceRuntime ---------------------------
(* VoiceRuntime.tla for model checking: one message of two data chunks,    *)
(* and the configurations the settings can lead to.                         *)
EXTENDS VoiceRuntime, TLC

RuntimeHeaders == [total : {2}, parity : {1}, codec : {"amr", "unknown"}, stream : {0}]

\* A timeout the assembler takes, and one it refuses to be updated under.
Saved == {[timeout |-> 130, mode |-> "auto", partial |-> TRUE],
          [timeout |-> 20, mode |-> "off", partial |-> TRUE]}

\* The parameters the policies resolve to, for the comparisons that range
\* over every configuration.
Resolved == { resolve(m, p) : m \in Modes, p \in Presets \cup {None} }
RuntimeConfigs ==
    { Edited(Started([timeout |-> t, mode |-> "auto", partial |-> TRUE]), Edit("nack", r)) :
        t \in Timeouts, r \in Resolved }
=============================================================================
