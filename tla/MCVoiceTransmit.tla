-------------------------- MODULE MCVoiceTransmit --------------------------
(* VoiceTransmit.tla for model checking: two frames from each caller, the    *)
(* burst's a time unit apart, a retransmit's at once.                        *)
EXTENDS VoiceTransmit

MCCount == [c \in Callers |-> 2]
MCPacing == [c \in Callers |-> IF c \in Bursts THEN 1 ELSE 0]

=============================================================================
