-------------------------- MODULE MCVoiceAssembler --------------------------
(***************************************************************************)
(* Instances of VoiceAssembler for TLC: one message with many shards, and  *)
(* many small messages against the caps.                                   *)
(***************************************************************************)
EXTENDS VoiceAssembler, TLC

\* Headers with 1 to 3 data chunks and up to 2 parity chunks.
ShardHeaders == [total : 1 .. 3, parity : 0 .. 2, codec : {"amr"}, stream : {0}]

\* Headers that disagree with one another.
CapHeaders == [total : 1 .. 2, parity : {0}, codec : {"amr"}, stream : {0}]

Base ==
    [message_timeout |-> 2, completion_memory |-> 2, dead_sender_timeout |-> 1,
     nack_window |-> 1, nack_backoff_base |-> 2, max_nack_rounds |-> 9,
     partial_play |-> TRUE, supported |-> {"amr"}]

ShardConfigs == { Base }

CapConfigs == { Base }

\* Senders are only compared for equality.
SenderSymmetry == Permutations(Senders)

\* What a call returned decides nothing later.
TableView == <<now, cfg, table, blacklist>>

=============================================================================
