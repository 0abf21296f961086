--------------------------- MODULE DeliveryAcks ---------------------------
(***************************************************************************)
(* The table of awaited delivery answers (service/outbound.rs, ack.rs).    *)
(* A slot is the sending half of a oneshot channel under a packet id; its  *)
(* receiving half is the handle of one tracked send.                       *)
(***************************************************************************)
EXTENDS Integers

CONSTANT IdWidth   \* packet ids are IdWidth bits wide

ASSUME IdAssumption == 2 ^ IdWidth \in Nat \ {0, 1}

PacketIds == 1 .. 2 ^ IdWidth - 1

\* The id reserved by next_id when the counter stands at n: 0 is never used.
next_id(n) == IF n = 0 THEN 1 ELSE n

\* The counter afterwards.
Following(n) == (next_id(n) + 1) % 2 ^ IdWidth

\* Slots whose handle was dropped are swept whenever a new one is made.
register_ack(acks, id, handle, held) ==
    {s \in acks : s.handle \in held /\ s.id # id} \cup {[id |-> id, handle |-> handle]}

\* A slip: the slot of a packet that was never sent is left in the table.
discard_ack_Keeps(acks, id) == acks

discard_ack(acks, id) == {s \in acks : s.id # id}

\* The slots a Routing answer to packet id takes out and resolves.
signal_ack(acks, id) == {s \in acks : s.id = id}
===========================================================================
