------------------------------ MODULE Protocol ------------------------------
(***************************************************************************)
(* The sans-IO protocol core (meshtastic/service/protocol.rs): one message *)
(* of the radio becomes a sequence of events, and the events that describe *)
(* the device are applied to one snapshot of its configuration.            *)
(*                                                                         *)
(* A message, an event and a value are records with a kind; what is inside *)
(* a section is one value.  An event that only hands on what the message   *)
(* says is the message itself.                                             *)
(***************************************************************************)
EXTENDS Naturals, Sequences, SequencesExt, Functions

CONSTANTS
    None,             \* an absent value
    BROADCAST_ADDR    \* the address of everyone

\* Sections of Config and ModuleConfig; decode_inbound lets only these pass.
TrackedConfig == {"lora", "device", "position", "power", "network", "display", "bluetooth"}
TrackedModules == {"mqtt"}
ConfigSections == TrackedConfig \cup TrackedModules

-----------------------------------------------------------------------------
(* Decoding.  ctx is the decoder's copy of the service's state: my_info,    *)
(* our_private_key, nodes, and pkc_seen.                                    *)

\* A position off the map loses the coordinate, nothing else.
Sanitised(ni) == [ni EXCEPT !.lat = IF @ = "absurd" THEN None ELSE @,
                            !.lon = IF @ = "absurd" THEN None ELSE @]

\* Our own node's user is the owner, told before the node itself.
decode_node_info(ni, ctx) ==
    (IF ni.num = ctx.my_info /\ ni.user # None
       THEN <<[kind |-> "Owner", user |-> ni.user]>> ELSE <<>>)
    \o <<Sanitised(ni)>>

\* Pairs (sender, packet id) of the last messages decrypted here.
PkcRing == 64

\* A packet the radio could not decrypt is decrypted here if it is for us,
\* both keys are known, it was not decrypted before, and the keys fit.
try_pkc_decrypt(pkt, ctx) ==
    /\ ctx.my_info # None /\ pkt.to = ctx.my_info
    /\ ctx.our_private_key # None
    /\ pkt.from \in DOMAIN ctx.nodes
    /\ ctx.nodes[pkt.from].user # None /\ ctx.nodes[pkt.from].keyed
    /\ <<pkt.from, pkt.id>> \notin Range(ctx.pkc_seen)
    /\ pkt.sealed = ctx.our_private_key

Remembered(seen, pkt) ==
    LET longer == <<<<pkt.from, pkt.id>>>> \o seen
    IN  SubSeq(longer, 1, IF Len(longer) > PkcRing THEN PkcRing ELSE Len(longer))

\* Answers to admin requests; any other well-formed one is dropped.
decode_admin(answer) ==
    CASE answer.kind = "GetOwnerResponse" -> <<[kind |-> "Owner", user |-> answer.user]>>
      [] answer.kind = "GetChannelResponse" ->
            <<[kind |-> "Channel", index |-> answer.index, value |-> answer.value]>>
      [] answer.kind = "GetMetadataResponse" ->
            <<[kind |-> "Metadata", value |-> answer.value]>>
      [] OTHER -> <<>>

\* A delivery report: no error is a delivery, an error code this build does
\* not know a failure; route replies and garbage are nothing.
decode_routing(data) ==
    IF data.request_id = 0 \/ data.payload \notin {"no error", "error", "unknown error"} THEN <<>>
    ELSE <<[kind |-> "AckOrNak", request_id |-> data.request_id,
            result |-> IF data.payload = "no error" THEN "Delivered" ELSE "Failed"]>>

Destination(to) == IF to = BROADCAST_ADDR THEN "Broadcast" ELSE to

\* Everything else goes to the listeners for raw data, and a voice frame of
\* our version to the voice listeners first.
decode_data(pkt, data) ==
    (IF data.portnum = "private" /\ data.payload = "voice frame"
       THEN <<[kind |-> "Voice", from |-> pkt.from, to |-> Destination(pkt.to),
               channel |-> pkt.channel]>> ELSE <<>>)
    \o <<[kind |-> "IncomingData", from |-> pkt.from, to |-> pkt.to, channel |-> pkt.channel,
          portnum |-> data.portnum]>>

\* A text too long is dropped, one that is not UTF-8 is raw data.
decode_text(pkt, data) ==
    CASE data.payload = "too long" -> <<>>
      [] data.payload = "not UTF-8" -> decode_data(pkt, data)
      [] OTHER -> <<[kind |-> "IncomingText", from |-> pkt.from, to |-> pkt.to,
                     channel |-> pkt.channel, text |-> data.payload]>>

\* An admin message that does not parse falls through to the raw listeners.
decode_packet(pkt, ctx) ==
    CASE pkt.form = "none" \/ (pkt.form = "encrypted" /\ ~try_pkc_decrypt(pkt, ctx)) -> <<>>
      [] pkt.data.portnum = "admin" /\ pkt.data.payload.kind # "malformed" ->
            decode_admin(pkt.data.payload)
      [] pkt.data.portnum = "routing" -> decode_routing(pkt.data)
      [] pkt.data.portnum = "text" -> decode_text(pkt, pkt.data)
      [] OTHER -> decode_data(pkt, pkt.data)

\* Messages handed on as they are.
Plain == {"MyInfo", "Channel", "Metadata", "ConfigComplete", "QueueStatus"}

\* The section with our keys is not a tracked one, so it stops here.
decode_inbound(msg, ctx) ==
    CASE msg.kind \in Plain -> <<msg>>
      [] msg.kind = "NodeInfo" -> decode_node_info(msg, ctx)
      [] msg.kind = "Config" /\ msg.section \in TrackedConfig -> <<msg>>
      [] msg.kind = "ModuleConfig" /\ msg.section \in TrackedModules -> <<msg>>
      [] msg.kind = "Packet" -> decode_packet(msg, ctx)
      [] OTHER -> <<>>

is_snapshot(event) ==
    event.kind \in {"MyInfo", "NodeInfo", "Owner", "Config", "ModuleConfig", "Channel", "Metadata"}

-----------------------------------------------------------------------------
(* The snapshot *)

Blank(sections) ==
    [my_info |-> None, nodes |-> <<>>, owner |-> None, metadata |-> None,
     config |-> [s \in sections |-> None], channels |-> <<>>, our_private_key |-> None]

\* The list of channels has one row for each index and is in their order, so
\* it is the value at each index.
upsert_channel(rows, ch) ==
    [i \in DOMAIN rows \cup {ch.index} |-> IF i = ch.index THEN ch.value ELSE rows[i]]

\* A key of the right length replaces ours, anything else takes it away.
apply_config(state, event) ==
    IF event.section = "security"
      THEN [state EXCEPT !.our_private_key = IF event.value = "no key" THEN None ELSE event.value]
      ELSE [state EXCEPT !.config[event.section] = event.value]

apply(state, event) ==
    CASE event.kind = "MyInfo" -> [state EXCEPT !.my_info = event.num]
      [] event.kind = "NodeInfo" ->
            [state EXCEPT !.nodes = [n \in DOMAIN @ \cup {event.num} |->
                                       IF n = event.num THEN event ELSE @[n]]]
      [] event.kind = "Owner" -> [state EXCEPT !.owner = event.user]
      [] event.kind \in {"Config", "ModuleConfig"} -> apply_config(state, event)
      [] event.kind = "Channel" ->
            [state EXCEPT !.channels = upsert_channel(@, event)]
      [] event.kind = "Metadata" -> [state EXCEPT !.metadata = event.value]
      [] OTHER -> state

self_node(state) ==
    IF state.my_info \in DOMAIN state.nodes THEN state.nodes[state.my_info] ELSE None

\* Before a new burst: the sections, the channels and the key, not who we
\* are and whom we know.
clear_config(state) ==
    [state EXCEPT !.config = [s \in DOMAIN @ |-> None],
                  !.channels = <<>>, !.our_private_key = None]

clear_nodes(state) == [state EXCEPT !.nodes = <<>>]

-----------------------------------------------------------------------------
(* Packets to the radio: who they are for, and what they ask of it.         *)

want_config(nonce) == [kind |-> "WantConfig", nonce |-> nonce]

\* Only a message to one node asks for a delivery report; a text over the
\* limit is refused before anything is sent.
text_packet(id, text, channel, to) ==
    [kind |-> "Packet", portnum |-> "text", id |-> id, to |-> to, channel |-> channel,
     payload |-> text, want_ack |-> to # BROADCAST_ADDR, want_response |-> FALSE]

TextFits(text) == text # "too long"

data_packet(id, portnum, payload, channel, to, want_ack, want_response) ==
    [kind |-> "Packet", portnum |-> portnum, id |-> id, to |-> to, channel |-> channel,
     payload |-> payload, want_ack |-> want_ack, want_response |-> want_response]

admin_packet(id, to, request) == data_packet(id, "admin", request, 0, to, TRUE, FALSE)

\* Asks every node for its user record by telling ours.
nodeinfo_request_packet(id, owner, channel) ==
    data_packet(id, "nodeinfo", owner, channel, BROADCAST_ADDR, FALSE, TRUE)

=============================================================================
