---------------------------- MODULE DeviceState ----------------------------
(***************************************************************************)
(* The device snapshot of the service (service/mod.rs, inbound.rs,         *)
(* outbound.rs): one locked state, and a watch channel per field that      *)
(* mirrors it for the clients.  Readers of the present and of earlier      *)
(* connections apply what the radio says; a refresh asks for everything    *)
(* again, clears the state, and then, outside the lock, the mirrors one by *)
(* one.  Writes go to the radio as admin packets and change nothing here.  *)
(***************************************************************************)
EXTENDS Protocol, FiniteSets

CONSTANTS
    Sections,     \* sections of ConfigSections in use
    Chans,        \* channel indices in use
    Values,       \* what a section, a channel or an owner may hold
    Radios,       \* radios one may connect to, named by their node number
    Refreshers,   \* callers of refresh_config and reset_nodedb_and_refresh
    Cards,        \* what the desktop's settings form shows, beside the channels
    Callbacks,    \* fields the Android bridge is watched for
    Clients,      \* programs around the service; a run is one of them
    LineCapacity, \* INBOUND_CHANNEL_CAPACITY
    MaxConns,     \* bounds of the runs: connections, and how often, in all,
    MaxTroubles,  \* a link ends, another is made, a refresh or a reset is
                  \* asked for,
    MaxChanges    \* and how often somebody else changes a radio

ASSUME DeviceAssumption ==
    /\ Sections \subseteq ConfigSections
    /\ Chans \subseteq Nat /\ IsFiniteSet(Chans) /\ IsFiniteSet(Radios)
    /\ Cards \subseteq Sections \cup {"owner"}
    /\ BROADCAST_ADDR \notin Radios /\ None \notin Radios \cup Values \cup {BROADCAST_ADDR}
    /\ Clients \subseteq {"desktop", "android"}
    /\ Callbacks \subseteq {"my_info", "nodes", "owner", "metadata", "channels"} \cup Sections
    /\ {LineCapacity, MaxConns, MaxTroubles, MaxChanges} \subseteq Nat

VARIABLES
    device,     \* what each radio holds
    line,       \* by connection, messages on their way from the radio
    events,     \* by connection, events its reader decoded and has not applied
    peer,       \* by connection, the radio at the other end
    up,         \* the last connection stands
    state,      \* the snapshot
    mirror,     \* the watch channels
    client,     \* the program this is
    listening,  \* it has subscribed
    unseen,     \* fields published since it last looked, of those it follows
    completes,  \* ConfigComplete broadcasts it has not received
    refresher,  \* where each refresh is
    troubles, changes,   \* counted against the bounds
    overtaken   \* history: fields whose mirror missed what the state got

service == <<state, mirror, listening, unseen, completes, overtaken>>
radio == <<device, line, events, peer, up>>
dvars == <<radio, service, client, refresher, troubles, changes>>

-----------------------------------------------------------------------------
(* The radio (external): a burst answers each request for configuration.    *)

SectionMessage(s, v) ==
    [kind |-> IF s \in TrackedModules THEN "ModuleConfig" ELSE "Config", section |-> s, value |-> v]

NodeMessage(n) ==
    [kind |-> "NodeInfo", num |-> n, user |-> device[n].owner, keyed |-> TRUE, lat |-> None, lon |-> None]

SectionOrder == SetToSeq(Sections)
ChanOrder == SetToSeq(Chans)

Burst(r) ==
    <<[kind |-> "MyInfo", num |-> r], NodeMessage(r)>>
    \o [j \in 1 .. Cardinality(device[r].known) |-> NodeMessage(SetToSeq(device[r].known)[j])]
    \o [j \in DOMAIN SectionOrder |-> SectionMessage(SectionOrder[j], device[r].config[SectionOrder[j]])]
    \o [j \in DOMAIN ChanOrder |-> [kind |-> "Channel", index |-> ChanOrder[j],
                                     value |-> device[r].channels[ChanOrder[j]]]]
    \o <<[kind |-> "ConfigComplete", nonce |-> 0]>>

\* The Android host drops what its bounded queue cannot take (push_inbound).
Queued(frames) ==
    IF client = "android" /\ Len(frames) > LineCapacity
      THEN SubSeq(frames, 1, LineCapacity) ELSE frames

Asked(c) == line' = [line EXCEPT ![c] = Queued(@ \o Burst(peer'[c]))]

-----------------------------------------------------------------------------
(* Publishing *)

Fields == {"my_info", "nodes", "owner", "metadata", "channels"} \cup Sections

ConfigFields == {"channels"} \cup Sections

Value(st, f) == IF f \in Sections THEN st.config[f] ELSE st[f]

FieldOf(event) ==
    CASE event.kind = "MyInfo" -> "my_info"
      [] event.kind = "NodeInfo" -> "nodes"
      [] event.kind = "Owner" -> "owner"
      [] event.kind = "Metadata" -> "metadata"
      [] event.kind = "Channel" -> "channels"
      [] OTHER -> event.section

Empty(f) == IF f \in {"nodes", "channels"} THEN <<>> ELSE None

\* The desktop copies every other field just as it is; the callbacks of the
\* Android bridge for my_info and metadata are like the one for the owner.
Followed == IF client = "desktop" THEN Cards \cup {"channels"} ELSE Callbacks

\* send on a watch channel stores nothing unless somebody is subscribed.
Publish(f, value, late) ==
    /\ mirror' = IF listening THEN [mirror EXCEPT ![f] = value] ELSE mirror
    /\ unseen' = IF listening /\ f \in Followed THEN unseen \cup {f} ELSE unseen
    /\ overtaken' = IF listening /\ ~late THEN overtaken \ {f} ELSE overtaken \cup {f}
    /\ UNCHANGED <<client, listening>>

-----------------------------------------------------------------------------
Init ==
    /\ client \in Clients
    /\ device \in {[r \in Radios |->
                      [owner |-> v[r], config |-> [s \in Sections |-> v[r]],
                       channels |-> [i \in Chans |-> v[r]], known |-> {}]] :
                   v \in {w \in [Radios -> Values] : Cardinality({w[r] : r \in Radios}) = 2}}
    /\ line = [c \in 1 .. MaxConns |-> <<>>]
    /\ events = [c \in 1 .. MaxConns |-> <<>>]
    /\ peer = <<>> /\ up = FALSE
    /\ state = Blank(Sections)
    /\ mirror = [f \in Fields |-> Empty(f)]
    /\ listening = (client = "desktop") /\ unseen = {} /\ completes = 0
    /\ refresher = [k \in Refreshers |-> [pc |-> "idle", todo |-> <<>>]]
    /\ troubles = 0 /\ changes = 0
    /\ overtaken = {}

Trouble == troubles < MaxTroubles /\ troubles' = troubles + 1 /\ UNCHANGED changes

-----------------------------------------------------------------------------
(* Inbound *)

\* A slip: what is published is what the state was before.
Mirrored_Before(event) == Value(state, FieldOf(event))

Mirrored(event) == Value(apply(state, event), FieldOf(event))

apply_inbound(event) ==
    IF is_snapshot(event)
      THEN /\ state' = apply(state, event)
           /\ Publish(FieldOf(event), Mirrored(event), FALSE)
           /\ UNCHANGED completes
      ELSE /\ completes' = IF listening THEN completes + 1 ELSE completes
           /\ UNCHANGED <<state, mirror, listening, unseen, overtaken, client>>

Decoded(msg) ==
    decode_inbound(msg, [my_info |-> state.my_info, nodes |-> state.nodes,
                         our_private_key |-> state.our_private_key, pkc_seen |-> <<>>])

\* The events of a message are applied one by one, each under the lock.
\* (Decoding has a lock of its own; of the state it reads who we are.)
handle_from_radio(c) ==
    LET todo == IF events[c] # <<>> THEN events[c] ELSE Decoded(Head(line[c]))
    IN  /\ line[c] # <<>> \/ events[c] # <<>>
        /\ line' = IF events[c] # <<>> THEN line ELSE [line EXCEPT ![c] = Tail(@)]
        /\ events' = [events EXCEPT ![c] = Tail(todo)]
        /\ apply_inbound(Head(todo))
        /\ UNCHANGED <<device, peer, up, refresher, troubles, changes>>

-----------------------------------------------------------------------------
(* Connections *)

\* The state of the radio before stays until the new one has spoken; the
\* reader of the old connection still has its buffer.
connect_with_transport(r) ==
    /\ Len(peer) < MaxConns
    /\ IF peer = <<>> THEN UNCHANGED <<troubles, changes>> ELSE Trouble
    /\ peer' = Append(peer, r) /\ up' = TRUE
    /\ Asked(Len(peer) + 1)
    /\ UNCHANGED <<device, events, service, client, refresher>>

disconnect ==
    /\ up /\ up' = FALSE /\ Trouble
    /\ UNCHANGED <<device, line, events, peer, service, client, refresher>>

-----------------------------------------------------------------------------
(* Refresh *)

ClearOrder == SectionOrder \o <<"channels">>

\* A refresh of its own, or the second half of a reset.
Begins(k) ==
    \/ refresher[k].pc = "idle" /\ Trouble
    \/ refresher[k].pc = "refreshes" /\ UNCHANGED <<troubles, changes>>

\* A request that cannot be sent clears nothing.
RefreshAsks(k) ==
    /\ Begins(k)
    /\ IF up THEN UNCHANGED peer /\ Asked(Len(peer)) ELSE UNCHANGED <<line, peer>>
    /\ refresher' = [refresher EXCEPT ![k].pc = IF up THEN "asked" ELSE "idle"]
    /\ UNCHANGED <<device, events, up, service, client>>

RefreshClears(k) ==
    /\ refresher[k].pc = "asked"
    /\ state' = clear_config(state)
    /\ refresher' = [refresher EXCEPT ![k] = [pc |-> "clears", todo |-> ClearOrder]]
    /\ UNCHANGED <<radio, mirror, listening, unseen, completes, overtaken, client, troubles, changes>>

\* Each watch channel is emptied on its own, whatever the state holds by now.
MirrorCleared(k) ==
    /\ refresher[k].pc = "clears"
    /\ LET f == Head(refresher[k].todo)
       IN  Publish(f, Empty(f), Value(state, f) # Empty(f))
    /\ refresher' = [refresher EXCEPT ![k] =
                       IF Len(@.todo) = 1 THEN [pc |-> "idle", todo |-> <<>>]
                                          ELSE [pc |-> "clears", todo |-> Tail(@.todo)]]
    /\ UNCHANGED <<radio, state, completes, troubles, changes>>

\* reset_nodedb reached the radio: it forgets its peers, then we do.
ResetAsks(k) ==
    /\ refresher[k].pc = "idle" /\ Trouble
    /\ up /\ state.my_info # None
    /\ device' = IF state.my_info = Last(peer) THEN [device EXCEPT ![Last(peer)].known = {}]
                                              ELSE device
    /\ refresher' = [refresher EXCEPT ![k].pc = "reset"]
    /\ UNCHANGED <<line, events, peer, up, service, client>>

ResetClears(k) ==
    /\ refresher[k].pc = "reset"
    /\ state' = clear_nodes(state)
    /\ refresher' = [refresher EXCEPT ![k] = [pc |-> "forgets", todo |-> <<"nodes">>]]
    /\ UNCHANGED <<radio, mirror, listening, unseen, completes, overtaken, client, troubles, changes>>

\* The emptied map is published and the refresh follows.
MirrorForgets(k) ==
    /\ refresher[k].pc = "forgets"
    /\ Publish("nodes", <<>>, state.nodes # <<>>)
    /\ refresher' = [refresher EXCEPT ![k] = [pc |-> "refreshes", todo |-> <<>>]]
    /\ UNCHANGED <<radio, state, completes, troubles, changes>>

RefreshStep(k) ==
    \/ RefreshAsks(k) \/ RefreshClears(k) \/ MirrorCleared(k)
    \/ ResetAsks(k) \/ ResetClears(k) \/ MirrorForgets(k)

-----------------------------------------------------------------------------
(* Writing *)

\* A write is addressed to the node number on record, and only a radio with
\* that number takes it.
Written(to, f, i, v) ==
    IF ~up \/ to # Last(peer) THEN device
    ELSE CASE f = "owner" -> [device EXCEPT ![to].owner = v]
           [] f = "channels" -> [device EXCEPT ![to].channels[i] = v]
           [] OTHER -> [device EXCEPT ![to].config[f] = v]

\* Another program of the radio's owner, or the radio's own buttons; it now
\* knows the other nodes as well.  (Not after the last burst of a run: no
\* message would tell of it.)
SomebodyChanges(r) ==
    /\ changes < MaxChanges /\ changes' = changes + 1
    /\ r \in Range(peer)
    /\ \/ troubles < MaxTroubles
       \/ \E k \in Refreshers : refresher[k].pc \in {"reset", "forgets", "refreshes"}
    /\ \E v \in Values \ {device[r].owner} :
          device' = [device EXCEPT ![r].owner = v, ![r].config = [s \in Sections |-> v],
                                   ![r].channels = [i \in Chans |-> v],
                                   ![r].known = Radios \ {r}]
    /\ UNCHANGED <<line, events, peer, up, service, client, refresher, troubles>>

DeviceNext ==
    \/ \E c \in 1 .. MaxConns : handle_from_radio(c)
    \/ \E r \in Radios : connect_with_transport(r) \/ SomebodyChanges(r)
    \/ disconnect
    \/ \E k \in Refreshers : RefreshStep(k)

-----------------------------------------------------------------------------
(* Properties *)

\* The mirrors say what the snapshot says, field by field.  There are two
\* exceptions: a refresh has yet to empty this mirror, or an answer (or
\* nobody listening) overtook its publication.
MirrorsAgree ==
    \A f \in Fields :
        \/ mirror[f] = Value(state, f)
        \/ f \in overtaken
        \/ \E k \in Refreshers : f \in Range(refresher[k].todo)

=============================================================================
