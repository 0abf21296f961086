------------------------- MODULE ConfigViewsProofs -------------------------
(***************************************************************************)
(* Proofs about ConfigViews.tla: what the variables hold, that the watch   *)
(* channels agree with the snapshot (MirrorsAgree), that Kotlin is never   *)
(* left behind (KotlinCurrent), and that the settings form shows nothing   *)
(* nobody said (FormTruthful).                                             *)
(*                                                                         *)
(* They hold for every number of radios, connections, refreshes, edits and *)
(* listeners: no bound of the runs is used.                                *)
(***************************************************************************)
EXTENDS ConfigViews, SequenceTheorems, FiniteSetTheorems, TLAPS

-----------------------------------------------------------------------------
(* Types *)

PartialOf(D, R) == UNION {[E -> R] : E \in SUBSET D}

Maybe == Values \cup {None}

NodeInfos ==
    [kind : {"NodeInfo"}, num : Radios, user : Values, keyed : {TRUE}, lat : {None}, lon : {None}]

Messages ==
    [kind : {"MyInfo"}, num : Radios] \cup NodeInfos
    \cup [kind : {"Config"}, section : Sections \ TrackedModules, value : Values]
    \cup [kind : {"ModuleConfig"}, section : Sections \cap TrackedModules, value : Values]
    \cup [kind : {"Channel"}, index : Chans, value : Values]
    \cup [kind : {"ConfigComplete"}, nonce : {0}]

Events == Messages \cup [kind : {"Owner"}, user : Values]

Devices ==
    [owner : Values, config : [Sections -> Values], channels : [Chans -> Values], known : SUBSET Radios]

Nodes == PartialOf(Radios, NodeInfos)
Rows == PartialOf(Chans, Values)

States ==
    [my_info : Radios \cup {None}, nodes : Nodes, owner : Maybe, metadata : {None},
     config : [Sections -> Maybe], channels : Rows, our_private_key : {None}]

FieldValues(f) ==
    CASE f = "my_info" -> Radios \cup {None}
      [] f = "nodes" -> Nodes
      [] f = "channels" -> Rows
      [] OTHER -> Maybe

Conns == 1 .. MaxConns

\* What a refresh has still to empty.
RefresherOK(k) ==
    /\ refresher[k] \in [pc : {"idle", "asked", "clears", "reset", "forgets", "refreshes"}, todo : Seq(Fields)]
    /\ refresher[k].pc \in {"idle", "asked", "reset", "refreshes"} => refresher[k].todo = <<>>
    /\ refresher[k].pc = "clears" => refresher[k].todo # <<>>
    /\ refresher[k].pc = "forgets" => refresher[k].todo = <<"nodes">>

RadioOK ==
    /\ device \in [Radios -> Devices]
    /\ line \in [Conns -> Seq(Messages)]
    /\ events \in [Conns -> Seq(Events)]
    /\ peer \in Seq(Radios) /\ Len(peer) <= MaxConns
    /\ up \in BOOLEAN /\ (up => peer # <<>>)

ServiceOK ==
    /\ state \in States
    /\ DOMAIN mirror = Fields /\ mirror = [f \in Fields |-> mirror[f]]
    /\ \A f \in Fields : mirror[f] \in FieldValues(f)
    /\ client \in {"desktop", "android"} /\ listening \in BOOLEAN
    /\ (client = "desktop" => listening)

RefreshOK ==
    /\ refresher = [k \in Refreshers |-> refresher[k]]
    /\ \A k \in Refreshers : RefresherOK(k)

DesktopOK ==
    /\ form \in [card : [Cards -> Maybe], rows : Rows]
    /\ buffer \in [Chans -> Maybe] /\ typed \in [Tags -> Maybe]
    /\ applying \in [pc : {"none", "clicked", "addressed", "returns"},
                     tag : Tags \cup {<<"channels", 0>>}, value : Maybe, to : Radios \cup {None}]
    /\ applying.pc # "none" => applying.tag \in Tags /\ applying.value \in Values
    /\ applying.pc \in {"addressed", "returns"} => applying.to \in Radios

AndroidOK ==
    /\ DOMAIN kotlin = Fields /\ kotlin = [f \in Fields |-> kotlin[f]]
    /\ pushed \in Nodes
    /\ to_push \in Seq(Fields)

TypeOK == RadioOK /\ ServiceOK /\ RefreshOK /\ DesktopOK /\ AndroidOK


\* What Kotlin has of field f is what was last published.
Current(f) ==
    IF f \in {"nodes", "channels"}
      THEN \A n \in DOMAIN mirror[f] : n \in DOMAIN kotlin[f] /\ kotlin[f][n] = mirror[f][n]
      ELSE mirror[f] \in {None, kotlin[f]}

\* Whatever is neither still to be pushed nor published since is current,
\* and the nodes on record as pushed were pushed.
KotlinInv ==
    client = "android" /\ listening =>
        /\ \A f \in Callbacks \ (unseen \cup Range(to_push)) : Current(f)
        /\ \A n \in DOMAIN pushed : n \in DOMAIN kotlin["nodes"] /\ kotlin["nodes"][n] = pushed[n]


-----------------------------------------------------------------------------
(* Data: partial functions, sequences of a set, field values.               *)

LEMMA PartialIs ==
    ASSUME NEW D, NEW R, NEW f \in PartialOf(D, R)
    PROVE  DOMAIN f \subseteq D /\ f \in [DOMAIN f -> R] /\ \A x \in DOMAIN f : f[x] \in R
  BY DEF PartialOf

LEMMA IsPartial ==
    ASSUME NEW D, NEW R, NEW E \in SUBSET D, NEW f \in [E -> R]
    PROVE  f \in PartialOf(D, R)
  BY DEF PartialOf

LEMMA EmptyPartial ==
    ASSUME NEW D, NEW R
    PROVE  <<>> \in PartialOf(D, R)
<1>1. <<>> \in [{} -> R]
  OBVIOUS
<1> QED
  BY <1>1, IsPartial

\* A set put in sequence, every element once.
LEMMA Sequenced ==
    ASSUME NEW S, IsFiniteSet(S)
    PROVE  /\ SetToSeq(S) \in Seq(S) /\ Range(SetToSeq(S)) = S
           /\ Cardinality(S) \in Nat /\ DOMAIN SetToSeq(S) = 1 .. Cardinality(S)
<1> DEFINE n == Cardinality(S)
<1>1. n \in Nat /\ ExistsBijection(1 .. n, S)
  BY FS_CardinalityType
<1>2. PICK g : g \in Bijection(1 .. n, S)
  BY <1>1 DEF ExistsBijection
<1>3. g \in [1 .. n -> S] /\ IsInjective(g)
  BY <1>2 DEF Bijection, Injection, IsInjective
<1> DEFINE f == SetToSeq(S)
<1>4. f \in [1 .. n -> S] /\ IsInjective(f)
  BY <1>3 DEF SetToSeq
<1>5. f \in Injection(1 .. n, S)
  BY <1>4 DEF Injection, IsInjective
<1>6. Cardinality(1 .. n) = n /\ IsFiniteSet(1 .. n)
  BY <1>1, FS_Interval
<1>7. f \in Surjection(1 .. n, S)
  BY <1>5, <1>6, FS_Injection
<1>8. Range(f) = S
  BY <1>4, <1>7 DEF Surjection, Range
<1> QED
  BY <1>1, <1>4, <1>8

LEMMA Finite ==
    /\ IsFiniteSet(Sections) /\ IsFiniteSet(Chans)
    /\ IsFiniteSet(Sections \cap Callbacks)
    /\ \A S \in SUBSET Radios : IsFiniteSet(S)
<1> DEFINE C == {"lora", "device", "position", "power", "network", "display", "bluetooth", "mqtt"}
<1>1. IsFiniteSet(C)
  <2>1. C = {} \cup {"lora"} \cup {"device"} \cup {"position"} \cup {"power"} \cup {"network"}
              \cup {"display"} \cup {"bluetooth"} \cup {"mqtt"}
    OBVIOUS
  <2> HIDE DEF C
  <2> QED
    BY <2>1, FS_EmptySet, FS_AddElement
<1>2. Sections \subseteq C
  BY DeviceAssumption DEF DeviceAssumption, ConfigSections, TrackedConfig, TrackedModules
<1> HIDE DEF C
<1> QED
  BY <1>1, <1>2, FS_Subset, DeviceAssumption DEF DeviceAssumption

\* No section is a name of another field, and none holds our keys.
LEMMA Names ==
    /\ Sections \cap {"my_info", "nodes", "owner", "metadata", "channels", "security"} = {}
    /\ "channels" \notin Cards /\ Cards \subseteq Fields /\ Callbacks \subseteq Fields
    /\ \A s \in Sections : s \in TrackedConfig \/ s \in TrackedModules
  BY DeviceAssumption DEF DeviceAssumption, ConfigSections, TrackedConfig, TrackedModules, Fields

LEMMA NotEmpty ==
    ASSUME NEW S, NEW s \in Seq(S), NEW t \in Seq(S), t # <<>>
    PROVE  s \o t \in Seq(S) /\ s \o t # <<>>
<1>1. Len(s) \in Nat /\ Len(t) \in Nat \ {0}
  BY EmptySeq, LenProperties
<1>2. s \o t \in Seq(S) /\ Len(s \o t) = Len(s) + Len(t)
  BY ConcatProperties
<1>3. Len(s \o t) # 0
  BY <1>1, <1>2
<1> QED
  BY <1>2, <1>3

LEMMA RangeOfTail ==
    ASSUME NEW S, NEW s \in Seq(S), s # <<>>
    PROVE  /\ Range(s) = {Head(s)} \cup Range(Tail(s))
           /\ Len(s) = 1 => Range(s) = {Head(s)}
<1>1. Tail(s) \in Seq(S) /\ Len(Tail(s)) = Len(s) - 1
      /\ \A i \in 1 .. Len(Tail(s)) : Tail(s)[i] = s[i + 1]
  BY HeadTailProperties
<1>2. Range(s) = {s[i] : i \in 1 .. Len(s)} /\ Range(Tail(s)) = {Tail(s)[i] : i \in 1 .. Len(Tail(s))}
  BY <1>1, RangeEquality
<1>3. Len(s) \in Nat \ {0} /\ Head(s) = s[1]
  BY EmptySeq
<1>4. \A i \in 1 .. Len(s) : i = 1 \/ (i - 1 \in 1 .. Len(Tail(s)) /\ s[i] = Tail(s)[i - 1])
  BY <1>1, <1>3
<1>5. \A i \in 1 .. Len(Tail(s)) : i + 1 \in 1 .. Len(s)
  BY <1>1, <1>3
<1>6. ASSUME NEW i \in 1 .. Len(s)
      PROVE  s[i] \in {Head(s)} \cup Range(Tail(s))
  <2>1. CASE i = 1
    BY <2>1, <1>3
  <2>2. CASE i # 1
    BY <2>2, <1>2, <1>4
  <2> QED
    BY <2>1, <2>2
<1>7. {Head(s)} \cup Range(Tail(s)) \subseteq Range(s)
  BY <1>1, <1>2, <1>3, <1>5
<1>8. Len(s) = 1 => Range(s) = {Head(s)}
  BY <1>2, <1>3
<1> QED
  BY <1>2, <1>6, <1>7, <1>8

LEMMA ValueTyped ==
    ASSUME NEW s \in States, NEW f \in Fields
    PROVE  Value(s, f) \in FieldValues(f)
  BY Names DEF States, Fields, Value, FieldValues, Maybe

LEMMA EmptyTyped ==
    ASSUME NEW f \in Fields
    PROVE  Empty(f) \in FieldValues(f)
  BY Names, EmptyPartial DEF Fields, Empty, FieldValues, Maybe, Nodes, Rows


-----------------------------------------------------------------------------
(* Decoding and applying what a radio says                                  *)

\* Of what a burst contains everything is decoded, and into an event at least.
LEMMA DecodedTyped ==
    ASSUME state \in States, NEW msg \in Messages
    PROVE  Decoded(msg) \in Seq(Events) \ {<<>>}
<1> DEFINE ctx == [my_info |-> state.my_info, nodes |-> state.nodes,
                   our_private_key |-> state.our_private_key, pkc_seen |-> <<>>]
<1>1. CASE msg \in NodeInfos
  <2>1. Sanitised(msg) = msg
    BY <1>1 DEF Sanitised, NodeInfos
  <2>2. decode_node_info(msg, ctx) \in Seq(Events) \ {<<>>}
    <3>1. <<msg>> \in Seq(Events) /\ <<msg>> # <<>>
      BY DEF Events
    <3>2. [kind |-> "Owner", user |-> msg.user] \in Events
      BY <1>1 DEF Events, NodeInfos
    <3>3. CASE msg.num = ctx.my_info /\ msg.user # None
      <4>1. decode_node_info(msg, ctx) = <<[kind |-> "Owner", user |-> msg.user]>> \o <<msg>>
        BY <2>1, <3>3 DEF decode_node_info
      <4>2. <<[kind |-> "Owner", user |-> msg.user]>> \in Seq(Events)
        BY <3>2
      <4> QED
        BY <3>1, <4>1, <4>2, NotEmpty
    <3>4. CASE ~(msg.num = ctx.my_info /\ msg.user # None)
      <4>1. decode_node_info(msg, ctx) = <<>> \o <<msg>>
        BY <2>1, <3>4 DEF decode_node_info
      <4> QED
        BY <3>1, <4>1, ConcatEmptySeq
    <3> QED
      BY <3>3, <3>4
  <2>3. msg.kind = "NodeInfo"
    BY <1>1 DEF NodeInfos
  <2> QED
    BY <2>2, <2>3 DEF Decoded, decode_inbound, Plain
<1>2. CASE msg \notin NodeInfos
  <2>1. CASE msg.kind \in {"MyInfo", "Channel", "ConfigComplete"}
    BY <2>1 DEF Decoded, decode_inbound, Plain, Events
  <2>2. CASE msg \in [kind : {"Config"}, section : Sections \ TrackedModules, value : Values]
    BY <2>2, Names DEF Decoded, decode_inbound, Plain, Events
  <2>3. CASE msg \in [kind : {"ModuleConfig"}, section : Sections \cap TrackedModules, value : Values]
    BY <2>3, Names DEF Decoded, decode_inbound, Plain, Events
  <2> QED
    BY <1>2, <2>1, <2>2, <2>3 DEF Messages
<1> QED
  BY <1>1, <1>2

\* Channels and nodes one by one.
LEMMA ChannelAdded ==
    ASSUME NEW rows \in Rows, NEW i \in Chans, NEW v \in Values, NEW ch, ch.index = i, ch.value = v
    PROVE  upsert_channel(rows, ch) \in Rows
<1>1. DOMAIN rows \subseteq Chans /\ \A x \in DOMAIN rows : rows[x] \in Values
  BY PartialIs DEF Rows
<1> DEFINE E == DOMAIN rows \cup {i}
<1>2. upsert_channel(rows, ch) \in [E -> Values]
  BY <1>1 DEF upsert_channel
<1> QED
  BY <1>1, <1>2, IsPartial DEF Rows

\* A snapshot event changes the field it is published as, and no other.
LEMMA Applied ==
    ASSUME NEW s \in States, NEW event \in Events, is_snapshot(event)
    PROVE  /\ FieldOf(event) \in Fields
           /\ apply(s, event) \in States
           /\ \A f \in Fields \ {FieldOf(event)} : Value(apply(s, event), f) = Value(s, f)
<1> DEFINE new == apply(s, event)
<1>1. CASE event.kind = "MyInfo"
  <2>1. event.num \in Radios /\ new = [s EXCEPT !.my_info = event.num] /\ FieldOf(event) = "my_info"
    BY <1>1 DEF Events, Messages, NodeInfos, apply, FieldOf
  <2> QED
    BY <2>1, Names DEF States, Fields, Value
<1>2. CASE event.kind = "NodeInfo"
  <2>1. event \in NodeInfos /\ event.num \in Radios /\ FieldOf(event) = "nodes"
    BY <1>2 DEF Events, Messages, NodeInfos, FieldOf
  <2> DEFINE known == [n \in DOMAIN s.nodes \cup {event.num} |->
                         IF n = event.num THEN event ELSE s.nodes[n]]
  <2>2. new = [s EXCEPT !.nodes = known]
    BY <1>2 DEF apply
  <2>3. s.nodes \in PartialOf(Radios, NodeInfos)
    BY DEF States, Nodes
  <2>4. DOMAIN s.nodes \subseteq Radios /\ \A x \in DOMAIN s.nodes : s.nodes[x] \in NodeInfos
    BY <2>3, PartialIs
  <2> DEFINE E == DOMAIN s.nodes \cup {event.num}
  <2>5. known \in [E -> NodeInfos] /\ E \in SUBSET Radios
    BY <2>1, <2>4
  <2>6. known \in Nodes
    <3> HIDE DEF known, E
    <3> QED
      BY <2>5, IsPartial DEF Nodes
  <2> HIDE DEF known
  <2> QED
    BY <2>1, <2>2, <2>6, Names DEF States, Fields, Value
<1>3. CASE event.kind = "Owner"
  <2>1. event.user \in Values /\ new = [s EXCEPT !.owner = event.user] /\ FieldOf(event) = "owner"
    BY <1>3 DEF Events, Messages, NodeInfos, apply, FieldOf
  <2> QED
    BY <2>1, Names DEF States, Fields, Value, Maybe
<1>4. CASE event.kind \in {"Config", "ModuleConfig"}
  <2>1. event.section \in Sections /\ event.value \in Values /\ FieldOf(event) = event.section
    BY <1>4 DEF Events, Messages, NodeInfos, FieldOf
  <2>2. new = [s EXCEPT !.config[event.section] = event.value]
    BY <1>4, <2>1, Names DEF apply, apply_config
  <2> QED
    BY <2>1, <2>2, Names DEF States, Fields, Value, Maybe
<1>5. CASE event.kind = "Channel"
  <2>1. event.index \in Chans /\ event.value \in Values /\ FieldOf(event) = "channels"
    BY <1>5 DEF Events, Messages, NodeInfos, FieldOf
  <2>2. new = [s EXCEPT !.channels = upsert_channel(s.channels, event)]
    BY <1>5 DEF apply
  <2>3. upsert_channel(s.channels, event) \in Rows
    BY <2>1, ChannelAdded DEF States
  <2> QED
    BY <2>1, <2>2, <2>3, Names DEF States, Fields, Value
<1>6. event.kind \in {"MyInfo", "NodeInfo", "Owner", "Config", "ModuleConfig", "Channel"}
  BY DEF is_snapshot, Events, Messages, NodeInfos
<1> QED
  BY <1>1, <1>2, <1>3, <1>4, <1>5, <1>6

\* A refresh and a reset empty what they say, and keep the rest.
LEMMA Cleared ==
    ASSUME NEW s \in States
    PROVE  /\ clear_config(s) \in States /\ clear_nodes(s) \in States
           /\ \A f \in Fields \ ConfigFields : Value(clear_config(s), f) = Value(s, f)
           /\ \A f \in Fields \ {"nodes"} : Value(clear_nodes(s), f) = Value(s, f)
<1>1. <<>> \in Rows /\ <<>> \in Nodes
  BY EmptyPartial DEF Rows, Nodes
<1>2. clear_config(s) \in States
  BY <1>1 DEF clear_config, States, Maybe
<1>3. clear_nodes(s) \in States
  BY <1>1 DEF clear_nodes, States
<1>4. \A f \in Fields \ ConfigFields : Value(clear_config(s), f) = Value(s, f)
  BY Names DEF clear_config, States, Fields, ConfigFields, Value
<1>5. \A f \in Fields \ {"nodes"} : Value(clear_nodes(s), f) = Value(s, f)
  BY Names DEF clear_nodes, States, Fields, Value
<1> QED
  BY <1>2, <1>3, <1>4, <1>5

\* What is emptied at a refresh: every section and the channels.
LEMMA Order ==
    ClearOrder \in Seq(Fields) /\ ClearOrder # <<>> /\ Range(ClearOrder) = ConfigFields
<1>1. SectionOrder \in Seq(Sections) /\ Range(SectionOrder) = Sections
  BY Sequenced, Finite DEF SectionOrder
<1>2. SectionOrder \in Seq(Fields) /\ <<"channels">> \in Seq(Fields)
  BY <1>1, SeqMonotonic DEF Fields
<1>3. Range(<<"channels">>) = {"channels"}
  BY DEF Range
<1> QED
  <2>1. ClearOrder \in Seq(Fields) /\ ClearOrder # <<>>
    BY <1>2, NotEmpty DEF ClearOrder
  <2>2. Range(ClearOrder) = Range(SectionOrder) \cup Range(<<"channels">>)
    BY <1>2, RangeConcatenation DEF ClearOrder
  <2> QED
    BY <1>1, <1>3, <2>1, <2>2 DEF ConfigFields


\* A burst is made of messages.
LEMMA BurstTyped ==
    ASSUME RadioOK, NEW r \in Radios
    PROVE  Burst(r) \in Seq(Messages)
<1>1. device[r] \in Devices /\ \A n \in Radios : device[n] \in Devices
  BY DEF RadioOK
<1>2. \A n \in Radios : NodeMessage(n) \in Messages
  BY <1>1 DEF NodeMessage, Messages, NodeInfos, Devices
<1> DEFINE K == SetToSeq(device[r].known)
           nodes == [j \in 1 .. Cardinality(device[r].known) |-> NodeMessage(K[j])]
           secs == [j \in DOMAIN SectionOrder |->
                      SectionMessage(SectionOrder[j], device[r].config[SectionOrder[j]])]
           chs == [j \in DOMAIN ChanOrder |-> [kind |-> "Channel", index |-> ChanOrder[j],
                                               value |-> device[r].channels[ChanOrder[j]]]]
           start == <<[kind |-> "MyInfo", num |-> r], NodeMessage(r)>>
           end == <<[kind |-> "ConfigComplete", nonce |-> 0]>>
<1>3. start \in Seq(Messages)
  <2>1. [kind |-> "MyInfo", num |-> r] \in Messages
    BY DEF Messages
  <2> QED
    BY <1>2, <2>1
<1>4. end \in Seq(Messages)
  <2>1. [kind |-> "ConfigComplete", nonce |-> 0] \in Messages
    BY DEF Messages
  <2> QED
    BY <2>1
<1>5. nodes \in Seq(Messages)
  <2>1. device[r].known \in SUBSET Radios
    BY <1>1 DEF Devices
  <2>2. IsFiniteSet(device[r].known)
    BY <2>1, Finite
  <2>3. K \in Seq(device[r].known) /\ Cardinality(device[r].known) \in Nat
        /\ DOMAIN K = 1 .. Cardinality(device[r].known)
    BY <2>2, Sequenced
  <2>4. \A j \in 1 .. Cardinality(device[r].known) : NodeMessage(K[j]) \in Messages
    <3>1. \A j \in DOMAIN K : K[j] \in Radios
      BY <2>1, <2>3
    <3> QED
      BY <2>3, <3>1, <1>2
  <2> HIDE DEF K
  <2> QED
    BY <2>3, <2>4
<1>6. secs \in Seq(Messages)
  <2>1. SectionOrder \in Seq(Sections)
    BY Sequenced, Finite DEF SectionOrder
  <2>2. ASSUME NEW j \in DOMAIN SectionOrder
        PROVE  secs[j] \in Messages
    <3>1. SectionOrder[j] \in Sections
      BY <2>1
    <3>2. device[r].config[SectionOrder[j]] \in Values
      BY <1>1, <3>1 DEF Devices
    <3> QED
      BY <3>1, <3>2 DEF SectionMessage, Messages
  <2>3. DOMAIN SectionOrder = 1 .. Len(SectionOrder) /\ Len(SectionOrder) \in Nat
    BY <2>1
  <2> QED
    BY <2>2, <2>3
<1>7. chs \in Seq(Messages)
  <2>1. ChanOrder \in Seq(Chans)
    BY Sequenced, Finite DEF ChanOrder
  <2>2. ASSUME NEW j \in DOMAIN ChanOrder
        PROVE  chs[j] \in Messages
    <3>1. ChanOrder[j] \in Chans
      BY <2>1
    <3>2. device[r].channels[ChanOrder[j]] \in Values
      BY <1>1, <3>1 DEF Devices
    <3> QED
      BY <3>1, <3>2 DEF Messages
  <2>3. DOMAIN ChanOrder = 1 .. Len(ChanOrder) /\ Len(ChanOrder) \in Nat
    BY <2>1
  <2> QED
    BY <2>2, <2>3
<1>8. Burst(r) = start \o nodes \o secs \o chs \o end
  BY DEF Burst
<1> HIDE DEF start, nodes, secs, chs, end
<1> QED
  BY <1>3, <1>4, <1>5, <1>6, <1>7, <1>8, ConcatProperties

LEMMA QueuedTyped ==
    ASSUME NEW frames \in Seq(Messages)
    PROVE  Queued(frames) \in Seq(Messages)
<1>1. Len(frames) \in Nat /\ LineCapacity \in Nat
  BY LenProperties, DeviceAssumption DEF DeviceAssumption
<1>2. ASSUME Len(frames) > LineCapacity
      PROVE  SubSeq(frames, 1, LineCapacity) \in Seq(Messages)
  BY <1>1, <1>2, ElementOfSeq, SubSeqProperties
<1> QED
  BY <1>2 DEF Queued

\* Whoever asks keeps the lines typed.
LEMMA AskedTyped ==
    ASSUME RadioOK, NEW c \in Conns, peer'[c] \in Radios, Asked(c)
    PROVE  line' \in [Conns -> Seq(Messages)]
<1>1. line[c] \o Burst(peer'[c]) \in Seq(Messages)
  BY BurstTyped, ConcatProperties DEF RadioOK
<1>2. Queued(line[c] \o Burst(peer'[c])) \in Seq(Messages)
  BY <1>1, QueuedTyped
<1> QED
  BY <1>2 DEF Asked, RadioOK


-----------------------------------------------------------------------------
(* Publishing                                                               *)

\* A publication changes one mirror, to what it says, if anybody listens.
LEMMA PublicationKept ==
    ASSUME ServiceOK, state' \in States, NEW f \in Fields, NEW value \in FieldValues(f),
           NEW late, Publish(f, value, late)
    PROVE  /\ ServiceOK'
           /\ UNCHANGED <<client, listening>>
           /\ \A g \in Fields \ {f} : mirror'[g] = mirror[g]
           /\ listening => mirror'[f] = value
           /\ ~listening => mirror' = mirror
           /\ overtaken \ {f} \subseteq overtaken'
           /\ ~listening \/ late => f \in overtaken'
           /\ unseen \subseteq unseen' /\ unseen' \subseteq unseen \cup {f}
           /\ listening /\ f \in Followed => f \in unseen'
<1>1. mirror' = (IF listening THEN [mirror EXCEPT ![f] = value] ELSE mirror) /\ UNCHANGED <<client, listening>>
  BY DEF Publish
<1>2. DOMAIN mirror = Fields /\ (\A g \in Fields : mirror[g] \in FieldValues(g))
      /\ mirror = [g \in Fields |-> mirror[g]]
  BY DEF ServiceOK
<1>3. DOMAIN mirror' = Fields /\ mirror' = [g \in Fields |-> mirror'[g]]
  <2>1. CASE listening
    BY <1>1, <1>2, <2>1
  <2>2. CASE ~listening
    BY <1>1, <1>2, <2>2
  <2> QED
    BY <2>1, <2>2 DEF ServiceOK
<1>4. \A g \in Fields \ {f} : mirror'[g] = mirror[g]
  BY <1>1, <1>2
<1>5. (listening => mirror'[f] = value) /\ (~listening => mirror' = mirror)
  BY <1>1, <1>2
<1>6. \A g \in Fields : mirror'[g] \in FieldValues(g)
  BY <1>2, <1>4, <1>5 DEF ServiceOK
<1>7. ServiceOK'
  BY <1>1, <1>3, <1>6 DEF ServiceOK, FieldValues
<1> QED
  BY <1>1, <1>4, <1>5, <1>7 DEF Publish

\* Whatever an event says, the mirrors still agree after it.
LEMMA EventKept ==
    ASSUME ServiceOK, MirrorsAgree, NEW event \in Events, apply_inbound(event), UNCHANGED refresher
    PROVE  /\ ServiceOK' /\ MirrorsAgree'
           /\ UNCHANGED <<client, listening>>
           /\ unseen \subseteq unseen'
           /\ \A g \in Fields \cap Followed : mirror'[g] = mirror[g] \/ g \in unseen'
<1>1. CASE is_snapshot(event)
  <2> DEFINE f == FieldOf(event)
  <2>1. f \in Fields /\ state' = apply(state, event) /\ state' \in States
        /\ \A g \in Fields \ {f} : Value(state', g) = Value(state, g)
    BY <1>1, Applied DEF apply_inbound, ServiceOK
  <2>2. Publish(f, Value(state', f), FALSE)
    BY <1>1, <2>1 DEF apply_inbound, Mirrored
  <2>3. Value(state', f) \in FieldValues(f)
    BY <2>1, ValueTyped
  <2> HIDE DEF f
  <2>4. /\ ServiceOK' /\ UNCHANGED <<client, listening>>
        /\ \A g \in Fields \ {f} : mirror'[g] = mirror[g]
        /\ listening => mirror'[f] = Value(state', f)
        /\ overtaken \ {f} \subseteq overtaken'
        /\ ~listening => f \in overtaken'
        /\ unseen \subseteq unseen'
        /\ listening /\ f \in Followed => f \in unseen'
        /\ ~listening => mirror' = mirror
    BY <2>1, <2>2, <2>3, PublicationKept
  <2>5. MirrorsAgree'
    BY <2>1, <2>4 DEF MirrorsAgree, Value
  <2> QED
    BY <2>1, <2>4, <2>5
<1>2. CASE ~is_snapshot(event)
  <2>1. UNCHANGED <<state, mirror, listening, unseen, overtaken, client>>
    BY <1>2 DEF apply_inbound
  <2>2. ServiceOK' /\ MirrorsAgree'
    BY <2>1 DEF ServiceOK, MirrorsAgree, FieldValues, Value
  <2> QED
    BY <2>1, <2>2
<1> QED
  BY <1>1, <1>2


-----------------------------------------------------------------------------
(* The device's half of the invariant                                       *)

DeviceInv == RadioOK /\ ServiceOK /\ RefreshOK /\ MirrorsAgree

\* What a step of the device leaves to its followers: a change they follow
\* is unseen until they look.
Announced ==
    /\ UNCHANGED <<client, listening>>
    /\ unseen \subseteq unseen'
    /\ \A g \in Fields \cap Followed : mirror'[g] = mirror[g] \/ g \in unseen'

LEMMA ServiceAside ==
    ASSUME ServiceOK, UNCHANGED service, UNCHANGED client
    PROVE  ServiceOK' /\ Announced
  BY DEF ServiceOK, FieldValues, service, Announced

LEMMA AgreeAside ==
    ASSUME MirrorsAgree, UNCHANGED service, \A k \in Refreshers : refresher'[k].todo = refresher[k].todo
    PROVE  MirrorsAgree'
  BY DEF MirrorsAgree, service, Value

LEMMA DeviceInit == Init => DeviceInv
<1> SUFFICES ASSUME Init
             PROVE  DeviceInv
  OBVIOUS
<1>1. RadioOK
  <2>1. device \in [Radios -> Devices]
    <3>1. PICK v \in [Radios -> Values] :
             device = [r \in Radios |-> [owner |-> v[r], config |-> [s \in Sections |-> v[r]],
                                         channels |-> [i \in Chans |-> v[r]], known |-> {}]]
      BY DEF Init
    <3> QED
      BY <3>1 DEF Devices
  <2>2. Len(<<>>) = 0 /\ <<>> \in Seq(Radios) /\ <<>> \in Seq(Messages) /\ <<>> \in Seq(Events)
    BY EmptySeq
  <2>3. line \in [Conns -> Seq(Messages)] /\ events \in [Conns -> Seq(Events)]
    BY <2>2 DEF Init, Conns
  <2>4. peer \in Seq(Radios) /\ Len(peer) <= MaxConns
    BY <2>2, DeviceAssumption DEF Init, DeviceAssumption
  <2> QED
    BY <2>1, <2>3, <2>4 DEF Init, RadioOK
<1>2. ServiceOK
  <2>1. state \in States
    BY EmptyPartial DEF Init, Blank, States, Rows, Nodes, Maybe
  <2>2. \A f \in Fields : mirror[f] \in FieldValues(f)
    BY EmptyTyped DEF Init
  <2>3. client \in {"desktop", "android"}
    BY DeviceAssumption DEF DeviceAssumption, Init
  <2> QED
    BY <2>1, <2>2, <2>3 DEF Init, ServiceOK
<1>3. RefreshOK
  BY EmptySeq DEF Init, RefreshOK, RefresherOK
<1>4. MirrorsAgree
  <2>1. ASSUME NEW f \in Fields
        PROVE  mirror[f] = Value(state, f)
    <3>1. mirror[f] = Empty(f) /\ state = Blank(Sections)
      BY DEF Init
    <3>2. CASE f \in Sections
      BY <3>1, <3>2, Names DEF Value, Empty, Blank
    <3>3. CASE f \in {"my_info", "nodes", "owner", "metadata", "channels"}
      BY <3>1, <3>3, Names DEF Value, Empty, Blank
    <3> QED
      BY <3>2, <3>3 DEF Fields
  <2> QED
    BY <2>1 DEF MirrorsAgree
<1> QED
  BY <1>1, <1>2, <1>3, <1>4 DEF DeviceInv

LEMMA ReaderStep ==
    ASSUME DeviceInv, NEW c \in Conns, handle_from_radio(c)
    PROVE  DeviceInv' /\ Announced
<1> DEFINE todo == IF events[c] # <<>> THEN events[c] ELSE Decoded(Head(line[c]))
<1>1. /\ line[c] # <<>> \/ events[c] # <<>>
      /\ line' = IF events[c] # <<>> THEN line ELSE [line EXCEPT ![c] = Tail(@)]
      /\ events' = [events EXCEPT ![c] = Tail(todo)]
      /\ apply_inbound(Head(todo))
      /\ UNCHANGED <<device, peer, up, refresher, troubles, changes>>
  BY DEF handle_from_radio
<1>2. events[c] \in Seq(Events) /\ line[c] \in Seq(Messages)
  BY DEF DeviceInv, RadioOK
<1>3. todo \in Seq(Events) \ {<<>>}
  <2>1. CASE events[c] # <<>>
    BY <1>2, <2>1
  <2>2. CASE events[c] = <<>>
    <3>1. Head(line[c]) \in Messages
      BY <1>1, <1>2, <2>2, HeadTailProperties
    <3> QED
      BY <2>2, <3>1, DecodedTyped DEF DeviceInv, ServiceOK
  <2> QED
    BY <2>1, <2>2
<1>4. Head(todo) \in Events /\ Tail(todo) \in Seq(Events)
  <2> HIDE DEF todo
  <2> QED
    BY <1>3, HeadTailProperties
<1>5. RadioOK'
  <2>1. events' \in [Conns -> Seq(Events)]
    <3> HIDE DEF todo
    <3> QED
      BY <1>1, <1>4 DEF DeviceInv, RadioOK
  <2>2. line' \in [Conns -> Seq(Messages)]
    <3>1. CASE events[c] # <<>>
      BY <1>1, <3>1 DEF DeviceInv, RadioOK
    <3>2. CASE events[c] = <<>>
      <4>1. Tail(line[c]) \in Seq(Messages)
        BY <1>1, <1>2, <3>2, HeadTailProperties
      <4> QED
        BY <1>1, <3>2, <4>1 DEF DeviceInv, RadioOK
    <3> QED
      BY <3>1, <3>2
  <2> QED
    BY <1>1, <2>1, <2>2 DEF DeviceInv, RadioOK
<1>6. ServiceOK' /\ MirrorsAgree' /\ Announced
  <2> HIDE DEF todo
  <2> QED
    BY <1>1, <1>4, EventKept DEF DeviceInv, Announced
<1>7. RefreshOK'
  BY <1>1 DEF DeviceInv, RefreshOK, RefresherOK
<1> QED
  BY <1>5, <1>6, <1>7 DEF DeviceInv

LEMMA ConnectStep ==
    ASSUME DeviceInv, NEW r \in Radios, connect_with_transport(r)
    PROVE  DeviceInv' /\ Announced
<1>1. /\ Len(peer) < MaxConns /\ peer' = Append(peer, r) /\ up' = TRUE /\ Asked(Len(peer) + 1)
      /\ UNCHANGED <<device, events, service, client, refresher>>
  BY DEF connect_with_transport
<1>2. MaxConns \in Nat /\ peer \in Seq(Radios) /\ Len(peer) \in Nat
  BY DeviceAssumption, LenProperties DEF DeviceAssumption, DeviceInv, RadioOK
<1>3. /\ peer' \in Seq(Radios) /\ peer' # <<>> /\ Len(peer') = Len(peer) + 1
      /\ peer'[Len(peer) + 1] = r
  BY <1>1, <1>2, AppendProperties
<1>4. Len(peer) + 1 \in Conns
  BY <1>1, <1>2 DEF Conns
<1>5. line' \in [Conns -> Seq(Messages)]
  BY <1>1, <1>3, <1>4, AskedTyped DEF DeviceInv
<1>6. RadioOK'
  BY <1>1, <1>2, <1>3, <1>5 DEF DeviceInv, RadioOK
<1>7. ServiceOK' /\ Announced /\ MirrorsAgree' /\ RefreshOK'
  BY <1>1, ServiceAside, AgreeAside DEF DeviceInv, RefreshOK, RefresherOK
<1> QED
  BY <1>6, <1>7 DEF DeviceInv

\* A step of a radio, or of a link that ends.
LEMMA RadioStep ==
    ASSUME DeviceInv, disconnect \/ \E r \in Radios : SomebodyChanges(r)
    PROVE  DeviceInv' /\ Announced
<1> DEFINE Changed == /\ device' \in [Radios -> Devices] /\ (up' => up) /\ up' \in BOOLEAN
                      /\ UNCHANGED <<line, events, peer, service, client, refresher>>
<1>1. Changed
  <2>1. CASE disconnect
    BY <2>1 DEF disconnect, DeviceInv, RadioOK
  <2>2. ASSUME NEW r \in Radios, SomebodyChanges(r)
        PROVE  Changed
    <3>1. PICK v \in Values :
             device' = [device EXCEPT ![r].owner = v, ![r].config = [s \in Sections |-> v],
                                      ![r].channels = [i \in Chans |-> v],
                                      ![r].known = Radios \ {r}]
      BY <2>2 DEF SomebodyChanges
    <3>2. device[r] \in Devices
      BY DEF DeviceInv, RadioOK
    <3>3. [owner |-> v, config |-> [s \in Sections |-> v], channels |-> [i \in Chans |-> v],
           known |-> Radios \ {r}] \in Devices
      BY DEF Devices
    <3>4. /\ \A n \in Radios \ {r} : device'[n] = device[n]
          /\ device'[r] = [owner |-> v, config |-> [s \in Sections |-> v],
                           channels |-> [i \in Chans |-> v], known |-> Radios \ {r}]
          /\ device' = [n \in Radios |-> device'[n]]
      BY <3>1, <3>2 DEF Devices, DeviceInv, RadioOK
    <3>5. device' \in [Radios -> Devices]
      BY <3>3, <3>4 DEF DeviceInv, RadioOK
    <3> QED
      BY <2>2, <3>5 DEF SomebodyChanges, DeviceInv, RadioOK
  <2> QED
    BY <2>1, <2>2
<1>2. RadioOK'
  BY <1>1 DEF DeviceInv, RadioOK
<1>3. ServiceOK' /\ Announced /\ MirrorsAgree' /\ RefreshOK'
  BY <1>1, ServiceAside, AgreeAside DEF DeviceInv, RefreshOK, RefresherOK
<1> QED
  BY <1>2, <1>3 DEF DeviceInv


LEMMA AskStep ==
    ASSUME DeviceInv, NEW k \in Refreshers, RefreshAsks(k)
    PROVE  DeviceInv' /\ Announced
<1>1. /\ Begins(k)
      /\ IF up THEN UNCHANGED peer /\ Asked(Len(peer)) ELSE UNCHANGED <<line, peer>>
      /\ refresher' = [refresher EXCEPT ![k].pc = IF up THEN "asked" ELSE "idle"]
      /\ UNCHANGED <<device, events, up, service, client>>
  BY DEF RefreshAsks
<1>2. line' \in [Conns -> Seq(Messages)]
  <2>1. CASE up
    <3>1. peer \in Seq(Radios) /\ peer # <<>> /\ Len(peer) \in Nat /\ Len(peer) <= MaxConns
      BY <2>1, LenProperties DEF DeviceInv, RadioOK
    <3>2. Len(peer) \in 1 .. Len(peer) /\ Len(peer) \in Conns
      BY <3>1, EmptySeq, DeviceAssumption DEF Conns, DeviceAssumption
    <3>3. peer'[Len(peer)] \in Radios
      BY <1>1, <2>1, <3>1, <3>2, ElementOfSeq
    <3> QED
      BY <1>1, <2>1, <3>2, <3>3, AskedTyped DEF DeviceInv
  <2>2. CASE ~up
    BY <1>1, <2>2 DEF DeviceInv, RadioOK
  <2> QED
    BY <2>1, <2>2
<1>3. RadioOK'
  BY <1>1, <1>2 DEF DeviceInv, RadioOK
<1>4. /\ refresher' = [j \in Refreshers |-> refresher'[j]]
      /\ \A j \in Refreshers \ {k} : refresher'[j] = refresher[j]
      /\ refresher'[k] = [refresher[k] EXCEPT !.pc = IF up THEN "asked" ELSE "idle"]
  BY <1>1 DEF DeviceInv, RefreshOK
<1>5. RefresherOK(k)'
  <2>1. RefresherOK(k) /\ refresher[k].pc \in {"idle", "refreshes"}
    BY <1>1 DEF Begins, DeviceInv, RefreshOK
  <2> QED
    BY <1>4, <2>1 DEF RefresherOK
<1>6. RefreshOK'
  BY <1>4, <1>5 DEF DeviceInv, RefreshOK, RefresherOK
<1>7. \A j \in Refreshers : refresher'[j].todo = refresher[j].todo
  BY <1>4 DEF DeviceInv, RefreshOK, RefresherOK
<1>8. ServiceOK' /\ Announced /\ MirrorsAgree'
  BY <1>1, <1>7, ServiceAside, AgreeAside DEF DeviceInv
<1> QED
  BY <1>3, <1>6, <1>8 DEF DeviceInv

\* The state is emptied; the mirrors of what was lost are now to be emptied.
LEMMA ClearStep ==
    ASSUME DeviceInv, NEW k \in Refreshers, RefreshClears(k) \/ ResetClears(k)
    PROVE  DeviceInv' /\ Announced
<1> DEFINE asked == refresher[k].pc = "asked"
           lost == IF asked THEN ConfigFields ELSE {"nodes"}
           todo == IF asked THEN ClearOrder ELSE <<"nodes">>
<1>1. /\ refresher[k].pc \in {"asked", "reset"}
      /\ state' = IF asked THEN clear_config(state) ELSE clear_nodes(state)
      /\ refresher' = [refresher EXCEPT ![k] = [pc |-> IF asked THEN "clears" ELSE "forgets",
                                                todo |-> todo]]
      /\ UNCHANGED <<radio, mirror, listening, unseen, completes, overtaken, client>>
  <2>1. CASE RefreshClears(k)
    BY <2>1 DEF RefreshClears
  <2>2. CASE ResetClears(k)
    BY <2>2 DEF ResetClears
  <2> QED
    BY <2>1, <2>2
<1>2. RadioOK'
  BY <1>1 DEF DeviceInv, RadioOK, radio
<1>3. state' \in States /\ \A f \in Fields \ lost : Value(state', f) = Value(state, f)
  BY <1>1, Cleared DEF DeviceInv, ServiceOK
<1>4. ServiceOK' /\ Announced
  BY <1>1, <1>3 DEF DeviceInv, ServiceOK, FieldValues, Announced
<1>5. todo \in Seq(Fields) /\ todo # <<>> /\ Range(todo) = lost
  <2>1. <<"nodes">> \in Seq(Fields) /\ <<"nodes">> # <<>> /\ Range(<<"nodes">>) = {"nodes"}
    BY DEF Fields, Range
  <2> QED
    BY <2>1, Order
<1>6. /\ refresher' = [j \in Refreshers |-> refresher'[j]]
      /\ \A j \in Refreshers \ {k} : refresher'[j] = refresher[j]
      /\ refresher'[k] = [pc |-> IF asked THEN "clears" ELSE "forgets", todo |-> todo]
  <2> HIDE DEF todo
  <2> QED
    BY <1>1 DEF DeviceInv, RefreshOK
<1>7. RefreshOK'
  <2>1. RefresherOK(k)'
    <3>1. CASE asked
      BY <1>5, <1>6, <3>1 DEF RefresherOK
    <3>2. CASE ~asked
      BY <1>5, <1>6, <3>2 DEF RefresherOK
    <3> QED
      BY <3>1, <3>2
  <2> HIDE DEF todo
  <2> QED
    BY <1>6, <2>1 DEF DeviceInv, RefreshOK, RefresherOK
<1>8. MirrorsAgree'
  <2> SUFFICES ASSUME NEW f \in Fields
               PROVE  \/ mirror'[f] = Value(state', f)
                      \/ f \in overtaken'
                      \/ \E j \in Refreshers : f \in Range(refresher'[j].todo)
    BY DEF MirrorsAgree, Value
  <2>1. CASE f \in lost
    <3> HIDE DEF todo, lost
    <3>1. refresher'[k].todo = todo
      BY <1>6
    <3> QED
      BY <1>5, <2>1, <3>1
  <2>2. CASE f \notin lost
    <3> HIDE DEF todo, lost
    <3>1. Value(state', f) = Value(state, f) /\ mirror'[f] = mirror[f] /\ overtaken' = overtaken
      BY <1>1, <1>3, <2>2
    <3>2. ASSUME NEW j \in Refreshers, f \in Range(refresher[j].todo)
          PROVE  f \in Range(refresher'[j].todo)
      <4>1. j # k
        <5>1. refresher[k].todo = <<>>
          BY <1>1 DEF DeviceInv, RefreshOK, RefresherOK
        <5> QED
          BY <3>2, <5>1 DEF Range
      <4> QED
        BY <1>6, <3>2, <4>1
    <3> QED
      BY <3>1, <3>2 DEF DeviceInv, MirrorsAgree
  <2> QED
    BY <2>1, <2>2
<1> QED
  BY <1>2, <1>4, <1>7, <1>8 DEF DeviceInv


\* The next mirror is emptied; one that meanwhile got an answer, or has no
\* listener, is overtaken.
LEMMA ForgetStep ==
    ASSUME DeviceInv, NEW k \in Refreshers, MirrorCleared(k) \/ MirrorForgets(k)
    PROVE  DeviceInv' /\ Announced
<1> DEFINE f == Head(refresher[k].todo)
           late == Value(state, f) # Empty(f)
<1>1. /\ refresher[k].todo \in Seq(Fields) /\ refresher[k].todo # <<>>
      /\ refresher[k].pc \in {"clears", "forgets"}
      /\ refresher[k].pc = "forgets" => refresher[k].todo = <<"nodes">>
  <2>1. RefresherOK(k) /\ refresher[k].pc \in {"clears", "forgets"}
    BY DEF MirrorCleared, MirrorForgets, DeviceInv, RefreshOK
  <2>2. <<"nodes">> # <<>>
    OBVIOUS
  <2> QED
    BY <2>1, <2>2 DEF RefresherOK
<1>2. f \in Fields
  BY <1>1, HeadTailProperties
<1>3. /\ Publish(f, Empty(f), late)
      /\ \/ /\ Len(refresher[k].todo) = 1
            /\ \E pc \in {"idle", "refreshes"} :
                 refresher' = [refresher EXCEPT ![k] = [pc |-> pc, todo |-> <<>>]]
         \/ /\ Len(refresher[k].todo) # 1 /\ refresher[k].pc = "clears"
            /\ refresher' = [refresher EXCEPT ![k] = [pc |-> "clears", todo |-> Tail(refresher[k].todo)]]
      /\ UNCHANGED <<radio, state>>
  <2>1. CASE MirrorCleared(k)
    <3>1. Publish(f, Empty(f), late) /\ UNCHANGED <<radio, state>> /\ refresher[k].pc = "clears"
      BY <2>1 DEF MirrorCleared
    <3>2. CASE Len(refresher[k].todo) = 1
      <4>1. refresher' = [refresher EXCEPT ![k] = [pc |-> "idle", todo |-> <<>>]]
        BY <2>1, <3>2 DEF MirrorCleared
      <4> QED
        BY <3>1, <3>2, <4>1
    <3>3. CASE Len(refresher[k].todo) # 1
      <4>1. refresher' = [refresher EXCEPT ![k] = [pc |-> "clears", todo |-> Tail(refresher[k].todo)]]
        BY <2>1, <3>3 DEF MirrorCleared
      <4> QED
        BY <3>1, <3>3, <4>1
    <3> QED
      BY <3>2, <3>3
  <2>2. CASE MirrorForgets(k)
    <3>1. refresher[k].todo = <<"nodes">>
      BY <2>2, <1>1 DEF MirrorForgets
    <3>2. f = "nodes" /\ Len(refresher[k].todo) = 1
      BY <3>1
    <3>3. Empty("nodes") = <<>> /\ Value(state, "nodes") = state.nodes
      BY Names DEF Empty, Value
    <3> QED
      BY <2>2, <3>2, <3>3 DEF MirrorForgets
  <2> QED
    BY <2>1, <2>2
<1> HIDE DEF f, late
<1>4. RadioOK'
  BY <1>3 DEF DeviceInv, RadioOK, radio
<1>5. /\ ServiceOK' /\ UNCHANGED <<client, listening>>
      /\ \A g \in Fields \ {f} : mirror'[g] = mirror[g]
      /\ listening => mirror'[f] = Empty(f)
      /\ ~listening => mirror' = mirror
      /\ overtaken \ {f} \subseteq overtaken'
      /\ ~listening \/ late => f \in overtaken'
      /\ unseen \subseteq unseen'
      /\ listening /\ f \in Followed => f \in unseen'
  <2>1. Empty(f) \in FieldValues(f)
    BY <1>2, EmptyTyped
  <2>2. state' \in States
    BY <1>3 DEF DeviceInv, ServiceOK
  <2> QED
    BY <1>2, <1>3, <2>1, <2>2, PublicationKept DEF DeviceInv
<1>6. Announced
  BY <1>5 DEF Announced
<1>7. /\ refresher' = [j \in Refreshers |-> refresher'[j]]
      /\ \A j \in Refreshers \ {k} : refresher'[j] = refresher[j]
      /\ Range(refresher[k].todo) \subseteq {f} \cup Range(refresher'[k].todo)
      /\ RefresherOK(k)'
  <2>1. Range(refresher[k].todo) = {f} \cup Range(Tail(refresher[k].todo))
        /\ (Len(refresher[k].todo) = 1 => Range(refresher[k].todo) = {f})
    BY <1>1, RangeOfTail DEF f
  <2>2. /\ Tail(refresher[k].todo) \in Seq(Fields)
        /\ Len(refresher[k].todo) # 1 => Tail(refresher[k].todo) # <<>>
    <3>1. Tail(refresher[k].todo) \in Seq(Fields) /\ Len(Tail(refresher[k].todo)) = Len(refresher[k].todo) - 1
      BY <1>1, HeadTailProperties
    <3>2. Len(refresher[k].todo) \in Nat \ {0} /\ Len(<<>>) = 0
      BY <1>1, EmptySeq
    <3>3. ASSUME Len(refresher[k].todo) # 1
          PROVE  Len(Tail(refresher[k].todo)) # 0
      BY <3>1, <3>2, <3>3
    <3> QED
      BY <3>1, <3>2, <3>3
  <2>3. refresher = [j \in Refreshers |-> refresher[j]] /\ RefresherOK(k)
    BY DEF DeviceInv, RefreshOK
  <2>4. CASE Len(refresher[k].todo) = 1
    <3>1. PICK pc \in {"idle", "refreshes"} :
             refresher' = [refresher EXCEPT ![k] = [pc |-> pc, todo |-> <<>>]]
      BY <1>3, <2>4
    <3> QED
      BY <2>1, <2>3, <2>4, <3>1 DEF RefresherOK
  <2>5. CASE Len(refresher[k].todo) # 1
    <3>1. refresher' = [refresher EXCEPT ![k] = [pc |-> "clears", todo |-> Tail(refresher[k].todo)]]
      BY <1>3, <2>5
    <3>2. refresher'[k].todo = Tail(refresher[k].todo) /\ refresher'[k].pc = "clears"
          /\ refresher'[k] \in [pc : {"clears"}, todo : Seq(Fields)]
      BY <2>2, <2>3, <3>1 DEF RefresherOK
    <3> QED
      BY <2>1, <2>2, <2>3, <2>5, <3>1, <3>2 DEF RefresherOK
  <2> QED
    BY <2>4, <2>5
<1>8. RefreshOK'
  BY <1>7 DEF DeviceInv, RefreshOK, RefresherOK
<1>9. MirrorsAgree'
  <2> SUFFICES ASSUME NEW g \in Fields
               PROVE  \/ mirror'[g] = Value(state', g)
                      \/ g \in overtaken'
                      \/ \E j \in Refreshers : g \in Range(refresher'[j].todo)
    BY DEF MirrorsAgree, Value
  <2>1. state' = state
    BY <1>3
  <2>2. CASE g = f
    BY <1>5, <2>1, <2>2 DEF late
  <2>3. CASE g # f
    <3>1. mirror'[g] = mirror[g] /\ (g \in overtaken => g \in overtaken')
      BY <1>5, <2>3
    <3>2. ASSUME NEW j \in Refreshers, g \in Range(refresher[j].todo)
          PROVE  g \in Range(refresher'[j].todo)
      BY <1>7, <2>3, <3>2
    <3> QED
      BY <2>1, <3>1, <3>2 DEF DeviceInv, MirrorsAgree
  <2> QED
    BY <2>2, <2>3
<1> QED
  BY <1>4, <1>5, <1>6, <1>8, <1>9 DEF DeviceInv

LEMMA ResetStep ==
    ASSUME DeviceInv, NEW k \in Refreshers, ResetAsks(k)
    PROVE  DeviceInv' /\ Announced
<1>1. /\ refresher[k].pc = "idle" /\ up
      /\ device' = IF state.my_info = Last(peer) THEN [device EXCEPT ![Last(peer)].known = {}]
                                                ELSE device
      /\ refresher' = [refresher EXCEPT ![k].pc = "reset"]
      /\ UNCHANGED <<line, events, peer, up, service, client>>
  BY DEF ResetAsks
<1>2. RadioOK'
  <2>1. device' \in [Radios -> Devices]
    BY <1>1 DEF DeviceInv, RadioOK, Devices
  <2> QED
    BY <1>1, <2>1 DEF DeviceInv, RadioOK
<1>3. RefreshOK' /\ \A j \in Refreshers : refresher'[j].todo = refresher[j].todo
  BY <1>1 DEF DeviceInv, RefreshOK, RefresherOK
<1>4. ServiceOK' /\ Announced /\ MirrorsAgree'
  BY <1>1, <1>3, ServiceAside, AgreeAside DEF DeviceInv
<1> QED
  BY <1>2, <1>3, <1>4 DEF DeviceInv

LEMMA DeviceStep ==
    ASSUME DeviceInv, DeviceNext
    PROVE  DeviceInv' /\ Announced
<1>1. CASE \E c \in 1 .. MaxConns : handle_from_radio(c)
  BY <1>1, ReaderStep DEF Conns
<1>2. CASE \E r \in Radios : connect_with_transport(r) \/ SomebodyChanges(r)
  BY <1>2, ConnectStep, RadioStep
<1>3. CASE disconnect
  BY <1>3, RadioStep
<1>4. ASSUME NEW k \in Refreshers, RefreshStep(k)
      PROVE  DeviceInv' /\ Announced
  BY <1>4, AskStep, ClearStep, ForgetStep, ResetStep DEF RefreshStep
<1> QED
  BY <1>1, <1>2, <1>3, <1>4 DEF DeviceNext


-----------------------------------------------------------------------------
(* The followers' half                                                      *)

ViewsInv == DeviceInv /\ DesktopOK /\ AndroidOK /\ FormTruthful /\ KotlinInv

\* A step of a follower, which only looks.
LEMMA DeviceAside ==
    ASSUME DeviceInv, UNCHANGED <<radio, state, mirror, client, overtaken, refresher>>,
           listening' \in BOOLEAN, listening => listening'
    PROVE  DeviceInv'
<1>1. RadioOK'
  BY DEF DeviceInv, RadioOK, radio
<1>2. ServiceOK'
  BY DEF DeviceInv, ServiceOK, FieldValues
<1>3. RefreshOK' /\ MirrorsAgree'
  BY DEF DeviceInv, RefreshOK, RefresherOK, MirrorsAgree, Value
<1> QED
  BY <1>1, <1>2, <1>3 DEF DeviceInv

LEMMA TagIs ==
    ASSUME NEW t \in Tags
    PROVE  \/ t[1] \in Cards /\ t = <<t[1], 0>>
           \/ t[1] = "channels" /\ t[1] \notin Cards /\ t[2] \in Chans /\ t = <<"channels", t[2]>>
  BY Names DEF Tags

LEMMA ShownTyped ==
    ASSUME DesktopOK, NEW t \in Tags
    PROVE  /\ Shown(t) \in Maybe
           /\ Shown(t) # None => Shown(t) \in Values
<1>1. CASE t[1] \in Cards
  BY <1>1 DEF Shown, DesktopOK, Maybe
<1>2. CASE t[1] \notin Cards
  <2>1. form.rows \in Rows
    BY DEF DesktopOK
  <2>2. \A i \in DOMAIN form.rows : form.rows[i] \in Values
    BY <2>1, PartialIs DEF Rows
  <2> QED
    BY <1>2, <2>2 DEF Shown, ValueAt, Maybe
<1> QED
  BY <1>1, <1>2

\* Entering a value where something is shown changes that, and nothing else.
LEMMA Entered ==
    ASSUME DesktopOK, NEW t \in Tags, Shown(t) # None, NEW v \in Values, form' = FormWith(t, v)
    PROVE  /\ form' \in [card : [Cards -> Maybe], rows : Rows]
           /\ Shown(t)' = v
           /\ \A u \in Tags \ {t} : Shown(u)' = Shown(u)
<1>1. form \in [card : [Cards -> Maybe], rows : Rows]
  BY DEF DesktopOK
<1>2. CASE t[1] \in Cards
  <2>1. form' = [form EXCEPT !.card[t[1]] = v]
    BY <1>2 DEF FormWith
  <2>2. form'.rows = form.rows /\ form'.card = [form.card EXCEPT ![t[1]] = v]
        /\ form' \in [card : [Cards -> Maybe], rows : Rows]
    BY <1>1, <1>2, <2>1 DEF Maybe
  <2>3. \A u \in Tags \ {t} : u[1] \notin Cards \/ u[1] # t[1]
    BY <1>2, TagIs
  <2>4. \A u \in Tags \ {t} : Shown(u)' = Shown(u)
    BY <1>1, <2>2, <2>3 DEF Shown, ValueAt
  <2>5. Shown(t)' = v
    BY <1>1, <1>2, <2>2 DEF Shown
  <2> QED
    BY <2>2, <2>4, <2>5
<1>3. CASE t[1] \notin Cards
  <2>1. t[2] \in Chans /\ t = <<"channels", t[2]>> /\ t[2] \in DOMAIN form.rows
    BY <1>3, TagIs DEF Shown, ValueAt
  <2>2. form' = [form EXCEPT !.rows[t[2]] = v]
    BY <1>3 DEF FormWith
  <2>3. form'.card = form.card /\ form'.rows = [form.rows EXCEPT ![t[2]] = v]
        /\ form' = [card |-> form.card, rows |-> form'.rows]
    BY <1>1, <2>2
  <2>4. DOMAIN form.rows \subseteq Chans /\ form.rows \in [DOMAIN form.rows -> Values]
    BY <1>1, PartialIs DEF Rows
  <2>5. form'.rows \in [DOMAIN form.rows -> Values]
    BY <2>3, <2>4
  <2>6. form'.rows \in Rows
    BY <2>4, <2>5, IsPartial DEF Rows
  <2>7. form' \in [card : [Cards -> Maybe], rows : Rows]
    BY <1>1, <2>3, <2>6
  <2>8. Shown(t)' = v
    BY <1>3, <2>1, <2>3, <2>5 DEF Shown, ValueAt
  <2>9. ASSUME NEW u \in Tags \ {t}
        PROVE  Shown(u)' = Shown(u)
    <3>1. u[1] \in Cards \/ u[2] # t[2]
      BY <2>1, TagIs
    <3> QED
      BY <2>3, <2>4, <2>5, <3>1 DEF Shown, ValueAt
  <2> QED
    BY <2>7, <2>8, <2>9
<1> QED
  BY <1>2, <1>3

\* The form, when the device speaks: what it follows is unseen at least.
LEMMA FormAside ==
    ASSUME FormTruthful, ServiceOK, Announced, UNCHANGED desktop
    PROVE  FormTruthful'
<1> SUFFICES ASSUME client' = "desktop", NEW t \in Tags
             PROVE  IF t \in dirty' THEN Shown(t)' \in Own(t)'
                    ELSE t[1] \in unseen' \/ Shown(t)' \in Own(t)' \cup {Published(t)'}
  BY DEF FormTruthful
<1>1. client = "desktop" /\ UNCHANGED <<form, dirty, buffer, typed>>
  BY DEF Announced, desktop
<1>2. Shown(t)' = Shown(t) /\ Own(t)' = Own(t)
  BY <1>1 DEF Shown, Own, ValueAt
<1>3. IF t \in dirty THEN Shown(t) \in Own(t)
      ELSE t[1] \in unseen \/ Shown(t) \in Own(t) \cup {Published(t)}
  BY <1>1 DEF FormTruthful
<1>4. t[1] \in Fields \cap Followed
  BY <1>1, TagIs, Names DEF Followed, Fields
<1>5. t[1] \in unseen' \/ Published(t)' = Published(t)
  <2>1. mirror'[t[1]] = mirror[t[1]] \/ t[1] \in unseen'
    BY <1>4 DEF Announced
  <2> QED
    BY <2>1, TagIs DEF Published, ValueAt
<1> QED
  BY <1>1, <1>2, <1>3, <1>5 DEF Announced

LEMMA KotlinAside ==
    ASSUME KotlinInv, Announced, UNCHANGED android
    PROVE  KotlinInv'
<1> SUFFICES ASSUME client' = "android", listening'
             PROVE  /\ \A f \in Callbacks \ (unseen' \cup Range(to_push')) : Current(f)'
                    /\ \A n \in DOMAIN pushed' : n \in DOMAIN kotlin'["nodes"] /\ kotlin'["nodes"][n] = pushed'[n]
  BY DEF KotlinInv
<1>1. client = "android" /\ listening /\ UNCHANGED <<kotlin, pushed, to_push>>
  BY DEF Announced, android
<1>2. ASSUME NEW f \in Callbacks \ (unseen' \cup Range(to_push'))
      PROVE  Current(f)'
  <2>1. f \in Callbacks \ (unseen \cup Range(to_push)) /\ Current(f)
    BY <1>1 DEF KotlinInv, Announced
  <2>2. f \in Fields \cap Followed
    BY <1>1, Names DEF Followed
  <2>3. mirror'[f] = mirror[f]
    BY <1>2, <2>2 DEF Announced
  <2> QED
    BY <1>1, <2>1, <2>3 DEF Current
<1> QED
  BY <1>1, <1>2 DEF KotlinInv

LEMMA ViewsFollowDevice ==
    ASSUME ViewsInv, DeviceInv', Announced, UNCHANGED <<desktop, android>>
    PROVE  ViewsInv'
<1>1. DesktopOK' /\ AndroidOK'
  BY DEF ViewsInv, DesktopOK, AndroidOK, desktop, android
<1> QED
  BY <1>1, FormAside, KotlinAside DEF ViewsInv, DeviceInv


-----------------------------------------------------------------------------
(* The desktop                                                              *)

\* What the parts of a step of the desktop amount to.
LEMMA DesktopKeeps ==
    ASSUME ViewsInv, client = "desktop", UNCHANGED android, DesktopOK', FormTruthful',
           UNCHANGED <<radio, state, mirror, client, listening, overtaken, refresher>>
    PROVE  ViewsInv'
<1>1. DeviceInv'
  BY DeviceAside DEF ViewsInv, DeviceInv, ServiceOK
<1>2. AndroidOK' /\ KotlinInv'
  BY DEF ViewsInv, AndroidOK, KotlinInv, android
<1> QED
  BY <1>1, <1>2 DEF ViewsInv

LEMMA WatcherStep ==
    ASSUME ViewsInv, NEW f \in Fields, WatcherCopies(f)
    PROVE  ViewsInv'
<1>1. /\ client = "desktop" /\ f \in unseen /\ unseen' = unseen \ {f}
      /\ form' = CASE f \in Cards /\ <<f, 0>> \notin dirty -> [form EXCEPT !.card[f] = mirror[f]]
                   [] f = "channels" -> [form EXCEPT !.rows = MergedRows(mirror["channels"])]
                   [] OTHER -> form
      /\ UNCHANGED <<radio, state, mirror, client, listening, overtaken, refresher, dirty, buffer, applying, typed, android>>
  BY DEF WatcherCopies
<1>2. form \in [card : [Cards -> Maybe], rows : Rows] /\ mirror["channels"] \in Rows
      /\ \A g \in Cards : mirror[g] \in Maybe
  <2>1. form \in [card : [Cards -> Maybe], rows : Rows] /\ \A g \in Fields : mirror[g] \in FieldValues(g)
    BY DEF ViewsInv, DesktopOK, DeviceInv, ServiceOK
  <2>2. "channels" \in Fields /\ FieldValues("channels") = Rows
    BY DEF Fields, FieldValues
  <2>3. \A g \in Cards : g \in Fields /\ FieldValues(g) = Maybe
    BY Names, DeviceAssumption DEF DeviceAssumption, FieldValues
  <2> QED
    BY <2>1, <2>2, <2>3
<1> DEFINE kept == {i \in DOMAIN form.rows : <<"channels", i>> \in dirty}
           fresh == {i \in DOMAIN mirror["channels"] : <<"channels", i>> \notin dirty}
           merged == MergedRows(mirror["channels"])
<1>3. /\ merged \in Rows /\ DOMAIN merged = kept \cup fresh
      /\ \A i \in kept : merged[i] = form.rows[i]
      /\ \A i \in fresh : merged[i] = mirror["channels"][i]
  <2>1. /\ DOMAIN form.rows \subseteq Chans /\ \A i \in DOMAIN form.rows : form.rows[i] \in Values
        /\ DOMAIN mirror["channels"] \subseteq Chans
        /\ \A i \in DOMAIN mirror["channels"] : mirror["channels"][i] \in Values
    BY <1>2, PartialIs DEF Rows
  <2>2. merged = [i \in kept \cup fresh |-> IF i \in kept THEN form.rows[i] ELSE mirror["channels"][i]]
    BY DEF MergedRows
  <2>3. kept \cap fresh = {} /\ kept \cup fresh \in SUBSET Chans
    BY <2>1
  <2> DEFINE E == kept \cup fresh
  <2>4. merged \in [E -> Values]
    BY <2>1, <2>2
  <2>5. merged \in Rows
    <3> HIDE DEF E, merged
    <3> QED
      BY <2>3, <2>4, IsPartial DEF Rows, E
  <2> QED
    BY <2>2, <2>3, <2>5
<1>4. \/ f \in Cards /\ <<f, 0>> \notin dirty /\ form' = [form EXCEPT !.card[f] = mirror[f]]
      \/ f = "channels" /\ form' = [form EXCEPT !.rows = merged]
      \/ f # "channels" /\ (f \in Cards => <<f, 0>> \in dirty) /\ form' = form
  BY <1>1, Names
<1>5. DesktopOK'
  <2>1. form' \in [card : [Cards -> Maybe], rows : Rows]
    <3> HIDE DEF merged
    <3> QED
      BY <1>2, <1>3, <1>4
  <2> QED
    BY <1>1, <2>1 DEF ViewsInv, DesktopOK
<1>6. FormTruthful'
  <2> SUFFICES ASSUME NEW t \in Tags
               PROVE  IF t \in dirty' THEN Shown(t)' \in Own(t)'
                      ELSE t[1] \in unseen' \/ Shown(t)' \in Own(t)' \cup {Published(t)'}
    BY DEF FormTruthful
  <2>1. IF t \in dirty THEN Shown(t) \in Own(t)
        ELSE t[1] \in unseen \/ Shown(t) \in Own(t) \cup {Published(t)}
    BY <1>1 DEF ViewsInv, FormTruthful
  <2>2. Own(t)' = Own(t) /\ Published(t)' = Published(t)
    BY <1>1 DEF Own, Published, ValueAt
  <2>3. CASE t[1] # f
    <3>1. Shown(t)' = Shown(t)
      <4>1. CASE t[1] \in Cards
        <5>1. form'.card[t[1]] = form.card[t[1]]
          <6> HIDE DEF merged
          <6> QED
            BY <1>2, <1>4, <2>3, <4>1
        <5> QED
          BY <4>1, <5>1 DEF Shown
      <4>2. CASE t[1] \notin Cards
        <5>1. f # "channels" /\ form'.rows = form.rows
          BY <1>2, <1>4, <2>3, <4>2, TagIs
        <5> QED
          BY <4>2, <5>1 DEF Shown, ValueAt
      <4> QED
        BY <4>1, <4>2
    <3> QED
      BY <1>1, <2>1, <2>2, <2>3, <3>1
  <2>4. CASE t[1] = f /\ f \in Cards
    <3>1. t = <<f, 0>>
      BY <2>4, TagIs
    <3>2. CASE t \in dirty
      <4>1. form' = form
        BY <1>4, <2>4, <3>1, <3>2, Names
      <4>2. Shown(t)' = Shown(t)
        BY <4>1 DEF Shown, ValueAt
      <4> QED
        BY <1>1, <2>1, <2>2, <3>2, <4>2
    <3>3. CASE t \notin dirty
      <4>1. form' = [form EXCEPT !.card[f] = mirror[f]]
        BY <1>4, <2>4, <3>1, <3>3, Names
      <4>2. form'.card[f] = mirror[f]
        BY <1>2, <2>4, <4>1
      <4>3. Shown(t)' = Published(t)
        BY <2>4, <4>2 DEF Shown, Published
      <4> QED
        BY <1>1, <2>2, <3>3, <4>3
    <3> QED
      BY <3>2, <3>3
  <2>5. CASE t[1] = f /\ f \notin Cards
    <3>1. f = "channels" /\ t = <<"channels", t[2]>> /\ form' = [form EXCEPT !.rows = merged]
      BY <1>4, <2>5, TagIs
    <3>2. form'.rows = merged
      BY <1>2, <3>1
    <3>3. Shown(t)' = ValueAt(merged, t[2]) /\ Shown(t) = ValueAt(form.rows, t[2])
          /\ Published(t) = ValueAt(mirror["channels"], t[2])
      BY <2>5, <3>2 DEF Shown, Published, ValueAt
    <3>4. CASE t \in dirty
      <4>1. Shown(t)' = Shown(t)
        <5> HIDE DEF merged
        <5> QED
          BY <1>3, <3>1, <3>3, <3>4 DEF ValueAt
      <4> QED
        BY <1>1, <2>1, <2>2, <3>4, <4>1
    <3>5. CASE t \notin dirty
      <4>1. Shown(t)' = Published(t)
        <5> HIDE DEF merged
        <5> QED
          BY <1>3, <3>1, <3>3, <3>5 DEF ValueAt
      <4> QED
        BY <1>1, <2>2, <3>5, <4>1
    <3> QED
      BY <3>4, <3>5
  <2> QED
    BY <2>3, <2>4, <2>5
<1> QED
  BY <1>1, <1>5, <1>6, DesktopKeeps

\* The end of a burst, or of a write, ends edits.
LEMMA EditsEnd ==
    ASSUME ViewsInv, dirty' \subseteq dirty, UNCHANGED <<form, buffer, typed, mirror, unseen>>, client' = client
    PROVE  FormTruthful'
<1> SUFFICES ASSUME client = "desktop", NEW t \in Tags
             PROVE  IF t \in dirty' THEN Shown(t)' \in Own(t)'
                    ELSE t[1] \in unseen' \/ Shown(t)' \in Own(t)' \cup {Published(t)'}
  BY DEF FormTruthful
<1>1. IF t \in dirty THEN Shown(t) \in Own(t)
      ELSE t[1] \in unseen \/ Shown(t) \in Own(t) \cup {Published(t)}
  BY DEF ViewsInv, FormTruthful
<1>2. Own(t)' = Own(t) /\ Published(t)' = Published(t) /\ Shown(t)' = Shown(t)
  BY DEF Own, Published, Shown, ValueAt
<1> QED
  BY <1>1, <1>2

LEMMA CompleteStep ==
    ASSUME ViewsInv, HearsComplete
    PROVE  ViewsInv'
<1>1. /\ client = "desktop" /\ dirty' = {}
      /\ UNCHANGED <<radio, state, mirror, client, listening, unseen, overtaken, refresher, form, buffer, applying, typed, android>>
  BY DEF HearsComplete
<1>2. FormTruthful'
  BY <1>1, EditsEnd
<1>3. DesktopOK'
  BY <1>1 DEF ViewsInv, DesktopOK
<1> QED
  BY <1>1, <1>2, <1>3, DesktopKeeps


\* A value entered in a part of the form marks it, by the user or by the key
\* field of its row.
LEMMA EnteredTruthful ==
    ASSUME ViewsInv, NEW t \in Tags, Shown(t) # None, NEW v \in Values, form' = FormWith(t, v),
           \A u \in Tags \ {t} : Own(u)' = Own(u) /\ (u \in dirty' <=> u \in dirty),
           v \in Own(t)', UNCHANGED <<client, mirror, unseen>>
    PROVE  FormTruthful'
<1> SUFFICES ASSUME client = "desktop", NEW u \in Tags
             PROVE  IF u \in dirty' THEN Shown(u)' \in Own(u)'
                    ELSE u[1] \in unseen' \/ Shown(u)' \in Own(u)' \cup {Published(u)'}
  BY DEF FormTruthful
<1>1. Shown(t)' = v /\ \A w \in Tags \ {t} : Shown(w)' = Shown(w)
  BY Entered DEF ViewsInv
<1>2. Published(u)' = Published(u)
  BY DEF Published, ValueAt
<1>3. IF u \in dirty THEN Shown(u) \in Own(u)
      ELSE u[1] \in unseen \/ Shown(u) \in Own(u) \cup {Published(u)}
  BY DEF ViewsInv, FormTruthful
<1>4. CASE u = t
  BY <1>1, <1>4
<1>5. CASE u # t
  BY <1>1, <1>2, <1>3, <1>5
<1> QED
  BY <1>4, <1>5

LEMMA DrawStep ==
    ASSUME ViewsInv, NEW i \in Chans, DrawsRow(i)
    PROVE  ViewsInv'
<1> DEFINE tag == <<"channels", i>>
           text == IF buffer[i] = None THEN Shown(tag) ELSE buffer[i]
<1>1. /\ client = "desktop" /\ Shown(tag) # None
      /\ buffer' = [buffer EXCEPT ![i] = text] /\ form' = FormWith(tag, text)
      /\ dirty' = IF text # Shown(tag) THEN dirty \cup {tag} ELSE dirty
      /\ UNCHANGED <<dvars, applying, edits, applies, typed, android>>
  BY DEF DrawsRow
<1>2. tag \in Tags /\ tag[1] = "channels" /\ tag[2] = i /\ tag[1] \notin Cards
  BY Names DEF Tags
<1>3. buffer \in [Chans -> Maybe] /\ typed \in [Tags -> Maybe]
  BY DEF ViewsInv, DesktopOK
<1> HIDE DEF tag
<1>4. text \in Values /\ text # None
  BY <1>1, <1>2, <1>3, ShownTyped, DeviceAssumption DEF ViewsInv, Maybe, DeviceAssumption
<1>5. form' \in [card : [Cards -> Maybe], rows : Rows]
  BY <1>1, <1>2, <1>4, Entered DEF ViewsInv
<1>6. DesktopOK'
  <2>1. buffer' \in [Chans -> Maybe]
    BY <1>1, <1>3, <1>4 DEF Maybe
  <2> QED
    BY <1>1, <1>5, <2>1 DEF ViewsInv, DesktopOK
<1>7. FormTruthful'
  <2>1. ASSUME NEW u \in Tags \ {tag}
        PROVE  Own(u)' = Own(u) /\ (u \in dirty' <=> u \in dirty)
    <3>1. u[1] = "channels" => u[2] # i /\ u[2] \in Chans
      BY <1>2, TagIs, Names DEF tag
    <3> QED
      BY <1>1, <1>3, <3>1 DEF Own
  <2>2. text \in Own(tag)'
    <3>1. buffer'[i] = text
      BY <1>1, <1>3
    <3> QED
      BY <1>2, <1>4, <3>1 DEF Own
  <2>3. UNCHANGED <<client, mirror, unseen>>
    BY <1>1 DEF dvars, service
  <2> HIDE DEF text
  <2> QED
    BY <1>1, <1>2, <1>4, <2>1, <2>2, <2>3, EnteredTruthful
<1> QED
  BY <1>1, <1>6, <1>7, DesktopKeeps DEF dvars, service

LEMMA EditStep ==
    ASSUME ViewsInv, NEW t \in Tags, NEW v \in Values, Edit(t, v)
    PROVE  ViewsInv'
<1>1. /\ client = "desktop" /\ Shown(t) # None
      /\ dirty' = dirty \cup {t} /\ form' = FormWith(t, v) /\ typed' = [typed EXCEPT ![t] = v]
      /\ buffer' = IF t[1] \in Cards THEN buffer ELSE [buffer EXCEPT ![t[2]] = v]
      /\ UNCHANGED <<dvars, applying, applies, android>>
  BY DEF Edit
<1>2. buffer \in [Chans -> Maybe] /\ typed \in [Tags -> Maybe] /\ v # None
  BY DeviceAssumption DEF ViewsInv, DesktopOK, DeviceAssumption
<1>3. form' \in [card : [Cards -> Maybe], rows : Rows]
  BY <1>1, Entered DEF ViewsInv
<1>4. DesktopOK'
  <2>1. buffer' \in [Chans -> Maybe] /\ typed' \in [Tags -> Maybe]
    BY <1>1, <1>2 DEF Maybe
  <2> QED
    BY <1>1, <1>3, <2>1 DEF ViewsInv, DesktopOK
<1>5. FormTruthful'
  <2>1. ASSUME NEW u \in Tags \ {t}
        PROVE  Own(u)' = Own(u) /\ (u \in dirty' <=> u \in dirty)
    <3>1. typed'[u] = typed[u]
      BY <1>1, <1>2
    <3>2. u[1] = "channels" => buffer'[u[2]] = buffer[u[2]]
      <4>1. CASE t[1] \in Cards
        BY <1>1, <4>1
      <4>2. CASE t[1] \notin Cards
        <5>1. u[1] = "channels" => u[2] # t[2] /\ u[2] \in Chans
          BY <4>2, TagIs, Names
        <5> QED
          BY <1>1, <1>2, <4>2, <5>1
      <4> QED
        BY <4>1, <4>2
    <3> QED
      BY <1>1, <3>1, <3>2 DEF Own
  <2>2. v \in Own(t)'
    BY <1>1, <1>2 DEF Own
  <2>3. UNCHANGED <<client, mirror, unseen>>
    BY <1>1 DEF dvars, service
  <2> QED
    BY <1>1, <2>1, <2>2, <2>3, EnteredTruthful
<1> QED
  BY <1>1, <1>4, <1>5, DesktopKeeps DEF dvars, service

\* A write under way touches its own record, the radio it reaches, and at
\* its end the mark.
LEMMA WrittenTyped ==
    ASSUME ViewsInv, applying.pc = "addressed"
    PROVE  Written(applying.to, applying.tag[1], applying.tag[2], applying.value) \in [Radios -> Devices]
<1> DEFINE to == applying.to
           f == applying.tag[1]
           i == applying.tag[2]
           v == applying.value
<1>1. to \in Radios /\ applying.tag \in Tags /\ v \in Values /\ device \in [Radios -> Devices]
  BY DEF ViewsInv, DesktopOK, DeviceInv, RadioOK
<1>2. f = "owner" \/ (f = "channels" /\ i \in Chans) \/ f \in Sections
  BY <1>1, TagIs, DeviceAssumption DEF DeviceAssumption
<1>3. f \in Sections => f \notin {"owner", "channels"}
  BY Names
<1> HIDE DEF to, f, i, v
<1>4. device[to] \in Devices
  BY <1>1
<1> DEFINE new == Written(to, f, i, v)
<1>5. new = device \/ \E d \in Devices : new = [device EXCEPT ![to] = d]
  <2>1. CASE ~up \/ to # Last(peer)
    BY <2>1 DEF Written
  <2>2. CASE ~(~up \/ to # Last(peer)) /\ f = "owner"
    <3>1. new = [device EXCEPT ![to] = [device[to] EXCEPT !.owner = v]]
      BY <2>2 DEF Written
    <3>2. [device[to] EXCEPT !.owner = v] \in Devices
      BY <1>1, <1>4 DEF Devices
    <3> QED
      BY <3>1, <3>2
  <2>3. CASE ~(~up \/ to # Last(peer)) /\ f = "channels" /\ i \in Chans
    <3>1. new = [device EXCEPT ![to] = [device[to] EXCEPT !.channels[i] = v]]
      BY <2>3 DEF Written
    <3>2. [device[to] EXCEPT !.channels[i] = v] \in Devices
      BY <1>1, <1>4, <2>3 DEF Devices
    <3> QED
      BY <3>1, <3>2
  <2>4. CASE ~(~up \/ to # Last(peer)) /\ f \in Sections
    <3>1. new = [device EXCEPT ![to] = [device[to] EXCEPT !.config[f] = v]]
      BY <2>4, <1>3 DEF Written
    <3>2. [device[to] EXCEPT !.config[f] = v] \in Devices
      BY <1>1, <1>4, <2>4 DEF Devices
    <3> QED
      BY <3>1, <3>2
  <2> QED
    BY <1>2, <2>1, <2>2, <2>3, <2>4
<1>6. new \in [Radios -> Devices]
  <2> HIDE DEF new
  <2> QED
    BY <1>1, <1>5
<1> QED
  BY <1>6 DEF to, f, i, v

LEMMA ApplyStep ==
    ASSUME ViewsInv, (\E t \in Tags : ClickApply(t)) \/ ApplyAddresses \/ ApplyWrites \/ ApplyReturns
    PROVE  ViewsInv'
<1>1. /\ dirty' \subseteq dirty
      /\ UNCHANGED <<line, events, peer, up, service, client, refresher, form, buffer, typed, android>>
  BY DEF ClickApply, ApplyAddresses, ApplyWrites, ApplyReturns, dvars, radio
<1>2. device' \in [Radios -> Devices]
  <2>1. CASE ApplyWrites
    BY <2>1, WrittenTyped DEF ApplyWrites
  <2>2. CASE ~ApplyWrites
    <3>1. device' = device
      BY <2>2 DEF ClickApply, ApplyAddresses, ApplyReturns, dvars, radio
    <3> QED
      BY <3>1 DEF ViewsInv, DeviceInv, RadioOK
  <2> QED
    BY <2>1, <2>2
<1>3. DesktopOK'
  <2>1. CASE \E t \in Tags : ClickApply(t)
    <3>1. PICK t \in Tags : ClickApply(t)
      BY <2>1
    <3>2. Shown(t) \in Values /\ Shown(t) \in Maybe
      BY <3>1, ShownTyped DEF ClickApply, ViewsInv
    <3> QED
      BY <1>1, <3>1, <3>2 DEF ViewsInv, DesktopOK, ClickApply
  <2>2. CASE ApplyAddresses
    <3>1. state.my_info \in Radios \cup {None}
      BY DEF ViewsInv, DeviceInv, ServiceOK, States
    <3> QED
      BY <1>1, <2>2, <3>1 DEF ViewsInv, DesktopOK, ApplyAddresses
  <2>3. CASE ApplyWrites
    BY <1>1, <2>3 DEF ViewsInv, DesktopOK, ApplyWrites
  <2>4. CASE ApplyReturns
    BY <1>1, <2>4 DEF ViewsInv, DesktopOK, ApplyReturns
  <2> QED
    BY <2>1, <2>2, <2>3, <2>4
<1>4. DeviceInv'
  <2>1. RadioOK'
    BY <1>1, <1>2 DEF ViewsInv, DeviceInv, RadioOK
  <2>2. ServiceOK' /\ MirrorsAgree' /\ RefreshOK'
    BY <1>1, ServiceAside, AgreeAside DEF ViewsInv, DeviceInv, RefreshOK, RefresherOK
  <2> QED
    BY <2>1, <2>2 DEF DeviceInv
<1>5. FormTruthful'
  BY <1>1, EditsEnd DEF service
<1>6. KotlinInv' /\ AndroidOK'
  <2>1. Announced
    BY <1>1, ServiceAside DEF ViewsInv, DeviceInv
  <2> QED
    BY <1>1, <2>1, KotlinAside DEF ViewsInv, AndroidOK, android
<1> QED
  BY <1>3, <1>4, <1>5, <1>6 DEF ViewsInv


-----------------------------------------------------------------------------
(* Android                                                                  *)

\* The first snapshot is of every field with a callback.
LEMMA PushOrderCovers ==
    PushOrder \in Seq(Fields) /\ Callbacks \subseteq Range(PushOrder)
<1>1. ASSUME NEW f \in Fields
      PROVE  Pushes(f) \in Seq(Fields) /\ (f \in Callbacks => f \in Range(Pushes(f)))
  BY <1>1, EmptySeq DEF Pushes, Range
<1> DEFINE secs == SetToSeq(Sections \cap Callbacks)
           p1 == Pushes("my_info")
           p2 == Pushes("nodes")
           p4 == Pushes("channels")
           p5 == Pushes("owner")
           p6 == Pushes("metadata")
<1>2. secs \in Seq(Sections \cap Callbacks) /\ Range(secs) = Sections \cap Callbacks
  BY Sequenced, Finite
<1>3. secs \in Seq(Fields)
  BY <1>2, SeqMonotonic DEF Fields
<1>4. {p1, p2, p4, p5, p6} \subseteq Seq(Fields)
  BY <1>1 DEF Fields
<1>5. PushOrder = p1 \o p2 \o secs \o p4 \o p5 \o p6
  BY DEF PushOrder
<1>6. \A f \in Callbacks : \/ f \in Range(p1) \/ f \in Range(p2) \/ f \in Range(secs)
                           \/ f \in Range(p4) \/ f \in Range(p5) \/ f \in Range(p6)
  BY <1>1, <1>2, Names DEF Fields
<1> HIDE DEF secs, p1, p2, p4, p5, p6
<1> DEFINE q2 == p1 \o p2
           q3 == q2 \o secs
           q4 == q3 \o p4
           q5 == q4 \o p5
<1>7. q2 \in Seq(Fields) /\ Range(q2) = Range(p1) \cup Range(p2)
  BY <1>4, ConcatProperties, RangeConcatenation
<1> HIDE DEF q2
<1>8. q3 \in Seq(Fields) /\ Range(q3) = Range(q2) \cup Range(secs)
  BY <1>3, <1>7, ConcatProperties, RangeConcatenation
<1> HIDE DEF q3
<1>9. q4 \in Seq(Fields) /\ Range(q4) = Range(q3) \cup Range(p4)
  BY <1>4, <1>8, ConcatProperties, RangeConcatenation
<1> HIDE DEF q4
<1>10. q5 \in Seq(Fields) /\ Range(q5) = Range(q4) \cup Range(p5)
  BY <1>4, <1>9, ConcatProperties, RangeConcatenation
<1> HIDE DEF q5
<1>11. PushOrder \in Seq(Fields) /\ Range(PushOrder) = Range(q5) \cup Range(p6)
  <2>1. PushOrder = q5 \o p6
    BY <1>5 DEF q2, q3, q4, q5
  <2> QED
    BY <1>4, <1>10, <2>1, ConcatProperties, RangeConcatenation
<1>12. ASSUME NEW f \in Callbacks
       PROVE  f \in Range(PushOrder)
  BY <1>6, <1>7, <1>8, <1>9, <1>10, <1>11
<1> QED
  BY <1>11, <1>12

\* What Kotlin knows of a field just pushed is current, if of the nodes it
\* was told all that it did not know as they are.
LEMMA ToldCurrent ==
    ASSUME AndroidOK, NEW f \in Fields, NEW only, only \subseteq DOMAIN mirror["nodes"],
           kotlin' = Told(f, only), UNCHANGED mirror,
           f = "nodes" =>
              \A n \in DOMAIN mirror["nodes"] \ only :
                 n \in DOMAIN kotlin["nodes"] /\ kotlin["nodes"][n] = mirror["nodes"][n]
    PROVE  /\ Current(f)'
           /\ DOMAIN kotlin' = Fields /\ kotlin' = [g \in Fields |-> kotlin'[g]]
           /\ \A g \in Fields \ {f} : kotlin'[g] = kotlin[g]
<1>1. DOMAIN kotlin = Fields /\ kotlin = [g \in Fields |-> kotlin[g]]
  BY DEF AndroidOK
<1>2. CASE f = "nodes"
  <2>1. kotlin' = [kotlin EXCEPT ![f] = Overlaid(kotlin[f], mirror[f], only)]
    BY <1>2 DEF Told
  <2>2. kotlin'[f] = Overlaid(kotlin[f], mirror[f], only)
    BY <1>1, <2>1
  <2>3. \A n \in DOMAIN mirror[f] : n \in DOMAIN kotlin'[f] /\ kotlin'[f][n] = mirror[f][n]
    BY <1>2, <2>2 DEF Overlaid
  <2> QED
    BY <1>1, <1>2, <2>1, <2>3 DEF Current
<1>3. CASE f = "channels"
  <2>1. kotlin' = [kotlin EXCEPT ![f] = Overlaid(kotlin[f], mirror[f], DOMAIN mirror[f])]
    BY <1>3 DEF Told
  <2>2. kotlin'[f] = Overlaid(kotlin[f], mirror[f], DOMAIN mirror[f])
    BY <1>1, <2>1
  <2>3. \A n \in DOMAIN mirror[f] : n \in DOMAIN kotlin'[f] /\ kotlin'[f][n] = mirror[f][n]
    BY <2>2 DEF Overlaid
  <2> QED
    BY <1>1, <1>3, <2>1, <2>3 DEF Current
<1>4. CASE f \notin {"nodes", "channels"}
  <2>1. kotlin' = IF mirror[f] = None THEN kotlin ELSE [kotlin EXCEPT ![f] = mirror[f]]
    BY <1>4 DEF Told
  <2> QED
    BY <1>1, <1>4, <2>1 DEF Current
<1> QED
  BY <1>2, <1>3, <1>4

\* What does not touch a field keeps it current.
LEMMA CurrentAside ==
    ASSUME NEW f \in Fields, mirror'[f] = mirror[f], kotlin'[f] = kotlin[f], Current(f)
    PROVE  Current(f)'
  BY DEF Current

LEMMA ListenerStep ==
    ASSUME ViewsInv, set_config_listener
    PROVE  ViewsInv'
<1>1. /\ client = "android" /\ listening' = TRUE /\ unseen' = {}
      /\ kotlin' = [f \in Fields |-> Empty(f)] /\ pushed' = <<>> /\ to_push' = PushOrder
      /\ UNCHANGED <<radio, state, mirror, overtaken, client, refresher, desktop>>
  BY DEF set_config_listener
<1>2. DeviceInv'
  BY <1>1, DeviceAside DEF ViewsInv
<1>3. AndroidOK'
  BY <1>1, PushOrderCovers, EmptyPartial DEF AndroidOK, Nodes
<1>4. KotlinInv'
  BY <1>1, PushOrderCovers DEF KotlinInv
<1>5. DesktopOK' /\ FormTruthful'
  BY <1>1 DEF ViewsInv, DesktopOK, desktop, FormTruthful
<1> QED
  BY <1>2, <1>3, <1>4, <1>5 DEF ViewsInv

LEMMA FirstStep ==
    ASSUME ViewsInv, PushesFirst
    PROVE  ViewsInv'
<1>1. to_push \in Seq(Fields) /\ to_push # <<>>
  BY DEF ViewsInv, AndroidOK, PushesFirst
<1>2. PICK f \in Fields : f = Head(to_push)
  BY <1>1, HeadTailProperties
<1>3. /\ to_push # <<>> /\ kotlin' = Told(f, DOMAIN mirror["nodes"])
      /\ pushed' = IF f = "nodes" THEN mirror["nodes"] ELSE pushed
      /\ to_push' = Tail(to_push)
      /\ UNCHANGED <<radio, state, mirror, listening, unseen, overtaken, client, refresher, desktop>>
  BY <1>2 DEF PushesFirst
<1>4. to_push' \in Seq(Fields) /\ Range(to_push) = {f} \cup Range(to_push')
  BY <1>3, <1>1, <1>2, HeadTailProperties, RangeOfTail
<1>5. /\ Current(f)'
      /\ DOMAIN kotlin' = Fields /\ kotlin' = [g \in Fields |-> kotlin'[g]]
      /\ \A g \in Fields \ {f} : kotlin'[g] = kotlin[g]
  BY <1>3, ToldCurrent DEF ViewsInv
<1>6. DeviceInv'
  BY <1>3, DeviceAside DEF ViewsInv, DeviceInv, ServiceOK
<1>7. AndroidOK'
  <2>1. mirror["nodes"] \in Nodes
    BY DEF ViewsInv, DeviceInv, ServiceOK, FieldValues, Fields
  <2> QED
    BY <1>3, <1>4, <1>5, <2>1 DEF ViewsInv, AndroidOK
<1>8. DesktopOK' /\ FormTruthful'
  BY <1>3, EditsEnd DEF ViewsInv, DesktopOK, desktop
<1>9. KotlinInv'
  <2> SUFFICES ASSUME client = "android", listening
               PROVE  /\ \A g \in Callbacks \ (unseen' \cup Range(to_push')) : Current(g)'
                      /\ \A n \in DOMAIN pushed' : n \in DOMAIN kotlin'["nodes"]
                                                   /\ kotlin'["nodes"][n] = pushed'[n]
    BY <1>3 DEF KotlinInv
  <2>1. ASSUME NEW g \in Callbacks \ (unseen' \cup Range(to_push'))
        PROVE  Current(g)'
    <3>1. CASE g = f
      BY <1>5, <3>1
    <3>2. CASE g # f
      <4>1. g \in Fields /\ Current(g)
        BY <1>3, <1>4, <3>2, Names DEF ViewsInv, KotlinInv
      <4> QED
        BY <1>3, <1>5, <3>2, <4>1, CurrentAside
    <3> QED
      BY <3>1, <3>2
  <2>2. \A n \in DOMAIN pushed' : n \in DOMAIN kotlin'["nodes"] /\ kotlin'["nodes"][n] = pushed'[n]
    <3>1. CASE f = "nodes"
      BY <1>3, <1>5, <3>1 DEF Current
    <3>2. CASE f # "nodes"
      <4>1. kotlin'["nodes"] = kotlin["nodes"] /\ pushed' = pushed
        BY <1>3, <1>5, <3>2 DEF Fields
      <4> QED
        BY <4>1 DEF ViewsInv, KotlinInv
    <3> QED
      BY <3>1, <3>2
  <2> QED
    BY <2>1, <2>2
<1> QED
  BY <1>6, <1>7, <1>8, <1>9 DEF ViewsInv

LEMMA ChangeStep ==
    ASSUME ViewsInv, NEW f \in Fields, PushesChange(f)
    PROVE  ViewsInv'
<1>1. /\ client = "android" /\ listening /\ to_push = <<>> /\ unseen' = unseen \ {f}
      /\ kotlin' = Told(f, ChangedNodes(mirror["nodes"]))
      /\ pushed' = IF f = "nodes" THEN mirror["nodes"] ELSE pushed
      /\ UNCHANGED <<radio, state, mirror, listening, overtaken, client, refresher, to_push, desktop>>
  BY DEF PushesChange
<1>2. \A n \in DOMAIN pushed : n \in DOMAIN kotlin["nodes"] /\ kotlin["nodes"][n] = pushed[n]
  BY <1>1 DEF ViewsInv, KotlinInv
<1>3. /\ Current(f)'
      /\ DOMAIN kotlin' = Fields /\ kotlin' = [g \in Fields |-> kotlin'[g]]
      /\ \A g \in Fields \ {f} : kotlin'[g] = kotlin[g]
  <2>1. ChangedNodes(mirror["nodes"]) \subseteq DOMAIN mirror["nodes"]
    BY DEF ChangedNodes
  <2>2. \A n \in DOMAIN mirror["nodes"] \ ChangedNodes(mirror["nodes"]) :
           n \in DOMAIN kotlin["nodes"] /\ kotlin["nodes"][n] = mirror["nodes"][n]
    BY <1>2 DEF ChangedNodes
  <2> QED
    BY <1>1, <2>1, <2>2, ToldCurrent DEF ViewsInv
<1>4. DeviceInv'
  BY <1>1, DeviceAside DEF ViewsInv, DeviceInv, ServiceOK
<1>5. AndroidOK'
  <2>1. mirror["nodes"] \in Nodes
    BY DEF ViewsInv, DeviceInv, ServiceOK, FieldValues, Fields
  <2> QED
    BY <1>1, <1>3, <2>1 DEF ViewsInv, AndroidOK
<1>6. DesktopOK' /\ FormTruthful'
  BY <1>1 DEF ViewsInv, DesktopOK, desktop, FormTruthful
<1>7. KotlinInv'
  <2>1. ASSUME NEW g \in Callbacks \ (unseen' \cup Range(to_push'))
        PROVE  Current(g)'
    <3>1. CASE g = f
      BY <1>3, <3>1
    <3>2. CASE g # f
      <4>1. g \in Fields /\ Current(g)
        BY <1>1, <3>2, Names DEF ViewsInv, KotlinInv
      <4> QED
        BY <1>1, <1>3, <3>2, <4>1, CurrentAside
    <3> QED
      BY <3>1, <3>2
  <2>2. \A n \in DOMAIN pushed' : n \in DOMAIN kotlin'["nodes"] /\ kotlin'["nodes"][n] = pushed'[n]
    <3>1. CASE f = "nodes"
      BY <1>1, <1>3, <3>1 DEF Current
    <3>2. CASE f # "nodes"
      <4>1. kotlin'["nodes"] = kotlin["nodes"] /\ pushed' = pushed
        BY <1>1, <1>3, <3>2 DEF Fields
      <4> QED
        BY <1>2, <4>1
    <3> QED
      BY <3>1, <3>2
  <2> QED
    BY <2>1, <2>2 DEF KotlinInv
<1> QED
  BY <1>4, <1>5, <1>6, <1>7 DEF ViewsInv

LEMMA PushedCompleteStep ==
    ASSUME ViewsInv, PushesComplete
    PROVE  ViewsInv'
<1>1. UNCHANGED <<radio, state, mirror, listening, unseen, overtaken, client, refresher, desktop, android>>
  BY DEF PushesComplete
<1>2. DeviceInv'
  BY <1>1, DeviceAside DEF ViewsInv, DeviceInv, ServiceOK
<1>3. Announced
  BY <1>1 DEF Announced
<1> QED
  BY <1>1, <1>2, <1>3, ViewsFollowDevice


-----------------------------------------------------------------------------
(* The specification                                                        *)

LEMMA ViewsStart == ViewsInit => ViewsInv
<1> SUFFICES ASSUME ViewsInit
             PROVE  ViewsInv
  OBVIOUS
<1>1. DeviceInv
  BY DeviceInit DEF ViewsInit
<1>2. DesktopOK
  <2>1. form \in [card : [Cards -> Maybe], rows : Rows]
    BY EmptyPartial DEF ViewsInit, Rows, Maybe
  <2> QED
    BY <2>1 DEF ViewsInit, DesktopOK, Maybe
<1>3. AndroidOK
  BY EmptyPartial, EmptySeq DEF ViewsInit, AndroidOK, Nodes
<1>4. FormTruthful
  <2> SUFFICES ASSUME NEW t \in Tags
               PROVE  t \notin dirty /\ Shown(t) \in {Published(t)}
    BY DEF FormTruthful
  <2>1. CASE t[1] \in Cards
    <3>1. t[1] \in Fields /\ t[1] \notin {"nodes", "channels"}
      BY <2>1, Names, DeviceAssumption DEF DeviceAssumption
    <3>2. mirror[t[1]] = None /\ form.card[t[1]] = None
      BY <2>1, <3>1 DEF ViewsInit, Init, Empty
    <3> QED
      BY <2>1, <3>2 DEF ViewsInit, Shown, Published
  <2>2. CASE t[1] \notin Cards
    <3>1. mirror["channels"] = <<>> /\ form.rows = <<>>
      BY DEF ViewsInit, Init, Empty, Fields
    <3> QED
      BY <2>2, <3>1 DEF ViewsInit, Shown, Published
  <2> QED
    BY <2>1, <2>2
<1>5. KotlinInv
  BY DEF ViewsInit, Init, KotlinInv
<1> QED
  BY <1>1, <1>2, <1>3, <1>4, <1>5 DEF ViewsInv

LEMMA ViewsStep == ViewsInv /\ [Next]_vars => ViewsInv'
<1> SUFFICES ASSUME ViewsInv, [Next]_vars
             PROVE  ViewsInv'
  OBVIOUS
<1>1. CASE DeviceNext /\ UNCHANGED <<desktop, android>>
  BY <1>1, DeviceStep, ViewsFollowDevice DEF ViewsInv
<1>2. CASE DesktopStep
  <2>1. ASSUME NEW f \in Fields, WatcherCopies(f)
        PROVE  ViewsInv'
    BY <2>1, WatcherStep
  <2>2. CASE HearsComplete
    BY <2>2, CompleteStep
  <2>3. ASSUME NEW i \in Chans, DrawsRow(i)
        PROVE  ViewsInv'
    BY <2>3, DrawStep
  <2>4. ASSUME NEW t \in Tags, NEW v \in Values, Edit(t, v)
        PROVE  ViewsInv'
    BY <2>4, EditStep
  <2>5. CASE (\E t \in Tags : ClickApply(t)) \/ ApplyAddresses \/ ApplyWrites \/ ApplyReturns
    BY <2>5, ApplyStep
  <2> QED
    BY <1>2, <2>1, <2>2, <2>3, <2>4, <2>5 DEF DesktopStep
<1>3. CASE AndroidStep
  <2>1. ASSUME NEW f \in Fields, PushesChange(f)
        PROVE  ViewsInv'
    BY <2>1, ChangeStep
  <2> QED
    BY <1>3, <2>1, ListenerStep, FirstStep, PushedCompleteStep DEF AndroidStep
<1>4. CASE UNCHANGED vars
  <2>1. UNCHANGED <<radio, state, mirror, client, listening, unseen, overtaken, refresher, desktop, android>>
    BY <1>4 DEF vars, dvars, service
  <2>2. DeviceInv' /\ Announced
    BY <2>1, DeviceAside DEF ViewsInv, DeviceInv, ServiceOK, Announced
  <2> QED
    BY <2>1, <2>2, ViewsFollowDevice
<1> QED
  BY <1>1, <1>2, <1>3, <1>4 DEF Next

LEMMA Invariant == Spec => []ViewsInv
  BY ViewsStart, ViewsStep, PTL DEF Spec

\* Every variable holds what it should: the service's tasks, the radio's
\* bursts, the form and what Kotlin was told are made of the radios, sections,
\* channels and values there are (service/mod.rs, watchers.rs, mesh_service.rs).
THEOREM ViewsTyped == Spec => []TypeOK
<1>1. ViewsInv => TypeOK
  BY DEF ViewsInv, DeviceInv, TypeOK
<1> QED
  BY <1>1, Invariant, PTL

\* The watch channels say what the snapshot says, but where a refresh has
\* yet to empty one or an answer overtook its publication (refresh_config and
\* apply_inbound of service/), for any number of radios, connections, refreshes.
THEOREM MirrorsCorrect == Spec => []MirrorsAgree
<1>1. ViewsInv => MirrorsAgree
  BY DEF ViewsInv, DeviceInv
<1> QED
  BY <1>1, Invariant, PTL

\* The settings form shows what the user entered last in a section being
\* edited, and else that or what was last published (watchers.rs and
\* ui/settings/), whatever the order of edits, watchers, bursts and writes.
THEOREM FormCorrect == Spec => []FormTruthful
<1>1. ViewsInv => FormTruthful
  BY DEF ViewsInv
<1> QED
  BY <1>1, Invariant, PTL

\* Kotlin, with nothing left to push, knows every field, node and channel as
\* published (set_config_listener), although only changed nodes are pushed.
THEOREM KotlinCorrect == Spec => []KotlinCurrent
<1>1. ViewsInv => KotlinCurrent
  <2> SUFFICES ASSUME KotlinInv, client = "android", listening, to_push = <<>>,
                      NEW f \in Callbacks \ unseen
               PROVE  Current(f)
    BY DEF ViewsInv, KotlinCurrent, Current
  <2>1. Range(to_push) = {}
    BY DEF Range
  <2> QED
    BY <2>1 DEF KotlinInv
<1> QED
  BY <1>1, Invariant, PTL

=============================================================================
