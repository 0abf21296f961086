--------------------------- MODULE VoiceAssembler ---------------------------
(***************************************************************************)
(* The receive side of the voice protocol                                  *)
(* (crates/voicetastic-core/src/voice/assembler): frames of many senders   *)
(* are collected into slots, a slot is completed by its last missing chunk *)
(* or by Reed-Solomon recovery, a periodic tick asks for missing chunks    *)
(* (NACK) and gives slots up, and a list of recently settled keys keeps    *)
(* late chunks from opening a slot again.                                  *)
(*                                                                         *)
(* accept() and tick() each hold the table's mutex from their first read   *)
(* of it to their return, so each is one action here.  They copy the       *)
(* configuration before they take that mutex: a call that works with a     *)
(* copy set_config has since replaced shows here as one more set_config,   *)
(* which may return to any configuration at any time.  A chunk's body is   *)
(* abstracted to its length; the Reed-Solomon coder to whether it has      *)
(* enough shards of one length.  Frames that ChunkHeader::parse refuses,   *)
(* and NACK frames, leave this component's state alone and are not         *)
(* modelled here.                                                          *)
(***************************************************************************)
EXTENDS Integers, Sequences, FiniteSets

CONSTANTS
    Senders, MessageIds, \* a key is a pair of these
    Dests,               \* "direct", "broadcast"
    Codecs, Streams,
    Headers,             \* the headers frames arrive with
    Lens,                \* the body lengths frames arrive with
    MinChunk, MaxBody,   \* MIN_CHUNK_SIZE, MAX_BODY_SIZE
    MaxShards,           \* MAX_TOTAL_SHARDS
    MaxGlobal,           \* MAX_IN_PROGRESS_GLOBAL
    MaxPerSender,        \* MAX_IN_PROGRESS_PER_SENDER
    BlacklistMax,        \* BLACKLIST_MAX
    MaxStrikes,          \* MAX_VALIDATION_STRIKES
    Configs,             \* the configurations the host sets
    Horizon,             \* bound: frames and configurations arrive up to this time
    MaxTime              \* bound: the clock stops here

VARIABLES
    now,         \* the monotonic clock
    cfg,         \* AssemblerConfig
    in_progress, \* key -> AssemblyState
    per_sender,  \* sender -> number of its slots; no entry when it has none
    blacklist,   \* settled keys with the time they were settled, oldest first
    out          \* what the last call returned: [event, finalized, nacks]

table == <<in_progress, per_sender>>
vars == <<now, cfg, in_progress, per_sender, blacklist, out>>

Keys == Senders \X MessageIds

\* The slots of a message's shard vector.  The code's vector has `total` of
\* them; those from `total` on stay empty here (StoredInBounds).
Slots == 0 .. (MaxShards - 1)

\* Option::None of a length.
NoLen == -1

HeaderType == [total : Nat \ {0}, parity : Nat, codec : Codecs, stream : Streams]

ConfigType ==
    [message_timeout : Nat, completion_memory : Nat, dead_sender_timeout : Nat,
     nack_window : Nat, nack_backoff_base : Nat, max_nack_rounds : Nat,
     partial_play : BOOLEAN, supported : SUBSET Codecs]

Frames ==
    { f \in [from : Senders, id : MessageIds, to : Dests, header : Headers,
             type : {"data", "parity"}, idx : Slots, len : Lens] :
        f.idx < (IF f.type = "data" THEN f.header.total ELSE f.header.parity) }

ASSUME ConstantsAssumption ==
    /\ Headers \subseteq HeaderType
    /\ Lens \subseteq Nat
    /\ MinChunk \in Nat /\ MaxBody \in Nat
    /\ MaxShards \in Nat \ {0}
    /\ MaxGlobal \in Nat \ {0} /\ MaxPerSender \in Nat \ {0}
    /\ BlacklistMax \in Nat /\ MaxStrikes \in Nat
    /\ Configs \subseteq ConfigType
    /\ Horizon \in Nat /\ MaxTime \in Nat

-----------------------------------------------------------------------------
(* Configuration *)

AtLeast(a, b) == IF a >= b THEN a ELSE b
AtMost(a, b) == IF a <= b THEN a ELSE b

\* AssemblerConfig::clamped, applied by VoiceAssembler::new.
clamped(c) ==
    LET timeout == AtLeast(c.message_timeout, 1)
    IN  [c EXCEPT !.message_timeout = timeout,
                  !.nack_window = AtLeast(c.nack_window, 1),
                  !.dead_sender_timeout =
                      AtMost(AtLeast(c.dead_sender_timeout, 1), timeout),
                  !.completion_memory = AtLeast(c.completion_memory, timeout)]

\* AssemblerConfig::validate, the guard of set_config and update_config.
validate(c) ==
    /\ c.message_timeout > 0
    /\ c.dead_sender_timeout > 0
    /\ c.dead_sender_timeout < c.message_timeout
    /\ c.nack_window > 0
    /\ c.completion_memory >= c.message_timeout

-----------------------------------------------------------------------------
(* One slot *)

Key(f) == <<f.from, f.id>>

\* AssemblyState::new
NewSlot(f, chunk_size) ==
    [header |-> f.header, to |-> f.to,
     chunk_size |-> chunk_size, last_data_len |-> NoLen,
     data_shards |-> [i \in Slots |-> NoLen], parity_shards |-> {},
     received_data |-> 0, received_parity |-> 0, recovered_via_fec |-> 0,
     started_at |-> now, last_chunk_at |-> now, last_data_at |-> now,
     nack_rounds |-> 0, validation_strikes |-> 0]

Stored(e) == { i \in Slots : e.data_shards[i] # NoLen }
LastIdx(e) == e.header.total - 1

missing_data_indices(e) == (0 .. LastIdx(e)) \ Stored(e)

\* Every frame but the final DATA chunk carries exactly chunk_size bytes.
FixesChunkSize(f) == f.type = "parity" \/ f.idx # f.header.total - 1

\* derive_initial_chunk_size: the range check every frame passes first, and
\* the size a new slot starts with.
ChunkSizeInRange(f) == FixesChunkSize(f) => f.len \in MinChunk .. MaxBody
InitialChunkSize(f) == IF FixesChunkSize(f) THEN f.len ELSE NoLen

validate_template(e, f) ==
    /\ f.header.total = e.header.total
    /\ f.header.codec = e.header.codec
    /\ f.header.stream = e.header.stream
    /\ f.header.parity >= e.header.parity

\* A frame that agrees with the template proves the sender alive and may
\* announce more parity, whatever becomes of its body.
Touched(e, f) == [e EXCEPT !.header.parity = f.header.parity, !.last_data_at = now]

IsDuplicate(e, f) ==
    IF f.type = "data" THEN f.idx \in Stored(e) ELSE f.idx \in e.parity_shards

\* The length checks of ingest_data and pin_chunk_size.
LengthFits(e, f) ==
    IF FixesChunkSize(f)
      THEN IF e.chunk_size = NoLen THEN f.len \in MinChunk .. MaxBody
                                   ELSE f.len = e.chunk_size
      ELSE e.chunk_size = NoLen \/ f.len <= e.chunk_size
\* Slips: a final chunk too long is left in place; thrown out, its length is
\* remembered.
pin_NeverEvicts(e, len) ==
    IF e.chunk_size # NoLen THEN e ELSE [e EXCEPT !.chunk_size = len]
pin_KeepsLastLen(e, len) ==
    IF e.chunk_size # NoLen THEN e
    ELSE IF e.data_shards[LastIdx(e)] > len
      THEN [e EXCEPT !.chunk_size = len, !.data_shards[LastIdx(e)] = NoLen,
                     !.received_data = @ - 1]
      ELSE [e EXCEPT !.chunk_size = len]

\* pin_chunk_size on the first frame that fixes the size: a stored final
\* chunk that is longer is thrown out again.
pin_chunk_size(e, len) ==
    IF e.chunk_size # NoLen THEN e
    ELSE IF e.data_shards[LastIdx(e)] > len
      THEN [e EXCEPT !.chunk_size = len,
                     !.data_shards[LastIdx(e)] = NoLen,
                     !.received_data = @ - 1,
                     !.last_data_len = NoLen]
      ELSE [e EXCEPT !.chunk_size = len]

ingest_data(e, f) ==
    IF FixesChunkSize(f)
      THEN LET p == pin_chunk_size(e, f.len)
           IN  [p EXCEPT !.data_shards[f.idx] = f.len, !.received_data = @ + 1]
      ELSE [e EXCEPT !.data_shards[f.idx] = f.len, !.received_data = @ + 1,
                     !.last_data_len = f.len]

ingest_parity(e, f) ==
    LET p == pin_chunk_size(e, f.len)
    IN  [p EXCEPT !.parity_shards = @ \cup {f.idx}, !.received_parity = @ + 1]
\* A slip: recovery although the final chunk's length is unknown.
CanRecover_UnknownTail(e) ==
    /\ e.header.parity > 0
    /\ e.chunk_size # NoLen
    /\ e.received_data + e.received_parity >= e.header.total

\* The conditions under which try_fec_recover calls the coder, and the
\* coder's own: enough shards, all of one length (only the final DATA shard
\* is padded).
CanRecover(e) ==
    /\ e.header.parity > 0
    /\ e.chunk_size # NoLen
    /\ e.received_data + e.received_parity >= e.header.total
    /\ LastIdx(e) \in Stored(e) \/ e.last_data_len # NoLen
    /\ Cardinality(Stored(e)) + Cardinality(e.parity_shards) >= e.header.total
    /\ \A i \in Stored(e) : \/ e.data_shards[i] = e.chunk_size
                            \/ i = LastIdx(e) /\ e.data_shards[i] < e.chunk_size

try_fec_recover(e) ==
    LET lost == missing_data_indices(e)
    IN  IF ~CanRecover(e) THEN e
        ELSE [e EXCEPT
                !.data_shards = [i \in Slots |->
                    IF i \notin lost THEN e.data_shards[i]
                    ELSE IF i = LastIdx(e) THEN e.last_data_len
                    ELSE e.chunk_size],
                !.received_data = @ + Cardinality(lost),
                !.recovered_via_fec = @ + Cardinality(lost)]

\* Only data progress resets the NACK backoff.
ResetBackoff(before, e) ==
    IF e.received_data > before.received_data
      THEN [e EXCEPT !.nack_rounds = 0, !.last_chunk_at = now]
      ELSE e
\* A slip: parity does not attempt recovery.
Ingested_ParityOnlyStored(e, f) ==
    IF f.type = "data"
      THEN ResetBackoff(e, try_fec_recover(ingest_data(Touched(e, f), f)))
      ELSE ingest_parity(Touched(e, f), f)

\* A slot after a well-formed new shard.
Ingested(e, f) ==
    LET touched == Touched(e, f)
        stored == IF f.type = "data" THEN ingest_data(touched, f)
                                     ELSE ingest_parity(touched, f)
    IN  ResetBackoff(e, try_fec_recover(stored))
\* A slip: recovered chunks do not count.
Complete_ByFramesOnly(e) == e.received_data - e.recovered_via_fec = e.header.total

Complete(e) == e.received_data = e.header.total

\* finalize: the audio is laid out chunk by chunk, a missing chunk as a gap
\* of chunk_size; without a chunk size only what was stored is emitted.
finalize(k, e, complete) ==
    LET sized == e.chunk_size # NoLen
        laid_out == IF sized THEN 0 .. LastIdx(e) ELSE Stored(e)
    IN  [key |-> k, is_complete |-> complete, total |-> e.header.total,
         received |-> e.received_data, recovered |-> e.recovered_via_fec,
         chunk_size |-> e.chunk_size,
         audio |-> [i \in laid_out |->
                       IF i \in Stored(e) THEN e.data_shards[i] ELSE e.chunk_size],
         gaps |-> IF sized THEN missing_data_indices(e) ELSE {}]

-----------------------------------------------------------------------------
(* The table, its per-sender counts and the blacklist *)

RangeOf(s) == { s[i] : i \in DOMAIN s }

\* The sequences that list a finite set, each in an order a HashMap may
\* iterate it.
Orders(S) == { s \in [1 .. Cardinality(S) -> S] : RangeOf(s) = S }

Blacklisted(bl) == { bl[i].key : i \in DOMAIN bl }

\* prune_blacklist.  Entries are pushed under the table's mutex with a
\* monotonic clock, so the expired ones are a prefix (BlacklistInOrder).
Pruned ==
    LET expired == { i \in DOMAIN blacklist :
                       now - blacklist[i].at >= cfg.completion_memory }
    IN  SubSeq(blacklist, Cardinality(expired) + 1, Len(blacklist))

\* A slip: the newest entry is dropped instead of the oldest.
push_DropsNewest(bl, settled) ==
    { LET pushed == bl \o [i \in 1 .. Len(ks) |-> [key |-> ks[i], at |-> now]]
      IN  SubSeq(pushed, 1, AtMost(Len(pushed), BlacklistMax)) :
      ks \in Orders(settled \ Blacklisted(bl)) }

\* push_blacklist for each of a set of keys, in any order: a key already
\* there is not pushed again, at most BlacklistMax entries are kept and the
\* oldest are drained.  The set of lists this may give.
push_blacklist(bl, settled) ==
    { LET pushed == bl \o [i \in 1 .. Len(ks) |-> [key |-> ks[i], at |-> now]]
          excess == AtLeast(Len(pushed) - BlacklistMax, 0)
      IN  SubSeq(pushed, excess + 1, Len(pushed)) :
      ks \in Orders(settled \ Blacklisted(bl)) }

SenderCount(s) == IF s \in DOMAIN per_sender THEN per_sender[s] ELSE 0

\* A slip: a count that reaches zero stays.
per_sender_dec_KeepsZero(cnt, removed) ==
    [s \in DOMAIN cnt |-> cnt[s] - Cardinality({ k \in removed : k[1] = s })]

\* per_sender_dec for each key of a set; a count that reaches zero is removed.
per_sender_dec(cnt, removed) ==
    LET gone(s) == Cardinality({ k \in removed : k[1] = s })
        kept == { s \in DOMAIN cnt : gone(s) = 0 \/ cnt[s] > gone(s) }
    IN  [s \in kept |-> cnt[s] - gone(s)]

per_sender_inc(cnt, s) ==
    [x \in DOMAIN cnt \cup {s} |->
        IF x # s THEN cnt[x] ELSE (IF s \in DOMAIN cnt THEN cnt[s] ELSE 0) + 1]

Without(tab, removed) == [k \in DOMAIN tab \ removed |-> tab[k]]
With(tab, key, e) == [k \in DOMAIN tab \cup {key} |-> IF k = key THEN e ELSE tab[k]]

Returned(event) == [event |-> event, finalized |-> {}, nacks |-> {}]

-----------------------------------------------------------------------------
(* accept *)

IsKnown(f) == Key(f) \in DOMAIN in_progress
\* A slip: settled keys are not looked up.
Admitted_AnyKey(f) ==
    /\ IsKnown(f) \/ SenderCount(f.from) < MaxPerSender
    /\ f.header.codec \in cfg.supported
    /\ f.header.total + f.header.parity <= MaxShards
    /\ ChunkSizeInRange(f)

\* Everything accept checks before it creates or touches a slot.
Admitted(f) ==
    /\ Key(f) \notin Blacklisted(Pruned)
    /\ IsKnown(f) \/ SenderCount(f.from) < MaxPerSender
    /\ f.header.codec \in cfg.supported
    /\ f.header.total + f.header.parity <= MaxShards
    /\ ChunkSizeInRange(f)

\* A frame refused by those checks: only the blacklist has been pruned.
RejectFrame(f) ==
    /\ ~Admitted(f)
    /\ blacklist' = Pruned
    /\ out' = Returned("Rejected")
    /\ UNCHANGED <<now, cfg, table>>

\* A frame that disagrees with its slot's template, short of the last strike.
StrikeSlot(f) ==
    /\ Admitted(f) /\ IsKnown(f)
    /\ LET e == in_progress[Key(f)]
       IN  /\ ~validate_template(e, f)
           /\ e.validation_strikes + 1 < MaxStrikes
           /\ in_progress' =
                With(in_progress, Key(f), [e EXCEPT !.validation_strikes = @ + 1])
    /\ blacklist' = Pruned
    /\ out' = Returned("Rejected")
    /\ UNCHANGED <<now, cfg, per_sender>>

\* The last strike evicts the slot and blacklists its key.
StrikeOut(f) ==
    /\ Admitted(f) /\ IsKnown(f)
    /\ LET e == in_progress[Key(f)]
       IN  /\ ~validate_template(e, f)
           /\ e.validation_strikes + 1 >= MaxStrikes
    /\ in_progress' = Without(in_progress, {Key(f)})
    /\ per_sender' = per_sender_dec(per_sender, {Key(f)})
    /\ blacklist' \in push_blacklist(Pruned, {Key(f)})
    /\ out' = Returned("Rejected")
    /\ UNCHANGED <<now, cfg>>

\* evict_for_global_cap: who makes room for a new slot.  Slots of equal age
\* are told apart by the map's iteration order.
Evictions(f) ==
    IF IsKnown(f) \/ Cardinality(DOMAIN in_progress) < MaxGlobal THEN { {} }
    ELSE { {k} : k \in { k \in DOMAIN in_progress :
             \A j \in DOMAIN in_progress :
                 in_progress[k].started_at <= in_progress[j].started_at } }

SlotFor(f) ==
    IF IsKnown(f) THEN in_progress[Key(f)] ELSE NewSlot(f, InitialChunkSize(f))
\* A slip: the evicted slot stays on its sender's count.
OpenedCounts_VictimKept(f, evicted) ==
    IF IsKnown(f) THEN per_sender ELSE per_sender_inc(per_sender, f.from)

OpenedCounts(f, evicted) ==
    IF IsKnown(f) THEN per_sender
    ELSE per_sender_inc(per_sender_dec(per_sender, evicted), f.from)

\* A frame that agrees with its slot and leaves it open, as `e`.
KeepSlot(f, e, event) ==
    \E evicted \in Evictions(f) :
        /\ in_progress' = With(Without(in_progress, evicted), Key(f), e)
        /\ per_sender' = OpenedCounts(f, evicted)
        /\ blacklist' \in push_blacklist(Pruned, evicted)
        /\ out' = Returned(event)
        /\ UNCHANGED <<now, cfg>>

Agrees(f) == Admitted(f) /\ validate_template(SlotFor(f), f)

\* A shard the slot already has.
DuplicateShard(f) ==
    /\ Agrees(f)
    /\ IsDuplicate(SlotFor(f), f)
    /\ KeepSlot(f, Touched(SlotFor(f), f), "Duplicate")

\* A body whose length contradicts the slot's chunk size.
MisfitShard(f) ==
    /\ Agrees(f)
    /\ ~IsDuplicate(SlotFor(f), f) /\ ~LengthFits(SlotFor(f), f)
    /\ KeepSlot(f, Touched(SlotFor(f), f), "Rejected")

TakesShard(f) ==
    Agrees(f) /\ ~IsDuplicate(SlotFor(f), f) /\ LengthFits(SlotFor(f), f)

\* A new shard that leaves the message incomplete.
StoreShard(f) ==
    /\ TakesShard(f)
    /\ ~Complete(Ingested(SlotFor(f), f))
    /\ KeepSlot(f, Ingested(SlotFor(f), f), "Pending")

\* The shard that completes the message: the slot is freed, its key
\* blacklisted and the message handed to the player.
CompleteMessage(f) ==
    /\ TakesShard(f)
    /\ LET e == Ingested(SlotFor(f), f)
       IN  /\ Complete(e)
           /\ out' = [event |-> "Complete",
                      finalized |-> {finalize(Key(f), e, TRUE)}, nacks |-> {}]
    /\ \E evicted \in Evictions(f) :
        /\ in_progress' = Without(in_progress, evicted \cup {Key(f)})
        /\ per_sender' = per_sender_dec(OpenedCounts(f, evicted), {Key(f)})
        /\ \E bl \in push_blacklist(Pruned, evicted) :
              blacklist' \in push_blacklist(bl, {Key(f)})
    /\ UNCHANGED <<now, cfg>>

accept(f) ==
    /\ now <= Horizon
    /\ \/ RejectFrame(f)
       \/ StrikeSlot(f)
       \/ StrikeOut(f)
       \/ DuplicateShard(f)
       \/ MisfitShard(f)
       \/ StoreShard(f)
       \/ CompleteMessage(f)

-----------------------------------------------------------------------------
(* tick *)

nack_enabled(e) == cfg.nack_backoff_base # 0 /\ e.to # "broadcast"
\* A slip: dead-sender detection ahead of the hard limits.
GivesUp_UnlessDead(e) ==
    /\ now - e.last_data_at < cfg.dead_sender_timeout
    /\ \/ now - e.started_at >= cfg.message_timeout
       \/ e.nack_rounds >= cfg.max_nack_rounds

GivesUp(e) ==
    \/ now - e.started_at >= cfg.message_timeout
    \/ e.nack_rounds >= cfg.max_nack_rounds

effective_window(e) ==
    LET b == cfg.nack_backoff_base
    IN  cfg.nack_window *
          <<1, b, b * b, b * b * b, b * b * b * b>>[AtMost(e.nack_rounds, 4) + 1]

NackDue(e) ==
    /\ nack_enabled(e)
    /\ now - e.last_data_at < cfg.dead_sender_timeout
    /\ now - e.last_chunk_at >= effective_window(e)
    /\ e.received_data < e.header.total

Nack(k, give_up) ==
    [key |-> k, give_up |-> give_up,
     missing |-> missing_data_indices(in_progress[k]),
     round |-> in_progress[k].nack_rounds + 1]
\* A slip: the backoff counted from now.
AfterNack_FromNow(e) ==
    [e EXCEPT !.nack_rounds = @ + 1, !.last_chunk_at = now + effective_window(e)]

AfterNack(e) ==
    [e EXCEPT !.nack_rounds = @ + 1, !.last_chunk_at = @ + effective_window(e)]

\* One pass over the table: slots past their limit are given up (with a last
\* NACK and, if configured, what was received), quiet ones ask for what they
\* miss.
tick ==
    LET over == { k \in DOMAIN in_progress : GivesUp(in_progress[k]) }
        due == { k \in DOMAIN in_progress \ over : NackDue(in_progress[k]) }
        told == { k \in over : nack_enabled(in_progress[k]) }
    IN  /\ in_progress' = [k \in DOMAIN in_progress \ over |->
              IF k \in due THEN AfterNack(in_progress[k]) ELSE in_progress[k]]
        /\ per_sender' = per_sender_dec(per_sender, over)
        /\ blacklist' \in push_blacklist(Pruned, over)
        /\ out' = [event |-> "Tick",
                   finalized |-> IF cfg.partial_play
                       THEN { finalize(k, in_progress[k], FALSE) : k \in over }
                       ELSE {},
                   nacks |-> { Nack(k, FALSE) : k \in due }
                             \cup { Nack(k, TRUE) : k \in told }]
        /\ UNCHANGED <<now, cfg>>

-----------------------------------------------------------------------------

\* set_config, and the store that ends update_config.
set_config(c) ==
    /\ now <= Horizon
    /\ validate(c)
    /\ cfg' = c
    /\ out' = Returned("Configured")
    /\ UNCHANGED <<now, table, blacklist>>

AdvanceClock ==
    /\ now < MaxTime
    /\ now' = now + 1
    /\ out' = Returned("Idle")
    /\ UNCHANGED <<cfg, table, blacklist>>

\* VoiceAssembler::new
Init ==
    /\ now = 0
    /\ \E c \in Configs : cfg = clamped(c)
    /\ in_progress = [k \in {} |-> 0]
    /\ per_sender = [s \in {} |-> 0]
    /\ blacklist = <<>>
    /\ out = Returned("Idle")

Next ==
    \/ \E f \in Frames : accept(f)
    \/ \E c \in Configs : set_config(c)
    \/ tick
    \/ AdvanceClock

Spec == Init /\ [][Next]_vars

\* The host drives tick from a periodic timer and time passes; that frames
\* arrive is up to the mesh.
FairSpec == Spec /\ WF_vars(tick) /\ WF_vars(AdvanceClock)

-----------------------------------------------------------------------------
(* Invariants *)

SlotType ==
    [header : HeaderType, to : Dests,
     chunk_size : Nat \cup {NoLen}, last_data_len : Nat \cup {NoLen},
     data_shards : [Slots -> Nat \cup {NoLen}], parity_shards : SUBSET Nat,
     received_data : Nat, received_parity : Nat, recovered_via_fec : Nat,
     started_at : Nat, last_chunk_at : Nat, last_data_at : Nat,
     nack_rounds : Nat, validation_strikes : Nat]

\* The values of the assembler's state (AssemblerInner, AssemblyState,
\* AssemblerConfig).
TypeOK ==
    /\ now \in Nat
    /\ cfg \in ConfigType
    /\ DOMAIN in_progress \subseteq Keys
    /\ in_progress \in [DOMAIN in_progress -> SlotType]
    /\ DOMAIN per_sender \subseteq Senders
    /\ per_sender \in [DOMAIN per_sender -> Nat \ {0}]
    /\ blacklist \in Seq([key : Keys, at : Nat])

\* The u8 counters that decide completion and recovery agree with the shard
\* vectors through duplicates, recovery and the eviction of an oversized
\* final shard, and no shard is stored outside the vectors' bounds (which
\* would panic).
CountsMatch(e) ==
    /\ Stored(e) \subseteq 0 .. LastIdx(e)
    /\ e.received_data = Cardinality(Stored(e))
    /\ e.parity_shards \subseteq 0 .. (e.header.parity - 1)
    /\ e.received_parity = Cardinality(e.parity_shards)
ShardCountsMatch == \A k \in DOMAIN in_progress : CountsMatch(in_progress[k])

\* Whatever order frames come in, the stored lengths are ones the coder can
\* work with: every chunk but the last has the pinned size, the last is no
\* longer, and before the size is pinned only the last chunk can be stored.
LengthsFit(e) ==
    \A i \in Stored(e) :
        IF e.chunk_size = NoLen THEN i = LastIdx(e)
        ELSE IF i = LastIdx(e) THEN e.data_shards[i] <= e.chunk_size
        ELSE e.data_shards[i] = e.chunk_size
ShardLengthsFit ==
    \A k \in DOMAIN in_progress :
        LET e == in_progress[k]
        IN  LengthsFit(e) /\ (e.chunk_size = NoLen => e.parity_shards = {})

\* last_data_len is known exactly while the final chunk is stored: the stale
\* length of an evicted chunk would trim a recovered one wrongly.
LastLenTracksLastChunk ==
    \A k \in DOMAIN in_progress :
        LET e == in_progress[k] IN e.last_data_len = e.data_shards[LastIdx(e)]

\* What recovery and completion count on, whatever order, length or parity
\* count the frames came with: the counters, the lengths and the remembered
\* length of the tail are those of the shards that are stored.
ShardsConsistent == ShardCountsMatch /\ ShardLengthsFit /\ LastLenTracksLastChunk

\* No slot waits in the table for a message that is already whole, or that
\* the parity at hand would make whole.
NothingRecoverableWaits ==
    \A k \in DOMAIN in_progress :
        ~Complete(in_progress[k]) /\ ~CanRecover(in_progress[k])

\* What reaches the player: a message is flagged complete exactly when no
\* chunk is missing, its audio is then laid out whole, and in a partial one
\* every chunk still stands at its own offset.
FinalizedAudioAligned ==
    \A m \in out.finalized :
        /\ m.is_complete <=> m.received = m.total
        /\ m.is_complete => m.gaps = {} /\ DOMAIN m.audio = 0 .. (m.total - 1)
        /\ \A i \in DOMAIN m.audio \ {m.total - 1} :
              m.chunk_size # NoLen /\ m.audio[i] = m.chunk_size

\* The per-sender counts are those of the table, with no entry for a sender
\* without slots, through completion, time-out, strikes and eviction on
\* another sender's behalf; and no cap is exceeded.
SlotsOf(s) == { k \in DOMAIN in_progress : k[1] = s }
PerSenderCounts ==
    /\ \A s \in Senders : SenderCount(s) = Cardinality(SlotsOf(s))
    /\ \A s \in DOMAIN per_sender : per_sender[s] \in 1 .. MaxPerSender
    /\ Cardinality(DOMAIN in_progress) <= MaxGlobal

\* A key is never both settled and in progress, and is listed once.
SettledIsClosed ==
    /\ DOMAIN in_progress \cap Blacklisted(blacklist) = {}
    /\ \A i, j \in DOMAIN blacklist :
          blacklist[i].key = blacklist[j].key => i = j

\* The list is in the order of its times, so that pruning and draining from
\* the front forget the oldest, and it stays within its bound.
BlacklistInOrder ==
    /\ Len(blacklist) <= BlacklistMax
    /\ \A i, j \in DOMAIN blacklist :
          i <= j => blacklist[i].at <= blacklist[j].at /\ blacklist[j].at <= now

\* Rounds are spent on silence only: the quiet timer never runs ahead of the
\* clock, and each round spent since the last data lies at least a NACK
\* window of silence back.  So a sender is given up for its rounds only
\* after max_nack_rounds windows without data, however late ticks come.
Windows == { clamped(c).nack_window : c \in Configs }
SilencePaid(e) ==
    /\ e.started_at <= e.last_data_at /\ e.last_data_at <= now
    /\ e.started_at <= e.last_chunk_at /\ e.last_chunk_at <= now
    /\ \A w \in Windows :
          (\A v \in Windows : w <= v) => w * e.nack_rounds <= e.last_chunk_at - e.started_at
RoundsMeasureSilence == \A k \in DOMAIN in_progress : SilencePaid(in_progress[k])

\* A NACK on the wire always names a missing chunk, and says give_up exactly
\* when the slot is gone.
NacksNameMissing ==
    \A n \in out.nacks :
        n.missing # {} /\ (n.give_up <=> n.key \notin DOMAIN in_progress)

-----------------------------------------------------------------------------
(* Action and liveness properties *)

\* Every slot is freed in the end, whatever arrives and however the
\* configuration changes: tick gives up what is neither completed nor
\* evicted.
EverySlotFreed ==
    \A k \in Keys : (k \in DOMAIN in_progress) ~> (k \notin DOMAIN in_progress)

Memories == { clamped(c).completion_memory : c \in Configs }

\* The assembler implements SettledOnce: no frame, however late or repeated,
\* opens a settled key again or hands its message out twice while
\* completion_memory lasts and fewer than BlacklistMax keys settled since.
Once == INSTANCE SettledOnce WITH
    Memory <- CHOOSE m \in Memories : \A n \in Memories : m <= n,
    Capacity <- BlacklistMax,
    open <- DOMAIN in_progress,
    settled <- [k \in Blacklisted(blacklist) |->
                   blacklist[CHOOSE i \in DOMAIN blacklist :
                                 blacklist[i].key = k].at],
    handed <- { m.key : m \in out.finalized }
ImplementsSettledOnce == Once!Spec
=============================================================================
