----------------------------- MODULE WireFormat -----------------------------
(***************************************************************************)
(* The wire protocol of voice frames (crates/voicetastic-proto, and nack,  *)
(* send_prep and VoiceFecMode::resolve of voicetastic-core): what a chunk  *)
(* header carries, what a parser refuses and in which order, how a payload *)
(* is cut into DATA and PARITY frames, and the bitmap of a NACK.           *)
(*                                                                         *)
(* A frame is its header's fields and the length of its body.  The header  *)
(* tag, a truncated SHA-256 of the other header bytes, is those fields     *)
(* themselves: two headers have one tag when they are equal.               *)
(***************************************************************************)
EXTENDS ModemPreset, Sequences, FiniteSets

PROTOCOL_VERSION == 3
HEADER_SIZE == 16
MAX_PACKET_SIZE == MAX_BODY_SIZE + HEADER_SIZE
MIN_CHUNK_SIZE == 16
MAX_CHUNKS_PER_MESSAGE == 255
MAX_PARITY_PER_MESSAGE == 128
MAX_TOTAL_SHARDS == 256

Smallest(S) == CHOOSE x \in S : \A y \in S : x <= y
div_ceil(a, b) == (a + b - 1) \div b
U8(n) == n % 256

Ok(v) == [ok |-> TRUE, value |-> v]
Err(e) == [ok |-> FALSE, error |-> e]

-----------------------------------------------------------------------------
(* Chunk headers *)

PacketType == {"data", "parity", "nack"}
to_bits(t) == CASE t = "data" -> 0 [] t = "parity" -> 1 [] t = "nack" -> 2

\* The logical bytes of a header: the type and flags byte in its three parts.
write_logical(h) ==
    [version |-> PROTOCOL_VERSION, bits |-> to_bits(h.type), reserved |-> 0,
     last |-> h.last, id |-> h.id, codec |-> h.codec, param |-> h.param,
     seq |-> h.seq, idx |-> h.idx, total |-> h.total, parity |-> h.parity]

compute_tag(logical) == logical

\* A frame as bytes: the header serialised, and a body.
serialize(h, body) ==
    [logical |-> write_logical(h), tag |-> compute_tag(write_logical(h)),
     len |-> HEADER_SIZE + body]

BadIndex(t, l) ==
    \/ t = "data" /\ l.idx >= l.total
    \/ t = "parity" /\ (l.parity = 0 \/ l.idx >= l.parity)

\* ChunkHeader::parse, in the order of its checks.
parse(f) ==
    LET l == f.logical
        type == CASE l.bits = 0 -> "data" [] l.bits = 1 -> "parity" [] l.bits = 2 -> "nack"
    IN  CASE f.len < HEADER_SIZE -> Err("TooShort")
          [] f.len > MAX_PACKET_SIZE -> Err("TooLarge")
          [] l.version # PROTOCOL_VERSION -> Err("BadVersion")
          [] l.reserved # 0 -> Err("ReservedFlagSet")
          [] l.bits = 3 -> Err("ReservedPacketType")
          [] l.id = 0 -> Err("ZeroMessageId")
          [] l.total = 0 -> Err("BadTotal")
          [] l.parity > MAX_PARITY_PER_MESSAGE -> Err("TooMuchParity")
          [] BadIndex(type, l) -> Err("BadIndex")
          [] type = "nack" /\ l.idx # 0 -> Err("BadNackIndex")
          [] f.tag # compute_tag(l) -> Err("BadMac")
          [] OTHER -> Ok([type |-> type, last |-> l.last, id |-> l.id, codec |-> l.codec,
                          param |-> l.param, seq |-> l.seq, idx |-> l.idx,
                          total |-> l.total, parity |-> l.parity,
                          body |-> f.len - HEADER_SIZE])

-----------------------------------------------------------------------------
(* Messages *)

\* random_message_id: zero is reserved.
random_message_id(drawn) == IF drawn = 0 THEN 1 ELSE drawn

\* The header and body length of shard i, counted from 0 as the loop does.
FrameOf(i, len, cfg, total) ==
    LET data == U8(i) < total
        body == IF i = total - 1 THEN len - cfg.chunk_size * (total - 1) ELSE cfg.chunk_size
    IN  serialize([type |-> IF data THEN "data" ELSE "parity",
                   last |-> cfg.last /\ i = total + cfg.parity - 1,
                   id |-> cfg.id, codec |-> cfg.codec, param |-> cfg.param, seq |-> cfg.seq,
                   idx |-> U8(IF data THEN i ELSE i - total),
                   total |-> total, parity |-> cfg.parity],
                  body)

\* build_message for a payload of that length.
build_message(len, cfg) ==
    LET total == div_ceil(len, cfg.chunk_size)
    IN  CASE cfg.chunk_size < MIN_CHUNK_SIZE -> Err("ChunkTooSmall")
          [] cfg.chunk_size > MAX_BODY_SIZE -> Err("ChunkTooLarge")
          [] len = 0 -> Err("TooShort")
          [] total > MAX_CHUNKS_PER_MESSAGE -> Err("AudioTooLarge")
          [] cfg.parity > MAX_PARITY_PER_MESSAGE -> Err("TooMuchParity")
          [] total + cfg.parity > MAX_TOTAL_SHARDS -> Err("TooManyShards")
          [] OTHER -> Ok([total_data |-> total, parity_count |-> cfg.parity,
                          frames |-> [i \in 1 .. total + cfg.parity |->
                                         FrameOf(i - 1, len, cfg, total)]])

-----------------------------------------------------------------------------
(* Sending *)

FecModes == {"auto", "off", "light", "medium", "heavy"}

FecPercent(mode, broadcast, p) ==
    CASE mode = "off" -> 0
      [] mode = "light" -> 10
      [] mode = "medium" -> 25
      [] mode = "heavy" \/ (mode = "auto" /\ broadcast) -> 50
      [] p \in {"LongFast", "LongModerate", "LongSlow", "VeryLongSlow"} -> 33
      [] p \in {"ShortTurbo", "ShortFast", "ShortSlow"} -> 0
      [] OTHER -> 20

\* A slip: only each side's own limit, not the sum's.
resolve_NoSum(mode, broadcast, p, total) ==
    Smallest({div_ceil(total * FecPercent(mode, broadcast, p), 100),
              total, MAX_PARITY_PER_MESSAGE, 255})

\* VoiceFecMode::resolve
resolve(mode, broadcast, p, total) ==
    Smallest({div_ceil(total * FecPercent(mode, broadcast, p), 100),
              total, MAX_PARITY_PER_MESSAGE, 255,
              IF total < MAX_TOTAL_SHARDS THEN MAX_TOTAL_SHARDS - total ELSE 0})

\* prepare_voice_send
prepare_voice_send(len, codec, p, broadcast, mode, drawn) ==
    LET size == recommended_chunk_size(p)
        chunks == div_ceil(len, size)
    IN  build_message(len,
            [id |-> random_message_id(drawn), seq |-> 0, codec |-> codec, param |-> 0,
             chunk_size |-> size, last |-> TRUE,
             parity |-> resolve(mode, broadcast, p, IF chunks = 0 THEN 1 ELSE chunks)])

-----------------------------------------------------------------------------
(* NACKs *)

\* The bitmap as the bits set in it, byte and bit, after the two bytes of
\* version and flags.
bitmap_len(total) == div_ceil(total, 8)
BitOf(i) == <<i \div 8, 7 - (i % 8)>>

\* build_nack: the frame and the bitmap in its body.
build_nack(h, missing, give_up) ==
    [frame |-> serialize([h EXCEPT !.type = "nack", !.last = FALSE, !.idx = 0],
                         2 + bitmap_len(h.total)),
     version |-> 1, give_up |-> give_up,
     bits |-> { BitOf(i) : i \in { j \in missing : j < h.total } }]

\* parse_nack_body
parse_nack_body(header, nack) ==
    CASE header.body < 2 + bitmap_len(header.total) -> Err("NackTooShort")
      [] nack.version # 1 -> Err("BadVersion")
      [] OTHER -> Ok([id |-> header.id, seq |-> header.seq, total |-> header.total,
                      parity |-> header.parity, give_up |-> nack.give_up,
                      missing |-> { i \in 0 .. header.total - 1 : BitOf(i) \in nack.bits }])
=============================================================================
