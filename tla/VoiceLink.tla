----------------------------- MODULE VoiceLink -----------------------------
(***************************************************************************)
(* A clip from the host that prepares it to the host that hears it:        *)
(* prepare_voice_send frames it (WireFormat), VoiceTx paces the frames     *)
(* into the sender's radio, the air carries or loses them, and the other   *)
(* radio hands them to its host over serial or Bluetooth (RadioLink).  Of  *)
(* what arrived VoicePlayback tells how it sounds.                         *)
(***************************************************************************)
EXTENDS VoicePlayback, RadioLink, VoiceTx

CONSTANTS
    Requests,  \* the clips asked for
    Frees,     \* queue depths the sender's radio reports
    Step,      \* bound: the milliseconds VoiceTx's times are counted in
    MaxHeard,  \* bound: longer recordings are not tried on every arrival
    MaxBurst,  \* bound: longer bursts are framed but not sent
    MaxOnLine  \* bound: frames between the air and the reader

\* Lengths and the drawn message ids are unsigned.
ASSUME RequestsAssumption ==
    \A r \in Requests : r.len \in Nat /\ r.drawn \in Nat /\ r.broadcast \in BOOLEAN
ASSUME HeardAssumption == MaxHeard \in Nat

VARIABLES
    clip, \* the clip asked for, or that it is being sent
    tx,   \* VoiceTx
    free, \* QueueStatus.free, as last reported
    air   \* frames on their way

lvars == <<clip, tx, free, air, link>>

LinkSpecInit ==
    /\ clip \in { [at |-> "asked", request |-> r] : r \in Requests }
    /\ tx = NewTx(<<>>, 1)
    /\ free \in Frees
    /\ air = <<>>
    /\ LinkInit

Prepared(r) == prepare_voice_send(r.len, 0, r.preset, r.broadcast, r.mode, r.drawn)

\* The driver prepares the clip and starts its burst, in which a frame is its
\* number from here on.
Begins ==
    /\ clip.at = "asked"
    /\ LET sent == Prepared(clip.request)
       IN  /\ sent.ok /\ Len(sent.value.frames) <= MaxBurst
           /\ tx' = NewTx([i \in DOMAIN sent.value.frames |-> i],
                          div_ceil(pacing(clip.request.preset), Step))
    /\ clip' = [at |-> "sending"]
    /\ UNCHANGED <<free, air, link>>

\* The driver asks for the next action and does it.
Drives ==
    /\ LET a == next_action(tx, free)
       IN  \/ a.kind = "Send" /\ tx' = a.tx /\ air' = Append(air, a.frame)
           \/ a.kind = "Wait" /\ tx' = Passed(a.tx, a.for) /\ UNCHANGED air
    /\ UNCHANGED <<clip, free, link>>

Reports(f) ==
    /\ clip.at = "sending" /\ tx.queue # <<>> /\ free' = f
    /\ UNCHANGED <<clip, tx, air, link>>

AirCarries ==
    /\ air # <<>> /\ Len(wire) < MaxOnLine
    /\ air' = Tail(air)
    /\ \/ RadioSays(Head(air))
       \/ Noise /\ UNCHANGED <<transport, wire, notified, reader, written, heard, clean, silences>>
    /\ UNCHANGED <<clip, tx, free>>

Reading == clip.at = "sending" /\ LinkStep /\ UNCHANGED <<clip, tx, free, air>>

LinkNext == Begins \/ Drives \/ (\E f \in Frees : Reports(f)) \/ AirCarries \/ Reading

\* The driver keeps asking, the timer of the Bluetooth task and the reader's
\* runtime go on, and the air does not hold a frame for ever.
LinkSpec ==
    /\ LinkSpecInit /\ [][LinkNext]_lvars
    /\ WF_lvars(Drives)
    /\ WF_lvars(AirCarries)
    /\ WF_lvars(Reading /\ OpensLink)
    /\ WF_lvars(Reading /\ Reads)

-----------------------------------------------------------------------------
(* Properties *)

\* The sets of chunks a receiver may miss that the NACKs are tried on.
Misses(total) ==
    {{}, {0}, {total - 1}, 0 .. (total - 1), { i \in 0 .. (total - 1) : i % 3 = 0 }}

\* A clip cut into so many chunks comes unchanged through the parsers.
Survives(built, r, size, chunks) ==
    LET heads == [i \in DOMAIN built.frames |-> parse(built.frames[i])]
    IN  /\ built.total_data = chunks
        /\ \A i \in DOMAIN heads :
            /\ heads[i].ok
            /\ LET h == heads[i].value
               IN  /\ h.total = chunks /\ h.id # 0
                   /\ h.last <=> i = Len(heads)
                   /\ IF i <= chunks
                      THEN /\ h.type = "data" /\ h.idx = i - 1
                           /\ h.body = IF i < chunks THEN size
                                       ELSE r.len - size * (chunks - 1)
                      ELSE h.type = "parity" /\ h.idx = i - 1 - chunks
                           /\ h.body = size
        /\ \A m \in Misses(chunks) :
            LET first == heads[1].value
                nack == build_nack([type |-> "data", last |-> first.last,
                            id |-> first.id, codec |-> first.codec,
                            param |-> first.param, seq |-> first.seq,
                            idx |-> first.idx, total |-> first.total,
                            parity |-> first.parity], m, FALSE)
                head == parse(nack.frame)
                back == parse_nack_body(head.value, nack)
            IN  head.ok /\ back.ok /\ back.value.missing = m

\* Every clip of up to 255 chunks is framed, whatever the preset, the kind of
\* destination and the FEC mode: the parity resolved for it never asks for
\* more shards than the coder has (settings/api.rs, resolve).  A receiver's
\* parser takes each frame for the chunk it is, with its own index and length,
\* and a NACK names to the sender the very chunks that were missing.
FramesSurvive ==
    clip.at = "asked" =>
        LET r == clip.request
            sent == Prepared(r)
            size == recommended_chunk_size(r.preset)
            chunks == div_ceil(r.len, size)
        IN  /\ sent.ok <=> chunks \in 1 .. MAX_CHUNKS_PER_MESSAGE
            /\ sent.ok => Survives(sent.value, r, size, chunks)

\* What is heard of one arrival: every block is the frame of the recording
\* that belongs there or, when a chunk it needs is missing, concealed; none is
\* noise, early or late; and the duration shown is the one that plays.  With
\* the tail chunk there, it is the recording's.
HeardInTime(speech, size, arrived) ==
    LET bytes == encoded(speech)
        bpf == FrameBytes(speech)
        m == finalize(bytes, size, arrived)
        sound == decode_with_gaps(speech, m)
        ChunksOf(f) == { p \div size : p \in f * bpf .. (f + 1) * bpf - 1 }
    IN  /\ \A i \in DOMAIN sound :
              sound[i] = IF i <= speech.frames /\ ChunksOf(i - 1) \subseteq arrived
                         THEN i - 1 ELSE Concealed
        /\ payload_duration_ms(speech, m) = FrameMs(speech) * Len(sound)
        /\ Len(sound) >= speech.frames
        /\ (Len(bytes) - 1) \div size \in arrived => Len(sound) = speech.frames

\* A recording of up to MaxHeard chunks is heard in time whichever of its chunks
\* arrived, as long as one of them tells the chunk size, though frames straddle
\* the chunks and a missing chunk begins and ends inside frames (codec/imp.rs,
\* decode_amrnb and decode_codec2; a chunk of zeros would read as frames).
PartialsHeardInTime ==
    clip.at = "asked" =>
        LET r == clip.request
            size == recommended_chunk_size(r.preset)
            chunks == div_ceil(r.len, size)
        IN  \A c \in Recorders :
                LET speech == [codec |-> c.codec, param |-> c.param,
                               frames |-> r.len \div FrameBytes(c)]
                IN  chunks \in 1 .. MaxHeard /\ r.len % FrameBytes(c) = 0 =>
                        \A arrived \in SUBSET (0 .. chunks - 1) :
                            arrived \ {chunks - 1} # {} \/ (chunks = 1 /\ arrived # {})
                                => HeardInTime(speech, size, arrived)

\* A burst ends though the radio never reports room again, and no frame that
\* reaches the listener's radio stays unread while its reader lives, be its
\* notification lost or a read of it fail.
BurstEndsAndIsRead ==
    /\ tx.queue # <<>> ~> tx.queue = <<>>
    /\ clip.at = "sending" /\ wire # <<>> ~> (wire = <<>> \/ reader.at = "closed")
=============================================================================
