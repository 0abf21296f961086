--------------------------- MODULE VoicePlayback ---------------------------
(***************************************************************************)
(* How a message sounds of which chunks are missing (voicetastic-core      *)
(* codec/frames.rs, imp.rs and mod.rs over finalize.rs of the assembler):  *)
(* the encoder's frames are cut into chunks with no regard to where a      *)
(* frame ends, finalize fills the missing chunks with zeros, and the       *)
(* decoder has to find the frames again and to conceal the others.         *)
(*                                                                         *)
(* A clip is [codec, param, frames].  A byte of speech is the frame and    *)
(* the offset in it that it stands for.                                    *)
(***************************************************************************)
EXTENDS WireFormat

Undefined == 0

\* The codecs of frames of one size; decoding Opus, which the code calls
\* deprecated, conceals nothing.
Recorders == { [codec |-> "amrnb", param |-> p] : p \in 0 .. 7 }
                 \cup { [codec |-> "codec2", param |-> p] : p \in 0 .. 5 }

\* Bytes of a frame, its ToC byte included, by the frame type in that byte.
AMRNB_FRAME_BYTES ==
    [mode \in 0 .. 15 |->
        CASE mode <= 8 -> <<13, 14, 16, 18, 20, 21, 27, 32, 6>>[mode + 1]
          [] mode = 15 -> 1
          [] OTHER -> Undefined]
CODEC2_BYTES_PER_FRAME == [mode \in 0 .. 5 |-> <<8, 6, 8, 7, 7, 6>>[mode + 1]]
CODEC2_SAMPLES_PER_FRAME == [mode \in 0 .. 5 |-> IF mode <= 1 THEN 160 ELSE 320]

FrameBytes(clip) ==
    IF clip.codec = "amrnb" THEN AMRNB_FRAME_BYTES[clip.param]
                            ELSE CODEC2_BYTES_PER_FRAME[clip.param]
FrameMs(clip) ==
    IF clip.codec = "codec2" THEN CODEC2_SAMPLES_PER_FRAME[clip.param] \div 8 ELSE 20

\* What is heard in place of a frame; the frames count from 0.
Concealed == -1
Garbage == -2
Zero == [frame |-> -3, offset |-> 0]

\* Encoder::finish: whole frames of one size.
encoded(clip) ==
    [p \in 1 .. clip.frames * FrameBytes(clip) |->
        [frame |-> (p - 1) \div FrameBytes(clip), offset |-> (p - 1) % FrameBytes(clip)]]

\* finalize: the shards that arrived, and zeros for the others where the
\* chunk size is known.
finalize(bytes, size, arrived) ==
    LET total == div_ceil(Len(bytes), size)
        missing == (0 .. total - 1) \ arrived
        whole == IF total - 1 \in missing THEN total * size ELSE Len(bytes)
    IN  [audio |-> [p \in 1 .. whole |->
                       IF (p - 1) \div size \in missing THEN Zero ELSE bytes[p]],
         gaps |-> { [start |-> i * size, end |-> (i + 1) * size] : i \in missing }]

\* A slip: a frame counts as lost when it begins in a gap.
frame_overlaps_gap_StartOnly(start, len, gaps) ==
    \E g \in gaps : g.start <= start /\ start < g.end

frame_overlaps_gap(start, len, gaps) ==
    \E g \in gaps : start < g.end /\ g.start < start + len

\* The frame type that a byte reads as where the walker expects a ToC byte;
\* one from the middle of a frame may read as a type that is not defined.
ToC(clip, byte) ==
    IF byte = Zero THEN 0 ELSE IF byte.offset = 0 THEN clip.param ELSE 9

\* AmrnbFrames: the starts of the frames, while they are whole.
AmrnbFrames(clip, audio) ==
    LET walk[pos \in Nat] ==
            IF pos >= Len(audio) THEN <<>>
            ELSE LET size == AMRNB_FRAME_BYTES[ToC(clip, audio[pos + 1])]
                 IN  IF size = Undefined \/ pos + size > Len(audio) THEN <<>>
                     ELSE <<[at |-> pos, size |-> size]>> \o walk[pos + size]
    IN  walk[0]

\* What the codec library makes of the bytes from `at` on: the frame they are,
\* or noise when they are not one frame.
Sounds(audio, at, size) ==
    LET f == audio[at + 1].frame
    IN  IF \A k \in 0 .. size - 1 : audio[at + k + 1] = [frame |-> f, offset |-> k]
        THEN f ELSE Garbage

\* decode_codec2, and decode_amrnb of a partial payload: equal strides.
Strides(clip, m) ==
    [i \in 1 .. Len(m.audio) \div FrameBytes(clip) |->
        LET at == (i - 1) * FrameBytes(clip)
        IN  IF frame_overlaps_gap(at, FrameBytes(clip), m.gaps) THEN Concealed
            ELSE Sounds(m.audio, at, FrameBytes(clip))]

\* decode_amrnb: one block of sound per frame, or none when the walker leaves
\* bytes over.
decode_amrnb(clip, m) ==
    IF m.gaps = {}
    THEN LET frames == AmrnbFrames(clip, m.audio)
             end == frames[Len(frames)].at + frames[Len(frames)].size
         IN  IF frames = <<>> \/ end < Len(m.audio) THEN <<>>
             ELSE [i \in DOMAIN frames |-> Sounds(m.audio, frames[i].at, frames[i].size)]
    ELSE Strides(clip, m)

decode_with_gaps(clip, m) ==
    IF clip.codec = "amrnb" THEN decode_amrnb(clip, m) ELSE Strides(clip, m)

\* payload_duration_ms_with_gaps
payload_duration_ms(clip, m) ==
    FrameMs(clip) * (IF clip.codec = "amrnb" /\ m.gaps = {}
                     THEN Len(AmrnbFrames(clip, m.audio))
                     ELSE Len(m.audio) \div FrameBytes(clip))

=============================================================================
