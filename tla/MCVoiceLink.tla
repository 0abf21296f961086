---------------------------- MODULE MCVoiceLink ----------------------------
(* VoiceLink.tla for model checking: clips around every limit of the wire    *)
(* format, of which the shortest are sent.                                   *)
EXTENDS VoiceLink, TLC

CONSTANT None

\* None, one byte, one to three chunks, the powers of two, and both sides of
\* the 170, 171 and 255 chunks at which 50 % parity meets the coder's limit
\* and the index its width.
Chunks == {1, 2, 3, 128, 129, 170, 171, 192, 193, 254, 255, 256}
Lengths(p) ==
    {0, 1} \cup { n * recommended_chunk_size(p) : n \in Chunks }
           \cup { n * recommended_chunk_size(p) - 1 : n \in Chunks }

\* Whole recordings that end just before and just after the end of a chunk.
Recordings(p) ==
    { FrameBytes(c) * (div_ceil(n * recommended_chunk_size(p), FrameBytes(c)) - d) :
        c \in Recorders, n \in 1 .. 3, d \in {0, 1} }

Clips ==
    UNION { [len : Recordings(p), preset : {p}, broadcast : {FALSE}, mode : {"off"},
             drawn : {7}] : p \in PresetNames \cup {None} } \cup
    UNION { [len : Lengths(p), preset : {p}, broadcast : BOOLEAN, mode : FecModes,
             drawn : {7}] : p \in PresetNames \cup {None} }
    \cup [len : {1}, preset : {None}, broadcast : BOOLEAN, mode : FecModes, drawn : {0}]
=============================================================================
