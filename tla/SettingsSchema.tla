--------------------------- MODULE SettingsSchema ---------------------------
(***************************************************************************)
(* The schema of the client settings (settings/api.rs, settings/data.rs):  *)
(* which keys exist, what the file may hold for each, what the getters     *)
(* make of it and what the setters let in.  A value is a number; the id of *)
(* an enumeration is its place in the list of variants, a flag is 0 or 1,  *)
(* a text is a number too, 0 the empty one.  Any other number in the file  *)
(* stands for an unknown id.                                               *)
(***************************************************************************)
EXTENDS Integers, Sequences

CONSTANT NoValue   \* a key that is not in the file

\* SettingKey::all
SettingKeys ==
    <<"LastDevice", "VoiceMaxDurationSecs", "VoiceReassemblyTimeoutSecs", "VoiceCodec",
      "VoiceCodec2Mode", "VoiceAmrnbMode", "VoiceOpusBitrateKbps", "VoiceOpusBandwidth",
      "VoiceDenoiseEnabled", "VoicePartialPlayOnTimeout", "VoiceFecMode",
      "VoiceNackMode", "ThemeMode", "ThemeContrast">>

SettingKey == {SettingKeys[i] : i \in DOMAIN SettingKeys}

\* describe: a range is stored as u32 or u8; an enumeration lists its ids.
Text == [kind |-> "text", lo |-> 0, hi |-> 0, default |-> 0, bits |-> 0]
IntRange(lo, hi, default, bits) ==
    [kind |-> "range", lo |-> lo, hi |-> hi, default |-> default, bits |-> bits]
Index(hi, default) ==
    [kind |-> "index", lo |-> 0, hi |-> hi, default |-> default, bits |-> 8]
Enum(variants, default) ==
    [kind |-> "enum", lo |-> 1, hi |-> variants, default |-> default, bits |-> 0]
Bool(default) ==
    [kind |-> "bool", lo |-> 0, hi |-> 1, default |-> default, bits |-> 0]

\* The enumerations: how many ids, and which is the default.
VoiceCodecKind == Enum(3, 1)      \* amrnb, codec2, opus
OpusBandwidthKind == Enum(2, 2)   \* narrow, wide
VoiceFecMode == Enum(5, 1)        \* auto, off, light, medium, heavy
VoiceNackMode == Enum(4, 1)       \* auto, off, conservative, aggressive
ThemeModeKind == Enum(3, 3)       \* system, light, dark
ThemeContrastKind == Enum(2, 1)   \* standard, high

describe ==
    [LastDevice |-> Text,
     VoiceMaxDurationSecs |-> IntRange(1, 120, 30, 32),
     VoiceReassemblyTimeoutSecs |-> IntRange(10, 3600, 1200, 32),
     VoiceCodec |-> VoiceCodecKind,
     VoiceCodec2Mode |-> Index(5, 5),
     VoiceAmrnbMode |-> Index(7, 7),
     VoiceOpusBitrateKbps |-> IntRange(6, 16, 12, 8),
     VoiceOpusBandwidth |-> OpusBandwidthKind,
     VoiceDenoiseEnabled |-> Bool(0),
     VoicePartialPlayOnTimeout |-> Bool(1),
     VoiceFecMode |-> VoiceFecMode,
     VoiceNackMode |-> VoiceNackMode,
     ThemeMode |-> ThemeModeKind,
     ThemeContrast |-> ThemeContrastKind]

\* AppSettings: what the file may hold, every key optional; a number that
\* does not fit its field, or a flag that is none, makes the file unusable.
FieldFits(k, raw) ==
    LET d == describe[k]
    IN  \/ raw = NoValue
        \/ IF d.kind = "bool" THEN raw \in {0, 1}
           ELSE raw >= 0 /\ (d.bits = 8 => raw <= 255)

Clamp(n, lo, hi) == IF n < lo THEN lo ELSE IF n > hi THEN hi ELSE n

\* The getters of AppSettings: seconds and kilobits are clamped, an unknown
\* mode or id gives the default.
get(k, raw) ==
    LET d == describe[k]
    IN  IF raw = NoValue THEN d.default
        ELSE CASE d.kind = "text" -> raw
               [] d.kind = "range" -> Clamp(raw, d.lo, d.hi)
               [] OTHER -> IF raw \in d.lo .. d.hi THEN raw ELSE d.default

\* The typed setters refuse what is out of range; an empty text clears.
Accepts(k, v) == describe[k].kind = "text" \/ v \in describe[k].lo .. describe[k].hi

Stored(k, v) == IF describe[k].kind = "text" /\ v = 0 THEN NoValue ELSE v

\* A slip: the u8 modes are narrowed before anyone looks at their size.
set_str_Narrows(k, v) ==
    LET n == IF describe[k].bits = 8 THEN v % 256 ELSE v
    IN  IF Accepts(k, n) THEN [ok |-> TRUE, raw |-> Stored(k, n)] ELSE [ok |-> FALSE]

\* set_str: a number too large for its field is refused before it is
\* narrowed, the rest is the typed setter's.
set_str(k, v) ==
    IF (describe[k].bits = 8 => v <= 255) /\ Accepts(k, v)
      THEN [ok |-> TRUE, raw |-> Stored(k, v)]
      ELSE [ok |-> FALSE]

\* voice_codec_for_protocol: the parameter that goes with the codec, both
\* read under one lock.
voice_codec_for_protocol(s) ==
    LET codec == get("VoiceCodec", s["VoiceCodec"])
        key == <<"VoiceAmrnbMode", "VoiceCodec2Mode", "VoiceOpusBitrateKbps">>[codec]
    IN  [codec |-> codec, param |-> get(key, s[key])]

=============================================================================
