---------------------------- MODULE ModemPreset ----------------------------
(* The radio presets the voice protocol adapts to (voicetastic-proto         *)
(* types.rs, ModemPreset).  Any other value stands for an unknown preset.    *)
EXTENDS Integers

MAX_BODY_SIZE == 215

PresetNames == {"ShortTurbo", "ShortFast", "ShortSlow", "MediumFast", "MediumSlow",
                "LongFast", "LongModerate", "LongSlow", "VeryLongSlow"}

\* ModemPreset::recommended_chunk_size; a radio with no known preset gets
\* the largest body.
recommended_chunk_size(p) ==
    CASE p \in {"ShortSlow", "MediumFast"} -> 160
      [] p = "MediumSlow" -> 96
      [] p = "LongFast" -> MAX_BODY_SIZE - 12 - 4
      [] p \in {"LongModerate", "LongSlow", "VeryLongSlow"} -> 48
      [] OTHER -> MAX_BODY_SIZE

\* ModemPreset::pacing and fallback_pacing, in milliseconds.
pacing(p) ==
    CASE p = "ShortTurbo" -> 150 [] p = "ShortFast" -> 250
      [] p = "ShortSlow" -> 400 [] p = "MediumFast" -> 500
      [] p = "MediumSlow" -> 700 [] p = "LongFast" -> 900
      [] p = "LongModerate" -> 1200 [] p = "LongSlow" -> 1800
      [] p = "VeryLongSlow" -> 3000 [] OTHER -> 500
=============================================================================
