-------------------------- MODULE VoiceComposer ---------------------------
(***************************************************************************)
(* The recorder and the player of the chat tab (ui/chat.rs, audio.rs): the *)
(* composer is idle, recording or holds a clip to preview; one clip at a   *)
(* time is played, from the preview or from a row of the chat log.  The    *)
(* capture and the playback thread are joined whenever their handle goes.  *)
(***************************************************************************)
EXTENDS Integers

CONSTANT None

\* PlaybackSource
Preview == <<"Preview">>
LogEntry(i) == <<"LogEntry", i>>

VARIABLES
    compose,   \* VoiceCompose: "Idle", "Recording" or "Preview"
    mic,       \* the capture thread: "off", "live", or "ended" by itself
    playback,  \* voice_playback: None, or what is heard and whether it ended
    source     \* playback_source: None, Preview, or LogEntry(i): the
               \* row at index i of the log

composerVars == <<compose, mic, playback, source>>

ComposerInit == /\ compose = "Idle"
                /\ mic = "off"
                /\ playback = None
                /\ source = None

\* voice_playback.take() and stop(), with playback_source = None.
StopPlaying == playback' = None /\ source' = None

\* The previous clip stops first; the device or the decoder may refuse.
start_playback(what, src) ==
    \/ playback' = [what |-> what, ended |-> FALSE] /\ source' = src
    \/ StopPlaying

PlaybackEnds == /\ playback # None /\ ~playback.ended
                /\ playback' = [playback EXCEPT !.ended = TRUE]
                /\ UNCHANGED <<compose, mic, source>>

\* The next frame of the chat tab drops a finished clip.
AutoClear == /\ playback # None /\ playback.ended
             /\ StopPlaying
             /\ UNCHANGED <<compose, mic>>

\* Recorder::start returns when the capture thread reports ready; else the
\* composer stays idle.
Record == /\ compose = "Idle"
          /\ compose' = "Recording"
          /\ mic' = "live"
          /\ UNCHANGED <<playback, source>>

\* The capture thread reaches the length limit or its encoder fails.
CaptureEnds == /\ mic = "live"
               /\ mic' = "ended"
               /\ UNCHANGED <<compose, playback, source>>

\* The stop button or the elapsed limit; an empty or failed take is dropped.
FinishRecording == /\ compose = "Recording"
                   /\ compose' \in {"Preview", "Idle"}
                   /\ mic' = "off"
                   /\ UNCHANGED <<playback, source>>

CancelRecording == /\ compose = "Recording"
                   /\ compose' = "Idle"
                   /\ mic' = "off"
                   /\ UNCHANGED <<playback, source>>

PlayPreview == /\ compose = "Preview"
               /\ ~(source = Preview /\ playback # None)
               /\ start_playback(Preview, Preview)
               /\ UNCHANGED <<compose, mic>>

StopPreview == /\ compose = "Preview"
               /\ source = Preview /\ playback # None
               /\ StopPlaying
               /\ UNCHANGED <<compose, mic>>

DeletePreview == /\ compose = "Preview"
                 /\ compose' = "Idle"
                 /\ StopPlaying
                 /\ UNCHANGED mic

ComposerStep == \/ PlaybackEnds \/ AutoClear \/ Record \/ CaptureEnds
                \/ FinishRecording \/ CancelRecording
                \/ PlayPreview \/ StopPreview \/ DeletePreview

\* The player and what the screen says of it agree, and neither the
\* microphone nor the sound of a preview outlives its control.
ComposerTruthful ==
    /\ (playback = None) = (source = None)
    /\ source = Preview => compose = "Preview" /\ playback.what = Preview
    /\ (mic # "off") = (compose = "Recording")
===========================================================================
