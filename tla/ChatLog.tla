------------------------------ MODULE ChatLog ------------------------------
(***************************************************************************)
(* The chat log of the desktop program (ui/chat.rs, watchers.rs, state.rs) *)
(* and the tasks that write to it: tracked text sends and their delivery   *)
(* answers, voice sends and their status streams, and voice messages that  *)
(* the assembler is putting together.  A task finds its row again by an    *)
(* id, from the newest row back; the oldest rows fall out of a full log.   *)
(***************************************************************************)
EXTENDS DeliveryAcks, VoiceComposer, Sequences, SequencesExt, FiniteSets

CONSTANTS
    Texts,       \* messages the user may type
    Clips,       \* takes the user may send
    Sounds,      \* inbound voice messages: [from, id, codec]
    Everyone,    \* the broadcast address
    Peers,       \* the other nodes
    MaxRows,     \* MAX_CHAT_LOG_ENTRIES
    LineCapacity,\* a status stream holds this many unread statuses
    Seeds,       \* where the packet ids may start
    Budgets      \* bounds of the runs: how often each input may come

\* A session does not send more texts than there are packet ids.
ASSUME TextsAssumption == IsFiniteSet(Texts) /\ Cardinality(Texts) < 2 ^ IdWidth
ASSUME LineAssumption == LineCapacity \in Nat
ASSUME SeedsAssumption == Seeds \subseteq PacketIds

\* A sender gives every message an id of its own.
ASSUME SoundsAssumption ==
    \A s, r \in Sounds : s.from = r.from /\ s.id = r.id => s = r

\* What can be played: the preview, a clip, a sound.
Playables == {Preview} \cup ({"clip"} \X Clips)
                       \cup ({"sound"} \X {<<s.from, s.id>> : s \in Sounds})

\* None is not anything else.
ASSUME NoneAssumption ==
    /\ None \notin {"Delivered", "Failed", "TimedOut", "Pending", "whole", "partial"}
    /\ None # Preview /\ None \notin {"LogEntry"} \X Nat
    /\ None \notin [what : Playables, ended : BOOLEAN]

VARIABLES
    log,         \* SharedState::chat_log
    packet,      \* next_packet_id
    acks,        \* pending_acks
    text,        \* the task of each text, its answer, and (history) what
                 \* came first: an answer or the deadline
    onAir,       \* packets the radio has
    assembly,    \* what the assembler knows of each sound
    voice,       \* each clip's send and the task that follows it
    left         \* what remains of the budget

vars == <<log, packet, acks, text, onAir, assembly, voice, left, composerVars>>

Answers == {"Delivered", "Failed"}

Spend(what) == left[what] > 0 /\ left' = [left EXCEPT ![what] = @ - 1]

-----------------------------------------------------------------------------
(* The log *)

push_chat(lg, row) ==
    LET grown == Append(lg, row)
    IN IF Len(grown) > MaxRows THEN Tail(grown) ELSE grown

Row(kind, key, label, delivery, sound) ==
    [kind |-> kind, key |-> key, label |-> label, delivery |-> delivery, voice |-> sound]

\* The newest row of that kind and id, 0 when there is none.
RowOf(lg, kind, key) ==
    SelectLastInSeq(lg, LAMBDA row : row.kind = kind /\ row.key = key)

With(fields, row) == [f \in DOMAIN row |-> IF f \in DOMAIN fields THEN fields[f] ELSE row[f]]

\* A row that has fallen out is left alone.
Rewrite(lg, kind, key, fields) ==
    LET i == RowOf(lg, kind, key)
    IN IF i = 0 THEN lg ELSE [lg EXCEPT ![i] = With(fields, @)]

-----------------------------------------------------------------------------
(* Text: the send task, then the task that waits for the answer *)

\* The task still holds the handle of its tracked send.
Holds(t) == text[t].at \in {"writing", "returning", "waiting"}

Direct(t) == text[t].to # Everyone

ClickSend(t, to) == /\ text[t].at = "typed"
                    /\ Spend("texts")
                    /\ text' = [text EXCEPT ![t].at = "clicked", ![t].to = to]
                    /\ UNCHANGED <<log, packet, acks, onAir, assembly, voice, composerVars>>

\* next_id, then the slot, then the packet, which may be too long.
BeginsSend(t) ==
    /\ text[t].at = "clicked"
    /\ LET id    == next_id(packet)
           slots == IF Direct(t) THEN register_ack(acks, id, t, { u \in Texts : Holds(u) }) ELSE acks
       IN /\ packet' = Following(packet)
          /\ \/ /\ text' = [text EXCEPT ![t].at = "writing", ![t].id = id]
                /\ acks' = slots
             \/ /\ text' = [text EXCEPT ![t].at = "over", ![t].id = id]
                /\ acks' = discard_ack(slots, id)
    /\ UNCHANGED <<log, onAir, assembly, voice, left, composerVars>>

\* A write that is reported failed may still have reached the radio.
WritesPacket(t) ==
    /\ text[t].at = "writing"
    /\ \/ /\ onAir' = onAir \cup {text[t].id}
          /\ text' = [text EXCEPT ![t].at = "returning"]
          /\ UNCHANGED acks
       \/ /\ onAir' \in {onAir, onAir \cup {text[t].id}}
          /\ text' = [text EXCEPT ![t].at = "over"]
          /\ acks' = discard_ack(acks, text[t].id)
    /\ UNCHANGED <<log, packet, assembly, voice, left, composerVars>>

\* The row appears only now; only a direct message is waited for.
ShowsSent(t) ==
    /\ text[t].at = "returning"
    /\ log' = push_chat(log, Row("sent", text[t].id, "text",
                                 IF Direct(t) THEN "Pending" ELSE None, None))
    /\ text' = [text EXCEPT ![t].at = IF Direct(t) THEN "waiting" ELSE "over"]
    /\ UNCHANGED <<packet, acks, onAir, assembly, voice, left, composerVars>>

\* A slip: the newest unanswered message is taken for the answered one.
MarkDelivery_Newest(lg, id, status) ==
    LET i == SelectLastInSeq(lg, LAMBDA row : row.delivery = "Pending")
    IN IF i = 0 THEN lg ELSE [lg EXCEPT ![i].delivery = status]

MarkDelivery(lg, id, status) == Rewrite(lg, "sent", id, [delivery |-> status])

\* handle.wait: an answer is looked at before the deadline.
HearsAnswer(t) ==
    /\ text[t].at = "waiting" /\ text[t].answer # None
    /\ log' = MarkDelivery(log, text[t].id, text[t].answer)
    /\ text' = [text EXCEPT ![t].at = "over"]
    /\ UNCHANGED <<packet, acks, onAir, assembly, voice, left, composerVars>>

WaitTimesOut(t) ==
    /\ text[t].at = "waiting" /\ text[t].answer = None
    /\ log' = MarkDelivery(log, text[t].id, "TimedOut")
    /\ text' = [text EXCEPT ![t].at = "over",
                            ![t].first = IF @ = None THEN "TimedOut" ELSE @]
    /\ UNCHANGED <<packet, acks, onAir, assembly, voice, left, composerVars>>

\* A Routing packet about a packet of ours; a mesh may send several.
AckOrNak(id, result) ==
    /\ id \in onAir
    /\ Spend("answers")
    /\ acks' = acks \ signal_ack(acks, id)
    /\ text' = [t \in Texts |->
          LET heard == IF Holds(t) /\ \E s \in signal_ack(acks, id) : s.handle = t
                       THEN [text[t] EXCEPT !.answer = result] ELSE text[t]
          IN IF text[t].id = id /\ text[t].first = None
             THEN [heard EXCEPT !.first = result] ELSE heard]
    /\ UNCHANGED <<log, packet, onAir, assembly, voice, composerVars>>

\* A text from the mesh.
HearsText == /\ Spend("heard")
             /\ log' = push_chat(log, Row("heard", None, "text", None, None))
             /\ UNCHANGED <<packet, acks, text, onAir, assembly, voice, composerVars>>

-----------------------------------------------------------------------------
(* Inbound voice: one task ticks the assembler and feeds it frames *)

Conceals(s) == s.codec \in {"Codec2", "AmrNb"}
Known(s) == s.codec # "Unknown"

\* What a row offers to play of a message with these qualities.
Playable(s, whole, silent) ==
    IF Known(s) /\ ~silent /\ (whole \/ Conceals(s))
    THEN IF whole THEN "whole" ELSE "partial" ELSE None

SoundRow(s, label, sound) == Row("sound", <<s.from, s.id>>, label, None, sound)

\* A slip: what was finalized last is shown.
Replaces_Always(row, whole) == TRUE

\* A row that can be played is not replaced by a partial message.
Replaces(row, whole) == row.voice = None \/ whole

push_voice_entry(lg, s, whole, silent) ==
    LET i     == RowOf(lg, "sound", <<s.from, s.id>>)
        label == IF whole THEN "message" ELSE "partial"
        sound == Playable(s, whole, silent)
    IN IF i = 0 THEN push_chat(lg, SoundRow(s, label, sound))
       ELSE IF Replaces(lg[i], whole)
       THEN [lg EXCEPT ![i].label = label, ![i].voice = sound]
       ELSE lg

upsert_inbound_voice_progress(lg, s) ==
    LET i == RowOf(lg, "sound", <<s.from, s.id>>)
    IN IF i = 0 THEN push_chat(lg, SoundRow(s, "receiving", None))
       ELSE [lg EXCEPT ![i].label = "receiving"]

\* A frame the assembler takes: progress, or the whole message.  Frames of
\* a settled message are refused and change nothing here.
AcceptsFrame(s) ==
    /\ assembly[s] # "settled"
    /\ Spend("frames")
    /\ \/ /\ assembly' = [assembly EXCEPT ![s] = "open"]
          /\ log' = upsert_inbound_voice_progress(log, s)
       \/ /\ assembly' = [assembly EXCEPT ![s] = "settled"]
          /\ log' = push_voice_entry(log, s, TRUE, FALSE)
    /\ UNCHANGED <<packet, acks, text, onAir, voice, composerVars>>

\* The assembler gives up on a message, with or without partial audio.
TickFinalizes(s) ==
    /\ assembly[s] = "open"
    /\ assembly' = [assembly EXCEPT ![s] = "settled"]
    /\ log' \in {log} \cup {push_voice_entry(log, s, FALSE, silent) : silent \in BOOLEAN}
    /\ UNCHANGED <<packet, acks, text, onAir, voice, left, composerVars>>

\* completion_memory is over: the same message may come once more.
Forgets(s) ==
    /\ assembly[s] = "settled"
    /\ Spend("forgets")
    /\ assembly' = [assembly EXCEPT ![s] = "unknown"]
    /\ UNCHANGED <<log, packet, acks, text, onAir, voice, composerVars>>

-----------------------------------------------------------------------------
(* Outbound voice: VoiceSender, and the task that follows its statuses *)

\* The preview is sent: the row shows at once, the task subscribes later.
SendPreview(c) ==
    /\ compose = "Preview"
    /\ voice[c].stage = "unsent"
    /\ compose' = "Idle" /\ StopPlaying
    /\ \/ /\ log' = push_chat(log, Row("clip", c, "sending", None, None))
          /\ voice' = [voice EXCEPT ![c].stage = "bursting", ![c].ear = "spawned"]
       \/ UNCHANGED <<log, voice>>
    /\ UNCHANGED <<packet, acks, text, onAir, assembly, left, mic>>

\* What a VoiceSender may say in each stage, and the stage it goes to.
Says(stage) == CASE stage = "bursting" -> {<<"Sending", "bursting">>, <<"BurstComplete", "sent">>,
                                           <<"GaveUp", "over">>, <<"Failed", "over">>}
                 [] stage = "sent" -> {<<"Complete", "over">>, <<"GaveUp", "over">>}
                 [] OTHER -> {}

\* A status reaches whoever has subscribed by then; a slow reader misses
\* the oldest.
SenderTells(c) ==
    \E said \in Says(voice[c].stage) :
        LET v    == voice[c]
            line == IF v.ear = "listening" THEN Append(v.line, said[1]) ELSE v.line
        IN /\ said[1] = "Sending" => Len(v.line) < LineCapacity
           /\ voice' = [voice EXCEPT
                ![c].stage = said[2],
                ![c].burst = @ \/ said[1] = "BurstComplete",
                ![c].line = IF Len(line) > LineCapacity THEN Tail(line) ELSE line]
           /\ UNCHANGED <<log, packet, acks, text, onAir, assembly, left, composerVars>>

Subscribes(c) ==
    /\ voice[c].ear = "spawned"
    /\ voice' = [voice EXCEPT ![c].ear = "listening"]
    /\ UNCHANGED <<log, packet, acks, text, onAir, assembly, left, composerVars>>

\* The fields of the row each status changes.
Reflected(status) ==
    CASE status = "Sending"       -> [label |-> "sending"]
      [] status = "BurstComplete" -> [label |-> "message", voice |-> "whole"]
      [] status = "GaveUp"        -> [label |-> "gave up"]
      [] status = "Failed"        -> [label |-> "failed"]
      [] OTHER                    -> <<>>

FollowsSend(c) ==
    /\ voice[c].ear = "listening" /\ voice[c].line # <<>>
    /\ LET status == Head(voice[c].line)
       IN /\ log' = Rewrite(log, "clip", c, Reflected(status))
          /\ voice' = [voice EXCEPT ![c].line = Tail(@),
                ![c].ear = IF status \in {"GaveUp", "Failed", "Complete"} THEN "gone" ELSE @]
    /\ UNCHANGED <<packet, acks, text, onAir, assembly, left, composerVars>>

-----------------------------------------------------------------------------
(* The player beside a row: it is drawn at an index of the current log *)

PlayRow(i) ==
    /\ log[i].voice # None
    /\ ~(source = LogEntry(i) /\ playback # None)
    /\ start_playback(<<log[i].kind, log[i].key>>, LogEntry(i))
    /\ UNCHANGED <<log, packet, acks, text, onAir, assembly, voice, left, compose, mic>>

StopRow(i) ==
    /\ log[i].voice # None
    /\ source = LogEntry(i) /\ playback # None
    /\ StopPlaying
    /\ UNCHANGED <<log, packet, acks, text, onAir, assembly, voice, left, compose, mic>>

\* What the user does with the recorder and the player, within the budget.
Composes ==
    /\ ComposerStep
    /\ IF compose = "Idle" /\ compose' = "Recording" THEN Spend("takes") ELSE UNCHANGED left
    /\ UNCHANGED <<log, packet, acks, text, onAir, assembly, voice>>

-----------------------------------------------------------------------------

Init == /\ log = <<>>
        /\ packet \in Seeds
        /\ acks = {}
        /\ text = [t \in Texts |-> [at |-> "typed", id |-> 0, to |-> None,
                                    answer |-> None, first |-> None]]
        /\ onAir = {}
        /\ assembly = [s \in Sounds |-> "unknown"]
        /\ voice = [c \in Clips |-> [stage |-> "unsent", burst |-> FALSE,
                                     ear |-> "none", line |-> <<>>]]
        /\ left \in Budgets
        /\ ComposerInit

TextStep(t) == \/ \E to \in Peers \cup {Everyone} : ClickSend(t, to)
               \/ BeginsSend(t) \/ WritesPacket(t) \/ ShowsSent(t)
               \/ HearsAnswer(t) \/ WaitTimesOut(t)

SoundStep(s) == AcceptsFrame(s) \/ TickFinalizes(s) \/ Forgets(s)

ClipStep(c) == SendPreview(c) \/ SenderTells(c) \/ Subscribes(c) \/ FollowsSend(c)

Next == \/ \E t \in Texts : TextStep(t)
        \/ \E id \in PacketIds, result \in Answers : AckOrNak(id, result)
        \/ HearsText
        \/ \E s \in Sounds : SoundStep(s)
        \/ \E c \in Clips : ClipStep(c)
        \/ \E i \in 1 .. Len(log) : PlayRow(i) \/ StopRow(i)
        \/ Composes

Spec == Init /\ [][Next]_vars

-----------------------------------------------------------------------------

\* A row of a direct message shows the verdict of its own packet: the
\* first answer the radio gave, or that none came in time; and it says
\* Pending only while somebody waits for that verdict (chat.rs, ack.rs).
DeliveryTruthful ==
    \A i \in 1 .. Len(log), t \in Texts :
        log[i].kind = "sent" /\ log[i].key = text[t].id /\ Direct(t) =>
            IF text[t].at = "over" THEN log[i].delivery = text[t].first
            ELSE log[i].delivery = "Pending"

\* A clip can be played from its row only after the whole burst was handed
\* to the radio (state.rs, the play button).
SendingTruthful ==
    \A i \in 1 .. Len(log) :
        log[i].kind = "clip" /\ log[i].voice # None => voice[log[i].key].burst

\* One row per inbound message, and a partial message is offered only where
\* its codec conceals gaps (watchers.rs, push_voice_entry).
SoundsTruthful ==
    \A i, j \in 1 .. Len(log) :
        log[i].kind = "sound" =>
            /\ log[i].voice = "partial" =>
                   \E s \in Sounds : <<s.from, s.id>> = log[i].key /\ Conceals(s)
            /\ log[i].kind = log[j].kind /\ log[i].key = log[j].key => i = j

\* What the chat tab shows is true of the messages it shows it for.
ScreenTruthful == /\ DeliveryTruthful
                  /\ SendingTruthful
                  /\ SoundsTruthful
                  /\ ComposerTruthful

\* A slot in the table belongs to a packet nobody has answered yet, and its
\* handle is still held unless its wait timed out: failed sends and served
\* answers leave nothing behind (outbound.rs, discard_ack).
SlotsAwaitAnswers ==
    \A s \in acks :
        /\ text[s.handle].id = s.id
        /\ text[s.handle].first \in {None, "TimedOut"}
        /\ Holds(s.handle) \/ text[s.handle].first = "TimedOut"

\* As long as its row is there, a message that could be played can be
\* played, and one that was whole stays whole, whatever arrives again
\* (watchers.rs, push_voice_entry).
PlayableStays ==
    [][\A i \in 1 .. Len(log), j \in 1 .. Len(log') :
          log[i].kind # "heard" /\ log[i].kind = log'[j].kind /\ log[i].key = log'[j].key =>
              /\ log[i].voice # None => log'[j].voice # None
              /\ log[i].voice = "whole" => log'[j].voice = "whole"]_vars
=============================================================================
