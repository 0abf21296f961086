---------------------------- MODULE VoiceRuntime ----------------------------
(***************************************************************************)
(* The desktop's live voice configuration (voicetastic-gui app.rs and      *)
(* watchers.rs, the policies of settings/api.rs) over the assembler it     *)
(* configures.  The settings listener runs on the thread of the window,    *)
(* the LoRa watcher on a task of its own.  Each resolves its parameters,   *)
(* then calls update_config, which clones the configuration under its      *)
(* lock, edits and validates the clone, and stores it under the lock       *)
(* again: three steps, between which the other may take any of its own,    *)
(* and frames and ticks go on.                                             *)
(*                                                                         *)
(* The clock of VoiceAssembler counts steps of Unit milliseconds here, and *)
(* a duration is rounded up to whole steps.                                *)
(***************************************************************************)
EXTENDS VoiceAssembler, ModemPreset

CONSTANTS
    None,
    Unit,        \* bound: the milliseconds of one step of the clock
    Timeouts,    \* the reassembly timeouts the user picks, in seconds
    Startups,    \* the settings found on disk at the start
    Presets,     \* modem presets the radio reports
    KnownCodecs, \* the codecs VoiceCodec::is_known accepts
    MaxEdits,    \* bound: settings changed
    MaxReports   \* bound: presets reported

VARIABLES
    settings,   \* [timeout, mode, partial]: the three keys the runtime follows
    preset,     \* the preset of the service's LoRa configuration, or None
    unseen,     \* the watcher has an announcement to take up
    work,       \* updater -> where it stands in its update
    retain_ttl, \* VoiceSender::set_retain_ttl
    edits, reports

runtime == <<settings, preset, unseen, work, retain_ttl, edits, reports>>
rvars == <<vars, runtime>>

Modes == {"auto", "off", "conservative", "aggressive"}
Updaters == {"window", "watcher"}

Steps(ms) == (ms + Unit - 1) \div Unit
Seconds(s) == Steps(1000 * s)

ASSUME RuntimeAssumption ==
    /\ Unit \in Nat \ {0}
    /\ Timeouts \subseteq 10 .. 3600
    /\ Startups \subseteq [timeout : Timeouts, mode : Modes, partial : BOOLEAN]
    /\ Presets \subseteq PresetNames
    /\ None \notin PresetNames
    /\ KnownCodecs \subseteq Codecs
    /\ MaxEdits \in Nat /\ MaxReports \in Nat

-----------------------------------------------------------------------------
(* The policies *)

NackParams(window, base, rounds) ==
    [nack_window |-> Steps(window), backoff_base |-> base, max_nack_rounds |-> rounds]

disabled == NackParams(3600000, 0, 0)
Fast == NackParams(1500, 2, 800)
Slow(p) == NackParams(AtLeast(4 * pacing(p), 4000), 3, 200)

\* VoiceNackMode::resolve
resolve(mode, p) ==
    CASE mode = "off" -> disabled
      [] mode = "conservative" -> Slow(p)
      [] mode = "aggressive" -> Fast
      [] mode = "auto" /\ p \in {"ShortTurbo", "ShortFast", "ShortSlow", "MediumFast"}
            -> Fast
      [] mode = "auto" /\ p \in {"MediumSlow", "LongFast"} -> NackParams(3000, 2, 400)
      [] OTHER -> Slow(p)

\* AssemblerConfig::sync_nack_cap_to_timeout
sync_nack_cap_to_timeout(c) ==
    [c EXCEPT
        !.max_nack_rounds =
            AtMost((c.message_timeout + c.nack_window - 1) \div c.nack_window, 65535),
        !.completion_memory = AtLeast(@, c.message_timeout)]

\* AssemblerConfig::default
Default ==
    [message_timeout |-> Seconds(1200), completion_memory |-> Seconds(1200),
     dead_sender_timeout |-> Seconds(120), nack_window |-> Steps(3000),
     nack_backoff_base |-> 3, max_nack_rounds |-> 400, partial_play |-> TRUE,
     supported |-> KnownCodecs]

\* What the application starts the assembler with.
Started(s) ==
    clamped(sync_nack_cap_to_timeout(
        [Default EXCEPT !.message_timeout = Seconds(s.timeout),
                        !.partial_play = s.partial]))

-----------------------------------------------------------------------------
(* The updates *)

Idle == [at |-> "idle"]
Edit(key, value) == [key |-> key, value |-> value]

\* A slip: the listener keeps the cap of the timeout it replaces.
Edited_NoSync(c, e) ==
    CASE e.key = "timeout" -> [c EXCEPT !.message_timeout = e.value,
                                        !.completion_memory = AtLeast(@, e.value)]
      [] e.key = "partial" -> [c EXCEPT !.partial_play = e.value]
      [] e.key = "nack" ->
            LET d == [c EXCEPT !.nack_window = e.value.nack_window,
                               !.nack_backoff_base = e.value.backoff_base,
                               !.max_nack_rounds = e.value.max_nack_rounds]
            IN  IF e.value.backoff_base # 0 THEN sync_nack_cap_to_timeout(d) ELSE d

\* What an update does to its clone.
Edited(c, e) ==
    CASE e.key = "timeout" -> sync_nack_cap_to_timeout([c EXCEPT !.message_timeout = e.value])
      [] e.key = "partial" -> [c EXCEPT !.partial_play = e.value]
      [] e.key = "nack" ->
            LET d == [c EXCEPT !.nack_window = e.value.nack_window,
                               !.nack_backoff_base = e.value.backoff_base,
                               !.max_nack_rounds = e.value.max_nack_rounds]
            IN  IF e.value.backoff_base # 0 THEN sync_nack_cap_to_timeout(d) ELSE d

\* The user changes a setting; the listener runs before set returns.
UserSets(key, value) ==
    /\ work["window"] = Idle /\ edits < MaxEdits /\ now <= Horizon
    /\ settings[key] # value
    /\ settings' = [settings EXCEPT ![key] = value]
    /\ work' = [work EXCEPT !["window"] =
          [at |-> "resolved",
           edit |-> CASE key = "timeout" -> Edit("timeout", Seconds(value))
                      [] key = "partial" -> Edit("partial", value)
                      [] key = "mode" -> Edit("nack", resolve(value, preset))]]
    /\ edits' = edits + 1
    /\ UNCHANGED <<vars, preset, unseen, retain_ttl, reports>>

\* The service announces another LoRa configuration.
RadioReports(p) ==
    /\ reports < MaxReports /\ now <= Horizon
    /\ preset' = p /\ unseen' = TRUE
    /\ reports' = reports + 1
    /\ UNCHANGED <<vars, settings, work, retain_ttl, edits>>

\* apply_lora_to_assembler, once at the start and on every announcement.
apply_lora_to_assembler ==
    /\ work["watcher"] = Idle /\ unseen
    /\ unseen' = FALSE
    /\ work' = [work EXCEPT !["watcher"] =
          [at |-> "resolved", edit |-> Edit("nack", resolve(settings.mode, preset))]]
    /\ UNCHANGED <<vars, settings, preset, retain_ttl, edits, reports>>

\* The retransmit registry follows the timeout whether or not the assembler
\* took it.
RetainFollows(e) ==
    retain_ttl' = IF e.key = "timeout" THEN e.value ELSE retain_ttl

\* update_config up to validate: a clone that fails is dropped and logged.
Clones(u) ==
    /\ work[u].at = "resolved"
    /\ LET e == work[u].edit
           candidate == Edited(cfg, e)
       IN  \/ /\ validate(candidate)
              /\ work' = [work EXCEPT ![u] = [at |-> "cloned", edit |-> e, cfg |-> candidate]]
              /\ UNCHANGED retain_ttl
           \/ /\ ~validate(candidate)
              /\ work' = [work EXCEPT ![u] = Idle]
              /\ RetainFollows(e)
    /\ UNCHANGED <<vars, settings, preset, unseen, edits, reports>>

\* The store that ends update_config.
Stores(u) ==
    /\ work[u].at = "cloned"
    /\ cfg' = work[u].cfg
    /\ out' = Returned("Configured")
    /\ work' = [work EXCEPT ![u] = Idle]
    /\ RetainFollows(work[u].edit)
    /\ UNCHANGED <<now, table, blacklist, settings, preset, unseen, edits, reports>>

\* VoicetasticApp::new and spawn_watchers
RuntimeInit ==
    /\ settings \in Startups
    /\ cfg = Started(settings)
    /\ now = 0
    /\ in_progress = [k \in {} |-> 0] /\ per_sender = [s \in {} |-> 0]
    /\ blacklist = <<>>
    /\ out = Returned("Idle")
    /\ preset = None /\ unseen = TRUE
    /\ work = [u \in Updaters |-> Idle]
    /\ retain_ttl = Seconds(settings.timeout)
    /\ edits = 0 /\ reports = 0

Reconfigures ==
    \/ \E t \in Timeouts : UserSets("timeout", t)
    \/ \E m \in Modes : UserSets("mode", m)
    \/ \E on \in BOOLEAN : UserSets("partial", on)
    \/ \E p \in Presets : RadioReports(p)
    \/ apply_lora_to_assembler
    \/ \E u \in Updaters : Clones(u) \/ Stores(u)

Assembles ==
    \/ \E f \in Frames : accept(f) /\ UNCHANGED runtime
    \/ tick /\ UNCHANGED runtime
    \/ AdvanceClock /\ UNCHANGED runtime

RuntimeSpec == RuntimeInit /\ [][Reconfigures \/ Assembles]_rvars

\* The host ticks periodically, time passes, and a thread that is in the
\* middle of an update goes on with it.
FairRuntimeSpec ==
    /\ RuntimeSpec
    /\ WF_rvars(tick /\ UNCHANGED runtime)
    /\ WF_rvars(AdvanceClock /\ UNCHANGED runtime)
    /\ \A u \in Updaters : WF_rvars(Clones(u) \/ Stores(u))

-----------------------------------------------------------------------------
(* Properties *)

\* While receivers may ask for chunks, the budget of silent rounds covers the
\* message timeout, whichever of the two updaters stored last and whatever it
\* had cloned: the user's timeout, not the round cap, is what ends a message
\* (config.rs, sync_nack_cap_to_timeout).
CapCoversTimeout ==
    cfg.nack_backoff_base # 0 => cfg.max_nack_rounds * cfg.nack_window >= cfg.message_timeout

\* A message for which NACKs are disabled is given up by its timeout and
\* nothing else (settings/api.rs, NackParams::disabled: "backoff/round cap
\* fields are inert"; assembler/mod.rs, tick: "we let message_timeout fire on
\* its own").
OffWaitsForTimeout ==
    [][ \A k \in DOMAIN in_progress :
          (out'.event = "Tick" /\ k \notin DOMAIN in_progress' /\ cfg.nack_backoff_base = 0)
            => now - in_progress[k].started_at >= cfg.message_timeout ]_rvars
=============================================================================
