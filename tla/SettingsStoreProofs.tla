------------------------ MODULE SettingsStoreProofs ------------------------
(***************************************************************************)
(* Proofs about SettingsStore.tla, for any number of processes, threads,   *)
(* settings and values.                                                    *)
(***************************************************************************)
EXTENDS SettingsStore, SequenceTheorems, TLAPS

-----------------------------------------------------------------------------
(* Types *)

\* What parses as settings holds, for every key, something its field takes.
FitMap == {d \in SettingsMap : \A k \in Keys : FieldFits(k, d[k])}
FitContents == {Toml(d) : d \in FitMap} \cup {Broken(n) : n \in 0 .. MaxEdits}
FitPublished == FitContents \cup {Absent}

Saving == {"backup", "create", "fill", "publish", "finish"}
ReloadAt == {"reload_flag", "reload_data"}
Load == [data : FitMap, bad : BOOLEAN]
ThreadState ==
    [pc : {"idle", "persist", "notify"} \cup Saving \cup ReloadAt,
     body : FitMap, loaded : Load, tell : Seq(Keys)]
Readings == {get(k, raw) : k \in Keys, raw \in Values \cup {NoValue}}

DiskType ==
    /\ file \in FitPublished
    /\ tmp \in [Procs -> FitPublished \cup {HalfWritten}]
    /\ backups \in [0 .. MaxClock -> FitPublished]
    /\ clock \in 0 .. MaxClock
    /\ warned \subseteq FitContents

ProcessType ==
    /\ mem \in [Procs -> FitMap]
    /\ degraded \in [Procs -> BOOLEAN]
    /\ has_path \in [Procs -> BOOLEAN]
    /\ alive \in [Procs -> BOOLEAN]
    /\ lock \in [Procs -> Threads \cup {Nobody}]
    /\ listener \in [Procs -> [Keys -> Readings]]
    /\ saved \in [Procs -> {"nothing", "ok", "failed", "overtaken"}]

\* A thread inside a save holds the lock of its process, what it is about to
\* publish is what it serialized, and a dead process has no thread.
SaveInv ==
    \A t \in Threads :
        /\ thread[t].pc \in Saving => lock[Owner[t]] = t
        /\ thread[t].pc = "publish" => tmp[Owner[t]] = Toml(thread[t].body)
        /\ ~alive[Owner[t]] => thread[t] = Idle

UsedType == used \in [calls : Nat, edits : 0 .. MaxEdits, faults : Nat, crashes : Nat]

TypeInv ==
    /\ DiskType /\ ProcessType /\ SaveInv /\ UsedType
    /\ thread \in [Threads -> ThreadState]

-----------------------------------------------------------------------------
(* The strengthened invariants *)

\* A key whose listener is out of date is on the list of a thread.
TellInv ==
    /\ \A p \in Procs, k \in Keys :
          \/ ~alive[p]
          \/ listener[p][k] = get(k, mem[p][k])
          \/ \E t \in Threads :
                /\ Owner[t] = p /\ thread[t].pc # "idle"
                /\ \E i \in DOMAIN thread[t].tell : thread[t].tell[i] = k
    /\ \A t \in Threads : Reloading(t) => thread[t].tell = KeyOrder

\* A reload has its process for itself.
AloneInv ==
    \A t, u \in Threads :
        t # u /\ Owner[t] = Owner[u] /\ Reloading(t) => thread[u].pc = "idle"

\* A thread has changed the map and not yet begun to save.
Unsaved(p) == \E t \in Threads : Owner[t] = p /\ thread[t].pc = "persist"

\* A thread has serialized the map and not yet published it.
Publishing(t) == thread[t].pc \in {"backup", "create", "fill", "publish"}

\* What is about to be published is the map, unless another thread will
\* still save; and the file is, unless one will publish or save.
BodyInv ==
    \A t \in Threads :
        Publishing(t) => thread[t].body = mem[Owner[t]] \/ Unsaved(Owner[t])
DiskInv ==
    \A p \in Procs :
        alive[p] /\ has_path[p] /\ saved[p] = "ok" =>
            \/ file = Toml(mem[p]) \/ Unsaved(p)
            \/ \E t \in Threads : Owner[t] = p /\ Publishing(t)

\* The process knows that the file is unusable, or is about to, and no save
\* of it has passed the point where the file is moved aside.
Guarded(p) ==
    /\ \A t \in Threads :
          Owner[t] = p =>
              /\ thread[t].pc \notin {"create", "fill", "publish", "finish"}
              /\ thread[t].pc = "reload_flag" => thread[t].loaded.bad
    /\ (\A t \in Threads : Owner[t] = p => thread[t].pc # "reload_flag") => degraded[p]

Kept(c) == \E s \in DOMAIN backups : backups[s] = c

BrokenInv ==
    \A c \in warned :
        Kept(c) \/ (c = file /\ \A p \in Procs : alive[p] => Guarded(p))

-----------------------------------------------------------------------------
(* The schema and the contents of files *)

LEMMA KeysInSchema == Keys \subseteq SettingKey
BY StoreAssumption DEF Keys

\* A flag is 0 or 1.
LEMMA FlagRange ==
    ASSUME NEW k \in SettingKey, describe[k].kind = "bool"
    PROVE  describe[k].lo = 0 /\ describe[k].hi = 1
<1>1. k \in {"LastDevice", "VoiceMaxDurationSecs", "VoiceReassemblyTimeoutSecs", "VoiceCodec",
             "VoiceCodec2Mode", "VoiceAmrnbMode", "VoiceOpusBitrateKbps", "VoiceOpusBandwidth",
             "VoiceDenoiseEnabled", "VoicePartialPlayOnTimeout", "VoiceFecMode",
             "VoiceNackMode", "ThemeMode", "ThemeContrast"}
    BY DEF SettingKey, SettingKeys
<1> QED BY <1>1 DEF describe, Text, IntRange, Index, Enum, Bool, VoiceCodecKind,
               OpusBandwidthKind, VoiceFecMode, VoiceNackMode, ThemeModeKind, ThemeContrastKind

\* What a setter stores fits the field.
LEMMA StoredFits ==
    ASSUME NEW k \in Keys, NEW v \in Values, set_str(k, v).ok
    PROVE  /\ set_str(k, v).raw \in Values \cup {NoValue}
           /\ FieldFits(k, set_str(k, v).raw)
<1>1. k \in SettingKey /\ v \in Nat
    BY KeysInSchema, StoreAssumption
<1>2. /\ describe[k].bits = 8 => v <= 255
      /\ Accepts(k, v)
      /\ set_str(k, v).raw = Stored(k, v)
    BY DEF set_str
<1>3. CASE describe[k].kind = "bool"
    BY <1>1, <1>2, <1>3, FlagRange DEF Accepts, Stored, FieldFits
<1>4. CASE describe[k].kind # "bool"
    BY <1>1, <1>2, <1>4 DEF Stored, FieldFits
<1> QED BY <1>3, <1>4

LEMMA UnsetFits == AllUnset \in FitMap
BY DEF AllUnset, FitMap, SettingsMap, FieldFits

LEMMA OneSet ==
    ASSUME NEW d \in FitMap, NEW k \in Keys, NEW raw \in Values \cup {NoValue}, FieldFits(k, raw)
    PROVE  [d EXCEPT ![k] = raw] \in FitMap
BY DEF FitMap, SettingsMap

\* The contents of files can be told apart.
LEMMA Kinds ==
    /\ \A d : Toml(d).kind = "toml" /\ Toml(d).data = d
    /\ \A n : Broken(n).kind = "broken"
    /\ Absent.kind = "absent" /\ HalfWritten.kind = "partial"
BY DEF Toml, Broken, Absent, HalfWritten

LEMMA ContentKinds ==
    /\ Absent \notin FitContents /\ HalfWritten \notin FitPublished
    /\ \A d, e : Toml(d) = Toml(e) => d = e
    /\ \A d \in FitMap : Toml(d) \in FitContents
<1>1. \A c \in FitContents : c.kind \in {"toml", "broken"}
    BY Kinds DEF FitContents
<1> QED BY <1>1, Kinds DEF FitContents, FitPublished

\* A load gives a map that fits, and meets nothing unusable where there is
\* no file.
LEMMA LoadFits ==
    ASSUME NEW c \in FitPublished, NEW readable \in BOOLEAN
    PROVE  /\ read_settings_at(c, readable) \in Load
           /\ read_settings_at(c, readable).bad => c \in FitContents
<1>1. CASE c = Absent
    BY <1>1, UnsetFits, Kinds DEF read_settings_at, Load
<1>2. CASE c \in {Toml(d) : d \in FitMap}
    BY <1>2, UnsetFits, Kinds DEF read_settings_at, Load, FitContents
<1>3. CASE c \in {Broken(n) : n \in 0 .. MaxEdits}
    BY <1>3, UnsetFits, Kinds DEF read_settings_at, Load, FitContents
<1> QED BY <1>1, <1>2, <1>3 DEF FitPublished, FitContents

LEMMA IdleFits == Idle \in ThreadState /\ Idle.pc = "idle" /\ Idle.tell = <<>>
<1>1. [data |-> AllUnset, bad |-> FALSE] \in Load /\ <<>> \in Seq(Keys)
    BY UnsetFits, EmptySeq DEF Load
<1> QED BY <1>1, UnsetFits DEF Idle, ThreadState, Saving, ReloadAt

-----------------------------------------------------------------------------
(* Type correctness *)

LEMMA TypeInit == Init => TypeInv
<1> SUFFICES ASSUME Init PROVE TypeInv
    OBVIOUS
<1>1. DiskType
    BY StoreAssumption DEF Init, DiskType, FitPublished, FitContents
<1>2. [k \in Keys |-> get(k, NoValue)] \in [Keys -> Readings]
    BY DEF Readings
<1>3. ProcessType
    BY <1>2, UnsetFits, StoreAssumption DEF Init, ProcessType
<1>4. SaveInv
    BY IdleFits, StoreAssumption DEF Init, SaveInv, Saving
<1>5. UsedType
    BY StoreAssumption DEF Init, UsedType
<1>6. thread \in [Threads -> ThreadState]
    BY IdleFits DEF Init
<1> QED BY <1>1, <1>3, <1>4, <1>5, <1>6 DEF TypeInv

\* Steps within a call: the thread stays a thread, and what the step does to
\* lock, temporary file and map keeps the rest.
LEMMA TypeGoto ==
    ASSUME TypeInv, NEW t \in Threads,
           \/ BeginSave(t) \/ SkipSave(t) \/ CreateTmp(t) \/ FillTmp(t) \/ FinishSave(t)
           \/ notify(t) \/ Return(t) \/ ReloadFlag(t) \/ ReloadData(t)
    PROVE  TypeInv'
<1>o. Owner[t] \in Procs /\ Nobody \notin Threads /\ Owner \in [Threads -> Procs]
    BY StoreAssumption
<1>d. /\ DiskType /\ ProcessType /\ SaveInv /\ UsedType
      /\ thread \in [Threads -> ThreadState]
    BY DEF TypeInv
<1>i. /\ thread[t].body \in FitMap /\ thread[t].loaded \in Load
      /\ thread[t].tell \in Seq(Keys) /\ mem[Owner[t]] \in FitMap
    BY <1>o, <1>d DEF ThreadState, ProcessType
<1>1. CASE BeginSave(t)
    <2>1. DiskType'
        BY <1>o, <1>d, <1>i, <1>1 DEF BeginSave, DiskType, storage
    <2>2. ProcessType'
        BY <1>o, <1>d, <1>i, <1>1 DEF BeginSave, ProcessType, storage
    <2>3. thread' \in [Threads -> ThreadState]
        BY <1>d, <1>i, <1>1 DEF BeginSave, Goto, ThreadState, Saving, ReloadAt
    <2>4. SaveInv'
        BY <1>o, <1>d, <1>1 DEF BeginSave, SaveInv, At, Goto, Saving, ThreadState, ProcessType, DiskType, storage
    <2>5. UsedType'
        BY <1>d, <1>1 DEF BeginSave, UsedType
    <2> QED BY <2>1, <2>2, <2>3, <2>4, <2>5 DEF TypeInv
<1>2. CASE SkipSave(t)
    <2>1. DiskType'
        BY <1>o, <1>d, <1>i, <1>2 DEF SkipSave, DiskType, storage
    <2>2. ProcessType'
        BY <1>o, <1>d, <1>i, <1>2 DEF SkipSave, ProcessType, storage
    <2>3. thread' \in [Threads -> ThreadState]
        BY <1>d, <1>i, <1>2 DEF SkipSave, Goto, ThreadState, Saving, ReloadAt
    <2>4. SaveInv'
        BY <1>o, <1>d, <1>2 DEF SkipSave, SaveInv, At, Goto, Saving, ThreadState, ProcessType, DiskType, storage
    <2>5. UsedType'
        BY <1>d, <1>2 DEF SkipSave, UsedType
    <2> QED BY <2>1, <2>2, <2>3, <2>4, <2>5 DEF TypeInv
<1>3. CASE CreateTmp(t)
    <2>1. DiskType'
        BY <1>o, <1>d, <1>i, <1>3 DEF CreateTmp, DiskType, storage
    <2>2. ProcessType'
        BY <1>o, <1>d, <1>i, <1>3 DEF CreateTmp, ProcessType, storage
    <2>3. thread' \in [Threads -> ThreadState]
        BY <1>d, <1>i, <1>3 DEF CreateTmp, Goto, ThreadState, Saving, ReloadAt
    <2>4. SaveInv'
        BY <1>o, <1>d, <1>3 DEF CreateTmp, SaveInv, At, Goto, Saving, ThreadState, ProcessType, DiskType, storage
    <2>5. UsedType'
        BY <1>d, <1>3 DEF CreateTmp, UsedType
    <2> QED BY <2>1, <2>2, <2>3, <2>4, <2>5 DEF TypeInv
<1>4. CASE FillTmp(t)
    <2>1. DiskType'
        BY <1>o, <1>d, <1>i, <1>4, ContentKinds DEF FillTmp, DiskType, storage, FitPublished
    <2>2. ProcessType'
        BY <1>o, <1>d, <1>i, <1>4 DEF FillTmp, ProcessType, storage
    <2>3. thread' \in [Threads -> ThreadState]
        BY <1>d, <1>i, <1>4 DEF FillTmp, Goto, ThreadState, Saving, ReloadAt
    <2>4. SaveInv'
        BY <1>o, <1>d, <1>4 DEF FillTmp, SaveInv, At, Goto, Saving, ThreadState, ProcessType, DiskType, storage
    <2>5. UsedType'
        BY <1>d, <1>4 DEF FillTmp, UsedType
    <2> QED BY <2>1, <2>2, <2>3, <2>4, <2>5 DEF TypeInv
<1>5. CASE FinishSave(t)
    <2>1. DiskType'
        BY <1>o, <1>d, <1>i, <1>5 DEF FinishSave, DiskType, storage
    <2>2. ProcessType'
        BY <1>o, <1>d, <1>i, <1>5 DEF FinishSave, ProcessType, storage
    <2>3. thread' \in [Threads -> ThreadState]
        BY <1>d, <1>i, <1>5 DEF FinishSave, Goto, ThreadState, Saving, ReloadAt
    <2>4. SaveInv'
        BY <1>o, <1>d, <1>5 DEF FinishSave, SaveInv, At, Goto, Saving, ThreadState, ProcessType, DiskType, storage
    <2>5. UsedType'
        BY <1>d, <1>5 DEF FinishSave, UsedType
    <2> QED BY <2>1, <2>2, <2>3, <2>4, <2>5 DEF TypeInv
<1>6. CASE notify(t)
    <2>1. DiskType'
        BY <1>o, <1>d, <1>i, <1>6 DEF notify, DiskType, storage
    <2>2. ProcessType'
        <3>1. Head(thread[t].tell) \in Keys
            BY <1>i, <1>6, HeadTailProperties DEF notify
        <3>2. Heard(t, Head(thread[t].tell)) \in Readings
            BY <1>i, <3>1 DEF Heard, Readings, FitMap, SettingsMap
        <3> QED BY <1>o, <1>d, <1>6, <3>1, <3>2 DEF notify, ProcessType
    <2>3. thread' \in [Threads -> ThreadState]
        <3>1. Tail(thread[t].tell) \in Seq(Keys)
            BY <1>i, <1>6, HeadTailProperties DEF notify
        <3>2. thread' = [thread EXCEPT ![t].tell = Tail(@)]
            BY <1>6 DEF notify
        <3> QED BY <1>d, <3>1, <3>2 DEF ThreadState
    <2>4. SaveInv'
        BY <1>o, <1>d, <1>6 DEF notify, SaveInv, At, Goto, Saving, ThreadState, ProcessType, DiskType, storage
    <2>5. UsedType'
        BY <1>d, <1>6 DEF notify, UsedType
    <2> QED BY <2>1, <2>2, <2>3, <2>4, <2>5 DEF TypeInv
<1>7. CASE Return(t)
    <2>1. DiskType'
        BY <1>o, <1>d, <1>i, <1>7 DEF Return, DiskType, storage
    <2>2. ProcessType'
        BY <1>o, <1>d, <1>i, <1>7 DEF Return, ProcessType, storage
    <2>3. thread' \in [Threads -> ThreadState]
        BY <1>d, <1>i, <1>7, IdleFits DEF Return, Goto, ThreadState, Saving, ReloadAt
    <2>4. SaveInv'
        BY <1>o, <1>d, <1>7, IdleFits DEF Return, SaveInv, At, Goto, Saving, ThreadState, ProcessType, DiskType, storage
    <2>5. UsedType'
        BY <1>d, <1>7 DEF Return, UsedType
    <2> QED BY <2>1, <2>2, <2>3, <2>4, <2>5 DEF TypeInv
<1>8. CASE ReloadFlag(t)
    <2>1. DiskType'
        BY <1>o, <1>d, <1>i, <1>8 DEF ReloadFlag, DiskType, storage
    <2>2. ProcessType'
        BY <1>o, <1>d, <1>i, <1>8 DEF ReloadFlag, ProcessType, storage, Load
    <2>3. thread' \in [Threads -> ThreadState]
        BY <1>d, <1>i, <1>8 DEF ReloadFlag, Goto, ThreadState, Saving, ReloadAt
    <2>4. SaveInv'
        BY <1>o, <1>d, <1>8 DEF ReloadFlag, SaveInv, At, Goto, Saving, ThreadState, ProcessType, DiskType, storage
    <2>5. UsedType'
        BY <1>d, <1>8 DEF ReloadFlag, UsedType
    <2> QED BY <2>1, <2>2, <2>3, <2>4, <2>5 DEF TypeInv
<1>9. CASE ReloadData(t)
    <2>1. DiskType'
        BY <1>o, <1>d, <1>i, <1>9 DEF ReloadData, DiskType, storage
    <2>2. ProcessType'
        BY <1>o, <1>d, <1>i, <1>9 DEF ReloadData, ProcessType, storage, Load
    <2>3. thread' \in [Threads -> ThreadState]
        <3>1. thread' = [thread EXCEPT ![t].pc = "notify"]
            BY <1>9 DEF ReloadData, Goto
        <3> QED BY <1>d, <3>1 DEF ThreadState
    <2>4. SaveInv'
        BY <1>o, <1>d, <1>9 DEF ReloadData, SaveInv, At, Goto, Saving, ThreadState, ProcessType, DiskType, storage
    <2>5. UsedType'
        BY <1>d, <1>9 DEF ReloadData, UsedType
    <2> QED BY <2>1, <2>2, <2>3, <2>4, <2>5 DEF TypeInv
<1> QED BY <1>1, <1>2, <1>3, <1>4, <1>5, <1>6, <1>7, <1>8, <1>9

\* A step of Publish: what is published is what was serialized.
LEMMA PublishedFits ==
    ASSUME TypeInv, NEW t \in Threads, Publish(t)
    PROVE  /\ file' = Toml(thread[t].body) /\ file' \in FitContents
           /\ thread[t].body \in FitMap /\ thread[t].pc = "publish"
<1>1. thread[t].pc = "publish" /\ thread[t].body \in FitMap
    BY DEF Publish, At, TypeInv, ThreadState
<1>2. tmp[Owner[t]] = Toml(thread[t].body)
    BY <1>1 DEF TypeInv, SaveInv
<1> QED BY <1>1, <1>2, ContentKinds DEF Publish

\* The steps that touch the file, and the calls.
LEMMA TypeThread ==
    ASSUME TypeInv, NEW t \in Threads,
           Call(t) \/ Backup(t) \/ Publish(t) \/ Fault(t)
    PROVE  TypeInv'
<1>o. Owner[t] \in Procs /\ Nobody \notin Threads /\ Owner \in [Threads -> Procs]
    BY StoreAssumption
<1>d. /\ DiskType /\ ProcessType /\ SaveInv /\ UsedType
      /\ thread \in [Threads -> ThreadState]
    BY DEF TypeInv
<1>i. /\ thread[t].body \in FitMap /\ thread[t].loaded \in Load
      /\ thread[t].tell \in Seq(Keys) /\ mem[Owner[t]] \in FitMap
    BY <1>o, <1>d DEF ThreadState, ProcessType
<1>a. ASSUME NEW data \in FitMap, NEW tell \in Seq(Keys), Assign(t, data, tell)
      PROVE  TypeInv'
    <2>1. DiskType'
        BY <1>d, <1>a DEF Assign, DiskType, storage
    <2>2. ProcessType'
        BY <1>o, <1>d, <1>a DEF Assign, ProcessType
    <2>3. thread' \in [Threads -> ThreadState]
        <3>1. thread' = [thread EXCEPT ![t].pc = "persist", ![t].tell = tell]
            BY <1>a DEF Assign
        <3> QED BY <1>d, <3>1 DEF ThreadState
    <2>4. SaveInv'
        BY <1>o, <1>d, <1>a DEF Assign, SaveInv, At, Saving, ThreadState, storage
    <2>5. UsedType'
        BY <1>d, <1>a DEF Assign, UsedType, Spend
    <2> QED BY <2>1, <2>2, <2>3, <2>4, <2>5 DEF TypeInv
<1>1. ASSUME NEW k \in Keys, NEW v \in Values, set_value(t, k, v)
      PROVE  TypeInv'
    <2>1. <<k>> \in Seq(Keys)
        OBVIOUS
    <2>2. [mem[Owner[t]] EXCEPT ![k] = set_str(k, v).raw] \in FitMap
        BY <1>i, <1>1, StoredFits, OneSet DEF set_value
    <2> QED BY <1>a, <1>1, <2>1, <2>2 DEF set_value
<1>2. ASSUME NEW k \in Keys, reset(t, k)
      PROVE  TypeInv'
    <2>1. <<k>> \in Seq(Keys)
        OBVIOUS
    <2>2. [mem[Owner[t]] EXCEPT ![k] = NoValue] \in FitMap
        BY <1>i, OneSet DEF FieldFits
    <2> QED BY <1>a, <1>2, <2>1, <2>2 DEF reset
<1>k. KeyOrder \in Seq(Keys)
    BY StoreAssumption, SeqDef DEF Keys
<1>3. CASE reset_all(t)
    BY <1>a, <1>k, <1>3, UnsetFits DEF reset_all
<1>4. CASE ReloadRead(t)
    <2>1. PICK readable \in BOOLEAN :
            LET loaded == read_settings_at(IF has_path[Owner[t]] THEN file ELSE Absent, readable)
            IN  /\ At(t, "idle")
                /\ used' = [used EXCEPT !.calls = @ + 1, !.faults = IF readable THEN @ ELSE @ + 1]
                /\ thread' = [thread EXCEPT ![t].pc = "reload_flag", ![t].loaded = loaded,
                                            ![t].tell = KeyOrder]
                /\ warned' = IF loaded.bad THEN warned \cup {file} ELSE warned \ {file}
                /\ UNCHANGED <<mem, degraded, has_path, lock, alive, listener, storage, clock, saved>>
        BY <1>4 DEF ReloadRead
    <2> DEFINE loaded == read_settings_at(IF has_path[Owner[t]] THEN file ELSE Absent, readable)
    <2>2. loaded \in Load /\ (loaded.bad => file \in FitContents)
        <3>1. file \in FitPublished /\ Absent \in FitPublished
            BY <1>d DEF DiskType, FitPublished
        <3> QED BY <3>1, LoadFits, ContentKinds
    <2> HIDE DEF loaded
    <2>3. DiskType'
        BY <1>d, <2>1, <2>2 DEF DiskType, storage, loaded
    <2>4. ProcessType'
        BY <1>d, <2>1 DEF ProcessType
    <2>5. thread' \in [Threads -> ThreadState]
        <3>1. thread' = [thread EXCEPT ![t].pc = "reload_flag", ![t].loaded = loaded,
                                       ![t].tell = KeyOrder]
            BY <2>1 DEF loaded
        <3> QED BY <1>d, <1>k, <2>2, <3>1 DEF ThreadState, ReloadAt
    <2>6. SaveInv'
        BY <1>o, <1>d, <2>1 DEF SaveInv, At, Saving, ThreadState, storage
    <2>7. UsedType'
        <3>1. used' = [used EXCEPT !.calls = @ + 1, !.faults = IF readable THEN @ ELSE @ + 1]
            BY <2>1
        <3>2. used' = IF readable THEN [used EXCEPT !.calls = @ + 1]
                      ELSE [used EXCEPT !.calls = @ + 1, !.faults = @ + 1]
            BY <1>d, <3>1 DEF UsedType
        <3>3. CASE readable
            BY <1>d, <3>2, <3>3 DEF UsedType
        <3>4. CASE ~readable
            <4>1. used' = [used EXCEPT !.calls = @ + 1, !.faults = @ + 1]
                BY <3>2, <3>4
            <4>2. used.calls \in Nat /\ used.faults \in Nat
                BY <1>d DEF UsedType
            <4>3. ASSUME NEW n \in Nat, NEW m \in Nat
                  PROVE  [used EXCEPT !.calls = n, !.faults = m]
                            \in [calls : Nat, edits : 0 .. MaxEdits, faults : Nat, crashes : Nat]
                BY <1>d DEF UsedType
            <4>4. used.calls + 1 \in Nat /\ used.faults + 1 \in Nat
                BY <4>2
            <4> QED BY <4>1, <4>3, <4>4 DEF UsedType
        <3> QED BY <3>3, <3>4
    <2> QED BY <2>3, <2>4, <2>5, <2>6, <2>7 DEF TypeInv
<1>5. CASE Backup(t)
    <2>1. DiskType'
        BY <1>d, <1>5 DEF Backup, DiskType, FitPublished
    <2>2. ProcessType'
        BY <1>d, <1>5 DEF Backup, ProcessType
    <2>3. thread' \in [Threads -> ThreadState]
        BY <1>d, <1>5 DEF Backup, Goto, ThreadState, Saving
    <2>4. SaveInv'
        BY <1>o, <1>d, <1>5 DEF Backup, SaveInv, At, Goto, Saving, ThreadState
    <2>5. UsedType'
        BY <1>d, <1>5 DEF Backup, UsedType
    <2> QED BY <2>1, <2>2, <2>3, <2>4, <2>5 DEF TypeInv
<1>6. CASE Publish(t)
    <2>1. DiskType'
        BY <1>o, <1>d, <1>6, PublishedFits DEF Publish, DiskType, FitPublished
    <2>2. ProcessType'
        BY <1>d, <1>6 DEF Publish, ProcessType
    <2>3. thread' \in [Threads -> ThreadState]
        BY <1>d, <1>6 DEF Publish, Goto, ThreadState, Saving
    <2>4. SaveInv'
        BY <1>o, <1>d, <1>6 DEF Publish, SaveInv, At, Goto, Saving, ThreadState, DiskType
    <2>5. UsedType'
        BY <1>d, <1>6 DEF Publish, UsedType
    <2> QED BY <2>1, <2>2, <2>3, <2>4, <2>5 DEF TypeInv
<1>7. CASE Fault(t)
    <2>1. GiveUpSave(t) /\ alive[Owner[t]]
          /\ thread[t].pc \in {"backup", "create", "fill", "publish"}
        BY <1>7 DEF Fault, BackupFails, SaveFails, At
    <2>2. DiskType'
        BY <1>o, <1>d, <2>1 DEF GiveUpSave, DiskType, FitPublished
    <2>3. ProcessType'
        BY <1>o, <1>d, <2>1 DEF GiveUpSave, ProcessType
    <2>4. thread' \in [Threads -> ThreadState]
        BY <1>d, <2>1 DEF GiveUpSave, Goto, ThreadState
    <2>5. SaveInv'
        BY <1>o, <1>d, <2>1 DEF GiveUpSave, SaveInv, Goto, Saving, ThreadState, DiskType, ProcessType
    <2>6. UsedType'
        BY <1>d, <2>1 DEF GiveUpSave, UsedType, Spend
    <2> QED BY <2>2, <2>3, <2>4, <2>5, <2>6 DEF TypeInv
<1> QED BY <1>1, <1>2, <1>3, <1>4, <1>5, <1>6, <1>7 DEF Call

\* Processes, the text editor and the clock.
LEMMA TypeWorld ==
    ASSUME TypeInv,
           \/ \E p \in Procs : Open(p) \/ Crash(p) \/ \E on \in BOOLEAN : set_path(p, on)
           \/ UserEdits \/ Tick
    PROVE  TypeInv'
<1>o. Nobody \notin Threads /\ Owner \in [Threads -> Procs] /\ MaxClock \in Nat /\ MaxEdits \in Nat
    BY StoreAssumption
<1>d. /\ DiskType /\ ProcessType /\ SaveInv /\ UsedType
      /\ thread \in [Threads -> ThreadState]
    BY DEF TypeInv
<1>1. ASSUME NEW p \in Procs, Open(p)
      PROVE  TypeInv'
    <2>1. PICK readable \in BOOLEAN :
            LET loaded == read_settings_at(file, readable)
            IN  /\ ~alive[p]
                /\ alive' = [alive EXCEPT ![p] = TRUE]
                /\ mem' = [mem EXCEPT ![p] = loaded.data]
                /\ degraded' = [degraded EXCEPT ![p] = loaded.bad]
                /\ listener' = [listener EXCEPT ![p] = [k \in Keys |-> get(k, loaded.data[k])]]
                /\ warned' = IF loaded.bad THEN warned \cup {file} ELSE warned \ {file}
                /\ saved' = [saved EXCEPT ![p] = "nothing"]
                /\ used' = IF readable THEN used ELSE [used EXCEPT !.faults = @ + 1]
                /\ UNCHANGED <<has_path, lock, thread, storage, clock>>
        BY <1>1 DEF Open
    <2> DEFINE loaded == read_settings_at(file, readable)
    <2>2. loaded \in Load /\ (loaded.bad => file \in FitContents)
        BY <1>d, LoadFits DEF DiskType
    <2> HIDE DEF loaded
    <2>3. DiskType'
        BY <1>d, <2>1, <2>2 DEF DiskType, storage, loaded
    <2>4. ProcessType'
        <3>1. [k \in Keys |-> get(k, loaded.data[k])] \in [Keys -> Readings]
            BY <2>2 DEF Load, Readings, FitMap, SettingsMap
        <3> QED BY <1>d, <2>1, <2>2, <3>1 DEF ProcessType, Load, loaded
    <2>5. SaveInv' /\ thread' \in [Threads -> ThreadState]
        BY <1>o, <1>d, <2>1 DEF SaveInv, storage, ProcessType
    <2>6. UsedType'
        BY <1>d, <2>1 DEF UsedType
    <2> QED BY <2>3, <2>4, <2>5, <2>6 DEF TypeInv
<1>2. ASSUME NEW p \in Procs, Crash(p)
      PROVE  TypeInv'
    <2>1. DiskType'
        BY <1>d, <1>2 DEF Crash, DiskType, storage
    <2>2. ProcessType'
        BY <1>d, <1>2 DEF Crash, ProcessType
    <2>3. thread' \in [Threads -> ThreadState]
        BY <1>d, <1>2, IdleFits DEF Crash
    <2>4. SaveInv'
        BY <1>o, <1>d, <1>2, IdleFits DEF Crash, SaveInv, Saving, storage, ProcessType
    <2>5. UsedType'
        BY <1>d, <1>2 DEF Crash, UsedType, Spend
    <2> QED BY <2>1, <2>2, <2>3, <2>4, <2>5 DEF TypeInv
<1>3. ASSUME NEW p \in Procs, NEW on \in BOOLEAN, set_path(p, on)
      PROVE  TypeInv'
    <2>1. DiskType' /\ ProcessType' /\ SaveInv' /\ thread' \in [Threads -> ThreadState]
        BY <1>d, <1>3 DEF set_path, DiskType, ProcessType, SaveInv, storage
    <2>2. UsedType'
        BY <1>d, <1>3 DEF set_path, UsedType, Spend
    <2> QED BY <2>1, <2>2 DEF TypeInv
<1>4. CASE UserEdits
    <2>1. used.edits + 1 \in 0 .. MaxEdits
        BY <1>o, <1>d, <1>4 DEF UserEdits, CanSpend, UsedType
    <2>2. file' \in FitContents
        <3>1. \A w \in Values : (\A k \in Keys : FieldFits(k, w)) => Toml([k \in Keys |-> w]) \in FitContents
            BY ContentKinds DEF FitMap, SettingsMap
        <3> QED BY <1>4, <2>1, <3>1 DEF UserEdits, FitContents
    <2>3. DiskType'
        BY <1>o, <1>d, <1>4, <2>2 DEF UserEdits, DiskType, FitPublished
    <2>4. ProcessType' /\ SaveInv' /\ thread' \in [Threads -> ThreadState]
        BY <1>d, <1>4 DEF UserEdits, ProcessType, SaveInv
    <2>5. UsedType'
        BY <1>d, <1>4, <2>1 DEF UserEdits, UsedType, Spend
    <2> QED BY <2>3, <2>4, <2>5 DEF TypeInv
<1>5. CASE Tick
    BY <1>o, <1>d, <1>5 DEF Tick, TypeInv, DiskType, ProcessType, SaveInv, UsedType, storage
<1> QED BY <1>1, <1>2, <1>3, <1>4, <1>5

LEMMA TypeStep == TypeInv /\ [Next]_vars => TypeInv'
<1> SUFFICES ASSUME TypeInv, [Next]_vars PROVE TypeInv'
    OBVIOUS
<1>1. ASSUME NEW t \in Threads, Call(t) \/ Step(t) \/ Fault(t)
      PROVE  TypeInv'
    BY <1>1, TypeGoto, TypeThread DEF Step
<1>2. CASE UNCHANGED vars
    BY <1>2 DEF vars, TypeInv, DiskType, ProcessType, SaveInv, UsedType, storage
<1> QED BY <1>1, <1>2, TypeWorld DEF Next

LEMMA TypeInductive == Spec => []TypeInv
BY TypeInit, TypeStep, PTL DEF Spec

\* Every map holds values of the schema's kind, and neither the file nor a
\* backup is ever half-written (settings/api.rs, persist).
THEOREM TypeCorrect == Spec => []TypeOK
<1>1. FitContents \subseteq Contents /\ FitPublished \subseteq Published
    BY DEF FitContents, FitPublished, Contents, Published, FitMap
<1>2. TypeInv => TypeOK
    BY <1>1 DEF TypeInv, DiskType, ProcessType, TypeOK, FitMap
<1> QED BY <1>2, TypeInductive, PTL

-----------------------------------------------------------------------------
(* Listeners *)

\* The steps that leave what listeners are owed alone: the thread keeps its
\* list and stays inside its call.
LEMMA TellKept ==
    ASSUME TypeInv, TellInv, NEW t \in Threads,
           \/ BeginSave(t) \/ SkipSave(t) \/ Backup(t) \/ CreateTmp(t) \/ FillTmp(t)
           \/ Publish(t) \/ FinishSave(t) \/ Fault(t) \/ ReloadFlag(t)
    PROVE  TellInv'
<1>t. thread \in [Threads -> ThreadState]
    BY DEF TypeInv
<1>1. /\ mem' = mem /\ listener' = listener /\ alive' = alive
      /\ thread[t].pc # "idle" /\ thread'[t].pc # "idle" /\ thread'[t].tell = thread[t].tell
      /\ \A u \in Threads : u # t => thread'[u] = thread[u]
      /\ Reloading(t)' => Reloading(t)
    BY <1>t DEF BeginSave, SkipSave, Backup, CreateTmp, FillTmp, Publish, FinishSave, Fault,
       BackupFails, SaveFails, GiveUpSave, ReloadFlag, Goto, At, ThreadState, Reloading
<1>2. \A u \in Threads : /\ thread'[u].tell = thread[u].tell
                         /\ (thread'[u].pc = "idle") = (thread[u].pc = "idle")
                         /\ Reloading(u)' => Reloading(u)
    BY <1>1 DEF Reloading
<1> QED BY <1>1, <1>2 DEF TellInv

\* A setter puts the keys it changes on its list.
LEMMA TellAssign ==
    ASSUME TypeInv, TellInv, NEW t \in Threads, NEW data, NEW tell, Assign(t, data, tell),
           \A k \in Keys : data[k] = mem[Owner[t]][k] \/ \E i \in DOMAIN tell : tell[i] = k
    PROVE  TellInv'
<1>t. /\ thread \in [Threads -> ThreadState] /\ mem \in [Procs -> FitMap]
      /\ Owner \in [Threads -> Procs]
    BY StoreAssumption DEF TypeInv, ProcessType
<1>1. /\ mem' = [mem EXCEPT ![Owner[t]] = data] /\ listener' = listener /\ alive' = alive
      /\ thread[t].pc = "idle" /\ thread'[t].pc = "persist" /\ thread'[t].tell = tell
      /\ \A u \in Threads : u # t => thread'[u] = thread[u]
    BY <1>t DEF Assign, At, ThreadState
<1>2. ASSUME NEW p \in Procs, NEW k \in Keys, alive[p], listener[p][k] # get(k, mem'[p][k])
      PROVE  \E u \in Threads :
                /\ Owner[u] = p /\ thread'[u].pc # "idle"
                /\ \E i \in DOMAIN thread'[u].tell : thread'[u].tell[i] = k
    <2>1. CASE mem'[p][k] = mem[p][k]
        <3>1. PICK u \in Threads : /\ Owner[u] = p /\ thread[u].pc # "idle"
                                   /\ \E i \in DOMAIN thread[u].tell : thread[u].tell[i] = k
            BY <1>2, <2>1 DEF TellInv
        <3> QED BY <1>1, <3>1
    <2>2. CASE mem'[p][k] # mem[p][k]
        <3>1. p = Owner[t] /\ data[k] # mem[Owner[t]][k]
            BY <1>t, <1>1, <2>2
        <3> QED BY <1>1, <3>1
    <2> QED BY <2>1, <2>2
<1>3. \A u \in Threads : Reloading(u)' => thread'[u].tell = KeyOrder
    BY <1>1 DEF TellInv, Reloading
<1> QED BY <1>1, <1>2, <1>3 DEF TellInv

LEMMA AllKeysTold == \A k \in Keys : \E i \in DOMAIN KeyOrder : KeyOrder[i] = k
BY DEF Keys

LEMMA TellThread ==
    ASSUME TypeInv, TellInv, NEW t \in Threads,
           Call(t) \/ notify(t) \/ Return(t) \/ ReloadData(t)
    PROVE  TellInv'
<1>t. /\ thread \in [Threads -> ThreadState] /\ mem \in [Procs -> FitMap]
      /\ listener \in [Procs -> [Keys -> Readings]] /\ Owner \in [Threads -> Procs]
    BY StoreAssumption DEF TypeInv, ProcessType
<1>1. ASSUME NEW k \in Keys, NEW raw, Assign(t, [mem[Owner[t]] EXCEPT ![k] = raw], <<k>>)
      PROVE  TellInv'
    <2> DEFINE data == [mem[Owner[t]] EXCEPT ![k] = raw]
               tell == <<k>>
    <2>1. \A j \in Keys : data[j] = mem[Owner[t]][j] \/ \E i \in DOMAIN tell : tell[i] = j
        <3>1. 1 \in DOMAIN <<k>> /\ <<k>>[1] = k
            OBVIOUS
        <3> QED BY <1>t, <3>1 DEF FitMap, SettingsMap
    <2>2. Assign(t, data, tell)
        BY <1>1
    <2> HIDE DEF data, tell
    <2> QED BY <2>1, <2>2, TellAssign
<1>2. CASE reset_all(t)
    BY <1>2, AllKeysTold, TellAssign DEF reset_all
<1>3. CASE ReloadRead(t)
    <2>1. /\ mem' = mem /\ listener' = listener /\ alive' = alive
          /\ thread[t].pc = "idle" /\ thread'[t].pc = "reload_flag" /\ thread'[t].tell = KeyOrder
          /\ \A u \in Threads : u # t => thread'[u] = thread[u]
        <3>1. PICK l : thread' = [thread EXCEPT ![t].pc = "reload_flag", ![t].loaded = l,
                                                ![t].tell = KeyOrder]
            BY <1>3 DEF ReloadRead
        <3> QED BY <1>t, <1>3, <3>1 DEF ReloadRead, At, ThreadState
    <2>2. \A u \in Threads : Reloading(u)' => thread'[u].tell = KeyOrder
        BY <2>1 DEF TellInv, Reloading
    <2>3. \A u \in Threads : thread[u].pc # "idle" => thread'[u] = thread[u]
        BY <2>1
    <2> QED BY <2>1, <2>2, <2>3 DEF TellInv
<1>4. CASE ReloadData(t)
    <2>1. /\ mem' = [mem EXCEPT ![Owner[t]] = thread[t].loaded.data]
          /\ listener' = listener /\ alive' = alive
          /\ thread'[t].pc = "notify" /\ thread'[t].tell = KeyOrder
          /\ \A u \in Threads : u # t => thread'[u] = thread[u]
        BY <1>t, <1>4 DEF ReloadData, Goto, At, ThreadState, TellInv, Reloading
    <2>2. \A u \in Threads : Reloading(u)' => thread'[u].tell = KeyOrder
        BY <2>1 DEF TellInv, Reloading
    <2>3. ASSUME NEW p \in Procs, NEW k \in Keys, alive[p], p # Owner[t]
          PROVE  \/ listener[p][k] = get(k, mem'[p][k])
                 \/ \E u \in Threads : /\ Owner[u] = p /\ thread'[u].pc # "idle"
                                       /\ \E i \in DOMAIN thread'[u].tell : thread'[u].tell[i] = k
        <3>1. mem'[p] = mem[p]
            BY <1>t, <2>1, <2>3
        <3>2. \A u \in Threads : Owner[u] = p => thread'[u] = thread[u]
            BY <2>1, <2>3
        <3> QED BY <2>3, <3>1, <3>2 DEF TellInv
    <2> QED BY <2>1, <2>2, <2>3, AllKeysTold DEF TellInv
<1>5. CASE notify(t)
    <2> DEFINE j == Head(thread[t].tell)
    <2>1. /\ thread[t].tell \in Seq(Keys) /\ thread[t].tell # <<>> /\ thread[t].pc = "notify"
        BY <1>t, <1>5 DEF notify, At, ThreadState
    <2>2. /\ mem' = mem /\ alive' = alive
          /\ listener' = [listener EXCEPT ![Owner[t]][j] = get(j, mem[Owner[t]][j])]
          /\ thread'[t].pc = "notify" /\ thread'[t].tell = Tail(thread[t].tell)
          /\ \A u \in Threads : u # t => thread'[u] = thread[u]
        BY <1>t, <1>5, <2>1 DEF notify, Heard, ThreadState
    <2>3. /\ j \in Keys
          /\ \A i \in DOMAIN thread[t].tell :
                thread[t].tell[i] # j =>
                    \E n \in DOMAIN Tail(thread[t].tell) : Tail(thread[t].tell)[n] = thread[t].tell[i]
        <3>1. /\ Len(thread[t].tell) \in Nat /\ DOMAIN thread[t].tell = 1 .. Len(thread[t].tell)
              /\ Len(thread[t].tell) # 0
            BY <2>1, LenProperties, EmptySeq
        <3>2. /\ j = thread[t].tell[1] /\ j \in Keys
              /\ Len(Tail(thread[t].tell)) = Len(thread[t].tell) - 1
              /\ DOMAIN Tail(thread[t].tell) = 1 .. Len(thread[t].tell) - 1
              /\ \A n \in 1 .. Len(thread[t].tell) - 1 : Tail(thread[t].tell)[n] = thread[t].tell[n + 1]
            BY <2>1, <3>1, HeadTailProperties, LenProperties
        <3>3. ASSUME NEW i \in DOMAIN thread[t].tell, thread[t].tell[i] # j
              PROVE  i - 1 \in DOMAIN Tail(thread[t].tell) /\ Tail(thread[t].tell)[i - 1] = thread[t].tell[i]
            BY <3>1, <3>2, <3>3
        <3> QED BY <3>2, <3>3
    <2>4. ASSUME NEW p \in Procs, NEW k \in Keys, alive[p], listener'[p][k] # get(k, mem[p][k])
          PROVE  \E u \in Threads : /\ Owner[u] = p /\ thread'[u].pc # "idle"
                                    /\ \E i \in DOMAIN thread'[u].tell : thread'[u].tell[i] = k
        <3>1. listener'[p][k] = listener[p][k] /\ ~(p = Owner[t] /\ k = j)
            BY <1>t, <2>2, <2>3, <2>4
        <3>2. PICK u \in Threads : /\ Owner[u] = p /\ thread[u].pc # "idle"
                                   /\ \E i \in DOMAIN thread[u].tell : thread[u].tell[i] = k
            BY <2>4, <3>1 DEF TellInv
        <3>3. CASE u = t
            <4>1. PICK i \in DOMAIN thread[t].tell : thread[t].tell[i] = k
                BY <3>2, <3>3
            <4>2. k # j
                BY <3>1, <3>2, <3>3
            <4>3. \E n \in DOMAIN Tail(thread[t].tell) : Tail(thread[t].tell)[n] = k
                BY <2>3, <4>1, <4>2
            <4> QED BY <2>2, <3>2, <3>3, <4>3
        <3>4. CASE u # t
            BY <2>2, <3>2, <3>4
        <3> QED BY <3>3, <3>4
    <2>5. \A u \in Threads : Reloading(u)' => thread'[u].tell = KeyOrder
        BY <2>2 DEF TellInv, Reloading
    <2> QED BY <2>2, <2>4, <2>5 DEF TellInv
<1>6. CASE Return(t)
    <2>1. /\ mem' = mem /\ alive' = alive /\ listener' = listener
          /\ thread[t].tell = <<>> /\ thread'[t].pc = "idle"
          /\ \A u \in Threads : u # t => thread'[u] = thread[u]
        BY <1>t, <1>6, IdleFits DEF Return
    <2>2. \A u \in Threads : (\E i \in DOMAIN thread[u].tell : TRUE) => thread'[u] = thread[u]
        BY <2>1
    <2>3. \A u \in Threads : Reloading(u)' => thread'[u].tell = KeyOrder
        BY <2>1 DEF TellInv, Reloading
    <2> QED BY <2>1, <2>2, <2>3 DEF TellInv
<1> QED BY <1>1, <1>2, <1>3, <1>4, <1>5, <1>6 DEF Call, set_value, reset

LEMMA TellStep == TypeInv /\ TellInv /\ [Next]_vars => TellInv'
<1> SUFFICES ASSUME TypeInv, TellInv, [Next]_vars PROVE TellInv'
    OBVIOUS
<1>t. /\ thread \in [Threads -> ThreadState] /\ mem \in [Procs -> FitMap]
      /\ listener \in [Procs -> [Keys -> Readings]] /\ Owner \in [Threads -> Procs]
      /\ alive \in [Procs -> BOOLEAN] /\ SaveInv
    BY StoreAssumption DEF TypeInv, ProcessType
<1>1. ASSUME NEW t \in Threads, Call(t) \/ Step(t) \/ Fault(t)
      PROVE  TellInv'
    BY <1>1, TellKept, TellThread DEF Step
<1>2. ASSUME NEW p \in Procs, Open(p)
      PROVE  TellInv'
    <2>1. PICK data : /\ mem' = [mem EXCEPT ![p] = data]
                      /\ listener' = [listener EXCEPT ![p] = [k \in Keys |-> get(k, data[k])]]
        BY <1>2 DEF Open
    <2>2. alive' = [alive EXCEPT ![p] = TRUE] /\ thread' = thread
        BY <1>2 DEF Open
    <2>3. \A k \in Keys : listener'[p][k] = get(k, mem'[p][k])
        BY <1>t, <2>1
    <2>4. \A q \in Procs : q # p => mem'[q] = mem[q] /\ listener'[q] = listener[q] /\ alive'[q] = alive[q]
        BY <1>t, <2>1, <2>2
    <2> QED BY <2>2, <2>3, <2>4 DEF TellInv, Reloading
<1>3. ASSUME NEW p \in Procs, Crash(p)
      PROVE  TellInv'
    <2>1. /\ alive' = [alive EXCEPT ![p] = FALSE] /\ mem' = mem /\ listener' = listener
          /\ \A u \in Threads : Owner[u] # p => thread'[u] = thread[u]
          /\ \A u \in Threads : Owner[u] = p => thread'[u] = Idle
        BY <1>3 DEF Crash
    <2>2. \A u \in Threads : Reloading(u)' => thread'[u].tell = KeyOrder
        BY <2>1, IdleFits DEF TellInv, Reloading
    <2>3. \A q \in Procs : alive'[q] => alive[q] /\ q # p
        BY <1>t, <2>1
    <2> QED BY <2>1, <2>2, <2>3 DEF TellInv
<1>4. CASE \/ \E p \in Procs : \E on \in BOOLEAN : set_path(p, on)
           \/ UserEdits \/ Tick \/ UNCHANGED vars
    <2>1. mem' = mem /\ listener' = listener /\ alive' = alive /\ thread' = thread
        BY <1>4 DEF set_path, UserEdits, Tick, vars
    <2> QED BY <2>1 DEF TellInv, Reloading
<1> QED BY <1>1, <1>2, <1>3, <1>4 DEF Next

\* When a process is at rest its listeners have read the current value of
\* every key, however setters, resets, reloads and failing saves of its
\* threads crossed (settings/api.rs, persist_and_notify, reload).
THEOREM ListenersCorrect == Spec => []ListenersCurrent
<1>1. Init => TellInv
    BY StoreAssumption, IdleFits DEF Init, TellInv, Reloading
<1>2. TellInv => ListenersCurrent
    BY DEF TellInv, ListenersCurrent, Resting
<1> QED BY <1>1, <1>2, TellStep, TypeInductive, PTL DEF Spec

-----------------------------------------------------------------------------
(* Reloads are alone *)

\* Only a thread's own steps move it, or the end of its process, and no call
\* begins while its process reloads.
LEMMA AloneStep ==
    ASSUME ~ReloadMayOverlap
    PROVE  TypeInv /\ AloneInv /\ [Next]_vars => AloneInv'
<1> SUFFICES ASSUME TypeInv, AloneInv, [Next]_vars PROVE AloneInv'
    OBVIOUS
<1>t. thread \in [Threads -> ThreadState] /\ Owner \in [Threads -> Procs]
    BY StoreAssumption DEF TypeInv
<1>1. ASSUME NEW t \in Threads,
             /\ \A u \in Threads : u # t => thread'[u] = thread[u]
             /\ Reloading(t)' => Reloading(t)
             /\ thread[t].pc # "idle"
      PROVE  AloneInv'
    <2>1. \A u \in Threads : Reloading(u)' => Reloading(u)
        BY <1>1 DEF Reloading
    <2>2. \A u \in Threads : thread[u].pc = "idle" => thread'[u] = thread[u]
        BY <1>1
    <2> QED BY <2>1, <2>2 DEF AloneInv
<1>2. ASSUME NEW t \in Threads, NEW data, NEW tell, Assign(t, data, tell)
      PROVE  AloneInv'
    <2>1. /\ \A u \in Threads : u # t => thread'[u] = thread[u]
          /\ thread'[t].pc = "persist"
          /\ \A u \in Threads : Owner[u] = Owner[t] => ~Reloading(u)
        BY <1>t, <1>2 DEF Assign, ThreadState
    <2> QED BY <2>1 DEF AloneInv, Reloading
<1>3. ASSUME NEW t \in Threads, ReloadRead(t)
      PROVE  AloneInv'
    <2>1. /\ \A u \in Threads : u # t => thread'[u] = thread[u]
          /\ \A u \in Threads : Owner[u] = Owner[t] => thread[u].pc = "idle"
        <3>1. PICK l : thread' = [thread EXCEPT ![t].pc = "reload_flag", ![t].loaded = l,
                                                ![t].tell = KeyOrder]
            BY <1>3 DEF ReloadRead
        <3> QED BY <1>t, <1>3, <3>1 DEF ReloadRead
    <2> QED BY <2>1 DEF AloneInv, Reloading
<1>4. ASSUME NEW t \in Threads, Step(t) \/ Fault(t)
      PROVE  AloneInv'
    <2>1. /\ \A u \in Threads : u # t => thread'[u] = thread[u]
          /\ Reloading(t)' => Reloading(t)
          /\ thread[t].pc # "idle"
        BY <1>t, <1>4, IdleFits DEF Step, BeginSave, SkipSave, Backup, CreateTmp, FillTmp, Publish,
           FinishSave, Fault, BackupFails, SaveFails, GiveUpSave, ReloadFlag, ReloadData, notify,
           Return, Goto, At, ThreadState, Reloading
    <2> QED BY <1>1, <2>1
<1>5. ASSUME NEW p \in Procs, Crash(p)
      PROVE  AloneInv'
    BY <1>5, IdleFits DEF Crash, AloneInv, Reloading
<1>6. CASE \/ \E p \in Procs : Open(p) \/ \E on \in BOOLEAN : set_path(p, on)
           \/ UserEdits \/ Tick \/ UNCHANGED vars
    <2>1. thread' = thread
        BY <1>6 DEF Open, set_path, UserEdits, Tick, vars
    <2> QED BY <2>1 DEF AloneInv, Reloading
<1>7. ASSUME NEW t \in Threads, Call(t)
      PROVE  AloneInv'
    BY <1>2, <1>3, <1>7 DEF Call, set_value, reset, reset_all
<1> QED BY <1>4, <1>5, <1>6, <1>7 DEF Next

LEMMA AloneInit == Init => AloneInv
BY IdleFits DEF Init, AloneInv, Reloading

-----------------------------------------------------------------------------
(* What is on disk is what is in memory *)

SettledInv == BodyInv /\ DiskInv

\* What a step of thread t does to memory, threads and file, in the words of
\* the two invariants.
LEMMA SettledThread ==
    ASSUME TypeInv, AloneInv, SettledInv, NEW t \in Threads, Step(t) \/ Fault(t)
    PROVE  SettledInv'
<1>o. Owner[t] \in Procs /\ Nobody \notin Threads /\ Owner \in [Threads -> Procs]
    BY StoreAssumption
<1>t. /\ thread \in [Threads -> ThreadState] /\ SaveInv
      /\ mem \in [Procs -> FitMap] /\ lock \in [Procs -> Threads \cup {Nobody}]
      /\ saved \in [Procs -> {"nothing", "ok", "failed", "overtaken"}]
      /\ degraded \in [Procs -> BOOLEAN]
    BY DEF TypeInv, ProcessType
<1>w. /\ alive' = alive /\ has_path' = has_path
      /\ \A u \in Threads : u # t => thread'[u] = thread[u]
    BY <1>t DEF Step, BeginSave, SkipSave, Backup, CreateTmp, FillTmp, Publish,
       FinishSave, Fault, BackupFails, SaveFails, GiveUpSave, ReloadFlag, ReloadData, notify,
       Return, Goto, ThreadState
\* Steps that change none of it, as far as saves are concerned.
<1>1. ASSUME mem' = mem, file' = file, saved' = saved,
             Publishing(t)' = Publishing(t), thread'[t].body = thread[t].body \/ ~Publishing(t),
             (thread'[t].pc = "persist") = (thread[t].pc = "persist")
      PROVE  SettledInv'
    <2>1. \A u \in Threads : /\ Publishing(u)' = Publishing(u)
                             /\ Publishing(u) => thread'[u].body = thread[u].body
                             /\ (thread'[u].pc = "persist") = (thread[u].pc = "persist")
        BY <1>1, <1>w DEF Publishing
    <2>2. \A p \in Procs : Unsaved(p)' = Unsaved(p)
        BY <2>1 DEF Unsaved
    <2>3. BodyInv'
        BY <1>o, <1>1, <2>1, <2>2 DEF SettledInv, BodyInv
    <2>4. DiskInv'
        BY <1>w, <1>1, <2>1, <2>2 DEF SettledInv, DiskInv
    <2> QED BY <2>3, <2>4 DEF SettledInv
<1>2. CASE CreateTmp(t) \/ FillTmp(t) \/ FinishSave(t) \/ ReloadFlag(t) \/ notify(t) \/ Return(t)
    <2>1. /\ mem' = mem /\ file' = file /\ saved' = saved
          /\ Publishing(t)' = Publishing(t)
          /\ thread'[t].body = thread[t].body \/ ~Publishing(t)
          /\ thread'[t].pc # "persist" /\ thread[t].pc # "persist"
        BY <1>t, <1>2, IdleFits DEF CreateTmp, FillTmp, FinishSave, ReloadFlag, notify, Return, Goto,
           At, ThreadState, Publishing, storage
    <2> QED BY <1>1, <2>1
\* The lock is free, so no other thread of the process publishes.
<1>3. CASE BeginSave(t)
    <2>1. /\ mem' = mem /\ file' = file /\ saved' = saved /\ lock[Owner[t]] = Nobody
          /\ thread'[t].pc = "backup" /\ thread'[t].body = mem[Owner[t]] /\ thread[t].pc = "persist"
        BY <1>t, <1>3 DEF BeginSave, At, ThreadState, storage
    <2>2. \A u \in Threads : Owner[u] = Owner[t] /\ u # t => ~Publishing(u)
        BY <1>o, <1>t, <2>1 DEF SaveInv, Saving, Publishing
    <2>3. BodyInv'
        <3>1. ASSUME NEW u \in Threads, Publishing(u)'
              PROVE  thread'[u].body = mem'[Owner[u]] \/ Unsaved(Owner[u])'
            <4>1. CASE u = t
                BY <2>1, <4>1
            <4>2. CASE u # t
                <5>1. Publishing(u) /\ Owner[u] # Owner[t] /\ thread'[u] = thread[u]
                    BY <1>w, <2>2, <3>1, <4>2 DEF Publishing
                <5>2. Unsaved(Owner[u]) => Unsaved(Owner[u])'
                    BY <1>w, <5>1 DEF Unsaved
                <5> QED BY <2>1, <5>1, <5>2 DEF SettledInv, BodyInv
            <4> QED BY <4>1, <4>2
        <3> QED BY <3>1 DEF BodyInv
    <2>4. DiskInv'
        <3>1. Publishing(t)'
            BY <2>1 DEF Publishing
        <3>2. \A u \in Threads : Publishing(u) => Publishing(u)'
            BY <1>w, <3>1 DEF Publishing
        <3>3. \A p \in Procs : p # Owner[t] /\ Unsaved(p) => Unsaved(p)'
            BY <1>w DEF Unsaved
        <3> QED BY <1>w, <2>1, <3>1, <3>2, <3>3 DEF SettledInv, DiskInv
    <2> QED BY <2>3, <2>4 DEF SettledInv
<1>4. CASE SkipSave(t)
    <2>1. /\ mem' = mem /\ file' = file /\ saved' = saved /\ lock[Owner[t]] = Nobody
          /\ thread'[t].pc = "notify" /\ thread[t].pc = "persist" /\ ~has_path[Owner[t]]
        BY <1>t, <1>4 DEF SkipSave, At, Goto, ThreadState, storage
    <2>2. \A u \in Threads : Owner[u] = Owner[t] => ~Publishing(u)'
        BY <1>o, <1>t, <1>w, <2>1 DEF SaveInv, Saving, Publishing
    <2>3. \A p \in Procs : p # Owner[t] /\ Unsaved(p) => Unsaved(p)'
        BY <1>w DEF Unsaved
    <2>4. \A u \in Threads : Owner[u] # Owner[t] => thread'[u] = thread[u] /\ Publishing(u)' = Publishing(u)
        BY <1>w DEF Publishing
    <2>5. BodyInv'
        BY <1>o, <2>1, <2>2, <2>3, <2>4 DEF SettledInv, BodyInv
    <2>6. DiskInv'
        BY <1>w, <2>1, <2>3, <2>4 DEF SettledInv, DiskInv
    <2> QED BY <2>5, <2>6 DEF SettledInv
\* Another process whose file is moved aside knows that it was overtaken.
<1>5. CASE Backup(t)
    <2>1. /\ mem' = mem /\ thread'[t].body = thread[t].body
          /\ Publishing(t)' /\ Publishing(t)
          /\ thread'[t].pc # "persist" /\ thread[t].pc # "persist"
          /\ \A q \in Procs : q # Owner[t] /\ saved'[q] = "ok" => saved[q] = "ok" /\ file' = file
        BY <1>t, <1>5 DEF Backup, Goto, At, ThreadState, Publishing
    <2>2. \A u \in Threads : /\ Publishing(u)' = Publishing(u)
                             /\ thread'[u].body = thread[u].body
                             /\ (thread'[u].pc = "persist") = (thread[u].pc = "persist")
        BY <1>w, <2>1 DEF Publishing
    <2>3. \A p \in Procs : Unsaved(p)' = Unsaved(p)
        BY <2>2 DEF Unsaved
    <2>4. BodyInv'
        BY <1>o, <2>1, <2>2, <2>3 DEF SettledInv, BodyInv
    <2>5. DiskInv'
        BY <1>w, <2>1, <2>2, <2>3 DEF SettledInv, DiskInv
    <2> QED BY <2>4, <2>5 DEF SettledInv
<1>6. CASE Publish(t)
    <2>1. /\ mem' = mem /\ file' = Toml(thread[t].body) /\ Publishing(t)
          /\ thread'[t].pc = "finish" /\ thread[t].pc = "publish"
          /\ \A q \in Procs : saved'[q] = "ok" => q = Owner[t]
        BY <1>t, <1>6, PublishedFits DEF Publish, Goto, ThreadState, Publishing
    <2>2. \A u \in Threads : /\ Publishing(u)' => Publishing(u) /\ u # t
                             /\ (thread'[u].pc = "persist") = (thread[u].pc = "persist")
        BY <1>w, <2>1 DEF Publishing
    <2>3. \A p \in Procs : Unsaved(p)' = Unsaved(p)
        BY <2>2 DEF Unsaved
    <2>4. BodyInv'
        BY <1>o, <1>w, <2>1, <2>2, <2>3 DEF SettledInv, BodyInv
    <2>5. DiskInv'
        BY <1>o, <2>1, <2>3 DEF SettledInv, BodyInv, DiskInv
    <2> QED BY <2>4, <2>5 DEF SettledInv
<1>7. CASE Fault(t)
    <2>1. /\ mem' = mem /\ file' = file /\ saved' = [saved EXCEPT ![Owner[t]] = "failed"]
          /\ thread'[t].pc = "notify" /\ thread[t].pc # "persist"
        BY <1>t, <1>7 DEF Fault, BackupFails, SaveFails, GiveUpSave, At, Goto, ThreadState
    <2>2. \A u \in Threads : /\ Publishing(u)' => Publishing(u) /\ u # t
                             /\ (thread'[u].pc = "persist") = (thread[u].pc = "persist")
                             /\ Owner[u] # Owner[t] => Publishing(u)' = Publishing(u)
        BY <1>w, <2>1 DEF Publishing
    <2>3. \A p \in Procs : Unsaved(p)' = Unsaved(p)
        BY <2>2 DEF Unsaved
    <2>4. BodyInv'
        BY <1>o, <1>w, <2>1, <2>2, <2>3 DEF SettledInv, BodyInv
    <2>5. \A q \in Procs : saved'[q] = "ok" => q # Owner[t] /\ saved[q] = "ok"
        BY <1>o, <1>t, <2>1
    <2>6. DiskInv'
        BY <1>w, <2>1, <2>2, <2>3, <2>5 DEF SettledInv, DiskInv
    <2> QED BY <2>4, <2>6 DEF SettledInv
\* A reload is alone, and what is in memory now has never been saved.
<1>8. CASE ReloadData(t)
    <2>1. /\ mem' = [mem EXCEPT ![Owner[t]] = thread[t].loaded.data] /\ file' = file
          /\ saved' = [saved EXCEPT ![Owner[t]] = "nothing"]
          /\ thread'[t].pc = "notify" /\ thread[t].pc # "persist" /\ Reloading(t)
        BY <1>t, <1>8 DEF ReloadData, At, Goto, ThreadState, Reloading, storage
    <2>2. \A u \in Threads : /\ Publishing(u)' = Publishing(u)
                             /\ Publishing(u) => Owner[u] # Owner[t] /\ thread'[u] = thread[u]
                             /\ (thread'[u].pc = "persist") = (thread[u].pc = "persist")
        BY <1>w, <2>1 DEF AloneInv, Reloading, Publishing
    <2>3. \A p \in Procs : Unsaved(p)' = Unsaved(p)
        BY <2>2 DEF Unsaved
    <2>4. \A q \in Procs : q # Owner[t] => mem'[q] = mem[q] /\ saved'[q] = saved[q]
        BY <1>o, <1>t, <2>1
    <2>5. BodyInv'
        BY <1>o, <2>2, <2>3, <2>4 DEF SettledInv, BodyInv
    <2>6. saved'[Owner[t]] # "ok"
        BY <1>o, <1>t, <2>1
    <2>7. DiskInv'
        BY <1>w, <2>1, <2>2, <2>3, <2>4, <2>6 DEF SettledInv, DiskInv
    <2> QED BY <2>5, <2>7 DEF SettledInv
<1> QED BY <1>2, <1>3, <1>4, <1>5, <1>6, <1>7, <1>8 DEF Step

\* A call, and what happens to whole processes.
LEMMA SettledStep ==
    ASSUME ~ReloadMayOverlap
    PROVE  TypeInv /\ AloneInv /\ SettledInv /\ [Next]_vars => SettledInv'
<1> SUFFICES ASSUME TypeInv, AloneInv, SettledInv, [Next]_vars PROVE SettledInv'
    OBVIOUS
<1>o. Owner \in [Threads -> Procs]
    BY StoreAssumption
<1>t. /\ thread \in [Threads -> ThreadState] /\ SaveInv
      /\ mem \in [Procs -> FitMap] /\ alive \in [Procs -> BOOLEAN]
      /\ has_path \in [Procs -> BOOLEAN]
      /\ saved \in [Procs -> {"nothing", "ok", "failed", "overtaken"}]
    BY DEF TypeInv, ProcessType
\* Whoever changes the map has not saved it yet.
<1>1. ASSUME NEW t \in Threads, NEW data, NEW tell, Assign(t, data, tell)
      PROVE  SettledInv'
    <2>1. /\ \A p \in Procs : p # Owner[t] => mem'[p] = mem[p]
          /\ thread'[t].pc = "persist" /\ thread[t].pc = "idle"
          /\ \A u \in Threads : u # t => thread'[u] = thread[u]
          /\ UNCHANGED <<alive, has_path, saved, file>>
        BY <1>o, <1>t, <1>1 DEF Assign, At, ThreadState, storage
    <2>2. Unsaved(Owner[t])'
        BY <2>1 DEF Unsaved
    <2>3. \A p \in Procs : Unsaved(p) => Unsaved(p)'
        BY <2>1 DEF Unsaved
    <2>4. \A u \in Threads : Publishing(u)' = Publishing(u) /\ (Publishing(u) => thread'[u] = thread[u])
        BY <2>1 DEF Publishing
    <2>5. BodyInv'
        BY <1>o, <2>1, <2>2, <2>3, <2>4 DEF SettledInv, BodyInv
    <2>6. DiskInv'
        BY <2>1, <2>2, <2>3, <2>4 DEF SettledInv, DiskInv
    <2> QED BY <2>5, <2>6 DEF SettledInv
<1>2. ASSUME NEW t \in Threads, ReloadRead(t)
      PROVE  SettledInv'
    <2>1. /\ thread[t].pc = "idle" /\ thread'[t].pc = "reload_flag"
          /\ \A u \in Threads : u # t => thread'[u] = thread[u]
          /\ UNCHANGED <<mem, alive, has_path, saved, file>>
        <3>1. PICK l : thread' = [thread EXCEPT ![t].pc = "reload_flag", ![t].loaded = l,
                                                ![t].tell = KeyOrder]
            BY <1>2 DEF ReloadRead
        <3> QED BY <1>t, <1>2, <3>1 DEF ReloadRead, At, ThreadState, storage
    <2>2. \A p \in Procs : Unsaved(p)' = Unsaved(p)
        BY <2>1 DEF Unsaved
    <2>3. \A u \in Threads : Publishing(u)' = Publishing(u) /\ (Publishing(u) => thread'[u] = thread[u])
        BY <2>1 DEF Publishing
    <2>4. BodyInv' /\ DiskInv'
        BY <1>o, <2>1, <2>2, <2>3 DEF SettledInv, BodyInv, DiskInv
    <2> QED BY <2>4 DEF SettledInv
\* A process starts with no thread in a call.
<1>3. ASSUME NEW p \in Procs, Open(p)
      PROVE  SettledInv'
    <2>1. /\ ~alive[p] /\ saved'[p] # "ok"
          /\ \A q \in Procs : q # p => /\ mem'[q] = mem[q] /\ saved'[q] = saved[q]
                                       /\ alive'[q] = alive[q]
          /\ UNCHANGED <<thread, has_path, file>>
        BY <1>t, <1>3 DEF Open, storage
    <2>2. \A u \in Threads : Owner[u] = p => thread[u].pc = "idle"
        BY <1>t, <2>1, IdleFits DEF SaveInv
    <2>3. \A q \in Procs : Unsaved(q)' = Unsaved(q)
        BY <2>1 DEF Unsaved
    <2>4. \A u \in Threads : /\ Publishing(u)' = Publishing(u)
                             /\ Publishing(u) => Owner[u] # p
        BY <2>1, <2>2 DEF Publishing
    <2>5. BodyInv' /\ DiskInv'
        BY <1>o, <2>1, <2>3, <2>4 DEF SettledInv, BodyInv, DiskInv
    <2> QED BY <2>5 DEF SettledInv
<1>4. ASSUME NEW p \in Procs, Crash(p)
      PROVE  SettledInv'
    <2>1. /\ ~alive'[p] /\ \A q \in Procs : q # p => /\ alive'[q] = alive[q]
                                                     /\ has_path'[q] = has_path[q]
          /\ \A u \in Threads : thread'[u] = IF Owner[u] = p THEN Idle ELSE thread[u]
          /\ UNCHANGED <<mem, saved, file>>
        BY <1>t, <1>4 DEF Crash, storage
    <2>2. \A q \in Procs : q # p => Unsaved(q)' = Unsaved(q)
        BY <2>1 DEF Unsaved
    <2>3. \A u \in Threads : /\ Owner[u] = p => ~Publishing(u)'
                             /\ Owner[u] # p => thread'[u] = thread[u] /\ Publishing(u)' = Publishing(u)
        BY <2>1, IdleFits DEF Publishing
    <2>4. BodyInv' /\ DiskInv'
        BY <1>o, <2>1, <2>2, <2>3 DEF SettledInv, BodyInv, DiskInv
    <2> QED BY <2>4 DEF SettledInv
\* What nobody but the saver did to the file is remembered.
<1>5. CASE \/ \E p \in Procs, on \in BOOLEAN : set_path(p, on)
           \/ UserEdits \/ Tick \/ UNCHANGED vars
    <2>1. /\ UNCHANGED <<mem, thread, alive>>
          /\ \A q \in Procs : saved'[q] = "ok" =>
                saved[q] = "ok" /\ has_path'[q] = has_path[q] /\ file' = file
        BY <1>t, <1>5 DEF set_path, UserEdits, Tick, vars, storage
    <2>2. \A q \in Procs : Unsaved(q)' = Unsaved(q)
        BY <2>1 DEF Unsaved
    <2>3. \A u \in Threads : Publishing(u)' = Publishing(u)
        BY <2>1 DEF Publishing
    <2>4. BodyInv' /\ DiskInv'
        BY <1>o, <2>1, <2>2, <2>3 DEF SettledInv, BodyInv, DiskInv
    <2> QED BY <2>4 DEF SettledInv
<1>6. ASSUME NEW t \in Threads, Call(t)
      PROVE  SettledInv'
    BY <1>1, <1>2, <1>6 DEF Call, set_value, reset, reset_all
<1> QED BY <1>3, <1>4, <1>5, <1>6, SettledThread DEF Next

\* The file of a process at rest holds what is in memory, whatever order its
\* threads changed and saved in, as long as a reload is called alone: persist
\* serializes under the lock it publishes under.
THEOREM SettledCorrect ==
    ASSUME ~ReloadMayOverlap
    PROVE  Spec => []SettledOnDisk
<1>1. Init => SettledInv
    BY IdleFits DEF Init, SettledInv, BodyInv, DiskInv, Publishing
<1>2. SettledInv => SettledOnDisk
    <2>1. ASSUME NEW p \in Procs, Resting(p)
          PROVE  ~Unsaved(p) /\ \A t \in Threads : Owner[t] = p => ~Publishing(t)
        BY <2>1 DEF Resting, Unsaved, Publishing
    <2> QED BY <2>1 DEF SettledInv, DiskInv, SettledOnDisk, Resting
<1> QED BY <1>1, <1>2, AloneInit, AloneStep, SettledStep, TypeInductive, PTL DEF Spec

-----------------------------------------------------------------------------
(* An unusable file is kept *)

\* A thread with the file unmoved and still wanted may go on, and the guard of
\* its process stands: the step leaves files and backups, does not pass the
\* point where the file is moved aside, and does not lose the degraded flag.
LEMMA GuardMoves ==
    ASSUME \A p, q \in Procs : p = q, Owner \in [Threads -> Procs],
           BrokenInv, NEW t \in Threads, UNCHANGED <<file, backups, warned, alive, degraded>>,
           \A u \in Threads : u # t => thread'[u] = thread[u],
           thread'[t].pc \notin {"create", "fill", "publish", "finish", "reload_flag"},
           thread[t].pc # "reload_flag"
    PROVE  BrokenInv'
<1>1. \A c : Kept(c)' = Kept(c)
    BY DEF Kept
<1>2. \A p \in Procs : Guarded(p) => Guarded(p)'
    BY DEF Guarded
<1> QED BY <1>1, <1>2 DEF BrokenInv

\* A save past that point finds everything unusable under a backup name.
LEMMA PastBackup ==
    ASSUME BrokenInv, NEW t \in Threads, Owner[t] \in Procs, alive[Owner[t]],
           thread[t].pc \in {"create", "fill", "publish", "finish"},
           UNCHANGED <<backups, warned>>
    PROVE  BrokenInv'
<1>1. ~Guarded(Owner[t])
    BY DEF Guarded
<1>2. \A c : Kept(c)' = Kept(c)
    BY DEF Kept
<1> QED BY <1>1, <1>2 DEF BrokenInv

\* The step that moves the file aside, or passes by because it need not.
LEMMA BrokenBackup ==
    ASSUME ~SameSecond, TypeInv, AloneInv, BrokenInv, NEW t \in Threads, Backup(t)
    PROVE  BrokenInv'
<1>o. Owner[t] \in Procs
    BY StoreAssumption
<1>t. /\ backups \in [0 .. MaxClock -> FitPublished] /\ clock \in 0 .. MaxClock
      /\ warned \subseteq FitContents /\ Absent \notin FitContents
    BY ContentKinds DEF TypeInv, DiskType
<1>a. alive[Owner[t]] /\ thread[t].pc = "backup" /\ warned' = warned
    BY DEF Backup, At
<1>1. CASE NeedsBackup(Owner[t])
    <2>1. backups[clock] = Absent /\ backups' = [backups EXCEPT ![clock] = file]
        BY <1>1 DEF Backup
    <2>2. \A c \in warned : Kept(c) => Kept(c)'
        <3>1. \A s \in 0 .. MaxClock : backups[s] \in warned => backups'[s] = backups[s]
            BY <1>t, <2>1
        <3> QED BY <1>t, <2>1, <3>1 DEF Kept
    <2>3. \A c : c = file => Kept(c)'
        <3>1. clock \in DOMAIN backups' /\ backups'[clock] = file
            BY <1>t, <2>1
        <3>2. \A c : c = file => \E s \in DOMAIN backups' : backups'[s] = c
            BY <3>1
        <3> QED BY <3>2 DEF Kept
    <2>4. \A c \in warned : Kept(c)'
        BY <2>2, <2>3 DEF BrokenInv
    <2> QED BY <1>a, <2>4 DEF BrokenInv
\* A degraded process moves every file aside, and Guarded means degraded here:
\* a reload would be alone.
<1>2. CASE ~NeedsBackup(Owner[t])
    <2>1. backups' = backups /\ file' = file
        BY <1>2 DEF Backup
    <2>2. \A c : Kept(c)' = Kept(c)
        BY <2>1 DEF Kept
    <2>3. \A u \in Threads : Owner[u] = Owner[t] => thread[u].pc # "reload_flag"
        BY <1>a DEF AloneInv, Reloading
    <2>4. Absent \notin warned
        BY <1>t
    <2>5. \A c \in warned : Kept(c)
        <3>1. ASSUME NEW c \in warned, ~Kept(c)
              PROVE  FALSE
            <4>1. c = file /\ Guarded(Owner[t])
                BY <1>o, <1>a, <3>1 DEF BrokenInv
            <4>2. degraded[Owner[t]]
                BY <2>3, <4>1 DEF Guarded
            <4> QED BY <1>2, <2>4, <4>1, <4>2 DEF NeedsBackup
        <3> QED BY <3>1
    <2> QED BY <1>a, <2>2, <2>5 DEF BrokenInv
<1> QED BY <1>1, <1>2

\* The steps of a call, in a program that is alone with its file.
LEMMA BrokenThread ==
    ASSUME \A p, q \in Procs : p = q, ~SameSecond,
           TypeInv, AloneInv, BrokenInv, NEW t \in Threads, Step(t) \/ Fault(t)
    PROVE  BrokenInv'
<1>o. Owner[t] \in Procs /\ Owner \in [Threads -> Procs]
    BY StoreAssumption
<1>t. thread \in [Threads -> ThreadState] /\ degraded \in [Procs -> BOOLEAN]
    BY DEF TypeInv, ProcessType
<1>1. CASE BeginSave(t) \/ SkipSave(t) \/ notify(t) \/ Return(t) \/ ReloadData(t) \/ BackupFails(t)
    <2>1. /\ \A u \in Threads : u # t => thread'[u] = thread[u]
          /\ thread'[t].pc \in {"backup", "notify", "idle"}
          /\ thread[t].pc \in {"persist", "backup", "notify", "reload_data"}
          /\ UNCHANGED <<file, backups, warned, alive, degraded>>
        BY <1>t, <1>1, IdleFits DEF BeginSave, SkipSave, notify, Return, ReloadData, BackupFails,
           GiveUpSave, Goto, At, ThreadState, storage
    <2> QED BY <1>o, <2>1, GuardMoves
<1>2. CASE CreateTmp(t) \/ FillTmp(t) \/ Publish(t) \/ FinishSave(t) \/ SaveFails(t)
    <2>1. /\ alive[Owner[t]] /\ thread[t].pc \in {"create", "fill", "publish", "finish"}
          /\ UNCHANGED <<backups, warned>>
        BY <1>2 DEF CreateTmp, FillTmp, Publish, FinishSave, SaveFails, GiveUpSave, At, storage
    <2> QED BY <1>o, <2>1, PastBackup
<1>3. CASE ReloadFlag(t)
    <2>1. /\ alive' = alive /\ alive[Owner[t]] /\ file' = file /\ backups' = backups /\ warned' = warned
          /\ \A u \in Threads : u # t => thread'[u] = thread[u]
          /\ thread[t].pc = "reload_flag" /\ thread'[t].pc = "reload_data"
          /\ degraded'[Owner[t]] = thread[t].loaded.bad
        BY <1>o, <1>t, <1>3 DEF ReloadFlag, Goto, At, ThreadState, storage
    <2>2. \A c : Kept(c)' = Kept(c)
        BY <2>1 DEF Kept
    <2>3. Guarded(Owner[t]) => Guarded(Owner[t])'
        <3>1. Guarded(Owner[t]) => degraded'[Owner[t]]
            BY <2>1 DEF Guarded
        <3>2. Guarded(Owner[t]) =>
                \A u \in Threads : Owner[u] = Owner[t] =>
                    /\ thread'[u].pc \notin {"create", "fill", "publish", "finish"}
                    /\ thread'[u].pc = "reload_flag" => thread'[u].loaded.bad
            BY <2>1 DEF Guarded
        <3> QED BY <3>1, <3>2 DEF Guarded
    <2> QED BY <1>o, <2>1, <2>2, <2>3 DEF BrokenInv
<1> QED BY <1>1, <1>2, <1>3, BrokenBackup DEF Step, Fault

\* The rest: calls, the process, the user.
LEMMA BrokenStep ==
    ASSUME \A p, q \in Procs : p = q, ~ReloadMayOverlap, ~SameSecond
    PROVE  TypeInv /\ AloneInv /\ BrokenInv /\ [Next]_vars => BrokenInv'
<1> SUFFICES ASSUME TypeInv, AloneInv, BrokenInv, [Next]_vars PROVE BrokenInv'
    OBVIOUS
<1>o. Owner \in [Threads -> Procs]
    BY StoreAssumption
<1>t. /\ thread \in [Threads -> ThreadState] /\ SaveInv
      /\ alive \in [Procs -> BOOLEAN] /\ degraded \in [Procs -> BOOLEAN]
      /\ file \in FitPublished
    BY DEF TypeInv, ProcessType, DiskType
\* A load that finds the file unusable leaves its process on guard; one that
\* does not takes the file off the list.
<1>1. ASSUME NEW p \in Procs, NEW loaded \in Load, UNCHANGED <<file, backups>>,
             warned' = (IF loaded.bad THEN warned \cup {file} ELSE warned \ {file}),
             loaded.bad => Guarded(p)'
      PROVE  BrokenInv'
    <2>1. \A c : Kept(c)' = Kept(c)
        BY <1>1 DEF Kept
    <2>2. loaded.bad => \A q \in Procs : Guarded(q)'
        BY <1>1
    <2> QED BY <1>1, <2>1, <2>2 DEF BrokenInv
<1>2. ASSUME NEW p \in Procs, Open(p)
      PROVE  BrokenInv'
    <2>1. PICK readable \in BOOLEAN :
            LET loaded == read_settings_at(file, readable)
            IN  /\ ~alive[p]
                /\ degraded' = [degraded EXCEPT ![p] = loaded.bad]
                /\ warned' = IF loaded.bad THEN warned \cup {file} ELSE warned \ {file}
                /\ UNCHANGED <<thread, file, backups>>
        BY <1>2 DEF Open, storage
    <2> DEFINE loaded == read_settings_at(file, readable)
    <2>2. loaded \in Load
        BY <1>t, LoadFits
    <2>3. loaded.bad => Guarded(p)'
        <3>1. \A u \in Threads : Owner[u] = p => thread'[u].pc = "idle"
            BY <1>t, <2>1, IdleFits DEF SaveInv
        <3>2. degraded'[p] = loaded.bad
            BY <1>t, <2>1
        <3> QED BY <3>1, <3>2 DEF Guarded
    <2> HIDE DEF loaded
    <2> QED BY <1>1, <2>1, <2>2, <2>3 DEF loaded
<1>3. ASSUME NEW t \in Threads, ReloadRead(t)
      PROVE  BrokenInv'
    <2>1. PICK readable \in BOOLEAN :
            LET loaded == read_settings_at(IF has_path[Owner[t]] THEN file ELSE Absent, readable)
            IN  /\ \A u \in Threads : Owner[u] = Owner[t] => thread[u].pc = "idle"
                /\ thread' = [thread EXCEPT ![t].pc = "reload_flag", ![t].loaded = loaded,
                                            ![t].tell = KeyOrder]
                /\ warned' = IF loaded.bad THEN warned \cup {file} ELSE warned \ {file}
                /\ UNCHANGED <<file, backups>>
        BY <1>3 DEF ReloadRead, storage
    <2> DEFINE loaded == read_settings_at(IF has_path[Owner[t]] THEN file ELSE Absent, readable)
    <2>2. loaded \in Load
        <3>1. Absent \in FitPublished
            BY DEF FitPublished
        <3> QED BY <1>t, <3>1, LoadFits
    <2> HIDE DEF loaded
    <2>3. loaded.bad => Guarded(Owner[t])'
        <3>1. /\ thread'[t].pc = "reload_flag" /\ thread'[t].loaded = loaded
              /\ \A u \in Threads : u # t => thread'[u] = thread[u]
            BY <1>t, <2>1 DEF ThreadState, loaded
        <3> QED BY <2>1, <3>1 DEF Guarded
    <2>4. Owner[t] \in Procs
        BY <1>o
    <2> QED BY <1>1, <2>1, <2>2, <2>3, <2>4 DEF loaded
<1>4. ASSUME NEW t \in Threads, NEW data, NEW tell, Assign(t, data, tell)
      PROVE  BrokenInv'
    <2>1. /\ \A u \in Threads : u # t => thread'[u] = thread[u]
          /\ thread'[t].pc = "persist" /\ thread[t].pc = "idle"
          /\ UNCHANGED <<file, backups, warned, alive, degraded>>
        BY <1>t, <1>4 DEF Assign, At, ThreadState, storage
    <2> QED BY <1>o, <2>1, GuardMoves
<1>5. ASSUME NEW p \in Procs, Crash(p)
      PROVE  BrokenInv'
    <2>1. \A q \in Procs : ~alive'[q]
        BY <1>t, <1>5 DEF Crash
    <2>2. \A c : Kept(c)' = Kept(c)
        BY <1>5 DEF Crash, Kept, storage
    <2> QED BY <1>5, <2>1, <2>2 DEF BrokenInv, Crash, storage
<1>6. CASE UserEdits
    <2>1. backups' = backups /\ warned' = warned \ {file}
        BY <1>6 DEF UserEdits
    <2>2. \A c : Kept(c)' = Kept(c)
        BY <2>1 DEF Kept
    <2> QED BY <2>1, <2>2 DEF BrokenInv
<1>7. CASE \/ \E p \in Procs, on \in BOOLEAN : set_path(p, on)
           \/ Tick \/ UNCHANGED vars
    <2>1. UNCHANGED <<file, backups, warned, alive, degraded, thread>>
        BY <1>7 DEF set_path, Tick, vars, storage
    <2> QED BY <2>1 DEF BrokenInv, Kept, Guarded
<1>8. ASSUME NEW t \in Threads, Call(t)
      PROVE  BrokenInv'
    BY <1>3, <1>4, <1>8 DEF Call, set_value, reset, reset_all
<1> QED BY <1>2, <1>5, <1>6, <1>7, <1>8, BrokenThread DEF Next

\* A file the program could not use is never lost, whatever it saves, fails
\* to save, reloads or crashes in: true of a program alone with its file that
\* calls reload alone and moves no two files aside within one second.
THEOREM BrokenCorrect ==
    ASSUME \A p, q \in Procs : p = q, ~ReloadMayOverlap, ~SameSecond
    PROVE  Spec => []BrokenKept
<1>1. Init => BrokenInv
    BY DEF Init, BrokenInv
<1>2. BrokenInv => BrokenKept
    BY DEF BrokenInv, BrokenKept, Kept
<1> QED BY <1>1, <1>2, AloneInit, AloneStep, BrokenStep, TypeInductive, PTL DEF Spec

=============================================================================
