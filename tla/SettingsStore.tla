--------------------------- MODULE SettingsStore ---------------------------
(***************************************************************************)
(* The settings API (settings/api.rs, settings/data.rs): an in-memory map  *)
(* behind a lock, a file that is replaced by writing a temporary one and   *)
(* renaming it, listeners, and the degraded mode entered when the file     *)
(* could not be read.  Several threads of a process share one SettingsApi; *)
(* several processes (the desktop program, the command line) share the     *)
(* file.  An action is what a thread does between two points at which      *)
(* another thread, another process or a crash may come in.                 *)
(***************************************************************************)
EXTENDS SettingsSchema, FiniteSets

CONSTANTS
    Procs,       \* processes that open the file
    Threads,     \* threads that call the API
    Owner,       \* the process of each thread
    KeyOrder,    \* the settings the run looks at, in the order of SettingKey::all
    Values,      \* what is passed to set_str, and written by hand
    ReloadMayOverlap,   \* FALSE: as its callers do, reload is called alone
    SameSecond,         \* FALSE: no two files are moved aside within a second
    Nobody,      \* no thread
    MaxCalls, MaxEdits, MaxFaults, MaxCrashes, MaxClock   \* bounds of the runs

VARIABLES
    mem,         \* the AppSettings of each process
    degraded,    \* the file could not be read or parsed when last loaded
    has_path,    \* FALSE: in-memory only
    lock,        \* persist_lock: the thread that holds it
    thread,      \* where each thread stands
    alive,       \* the process runs
    listener,    \* what a listener of the process read when last notified
    file,        \* what is at config.toml
    tmp,         \* what is at config.toml.tmp.<pid>
    backups,     \* what is at config.toml.broken-<seconds>
    clock,       \* in seconds
    warned,      \* history: unusable contents some load has met, and neither
                 \* replaced by the user nor taken off by a later clean load
    saved,       \* history: how the last save of the process ended
    used         \* what the bounds have left behind

storage == <<file, tmp, backups>>
vars == <<mem, degraded, has_path, lock, thread, alive, listener, storage,
          clock, warned, saved, used>>

Keys == {KeyOrder[i] : i \in DOMAIN KeyOrder}
SettingsMap == [Keys -> Values \cup {NoValue}]
AllUnset == [k \in Keys |-> NoValue]

Toml(data) == [kind |-> "toml", data |-> data]
Broken(n) == [kind |-> "broken", n |-> n]
Absent == [kind |-> "absent"]
HalfWritten == [kind |-> "partial"]
Contents == {Toml(d) : d \in SettingsMap} \cup {Broken(n) : n \in 0 .. MaxEdits}
Published == Contents \cup {Absent}

ASSUME StoreAssumption ==
    /\ Owner \in [Threads -> Procs]
    /\ KeyOrder \in Seq(SettingKey)
    /\ NoValue \notin Values /\ Nobody \notin Threads
    /\ Values \subseteq Nat
    /\ {ReloadMayOverlap, SameSecond} \subseteq BOOLEAN
    /\ {MaxCalls, MaxEdits, MaxFaults, MaxCrashes, MaxClock} \subseteq Nat

-----------------------------------------------------------------------------

\* read_settings_at: a missing file is a first run, anything unusable gives
\* the defaults and the degraded flag.
read_settings_at(content, readable) ==
    IF content.kind = "absent" THEN [data |-> AllUnset, bad |-> FALSE]
    ELSE IF readable /\ content.kind = "toml"
      THEN [data |-> content.data, bad |-> FALSE]
      ELSE [data |-> AllUnset, bad |-> TRUE]

Idle == [pc |-> "idle", body |-> AllUnset, loaded |-> [data |-> AllUnset, bad |-> FALSE],
         tell |-> <<>>]

At(t, where) == thread[t].pc = where /\ alive[Owner[t]]
Reloading(t) == thread[t].pc \in {"reload_flag", "reload_data"}
Goto(t, where) == thread' = [thread EXCEPT ![t].pc = where]

Spend(what) == used' = [used EXCEPT ![what] = @ + 1]
CanSpend(what, max) == used[what] < max

-----------------------------------------------------------------------------
Init ==
    /\ mem = [p \in Procs |-> AllUnset]
    /\ degraded = [p \in Procs |-> FALSE]
    /\ has_path = [p \in Procs |-> TRUE]
    /\ lock = [p \in Procs |-> Nobody]
    /\ thread = [t \in Threads |-> Idle]
    /\ alive = [p \in Procs |-> FALSE]
    /\ listener = [p \in Procs |-> [k \in Keys |-> get(k, NoValue)]]
    /\ file \in {Absent, Broken(0)}
    /\ tmp = [p \in Procs |-> Absent]
    /\ backups = [s \in 0 .. MaxClock |-> Absent]
    /\ clock = 0
    /\ warned = {}
    /\ saved = [p \in Procs |-> "nothing"]
    /\ used = [calls |-> 0, edits |-> 0, faults |-> 0, crashes |-> 0]

\* open_at: load, then hand the values to whoever starts with them.
Open(p) ==
    \E readable \in BOOLEAN :
        LET loaded == read_settings_at(file, readable)
        IN  /\ ~alive[p]
            /\ readable \/ CanSpend("faults", MaxFaults)
            /\ alive' = [alive EXCEPT ![p] = TRUE]
            /\ mem' = [mem EXCEPT ![p] = loaded.data]
            /\ degraded' = [degraded EXCEPT ![p] = loaded.bad]
            /\ listener' = [listener EXCEPT ![p] =
                               [k \in Keys |-> get(k, loaded.data[k])]]
            /\ warned' = IF loaded.bad THEN warned \cup {file} ELSE warned \ {file}
            /\ saved' = [saved EXCEPT ![p] = "nothing"]
            /\ used' = IF readable THEN used ELSE [used EXCEPT !.faults = @ + 1]
            /\ UNCHANGED <<has_path, lock, thread, storage, clock>>

\* set_path: later saves and reloads use it, nothing is read now.
set_path(p, on) ==
    /\ alive[p] /\ has_path[p] # on
    /\ CanSpend("calls", MaxCalls) /\ Spend("calls")
    /\ has_path' = [has_path EXCEPT ![p] = on]
    /\ saved' = [saved EXCEPT ![p] = "nothing"]
    /\ UNCHANGED <<mem, degraded, lock, thread, alive, listener, storage, clock, warned>>

-----------------------------------------------------------------------------
(* Setters *)

\* The new map is visible before it is saved.
Assign(t, data, tell) ==
    /\ At(t, "idle")
    /\ ReloadMayOverlap \/ ~\E u \in Threads : Owner[u] = Owner[t] /\ Reloading(u)
    /\ CanSpend("calls", MaxCalls) /\ Spend("calls")
    /\ mem' = [mem EXCEPT ![Owner[t]] = data]
    /\ thread' = [thread EXCEPT ![t].pc = "persist", ![t].tell = tell]
    /\ UNCHANGED <<degraded, has_path, lock, alive, listener, storage, clock, warned, saved>>

\* set_str and the typed setters; a value they refuse changes nothing.
set_value(t, k, v) ==
    /\ set_str(k, v).ok
    /\ Assign(t, [mem[Owner[t]] EXCEPT ![k] = set_str(k, v).raw], <<k>>)

reset(t, k) == Assign(t, [mem[Owner[t]] EXCEPT ![k] = NoValue], <<k>>)

reset_all(t) == Assign(t, AllUnset, KeyOrder)

-----------------------------------------------------------------------------
(* persist *)

\* A save that ends early: the temporary file, if this save wrote one, is
\* removed and the lock released.
GiveUpSave(t) ==
    LET p == Owner[t]
    IN  /\ CanSpend("faults", MaxFaults) /\ Spend("faults")
        /\ lock' = [lock EXCEPT ![p] = Nobody]
        /\ tmp' = IF thread[t].pc = "backup" THEN tmp ELSE [tmp EXCEPT ![p] = Absent]
        /\ saved' = [saved EXCEPT ![p] = "failed"]
        /\ Goto(t, "notify")
        /\ UNCHANGED <<mem, degraded, has_path, alive, listener, file, backups, clock, warned>>

\* A slip: a thread that finds the lock taken leaves the saving to its holder.
BeginSave_TryLock(t) ==
    LET p == Owner[t]
    IN  /\ At(t, "persist") /\ has_path[p]
        /\ IF lock[p] = Nobody
             THEN /\ lock' = [lock EXCEPT ![p] = t]
                  /\ thread' = [thread EXCEPT ![t].pc = "backup", ![t].body = mem[p]]
             ELSE Goto(t, "notify") /\ UNCHANGED lock
        /\ UNCHANGED <<mem, degraded, has_path, alive, listener, storage, clock,
                       warned, saved, used>>

\* The lock is taken and the map serialized under it.
BeginSave(t) ==
    LET p == Owner[t]
    IN  /\ At(t, "persist") /\ has_path[p] /\ lock[p] = Nobody
        /\ lock' = [lock EXCEPT ![p] = t]
        /\ thread' = [thread EXCEPT ![t].pc = "backup", ![t].body = mem[p]]
        /\ UNCHANGED <<mem, degraded, has_path, alive, listener, storage, clock,
                       warned, saved, used>>

SkipSave(t) ==
    /\ At(t, "persist") /\ ~has_path[Owner[t]] /\ lock[Owner[t]] = Nobody
    /\ Goto(t, "notify")
    /\ UNCHANGED <<mem, degraded, has_path, lock, alive, listener, storage, clock,
                   warned, saved, used>>

\* A slip: the file is never moved aside.
NeedsBackup_Never(p) == FALSE

NeedsBackup(p) == degraded[p] /\ file # Absent

\* The unusable file is moved aside under a name that ends in the second.
Backup(t) ==
    /\ At(t, "backup")
    /\ Goto(t, "create")
    /\ IF NeedsBackup(Owner[t])
         THEN /\ SameSecond \/ backups[clock] = Absent
              /\ backups' = [backups EXCEPT ![clock] = file] /\ file' = Absent
              /\ saved' = [q \in Procs |-> IF q = Owner[t] THEN saved[q] ELSE "overtaken"]
         ELSE UNCHANGED <<backups, file, saved>>
    /\ UNCHANGED <<mem, degraded, has_path, lock, alive, listener, tmp, clock,
                   warned, used>>

\* The directory cannot be made, or the unusable file not moved: nothing on
\* disk has changed.
BackupFails(t) ==
    /\ At(t, "backup")
    /\ GiveUpSave(t)

CreateTmp(t) ==
    /\ At(t, "create")
    /\ tmp' = [tmp EXCEPT ![Owner[t]] = HalfWritten]
    /\ Goto(t, "fill")
    /\ UNCHANGED <<mem, degraded, has_path, lock, alive, listener, file, backups,
                   clock, warned, saved, used>>

\* write_all and sync_all.
FillTmp(t) ==
    /\ At(t, "fill")
    /\ tmp' = [tmp EXCEPT ![Owner[t]] = Toml(thread[t].body)]
    /\ Goto(t, "publish")
    /\ UNCHANGED <<mem, degraded, has_path, lock, alive, listener, file, backups,
                   clock, warned, saved, used>>

SaveFails(t) ==
    /\ At(t, "create") \/ At(t, "fill") \/ At(t, "publish")
    /\ GiveUpSave(t)

\* rename(tmp, path): whatever is at the temporary name becomes the file.
Publish(t) ==
    LET p == Owner[t]
    IN  /\ At(t, "publish") /\ tmp[p] # Absent
        /\ file' = tmp[p]
        /\ tmp' = [tmp EXCEPT ![p] = Absent]
        /\ saved' = [q \in Procs |-> IF q = p THEN "ok" ELSE "overtaken"]
        /\ Goto(t, "finish")
        /\ UNCHANGED <<mem, degraded, has_path, lock, alive, listener, backups,
                       clock, warned, used>>

\* The degraded mode is over; the lock is released.
FinishSave(t) ==
    LET p == Owner[t]
    IN  /\ At(t, "finish")
        /\ degraded' = [degraded EXCEPT ![p] = FALSE]
        /\ lock' = [lock EXCEPT ![p] = Nobody]
        /\ Goto(t, "notify")
        /\ UNCHANGED <<mem, has_path, alive, listener, storage, clock, warned,
                       saved, used>>

-----------------------------------------------------------------------------
(* Listeners *)
\* A slip: the listener is handed the value the setter saved.
Heard_Saved(t, k) == get(k, thread[t].body[k])

\* on_change is called with no lock held and may read the API.
Heard(t, k) == get(k, mem[Owner[t]][k])

notify(t) ==
    LET p == Owner[t]
        k == Head(thread[t].tell)
    IN  /\ At(t, "notify") /\ thread[t].tell # <<>>
        /\ listener' = [listener EXCEPT ![p][k] = Heard(t, k)]
        /\ thread' = [thread EXCEPT ![t].tell = Tail(@)]
        /\ UNCHANGED <<mem, degraded, has_path, lock, alive, storage, clock,
                       warned, saved, used>>

Return(t) ==
    /\ At(t, "notify") /\ thread[t].tell = <<>>
    /\ thread' = [thread EXCEPT ![t] = Idle]
    /\ UNCHANGED <<mem, degraded, has_path, lock, alive, listener, storage, clock,
                   warned, saved, used>>

-----------------------------------------------------------------------------
(* reload: read, then the flag, then the map, then the listeners; no lock *)
(* spans the steps. *)

ReloadRead(t) ==
    \E readable \in BOOLEAN :
        LET p == Owner[t]
            loaded == read_settings_at(IF has_path[p] THEN file ELSE Absent, readable)
        IN  /\ At(t, "idle") /\ CanSpend("calls", MaxCalls)
            /\ ReloadMayOverlap \/ \A u \in Threads : Owner[u] = p => thread[u].pc = "idle"
            /\ readable \/ CanSpend("faults", MaxFaults)
            /\ used' = [used EXCEPT !.calls = @ + 1,
                                    !.faults = IF readable THEN @ ELSE @ + 1]
            /\ thread' = [thread EXCEPT ![t].pc = "reload_flag", ![t].loaded = loaded,
                                        ![t].tell = KeyOrder]
            /\ warned' = IF loaded.bad THEN warned \cup {file} ELSE warned \ {file}
            /\ UNCHANGED <<mem, degraded, has_path, lock, alive, listener, storage,
                           clock, saved>>

ReloadFlag(t) ==
    /\ At(t, "reload_flag")
    /\ degraded' = [degraded EXCEPT ![Owner[t]] = thread[t].loaded.bad]
    /\ Goto(t, "reload_data")
    /\ UNCHANGED <<mem, has_path, lock, alive, listener, storage, clock, warned,
                   saved, used>>

ReloadData(t) ==
    /\ At(t, "reload_data")
    /\ mem' = [mem EXCEPT ![Owner[t]] = thread[t].loaded.data]
    /\ saved' = [saved EXCEPT ![Owner[t]] = "nothing"]
    /\ Goto(t, "notify")
    /\ UNCHANGED <<degraded, has_path, lock, alive, listener, storage, clock,
                   warned, used>>

-----------------------------------------------------------------------------
(* The world *)

\* A process ends anywhere; what it wrote stays, the rest is gone.
Crash(p) ==
    /\ alive[p] /\ CanSpend("crashes", MaxCrashes) /\ Spend("crashes")
    /\ alive' = [alive EXCEPT ![p] = FALSE]
    /\ lock' = [lock EXCEPT ![p] = Nobody]
    /\ thread' = [t \in Threads |-> IF Owner[t] = p THEN Idle ELSE thread[t]]
    /\ has_path' = [has_path EXCEPT ![p] = TRUE]
    /\ UNCHANGED <<mem, degraded, listener, storage, clock, warned, saved>>

\* The user saves the file in an editor: something unusable, or values of
\* any kind.  It takes a second, and no save is under way.
UserEdits ==
    /\ CanSpend("edits", MaxEdits) /\ Spend("edits")
    /\ \A p \in Procs : lock[p] = Nobody
    /\ clock < MaxClock /\ clock' = clock + 1
    /\ file' \in {Broken(used.edits + 1)} \cup
                 {Toml([k \in Keys |-> v]) : v \in {w \in Values : \A k \in Keys : FieldFits(k, w)}}
    /\ warned' = warned \ {file}
    /\ saved' = [p \in Procs |-> "overtaken"]
    /\ UNCHANGED <<mem, degraded, has_path, lock, thread, alive, listener, tmp,
                   backups>>

Tick ==
    /\ clock < MaxClock /\ clock' = clock + 1
    /\ UNCHANGED <<mem, degraded, has_path, lock, thread, alive, listener, storage,
                   warned, saved, used>>

Call(t) ==
    \/ \E k \in Keys, v \in Values : set_value(t, k, v)
    \/ \E k \in Keys : reset(t, k)
    \/ reset_all(t)
    \/ ReloadRead(t)

Step(t) ==
    \/ BeginSave(t) \/ SkipSave(t) \/ Backup(t) \/ CreateTmp(t) \/ FillTmp(t)
    \/ Publish(t) \/ FinishSave(t) \/ notify(t) \/ Return(t)
    \/ ReloadFlag(t) \/ ReloadData(t)

Fault(t) == BackupFails(t) \/ SaveFails(t)

Next ==
    \/ \E t \in Threads : Call(t) \/ Step(t) \/ Fault(t)
    \/ \E p \in Procs : Open(p) \/ Crash(p) \/ \E on \in BOOLEAN : set_path(p, on)
    \/ UserEdits
    \/ Tick

Spec == Init /\ [][Next]_vars

-----------------------------------------------------------------------------
(* Properties *)

\* Every map holds values of the schema's kind, and neither the file nor a
\* backup is ever a half-written one.
TypeOK ==
    /\ mem \in [Procs -> SettingsMap] /\ \A p \in Procs, k \in Keys : FieldFits(k, mem[p][k])
    /\ degraded \in [Procs -> BOOLEAN]
    /\ has_path \in [Procs -> BOOLEAN]
    /\ lock \in [Procs -> Threads \cup {Nobody}]
    /\ alive \in [Procs -> BOOLEAN]
    /\ file \in Published
    /\ tmp \in [Procs -> Published \cup {HalfWritten}]
    /\ backups \in [0 .. MaxClock -> Published]
    /\ clock \in 0 .. MaxClock
    /\ warned \subseteq Contents

\* A file somebody could not use is never lost: it is still in its place or
\* under a backup name (persist moves it aside before it writes).
BrokenKept ==
    \A c \in warned :
        c = file \/ \E s \in DOMAIN backups : backups[s] = c

Resting(p) == alive[p] /\ \A t \in Threads : Owner[t] = p => thread[t].pc = "idle"

\* When a process with a path is at rest, its last save succeeded and nobody
\* has touched the file since, the file holds exactly what is in memory,
\* whatever order its threads wrote and saved in.
SettledOnDisk ==
    \A p \in Procs :
        Resting(p) /\ has_path[p] /\ saved[p] = "ok" => file = Toml(mem[p])

\* When a process is at rest its listeners have read the current value of
\* every key: no change is left unannounced.
ListenersCurrent ==
    \A p \in Procs :
        Resting(p) => \A k \in Keys : listener[p][k] = get(k, mem[p][k])

=============================================================================
