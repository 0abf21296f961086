----------------------------- MODULE Connection -----------------------------
(***************************************************************************)
(* The connection lifecycle of MeshtasticService (meshtastic/service/      *)
(* mod.rs): callers that connect, disconnect and refresh, the reader task  *)
(* of each connection, the auto-reconnect watcher and the config watchdog. *)
(* They share the transport slot with its generation counter (one lock),   *)
(* the reconnect configuration (another) and the ConnectionState watch     *)
(* channel, which anyone overwrites at any time.  An action is what a task *)
(* does between two awaits that matter to another.                         *)
(*                                                                         *)
(* A transport is named by the generation that installed it.  Opening one, *)
(* every write to it and its inbound stream may fail at any time.  Delays  *)
(* may be over at any time.  Transport::disconnect succeeds, as it does    *)
(* for serial and BLE.                                                     *)
(***************************************************************************)
EXTENDS Integers, FiniteSets

CONSTANTS
    Users,        \* concurrent callers
    Watcher,      \* the auto-reconnect task, a caller of its own
    MaxAttempts,  \* max_attempts of the watcher's BleReconnectPolicy
    MaxCalls,     \* bound: the calls users make
    MaxDrops      \* bound: the links that die and the silences that end one

ASSUME ConnectionAssumption ==
    /\ Watcher \notin Users
    /\ MaxAttempts \in Nat \ {0} /\ MaxCalls \in Nat /\ MaxDrops \in Nat

Callers == Users \cup {Watcher}

VARIABLES
    slot,        \* the installed transport, or NoTransport
    generation,  \* conn_generation
    state,       \* ConnectionState
    reconnect,   \* is a reconnect_config set?
    permit,      \* the stored permit of reconnect_request
    call,        \* caller -> where it is in which call
    conns,       \* transport -> its link and its reader, until the reader exits
    attempts,    \* BleReconnectPolicy.attempts
    last_up,     \* is the watcher's last_connected_at set?
    watchdog,    \* the newest config watchdog: which of its two sleeps it is in
    calls, drops \* counters for the bounds

shared == <<slot, generation, reconnect, conns>>
policy == <<attempts, last_up>>
counters == <<calls, drops>>
vars == <<shared, state, permit, call, policy, watchdog, counters>>

NoTransport == 0

States == {"Disconnected", "Connecting", "Connected", "Configuring", "Ready"}

Doing(at) == [at |-> at, gen |-> NoTransport, prev |-> "Disconnected"]
Goes(c, at) == call' = [call EXCEPT ![c].at = at]
Returns(c) == call' = [call EXCEPT ![c] = Doing("idle")]

IsUp(g) == g \in DOMAIN conns /\ conns[g].link = "up"

\* Transport::disconnect: the stream ends once what it holds is read.
Closed(cs, g) == IF g \in DOMAIN cs THEN [cs EXCEPT ![g].link = "down"] ELSE cs

\* send_want_config goes to whatever transport is installed.
WantConfig(ok) ==
    IF ok THEN IsUp(slot) /\ conns' = [conns EXCEPT ![slot].asked = TRUE]
          ELSE UNCHANGED conns

\* spawn_config_watchdog: older watchdogs find a newer round and exit.
WatchdogArmed == watchdog' = "first"

-----------------------------------------------------------------------------
(* connect_by_address and connect_by_serial_baud, by a user or the watcher *)

UserCalls(u, at) ==
    /\ call[u].at = "idle"
    /\ calls < MaxCalls
    /\ calls' = calls + 1
    /\ call' = [call EXCEPT ![u] =
           [Doing(at) EXCEPT !.prev = IF at = "refresh" THEN state ELSE @]]

connect_by(u) ==
    /\ UserCalls(u, "arm")
    /\ state' = "Connecting"
    /\ UNCHANGED <<shared, permit, policy, watchdog, drops>>

ArmsReconnect(u) ==
    /\ call[u].at = "arm"
    /\ reconnect' = TRUE
    /\ Goes(u, "open")
    /\ UNCHANGED <<slot, generation, conns, state, permit, policy, watchdog, counters>>

OpenFails(c) ==
    /\ call[c].at = "open"
    /\ Goes(c, "failed")
    /\ UNCHANGED <<shared, state, permit, policy, watchdog, counters>>

\* connect_with_transport claims a generation and the slot under one lock,
\* and closes the transport it supersedes.
Installs(c) ==
    LET g == generation + 1
    IN  /\ call[c].at = "open"
        /\ generation' = g
        /\ slot' = g
        /\ conns' = [x \in DOMAIN conns \cup {g} |->
               IF x = g THEN [link |-> "up", reader |-> "unborn", asked |-> FALSE]
                        ELSE Closed(conns, slot)[x]]
        /\ call' = [call EXCEPT ![c].at = "settle", ![c].gen = g]
        /\ UNCHANGED <<reconnect, state, permit, policy, watchdog, counters>>

SpawnsReader(c) ==
    /\ call[c].at = "settle"
    /\ state' = "Connected"
    /\ conns' = [conns EXCEPT ![call[c].gen].reader = "running"]
    /\ Goes(c, "configure")
    /\ UNCHANGED <<slot, generation, reconnect, permit, policy, watchdog, counters>>

Configures(c) ==
    /\ call[c].at = "configure"
    /\ state' = "Configuring"
    /\ Goes(c, "ask")
    /\ UNCHANGED <<shared, permit, policy, watchdog, counters>>

AsksConfig(c) ==
    /\ call[c].at = "ask"
    /\ \/ /\ WantConfig(TRUE)
          /\ WatchdogArmed
          /\ IF c = Watcher THEN Goes(c, "check") ELSE Returns(c)
       \/ /\ WantConfig(FALSE)
          /\ Goes(c, "teardown")
          /\ UNCHANGED watchdog
    /\ UNCHANGED <<slot, generation, reconnect, state, permit, policy, counters>>

\* A slip: the generation moves on but the transport stays in the slot.
teardown_generation_Keeps(c) ==
    /\ call[c].at = "teardown"
    /\ generation' = IF generation = call[c].gen THEN generation + 1 ELSE generation
    /\ Goes(c, "tell")
    /\ UNCHANGED <<slot, conns, reconnect, state, permit, policy, watchdog, counters>>

\* teardown_generation acts on the slot only if no newer connection holds it,
\* and announces the end in any case.
teardown_generation(c) ==
    /\ call[c].at = "teardown"
    /\ IF generation = call[c].gen
         THEN /\ generation' = generation + 1
              /\ slot' = NoTransport
              /\ conns' = Closed(conns, slot)
         ELSE UNCHANGED <<generation, slot, conns>>
    /\ Goes(c, "tell")
    /\ UNCHANGED <<reconnect, state, permit, policy, watchdog, counters>>

TellsTornDown(c) ==
    /\ call[c].at = "tell"
    /\ state' = "Disconnected"
    /\ Goes(c, "failed")
    /\ UNCHANGED <<shared, permit, policy, watchdog, counters>>

ConnectFails(u) ==
    /\ call[u].at = "failed"
    /\ state' = IF state = "Connecting" THEN "Disconnected" ELSE state
    /\ Returns(u)
    /\ UNCHANGED <<shared, permit, policy, watchdog, counters>>

Connect(c) ==
    \/ OpenFails(c) \/ Installs(c) \/ SpawnsReader(c) \/ Configures(c)
    \/ AsksConfig(c) \/ teardown_generation(c) \/ TellsTornDown(c)

-----------------------------------------------------------------------------
(* disconnect and refresh_config *)

disconnect(u) ==
    /\ UserCalls(u, "take")
    /\ reconnect' = FALSE
    /\ UNCHANGED <<slot, generation, conns, state, permit, policy, watchdog, drops>>

TakesSlot(c) ==
    /\ call[c].at = "take"
    /\ generation' = generation + 1
    /\ slot' = NoTransport
    /\ conns' = Closed(conns, slot)
    /\ Goes(c, "bye")
    /\ UNCHANGED <<reconnect, state, permit, policy, watchdog, counters>>

TellsDisconnected(c) ==
    /\ call[c].at = "bye"
    /\ state' = "Disconnected"
    /\ IF c = Watcher THEN Goes(c, "waiting") ELSE Returns(c)
    /\ UNCHANGED <<shared, permit, policy, watchdog, counters>>

refresh_config(u) ==
    /\ UserCalls(u, "refresh")
    /\ state' = "Configuring"
    /\ UNCHANGED <<shared, permit, policy, watchdog, drops>>

\* A failed request restores the state read before it.
Refreshes(u) ==
    /\ call[u].at = "refresh"
    /\ \/ WantConfig(TRUE) /\ WatchdogArmed /\ UNCHANGED state
       \/ WantConfig(FALSE) /\ state' = call[u].prev /\ UNCHANGED watchdog
    /\ Returns(u)
    /\ UNCHANGED <<slot, generation, reconnect, permit, policy, counters>>

-----------------------------------------------------------------------------
(* the reader of one connection *)

Reads(g, at) == g \in DOMAIN conns /\ conns[g].reader = at
ReaderGoes(g, at) == conns' = [conns EXCEPT ![g].reader = at]
ReaderExits(g) == conns' = [x \in DOMAIN conns \ {g} |-> conns[x]]

\* The device vanishes, the port errors, the remote end closes.
LinkDies(g) ==
    /\ IsUp(g)
    /\ drops < MaxDrops
    /\ drops' = drops + 1
    /\ conns' = Closed(conns, g)
    /\ UNCHANGED <<slot, generation, reconnect, state, permit, call, policy, watchdog, calls>>

\* Two probes went unanswered.
SilenceGivesUp(g) ==
    /\ Reads(g, "running")
    /\ drops < MaxDrops
    /\ drops' = drops + 1
    /\ ReaderGoes(g, "broken")
    /\ UNCHANGED <<slot, generation, reconnect, state, permit, call, policy, watchdog, calls>>

\* A probe goes to the installed transport, whichever reader sends it.
Probes(g) ==
    /\ Reads(g, "running")
    /\ \/ WantConfig(TRUE)
       \/ ~IsUp(slot) /\ ReaderGoes(g, "broken")
    /\ UNCHANGED <<slot, generation, reconnect, state, permit, call, policy, watchdog, counters>>

\* ConfigCompleteId: the link may be down by the time it is read.
ConfigComplete(g) ==
    /\ Reads(g, "running")
    /\ conns[g].asked
    /\ state' = "Ready"
    /\ conns' = [conns EXCEPT ![g].asked = FALSE]
    /\ UNCHANGED <<slot, generation, reconnect, permit, call, policy, watchdog, counters>>

StreamEnds(g) ==
    /\ Reads(g, "running")
    /\ ~IsUp(g)
    /\ ReaderGoes(g, "broken")
    /\ UNCHANGED <<slot, generation, reconnect, state, permit, call, policy, watchdog, counters>>

\* A slip: no look at the generation.
ReaderTearsDown_Any(g) ==
    /\ Reads(g, "broken")
    /\ slot' = NoTransport /\ ReaderGoes(g, "cleared")
    /\ UNCHANGED <<generation, reconnect, state, permit, call, policy, watchdog, counters>>

\* Only the reader of the current generation owns the slot.
ReaderTearsDown(g) ==
    /\ Reads(g, "broken")
    /\ IF generation = g
         THEN slot' = NoTransport /\ ReaderGoes(g, "cleared")
         ELSE UNCHANGED slot /\ ReaderExits(g)
    /\ UNCHANGED <<generation, reconnect, state, permit, call, policy, watchdog, counters>>

ReaderTellsDisconnected(g) ==
    /\ Reads(g, "cleared")
    /\ state' = "Disconnected"
    /\ ReaderGoes(g, "retry")
    /\ UNCHANGED <<slot, generation, reconnect, permit, call, policy, watchdog, counters>>

\* A slip: notify_waiters instead of notify_one, which stores no permit.
try_reconnect_Waiters(g) ==
    /\ Reads(g, "retry")
    /\ permit' = (permit \/ (reconnect /\ call[Watcher].at = "waiting"))
    /\ ReaderExits(g)
    /\ UNCHANGED <<slot, generation, reconnect, state, call, policy, watchdog, counters>>

try_reconnect(g) ==
    /\ Reads(g, "retry")
    /\ permit' = (permit \/ reconnect)
    /\ ReaderExits(g)
    /\ UNCHANGED <<slot, generation, reconnect, state, call, policy, watchdog, counters>>

ReaderAdvances(g) ==
    StreamEnds(g) \/ ReaderTearsDown(g) \/ ReaderTellsDisconnected(g) \/ try_reconnect(g)

Reader(g) == SilenceGivesUp(g) \/ Probes(g) \/ ConfigComplete(g) \/ ReaderAdvances(g)

-----------------------------------------------------------------------------
(* the auto-reconnect watcher *)

Watches(at) == call[Watcher].at = at

\* campaign_should_reset: the last connection the watcher made was stable.
WatcherNotified ==
    /\ Watches("waiting")
    /\ permit
    /\ permit' = FALSE
    /\ attempts' \in {attempts} \cup (IF last_up THEN {0} ELSE {})
    /\ last_up' = FALSE
    /\ Goes(Watcher, "retry")
    /\ UNCHANGED <<shared, state, watchdog, counters>>

GivesUp ==
    /\ Watches("retry")
    /\ attempts >= MaxAttempts
    /\ reconnect' = FALSE
    /\ state' = "Disconnected"
    /\ Goes(Watcher, "waiting")
    /\ UNCHANGED <<slot, generation, conns, permit, policy, watchdog, counters>>

\* A slip: the limit is looked at only after the attempt that exceeds it.
WatcherWakes_Late ==
    /\ Watches("retry")
    /\ attempts <= MaxAttempts
    /\ Goes(Watcher, IF reconnect THEN "look" ELSE "waiting")
    /\ UNCHANGED <<shared, state, permit, policy, watchdog, counters>>

\* After the delay it reads the configuration, then the slot.
WatcherWakes ==
    /\ Watches("retry")
    /\ attempts < MaxAttempts
    /\ Goes(Watcher, IF reconnect THEN "look" ELSE "waiting")
    /\ UNCHANGED <<shared, state, permit, policy, watchdog, counters>>

WatcherLooks ==
    /\ Watches("look")
    /\ IF slot # NoTransport
         THEN Goes(Watcher, "waiting") /\ UNCHANGED state
         ELSE Goes(Watcher, "open") /\ state' = "Connecting"
    /\ UNCHANGED <<shared, permit, policy, watchdog, counters>>

WatcherFails ==
    /\ Watches("failed")
    /\ attempts' = attempts + 1
    /\ Goes(Watcher, "retry")
    /\ UNCHANGED <<shared, state, permit, last_up, watchdog, counters>>

\* A slip: no second look at the intent.
WatcherChecks_Never ==
    /\ Watches("check")
    /\ Goes(Watcher, "waiting")
    /\ last_up' = TRUE
    /\ UNCHANGED <<shared, state, permit, attempts, watchdog, counters>>

\* The user may have disconnected while the attempt was in flight.
WatcherChecks ==
    /\ Watches("check")
    /\ IF reconnect THEN Goes(Watcher, "waiting") /\ last_up' = TRUE
                    ELSE Goes(Watcher, "undo") /\ UNCHANGED last_up
    /\ UNCHANGED <<shared, state, permit, attempts, watchdog, counters>>

\* The first step of its own call of disconnect.
WatcherUndoes ==
    /\ Watches("undo")
    /\ reconnect' = FALSE
    /\ Goes(Watcher, "take")
    /\ UNCHANGED <<slot, generation, conns, state, permit, policy, watchdog, counters>>

WatcherStep ==
    \/ WatcherNotified \/ GivesUp \/ WatcherWakes \/ WatcherLooks
    \/ WatcherFails \/ WatcherChecks \/ WatcherUndoes

-----------------------------------------------------------------------------
(* the config watchdog *)

WatchdogRetries ==
    /\ watchdog = "first"
    /\ watchdog' = IF state = "Configuring" THEN "resend" ELSE "none"
    /\ UNCHANGED <<shared, state, permit, call, policy, counters>>

Reverts == state' = IF state = "Configuring" THEN "Connected" ELSE state

WatchdogResends ==
    /\ watchdog = "resend"
    /\ \/ WantConfig(TRUE) /\ watchdog' = "second" /\ UNCHANGED state
       \/ WantConfig(FALSE) /\ watchdog' = "none" /\ Reverts
    /\ UNCHANGED <<slot, generation, reconnect, permit, call, policy, counters>>

WatchdogReverts ==
    /\ watchdog = "second"
    /\ watchdog' = "none"
    /\ Reverts
    /\ UNCHANGED <<shared, permit, call, policy, counters>>

Watchdog == WatchdogRetries \/ WatchdogResends \/ WatchdogReverts

-----------------------------------------------------------------------------
Init ==
    /\ slot = NoTransport /\ generation = 0 /\ conns = <<>>
    /\ state = "Disconnected" /\ watchdog = "none"
    /\ reconnect = FALSE /\ permit = FALSE
    /\ call = [c \in Callers |-> Doing(IF c = Watcher THEN "waiting" ELSE "idle")]
    /\ attempts = 0 /\ last_up = FALSE
    /\ calls = 0 /\ drops = 0

UserStarts == \E u \in Users : connect_by(u) \/ disconnect(u) \/ refresh_config(u)

CallSteps(c) ==
    \/ Connect(c) \/ TakesSlot(c) \/ TellsDisconnected(c)
    \/ c \in Users /\ (ArmsReconnect(c) \/ ConnectFails(c) \/ Refreshes(c))

Next ==
    \/ UserStarts
    \/ \E c \in Callers : CallSteps(c)
    \/ \E g \in DOMAIN conns : LinkDies(g) \/ Reader(g)
    \/ WatcherStep
    \/ Watchdog

\* The runtime runs every task; nobody owes a call, a failure or an answer.
\* Calls and readers are finitely many, so some of them is as good as each.
Fairness ==
    /\ WF_vars(\E c \in Callers : CallSteps(c))
    /\ WF_vars(\E g \in DOMAIN conns : ReaderAdvances(g))
    /\ WF_vars(WatcherStep)

Spec == Init /\ [][Next]_vars
FairSpec == Spec /\ Fairness

-----------------------------------------------------------------------------
(* Properties *)

\* Every variable has the shape its code gives it.
TypeOK ==
    /\ generation \in Nat /\ slot \in 0..generation
    /\ DOMAIN conns \subseteq 1..generation
    /\ \A g \in DOMAIN conns : conns[g] \in
           [link : {"up", "down"}, reader : {"unborn", "running", "broken", "cleared", "retry"},
            asked : BOOLEAN]
    /\ state \in States /\ reconnect \in BOOLEAN /\ permit \in BOOLEAN
    /\ call \in [Callers -> [at : {"idle", "arm", "open", "settle", "configure", "ask", "teardown",
           "tell", "failed", "take", "bye", "refresh", "waiting", "retry", "look", "check", "undo"},
           gen : 0..generation, prev : States]]
    /\ attempts \in 0..MaxAttempts /\ last_up \in BOOLEAN
    /\ watchdog \in {"none", "first", "resend", "second"}
    /\ calls \in 0..MaxCalls /\ drops \in 0..MaxDrops

\* An installed transport always has a reader that will notice its end, or
\* one its caller is about to spawn: no connect, disconnect and teardown in
\* any order orphans the slot (connect_with_transport, teardown_generation).
SlotHasReader ==
    slot # NoTransport =>
        /\ slot \in DOMAIN conns
        /\ \/ conns[slot].reader \in {"running", "broken"}
           \/ conns[slot].reader = "unborn" /\ \E c \in Callers : call[c].at = "settle" /\ call[c].gen = slot

\* A superseded connection never takes down the one that replaced it: a
\* transport leaves the slot for a newer one, for a disconnect, for the end
\* of its own stream or for the failure of the call that installed it.
HealthyKept == [][
    (slot # NoTransport /\ slot' # slot) =>
        \/ slot' > slot
        \/ conns[slot].reader = "broken"
        \/ \E c \in Callers : call'[c] # call[c] /\
              (call[c].at = "take" \/ (call[c].at = "teardown" /\ call[c].gen = slot))]_vars

\* A connection the watcher made never outlives the user's disconnect that
\* raced the attempt: unless that disconnect is still on its way to the slot,
\* the intent stands (the check after a successful attempt).
WatcherHonoursDisconnect ==
    (Watches("waiting") /\ slot # NoTransport /\ slot = call[Watcher].gen /\ ~reconnect) =>
        \E u \in Users : call[u].at = "take"

\* A transport whose link is dead leaves the slot: its reader or its caller
\* finds out (the inbound task, the unwinding in connect_with_transport).
DeadLinkLeavesSlot == []<>(slot # NoTransport => IsUp(slot))

\* A lost connection that should come back is retried until a transport is
\* installed or the intent is gone, wherever the watcher was when the reader
\* asked for it (try_reconnect, reconnect_request).
LostLinkIsRetried ==
    (slot = NoTransport /\ reconnect /\ \E g \in DOMAIN conns : conns[g].reader = "retry")
        ~> (slot # NoTransport \/ ~reconnect)

=============================================================================
