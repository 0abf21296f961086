-------------------------- MODULE ConnectionProofs --------------------------
(***************************************************************************)
(* Proofs about Connection for every set of callers and every bound.       *)
(*                                                                         *)
(* What carries the safety of the slot is the generation: an installed     *)
(* transport is always the newest one (NewestInstalled), so whoever        *)
(* compares its own generation with the counter knows whether the slot is  *)
(* still its own.                                                          *)
(***************************************************************************)
EXTENDS Connection, TLAPS

ConnType ==
    [link : {"up", "down"}, reader : {"unborn", "running", "broken", "cleared", "retry"},
     asked : BOOLEAN]
Places ==
    {"idle", "arm", "open", "settle", "configure", "ask", "teardown", "tell", "failed",
     "take", "bye", "refresh", "waiting", "retry", "look", "check", "undo"}
CallType(n) == [at : Places, gen : 0 .. n, prev : States]

\* TypeOK in two parts: the flags, and the rest.
FlagsOK == reconnect \in BOOLEAN /\ permit \in BOOLEAN /\ last_up \in BOOLEAN
ConnsOK == DOMAIN conns \subseteq 1 .. generation /\ \A g \in DOMAIN conns : conns[g] \in ConnType
StateOK ==
    /\ generation \in Nat /\ slot \in 0 .. generation
    /\ ConnsOK
    /\ state \in States
    /\ call \in [Callers -> CallType(generation)]
    /\ attempts \in 0 .. MaxAttempts
    /\ watchdog \in {"none", "first", "resend", "second"}
    /\ calls \in 0 .. MaxCalls /\ drops \in 0 .. MaxDrops

LEMMA TypeParts == TypeOK <=> FlagsOK /\ StateOK
BY Zenon DEF TypeOK, FlagsOK, StateOK, ConnsOK, ConnType, CallType, Places

LEMMA TypePartsNext == TypeOK' <=> FlagsOK' /\ StateOK'
BY Zenon DEF TypeOK, FlagsOK, StateOK, ConnsOK, ConnType, CallType, Places

-----------------------------------------------------------------------------
(* Types *)

\* No step takes a flag for anything but a flag.
LEMMA NextFlags == ASSUME FlagsOK, [Next]_vars PROVE FlagsOK'
<1> USE DEF FlagsOK, shared, policy, counters
<1>1. ASSUME NEW u \in Users, connect_by(u) \/ disconnect(u) \/ refresh_config(u)
      PROVE  FlagsOK'
    BY <1>1 DEF connect_by, disconnect, refresh_config
<1>2. ASSUME NEW c \in Callers, Connect(c) \/ TakesSlot(c) \/ TellsDisconnected(c)
      PROVE  FlagsOK'
    BY <1>2 DEF Connect, OpenFails, Installs, SpawnsReader, Configures, AsksConfig,
                teardown_generation, TellsTornDown, TakesSlot, TellsDisconnected
<1>3. ASSUME NEW u \in Users, ArmsReconnect(u) \/ ConnectFails(u) \/ Refreshes(u)
      PROVE  FlagsOK'
    BY <1>3 DEF ArmsReconnect, ConnectFails, Refreshes
<1>4. ASSUME NEW g \in DOMAIN conns, LinkDies(g) \/ Reader(g)
      PROVE  FlagsOK'
    BY <1>4 DEF LinkDies, Reader, SilenceGivesUp, Probes, ConfigComplete, ReaderAdvances,
                StreamEnds, ReaderTearsDown, ReaderTellsDisconnected, try_reconnect
<1>5. CASE WatcherStep
    BY <1>5 DEF WatcherStep, WatcherNotified, GivesUp, WatcherWakes, WatcherLooks,
                WatcherFails, WatcherChecks, WatcherUndoes
<1>6. CASE Watchdog
    BY <1>6 DEF Watchdog, WatchdogRetries, WatchdogResends, WatchdogReverts
<1>7. CASE UNCHANGED vars
    BY <1>7 DEF vars
<1> QED BY <1>1, <1>2, <1>3, <1>4, <1>5, <1>6, <1>7 DEF Next, UserStarts, CallSteps

\* Where a caller goes next is a place, and its record stays one.
LEMMA CallGoes ==
    ASSUME NEW n \in Nat, call \in [Callers -> CallType(n)], NEW c \in Callers,
           NEW at \in Places
    PROVE  /\ [call EXCEPT ![c].at = at] \in [Callers -> CallType(n)]
           /\ [call EXCEPT ![c] = Doing(at)] \in [Callers -> CallType(n)]
           /\ \A p \in States :
                 [call EXCEPT ![c] = [Doing(at) EXCEPT !.prev = p]] \in [Callers -> CallType(n)]
<1>1. [call EXCEPT ![c].at = at] \in [Callers -> CallType(n)]
    BY DEF CallType
<1>2. Doing(at) \in CallType(n)
    BY DEF Doing, CallType, NoTransport, States
<1>3. ASSUME NEW p \in States PROVE [Doing(at) EXCEPT !.prev = p] \in CallType(n)
    BY <1>2 DEF CallType
<1> QED BY <1>1, <1>2, <1>3

\* A caller's record stays one when the counter grows.
LEMMA CallGrows ==
    ASSUME NEW n \in Nat, NEW m \in Nat, n <= m, NEW f \in [Callers -> CallType(n)]
    PROVE  f \in [Callers -> CallType(m)]
<1>1. \A r \in CallType(n) : r \in CallType(m)
    BY DEF CallType
<1> QED BY <1>1

\* Closing a transport and asking for its configuration keep every reader.
SameReaders(cs) ==
    /\ DOMAIN cs = DOMAIN conns
    /\ \A h \in DOMAIN conns : cs[h] \in ConnType /\ cs[h].reader = conns[h].reader

LEMMA LinkGoes ==
    ASSUME ConnsOK, NEW g, NEW l \in {"up", "down"}
    PROVE  SameReaders([conns EXCEPT ![g].link = l])
<1>1. ASSUME NEW h \in DOMAIN conns
      PROVE  /\ [conns EXCEPT ![g].link = l][h] \in ConnType
             /\ [conns EXCEPT ![g].link = l][h].reader = conns[h].reader
    BY DEF ConnsOK, ConnType
<1> QED BY <1>1 DEF SameReaders

LEMMA ClosedSame == ASSUME ConnsOK, NEW g PROVE SameReaders(Closed(conns, g))
<1>1. CASE g \in DOMAIN conns
    BY <1>1, LinkGoes DEF Closed
<1>2. CASE g \notin DOMAIN conns
    BY <1>2 DEF Closed, SameReaders, ConnsOK
<1> QED BY <1>1, <1>2

LEMMA AskedSame ==
    ASSUME ConnsOK, NEW g, NEW b \in BOOLEAN
    PROVE  SameReaders([conns EXCEPT ![g].asked = b])
<1>1. ASSUME NEW h \in DOMAIN conns
      PROVE  /\ [conns EXCEPT ![g].asked = b][h] \in ConnType
             /\ [conns EXCEPT ![g].asked = b][h].reader = conns[h].reader
    BY DEF ConnsOK, ConnType
<1> QED BY <1>1 DEF SameReaders

LEMMA WantSame ==
    ASSUME ConnsOK, WantConfig(TRUE) \/ WantConfig(FALSE)
    PROVE  SameReaders(conns')
<1>1. SameReaders([conns EXCEPT ![slot].asked = TRUE])
    BY AskedSame, Zenon
<1>2. SameReaders(conns)
    BY DEF SameReaders, ConnsOK
<1>3. conns' = [conns EXCEPT ![slot].asked = TRUE] \/ conns' = conns
    BY DEF WantConfig
<1> QED BY <1>1, <1>2, <1>3

\* A reader that goes on is the only one that does.
LEMMA ReaderMoves ==
    ASSUME ConnsOK, NEW g,
           NEW at \in {"unborn", "running", "broken", "cleared", "retry"},
           conns' = [conns EXCEPT ![g].reader = at]
    PROVE  /\ DOMAIN conns' = DOMAIN conns
           /\ \A h \in DOMAIN conns :
                 /\ conns'[h] \in ConnType
                 /\ conns'[h].reader = IF h = g THEN at ELSE conns[h].reader
<1>1. ASSUME NEW h \in DOMAIN conns
      PROVE  /\ conns'[h] \in ConnType
             /\ conns'[h].reader = IF h = g THEN at ELSE conns[h].reader
    BY DEF ConnsOK, ConnType
<1> QED BY <1>1

\* Each of these keeps the connections well-formed.
LEMMA SameOK ==
    ASSUME ConnsOK, SameReaders(conns'), generation' \in Nat, generation \in Nat,
           generation' >= generation
    PROVE  ConnsOK'
BY DEF ConnsOK, SameReaders

LEMMA ReaderOK ==
    ASSUME ConnsOK, UNCHANGED generation, NEW g,
           \/ \E at \in {"unborn", "running", "broken", "cleared", "retry"} :
                 conns' = [conns EXCEPT ![g].reader = at]
           \/ ReaderExits(g)
    PROVE  ConnsOK'
<1>1. ASSUME NEW at \in {"unborn", "running", "broken", "cleared", "retry"},
             conns' = [conns EXCEPT ![g].reader = at]
      PROVE  ConnsOK'
    BY <1>1, ReaderMoves DEF ConnsOK
<1>2. CASE ReaderExits(g)
    BY <1>2 DEF ReaderExits, ConnsOK
<1> QED BY <1>1, <1>2

\* Each kind of step keeps the types: those a user starts,
LEMMA StartState ==
    ASSUME StateOK, NEW u \in Users, connect_by(u) \/ disconnect(u) \/ refresh_config(u)
    PROVE  StateOK'
<1> USE DEF StateOK, shared, policy
<1>u. u \in Callers
    BY DEF Callers
<1>1. ASSUME NEW at \in Places, UserCalls(u, at)
      PROVE  call' \in [Callers -> CallType(generation)] /\ calls' \in 0 .. MaxCalls
    <2>1. call' = [call EXCEPT ![u] =
             [Doing(at) EXCEPT !.prev = IF at = "refresh" THEN state ELSE @]]
        BY <1>1 DEF UserCalls
    <2>2. Doing(at).prev \in States
        BY DEF Doing, States
    <2>3. (IF at = "refresh" THEN state ELSE Doing(at).prev) \in States
        BY <2>2
    <2>4. call' \in [Callers -> CallType(generation)]
        BY <1>u, <2>1, <2>3, CallGoes
    <2>5. calls' \in 0 .. MaxCalls
        BY <1>1, ConnectionAssumption DEF UserCalls, ConnectionAssumption
    <2> QED BY <2>4, <2>5
<1>2. CASE connect_by(u)
    <2>1. UserCalls(u, "arm") /\ state' \in States
        BY <1>2 DEF connect_by, States
    <2>2. call' \in [Callers -> CallType(generation)] /\ calls' \in 0 .. MaxCalls
        BY <1>1, <2>1 DEF Places
    <2> QED BY <1>2, <2>1, <2>2 DEF connect_by, ConnsOK
<1>3. CASE disconnect(u)
    <2>1. UserCalls(u, "take")
        BY <1>3 DEF disconnect
    <2>2. call' \in [Callers -> CallType(generation)] /\ calls' \in 0 .. MaxCalls
        BY <1>1, <2>1 DEF Places
    <2> QED BY <1>3, <2>2 DEF disconnect, ConnsOK
<1>4. CASE refresh_config(u)
    <2>1. UserCalls(u, "refresh") /\ state' \in States
        BY <1>4 DEF refresh_config, States
    <2>2. call' \in [Callers -> CallType(generation)] /\ calls' \in 0 .. MaxCalls
        BY <1>1, <2>1 DEF Places
    <2> QED BY <1>4, <2>1, <2>2 DEF refresh_config, ConnsOK
<1> QED BY <1>2, <1>3, <1>4

\* those of a caller inside connect or disconnect,
LEMMA ConnectState ==
    ASSUME StateOK, NEW c \in Callers, Connect(c) \/ TakesSlot(c) \/ TellsDisconnected(c)
    PROVE  StateOK'
<1> USE DEF StateOK, shared, policy, counters
<1>g. ASSUME NEW at \in Places, Goes(c, at)
      PROVE  call' \in [Callers -> CallType(generation)]
    BY <1>g, CallGoes DEF Goes
<1>r. ASSUME Returns(c) PROVE call' \in [Callers -> CallType(generation)]
    BY <1>r, CallGoes DEF Returns, Places
<1>s. {"Disconnected", "Connected", "Configuring"} \subseteq States
    BY DEF States
<1>1. CASE OpenFails(c)
    <2>1. call' \in [Callers -> CallType(generation)]
        BY <1>1, <1>g DEF OpenFails, Places
    <2> QED BY <1>1, <2>1 DEF OpenFails, ConnsOK
<1>2. CASE Installs(c)
    <2> DEFINE g == generation + 1
    <2>1. /\ generation' = g /\ slot' = g
          /\ conns' = [x \in DOMAIN conns \cup {g} |->
               IF x = g THEN [link |-> "up", reader |-> "unborn", asked |-> FALSE]
                        ELSE Closed(conns, slot)[x]]
          /\ call' = [call EXCEPT ![c].at = "settle", ![c].gen = g]
          /\ UNCHANGED <<state, attempts, watchdog, calls, drops>>
        BY <1>2 DEF Installs
    <2>2. g \in Nat /\ generation <= g /\ g \in 0 .. g /\ g \in 1 .. g
        OBVIOUS
    <2> HIDE DEF g
    <2>3. ConnsOK'
        <3>1. SameReaders(Closed(conns, slot))
            BY ClosedSame
        <3>2. [link |-> "up", reader |-> "unborn", asked |-> FALSE] \in ConnType
            BY DEF ConnType
        <3>3. \A x \in DOMAIN conns' : conns'[x] \in ConnType
            BY <2>1, <3>1, <3>2 DEF SameReaders
        <3>4. \A x \in 1 .. generation : x \in 1 .. g
            BY <2>2
        <3>5. DOMAIN conns' \subseteq 1 .. g
            BY <2>1, <2>2, <3>4 DEF ConnsOK
        <3> QED BY <2>1, <3>3, <3>5 DEF ConnsOK
    <2>4. call' \in [Callers -> CallType(g)]
        <3>1. call \in [Callers -> CallType(g)]
            BY <2>2, CallGrows
        <3>2. [call[c] EXCEPT !.at = "settle", !.gen = g] \in CallType(g)
            BY <2>2, <3>1 DEF CallType, Places
        <3>3. call' = [call EXCEPT ![c] = [call[c] EXCEPT !.at = "settle", !.gen = g]]
            BY <2>1, <3>1
        <3> QED BY <3>1, <3>2, <3>3
    <2> QED BY <2>1, <2>2, <2>3, <2>4
<1>3. CASE SpawnsReader(c)
    <2>1. call' \in [Callers -> CallType(generation)]
        BY <1>3, <1>g DEF SpawnsReader, Places
    <2>2. ConnsOK'
        BY <1>3, ReaderOK DEF SpawnsReader
    <2> QED BY <1>3, <1>s, <2>1, <2>2 DEF SpawnsReader
<1>4. CASE Configures(c)
    <2>1. call' \in [Callers -> CallType(generation)]
        BY <1>4, <1>g DEF Configures, Places
    <2> QED BY <1>4, <1>s, <2>1 DEF Configures, ConnsOK
<1>5. CASE AsksConfig(c)
    <2>1. \/ Goes(c, "check") \/ Returns(c) \/ Goes(c, "teardown")
        BY <1>5 DEF AsksConfig
    <2>2. call' \in [Callers -> CallType(generation)]
        BY <2>1, <1>g, <1>r DEF Places
    <2>3. ConnsOK'
        <3>1. (WantConfig(TRUE) \/ WantConfig(FALSE)) /\ generation' = generation
            BY <1>5 DEF AsksConfig
        <3>2. ConnsOK /\ generation \in Nat
            OBVIOUS
        <3>3. SameReaders(conns')
            BY <3>1, <3>2, WantSame, Zenon
        <3> QED BY <3>1, <3>2, <3>3, SameOK
    <2>4. watchdog' \in {"none", "first", "resend", "second"}
        BY <1>5 DEF AsksConfig, WatchdogArmed
    <2> QED BY <1>5, <2>2, <2>3, <2>4 DEF AsksConfig
<1>6. CASE teardown_generation(c)
    <2>1. call' \in [Callers -> CallType(generation)]
        BY <1>6, <1>g DEF teardown_generation, Places
    <2>2. /\ generation' \in Nat /\ generation' >= generation /\ slot' \in 0 .. generation'
          /\ SameReaders(conns') \/ conns' = conns
          /\ UNCHANGED <<state, attempts, watchdog, calls, drops>>
        BY <1>6, ClosedSame DEF teardown_generation, NoTransport
    <2>3. ConnsOK'
        BY <2>2, SameOK DEF ConnsOK
    <2>4. call' \in [Callers -> CallType(generation')]
        BY <2>1, <2>2, CallGrows
    <2> QED BY <2>2, <2>3, <2>4
<1>7. CASE TellsTornDown(c)
    <2>1. call' \in [Callers -> CallType(generation)]
        BY <1>7, <1>g DEF TellsTornDown, Places
    <2> QED BY <1>7, <1>s, <2>1 DEF TellsTornDown, ConnsOK
<1>8. CASE TakesSlot(c)
    <2>1. call' \in [Callers -> CallType(generation)]
        BY <1>8, <1>g DEF TakesSlot, Places
    <2>2. /\ generation' \in Nat /\ generation' >= generation /\ slot' \in 0 .. generation'
          /\ SameReaders(conns')
          /\ UNCHANGED <<state, attempts, watchdog, calls, drops>>
        BY <1>8, ClosedSame DEF TakesSlot, NoTransport
    <2>3. ConnsOK'
        BY <2>2, SameOK
    <2>4. call' \in [Callers -> CallType(generation')]
        BY <2>1, <2>2, CallGrows
    <2> QED BY <2>2, <2>3, <2>4
<1>9. CASE TellsDisconnected(c)
    <2>1. Goes(c, "waiting") \/ Returns(c)
        BY <1>9 DEF TellsDisconnected
    <2>2. call' \in [Callers -> CallType(generation)]
        BY <2>1, <1>g, <1>r DEF Places
    <2> QED BY <1>9, <1>s, <2>2 DEF TellsDisconnected, ConnsOK
<1> QED BY <1>1, <1>2, <1>3, <1>4, <1>5, <1>6, <1>7, <1>8, <1>9 DEF Connect

\* those only a user's call takes,
LEMMA UserState ==
    ASSUME StateOK, NEW u \in Users, ArmsReconnect(u) \/ ConnectFails(u) \/ Refreshes(u)
    PROVE  StateOK'
<1> USE DEF StateOK, shared, policy, counters
<1>u. u \in Callers
    BY DEF Callers
<1>1. CASE ArmsReconnect(u)
    <2>1. call' \in [Callers -> CallType(generation)]
        BY <1>1, <1>u, CallGoes DEF ArmsReconnect, Goes, Places
    <2> QED BY <1>1, <2>1 DEF ArmsReconnect, ConnsOK
<1>2. CASE ConnectFails(u)
    <2>1. call' \in [Callers -> CallType(generation)]
        BY <1>2, <1>u, CallGoes DEF ConnectFails, Returns, Places
    <2> QED BY <1>2, <2>1 DEF ConnectFails, ConnsOK, States
<1>3. CASE Refreshes(u)
    <2>1. call' \in [Callers -> CallType(generation)]
        BY <1>3, <1>u, CallGoes DEF Refreshes, Returns, Places
    <2>2. call[u].prev \in States
        BY <1>u DEF CallType
    <2>3. ConnsOK'
        <3>1. (WantConfig(TRUE) \/ WantConfig(FALSE)) /\ generation' = generation
            BY <1>3 DEF Refreshes
        <3>2. ConnsOK /\ generation \in Nat
            OBVIOUS
        <3>3. SameReaders(conns')
            BY <3>1, <3>2, WantSame, Zenon
        <3> QED BY <3>1, <3>2, <3>3, SameOK
    <2> QED BY <1>3, <2>1, <2>2, <2>3 DEF Refreshes, WatchdogArmed
<1> QED BY <1>1, <1>2, <1>3

\* those of a reader,
LEMMA ReaderState ==
    ASSUME StateOK, NEW g \in DOMAIN conns, LinkDies(g) \/ Reader(g)
    PROVE  StateOK'
<1> USE DEF StateOK, shared, policy, counters
<1>1. CASE LinkDies(g)
    <2>1. ConnsOK'
        BY <1>1, ClosedSame, SameOK DEF LinkDies
    <2> QED BY <1>1, <2>1, ConnectionAssumption DEF LinkDies, ConnectionAssumption
<1>2. CASE SilenceGivesUp(g)
    <2>1. ConnsOK'
        BY <1>2, ReaderOK DEF SilenceGivesUp, ReaderGoes
    <2> QED BY <1>2, <2>1, ConnectionAssumption DEF SilenceGivesUp, ConnectionAssumption
<1>3. CASE Probes(g)
    <2>1. CASE WantConfig(TRUE)
        <3>1. ConnsOK'
            BY <1>3, <2>1, WantSame, SameOK DEF Probes
        <3> QED BY <1>3, <3>1 DEF Probes
    <2>2. CASE ReaderGoes(g, "broken")
        <3>1. ConnsOK'
            BY <1>3, <2>2, ReaderOK DEF Probes, ReaderGoes
        <3> QED BY <1>3, <3>1 DEF Probes
    <2> QED BY <1>3, <2>1, <2>2 DEF Probes
<1>4. CASE ConfigComplete(g)
    <2>0. SameReaders([conns EXCEPT ![g].asked = FALSE])
        BY AskedSame, Zenon
    <2>1. ConnsOK'
        BY <1>4, <2>0, SameOK DEF ConfigComplete
    <2> QED BY <1>4, <2>1 DEF ConfigComplete, States
<1>5. CASE StreamEnds(g)
    <2>1. ConnsOK'
        BY <1>5, ReaderOK DEF StreamEnds, ReaderGoes
    <2> QED BY <1>5, <2>1 DEF StreamEnds
<1>6. CASE ReaderTearsDown(g)
    <2>1. ConnsOK'
        BY <1>6, ReaderOK DEF ReaderTearsDown, ReaderGoes
    <2> QED BY <1>6, <2>1 DEF ReaderTearsDown, NoTransport
<1>7. CASE ReaderTellsDisconnected(g)
    <2>1. ConnsOK'
        BY <1>7, ReaderOK DEF ReaderTellsDisconnected, ReaderGoes
    <2> QED BY <1>7, <2>1 DEF ReaderTellsDisconnected, States
<1>8. CASE try_reconnect(g)
    <2>1. ConnsOK'
        BY <1>8, ReaderOK DEF try_reconnect
    <2> QED BY <1>8, <2>1 DEF try_reconnect
<1> QED BY <1>1, <1>2, <1>3, <1>4, <1>5, <1>6, <1>7, <1>8 DEF Reader, ReaderAdvances

\* While the watcher makes an attempt, it may make one.
Trying == {"look", "open", "settle", "configure", "ask", "teardown", "tell", "failed"}
TryInv == call[Watcher].at \in Trying => attempts < MaxAttempts

\* those of the watcher,
LEMMA WatcherState == ASSUME StateOK, TryInv, WatcherStep PROVE StateOK'
<1> USE DEF StateOK, shared, policy, counters
<1>w. Watcher \in Callers
    BY DEF Callers
<1>g. ASSUME NEW at \in Places, Goes(Watcher, at)
      PROVE  call' \in [Callers -> CallType(generation)]
    BY <1>g, <1>w, CallGoes DEF Goes
<1>p. {"retry", "waiting", "look", "open", "check", "undo", "take"} \subseteq Places
    BY DEF Places
<1>1. CASE WatcherNotified
    <2>1. call' \in [Callers -> CallType(generation)]
        BY <1>1, <1>g, <1>p DEF WatcherNotified
    <2>2. attempts' \in 0 .. MaxAttempts
        BY <1>1, ConnectionAssumption DEF WatcherNotified, ConnectionAssumption
    <2> QED BY <1>1, <2>1, <2>2 DEF WatcherNotified, ConnsOK
<1>2. CASE GivesUp
    <2>1. call' \in [Callers -> CallType(generation)]
        BY <1>2, <1>g, <1>p DEF GivesUp
    <2> QED BY <1>2, <2>1 DEF GivesUp, ConnsOK, States
<1>3. CASE WatcherWakes
    <2>1. call' \in [Callers -> CallType(generation)]
        BY <1>3, <1>g, <1>p DEF WatcherWakes
    <2> QED BY <1>3, <2>1 DEF WatcherWakes, ConnsOK
<1>4. CASE WatcherLooks
    <2>1. call' \in [Callers -> CallType(generation)]
        BY <1>4, <1>g, <1>p DEF WatcherLooks
    <2> QED BY <1>4, <2>1 DEF WatcherLooks, ConnsOK, States
<1>5. CASE WatcherFails
    <2>1. call' \in [Callers -> CallType(generation)]
        BY <1>5, <1>g, <1>p DEF WatcherFails
    <2>2. attempts' \in 0 .. MaxAttempts
        BY <1>5, ConnectionAssumption
           DEF WatcherFails, TryInv, Trying, Watches, ConnectionAssumption
    <2> QED BY <1>5, <2>1, <2>2 DEF WatcherFails, ConnsOK
<1>6. CASE WatcherChecks
    <2>1. call' \in [Callers -> CallType(generation)]
        BY <1>6, <1>g, <1>p DEF WatcherChecks
    <2> QED BY <1>6, <2>1 DEF WatcherChecks, ConnsOK
<1>7. CASE WatcherUndoes
    <2>1. call' \in [Callers -> CallType(generation)]
        BY <1>7, <1>g, <1>p DEF WatcherUndoes
    <2> QED BY <1>7, <2>1 DEF WatcherUndoes, ConnsOK
<1> QED BY <1>1, <1>2, <1>3, <1>4, <1>5, <1>6, <1>7 DEF WatcherStep

\* and those of the watchdog.
LEMMA WatchdogState == ASSUME StateOK, Watchdog PROVE StateOK'
<1> USE DEF StateOK, shared, policy, counters
<1>s. state' \in States
    BY DEF Watchdog, WatchdogRetries, WatchdogResends, WatchdogReverts, Reverts, States
<1>1. CASE WatchdogRetries
    BY <1>1 DEF WatchdogRetries, ConnsOK
<1>2. CASE WatchdogResends
    <2>1. ConnsOK'
        <3>1. (WantConfig(TRUE) \/ WantConfig(FALSE)) /\ generation' = generation
            BY <1>2 DEF WatchdogResends
        <3>2. ConnsOK /\ generation \in Nat
            OBVIOUS
        <3>3. SameReaders(conns')
            BY <3>1, <3>2, WantSame, Zenon
        <3> QED BY <3>1, <3>2, <3>3, SameOK
    <2> QED BY <1>2, <1>s, <2>1 DEF WatchdogResends
<1>3. CASE WatchdogReverts
    BY <1>3, <1>s DEF WatchdogReverts, ConnsOK
<1> QED BY <1>1, <1>2, <1>3 DEF Watchdog

LEMMA NextState == ASSUME StateOK, TryInv, [Next]_vars PROVE StateOK'
<1>1. CASE UNCHANGED vars
    BY <1>1 DEF vars, shared, policy, counters, StateOK, ConnsOK
<1>2. CASE Next
    BY <1>2, StartState, ConnectState, UserState, ReaderState, WatcherState, WatchdogState
       DEF Next, UserStarts, CallSteps
<1> QED BY <1>1, <1>2

-----------------------------------------------------------------------------
(* The watcher's attempts *)

\* How a step that is not the watcher's own leaves the watcher.
LEMMA WatcherAlone ==
    ASSUME StateOK,
           \/ UserStarts
           \/ \E c \in Users : CallSteps(c)
           \/ \E g \in DOMAIN conns : LinkDies(g) \/ Reader(g)
           \/ Watchdog
           \/ UNCHANGED vars
    PROVE  call'[Watcher] = call[Watcher] /\ attempts' = attempts
<1> USE DEF shared, policy, counters
<1>w. Watcher \notin Users /\ call \in [Callers -> CallType(generation)] /\ Watcher \in Callers
    BY ConnectionAssumption DEF ConnectionAssumption, StateOK, Callers
<1>1. ASSUME NEW u \in Users, connect_by(u) \/ disconnect(u) \/ refresh_config(u)
      PROVE  call'[Watcher] = call[Watcher] /\ attempts' = attempts
    BY <1>1, <1>w DEF connect_by, disconnect, refresh_config, UserCalls
<1>2. ASSUME NEW u \in Users, CallSteps(u)
      PROVE  call'[Watcher] = call[Watcher] /\ attempts' = attempts
    <2>1. CASE Connect(u)
        BY <1>w, <2>1 DEF Connect, OpenFails, Installs, SpawnsReader, Configures, AsksConfig,
                    teardown_generation, TellsTornDown, Goes, Returns
    <2>2. CASE TakesSlot(u) \/ TellsDisconnected(u)
        BY <1>w, <2>2 DEF TakesSlot, TellsDisconnected, Goes, Returns
    <2>3. CASE ArmsReconnect(u) \/ ConnectFails(u) \/ Refreshes(u)
        BY <1>w, <2>3 DEF ArmsReconnect, ConnectFails, Refreshes, Goes, Returns
    <2> QED BY <1>2, <2>1, <2>2, <2>3 DEF CallSteps
<1>3. ASSUME NEW g \in DOMAIN conns, LinkDies(g) \/ Reader(g)
      PROVE  call'[Watcher] = call[Watcher] /\ attempts' = attempts
    BY <1>3 DEF LinkDies, Reader, SilenceGivesUp, Probes, ConfigComplete, ReaderAdvances,
                StreamEnds, ReaderTearsDown, ReaderTellsDisconnected, try_reconnect
<1>4. CASE Watchdog
    BY <1>4 DEF Watchdog, WatchdogRetries, WatchdogResends, WatchdogReverts
<1>5. CASE UNCHANGED vars
    BY <1>5 DEF vars
<1> QED BY <1>1, <1>2, <1>3, <1>4, <1>5 DEF UserStarts

\* A step is the watcher's own or none of its.
LEMMA WhoseStep ==
    ASSUME [Next]_vars
    PROVE  \/ \/ UserStarts
              \/ \E c \in Users : CallSteps(c)
              \/ \E g \in DOMAIN conns : LinkDies(g) \/ Reader(g)
              \/ Watchdog
              \/ UNCHANGED vars
           \/ Connect(Watcher) \/ TakesSlot(Watcher) \/ TellsDisconnected(Watcher)
           \/ WatcherStep
BY ConnectionAssumption DEF Next, CallSteps, Callers, ConnectionAssumption

LEMMA TryStep == ASSUME StateOK, TryInv, [Next]_vars PROVE TryInv'
<1> USE DEF TryInv
<1>w. call \in [Callers -> CallType(generation)] /\ Watcher \in Callers
    BY DEF StateOK, Callers
<1>1. CASE call'[Watcher] = call[Watcher] /\ attempts' = attempts
    BY <1>1
<1>2. CASE Connect(Watcher)
    BY <1>2, <1>w DEF Connect, OpenFails, Installs, SpawnsReader, Configures, AsksConfig,
                teardown_generation, TellsTornDown, Goes, Trying, policy, CallType
<1>3. CASE TakesSlot(Watcher) \/ TellsDisconnected(Watcher)
    BY <1>3, <1>w DEF TakesSlot, TellsDisconnected, Goes, Trying, policy, CallType
<1>4. CASE WatcherNotified \/ GivesUp \/ WatcherFails \/ WatcherChecks \/ WatcherUndoes
    BY <1>4, <1>w DEF WatcherNotified, GivesUp, WatcherFails, WatcherChecks, WatcherUndoes,
                Goes, Trying, CallType
<1>5. CASE WatcherWakes
    BY <1>5 DEF WatcherWakes, policy
<1>6. CASE WatcherLooks
    BY <1>6, <1>w DEF WatcherLooks, Watches, Trying, policy
<1> QED BY <1>1, <1>2, <1>3, <1>4, <1>5, <1>6, WhoseStep, WatcherAlone DEF WatcherStep

TypeInv == FlagsOK /\ StateOK /\ TryInv

LEMMA TypeInvariance == Spec => []TypeInv
<1>1. Init => TypeInv
    <2> SUFFICES ASSUME Init PROVE TypeInv
        OBVIOUS
    <2>1. FlagsOK
        BY DEF Init, FlagsOK
    <2>2. ConnsOK
        BY DEF Init, ConnsOK
    <2>3. call \in [Callers -> CallType(0)]
        BY DEF Init, Doing, CallType, Places, States, NoTransport
    <2>4. StateOK
        BY <2>2, <2>3, ConnectionAssumption
           DEF Init, StateOK, States, NoTransport, ConnectionAssumption
    <2>5. TryInv
        BY DEF Init, TryInv, Trying, Doing, Callers
    <2> QED BY <2>1, <2>4, <2>5 DEF TypeInv
<1>2. TypeInv /\ [Next]_vars => TypeInv'
    BY NextFlags, NextState, TryStep DEF TypeInv
<1> QED BY <1>1, <1>2, PTL DEF Spec

\* Every variable keeps its type; in particular the watcher never makes more
\* attempts than its policy allows, whoever connects in between.
THEOREM TypeCorrect == Spec => []TypeOK
<1>1. TypeInv => TypeOK
    BY TypeParts DEF TypeInv
<1> QED BY <1>1, TypeInvariance, PTL

-----------------------------------------------------------------------------
(* The slot *)

\* An installed transport is the newest one.
NewestInstalled == slot # NoTransport => slot = generation

\* What a step may do to the slot.
LEMMA SlotMoves ==
    ASSUME StateOK, NewestInstalled, [Next]_vars
    PROVE  \/ slot' = slot /\ generation' = generation
           \/ slot' = NoTransport /\ generation' >= generation
           \/ slot' = generation + 1 /\ generation' = generation + 1
<1> USE DEF shared, StateOK
<1>1. ASSUME NEW u \in Users, connect_by(u) \/ disconnect(u) \/ refresh_config(u)
      PROVE  slot' = slot /\ generation' = generation
    BY <1>1 DEF connect_by, disconnect, refresh_config
<1>2. ASSUME NEW c \in Callers,
             OpenFails(c) \/ SpawnsReader(c) \/ Configures(c) \/ AsksConfig(c)
                \/ TellsTornDown(c) \/ TellsDisconnected(c)
      PROVE  slot' = slot /\ generation' = generation
    BY <1>2 DEF OpenFails, SpawnsReader, Configures, AsksConfig, TellsTornDown,
                TellsDisconnected
<1>3. ASSUME NEW c \in Callers, Installs(c)
      PROVE  slot' = generation + 1 /\ generation' = generation + 1
    BY <1>3 DEF Installs
<1>4. ASSUME NEW c \in Callers, teardown_generation(c) \/ TakesSlot(c)
      PROVE  \/ slot' = slot /\ generation' = generation
             \/ slot' = NoTransport /\ generation' >= generation
    BY <1>4 DEF teardown_generation, TakesSlot
<1>5. ASSUME NEW u \in Users, ArmsReconnect(u) \/ ConnectFails(u) \/ Refreshes(u)
      PROVE  slot' = slot /\ generation' = generation
    BY <1>5 DEF ArmsReconnect, ConnectFails, Refreshes
<1>6. ASSUME NEW g \in DOMAIN conns, LinkDies(g) \/ Reader(g)
      PROVE  (slot' = slot \/ slot' = NoTransport) /\ generation' = generation
    BY <1>6 DEF LinkDies, Reader, SilenceGivesUp, Probes, ConfigComplete, ReaderAdvances,
                StreamEnds, ReaderTearsDown, ReaderTellsDisconnected, try_reconnect
<1>7. CASE WatcherStep \/ Watchdog
    BY <1>7 DEF WatcherStep, WatcherNotified, GivesUp, WatcherWakes, WatcherLooks,
                WatcherFails, WatcherChecks, WatcherUndoes,
                Watchdog, WatchdogRetries, WatchdogResends, WatchdogReverts
<1>8. CASE UNCHANGED vars
    BY <1>8 DEF vars
<1> QED BY <1>1, <1>2, <1>3, <1>4, <1>5, <1>6, <1>7, <1>8
        DEF Next, UserStarts, CallSteps, Connect

\* Only a caller that opened a transport brings a newer one in.
LEMMA OnlyInstalls ==
    ASSUME StateOK, [Next]_vars, slot' = generation + 1
    PROVE  \E c \in Callers : Installs(c)
<1> USE DEF shared, StateOK
<1> SUFFICES ASSUME ~ \E c \in Callers : Installs(c) PROVE slot' \in {slot, NoTransport}
    BY DEF NoTransport
<1>1. ASSUME NEW u \in Users, connect_by(u) \/ disconnect(u) \/ refresh_config(u)
      PROVE  slot' = slot
    BY <1>1 DEF connect_by, disconnect, refresh_config
<1>2. ASSUME NEW c \in Callers, Connect(c) \/ TakesSlot(c) \/ TellsDisconnected(c)
      PROVE  slot' \in {slot, NoTransport}
    BY <1>2 DEF Connect, OpenFails, SpawnsReader, Configures, AsksConfig, TellsTornDown,
                TellsDisconnected, teardown_generation, TakesSlot
<1>3. ASSUME NEW u \in Users, ArmsReconnect(u) \/ ConnectFails(u) \/ Refreshes(u)
      PROVE  slot' = slot
    BY <1>3 DEF ArmsReconnect, ConnectFails, Refreshes
<1>4. ASSUME NEW g \in DOMAIN conns, LinkDies(g) \/ Reader(g)
      PROVE  slot' \in {slot, NoTransport}
    BY <1>4 DEF LinkDies, Reader, SilenceGivesUp, Probes, ConfigComplete, ReaderAdvances,
                StreamEnds, ReaderTearsDown, ReaderTellsDisconnected, try_reconnect
<1>5. CASE WatcherStep \/ Watchdog
    BY <1>5 DEF WatcherStep, WatcherNotified, GivesUp, WatcherWakes, WatcherLooks,
                WatcherFails, WatcherChecks, WatcherUndoes,
                Watchdog, WatchdogRetries, WatchdogResends, WatchdogReverts
<1>6. CASE UNCHANGED vars
    BY <1>6 DEF vars
<1> QED BY <1>1, <1>2, <1>3, <1>4, <1>5, <1>6 DEF Next, UserStarts, CallSteps

LEMMA NewestStep == ASSUME StateOK, NewestInstalled, [Next]_vars PROVE NewestInstalled'
BY SlotMoves DEF NewestInstalled

\* A caller at "settle" stays there with its generation until it spawns the
\* reader.
LEMMA SettleStays ==
    ASSUME StateOK, [Next]_vars, NEW c \in Callers, call[c].at = "settle"
    PROVE  SpawnsReader(c) \/ call'[c] = call[c]
<1>c. call \in [Callers -> CallType(generation)]
    BY DEF StateOK
<1>g. ASSUME NEW d \in Callers, d # c
      PROVE  /\ \A at : Goes(d, at) => call'[c] = call[c]
             /\ Returns(d) => call'[c] = call[c]
    BY <1>c, <1>g DEF Goes, Returns
<1>1. ASSUME NEW u \in Users, connect_by(u) \/ disconnect(u) \/ refresh_config(u)
      PROVE  call'[c] = call[c]
    BY <1>1, <1>c DEF connect_by, disconnect, refresh_config, UserCalls
<1>2. ASSUME NEW d \in Callers, Connect(d)
      PROVE  SpawnsReader(c) \/ call'[c] = call[c]
    <2>1. CASE d = c
        BY <1>2, <2>1 DEF Connect, OpenFails, Installs, SpawnsReader, Configures, AsksConfig,
                    teardown_generation, TellsTornDown
    <2>2. CASE d # c
        BY <1>2, <1>c, <1>g, <2>2 DEF Connect, OpenFails, Installs, SpawnsReader, Configures,
                    AsksConfig, teardown_generation, TellsTornDown
    <2> QED BY <2>1, <2>2
<1>3. ASSUME NEW d \in Callers,
             TakesSlot(d) \/ TellsDisconnected(d) \/ ArmsReconnect(d) \/ ConnectFails(d)
                \/ Refreshes(d)
      PROVE  call'[c] = call[c]
    BY <1>3, <1>g DEF TakesSlot, TellsDisconnected, ArmsReconnect, ConnectFails, Refreshes
<1>4. ASSUME NEW g \in DOMAIN conns, LinkDies(g) \/ Reader(g)
      PROVE  call'[c] = call[c]
    BY <1>4 DEF LinkDies, Reader, SilenceGivesUp, Probes, ConfigComplete, ReaderAdvances,
                StreamEnds, ReaderTearsDown, ReaderTellsDisconnected, try_reconnect
<1>5. CASE WatcherStep
    <2>1. Watcher \in Callers
        BY DEF Callers
    <2> QED BY <1>5, <1>g, <2>1 DEF WatcherStep, WatcherNotified, GivesUp, WatcherWakes,
                WatcherLooks, WatcherFails, WatcherChecks, WatcherUndoes, Watches
<1>6. CASE Watchdog
    BY <1>6 DEF Watchdog, WatchdogRetries, WatchdogResends, WatchdogReverts
<1>7. CASE UNCHANGED vars
    BY <1>7 DEF vars
<1> QED BY <1>1, <1>2, <1>3, <1>4, <1>5, <1>6, <1>7 DEF Next, UserStarts, CallSteps

\* What a step may do to the connection in the slot while it stays there.
LEMMA InstalledReader ==
    ASSUME StateOK, NewestInstalled, [Next]_vars,
           slot # NoTransport, slot' = slot, slot \in DOMAIN conns,
           conns[slot].reader \in {"unborn", "running", "broken"}
    PROVE  /\ slot \in DOMAIN conns'
           /\ \/ conns'[slot].reader = conns[slot].reader
              \/ conns'[slot].reader \in {"running", "broken"}
<1> DEFINE Goal == /\ slot \in DOMAIN conns'
                   /\ \/ conns'[slot].reader = conns[slot].reader
                      \/ conns'[slot].reader \in {"running", "broken"}
<1>s. ASSUME SameReaders(conns') \/ conns' = conns PROVE Goal
    BY <1>s DEF SameReaders
<1>k. ConnsOK /\ slot = generation /\ generation \in Nat
    BY DEF StateOK, NewestInstalled
<1>r. ASSUME NEW g, NEW at \in {"running", "broken"}, ReaderGoes(g, at) PROVE Goal
    BY <1>r, <1>k, ReaderMoves DEF ReaderGoes
<1> HIDE DEF Goal
<1>1. ASSUME NEW u \in Users, connect_by(u) \/ disconnect(u) \/ refresh_config(u)
      PROVE  Goal
    BY <1>1, <1>s DEF connect_by, disconnect, refresh_config, shared
<1>2. ASSUME NEW c \in Callers,
             OpenFails(c) \/ Configures(c) \/ TellsTornDown(c) \/ TellsDisconnected(c)
      PROVE  Goal
    BY <1>2, <1>s DEF OpenFails, Configures, TellsTornDown, TellsDisconnected, shared
<1>3. ASSUME NEW c \in Callers, Installs(c) PROVE Goal
    <2>1. slot' = generation + 1
        BY <1>3 DEF Installs
    <2> QED BY <1>k, <2>1
<1>4. ASSUME NEW c \in Callers, SpawnsReader(c) PROVE Goal
    BY <1>4, <1>r DEF SpawnsReader, ReaderGoes
<1>5. ASSUME NEW c \in Callers, AsksConfig(c) PROVE Goal
    <2>1. WantConfig(TRUE) \/ WantConfig(FALSE)
        BY <1>5 DEF AsksConfig
    <2>2. SameReaders(conns')
        BY <1>k, <2>1, WantSame, Zenon
    <2> QED BY <1>s, <2>2
<1>6. ASSUME NEW c \in Callers, teardown_generation(c) \/ TakesSlot(c) PROVE Goal
    BY <1>6, <1>k, <1>s DEF teardown_generation, TakesSlot
<1>7. ASSUME NEW u \in Users, ArmsReconnect(u) \/ ConnectFails(u) PROVE Goal
    BY <1>7, <1>s DEF ArmsReconnect, ConnectFails, shared
<1>8. ASSUME NEW u \in Users, Refreshes(u) PROVE Goal
    <2>1. WantConfig(TRUE) \/ WantConfig(FALSE)
        BY <1>8 DEF Refreshes
    <2>2. SameReaders(conns')
        BY <1>k, <2>1, WantSame, Zenon
    <2> QED BY <1>s, <2>2
<1>9. ASSUME NEW g \in DOMAIN conns, LinkDies(g) PROVE Goal
    BY <1>9, <1>k, <1>s, ClosedSame DEF LinkDies
<1>10. ASSUME NEW g \in DOMAIN conns, SilenceGivesUp(g) \/ StreamEnds(g) PROVE Goal
    BY <1>10, <1>r DEF SilenceGivesUp, StreamEnds
<1>11. ASSUME NEW g \in DOMAIN conns, Probes(g) PROVE Goal
    <2>1. CASE WantConfig(TRUE)
        <3>1. SameReaders(conns')
            BY <1>k, <2>1, WantSame, Zenon
        <3> QED BY <1>s, <3>1
    <2>2. CASE ReaderGoes(g, "broken")
        BY <1>r, <2>2
    <2> QED BY <1>11, <2>1, <2>2 DEF Probes
<1>12. ASSUME NEW g \in DOMAIN conns, ConfigComplete(g) PROVE Goal
    <2>1. SameReaders([conns EXCEPT ![g].asked = FALSE])
        BY <1>k, AskedSame, Zenon
    <2> QED BY <1>12, <1>s, <2>1 DEF ConfigComplete
<1>13. ASSUME NEW g \in DOMAIN conns, ReaderTearsDown(g) PROVE Goal
    <2>1. generation # g /\ ReaderExits(g)
        BY <1>13, <1>k DEF ReaderTearsDown
    <2> QED BY <1>k, <2>1 DEF ReaderExits, Goal
<1>14. ASSUME NEW g \in DOMAIN conns, ReaderTellsDisconnected(g) \/ try_reconnect(g) PROVE Goal
    <2>1. CASE g = slot
        BY <1>14, <2>1 DEF ReaderTellsDisconnected, try_reconnect, Reads
    <2>2. CASE g # slot
        BY <1>14, <1>k, <2>2, ReaderMoves
           DEF ReaderTellsDisconnected, try_reconnect, ReaderGoes, ReaderExits, Goal
    <2> QED BY <2>1, <2>2
<1>15. ASSUME WatcherStep \/ Watchdog PROVE Goal
    <2>1. CASE WatchdogResends
        <3>1. WantConfig(TRUE) \/ WantConfig(FALSE)
            BY <2>1 DEF WatchdogResends
        <3>2. SameReaders(conns')
            BY <1>k, <3>1, WantSame, Zenon
        <3> QED BY <1>s, <3>2
    <2>2. CASE ~WatchdogResends
        BY <1>15, <1>s, <2>2 DEF WatcherStep, WatcherNotified, GivesUp, WatcherWakes,
           WatcherLooks, WatcherFails, WatcherChecks, WatcherUndoes,
           Watchdog, WatchdogRetries, WatchdogReverts, shared
    <2> QED BY <2>1, <2>2
<1>16. ASSUME UNCHANGED vars PROVE Goal
    BY <1>16, <1>s DEF vars, shared
<1>17. Goal
    BY <1>1, <1>2, <1>3, <1>4, <1>5, <1>6, <1>7, <1>8, <1>9, <1>10, <1>11, <1>12, <1>13,
       <1>14, <1>15, <1>16
       DEF Next, UserStarts, CallSteps, Connect, Reader, ReaderAdvances
<1> QED BY <1>17 DEF Goal

LEMMA SlotStep ==
    ASSUME StateOK, NewestInstalled, SlotHasReader, [Next]_vars
    PROVE  SlotHasReader'
<1> SUFFICES ASSUME slot' # NoTransport
             PROVE  /\ slot' \in DOMAIN conns'
                    /\ \/ conns'[slot'].reader \in {"running", "broken"}
                       \/ /\ conns'[slot'].reader = "unborn"
                          /\ \E c \in Callers : call'[c].at = "settle" /\ call'[c].gen = slot'
    BY DEF SlotHasReader
<1>k. generation \in Nat /\ call \in [Callers -> CallType(generation)]
    BY DEF StateOK
<1>1. ASSUME NEW c \in Callers, Installs(c)
      PROVE  /\ slot' \in DOMAIN conns' /\ conns'[slot'].reader = "unborn"
             /\ call'[c].at = "settle" /\ call'[c].gen = slot'
    BY <1>1, <1>k DEF Installs, CallType
<1>2. CASE slot' = slot /\ generation' = generation
    <2>1. slot \in DOMAIN conns /\ conns[slot].reader \in {"unborn", "running", "broken"}
        BY <1>2 DEF SlotHasReader
    <2>2. /\ slot \in DOMAIN conns'
          /\ \/ conns'[slot].reader = conns[slot].reader
             \/ conns'[slot].reader \in {"running", "broken"}
        BY <1>2, <2>1, InstalledReader
    <2>3. CASE conns[slot].reader # "unborn"
        BY <1>2, <2>1, <2>2, <2>3
    <2>4. ASSUME conns[slot].reader = "unborn", NEW c \in Callers,
                 call[c].at = "settle", call[c].gen = slot
          PROVE  \/ conns'[slot].reader \in {"running", "broken"}
                 \/ conns'[slot].reader = "unborn" /\ call'[c].at = "settle" /\ call'[c].gen = slot
        <3>1. CASE call'[c] = call[c]
            BY <2>2, <2>4, <3>1
        <3>2. CASE SpawnsReader(c)
            <4>1. conns' = [conns EXCEPT ![slot].reader = "running"]
                BY <2>4, <3>2 DEF SpawnsReader
            <4> QED BY <2>1, <4>1, ReaderMoves DEF StateOK
        <3> QED BY <2>4, <3>1, <3>2, SettleStays
    <2> QED BY <1>2, <2>1, <2>2, <2>3, <2>4 DEF SlotHasReader
<1>3. CASE slot' = generation + 1
    <2>1. \E c \in Callers : Installs(c)
        BY <1>3, OnlyInstalls
    <2> QED BY <1>1, <2>1
<1> QED BY <1>2, <1>3, SlotMoves

\* No connect, disconnect or teardown, in any order and by any number of
\* callers, leaves a transport in the slot that no reader watches or is about
\* to.
SlotInv == NewestInstalled /\ SlotHasReader
THEOREM SlotCorrect == Spec => []SlotHasReader
<1>1. Init => SlotInv
    BY DEF Init, SlotInv, NewestInstalled, SlotHasReader
<1>2. TypeOK /\ TypeInv /\ SlotInv /\ [Next]_vars => SlotInv'
    BY NewestStep, SlotStep DEF TypeInv, SlotInv
<1>3. Spec => []TypeInv
    BY TypeInvariance
<1>4. SlotInv => SlotHasReader
    BY DEF SlotInv
<1> QED BY <1>1, <1>2, <1>3, <1>4, TypeCorrect, PTL DEF Spec

\* A superseded connection never takes the newer one down.
LEMMA HealthyStep ==
    ASSUME StateOK, NewestInstalled, [Next]_vars, slot # NoTransport, slot' # slot
    PROVE  \/ slot' > slot
           \/ conns[slot].reader = "broken"
           \/ \E c \in Callers : call'[c] # call[c] /\
                 (call[c].at = "take" \/ (call[c].at = "teardown" /\ call[c].gen = slot))
<1> USE DEF shared
<1>k. slot = generation /\ generation \in Nat /\ call \in [Callers -> CallType(generation)]
    BY DEF StateOK, NewestInstalled
<1>1. ASSUME NEW u \in Users, connect_by(u) \/ disconnect(u) \/ refresh_config(u)
      PROVE  FALSE
    BY <1>1 DEF connect_by, disconnect, refresh_config
<1>2. ASSUME NEW c \in Callers,
             OpenFails(c) \/ SpawnsReader(c) \/ Configures(c) \/ AsksConfig(c)
                \/ TellsTornDown(c) \/ TellsDisconnected(c)
      PROVE  FALSE
    BY <1>2 DEF OpenFails, SpawnsReader, Configures, AsksConfig, TellsTornDown,
                TellsDisconnected
<1>3. ASSUME NEW c \in Callers, Installs(c) PROVE slot' > slot
    <2>1. slot' = generation + 1
        BY <1>3 DEF Installs
    <2> QED BY <1>k, <2>1
<1>4. ASSUME NEW c \in Callers, teardown_generation(c) \/ TakesSlot(c)
      PROVE  /\ call'[c] # call[c]
             /\ call[c].at = "take" \/ (call[c].at = "teardown" /\ call[c].gen = slot)
    <2>1. CASE teardown_generation(c)
        <3>1. call[c].at = "teardown" /\ generation = call[c].gen
            BY <2>1 DEF teardown_generation
        <3>2. call'[c].at = "tell"
            BY <1>k, <2>1 DEF teardown_generation, Goes, CallType
        <3> QED BY <1>k, <3>1, <3>2
    <2>2. CASE TakesSlot(c)
        <3>1. call[c].at = "take" /\ call'[c].at = "bye"
            BY <1>k, <2>2 DEF TakesSlot, Goes, CallType
        <3> QED BY <3>1
    <2> QED BY <1>4, <2>1, <2>2
<1>5. ASSUME NEW u \in Users, ArmsReconnect(u) \/ ConnectFails(u) \/ Refreshes(u)
      PROVE  FALSE
    BY <1>5 DEF ArmsReconnect, ConnectFails, Refreshes
<1>6. ASSUME NEW g \in DOMAIN conns, LinkDies(g) \/ Reader(g)
      PROVE  conns[slot].reader = "broken"
    <2>1. ReaderTearsDown(g) /\ generation = g
        BY <1>6 DEF LinkDies, Reader, SilenceGivesUp, Probes, ConfigComplete, ReaderAdvances,
                    StreamEnds, ReaderTearsDown, ReaderTellsDisconnected, try_reconnect
    <2> QED BY <1>k, <2>1 DEF ReaderTearsDown, Reads
<1>7. CASE WatcherStep \/ Watchdog
    BY <1>7 DEF WatcherStep, WatcherNotified, GivesUp, WatcherWakes, WatcherLooks,
                WatcherFails, WatcherChecks, WatcherUndoes,
                Watchdog, WatchdogRetries, WatchdogResends, WatchdogReverts
<1>8. CASE UNCHANGED vars
    BY <1>8 DEF vars
<1> QED BY <1>1, <1>2, <1>3, <1>4, <1>5, <1>6, <1>7, <1>8
        DEF Next, UserStarts, CallSteps, Connect

\* A transport leaves the slot only for a newer one, for a disconnect, for
\* the end of its own stream or for the failure of the call that installed it.
THEOREM HealthyCorrect == Spec => HealthyKept
<1>1. Init => NewestInstalled
    BY DEF Init, NewestInstalled
<1>2. TypeInv /\ NewestInstalled /\ [Next]_vars => NewestInstalled'
    BY NewestStep DEF TypeInv
<1>3. TypeInv /\ NewestInstalled /\ [Next]_vars =>
         [(slot # NoTransport /\ slot' # slot) =>
             \/ slot' > slot
             \/ conns[slot].reader = "broken"
             \/ \E c \in Callers : call'[c] # call[c] /\
                   (call[c].at = "take" \/ (call[c].at = "teardown" /\ call[c].gen = slot))]_vars
    BY HealthyStep DEF TypeInv
<1> QED BY <1>1, <1>2, <1>3, TypeInvariance, PTL DEF Spec, HealthyKept

-----------------------------------------------------------------------------
(* The watcher and the user's intent *)

\* The transport in the slot is the one the watcher installed.
Mine == slot # NoTransport /\ slot = call[Watcher].gen

\* Where the watcher has no connection of its own in the slot; an attempt
\* runs only while another is allowed; and where it waits or is about to, its
\* connection stands only with the intent, or with a disconnect on its way.
WatchInv ==
    /\ call[Watcher].at \in {"open", "tell", "failed", "bye"} => ~Mine
    /\ Mine => attempts < MaxAttempts
    /\ call[Watcher].at \in {"waiting", "retry", "look"} /\ Mine /\ ~reconnect =>
          \E u \in Users : call[u].at = "take"

\* A user on its way to the slot stays on it until it takes it.
LEMMA TakeStays ==
    ASSUME StateOK, [Next]_vars, NEW c \in Users, call[c].at = "take"
    PROVE  TakesSlot(c) \/ call'[c] = call[c]
<1>c. call \in [Callers -> CallType(generation)] /\ c \in Callers /\ c # Watcher
    BY ConnectionAssumption DEF StateOK, Callers, ConnectionAssumption
<1>g. ASSUME NEW d \in Callers, d # c
      PROVE  /\ \A at : Goes(d, at) => call'[c] = call[c]
             /\ Returns(d) => call'[c] = call[c]
    BY <1>c, <1>g DEF Goes, Returns
<1>1. ASSUME NEW u \in Users, connect_by(u) \/ disconnect(u) \/ refresh_config(u)
      PROVE  call'[c] = call[c]
    BY <1>1, <1>c DEF connect_by, disconnect, refresh_config, UserCalls
<1>2. ASSUME NEW d \in Callers, Connect(d)
      PROVE  call'[c] = call[c]
    <2>1. d # c
        BY <1>2 DEF Connect, OpenFails, Installs, SpawnsReader, Configures, AsksConfig,
                    teardown_generation, TellsTornDown
    <2> QED BY <1>2, <1>c, <1>g, <2>1 DEF Connect, OpenFails, Installs, SpawnsReader,
                    Configures, AsksConfig, teardown_generation, TellsTornDown
<1>3. ASSUME NEW d \in Callers, TakesSlot(d)
      PROVE  TakesSlot(c) \/ call'[c] = call[c]
    BY <1>3, <1>g DEF TakesSlot
<1>4. ASSUME NEW d \in Callers,
             TellsDisconnected(d) \/ ArmsReconnect(d) \/ ConnectFails(d) \/ Refreshes(d)
      PROVE  call'[c] = call[c]
    <2>1. d # c
        BY <1>4 DEF TellsDisconnected, ArmsReconnect, ConnectFails, Refreshes
    <2> QED BY <1>4, <1>g, <2>1 DEF TellsDisconnected, ArmsReconnect, ConnectFails, Refreshes
<1>5. ASSUME NEW g \in DOMAIN conns, LinkDies(g) \/ Reader(g)
      PROVE  call'[c] = call[c]
    BY <1>5 DEF LinkDies, Reader, SilenceGivesUp, Probes, ConfigComplete, ReaderAdvances,
                StreamEnds, ReaderTearsDown, ReaderTellsDisconnected, try_reconnect
<1>6. CASE WatcherStep
    <2>1. Watcher \in Callers
        BY DEF Callers
    <2> QED BY <1>6, <1>c, <1>g, <2>1 DEF WatcherStep, WatcherNotified, GivesUp, WatcherWakes,
                WatcherLooks, WatcherFails, WatcherChecks, WatcherUndoes
<1>7. CASE Watchdog
    BY <1>7 DEF Watchdog, WatchdogRetries, WatchdogResends, WatchdogReverts
<1>8. CASE UNCHANGED vars
    BY <1>8 DEF vars
<1> QED BY <1>1, <1>2, <1>3, <1>4, <1>5, <1>6, <1>7, <1>8
        DEF Next, UserStarts, CallSteps, Callers

\* Only a disconnect and the watcher take the intent away.
LEMMA IntentStays ==
    ASSUME [Next]_vars, reconnect, ~reconnect'
    PROVE  (\E u \in Users : disconnect(u)) \/ WatcherStep
<1> USE DEF shared
<1>1. ASSUME NEW u \in Users, connect_by(u) \/ refresh_config(u) PROVE FALSE
    BY <1>1 DEF connect_by, refresh_config
<1>2. ASSUME NEW c \in Callers, Connect(c) \/ TakesSlot(c) \/ TellsDisconnected(c)
      PROVE  FALSE
    BY <1>2 DEF Connect, OpenFails, Installs, SpawnsReader, Configures, AsksConfig,
                teardown_generation, TellsTornDown, TakesSlot, TellsDisconnected
<1>3. ASSUME NEW u \in Users, ArmsReconnect(u) \/ ConnectFails(u) \/ Refreshes(u)
      PROVE  FALSE
    BY <1>3 DEF ArmsReconnect, ConnectFails, Refreshes
<1>4. ASSUME NEW g \in DOMAIN conns, LinkDies(g) \/ Reader(g) PROVE FALSE
    BY <1>4 DEF LinkDies, Reader, SilenceGivesUp, Probes, ConfigComplete, ReaderAdvances,
                StreamEnds, ReaderTearsDown, ReaderTellsDisconnected, try_reconnect
<1>5. CASE Watchdog
    BY <1>5 DEF Watchdog, WatchdogRetries, WatchdogResends, WatchdogReverts
<1>6. CASE UNCHANGED vars
    BY <1>6 DEF vars
<1> QED BY <1>1, <1>2, <1>3, <1>4, <1>5, <1>6 DEF Next, UserStarts, CallSteps

\* The step of another task.
LEMMA OthersWatch ==
    ASSUME StateOK, NewestInstalled, WatchInv, [Next]_vars, ~WatcherStep,
           call'[Watcher] = call[Watcher], attempts' = attempts
    PROVE  WatchInv'
<1>k. /\ generation \in Nat /\ call \in [Callers -> CallType(generation)]
      /\ Watcher \in Callers /\ Users \subseteq Callers
    BY DEF StateOK, Callers
<1>w. call[Watcher].gen \in 0 .. generation
    BY <1>k DEF CallType
<1>1. CASE slot' = NoTransport \/ slot' = generation + 1
    <2>1. ~Mine'
        BY <1>1, <1>k, <1>w DEF Mine
    <2> QED BY <2>1 DEF WatchInv
<1>2. CASE slot' = slot
    <2>1. Mine' <=> Mine
        BY <1>2 DEF Mine
    <2>2. ASSUME call[Watcher].at \in {"waiting", "retry", "look"}, Mine, ~reconnect',
                 slot # NoTransport
          PROVE  \E u \in Users : call'[u].at = "take"
        <3>1. ASSUME reconnect, NEW u \in Users, disconnect(u)
              PROVE  call'[u].at = "take"
            BY <1>k, <3>1 DEF disconnect, UserCalls, Doing
        <3>2. ASSUME NEW u \in Users, call[u].at = "take" PROVE call'[u].at = "take"
            <4>1. ~TakesSlot(u)
                BY <1>2, <2>2 DEF TakesSlot
            <4> QED BY <3>2, <4>1, TakeStays
        <3> QED BY <2>2, <3>1, <3>2, IntentStays DEF WatchInv
    <2> QED BY <2>1, <2>2 DEF WatchInv, Mine
<1> QED BY <1>1, <1>2, SlotMoves

\* The watcher's own step.
LEMMA OwnWatch ==
    ASSUME StateOK, TryInv, NewestInstalled, WatchInv,
           Connect(Watcher) \/ TakesSlot(Watcher) \/ TellsDisconnected(Watcher) \/ WatcherStep
    PROVE  WatchInv'
<1> USE DEF WatchInv, Mine, shared, policy
<1>k. /\ generation \in Nat /\ call \in [Callers -> CallType(generation)]
      /\ Watcher \in Callers /\ Users \subseteq Callers /\ Watcher \notin Users
    BY ConnectionAssumption DEF StateOK, Callers, ConnectionAssumption
<1>g. ASSUME NEW at, Goes(Watcher, at)
      PROVE  /\ call'[Watcher].at = at /\ call'[Watcher].gen = call[Watcher].gen
             /\ \A u \in Users : call'[u] = call[u]
    BY <1>g, <1>k DEF Goes, CallType
<1>1. CASE OpenFails(Watcher) \/ TellsTornDown(Watcher)
    <2>1. /\ Goes(Watcher, "failed") /\ call[Watcher].at \in {"open", "tell"}
          /\ UNCHANGED <<slot, attempts>>
        BY <1>1 DEF OpenFails, TellsTornDown
    <2> QED BY <1>g, <2>1
<1>2. CASE Installs(Watcher)
    <2>1. call'[Watcher].at = "settle" /\ attempts' = attempts /\ attempts < MaxAttempts
        BY <1>2, <1>k DEF Installs, CallType, TryInv, Trying
    <2> QED BY <2>1
<1>3. CASE SpawnsReader(Watcher) \/ Configures(Watcher) \/ AsksConfig(Watcher)
    <2>1. PICK at \in {"configure", "ask", "check", "teardown"} :
            Goes(Watcher, at) /\ UNCHANGED <<slot, attempts>>
        BY <1>3 DEF SpawnsReader, Configures, AsksConfig
    <2> QED BY <1>g, <2>1
<1>4. CASE teardown_generation(Watcher)
    <2>1. /\ Goes(Watcher, "tell") /\ attempts' = attempts
          /\ slot' = IF generation = call[Watcher].gen THEN NoTransport ELSE slot
        BY <1>4 DEF teardown_generation
    <2> QED BY <1>g, <2>1 DEF NewestInstalled
<1>5. CASE TakesSlot(Watcher)
    <2>1. Goes(Watcher, "bye") /\ slot' = NoTransport
        BY <1>5 DEF TakesSlot
    <2> QED BY <1>g, <2>1
<1>6. CASE TellsDisconnected(Watcher)
    <2>1. /\ Goes(Watcher, "waiting") /\ call[Watcher].at = "bye"
          /\ UNCHANGED <<slot, attempts>>
        BY <1>6 DEF TellsDisconnected
    <2> QED BY <1>g, <2>1
<1>7. CASE WatcherNotified
    <2>1. /\ Goes(Watcher, "retry") /\ call[Watcher].at = "waiting"
          /\ UNCHANGED <<slot, reconnect>> /\ attempts' \in {attempts, 0}
        BY <1>7 DEF WatcherNotified, Watches
    <2>2. MaxAttempts > 0
        BY ConnectionAssumption DEF ConnectionAssumption
    <2> QED BY <1>g, <2>1, <2>2
<1>8. CASE GivesUp
    <2>1. /\ Goes(Watcher, "waiting") /\ attempts >= MaxAttempts
          /\ UNCHANGED <<slot, attempts>>
        BY <1>8 DEF GivesUp
    <2>2. attempts \in Int /\ MaxAttempts \in Int
        BY ConnectionAssumption DEF ConnectionAssumption, StateOK
    <2>3. ~Mine
        BY <2>1, <2>2
    <2> QED BY <1>g, <2>1, <2>3
<1>9. CASE WatcherWakes
    <2>1. /\ Goes(Watcher, "look") \/ Goes(Watcher, "waiting")
          /\ call[Watcher].at = "retry" /\ UNCHANGED <<slot, reconnect, attempts>>
        BY <1>9 DEF WatcherWakes, Watches
    <2> QED BY <1>g, <2>1
<1>10. CASE WatcherLooks
    <2>1. /\ call[Watcher].at = "look" /\ UNCHANGED <<slot, reconnect, attempts>>
          /\ \/ Goes(Watcher, "waiting")
             \/ Goes(Watcher, "open") /\ slot = NoTransport
        BY <1>10 DEF WatcherLooks, Watches
    <2> QED BY <1>g, <2>1
<1>11. CASE WatcherFails
    <2>1. Goes(Watcher, "retry") /\ call[Watcher].at = "failed" /\ slot' = slot
        BY <1>11 DEF WatcherFails, Watches
    <2> QED BY <1>g, <2>1
<1>12. CASE WatcherChecks
    <2>1. /\ UNCHANGED <<slot, reconnect, attempts>>
          /\ (Goes(Watcher, "waiting") /\ reconnect) \/ Goes(Watcher, "undo")
        BY <1>12 DEF WatcherChecks
    <2> QED BY <1>g, <2>1
<1>13. CASE WatcherUndoes
    <2>1. Goes(Watcher, "take") /\ UNCHANGED <<slot, attempts>>
        BY <1>13 DEF WatcherUndoes
    <2> QED BY <1>g, <2>1
<1> QED BY <1>1, <1>2, <1>3, <1>4, <1>5, <1>6, <1>7, <1>8, <1>9, <1>10, <1>11, <1>12, <1>13
        DEF Connect, WatcherStep

\* A connection the watcher made outlives the user's disconnect only while
\* that disconnect is still on its way to the slot, for any number of users
\* and attempts.
THEOREM WatcherCorrect == Spec => []WatcherHonoursDisconnect
<1>1. Init => NewestInstalled /\ WatchInv
    BY DEF Init, NewestInstalled, WatchInv, Mine
<1>2. TypeInv /\ NewestInstalled /\ WatchInv /\ [Next]_vars => NewestInstalled' /\ WatchInv'
    <2> SUFFICES ASSUME TypeInv, NewestInstalled, WatchInv, [Next]_vars
                 PROVE  NewestInstalled' /\ WatchInv'
        OBVIOUS
    <2>1. CASE Connect(Watcher) \/ TakesSlot(Watcher) \/ TellsDisconnected(Watcher)
               \/ WatcherStep
        BY <2>1, OwnWatch, NewestStep DEF TypeInv
    <2>2. CASE ~(Connect(Watcher) \/ TakesSlot(Watcher) \/ TellsDisconnected(Watcher)
                 \/ WatcherStep)
        BY <2>2, WhoseStep, WatcherAlone, OthersWatch, NewestStep DEF TypeInv
    <2> QED BY <2>1, <2>2
<1>3. WatchInv => WatcherHonoursDisconnect
    BY DEF WatchInv, WatcherHonoursDisconnect, Watches, Mine
<1> QED BY <1>1, <1>2, <1>3, TypeInvariance, PTL DEF Spec

=============================================================================
