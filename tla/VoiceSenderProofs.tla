-------------------------- MODULE VoiceSenderProofs --------------------------
(***************************************************************************)
(* Proofs about VoiceSender for every set of messages and tasks and every  *)
(* bound.  What a step does to one message it leaves undone to the others, *)
(* so each invariant is shown for the message of the step and carried over *)
(* for the rest (OthersSame, TasksSame).                                   *)
(***************************************************************************)
EXTENDS VoiceSender, FiniteSetTheorems, SequenceTheorems, WellFoundedInduction, TLAPS

-----------------------------------------------------------------------------
(* The registry *)

\* A map of entries, as a fact about one value.
RegOK(reg) ==
    /\ DOMAIN reg \subseteq Messages
    /\ reg = [x \in DOMAIN reg |-> reg[x]]
    /\ \A x \in DOMAIN reg : reg[x] \in EntryType

\* An operation on the entry of m leaves the others as they are, or drops them.
OthersSame(new, old, m) ==
    \A x \in DOMAIN new \ {m} : x \in DOMAIN old /\ new[x] = old[x]

LEMMA RegType == ASSUME NEW reg PROVE RegOK(reg) <=>
    DOMAIN reg \subseteq Messages /\ reg \in [DOMAIN reg -> EntryType]
BY DEF RegOK

LEMMA Sizes ==
    /\ DataChunks \in Nat \ {0} /\ MaxRetransmits \in Nat
    /\ Frames \in Nat /\ Frames >= DataChunks
    /\ Permits \in Nat \ {0} /\ MaxNacks \in Nat
    /\ IsFiniteSet(TaskIds) /\ TaskIds \subseteq Nat
BY RegistryAssumption, SenderAssumption DEF RegistryAssumption, SenderAssumption

LEMMA RemoveOK ==
    ASSUME NEW reg, RegOK(reg), NEW m
    PROVE  /\ RegOK(remove(reg, m)) /\ m \notin DOMAIN remove(reg, m)
           /\ \A n : OthersSame(remove(reg, m), reg, n)
BY DEF RegOK, remove, OthersSame

LEMMA PruneOK ==
    ASSUME NEW reg, RegOK(reg)
    PROVE  /\ RegOK(prune_expired(reg))
           /\ \A n : OthersSame(prune_expired(reg), reg, n)
           /\ \A x \in DOMAIN prune_expired(reg) :
                 x \in DOMAIN reg /\ prune_expired(reg)[x] = reg[x]
BY DEF RegOK, prune_expired, OthersSame

NewEntry ==
    [pending |-> Chunks, retransmits |-> 0, cooling |-> FALSE,
     expired |-> FALSE, deferred |-> NoList, wake_up |-> FALSE]

LEMMA RegisterOK ==
    ASSUME NEW reg, RegOK(reg), NEW m \in Messages
    PROVE  /\ RegOK(register(reg, m)) /\ OthersSame(register(reg, m), reg, m)
           /\ m \in DOMAIN register(reg, m) /\ register(reg, m)[m] = NewEntry
<1> DEFINE p == prune_expired(reg)
<1>1. RegOK(p) /\ OthersSame(p, reg, m)
    BY PruneOK
<1>2. register(reg, m) = [x \in DOMAIN p \cup {m} |-> IF x = m THEN NewEntry ELSE p[x]]
    BY DEF register, Put, NewEntry
<1> HIDE DEF p
<1>3. NewEntry \in EntryType
    BY Sizes DEF NewEntry, EntryType, NoList
<1> QED BY <1>1, <1>2, <1>3 DEF RegOK, OthersSame

\* An entry put in the place of the one there is.
Change(reg, m, e) == [reg EXCEPT ![m] = e]

LEMMA EntryPut ==
    ASSUME NEW reg, RegOK(reg), NEW m \in DOMAIN reg, NEW e \in EntryType
    PROVE  /\ RegOK(Change(reg, m, e)) /\ OthersSame(Change(reg, m, e), reg, m)
           /\ DOMAIN Change(reg, m, e) = DOMAIN reg /\ Change(reg, m, e)[m] = e
<1> DEFINE new == Change(reg, m, e)
<1>1. DOMAIN new = DOMAIN reg /\ \A x \in DOMAIN reg \ {m} : new[x] = reg[x]
    BY DEF Change
<1>2. new[m] = e
    BY DEF Change
<1>3. new = [x \in DOMAIN new |-> new[x]]
    BY DEF Change
<1> HIDE DEF new
<1>4. RegOK(new) /\ OthersSame(new, reg, m)
    BY <1>1, <1>2, <1>3 DEF RegOK, OthersSame
<1> QED BY <1>1, <1>2, <1>4 DEF new

LEMMA MarkOK ==
    ASSUME NEW reg, RegOK(reg), NEW m, NEW chunks
    PROVE  LET new == mark_chunk_sent(reg, m, chunks) IN
           /\ RegOK(new) /\ OthersSame(new, reg, m) /\ DOMAIN new = DOMAIN reg
           /\ m \in DOMAIN reg =>
                 /\ new[m].pending = reg[m].pending \ chunks
                 /\ new[m].wake_up = reg[m].wake_up /\ new[m].deferred = reg[m].deferred
<1>1. CASE m \in DOMAIN reg
    <2> DEFINE e == reg[m]
               p == e.pending \ chunks
               f == [e EXCEPT !.pending = p]
    <2>1. mark_chunk_sent(reg, m, chunks) = Change(reg, m, f)
        BY <1>1 DEF mark_chunk_sent, Change
    <2>2. e \in EntryType
        BY <1>1 DEF RegOK
    <2>3. p \in SUBSET Chunks
        BY <2>2 DEF EntryType
    <2> HIDE DEF p, e
    <2>4. /\ f \in EntryType /\ f.pending = p
          /\ f.wake_up = e.wake_up /\ f.deferred = e.deferred
        BY <2>2, <2>3 DEF EntryType
    <2> HIDE DEF f
    <2> DEFINE new == mark_chunk_sent(reg, m, chunks)
    <2>5. /\ RegOK(new) /\ OthersSame(new, reg, m)
          /\ DOMAIN new = DOMAIN reg /\ new[m] = f
        <3> HIDE DEF new
        <3> QED BY <1>1, <2>1, <2>4, EntryPut DEF new
    <2> QED BY <2>4, <2>5 DEF p, e
<1>2. CASE m \notin DOMAIN reg
    BY <1>2 DEF mark_chunk_sent, OthersSame
<1> QED BY <1>1, <1>2

LEMMA TakeOK ==
    ASSUME NEW reg, RegOK(reg), NEW m, NEW missing
    PROVE  LET new == take_retransmit(reg, m, missing)
               out == TakeOutcome(reg, m, missing)
           IN  /\ RegOK(new) /\ OthersSame(new, reg, m)
               /\ m \in DOMAIN new =>
                     /\ m \in DOMAIN reg
                     /\ new[m].wake_up = reg[m].wake_up /\ new[m].deferred = reg[m].deferred
                     /\ out = "Ok" => new[m].pending =
                           reg[m].pending \cup frames_for(reg[m], missing)
                     /\ out # "Ok" => new[m].pending = reg[m].pending
               /\ out = "Ok" => m \in DOMAIN reg /\ frames_for(reg[m], missing) # {}
<1> DEFINE out == TakeOutcome(reg, m, missing)
<1>0. out = "Ok" => /\ m \in DOMAIN reg /\ frames_for(reg[m], missing) # {}
                    /\ ~(reg[m].retransmits >= MaxRetransmits)
    BY DEF TakeOutcome
<1>t. take_retransmit(reg, m, missing) =
        IF out = "TtlExpired" THEN remove(reg, m)
        ELSE IF out = "Ok"
          THEN [reg EXCEPT ![m].pending = @ \cup frames_for(reg[m], missing),
                           ![m].retransmits = @ + 1, ![m].cooling = TRUE]
          ELSE reg
    BY DEF take_retransmit
<1> HIDE DEF out
<1>1. CASE out = "TtlExpired"
    BY <1>0, <1>1, <1>t, RemoveOK DEF out
<1>2. CASE out = "Ok"
    <2> DEFINE e == reg[m]
               p == e.pending \cup frames_for(e, missing)
               r == e.retransmits + 1
               f == [e EXCEPT !.pending = p, !.retransmits = r, !.cooling = TRUE]
    <2>1. take_retransmit(reg, m, missing) = Change(reg, m, f)
        BY <1>0, <1>2, <1>t DEF Change
    <2>2. e \in EntryType
        BY <1>0, <1>2 DEF RegOK
    <2>3. p \in SUBSET Chunks
        BY <2>2 DEF EntryType, frames_for
    <2>4. r \in 0 .. MaxRetransmits
        BY <1>0, <1>2, <2>2, Sizes DEF EntryType
    <2> HIDE DEF p, e, r
    <2>5. /\ f \in EntryType /\ f.pending = p
          /\ f.wake_up = e.wake_up /\ f.deferred = e.deferred
        BY <2>2, <2>3, <2>4 DEF EntryType
    <2> HIDE DEF f
    <2> DEFINE new == take_retransmit(reg, m, missing)
    <2>6. /\ RegOK(new) /\ OthersSame(new, reg, m)
          /\ DOMAIN new = DOMAIN reg /\ new[m] = f
        <3> HIDE DEF new
        <3> QED BY <1>0, <1>2, <2>1, <2>5, EntryPut DEF new
    <2> QED BY <1>0, <1>2, <2>5, <2>6 DEF p, e, out
<1>3. CASE out # "TtlExpired" /\ out # "Ok"
    BY <1>0, <1>3, <1>t DEF OthersSame, out
<1> QED BY <1>1, <1>2, <1>3

LEMMA TakePending ==
    ASSUME NEW reg, RegOK(reg), NEW m, NEW missing, TakeOutcome(reg, m, missing) = "Ok"
    PROVE  /\ OthersSame(take_retransmit(reg, m, missing), reg, m) /\ m \in DOMAIN reg
           /\ m \in DOMAIN take_retransmit(reg, m, missing) =>
                 take_retransmit(reg, m, missing)[m].pending =
                    reg[m].pending \cup frames_for(reg[m], missing)
BY TakeOK

LEMMA DeferOK ==
    ASSUME NEW reg, RegOK(reg), NEW m, NEW missing \in SUBSET Chunks
    PROVE  LET new == defer_nack(reg, m, missing)
               out == DeferOutcome(reg, m)
           IN  /\ RegOK(new) /\ OthersSame(new, reg, m) /\ DOMAIN new = DOMAIN reg
               /\ m \in DOMAIN reg =>
                     /\ new[m].pending = reg[m].pending
                     /\ out \in {"AlreadyScheduled", "Scheduled"} => new[m].wake_up
                     /\ out \notin {"AlreadyScheduled", "Scheduled"} => new[m] = reg[m]
               /\ out = "Scheduled" => m \in DOMAIN reg /\ ~reg[m].wake_up
               /\ out = "AlreadyScheduled" => m \in DOMAIN reg /\ reg[m].wake_up
<1> DEFINE out == DeferOutcome(reg, m)
<1>0. /\ out = "Scheduled" => m \in DOMAIN reg /\ ~reg[m].wake_up
      /\ out = "AlreadyScheduled" => m \in DOMAIN reg /\ reg[m].wake_up
    BY DEF DeferOutcome
<1>t. defer_nack(reg, m, missing) =
        IF out \in {"AlreadyScheduled", "Scheduled"}
          THEN [reg EXCEPT ![m].deferred = missing, ![m].wake_up = TRUE]
          ELSE reg
    BY DEF defer_nack
<1> HIDE DEF out
<1>1. CASE out \in {"AlreadyScheduled", "Scheduled"}
    <2> DEFINE e == reg[m]
               f == [e EXCEPT !.deferred = missing, !.wake_up = TRUE]
    <2>1. defer_nack(reg, m, missing) = Change(reg, m, f)
        BY <1>1, <1>t DEF Change
    <2>2. e \in EntryType
        BY <1>0, <1>1 DEF RegOK
    <2> HIDE DEF e
    <2>3. f \in EntryType /\ f.pending = e.pending /\ f.wake_up
        BY <2>2 DEF EntryType
    <2> HIDE DEF f
    <2> DEFINE new == defer_nack(reg, m, missing)
    <2>4. /\ RegOK(new) /\ OthersSame(new, reg, m)
          /\ DOMAIN new = DOMAIN reg /\ new[m] = f
        <3> HIDE DEF new
        <3> QED BY <1>0, <1>1, <2>1, <2>3, EntryPut DEF new
    <2> QED BY <1>0, <1>1, <2>3, <2>4 DEF e, out
<1>2. CASE out \notin {"AlreadyScheduled", "Scheduled"}
    BY <1>0, <1>2, <1>t DEF OthersSame, out
<1> QED BY <1>1, <1>2

LEMMA TakeDeferredOK ==
    ASSUME NEW reg, RegOK(reg), NEW m
    PROVE  LET new == take_deferred(reg, m)
           IN  /\ RegOK(new) /\ OthersSame(new, reg, m) /\ DOMAIN new = DOMAIN reg
               /\ m \in DOMAIN reg =>
                     /\ new[m].pending = reg[m].pending
                     /\ ~new[m].wake_up /\ new[m].deferred = NoList
<1>1. CASE m \in DOMAIN reg
    <2> DEFINE e == reg[m]
               f == [e EXCEPT !.deferred = NoList, !.wake_up = FALSE]
    <2>1. take_deferred(reg, m) = Change(reg, m, f)
        BY <1>1 DEF take_deferred, Change
    <2>2. e \in EntryType
        BY <1>1 DEF RegOK
    <2> HIDE DEF e
    <2>3. f \in EntryType /\ f.pending = e.pending /\ ~f.wake_up /\ f.deferred = NoList
        BY <2>2 DEF EntryType, NoList
    <2> HIDE DEF f
    <2> DEFINE new == take_deferred(reg, m)
    <2>4. /\ RegOK(new) /\ OthersSame(new, reg, m)
          /\ DOMAIN new = DOMAIN reg /\ new[m] = f
        <3> HIDE DEF new
        <3> QED BY <1>1, <2>1, <2>3, EntryPut DEF new
    <2> QED BY <2>3, <2>4 DEF e
<1>2. CASE m \notin DOMAIN reg
    BY <1>2 DEF take_deferred, OthersSame
<1> QED BY <1>1, <1>2

\* Time passes for the entry of m.
LEMMA FlagOK ==
    ASSUME NEW reg, RegOK(reg), NEW m \in DOMAIN reg, NEW new,
           \/ new = [reg EXCEPT ![m].cooling = FALSE]
           \/ new = [reg EXCEPT ![m].expired = TRUE]
    PROVE  /\ RegOK(new) /\ OthersSame(new, reg, m) /\ DOMAIN new = DOMAIN reg
           /\ new[m].pending = reg[m].pending
           /\ new[m].wake_up = reg[m].wake_up /\ new[m].deferred = reg[m].deferred
<1> DEFINE e == reg[m]
           c == [e EXCEPT !.cooling = FALSE]
           x == [e EXCEPT !.expired = TRUE]
<1>1. new = Change(reg, m, c) \/ new = Change(reg, m, x)
    BY DEF Change
<1>2. e \in EntryType
    BY DEF RegOK
<1> HIDE DEF e
<1>3. /\ c \in EntryType /\ c.pending = e.pending
      /\ c.wake_up = e.wake_up /\ c.deferred = e.deferred
    BY <1>2 DEF EntryType
<1>4. /\ x \in EntryType /\ x.pending = e.pending
      /\ x.wake_up = e.wake_up /\ x.deferred = e.deferred
    BY <1>2 DEF EntryType
<1> HIDE DEF c, x
<1>5. new = Change(reg, m, c) => new[m] = c /\ RegOK(new) /\ OthersSame(new, reg, m) /\ DOMAIN new = DOMAIN reg
    BY <1>3, EntryPut
<1>6. new = Change(reg, m, x) => new[m] = x /\ RegOK(new) /\ OthersSame(new, reg, m) /\ DOMAIN new = DOMAIN reg
    BY <1>4, EntryPut
<1> QED BY <1>1, <1>3, <1>4, <1>5, <1>6 DEF e

-----------------------------------------------------------------------------
(* The retransmit tasks *)

SleepType == [at : {"sleeping"}, msg : Messages, due : BOOLEAN]
CarryType == [at : {"awake", "redefer", "queued", "sending"}, msg : Messages,
              chunks : (SUBSET Chunks) \ {NoList}]
Live == SleepType \cup CarryType
Task == {Idle} \cup Live

Of(ts, m) == { t \in TaskIds : ts[t] # Idle /\ ts[t].msg = m }
Sleeping(ts, m) == { t \in Of(ts, m) : ts[t].at = "sleeping" }

LEMMA IdleIsDead ==
    \A k \in Live : /\ k # Idle /\ k.msg \in Messages
                    /\ k.at \in {"sleeping", "awake", "redefer", "queued", "sending"}
BY DEF Live, SleepType, CarryType, Idle

LEMMA NewTasks ==
    ASSUME NEW m \in Messages
    PROVE  /\ Asleep(m) \in Live /\ Asleep(m).msg = m /\ Asleep(m).at = "sleeping"
           /\ \A chunks \in (SUBSET Chunks) \ {NoList} :
                 /\ Awake(m, chunks) \in Live /\ Awake(m, chunks).msg = m
                 /\ Redeferring(m, chunks) \in Live /\ Redeferring(m, chunks).msg = m
                 /\ Queued(m, chunks) \in Live /\ Queued(m, chunks).msg = m
                 /\ Dispatching(m, chunks) \in Live /\ Dispatching(m, chunks).msg = m
                 /\ Awake(m, chunks).at = "awake"
                 /\ Redeferring(m, chunks).at = "redefer"
                 /\ Queued(m, chunks).at = "queued"
                 /\ Dispatching(m, chunks).at = "sending"
                 /\ Awake(m, chunks).chunks = chunks
                 /\ Redeferring(m, chunks).chunks = chunks
                 /\ Queued(m, chunks).chunks = chunks
                 /\ Dispatching(m, chunks).chunks = chunks
BY DEF Asleep, Awake, Redeferring, Queued, Dispatching, Live, SleepType, CarryType

LEMMA OfFinite ==
    ASSUME NEW ts, NEW m
    PROVE  IsFiniteSet(Of(ts, m)) /\ Cardinality(Of(ts, m)) \in Nat
BY Sizes, FS_Subset, FS_CardinalityType DEF Of

TaskPart ==
    /\ tasks \in [TaskIds -> Task]
    /\ inflight \in [Messages -> Nat]
    /\ InflightCountsTasks

LEMMA CountsOf ==
    /\ InflightCountsTasks <=> \A m \in Messages : inflight[m] = Cardinality(Of(tasks, m))
    /\ InflightCountsTasks' <=> \A m \in Messages : inflight'[m] = Cardinality(Of(tasks', m))
BY DEF InflightCountsTasks, TasksOf, Of

LEMMA Spawned ==
    ASSUME TaskPart, NEW m \in Messages, NEW k \in Live, k.msg = m, Spawn(m, k)
    PROVE  /\ TaskPart'
           /\ \E t \in TaskIds : tasks[t] = Idle /\ tasks' = [tasks EXCEPT ![t] = k]
<1>1. PICK t \in TaskIds : /\ tasks[t] = Idle
                           /\ tasks' = [tasks EXCEPT ![t] = k]
                           /\ inflight' = [inflight EXCEPT ![m] = @ + 1]
    BY DEF Spawn, FreeId
<1>2. tasks' \in [TaskIds -> Task] /\ k # Idle
    BY <1>1, IdleIsDead DEF TaskPart, Task
<1>3. inflight' \in [Messages -> Nat]
    BY <1>1 DEF TaskPart
<1>4. Of(tasks', m) = Of(tasks, m) \cup {t} /\ t \notin Of(tasks, m)
    BY <1>1, <1>2 DEF Of, TaskPart
<1>5. \A n \in Messages \ {m} : Of(tasks', n) = Of(tasks, n)
    BY <1>1, <1>2 DEF Of, TaskPart
<1>6. Cardinality(Of(tasks', m)) = Cardinality(Of(tasks, m)) + 1
    BY <1>4, OfFinite, FS_AddElement
<1>7. \A n \in Messages : inflight'[n] = Cardinality(Of(tasks', n))
    <2> SUFFICES ASSUME NEW n \in Messages
                 PROVE  inflight'[n] = Cardinality(Of(tasks', n))
        OBVIOUS
    <2>1. inflight[n] = Cardinality(Of(tasks, n))
        BY CountsOf DEF TaskPart
    <2> QED BY <2>1, <1>1, <1>5, <1>6 DEF TaskPart
<1> QED BY <1>1, <1>2, <1>3, <1>7, CountsOf DEF TaskPart

LEMMA Ended ==
    ASSUME TaskPart, NEW t \in TaskIds, tasks[t] \in Live, End(t)
    PROVE  TaskPart' /\ tasks' = [tasks EXCEPT ![t] = Idle]
<1> DEFINE m == tasks[t].msg
<1>1. tasks' = [tasks EXCEPT ![t] = Idle] /\ inflight' = [inflight EXCEPT ![m] = @ - 1]
    BY DEF End
<1>2. m \in Messages /\ tasks[t] # Idle
    BY IdleIsDead
<1>3. tasks' \in [TaskIds -> Task]
    BY <1>1 DEF TaskPart, Task
<1>4. Of(tasks', m) = Of(tasks, m) \ {t} /\ t \in Of(tasks, m)
    BY <1>1, <1>2 DEF Of, TaskPart
<1>5. \A n \in Messages \ {m} : Of(tasks', n) = Of(tasks, n)
    BY <1>1, <1>2 DEF Of, TaskPart
<1> HIDE DEF m
<1>6. Cardinality(Of(tasks', m)) = Cardinality(Of(tasks, m)) - 1
    BY <1>4, OfFinite, FS_RemoveElement
<1>7. inflight'[m] = Cardinality(Of(tasks', m))
    BY <1>1, <1>2, <1>6, CountsOf DEF TaskPart
<1>8. \A n \in Messages \ {m} : inflight'[n] = inflight[n] /\ inflight[n] = Cardinality(Of(tasks', n))
    BY <1>1, <1>5, CountsOf DEF TaskPart
<1>9. inflight' \in [Messages -> Nat]
    BY <1>1, <1>7, <1>8, <1>2, OfFinite DEF TaskPart
<1> QED BY <1>1, <1>3, <1>7, <1>8, <1>9, CountsOf DEF TaskPart

LEMMA Became ==
    ASSUME TaskPart, NEW t \in TaskIds, tasks[t] \in Live,
           NEW k \in Live, k.msg = tasks[t].msg, Become(t, k)
    PROVE  TaskPart' /\ tasks' = [tasks EXCEPT ![t] = k]
<1>1. tasks' = [tasks EXCEPT ![t] = k] /\ inflight' = inflight
    BY DEF Become
<1>2. tasks' \in [TaskIds -> Task]
    BY <1>1 DEF TaskPart, Task
<1>3. \A n \in Messages : Of(tasks', n) = Of(tasks, n)
    BY <1>1, IdleIsDead DEF Of, TaskPart
<1> QED BY <1>1, <1>2, <1>3, CountsOf DEF TaskPart

\* The sleepers of m are due.
LEMMA MadeDue ==
    ASSUME tasks \in [TaskIds -> Task], NEW m \in Messages, CooldownLapses(m)
    PROVE  /\ tasks' \in [TaskIds -> Task]
           /\ \A t \in TaskIds : /\ (tasks'[t] = Idle) <=> (tasks[t] = Idle)
                                 /\ tasks[t] \in Live => /\ tasks'[t].at = tasks[t].at
                                                         /\ tasks'[t].msg = tasks[t].msg
                                 /\ tasks[t] \notin SleepType => tasks'[t] = tasks[t]
<1>1. tasks' = [t \in TaskIds |->
          IF t \in Sleepers(m) THEN [tasks[t] EXCEPT !.due = TRUE] ELSE tasks[t]]
    BY DEF CooldownLapses
<1> SUFFICES ASSUME NEW t \in TaskIds
             PROVE  /\ tasks'[t] \in Task
                    /\ (tasks'[t] = Idle) <=> (tasks[t] = Idle)
                    /\ tasks[t] \in Live => /\ tasks'[t].at = tasks[t].at
                                            /\ tasks'[t].msg = tasks[t].msg
                    /\ tasks[t] \notin SleepType => tasks'[t] = tasks[t]
    BY <1>1
<1>2. CASE t \in Sleepers(m)
    <2> DEFINE k == tasks[t]
    <2>1. tasks'[t] = [k EXCEPT !.due = TRUE]
        BY <1>1, <1>2
    <2>2. k \in SleepType
        BY <1>2, IdleIsDead DEF Sleepers, TasksOf, Task, Live, CarryType
    <2> HIDE DEF k
    <2>3. [k EXCEPT !.due = TRUE] \in SleepType
        BY <2>2 DEF SleepType
    <2>4. [k EXCEPT !.due = TRUE].msg = k.msg /\ [k EXCEPT !.due = TRUE].at = k.at
        BY <2>2 DEF SleepType
    <2> QED BY <2>1, <2>2, <2>3, <2>4, IdleIsDead DEF Task, Live, k
<1>3. CASE t \notin Sleepers(m)
    BY <1>1, <1>3
<1> QED BY <1>2, <1>3

-----------------------------------------------------------------------------
(* Type correctness, and the count run_send waits on *)

BurstType ==
    [Messages ->
      [at : {"unsent", "start", "check", "enqueued", "failing", "linger",
             "drain", "claim", "claimed", "forget", "done"},
       next : 0 .. Frames]]
ServeType ==
    [at : {"give_up", "cleanup", "take", "defer"}, msg : Messages,
     chunks : SUBSET Chunks, tries : 0 .. 2]

RegPart == RegOK(registry) /\ active \subseteq Messages
\* The next frame is one of the message's while run_send hands it over.
InBurst == \A m \in Messages : burst[m].at = "enqueued" => burst[m].next < Frames

LoopPart ==
    /\ burst \in BurstType /\ InBurst
    /\ listener = Receiving \/ listener \in ServeType
    /\ nacks \in 0 .. MaxNacks
EndsPart == ends \in [Messages -> Seq(Terminal)]
Types == RegPart /\ LoopPart /\ TaskPart /\ EndsPart

LEMMA TypesImply == Types => TypeOK
BY RegType DEF Types, RegPart, LoopPart, TaskPart, EndsPart, TypeOK, BurstType,
               ServeType, Task, Live, SleepType, CarryType

LEMMA TypesInit == Init => Types
<1> SUFFICES ASSUME Init PROVE Types
    OBVIOUS
<1>1. RegPart
    BY DEF Init, RegPart, RegOK
<1>2. LoopPart
    BY Sizes DEF Init, LoopPart, BurstType, InBurst
<1>3. EndsPart
    BY DEF Init, EndsPart
<1>4. \A m : Of(tasks, m) = {}
    BY DEF Init, Of
<1>5. TaskPart
    BY <1>4, CountsOf, FS_EmptySet DEF Init, TaskPart, Task
<1> QED BY <1>1, <1>2, <1>3, <1>5 DEF Types

\* A listener that serves a NACK, and a task that is on its way.
LEMMA Serving ==
    ASSUME LoopPart, listener.at \in {"give_up", "cleanup", "take", "defer"}
    PROVE  listener \in ServeType /\ listener.msg \in Messages
           /\ listener.chunks \in SUBSET Chunks
BY DEF LoopPart, Receiving, ServeType

LEMMA Working ==
    ASSUME TaskPart, NEW t \in TaskIds
    PROVE  /\ tasks[t].at = "sleeping" => tasks[t] \in SleepType
           /\ tasks[t].at \in {"awake", "redefer", "queued", "sending"}
                 => /\ tasks[t] \in CarryType
                    /\ tasks[t].chunks \in (SUBSET Chunks) \ {NoList}
           /\ tasks[t].at \in {"sleeping", "awake", "redefer", "queued", "sending"}
                 => tasks[t] \in Live /\ tasks[t].msg \in Messages
BY DEF TaskPart, Task, Live, SleepType, CarryType, Idle

LEMMA NextCases ==
    ASSUME Next, NEW P,
           \A m \in Messages : send(m) \/ run_send(m) \/ CooldownLapses(m) \/ TtlElapses(m) => P,
           \A m \in Messages, missing \in (SUBSET Chunks) \ {NoList}, g \in BOOLEAN :
              NackArrives(m, missing, g) => P,
           Listen => P,
           \A t \in TaskIds : Retransmit(t) => P
    PROVE  P
BY DEF Next

\* Nothing touches the registry but its own operations.
LEMMA RegStep ==
    ASSUME Types, Next PROVE RegPart'
<1> USE DEF Types, RegPart
<1>1. ASSUME NEW m \in Messages, send(m) PROVE RegPart'
    BY <1>1, RegisterOK DEF send
<1>2. ASSUME NEW m \in Messages, run_send(m) PROVE RegPart'
    <2>1. CASE BurstSent(m)
        <3>1. RegOK(mark_chunk_sent(registry, m, {burst[m].next} \cap Chunks))
            BY MarkOK
        <3> QED BY <2>1, <3>1 DEF BurstSent
    <2>2. CASE BurstCleansUp(m)
        BY <2>2, RemoveOK DEF BurstCleansUp, cleanup
    <2>3. CASE Forget(m)
        BY <2>3, RemoveOK, PruneOK DEF Forget
    <2>4. CASE Claim(m)
        BY <2>4 DEF Claim
    <2>5. CASE \/ BurstChecks(m) \/ BurstFails(m) \/ BurstComplete(m)
               \/ LingerEnds(m) \/ Drained(m) \/ DrainTimesOut(m) \/ TellComplete(m)
        BY <2>5 DEF BurstChecks, BurstFails, BurstComplete, LingerEnds, Drained,
                    DrainTimesOut, TellComplete, maps
    <2> QED BY <1>2, <2>1, <2>2, <2>3, <2>4, <2>5 DEF run_send
<1>3. ASSUME NEW m \in Messages, CooldownLapses(m) PROVE RegPart'
    BY <1>3, FlagOK DEF CooldownLapses
<1>4. ASSUME NEW m \in Messages, TtlElapses(m) PROVE RegPart'
    BY <1>4, FlagOK DEF TtlElapses
<1>5. ASSUME NEW m \in Messages, NEW missing, NEW g, NackArrives(m, missing, g) PROVE RegPart'
    BY <1>5 DEF NackArrives, maps
<1>6. ASSUME Listen PROVE RegPart'
    <2>1. CASE GiveUpTold
        BY <2>1 DEF GiveUpTold, maps
    <2>2. CASE GiveUpCleansUp
        BY <2>2, RemoveOK DEF GiveUpCleansUp, cleanup
    <2>3. CASE ListenerDispatches \/ ListenerSkips
        <3>1. RegOK(take_retransmit(registry, listener.msg, listener.chunks))
            BY TakeOK
        <3> QED BY <2>3, <3>1 DEF ListenerDispatches, ListenerSkips, ListenerTakes
    <2>4. CASE ListenerDefers
        <3>1. RegOK(defer_nack(registry, listener.msg, listener.chunks))
            BY <2>4, Serving, DeferOK DEF ListenerDefers
        <3> QED BY <2>4, <3>1 DEF ListenerDefers
    <2> QED BY <1>6, <2>1, <2>2, <2>3, <2>4 DEF Listen
<1>7. ASSUME NEW t \in TaskIds, Retransmit(t) PROVE RegPart'
    <2>1. CASE WakesUp(t)
        <3>1. RegOK(take_deferred(registry, Msg(t)))
            BY TakeDeferredOK
        <3> QED BY <2>1, <3>1 DEF WakesUp
    <2>2. CASE AwakeTakes(t)
        <3>1. RegOK(take_retransmit(registry, Msg(t), tasks[t].chunks))
            BY TakeOK
        <3> QED BY <2>2, <3>1 DEF AwakeTakes
    <2>3. CASE Redefers(t)
        <3>1. tasks[t].chunks \in SUBSET Chunks
            BY <2>3, Working DEF Redefers
        <3>2. RegOK(defer_nack(registry, Msg(t), tasks[t].chunks))
            BY <3>1, DeferOK
        <3> QED BY <2>3, <3>2 DEF Redefers
    <2>4. CASE AcquiresPermit(t)
        BY <2>4 DEF AcquiresPermit
    <2>5. CASE Dispatches(t)
        <3>1. \A ok : RegOK(mark_chunk_sent(registry, Msg(t), Released(t, ok)))
            BY MarkOK
        <3> QED BY <2>5, <3>1 DEF Dispatches
    <2> QED BY <1>7, <2>1, <2>2, <2>3, <2>4, <2>5 DEF Retransmit
<1> QED BY <1>1, <1>2, <1>3, <1>4, <1>5, <1>6, <1>7 DEF Next

LEMMA LoopStep ==
    ASSUME Types, Next PROVE LoopPart'
<1>t. LoopPart
    BY DEF Types
<1>g. ASSUME NEW m \in Messages, NEW at, Goes(m, at),
             at \in {"unsent", "start", "check", "enqueued", "failing", "linger",
                     "drain", "claim", "claimed", "forget", "done"},
             at = "enqueued" => burst[m].next < Frames
      PROVE  burst' \in BurstType /\ InBurst'
    BY <1>t, <1>g DEF LoopPart, BurstType, Goes, InBurst
<1>1. ASSUME NEW m \in Messages, send(m) PROVE LoopPart'
    BY <1>1, <1>g, <1>t DEF send, LoopPart
<1>2. ASSUME NEW m \in Messages, run_send(m) PROVE LoopPart'
    <2>1. UNCHANGED <<listener, nacks>>
        BY <1>2 DEF run_send, BurstSent, BurstCleansUp, Forget, Claim, BurstChecks, BurstFails,
              BurstComplete, LingerEnds, Drained, DrainTimesOut, TellComplete
    <2>2. CASE BurstSent(m)
        <3>1. burst[m].next \in 0 .. Frames /\ burst[m].next < Frames
            BY <1>t, <2>2 DEF LoopPart, BurstType, InBurst, BurstSent
        <3>2. burst[m].next + 1 \in 0 .. Frames
            BY <3>1, Sizes
        <3>3. burst' \in BurstType
            BY <2>2, <1>t, <3>2 DEF BurstSent, LoopPart, BurstType
        <3>4. InBurst'
            BY <2>2, <1>t DEF BurstSent, LoopPart, BurstType, InBurst
        <3> QED BY <2>1, <3>3, <3>4, <1>t DEF LoopPart
    <2>3. CASE BurstCleansUp(m) \/ Forget(m) \/ Claim(m) \/ BurstChecks(m)
        <3>1. burst' \in BurstType /\ InBurst'
            <4>1. CASE BurstChecks(m)
                <5> DEFINE at == IF m \notin active THEN "done"
                                 ELSE IF burst[m].at = "start" THEN "check" ELSE "enqueued"
                <5>1. Goes(m, at) /\ (at = "enqueued" => burst[m].next < Frames)
                    BY <4>1 DEF BurstChecks
                <5>2. at \in {"done", "check", "enqueued"}
                    OBVIOUS
                <5> HIDE DEF at
                <5> QED BY <5>1, <5>2, <1>g
            <4>2. CASE BurstCleansUp(m) \/ Forget(m) \/ Claim(m)
                BY <4>2, <1>g DEF BurstCleansUp, Forget, Claim
            <4> QED BY <2>3, <4>1, <4>2
        <3> QED BY <2>1, <3>1, <1>t DEF LoopPart
    <2>4. CASE \/ BurstFails(m) \/ BurstComplete(m)
               \/ LingerEnds(m) \/ Drained(m) \/ DrainTimesOut(m) \/ TellComplete(m)
        <3>1. burst' \in BurstType /\ InBurst'
            BY <2>4, <1>g DEF BurstFails, BurstComplete, LingerEnds, Drained,
                    DrainTimesOut, TellComplete
        <3> QED BY <2>1, <3>1, <1>t DEF LoopPart
    <2> QED BY <1>2, <2>2, <2>3, <2>4 DEF run_send
<1>3. ASSUME NEW m \in Messages, CooldownLapses(m) \/ TtlElapses(m) PROVE LoopPart'
    BY <1>3, <1>t DEF CooldownLapses, TtlElapses, LoopPart, InBurst
<1>5. ASSUME NEW m \in Messages, NEW missing \in (SUBSET Chunks) \ {NoList}, NEW g \in BOOLEAN,
             NackArrives(m, missing, g)
      PROVE  LoopPart'
    <2>1. listener' \in ServeType
        BY <1>5 DEF NackArrives, ServeType
    <2>2. nacks' \in 0 .. MaxNacks /\ burst' = burst
        BY <1>5, <1>t, Sizes DEF NackArrives, LoopPart
    <2> QED BY <2>1, <2>2, <1>t DEF LoopPart, InBurst
<1>6. ASSUME Listen PROVE LoopPart'
    <2>0. UNCHANGED <<burst, nacks>>
        BY <1>6 DEF Listen, GiveUpTold, GiveUpCleansUp, ListenerDispatches, ListenerSkips,
              ListenerTakes, ListenerDefers
    <2>1. listener \in ServeType
        BY <1>6, <1>t, Serving DEF Listen, GiveUpTold, GiveUpCleansUp, ListenerDispatches,
              ListenerSkips, ListenerTakes, ListenerDefers
    <2>2. \A at \in {"give_up", "cleanup", "take", "defer"} :
             [listener EXCEPT !.at = at] \in ServeType
        BY <2>1 DEF ServeType
    <2>3. listener.tries < 2 =>
             [listener EXCEPT !.at = "take", !.tries = listener.tries + 1] \in ServeType
        <3> DEFINE k == listener.tries + 1
        <3>1. listener.tries \in 0 .. 2
            BY <2>1 DEF ServeType
        <3>2. listener.tries < 2 => k \in 0 .. 2
            BY <3>1
        <3> HIDE DEF k
        <3>3. k \in 0 .. 2 => [listener EXCEPT !.at = "take", !.tries = k] \in ServeType
            BY <2>1 DEF ServeType
        <3> QED BY <3>2, <3>3 DEF k
    <2>4. listener' = Receiving \/ listener' \in ServeType
        BY <1>6, <2>2, <2>3 DEF Listen, Listens, GiveUpTold, GiveUpCleansUp,
              ListenerDispatches, ListenerSkips, ListenerDefers
    <2> QED BY <2>0, <2>4, <1>t DEF LoopPart, InBurst
<1>7. ASSUME NEW t \in TaskIds, Retransmit(t) PROVE LoopPart'
    BY <1>7, <1>t DEF Retransmit, WakesUp, AwakeTakes, Redefers, AcquiresPermit, Dispatches,
          LoopPart, InBurst
<1> QED BY <1>1, <1>2, <1>3, <1>5, <1>6, <1>7 DEF Next

\* A batch of a plan, and the chunk of it that goes out next.
LEMMA PlanTyped ==
    ASSUME NEW reg, RegOK(reg), NEW m, NEW missing, TakeOutcome(reg, m, missing) = "Ok"
    PROVE  frames_for(reg[m], missing) \in (SUBSET Chunks) \ {NoList}
BY DEF TakeOutcome, frames_for, NoList

\* Every task that starts is counted, every task that ends is uncounted.
LEMMA TaskStep ==
    ASSUME Types, Next PROVE TaskPart'
<1>t. TaskPart /\ LoopPart /\ RegOK(registry)
    BY DEF Types, RegPart
<1>u. ASSUME UNCHANGED <<tasks, inflight>> PROVE TaskPart'
    BY <1>t, <1>u, CountsOf DEF TaskPart
<1>1. ASSUME NEW m \in Messages, send(m) PROVE TaskPart'
    BY <1>1, <1>u DEF send
<1>2. ASSUME NEW m \in Messages, run_send(m) PROVE TaskPart'
    BY <1>2, <1>u DEF run_send, BurstSent, BurstCleansUp, Forget, Claim, BurstChecks, BurstFails,
          BurstComplete, LingerEnds, Drained, DrainTimesOut, TellComplete, maps
<1>3. ASSUME NEW m \in Messages, CooldownLapses(m) PROVE TaskPart'
    <2>1. tasks' \in [TaskIds -> Task] /\ inflight' = inflight
        BY <1>3, <1>t, MadeDue DEF TaskPart, CooldownLapses
    <2>2. \A t \in TaskIds : tasks[t] = Idle \/ tasks[t] \in Live
        BY <1>t DEF TaskPart, Task
    <2>3. \A n \in Messages : Of(tasks', n) = Of(tasks, n)
        <3> SUFFICES ASSUME NEW n \in Messages, NEW t \in TaskIds
                     PROVE  (tasks'[t] # Idle /\ tasks'[t].msg = n)
                              <=> (tasks[t] # Idle /\ tasks[t].msg = n)
            BY DEF Of
        <3> QED BY <1>3, <1>t, <2>2, MadeDue DEF TaskPart
    <2> QED BY <1>t, <2>1, <2>3, CountsOf DEF TaskPart
<1>4. ASSUME NEW m \in Messages, TtlElapses(m) PROVE TaskPart'
    BY <1>4, <1>u DEF TtlElapses
<1>5. ASSUME NEW m \in Messages, NEW missing, NEW g, NackArrives(m, missing, g) PROVE TaskPart'
    BY <1>5, <1>u DEF NackArrives, maps
<1>6. ASSUME Listen PROVE TaskPart'
    <2>1. CASE GiveUpTold \/ GiveUpCleansUp \/ ListenerSkips
        BY <2>1, <1>u DEF GiveUpTold, GiveUpCleansUp, ListenerSkips, maps
    <2>2. CASE ListenerDispatches
        <3> DEFINE plan == frames_for(registry[listener.msg], listener.chunks)
        <3>1. listener.msg \in Messages
            BY <2>2, <1>t, Serving DEF ListenerDispatches, ListenerTakes
        <3>2. plan \in (SUBSET Chunks) \ {NoList}
            BY <2>2, <1>t, PlanTyped DEF ListenerDispatches, ListenerOutcome
        <3>3. Spawn(listener.msg, Queued(listener.msg, plan))
            BY <2>2 DEF ListenerDispatches
        <3> HIDE DEF plan
        <3> QED BY <3>1, <3>2, <3>3, <1>t, Spawned, NewTasks
    <2>3. CASE ListenerDefers
        <3>1. listener.msg \in Messages
            BY <2>3, <1>t, Serving DEF ListenerDefers
        <3>2. Spawn(listener.msg, Asleep(listener.msg)) \/ UNCHANGED <<tasks, inflight>>
            BY <2>3 DEF ListenerDefers
        <3> QED BY <3>1, <3>2, <1>t, <1>u, Spawned, NewTasks
    <2> QED BY <1>6, <2>1, <2>2, <2>3 DEF Listen
<1>7. ASSUME NEW t \in TaskIds, Retransmit(t) PROVE TaskPart'
    <2> DEFINE m == Msg(t)
    <2>0. tasks[t] \in Live /\ m \in Messages
        BY <1>7, <1>t, Working DEF Retransmit, WakesUp, AwakeTakes, Redefers, AcquiresPermit,
              Dispatches, Msg
    <2>e. End(t) => TaskPart'
        BY <2>0, <1>t, Ended
    <2>b. \A k \in Live : k.msg = m /\ Become(t, k) => TaskPart'
        BY <2>0, <1>t, Became DEF Msg
    <2> HIDE DEF m
    <2>1. CASE WakesUp(t)
        <3>1. m \in DOMAIN registry /\ registry[m].deferred # NoList
                 => registry[m].deferred \in (SUBSET Chunks) \ {NoList}
            <4>1. m \in DOMAIN registry => registry[m] \in EntryType
                BY <1>t DEF RegOK
            <4> QED BY <4>1 DEF EntryType
        <3>2. \/ End(t)
              \/ /\ m \in DOMAIN registry /\ registry[m].deferred # NoList
                 /\ Become(t, Awake(m, registry[m].deferred))
            BY <2>1 DEF WakesUp, m
        <3> QED BY <3>1, <3>2, <2>0, <2>e, <2>b, NewTasks
    <2>2. CASE AwakeTakes(t)
        <3> DEFINE missing == tasks[t].chunks
                   plan == frames_for(registry[m], missing)
        <3>1. missing \in (SUBSET Chunks) \ {NoList}
            BY <2>2, <1>t, Working DEF AwakeTakes
        <3>2. TakeOutcome(registry, m, missing) = "Ok" => plan \in (SUBSET Chunks) \ {NoList}
            BY <1>t, PlanTyped
        <3>3. \/ TakeOutcome(registry, m, missing) = "Ok" /\ Become(t, Queued(m, plan))
              \/ Become(t, Redeferring(m, missing))
              \/ End(t)
            BY <2>2 DEF AwakeTakes, m
        <3> HIDE DEF plan, missing
        <3> QED BY <3>1, <3>2, <3>3, <2>0, <2>e, <2>b, NewTasks
    <2>3. CASE Redefers(t)
        <3>1. Become(t, Asleep(m)) \/ End(t)
            BY <2>3 DEF Redefers, m
        <3> QED BY <3>1, <2>0, <2>e, <2>b, NewTasks
    <2>4. CASE AcquiresPermit(t)
        <3>1. tasks[t].chunks \in (SUBSET Chunks) \ {NoList}
            BY <2>4, <1>t, Working DEF AcquiresPermit
        <3>2. Become(t, Dispatching(m, tasks[t].chunks))
            BY <2>4 DEF AcquiresPermit, m
        <3> QED BY <3>1, <3>2, <2>0, <2>b, NewTasks
    <2>5. CASE Dispatches(t)
        <3> DEFINE rest == tasks[t].chunks \ {NextChunk(t)}
        <3>1. tasks[t].chunks \in SUBSET Chunks
            BY <2>5, <1>t, Working DEF Dispatches
        <3>2. PICK ok \in BOOLEAN :
                 LET left == IF ok THEN rest ELSE {}
                 IN  IF left = {} THEN End(t) ELSE Become(t, Dispatching(m, left))
            BY <2>5 DEF Dispatches, m
        <3>3. End(t) \/ (rest # {} /\ Become(t, Dispatching(m, rest)))
            BY <3>2
        <3>4. rest # {} => rest \in (SUBSET Chunks) \ {NoList}
            BY <3>1 DEF NoList
        <3> HIDE DEF rest
        <3> QED BY <3>3, <3>4, <2>0, <2>e, <2>b, NewTasks
    <2> QED BY <1>7, <2>1, <2>2, <2>3, <2>4, <2>5 DEF Retransmit
<1> QED BY <1>1, <1>2, <1>3, <1>4, <1>5, <1>6, <1>7 DEF Next

\* A subscriber of a message sees its statuses.
LEMMA EndsStep ==
    ASSUME Types, Next PROVE EndsPart'
<1>t. EndsPart /\ LoopPart /\ TaskPart
    BY DEF Types
<1>k. ASSUME NEW m \in Messages, NEW s, Tell(m, s) PROVE EndsPart'
    BY <1>k, <1>t DEF Tell, EndsPart
<1>u. ends' = ends => EndsPart'
    BY <1>t DEF EndsPart
<1>1. ASSUME NEW m \in Messages, send(m) PROVE EndsPart'
    BY <1>1, <1>k DEF send
<1>2. ASSUME NEW m \in Messages, run_send(m) PROVE EndsPart'
    BY <1>2, <1>k, <1>u DEF run_send, BurstSent, BurstCleansUp, Forget, Claim, BurstChecks,
          BurstFails, BurstComplete, LingerEnds, Drained, DrainTimesOut, TellComplete, told
<1>3. ASSUME NEW m \in Messages, CooldownLapses(m) \/ TtlElapses(m) PROVE EndsPart'
    BY <1>3, <1>u DEF CooldownLapses, TtlElapses, told
<1>5. ASSUME NEW m \in Messages, NEW missing, NEW g, NackArrives(m, missing, g) PROVE EndsPart'
    BY <1>5, <1>u DEF NackArrives, told
<1>6. ASSUME Listen PROVE EndsPart'
    <2>1. CASE GiveUpTold \/ ListenerDispatches
        <3>1. listener.msg \in Messages
            BY <2>1, <1>t, Serving DEF GiveUpTold, ListenerDispatches, ListenerTakes
        <3> QED BY <2>1, <3>1, <1>k DEF GiveUpTold, ListenerDispatches
    <2>2. CASE GiveUpCleansUp \/ ListenerSkips \/ ListenerDefers
        BY <2>2, <1>u DEF GiveUpCleansUp, ListenerSkips, ListenerDefers, told
    <2> QED BY <1>6, <2>1, <2>2 DEF Listen
<1>7. ASSUME NEW t \in TaskIds, Retransmit(t) PROVE EndsPart'
    <2>1. CASE AwakeTakes(t)
        <3>1. Msg(t) \in Messages
            BY <2>1, <1>t, Working DEF AwakeTakes, Msg
        <3>2. Tell(Msg(t), "Retransmitting") \/ ends' = ends
            BY <2>1 DEF AwakeTakes, told
        <3> QED BY <3>1, <3>2, <1>k, <1>u
    <2>2. CASE WakesUp(t) \/ Redefers(t) \/ AcquiresPermit(t) \/ Dispatches(t)
        BY <2>2, <1>u DEF WakesUp, Redefers, AcquiresPermit, Dispatches, told
    <2> QED BY <1>7, <2>1, <2>2 DEF Retransmit
<1> QED BY <1>1, <1>2, <1>3, <1>5, <1>6, <1>7 DEF Next

LEMMA TypesStep == Types /\ [Next]_vars => Types'
<1> SUFFICES ASSUME Types, [Next]_vars PROVE Types'
    OBVIOUS
<1>1. CASE Next
    BY <1>1, RegStep, LoopStep, TaskStep, EndsStep DEF Types
<1>2. CASE UNCHANGED vars
    BY <1>2, CountsOf DEF vars, maps, told, Types, RegPart, LoopPart, InBurst, TaskPart, EndsPart
<1> QED BY <1>1, <1>2

LEMMA TypesHold == Spec => []Types
BY TypesInit, TypesStep, PTL DEF Spec

\* Every variable stays within its type: the entries of the registry, the
\* tasks alive, the NACK the listener serves.
THEOREM TypeCorrect == Spec => []TypeOK
BY TypesHold, TypesImply, PTL

\* The count run_send waits on in its drain loop is that of the tasks alive,
\* for every number of messages, tasks and NACKs.
THEOREM CountCorrect == Spec => []InflightCountsTasks
<1>1. Types => InflightCountsTasks
    BY DEF Types, TaskPart
<1> QED BY <1>1, TypesHold, PTL

-----------------------------------------------------------------------------
(* The wake-up of a deferral *)

\* A message not sent yet has left no trace.
Fresh ==
    \A m \in Messages : burst[m].at = "unsent" =>
        /\ m \notin DOMAIN registry /\ m \notin active
        /\ Of(tasks, m) = {}
        /\ listener # Receiving => listener.msg # m

\* What keeps the deferred lists and flags of the entries it keeps.
KeepsDeferral(new, old) ==
    \A x \in DOMAIN new : /\ x \in DOMAIN old
                          /\ new[x].wake_up = old[x].wake_up
                          /\ new[x].deferred = old[x].deferred

WakeOK(reg, ts, m) ==
    /\ \A t, u \in Sleeping(ts, m) : t = u
    /\ m \in DOMAIN reg => /\ reg[m].wake_up <=> Sleeping(ts, m) # {}
                           /\ reg[m].deferred # NoList => reg[m].wake_up
WakeInv == \A m \in Messages : WakeOK(registry, tasks, m)

LEMMA OneSleeper ==
    ASSUME NEW S, \A t, u \in S : t = u
    PROVE  Cardinality(S) <= 1
<1>1. CASE S = {}
    BY <1>1, FS_EmptySet
<1>2. ASSUME NEW t \in S PROVE Cardinality(S) <= 1
    <2>1. S = {t}
        OBVIOUS
    <2>2. Cardinality({t}) = 1
        BY FS_Singleton
    <2> QED BY <2>1, <2>2
<1> QED BY <1>1, <1>2

LEMMA WakeImplies == WakeInv => DeferralHasWakeUp
<1> SUFFICES ASSUME WakeInv, NEW m \in Messages
             PROVE  /\ Cardinality(Sleepers(m)) <= 1
                    /\ m \in DOMAIN registry =>
                          /\ registry[m].wake_up <=> Sleepers(m) # {}
                          /\ registry[m].deferred # NoList => registry[m].wake_up
    BY DEF DeferralHasWakeUp
<1>1. Sleepers(m) = Sleeping(tasks, m)
    BY DEF Sleepers, TasksOf, Sleeping, Of
<1> QED BY <1>1, OneSleeper DEF WakeInv, WakeOK

\* Putting the task k in the place of task t.
TasksOK(ts) == ts \in [TaskIds -> Task]

LEMMA SleepingIs ==
    ASSUME NEW ts, TasksOK(ts), NEW n
    PROVE  Sleeping(ts, n) = { u \in TaskIds : ts[u] \in SleepType /\ ts[u].msg = n }
<1>1. \A j \in Task : (j # Idle /\ j.at = "sleeping") <=> j \in SleepType
    BY DEF Task, Live, SleepType, CarryType, Idle
<1>2. \A u \in TaskIds : ts[u] \in Task
    BY DEF TasksOK
<1> QED BY <1>1, <1>2 DEF Sleeping, Of

LEMMA PutIs ==
    ASSUME NEW ts, TasksOK(ts), NEW t \in TaskIds, NEW k \in Task
    PROVE  /\ TasksOK(Change(ts, t, k)) /\ Change(ts, t, k)[t] = k
           /\ \A u \in TaskIds \ {t} : Change(ts, t, k)[u] = ts[u]
BY DEF Change, TasksOK

LEMMA PutAwake ==
    ASSUME NEW ts, TasksOK(ts), NEW t \in TaskIds, NEW k \in Task, k \notin SleepType, NEW n
    PROVE  /\ Sleeping(Change(ts, t, k), n) = Sleeping(ts, n) \ {t}
           /\ ts[t] \notin SleepType => Sleeping(Change(ts, t, k), n) = Sleeping(ts, n)
<1> DEFINE new == Change(ts, t, k)
<1>1. TasksOK(new) /\ new[t] = k /\ \A u \in TaskIds \ {t} : new[u] = ts[u]
    BY PutIs
<1> HIDE DEF new
<1>2. Sleeping(new, n) = { u \in TaskIds : new[u] \in SleepType /\ new[u].msg = n }
    BY <1>1, SleepingIs
<1>3. Sleeping(ts, n) = { u \in TaskIds : ts[u] \in SleepType /\ ts[u].msg = n }
    BY SleepingIs
<1>4. Sleeping(new, n) = Sleeping(ts, n) \ {t}
    BY <1>1, <1>2, <1>3
<1>5. ts[t] \notin SleepType => t \notin Sleeping(ts, n)
    BY <1>3
<1> QED BY <1>4, <1>5 DEF new

LEMMA PutAsleep ==
    ASSUME NEW ts, TasksOK(ts), NEW t \in TaskIds, ts[t] \notin SleepType,
           NEW k \in Task, k \in SleepType, NEW n
    PROVE  Sleeping(Change(ts, t, k), n) =
              Sleeping(ts, n) \cup { u \in {t} : k.msg = n }
<1> DEFINE new == Change(ts, t, k)
<1>1. TasksOK(new) /\ new[t] = k /\ \A u \in TaskIds \ {t} : new[u] = ts[u]
    BY PutIs
<1> HIDE DEF new
<1>2. Sleeping(new, n) = { u \in TaskIds : new[u] \in SleepType /\ new[u].msg = n }
    BY <1>1, SleepingIs
<1>3. Sleeping(ts, n) = { u \in TaskIds : ts[u] \in SleepType /\ ts[u].msg = n }
    BY SleepingIs
<1>4. Sleeping(new, n) = Sleeping(ts, n) \cup { u \in {t} : k.msg = n }
    BY <1>1, <1>2, <1>3
<1> QED BY <1>4 DEF new

LEMMA CarryIsAwake ==
    \A k \in Task : /\ k \in SleepType <=> k # Idle /\ k.at = "sleeping"
                    /\ k \in CarryType => k \notin SleepType
                    /\ k = Idle => k \notin SleepType
BY DEF Task, Live, SleepType, CarryType, Idle

\* The burst keeps to its own message, and forgets more than it learns.
LEMMA RunSend ==
    ASSUME Types, NEW m \in Messages, run_send(m)
    PROVE  /\ burst[m].at # "unsent" /\ burst'[m].at # "unsent"
           /\ \A n \in Messages \ {m} : burst'[n] = burst[n]
           /\ KeepsDeferral(registry', registry)
           /\ active' \subseteq active /\ tasks' = tasks /\ listener' = listener
<1>t. burst \in BurstType /\ RegOK(registry)
    BY DEF Types, LoopPart, RegPart
<1>g. ASSUME NEW at, Goes(m, at), at # "unsent"
      PROVE  burst'[m].at # "unsent" /\ \A n \in Messages \ {m} : burst'[n] = burst[n]
    BY <1>g, <1>t DEF Goes, BurstType
<1>u. registry' = registry => KeepsDeferral(registry', registry)
    BY DEF KeepsDeferral
<1>1. tasks' = tasks /\ listener' = listener /\ active' \subseteq active
    BY DEF run_send, BurstSent, BurstCleansUp, cleanup, Forget, Claim, BurstChecks, BurstFails,
          BurstComplete, LingerEnds, Drained, DrainTimesOut, TellComplete, maps
<1>2. CASE BurstSent(m)
    <2>1. KeepsDeferral(registry', registry)
        <3>1. registry' = mark_chunk_sent(registry, m, {burst[m].next} \cap Chunks)
            BY <1>2 DEF BurstSent
        <3> QED BY <3>1, <1>t, MarkOK DEF KeepsDeferral, OthersSame
    <2> QED BY <1>1, <1>2, <2>1, <1>t DEF BurstSent, BurstType
<1>3. CASE BurstCleansUp(m) \/ Forget(m)
    <2>1. KeepsDeferral(registry', registry)
        <3> DEFINE left == remove(registry, m)
        <3>1. RegOK(left) /\ m \notin DOMAIN left /\ OthersSame(left, registry, m)
            BY <1>t, RemoveOK
        <3>2. registry' = left \/ registry' = prune_expired(left)
            BY <1>3 DEF BurstCleansUp, cleanup, Forget
        <3> HIDE DEF left
        <3>3. \A x \in DOMAIN registry' : x \in DOMAIN left /\ registry'[x] = left[x]
            BY <3>1, <3>2, PruneOK
        <3> QED BY <3>1, <3>3 DEF KeepsDeferral, OthersSame
    <2> QED BY <1>1, <1>3, <2>1, <1>g DEF BurstCleansUp, Forget
<1>4. CASE \/ BurstChecks(m) \/ Claim(m) \/ BurstFails(m) \/ BurstComplete(m)
           \/ LingerEnds(m) \/ Drained(m) \/ DrainTimesOut(m) \/ TellComplete(m)
    <2>1. registry' = registry
        BY <1>4 DEF BurstChecks, Claim, BurstFails, BurstComplete, LingerEnds, Drained,
              DrainTimesOut, TellComplete, maps
    <2>2. burst[m].at # "unsent" /\ \E at : at # "unsent" /\ Goes(m, at)
        BY <1>4 DEF BurstChecks, Claim, BurstFails, BurstComplete, LingerEnds, Drained,
              DrainTimesOut, TellComplete
    <2> QED BY <1>1, <2>1, <2>2, <1>g, <1>u
<1> QED BY <1>2, <1>3, <1>4 DEF run_send

\* Time passes without a change to the deferrals.
LEMMA TimePasses ==
    ASSUME Types, NEW m \in Messages, CooldownLapses(m) \/ TtlElapses(m)
    PROVE  /\ KeepsDeferral(registry', registry) /\ DOMAIN registry' = DOMAIN registry
           /\ \A n : Sleeping(tasks', n) = Sleeping(tasks, n) /\ Of(tasks', n) = Of(tasks, n)
           /\ UNCHANGED <<active, burst, listener>>
<1>t. RegOK(registry) /\ tasks \in [TaskIds -> Task]
    BY DEF Types, RegPart, TaskPart
<1>1. KeepsDeferral(registry', registry) /\ DOMAIN registry' = DOMAIN registry
    BY <1>t, FlagOK DEF CooldownLapses, TtlElapses, KeepsDeferral, OthersSame
<1>2. CASE CooldownLapses(m)
    <2>0. \A t \in TaskIds : tasks[t] = Idle \/ tasks[t] \in Live
        BY <1>t DEF Task
    <2>1. \A t \in TaskIds : /\ (tasks'[t] = Idle) <=> (tasks[t] = Idle)
                             /\ tasks[t] # Idle => /\ tasks'[t].at = tasks[t].at
                                                   /\ tasks'[t].msg = tasks[t].msg
        BY <1>2, <1>t, <2>0, MadeDue
    <2>2. \A n : Of(tasks', n) = Of(tasks, n)
        BY <2>1 DEF Of
    <2>3. \A n : Sleeping(tasks', n) = Sleeping(tasks, n)
        BY <2>1, <2>2 DEF Sleeping, Of
    <2> QED BY <1>1, <1>2, <2>2, <2>3 DEF CooldownLapses
<1>3. CASE TtlElapses(m)
    BY <1>1, <1>3 DEF TtlElapses
<1> QED BY <1>2, <1>3

\* A take keeps the deferrals.
LEMMA TakeKeeps ==
    ASSUME NEW reg, RegOK(reg), NEW m, NEW missing
    PROVE  KeepsDeferral(take_retransmit(reg, m, missing), reg)
<1> DEFINE new == take_retransmit(reg, m, missing)
<1>1. /\ OthersSame(new, reg, m)
      /\ m \in DOMAIN new => /\ m \in DOMAIN reg /\ new[m].wake_up = reg[m].wake_up
                             /\ new[m].deferred = reg[m].deferred
    BY TakeOK
<1> HIDE DEF new
<1>2. KeepsDeferral(new, reg)
    BY <1>1 DEF KeepsDeferral, OthersSame
<1> QED BY <1>2 DEF new

LEMMA MarkKeeps ==
    ASSUME NEW reg, RegOK(reg), NEW m, NEW chunks
    PROVE  KeepsDeferral(mark_chunk_sent(reg, m, chunks), reg)
BY MarkOK DEF KeepsDeferral, OthersSame

\* What a step of the listener and of a task does to the tasks of each message.
LEMMA SpawnedOf ==
    ASSUME TaskPart, NEW t \in TaskIds, NEW k \in Live, tasks' = [tasks EXCEPT ![t] = k],
           NEW n, k.msg # n, tasks[t] = Idle \/ tasks[t].msg # n
    PROVE  Of(tasks', n) = Of(tasks, n)
BY DEF TaskPart, Of

LEMMA FreshStep == Types /\ Fresh /\ [Next]_vars => Fresh'
<1> SUFFICES ASSUME Types, Fresh, [Next]_vars PROVE Fresh'
    OBVIOUS
<1>t. RegOK(registry) /\ TaskPart /\ LoopPart
    BY DEF Types, RegPart
<1> DEFINE Clean(m) == /\ m \notin DOMAIN registry /\ m \notin active
                       /\ Of(tasks, m) = {}
                       /\ listener # Receiving => listener.msg # m
<1> SUFFICES ASSUME NEW n \in Messages, burst'[n].at = "unsent"
             PROVE  /\ n \notin DOMAIN registry' /\ n \notin active'
                    /\ Of(tasks', n) = {}
                    /\ listener' # Receiving => listener'.msg # n
    BY DEF Fresh
<1>k. ASSUME burst[n].at = "unsent"
      PROVE  /\ n \notin DOMAIN registry /\ n \notin active
             /\ Of(tasks, n) = {}
             /\ listener # Receiving => listener.msg # n
    BY <1>k DEF Fresh
<1>1. ASSUME NEW m \in Messages, send(m)
      PROVE  /\ n \notin DOMAIN registry' /\ n \notin active'
             /\ Of(tasks', n) = {} /\ (listener' # Receiving => listener'.msg # n)
    <2>1. n # m /\ burst'[n] = burst[n]
        BY <1>1, <1>t DEF send, Goes, LoopPart, BurstType
    <2>2. n \notin DOMAIN registry'
        BY <1>1, <2>1, <1>k, <1>t, RegisterOK DEF send, OthersSame
    <2> QED BY <1>1, <2>1, <2>2, <1>k DEF send
<1>2. ASSUME NEW m \in Messages, run_send(m)
      PROVE  /\ n \notin DOMAIN registry' /\ n \notin active'
             /\ Of(tasks', n) = {} /\ (listener' # Receiving => listener'.msg # n)
    <2>1. n # m
        BY <1>2, RunSend
    <2> QED BY <1>2, <2>1, <1>k, RunSend DEF KeepsDeferral
<1>3. ASSUME NEW m \in Messages, CooldownLapses(m) \/ TtlElapses(m)
      PROVE  /\ n \notin DOMAIN registry' /\ n \notin active'
             /\ Of(tasks', n) = {} /\ (listener' # Receiving => listener'.msg # n)
    BY <1>3, <1>k, TimePasses
<1>5. ASSUME NEW m \in Messages, NEW missing, NEW g, NackArrives(m, missing, g)
      PROVE  /\ n \notin DOMAIN registry' /\ n \notin active'
             /\ Of(tasks', n) = {} /\ (listener' # Receiving => listener'.msg # n)
    <2>1. m \in active /\ listener'.msg = m
        BY <1>5 DEF NackArrives
    <2> QED BY <1>5, <2>1, <1>k DEF NackArrives, maps
<1>6. ASSUME Listen
      PROVE  /\ n \notin DOMAIN registry' /\ n \notin active'
             /\ Of(tasks', n) = {} /\ (listener' # Receiving => listener'.msg # n)
    <2> DEFINE m == listener.msg
    <2>1. /\ burst' = burst /\ active' \subseteq active
          /\ listener' # Receiving => listener'.msg = m
          /\ listener.at \in {"give_up", "cleanup", "take", "defer"}
        <3>1. /\ burst' = burst /\ active' \subseteq active
              /\ listener.at \in {"give_up", "cleanup", "take", "defer"}
            BY <1>6 DEF Listen, Listens, GiveUpTold, GiveUpCleansUp, cleanup, ListenerDispatches,
                  ListenerSkips, ListenerTakes, ListenerDefers, maps
        <3>2. listener \in ServeType
            BY <3>1, <1>t, Serving
        <3> QED BY <1>6, <3>1, <3>2 DEF Listen, Listens, GiveUpTold, GiveUpCleansUp,
                  ListenerDispatches, ListenerSkips, ListenerTakes, ListenerDefers, ServeType
    <2>2. listener # Receiving /\ m \in Messages /\ m # n /\ n \notin DOMAIN registry
        BY <2>1, <1>t, <1>k, Serving DEF Receiving
    <2>3. CASE GiveUpTold \/ GiveUpCleansUp \/ ListenerSkips
        <3>1. n \notin DOMAIN registry' /\ tasks' = tasks
            BY <2>2, <2>3, <1>t, RemoveOK, TakeKeeps DEF GiveUpTold, GiveUpCleansUp, cleanup,
                  ListenerSkips, ListenerTakes, maps, KeepsDeferral, OthersSame
        <3> QED BY <3>1, <2>1, <2>2, <1>k
    <2>4. CASE ListenerDispatches
        <3> DEFINE plan == frames_for(registry[m], listener.chunks)
        <3>1. plan \in (SUBSET Chunks) \ {NoList} /\ Spawn(m, Queued(m, plan))
            BY <2>4, <1>t, PlanTyped DEF ListenerDispatches, ListenerOutcome
        <3> HIDE DEF plan
        <3>2. Of(tasks', n) = Of(tasks, n)
            BY <3>1, <2>2, <1>t, NewTasks, Spawned, SpawnedOf
        <3>3. n \notin DOMAIN registry'
            BY <2>2, <2>4, <1>t, TakeKeeps DEF ListenerDispatches, ListenerTakes, KeepsDeferral
        <3> QED BY <3>2, <3>3, <2>1, <2>2, <1>k
    <2>5. CASE ListenerDefers
        <3>1. Spawn(m, Asleep(m)) \/ tasks' = tasks
            BY <2>5 DEF ListenerDefers
        <3>2. Of(tasks', n) = Of(tasks, n)
            BY <3>1, <2>2, <1>t, NewTasks, Spawned, SpawnedOf
        <3>3. listener.chunks \in SUBSET Chunks
            BY <2>1, <1>t, Serving
        <3>4. DOMAIN registry' = DOMAIN registry
            BY <3>3, <2>5, <1>t, DeferOK DEF ListenerDefers
        <3> QED BY <3>2, <3>4, <2>1, <2>2, <1>k
    <2> QED BY <1>6, <2>3, <2>4, <2>5 DEF Listen
<1>7. ASSUME NEW t \in TaskIds, Retransmit(t)
      PROVE  /\ n \notin DOMAIN registry' /\ n \notin active'
             /\ Of(tasks', n) = {} /\ (listener' # Receiving => listener'.msg # n)
    <2> DEFINE m == Msg(t)
    <2>0. tasks[t] \in Live /\ m \in Messages /\ UNCHANGED <<burst, listener, active>>
        BY <1>7, <1>t, Working DEF Retransmit, WakesUp, AwakeTakes, Redefers, AcquiresPermit,
              Dispatches, Msg
    <2>1. m # n
        BY <2>0, <1>k, IdleIsDead DEF Of, Msg
    <2>2. n \notin DOMAIN registry'
        <3>1. CASE WakesUp(t)
            BY <3>1, <2>0, <1>k, <1>t, TakeDeferredOK DEF WakesUp
        <3>2. CASE AwakeTakes(t)
            BY <3>2, <2>0, <1>k, <1>t, TakeKeeps DEF AwakeTakes, KeepsDeferral
        <3>3. CASE Redefers(t)
            <4>1. tasks[t].chunks \in SUBSET Chunks
                BY <3>3, <1>t, Working DEF Redefers
            <4> QED BY <4>1, <3>3, <2>0, <1>k, <1>t, DeferOK DEF Redefers
        <3>4. CASE AcquiresPermit(t)
            BY <3>4, <2>0, <1>k DEF AcquiresPermit
        <3>5. CASE Dispatches(t)
            BY <3>5, <2>0, <1>k, <1>t, MarkKeeps DEF Dispatches, KeepsDeferral
        <3> QED BY <1>7, <3>1, <3>2, <3>3, <3>4, <3>5 DEF Retransmit
    <2>3. \E k : tasks' = [tasks EXCEPT ![t] = k] /\ (k = Idle \/ k.msg = m)
        BY <1>7 DEF Retransmit, WakesUp, AwakeTakes, Redefers, AcquiresPermit, Dispatches,
              Become, End, Msg, Asleep, Awake, Queued, Redeferring, Dispatching
    <2>4. Of(tasks', n) = Of(tasks, n)
        BY <2>0, <2>1, <2>3, <1>t DEF Of, TaskPart, Msg
    <2> QED BY <2>0, <2>2, <2>4, <1>k
<1>8. CASE UNCHANGED vars
    BY <1>8, <1>k DEF vars, maps, told
<1> QED BY <1>1, <1>2, <1>3, <1>5, <1>6, <1>7, <1>8 DEF Next

\* A step that keeps the deferrals and leaves the sleepers to sleep.
LEMMA WakeKept ==
    ASSUME WakeInv, KeepsDeferral(registry', registry),
           \A n \in Messages : Sleeping(tasks', n) = Sleeping(tasks, n)
    PROVE  WakeInv'
<1> SUFFICES ASSUME NEW n \in Messages PROVE WakeOK(registry', tasks', n)
    BY DEF WakeInv
<1>1. WakeOK(registry, tasks, n)
    BY DEF WakeInv
<1> QED BY <1>1 DEF WakeOK, KeepsDeferral

\* A task put in the place of one that was not asleep either.
LEMMA StaysAwake ==
    ASSUME TaskPart, NEW t \in TaskIds, tasks[t] \notin SleepType,
           NEW k \in Task, k \notin SleepType, tasks' = [tasks EXCEPT ![t] = k]
    PROVE  \A n : Sleeping(tasks', n) = Sleeping(tasks, n)
<1>1. TasksOK(tasks) /\ tasks' = Change(tasks, t, k)
    BY DEF TaskPart, Change, TasksOK
<1>2. \A n : Sleeping(Change(tasks, t, k), n) = Sleeping(tasks, n)
    BY <1>1, PutAwake
<1> QED BY <1>1, <1>2

\* A deferral of m whose wake-up is the task t from now on.
LEMMA DeferredTo ==
    ASSUME WakeInv, TaskPart, RegOK(registry), NEW m \in Messages,
           NEW missing \in SUBSET Chunks, registry' = defer_nack(registry, m, missing),
           DeferOutcome(registry, m) = "Scheduled",
           NEW t \in TaskIds, tasks[t] \notin SleepType,
           NEW k \in SleepType, k.msg = m, tasks' = [tasks EXCEPT ![t] = k]
    PROVE  WakeInv'
<1>1. /\ OthersSame(registry', registry, m) /\ DOMAIN registry' = DOMAIN registry
      /\ m \in DOMAIN registry /\ ~registry[m].wake_up /\ registry'[m].wake_up
    BY DeferOK
<1>2. Sleeping(tasks, m) = {}
    BY <1>1 DEF WakeInv, WakeOK
<1>3. k \in Task /\ TasksOK(tasks) /\ tasks' = Change(tasks, t, k)
    BY DEF Task, Live, TaskPart, Change, TasksOK
<1>c. \A n : Sleeping(Change(tasks, t, k), n) = Sleeping(tasks, n) \cup { u \in {t} : k.msg = n }
    BY <1>3, PutAsleep
<1>4. Sleeping(tasks', m) = Sleeping(tasks, m) \cup {t}
    BY <1>3, <1>c
<1>5. \A n \in Messages \ {m} : Sleeping(tasks', n) = Sleeping(tasks, n)
    BY <1>3, <1>c
<1>6. WakeOK(registry', tasks', m)
    BY <1>1, <1>2, <1>4 DEF WakeOK
<1>7. \A n \in Messages \ {m} : WakeOK(registry', tasks', n)
    <2> SUFFICES ASSUME NEW n \in Messages \ {m} PROVE WakeOK(registry', tasks', n)
        OBVIOUS
    <2>1. WakeOK(registry, tasks, n) /\ Sleeping(tasks', n) = Sleeping(tasks, n)
        BY <1>5 DEF WakeInv
    <2> QED BY <2>1, <1>1 DEF WakeOK, OthersSame
<1> QED BY <1>6, <1>7 DEF WakeInv

\* A deferral that schedules nothing, for there is a wake-up or no need of one.
LEMMA DeferredAlready ==
    ASSUME WakeInv, RegOK(registry), NEW m \in Messages,
           NEW missing \in SUBSET Chunks, registry' = defer_nack(registry, m, missing),
           DeferOutcome(registry, m) # "Scheduled",
           \A n \in Messages : Sleeping(tasks', n) = Sleeping(tasks, n)
    PROVE  WakeInv'
<1> DEFINE out == DeferOutcome(registry, m)
<1>1. /\ OthersSame(registry', registry, m) /\ DOMAIN registry' = DOMAIN registry
      /\ out = "AlreadyScheduled" /\ m \in DOMAIN registry =>
            registry[m].wake_up /\ registry'[m].wake_up
      /\ out # "AlreadyScheduled" /\ m \in DOMAIN registry => registry'[m] = registry[m]
    BY DeferOK
<1> HIDE DEF out
<1> SUFFICES ASSUME NEW n \in Messages PROVE WakeOK(registry', tasks', n)
    BY DEF WakeInv
<1>2. WakeOK(registry, tasks, n) /\ Sleeping(tasks', n) = Sleeping(tasks, n)
    BY DEF WakeInv
<1>3. CASE n # m
    BY <1>1, <1>2, <1>3 DEF WakeOK, OthersSame
<1>4. CASE n = m
    BY <1>1, <1>2, <1>4 DEF WakeOK
<1> QED BY <1>3, <1>4

LEMMA WakeStep == Types /\ Fresh /\ WakeInv /\ [Next]_vars => WakeInv'
<1> SUFFICES ASSUME Types, Fresh, WakeInv, [Next]_vars PROVE WakeInv'
    OBVIOUS
<1>t. RegOK(registry) /\ TaskPart /\ LoopPart /\ TasksOK(tasks)
    BY DEF Types, RegPart, TaskPart, TasksOK
<1>u. registry' = registry => KeepsDeferral(registry', registry)
    BY DEF KeepsDeferral
<1>i. \A t \in TaskIds : tasks[t] \in CarryType \/ tasks[t] = Idle => tasks[t] \notin SleepType
    BY <1>t, CarryIsAwake DEF TasksOK
<1>1. ASSUME NEW m \in Messages, send(m) PROVE WakeInv'
    <2>1. /\ OthersSame(registry', registry, m) /\ registry'[m] = NewEntry
          /\ tasks' = tasks /\ burst[m].at = "unsent"
        BY <1>1, <1>t, RegisterOK DEF send
    <2>2. Sleeping(tasks, m) = {}
        BY <2>1 DEF Fresh, Sleeping
    <2>3. WakeOK(registry', tasks', m)
        BY <2>1, <2>2 DEF WakeOK, NewEntry
    <2>4. \A n \in Messages \ {m} : WakeOK(registry', tasks', n)
        <3> SUFFICES ASSUME NEW n \in Messages \ {m} PROVE WakeOK(registry', tasks', n)
            OBVIOUS
        <3>1. WakeOK(registry, tasks, n)
            BY DEF WakeInv
        <3> QED BY <2>1, <3>1 DEF WakeOK, OthersSame
    <2> QED BY <2>3, <2>4 DEF WakeInv
<1>2. ASSUME NEW m \in Messages, run_send(m) PROVE WakeInv'
    BY <1>2, RunSend, WakeKept
<1>3. ASSUME NEW m \in Messages, CooldownLapses(m) \/ TtlElapses(m) PROVE WakeInv'
    BY <1>3, TimePasses, WakeKept
<1>5. ASSUME NEW m \in Messages, NEW missing, NEW g, NackArrives(m, missing, g) PROVE WakeInv'
    BY <1>5, <1>u, WakeKept DEF NackArrives, maps
<1>6. ASSUME Listen PROVE WakeInv'
    <2> DEFINE m == listener.msg
    <2>0. m \in Messages /\ listener.chunks \in SUBSET Chunks
        BY <1>6, <1>t, Serving DEF Listen, GiveUpTold, GiveUpCleansUp, ListenerDispatches,
              ListenerSkips, ListenerTakes, ListenerDefers
    <2>1. CASE GiveUpTold \/ GiveUpCleansUp \/ ListenerSkips
        <3>1. KeepsDeferral(remove(registry, m), registry)
            <4>1. /\ m \notin DOMAIN remove(registry, m)
                  /\ OthersSame(remove(registry, m), registry, m)
                BY <1>t, RemoveOK
            <4> QED BY <4>1 DEF KeepsDeferral, OthersSame
        <3>2. KeepsDeferral(take_retransmit(registry, m, listener.chunks), registry)
            BY <1>t, TakeKeeps
        <3>3. KeepsDeferral(registry', registry) /\ tasks' = tasks
            BY <2>1, <3>1, <3>2, <1>u DEF GiveUpTold, GiveUpCleansUp, cleanup, ListenerSkips,
                  ListenerTakes, maps
        <3> QED BY <3>3, WakeKept
    <2>2. CASE ListenerDispatches
        <3> DEFINE plan == frames_for(registry[m], listener.chunks)
        <3>1. plan \in (SUBSET Chunks) \ {NoList} /\ Spawn(m, Queued(m, plan))
            BY <2>2, <1>t, PlanTyped DEF ListenerDispatches, ListenerOutcome
        <3> HIDE DEF plan
        <3>2. /\ Queued(m, plan) \in Live /\ Queued(m, plan).msg = m
              /\ Queued(m, plan).at = "queued"
            BY <3>1, <2>0, NewTasks
        <3>3. Queued(m, plan) \in Task /\ Queued(m, plan) \notin SleepType
            BY <3>2, CarryIsAwake DEF Task
        <3>4. \A n : Sleeping(tasks', n) = Sleeping(tasks, n)
            <4>1. PICK t \in TaskIds : tasks[t] = Idle
                                       /\ tasks' = [tasks EXCEPT ![t] = Queued(m, plan)]
                BY <3>1, <3>2, <2>0, <1>t, Spawned
            <4> QED BY <4>1, <3>3, <1>t, <1>i, StaysAwake
        <3>5. KeepsDeferral(registry', registry)
            BY <2>2, <1>t, TakeKeeps DEF ListenerDispatches, ListenerTakes
        <3> QED BY <3>4, <3>5, WakeKept
    <2>3. CASE ListenerDefers
        <3>1. registry' = defer_nack(registry, m, listener.chunks)
            BY <2>3 DEF ListenerDefers
        <3>2. CASE DeferOutcome(registry, m) = "Scheduled"
            <4>1. Asleep(m) \in SleepType /\ Asleep(m) \in Live /\ Asleep(m).msg = m
                BY <2>0 DEF Asleep, SleepType, Live
            <4>2. Spawn(m, Asleep(m))
                BY <2>3, <3>2 DEF ListenerDefers
            <4>3. PICK t \in TaskIds : tasks[t] = Idle /\ tasks' = [tasks EXCEPT ![t] = Asleep(m)]
                BY <4>1, <4>2, <2>0, <1>t, Spawned
            <4> QED BY <4>1, <4>3, <3>1, <3>2, <2>0, <1>t, <1>i, DeferredTo
        <3>3. CASE DeferOutcome(registry, m) # "Scheduled"
            <4>1. tasks' = tasks
                BY <2>3, <3>3 DEF ListenerDefers
            <4> QED BY <4>1, <3>1, <3>3, <2>0, <1>t, DeferredAlready
        <3> QED BY <3>2, <3>3
    <2> QED BY <1>6, <2>1, <2>2, <2>3 DEF Listen
<1>7. ASSUME NEW t \in TaskIds, Retransmit(t) PROVE WakeInv'
    <2> DEFINE m == Msg(t)
    <2>0. tasks[t] \in Live /\ m \in Messages /\ m = tasks[t].msg
        BY <1>7, <1>t, Working DEF Retransmit, WakesUp, AwakeTakes, Redefers, AcquiresPermit,
              Dispatches, Msg
    <2>i. Idle \in Task /\ Idle \notin SleepType
        BY CarryIsAwake DEF Task
    <2>k. \A k \in Live : k.at # "sleeping" => k \in Task /\ k \notin SleepType
        BY CarryIsAwake DEF Task
    <2>1. CASE WakesUp(t)
        <3>1. registry' = take_deferred(registry, m) /\ tasks[t] \in SleepType
            BY <2>1, <1>t, Working DEF WakesUp
        <3>2. PICK k \in Task : k \notin SleepType /\ tasks' = [tasks EXCEPT ![t] = k]
            <4>1. CASE m \in DOMAIN registry /\ registry[m].deferred # NoList
                <5> DEFINE missing == registry[m].deferred
                <5>1. missing \in (SUBSET Chunks) \ {NoList}
                    <6>1. registry[m] \in EntryType
                        BY <4>1, <1>t DEF RegOK
                    <6> QED BY <4>1, <6>1 DEF EntryType
                <5>2. tasks' = [tasks EXCEPT ![t] = Awake(m, missing)]
                    BY <2>1, <4>1 DEF WakesUp, Become
                <5> HIDE DEF missing
                <5> QED BY <5>1, <5>2, <2>0, <2>k, NewTasks
            <4>2. CASE ~(m \in DOMAIN registry /\ registry[m].deferred # NoList)
                BY <2>1, <4>2, <2>i DEF WakesUp, End
            <4> QED BY <4>1, <4>2
        <3>c. tasks' = Change(tasks, t, k)
            BY <3>2 DEF Change
        <3>3. t \in Sleeping(tasks, m) /\ Sleeping(tasks', m) = Sleeping(tasks, m) \ {t}
            <4>1. Sleeping(Change(tasks, t, k), m) = Sleeping(tasks, m) \ {t}
                BY <3>2, <1>t, PutAwake
            <4>2. t \in Sleeping(tasks, m)
                BY <3>1, <2>0, <1>t, SleepingIs
            <4> QED BY <4>1, <4>2, <3>c
        <3>4. Sleeping(tasks', m) = {}
            BY <3>3, <2>0 DEF WakeInv, WakeOK
        <3>5. \A n \in Messages \ {m} : Sleeping(tasks', n) = Sleeping(tasks, n)
            <4> SUFFICES ASSUME NEW n \in Messages \ {m}
                         PROVE  Sleeping(tasks', n) = Sleeping(tasks, n)
                OBVIOUS
            <4>1. t \notin Sleeping(tasks, n)
                BY <2>0 DEF Sleeping, Of
            <4>2. Sleeping(tasks', n) = Sleeping(tasks, n) \ {t}
                <5>1. Sleeping(Change(tasks, t, k), n) = Sleeping(tasks, n) \ {t}
                    BY <3>2, <1>t, PutAwake
                <5> QED BY <5>1, <3>c
            <4> QED BY <4>1, <4>2
        <3>6. /\ OthersSame(registry', registry, m) /\ DOMAIN registry' = DOMAIN registry
              /\ m \in DOMAIN registry => ~registry'[m].wake_up /\ registry'[m].deferred = NoList
            BY <3>1, <1>t, TakeDeferredOK
        <3>7. WakeOK(registry', tasks', m)
            BY <3>4, <3>6 DEF WakeOK
        <3>8. \A n \in Messages \ {m} : WakeOK(registry', tasks', n)
            <4> SUFFICES ASSUME NEW n \in Messages \ {m} PROVE WakeOK(registry', tasks', n)
                OBVIOUS
            <4>1. WakeOK(registry, tasks, n) /\ Sleeping(tasks', n) = Sleeping(tasks, n)
                BY <3>5 DEF WakeInv
            <4> QED BY <4>1, <3>6 DEF WakeOK, OthersSame
        <3> QED BY <3>7, <3>8 DEF WakeInv
    <2>2. CASE AwakeTakes(t) \/ AcquiresPermit(t) \/ Dispatches(t)
        <3>1. tasks[t] \in CarryType /\ tasks[t] \notin SleepType
              /\ tasks[t].chunks \in (SUBSET Chunks) \ {NoList}
            BY <2>2, <1>t, <1>i, Working DEF AwakeTakes, AcquiresPermit, Dispatches
        <3>2. KeepsDeferral(registry', registry)
            <4>1. CASE AwakeTakes(t)
                BY <4>1, <1>t, TakeKeeps DEF AwakeTakes
            <4>2. CASE AcquiresPermit(t)
                BY <4>2, <1>u DEF AcquiresPermit
            <4>3. CASE Dispatches(t)
                BY <4>3, <1>t, MarkKeeps DEF Dispatches
            <4> QED BY <2>2, <4>1, <4>2, <4>3
        <3>3. PICK k : /\ tasks' = [tasks EXCEPT ![t] = k]
                       /\ k = Idle \/ (k.at # "sleeping" /\ k \notin SleepType)
            BY <2>2 DEF AwakeTakes, AcquiresPermit, Dispatches, Become, End, Queued, Redeferring,
                  Dispatching, SleepType
        <3>4. k \in Task /\ k \notin SleepType
            <4>1. tasks'[t] = k /\ tasks' \in [TaskIds -> Task]
                <5>1. Next
                    BY <1>7 DEF Next
                <5> QED BY <5>1, <3>3, <1>t, TaskStep DEF TaskPart
            <4> QED BY <4>1, <3>3, <2>i
        <3> QED BY <3>1, <3>2, <3>3, <3>4, <1>t, StaysAwake, WakeKept
    <2>3. CASE Redefers(t)
        <3>1. tasks[t] \in CarryType /\ tasks[t] \notin SleepType
              /\ tasks[t].chunks \in SUBSET Chunks
            BY <2>3, <1>t, <1>i, Working DEF Redefers
        <3>2. registry' = defer_nack(registry, m, tasks[t].chunks)
            BY <2>3 DEF Redefers
        <3>3. CASE DeferOutcome(registry, m) = "Scheduled"
            <4>1. Asleep(m) \in SleepType /\ Asleep(m).msg = m
                BY <2>0 DEF Asleep, SleepType
            <4>2. tasks' = [tasks EXCEPT ![t] = Asleep(m)]
                BY <2>3, <3>3 DEF Redefers, Become
            <4> QED BY <4>1, <4>2, <3>1, <3>2, <3>3, <2>0, <1>t, DeferredTo
        <3>4. CASE DeferOutcome(registry, m) # "Scheduled"
            <4>1. tasks' = [tasks EXCEPT ![t] = Idle]
                BY <2>3, <3>4 DEF Redefers, End
            <4>2. \A n : Sleeping(tasks', n) = Sleeping(tasks, n)
                BY <4>1, <3>1, <2>i, <1>t, StaysAwake
            <4> QED BY <4>2, <3>1, <3>2, <3>4, <2>0, <1>t, DeferredAlready
        <3> QED BY <3>3, <3>4
    <2> QED BY <1>7, <2>1, <2>2, <2>3 DEF Retransmit
<1>8. CASE UNCHANGED vars
    BY <1>8, <1>u, WakeKept DEF vars, maps, told
<1> QED BY <1>1, <1>2, <1>3, <1>5, <1>6, <1>7, <1>8 DEF Next

\* A deferred NACK always has one wake-up sleeping for it and never two: the
\* round asked for during a cooldown is neither forgotten nor sent twice,
\* however the listener and the retransmit tasks defer over each other.
THEOREM DeferralCorrect == Spec => []DeferralHasWakeUp
<1> DEFINE Ind == Types /\ Fresh /\ WakeInv
<1>1. Init => Ind
    <2>1. Init => \A m : Of(tasks, m) = {} /\ Sleeping(tasks, m) = {}
        BY DEF Init, Of, Sleeping
    <2>2. Init => Fresh
        BY <2>1 DEF Init, Fresh
    <2>3. Init => WakeInv
        BY <2>1 DEF Init, WakeInv, WakeOK
    <2> QED BY <2>2, <2>3, TypesInit
<1>2. Ind /\ [Next]_vars => Ind'
    BY TypesStep, FreshStep, WakeStep
<1>3. Ind => DeferralHasWakeUp
    BY WakeImplies
<1> QED BY <1>1, <1>2, <1>3, PTL DEF Spec

-----------------------------------------------------------------------------
(* Each chunk is on its way once *)

LEMMA LeastChunk ==
    ASSUME NEW S \in (SUBSET Chunks) \ {NoList}
    PROVE  \E i \in S : \A j \in S : i <= j
<1> DEFINE R == { ss \in Nat \X Nat : ss[1] < ss[2] }
<1>1. S # {} /\ S \subseteq Nat
    BY Sizes DEF Chunks, NoList
<1>r. OpToRel(<, Nat) = R
    BY Zenon DEF OpToRel
<1>w. IsWellFoundedOn(R, Nat)
    BY <1>r, NatLessThanWellFounded, Zenon
<1>2. PICK i \in S : \A j \in S : ~(<<j, i>> \in R)
    <2> HIDE DEF R
    <2> QED BY <1>1, <1>w, WFMin
<1>3. \A j \in S : i <= j
    <2> SUFFICES ASSUME NEW j \in S, ~(i <= j) PROVE <<j, i>> \in R
        BY <1>2
    <2>1. i \in Nat /\ j \in Nat /\ j < i
        BY <1>1
    <2> DEFINE ss == <<j, i>>
    <2>2. ss \in Nat \X Nat /\ ss[1] = j /\ ss[2] = i
        BY <2>1
    <2> HIDE DEF ss
    <2>3. ss \in R
        BY <2>1, <2>2
    <2> QED BY <2>3 DEF ss
<1> QED BY <1>3

LEMMA NextChunkIn ==
    ASSUME NEW t, tasks[t].chunks \in (SUBSET Chunks) \ {NoList}
    PROVE  NextChunk(t) \in tasks[t].chunks
BY LeastChunk DEF NextChunk

\* The task k has the chunk i of n on its way, and so has the burst b.
Bears(k, n, i) == k.at \in {"queued", "sending"} /\ k.msg = n /\ i \in k.chunks
Bursting(b, i) == b.at \in {"start", "check", "enqueued", "failing"} /\ i >= b.next

ChunkOK(reg, ts, b, n, i) ==
    /\ \A t \in TaskIds : Bears(ts[t], n, i) =>
          /\ ~Bursting(b, i)
          /\ \A u \in TaskIds : Bears(ts[u], n, i) => u = t
    /\ n \in DOMAIN reg =>
          (i \in reg[n].pending <=> Bursting(b, i) \/ \E t \in TaskIds : Bears(ts[t], n, i))

\* A burst that loses its active entry has lost its registry entry as well.
Gone ==
    \A m \in Messages :
        /\ burst[m].at \in {"start", "check", "enqueued", "failing"} /\ m \notin active
        => m \notin DOMAIN registry

\* A burst starts with the first frame.
AtFirst == \A m \in Messages : burst[m].at = "unsent" => burst[m].next = 0

ChunksOK == \A n \in Messages, i \in Chunks : ChunkOK(registry, tasks, burst[n], n, i)
ChunkInv == Gone /\ AtFirst /\ ChunksOK

LEMMA CarriersBear ==
    ASSUME Types, NEW n
    PROVE  /\ Carriers(n) = { t \in TaskIds : tasks[t].at \in {"queued", "sending"}
                                              /\ tasks[t].msg = n }
           /\ \A t \in Carriers(n) : tasks[t].chunks \subseteq Chunks
           /\ \A i : \A t \in TaskIds : Bears(tasks[t], n, i)
                 <=> t \in Carriers(n) /\ i \in tasks[t].chunks
<1>1. TaskPart
    BY DEF Types
<1>2. \A t \in TaskIds : tasks[t].at \in {"queued", "sending"} => tasks[t] # Idle
    BY DEF Idle
<1>3. Carriers(n) = { t \in TaskIds : tasks[t].at \in {"queued", "sending"}
                                      /\ tasks[t].msg = n }
    BY <1>2 DEF Carriers, TasksOf
<1>4. \A t \in Carriers(n) : tasks[t].chunks \subseteq Chunks
    BY <1>1, <1>3, Working
<1> QED BY <1>3, <1>4 DEF Bears

LEMMA ChunkImplies == Types /\ ChunkInv => EachChunkOnce
<1> SUFFICES ASSUME Types, ChunkInv, NEW n \in Messages
             PROVE  /\ \A t \in Carriers(n) :
                          /\ tasks[t].chunks \cap Unburst(n) = {}
                          /\ \A u \in Carriers(n) \ {t} : tasks[t].chunks \cap tasks[u].chunks = {}
                    /\ n \in DOMAIN registry => registry[n].pending =
                          Unburst(n) \cup UNION { tasks[t].chunks : t \in Carriers(n) }
    BY DEF EachChunkOnce
<1>1. \A i : i \in Unburst(n) <=> i \in Chunks /\ Bursting(burst[n], i)
    BY DEF Unburst, Bursting
<1>2. \A t \in Carriers(n) : t \in TaskIds /\ tasks[t].chunks \subseteq Chunks
    BY CarriersBear DEF Carriers, TasksOf
<1>3. \A i : \A t \in TaskIds : Bears(tasks[t], n, i) <=> t \in Carriers(n) /\ i \in tasks[t].chunks
    BY CarriersBear
<1>4. \A i \in Chunks : ChunkOK(registry, tasks, burst[n], n, i)
    BY DEF ChunkInv, ChunksOK
<1>5. ASSUME NEW t \in Carriers(n) PROVE tasks[t].chunks \cap Unburst(n) = {}
    BY <1>1, <1>2, <1>3, <1>4 DEF ChunkOK
<1>6. ASSUME NEW t \in Carriers(n), NEW u \in Carriers(n) \ {t}
      PROVE  tasks[t].chunks \cap tasks[u].chunks = {}
    BY <1>2, <1>3, <1>4 DEF ChunkOK
<1>7. ASSUME n \in DOMAIN registry
      PROVE  registry[n].pending = Unburst(n) \cup UNION { tasks[t].chunks : t \in Carriers(n) }
    <2>1. registry[n] \in EntryType
        BY <1>7 DEF Types, RegPart, RegOK
    <2>2. registry[n].pending \subseteq Chunks
        BY <2>1 DEF EntryType
    <2>3. \A i \in Chunks : i \in registry[n].pending
             <=> i \in Unburst(n) \/ \E t \in Carriers(n) : i \in tasks[t].chunks
        BY <1>1, <1>2, <1>3, <1>4, <1>7 DEF ChunkOK
    <2>4. \A i \in Unburst(n) \cup UNION { tasks[t].chunks : t \in Carriers(n) } : i \in Chunks
        BY <1>1, <1>2
    <2> QED BY <2>2, <2>3, <2>4
<1> QED BY <1>5, <1>6, <1>7

\* What keeps the pending chunks of the entries it keeps.
KeepsPending(new, old) ==
    \A x \in DOMAIN new : x \in DOMAIN old /\ new[x].pending = old[x].pending

\* A chunk nothing happens to.
LEMMA ChunkKept ==
    ASSUME NEW n, NEW i, NEW reg, NEW ts, NEW b, NEW reg2, NEW ts2, NEW b2,
           ChunkOK(reg, ts, b, n, i),
           \A t \in TaskIds : Bears(ts2[t], n, i) <=> Bears(ts[t], n, i),
           Bursting(b2, i) <=> Bursting(b, i),
           n \in DOMAIN reg2 => n \in DOMAIN reg /\ (i \in reg2[n].pending <=> i \in reg[n].pending)
    PROVE  ChunkOK(reg2, ts2, b2, n, i)
BY DEF ChunkOK

\* A chunk that task t takes along.
LEMMA ChunkJoins ==
    ASSUME NEW n, NEW i, NEW reg, NEW ts, NEW b, NEW reg2, NEW ts2, NEW t \in TaskIds,
           ChunkOK(reg, ts, b, n, i), n \in DOMAIN reg, i \notin reg[n].pending,
           \A u \in TaskIds \ {t} : Bears(ts2[u], n, i) <=> Bears(ts[u], n, i),
           Bears(ts2[t], n, i),
           n \in DOMAIN reg2 => i \in reg2[n].pending
    PROVE  ChunkOK(reg2, ts2, b, n, i)
<1>1. ~Bursting(b, i) /\ \A u \in TaskIds : ~Bears(ts[u], n, i)
    BY DEF ChunkOK
<1> QED BY <1>1 DEF ChunkOK

\* A chunk that task t has brought there, or fails to bring.
LEMMA ChunkLeaves ==
    ASSUME NEW n, NEW i, NEW reg, NEW ts, NEW b, NEW reg2, NEW ts2, NEW t \in TaskIds,
           ChunkOK(reg, ts, b, n, i), Bears(ts[t], n, i),
           \A u \in TaskIds \ {t} : Bears(ts2[u], n, i) <=> Bears(ts[u], n, i),
           ~Bears(ts2[t], n, i),
           n \in DOMAIN reg2 => i \notin reg2[n].pending
    PROVE  ChunkOK(reg2, ts2, b, n, i)
<1>1. ~Bursting(b, i) /\ \A u \in TaskIds \ {t} : ~Bears(ts[u], n, i)
    BY DEF ChunkOK
<1> QED BY <1>1 DEF ChunkOK

LEMMA GoneStep == Types /\ Gone /\ [Next]_vars => Gone'
<1> SUFFICES ASSUME Types, Gone, [Next]_vars, NEW n \in Messages,
                    burst'[n].at \in {"start", "check", "enqueued", "failing"}, n \notin active'
             PROVE  n \notin DOMAIN registry'
    BY DEF Gone
<1>t. RegOK(registry) /\ TaskPart /\ LoopPart /\ burst \in BurstType
    BY DEF Types, RegPart, LoopPart
<1>k. burst[n].at \in {"start", "check", "enqueued", "failing"} /\ n \notin active
         => n \notin DOMAIN registry
    BY DEF Gone
<1>u. ASSUME burst' = burst, active' = active, DOMAIN registry' \subseteq DOMAIN registry
      PROVE  n \notin DOMAIN registry'
    BY <1>u, <1>k
<1>1. ASSUME NEW m \in Messages, send(m) PROVE n \notin DOMAIN registry'
    <2>2. n # m /\ burst'[n] = burst[n] /\ n \notin active
        BY <1>1, <1>t DEF send, Goes, BurstType
    <2> QED BY <1>1, <2>2, <1>k, <1>t, RegisterOK DEF send, OthersSame
<1>2. ASSUME NEW m \in Messages, run_send(m) PROVE n \notin DOMAIN registry'
    <2>1. DOMAIN registry' \subseteq DOMAIN registry
        BY <1>2, RunSend DEF KeepsDeferral
    <2>2. n \notin active => n \notin DOMAIN registry'
        <3>1. CASE n # m
            BY <3>1, <2>1, <1>2, <1>k, RunSend
        <3>2. CASE n = m
            <4>1. burst[m].at \in {"start", "check", "enqueued", "failing"}
                BY <3>2, <1>2, <1>t DEF run_send, BurstSent, BurstCleansUp, Forget, Claim,
                      BurstChecks, BurstFails, BurstComplete, LingerEnds, Drained,
                      DrainTimesOut, TellComplete, Goes, BurstType
            <4> QED BY <3>2, <4>1, <2>1, <1>k
        <3> QED BY <3>1, <3>2
    <2>3. n \in active => n \notin DOMAIN registry'
        BY <1>2, <1>t DEF run_send, BurstSent, BurstCleansUp, cleanup, Forget, Claim,
              BurstChecks, BurstFails, BurstComplete, LingerEnds, Drained, DrainTimesOut,
              TellComplete, Goes, BurstType, maps
    <2> QED BY <2>2, <2>3
<1>3. ASSUME NEW m \in Messages, CooldownLapses(m) \/ TtlElapses(m)
      PROVE  n \notin DOMAIN registry'
    BY <1>3, <1>u, TimePasses
<1>5. ASSUME NEW m \in Messages, NEW missing, NEW g, NackArrives(m, missing, g)
      PROVE  n \notin DOMAIN registry'
    BY <1>5, <1>u DEF NackArrives, maps
<1>6. ASSUME Listen PROVE n \notin DOMAIN registry'
    <2>1. CASE GiveUpCleansUp
        <3>1. n = listener.msg => n \notin DOMAIN registry'
            BY <2>1, <1>t, RemoveOK DEF GiveUpCleansUp, cleanup
        <3>2. n # listener.msg => n \notin active /\ burst' = burst
            BY <2>1 DEF GiveUpCleansUp, cleanup
        <3>3. DOMAIN registry' \subseteq DOMAIN registry
            BY <2>1, <1>t, RemoveOK DEF GiveUpCleansUp, cleanup, OthersSame
        <3> QED BY <3>1, <3>2, <3>3, <1>k
    <2>2. CASE GiveUpTold
        BY <2>2, <1>u DEF GiveUpTold, maps
    <2>3. CASE ListenerDispatches \/ ListenerSkips
        <3>1. KeepsDeferral(registry', registry)
            BY <2>3, <1>t, TakeKeeps DEF ListenerDispatches, ListenerSkips, ListenerTakes
        <3> QED BY <2>3, <3>1, <1>u DEF ListenerDispatches, ListenerSkips, ListenerTakes,
                  KeepsDeferral
    <2>4. CASE ListenerDefers
        <3>1. listener.chunks \in SUBSET Chunks
            BY <2>4, <1>t, Serving DEF ListenerDefers
        <3>2. DOMAIN registry' = DOMAIN registry
            BY <3>1, <2>4, <1>t, DeferOK DEF ListenerDefers
        <3> QED BY <2>4, <3>2, <1>u DEF ListenerDefers
    <2> QED BY <1>6, <2>1, <2>2, <2>3, <2>4 DEF Listen
<1>7. ASSUME NEW t \in TaskIds, Retransmit(t) PROVE n \notin DOMAIN registry'
    <2>1. CASE WakesUp(t)
        BY <2>1, <1>u, <1>t, TakeDeferredOK DEF WakesUp
    <2>2. CASE AwakeTakes(t)
        BY <2>2, <1>u, <1>t, TakeKeeps DEF AwakeTakes, KeepsDeferral
    <2>3. CASE Redefers(t)
        <3>1. tasks[t].chunks \in SUBSET Chunks
            BY <2>3, <1>t, Working DEF Redefers
        <3> QED BY <3>1, <2>3, <1>u, <1>t, DeferOK DEF Redefers
    <2>4. CASE AcquiresPermit(t)
        BY <2>4, <1>u DEF AcquiresPermit
    <2>5. CASE Dispatches(t)
        BY <2>5, <1>u, <1>t, MarkKeeps DEF Dispatches, KeepsDeferral
    <2> QED BY <1>7, <2>1, <2>2, <2>3, <2>4, <2>5 DEF Retransmit
<1>8. CASE UNCHANGED vars
    BY <1>8, <1>u DEF vars, maps, told
<1> QED BY <1>1, <1>2, <1>3, <1>5, <1>6, <1>7, <1>8 DEF Next

LEMMA AtFirstStep == Types /\ AtFirst /\ [Next]_vars => AtFirst'
<1> SUFFICES ASSUME Types, AtFirst, [Next]_vars, NEW n \in Messages, burst'[n].at = "unsent"
             PROVE  burst'[n] = burst[n]
    BY DEF AtFirst
<1>t. burst \in BurstType /\ LoopPart
    BY DEF Types, LoopPart
<1>1. ASSUME NEW m \in Messages, send(m) PROVE burst'[n] = burst[n]
    BY <1>1, <1>t DEF send, Goes, BurstType
<1>2. ASSUME NEW m \in Messages, run_send(m) PROVE burst'[n] = burst[n]
    BY <1>2, RunSend
<1>3. ASSUME \/ \E m \in Messages : CooldownLapses(m) \/ TtlElapses(m)
             \/ \E m \in Messages, missing \in (SUBSET Chunks) \ {NoList}, g \in BOOLEAN :
                   NackArrives(m, missing, g)
      PROVE  burst'[n] = burst[n]
    BY <1>3 DEF CooldownLapses, TtlElapses, NackArrives
<1>6. ASSUME Listen PROVE burst'[n] = burst[n]
    BY <1>6 DEF Listen, GiveUpTold, GiveUpCleansUp, ListenerDispatches, ListenerSkips,
          ListenerTakes, ListenerDefers
<1>7. ASSUME NEW t \in TaskIds, Retransmit(t) PROVE burst'[n] = burst[n]
    BY <1>7 DEF Retransmit, WakesUp, AwakeTakes, Redefers, AcquiresPermit, Dispatches
<1>8. CASE UNCHANGED vars
    BY <1>8 DEF vars
<1> QED BY <1>1, <1>2, <1>3, <1>6, <1>7, <1>8 DEF Next

\* A step that leaves the chunk i of n with the task, or the burst, it is with.
LEMMA ChunkSame ==
    ASSUME NEW n \in Messages, NEW i, ChunkOK(registry, tasks, burst[n], n, i),
           \A t \in TaskIds : Bears(tasks'[t], n, i) <=> Bears(tasks[t], n, i),
           KeepsPending(registry', registry), burst' = burst
    PROVE  ChunkOK(registry', tasks', burst'[n], n, i)
BY ChunkKept DEF KeepsPending

\* A step of the task t, which has nothing on its way before or after.
LEMMA EmptyHanded ==
    ASSUME Types, ChunksOK, NEW t \in TaskIds, NEW k, tasks' = Change(tasks, t, k),
           tasks[t].at \notin {"queued", "sending"}, k.at \notin {"queued", "sending"},
           KeepsPending(registry', registry), burst' = burst
    PROVE  ChunksOK'
<1> SUFFICES ASSUME NEW n \in Messages, NEW i \in Chunks
             PROVE  ChunkOK(registry', tasks', burst'[n], n, i)
    BY DEF ChunksOK
<1>1. TasksOK(tasks)
    BY DEF Types, TaskPart, TasksOK
<1>2. tasks'[t] = k /\ \A u \in TaskIds \ {t} : tasks'[u] = tasks[u]
    BY <1>1 DEF TasksOK, Change
<1>3. \A u \in TaskIds : Bears(tasks'[u], n, i) <=> Bears(tasks[u], n, i)
    BY <1>2 DEF Bears
<1>4. ChunkOK(registry, tasks, burst[n], n, i)
    BY DEF ChunksOK
<1> QED BY <1>3, <1>4, ChunkSame

\* A plan that the task t takes on its way.
LEMMA PlanTaken ==
    ASSUME Types, ChunksOK, NEW m \in Messages, NEW missing,
           TakeOutcome(registry, m, missing) = "Ok",
           registry' = take_retransmit(registry, m, missing), burst' = burst,
           NEW t \in TaskIds, tasks[t].at \notin {"queued", "sending"},
           tasks' = Change(tasks, t, Queued(m, frames_for(registry[m], missing)))
    PROVE  ChunksOK'
<1> DEFINE plan == frames_for(registry[m], missing)
<1>t. RegOK(registry) /\ TasksOK(tasks)
    BY DEF Types, RegPart, TaskPart, TasksOK
<1>1. /\ OthersSame(registry', registry, m) /\ m \in DOMAIN registry
      /\ m \in DOMAIN registry' => registry'[m].pending = registry[m].pending \cup plan
    BY <1>t, TakePending
<1>2. /\ \A i \in plan : i \notin registry[m].pending
      /\ plan \subseteq Chunks
    BY DEF frames_for
<1>3. plan \in (SUBSET Chunks) \ {NoList}
    BY <1>t, PlanTyped
<1> DEFINE k == Queued(m, plan)
<1>4. k.at = "queued" /\ k.msg = m /\ k.chunks = plan
    BY DEF Queued
<1>5. tasks'[t] = k /\ \A u \in TaskIds \ {t} : tasks'[u] = tasks[u]
    BY <1>t DEF TasksOK, Change
<1> HIDE DEF k, plan
<1> SUFFICES ASSUME NEW n \in Messages, NEW i \in Chunks
             PROVE  ChunkOK(registry', tasks', burst'[n], n, i)
    BY DEF ChunksOK
<1>6. ChunkOK(registry, tasks, burst[n], n, i)
    BY DEF ChunksOK
<1>7. ~Bears(tasks[t], n, i) /\ (Bears(k, n, i) <=> n = m /\ i \in plan)
    BY <1>4 DEF Bears
<1>8. CASE n = m /\ i \in plan
    <2>1. Bears(tasks'[t], n, i)
        BY <1>5, <1>7, <1>8
    <2>2. \A u \in TaskIds \ {t} : Bears(tasks'[u], n, i) <=> Bears(tasks[u], n, i)
        BY <1>5
    <2>3. i \notin registry[n].pending /\ n \in DOMAIN registry
          /\ (n \in DOMAIN registry' => i \in registry'[n].pending)
        BY <1>1, <1>2, <1>8
    <2>4. ChunkOK(registry', tasks', burst[n], n, i)
        BY <1>6, <2>1, <2>2, <2>3, ChunkJoins
    <2> QED BY <2>4
<1>9. CASE ~(n = m /\ i \in plan)
    <2>1. \A u \in TaskIds : Bears(tasks'[u], n, i) <=> Bears(tasks[u], n, i)
        BY <1>5, <1>7, <1>9
    <2>2. n \in DOMAIN registry' => n \in DOMAIN registry
             /\ (i \in registry'[n].pending <=> i \in registry[n].pending)
        BY <1>1, <1>9 DEF OthersSame
    <2>3. ChunkOK(registry', tasks', burst[n], n, i)
        BY <1>6, <2>1, <2>2, ChunkKept
    <2> QED BY <2>3
<1> QED BY <1>8, <1>9

\* A batch of the task t, from which the worker takes the chunks out.
LEMMA BatchShrinks ==
    ASSUME Types, ChunksOK, NEW t \in TaskIds, Dispatches(t)
    PROVE  ChunksOK'
<1>t. RegOK(registry) /\ TasksOK(tasks) /\ TaskPart
    BY DEF Types, RegPart, TaskPart, TasksOK
<1> DEFINE m == Msg(t)
           had == tasks[t].chunks
           j == NextChunk(t)
<1>1. /\ tasks[t].at = "sending" /\ tasks[t].msg = m /\ m \in Messages
      /\ had \in (SUBSET Chunks) \ {NoList} /\ j \in had /\ burst' = burst
    BY <1>t, Working, NextChunkIn DEF Dispatches, Msg
<1>2. PICK ok \in BOOLEAN :
         LET left == IF ok THEN had \ {j} ELSE {}
         IN  /\ registry' = mark_chunk_sent(registry, m, Released(t, ok))
             /\ IF left = {} THEN End(t) ELSE Become(t, Dispatching(m, left))
    BY DEF Dispatches
<1> DEFINE gone == Released(t, ok)
<1>3. PICK k : /\ tasks' = Change(tasks, t, k)
               /\ \/ k = Idle /\ had = gone
                  \/ k.at = "sending" /\ k.msg = m /\ k.chunks = had \ gone
    <2>1. CASE ok
        <3>1. gone = {j}
            BY <2>1 DEF Released
        <3>2. CASE had \ {j} = {}
            <4>1. had = gone
                BY <1>1, <3>1, <3>2
            <4>2. tasks' = Change(tasks, t, Idle)
                BY <1>2, <2>1, <3>2 DEF End, Change
            <4> QED BY <4>1, <4>2
        <3>3. CASE had \ {j} # {}
            <4>1. tasks' = Change(tasks, t, Dispatching(m, had \ {j}))
                BY <1>2, <2>1, <3>3 DEF Become, Change
            <4>2. /\ Dispatching(m, had \ {j}).at = "sending"
                  /\ Dispatching(m, had \ {j}).msg = m
                  /\ Dispatching(m, had \ {j}).chunks = had \ {j}
                BY DEF Dispatching
            <4> QED BY <3>1, <4>1, <4>2
        <3> QED BY <3>2, <3>3
    <2>2. CASE ~ok
        <3>1. gone = had
            BY <2>2 DEF Released
        <3>2. tasks' = Change(tasks, t, Idle)
            BY <1>2, <2>2 DEF End, Change
        <3> QED BY <3>1, <3>2
    <2> QED BY <2>1, <2>2
<1>4. tasks'[t] = k /\ \A u \in TaskIds \ {t} : tasks'[u] = tasks[u]
    BY <1>t, <1>3 DEF TasksOK, Change
<1>5. /\ OthersSame(registry', registry, m) /\ DOMAIN registry' = DOMAIN registry
      /\ m \in DOMAIN registry => registry'[m].pending = registry[m].pending \ gone
    <2> DEFINE new == mark_chunk_sent(registry, m, gone)
    <2>1. /\ OthersSame(new, registry, m) /\ DOMAIN new = DOMAIN registry
          /\ m \in DOMAIN registry => new[m].pending = registry[m].pending \ gone
        <3> HIDE DEF gone
        <3> QED BY <1>t, MarkOK
    <2> QED BY <1>2, <2>1
<1>6. gone \subseteq had
    BY <1>1 DEF Released
<1> HIDE DEF gone, j, m
<1> SUFFICES ASSUME NEW n \in Messages, NEW i \in Chunks
             PROVE  ChunkOK(registry', tasks', burst'[n], n, i)
    BY DEF ChunksOK
<1>7. ChunkOK(registry, tasks, burst[n], n, i)
    BY DEF ChunksOK
<1>8. /\ Bears(tasks[t], n, i) <=> n = m /\ i \in had
      /\ Bears(k, n, i) <=> n = m /\ i \in had \ gone
    BY <1>1, <1>3 DEF Bears, Idle
<1>9. CASE n = m /\ i \in gone
    <2>1. Bears(tasks[t], n, i) /\ ~Bears(tasks'[t], n, i)
        BY <1>4, <1>6, <1>8, <1>9
    <2>2. \A u \in TaskIds \ {t} : Bears(tasks'[u], n, i) <=> Bears(tasks[u], n, i)
        BY <1>4
    <2>3. n \in DOMAIN registry' => i \notin registry'[n].pending
        BY <1>5, <1>9
    <2>4. ChunkOK(registry', tasks', burst[n], n, i)
        BY <1>7, <2>1, <2>2, <2>3, ChunkLeaves
    <2> QED BY <2>4, <1>1
<1>10. CASE ~(n = m /\ i \in gone)
    <2>1. \A u \in TaskIds : Bears(tasks'[u], n, i) <=> Bears(tasks[u], n, i)
        BY <1>4, <1>8, <1>10
    <2>2. n \in DOMAIN registry' => n \in DOMAIN registry
             /\ (i \in registry'[n].pending <=> i \in registry[n].pending)
        BY <1>5, <1>10 DEF OthersSame
    <2>3. ChunkOK(registry', tasks', burst[n], n, i)
        BY <1>7, <2>1, <2>2, ChunkKept
    <2> QED BY <2>3, <1>1
<1> QED BY <1>9, <1>10

LEMMA KeepsSame == ASSUME NEW reg PROVE KeepsPending(reg, reg)
BY DEF KeepsPending

LEMMA BurstChunks ==
    ASSUME Types, ChunkInv, NEW m \in Messages, run_send(m)
    PROVE  ChunksOK'
<1>t. RegOK(registry) /\ burst \in BurstType /\ InBurst /\ tasks' = tasks
    BY RunSend DEF Types, RegPart, LoopPart
<1>k. \A n \in Messages, i \in Chunks : ChunkOK(registry, tasks, burst[n], n, i)
    BY DEF ChunkInv, ChunksOK
<1> SUFFICES ASSUME NEW n \in Messages, NEW i \in Chunks
             PROVE  ChunkOK(registry', tasks, burst'[n], n, i)
    BY <1>t DEF ChunksOK
<1>i. i \in Nat /\ i < Frames /\ Frames \in Nat
    BY Sizes DEF Chunks
<1>a. ASSUME n \notin DOMAIN registry', Bursting(burst'[n], i) => Bursting(burst[n], i)
      PROVE  ChunkOK(registry', tasks, burst'[n], n, i)
    BY <1>a, <1>k DEF ChunkOK
<1>b. ASSUME n \in DOMAIN registry' => n \in DOMAIN registry
                /\ (i \in registry'[n].pending <=> i \in registry[n].pending),
             Bursting(burst'[n], i) <=> Bursting(burst[n], i)
      PROVE  ChunkOK(registry', tasks, burst'[n], n, i)
    BY <1>b, <1>k, ChunkKept
<1>g. \A at : Goes(m, at) => burst'[m] = [burst[m] EXCEPT !.at = at]
                             /\ burst'[m].at = at /\ burst'[m].next = burst[m].next
    BY <1>t DEF Goes, BurstType
<1>1. CASE n # m
    <2>1. burst'[n] = burst[n]
        BY <1>1, RunSend
    <2>2. OthersSame(registry', registry, m)
        <3>1. CASE BurstSent(m)
            BY <3>1, <1>t, MarkOK DEF BurstSent
        <3>2. CASE BurstCleansUp(m)
            BY <3>2, <1>t, RemoveOK DEF BurstCleansUp, cleanup
        <3>3. CASE Forget(m)
            <4> DEFINE left == remove(registry, m)
            <4>1. RegOK(left) /\ OthersSame(left, registry, m)
                BY <1>t, RemoveOK
            <4>2. registry' = prune_expired(left)
                BY <3>3 DEF Forget
            <4> HIDE DEF left
            <4> QED BY <4>1, <4>2, PruneOK DEF OthersSame
        <3>4. CASE \/ BurstChecks(m) \/ Claim(m) \/ BurstFails(m) \/ BurstComplete(m)
                   \/ LingerEnds(m) \/ Drained(m) \/ DrainTimesOut(m) \/ TellComplete(m)
            BY <3>4 DEF BurstChecks, Claim, BurstFails, BurstComplete, LingerEnds, Drained,
                  DrainTimesOut, TellComplete, maps, OthersSame
        <3> QED BY <3>1, <3>2, <3>3, <3>4 DEF run_send
    <2> QED BY <1>1, <2>1, <2>2, <1>b DEF OthersSame
<1>2. CASE n = m
    <2>1. CASE BurstSent(m)
        <3>1. /\ burst[m].at = "enqueued" /\ burst[m].next \in Nat
              /\ burst'[m].at = "check" /\ burst'[m].next = burst[m].next + 1
            BY <2>1, <1>t DEF BurstSent, BurstType
        <3>2. /\ DOMAIN registry' = DOMAIN registry
              /\ m \in DOMAIN registry => registry'[m].pending =
                    registry[m].pending \ ({burst[m].next} \cap Chunks)
            <4>1. registry' = mark_chunk_sent(registry, m, {burst[m].next} \cap Chunks)
                BY <2>1 DEF BurstSent
            <4> QED BY <4>1, <1>t, MarkOK
        <3>3. CASE i = burst[m].next
            <4>1. Bursting(burst[n], i) /\ ~Bursting(burst'[n], i)
                BY <1>2, <3>1, <3>3 DEF Bursting
            <4>2. n \in DOMAIN registry' => i \notin registry'[n].pending
                BY <1>2, <3>2, <3>3
            <4> QED BY <4>1, <4>2, <1>k DEF ChunkOK
        <3>4. CASE i # burst[m].next
            <4>1. Bursting(burst'[n], i) <=> Bursting(burst[n], i)
                BY <1>2, <1>i, <3>1, <3>4 DEF Bursting
            <4>2. n \in DOMAIN registry' => n \in DOMAIN registry
                     /\ (i \in registry'[n].pending <=> i \in registry[n].pending)
                BY <1>2, <3>2, <3>4
            <4> QED BY <4>1, <4>2, <1>b
        <3> QED BY <3>3, <3>4
    <2>2. CASE BurstCleansUp(m) \/ Forget(m)
        <3>1. n \notin DOMAIN registry'
            <4>1. RegOK(remove(registry, m)) /\ m \notin DOMAIN remove(registry, m)
                BY <1>t, RemoveOK
            <4>2. \A x \in DOMAIN prune_expired(remove(registry, m)) :
                     x \in DOMAIN remove(registry, m)
                BY <4>1, PruneOK
            <4> QED BY <1>2, <2>2, <4>1, <4>2 DEF BurstCleansUp, cleanup, Forget
        <3>2. burst'[m].at = "done"
            BY <2>2, <1>g DEF BurstCleansUp, Forget
        <3> QED BY <1>2, <3>1, <3>2, <1>a DEF Bursting
    <2>3. CASE BurstChecks(m)
        <3>1. registry' = registry
            BY <2>3 DEF BurstChecks, maps
        <3>2. CASE m \notin active
            <4>1. burst'[m].at = "done" /\ m \notin DOMAIN registry
                BY <2>3, <3>2, <1>g DEF BurstChecks, ChunkInv, Gone
            <4> QED BY <1>2, <3>1, <4>1, <1>a DEF Bursting
        <3>3. CASE m \in active
            <4>1. /\ burst'[m].at \in {"check", "enqueued"} /\ burst'[m].next = burst[m].next
                  /\ burst[m].at \in {"start", "check"}
                BY <2>3, <3>3, <1>g DEF BurstChecks
            <4> QED BY <1>2, <3>1, <4>1, <1>b DEF Bursting
        <3> QED BY <3>2, <3>3
    <2>4. CASE BurstFails(m)
        <3>1. /\ registry' = registry /\ burst[m].at = "enqueued"
              /\ burst'[m].at = "failing" /\ burst'[m].next = burst[m].next
            BY <2>4, <1>g DEF BurstFails, maps
        <3> QED BY <1>2, <3>1, <1>b DEF Bursting
    <2>5. CASE BurstComplete(m)
        <3>1. registry' = registry /\ burst[m].next = Frames /\ burst'[m].at = "linger"
            BY <2>5, <1>g DEF BurstComplete, maps
        <3>2. ~(i >= Frames)
            BY <1>i
        <3> QED BY <1>2, <3>1, <3>2, <1>b DEF Bursting
    <2>6. CASE \/ LingerEnds(m) \/ Drained(m) \/ DrainTimesOut(m)
               \/ Claim(m) \/ TellComplete(m)
        <3>1. /\ registry' = registry
              /\ burst[m].at \in {"linger", "drain", "claim", "claimed"}
              /\ burst'[m].at \in {"drain", "claim", "claimed", "forget"}
            BY <2>6, <1>g DEF LingerEnds, Drained, DrainTimesOut, Claim, TellComplete, maps
        <3> QED BY <1>2, <3>1, <1>b DEF Bursting
    <2> QED BY <2>1, <2>2, <2>3, <2>4, <2>5, <2>6 DEF run_send
<1> QED BY <1>1, <1>2

LEMMA ChunkStep == Types /\ Fresh /\ ChunkInv /\ [Next]_vars => ChunksOK'
<1> SUFFICES ASSUME Types, Fresh, ChunkInv, [Next]_vars PROVE ChunksOK'
    OBVIOUS
<1>t. RegOK(registry) /\ TaskPart /\ LoopPart /\ TasksOK(tasks) /\ ChunksOK
    BY DEF Types, RegPart, TaskPart, TasksOK, ChunkInv
<1>u. ASSUME KeepsPending(registry', registry), tasks' = tasks, burst' = burst PROVE ChunksOK'
    <2> SUFFICES ASSUME NEW n \in Messages, NEW i \in Chunks
                 PROVE  ChunkOK(registry', tasks', burst'[n], n, i)
        BY DEF ChunksOK
    <2>1. ChunkOK(registry, tasks, burst[n], n, i)
        BY <1>t DEF ChunksOK
    <2> QED BY <1>u, <2>1, ChunkSame
<1>f. ASSUME NEW m PROVE KeepsPending(remove(registry, m), registry)
    <2> DEFINE new == remove(registry, m)
    <2>1. OthersSame(new, registry, m) /\ m \notin DOMAIN new
        BY <1>t, RemoveOK
    <2> HIDE DEF new
    <2>2. KeepsPending(new, registry)
        BY <2>1 DEF KeepsPending, OthersSame
    <2> QED BY <2>2 DEF new
<1>d. ASSUME NEW m, NEW missing \in SUBSET Chunks
      PROVE  KeepsPending(defer_nack(registry, m, missing), registry)
    <2> DEFINE new == defer_nack(registry, m, missing)
    <2>1. /\ OthersSame(new, registry, m) /\ DOMAIN new = DOMAIN registry
          /\ m \in DOMAIN registry => new[m].pending = registry[m].pending
        BY <1>t, DeferOK
    <2> HIDE DEF new
    <2>2. KeepsPending(new, registry)
        BY <2>1 DEF KeepsPending, OthersSame
    <2> QED BY <2>2 DEF new
<1>n. ASSUME NEW m, NEW missing, TakeOutcome(registry, m, missing) # "Ok"
      PROVE  KeepsPending(take_retransmit(registry, m, missing), registry)
    <2> DEFINE new == take_retransmit(registry, m, missing)
    <2>1. new = registry \/ new = remove(registry, m)
        BY <1>n DEF take_retransmit
    <2> HIDE DEF new
    <2>2. KeepsPending(new, registry)
        BY <2>1, <1>f, KeepsSame
    <2> QED BY <2>2 DEF new
<1>1. ASSUME NEW m \in Messages, send(m) PROVE ChunksOK'
    <2>1. /\ OthersSame(registry', registry, m) /\ registry'[m] = NewEntry
          /\ tasks' = tasks /\ burst[m].at = "unsent"
        BY <1>1, <1>t, RegisterOK DEF send
    <2>2. /\ burst'[m].at = "start" /\ burst'[m].next = 0
          /\ \A n \in Messages \ {m} : burst'[n] = burst[n]
        <3>1. burst[m].next = 0
            BY <2>1 DEF ChunkInv, AtFirst
        <3> QED BY <1>1, <3>1, <1>t DEF send, Goes, LoopPart, BurstType
    <2> SUFFICES ASSUME NEW n \in Messages, NEW i \in Chunks
                 PROVE  ChunkOK(registry', tasks', burst'[n], n, i)
        BY DEF ChunksOK
    <2>3. CASE n = m
        <3>1. \A t \in TaskIds : ~Bears(tasks[t], m, i)
            BY <2>1 DEF Fresh, Of, Bears, Idle
        <3>2. Bursting(burst'[m], i) /\ i \in registry'[m].pending
            BY <2>1, <2>2, Sizes DEF Bursting, NewEntry, Chunks
        <3> QED BY <2>1, <2>3, <3>1, <3>2 DEF ChunkOK
    <2>4. CASE n # m
        <3>1. ChunkOK(registry, tasks, burst[n], n, i)
            BY <1>t DEF ChunksOK
        <3> QED BY <2>1, <2>2, <2>4, <3>1, ChunkKept DEF OthersSame
    <2> QED BY <2>3, <2>4
<1>2. ASSUME NEW m \in Messages, run_send(m) PROVE ChunksOK'
    BY <1>2, BurstChunks
<1>3. ASSUME NEW m \in Messages, CooldownLapses(m) \/ TtlElapses(m) PROVE ChunksOK'
    <2>1. KeepsPending(registry', registry) /\ burst' = burst
        BY <1>3, <1>t, FlagOK DEF CooldownLapses, TtlElapses, KeepsPending, OthersSame
    <2>2. \A t \in TaskIds, n \in Messages, i \in Chunks :
             Bears(tasks'[t], n, i) <=> Bears(tasks[t], n, i)
        <3>1. CASE TtlElapses(m)
            BY <3>1 DEF TtlElapses
        <3>2. CASE CooldownLapses(m)
            <4> SUFFICES ASSUME NEW t \in TaskIds, NEW n \in Messages, NEW i \in Chunks
                         PROVE  Bears(tasks'[t], n, i) <=> Bears(tasks[t], n, i)
                OBVIOUS
            <4>1. CASE tasks[t] \in SleepType
                <5>1. tasks[t] \in Live /\ tasks[t].at = "sleeping"
                    BY <4>1 DEF SleepType, Live
                <5>2. tasks'[t].at = "sleeping"
                    BY <3>2, <5>1, <1>t, MadeDue DEF TaskPart
                <5> QED BY <5>1, <5>2 DEF Bears
            <4>2. CASE tasks[t] \notin SleepType
                BY <3>2, <4>2, <1>t, MadeDue DEF TaskPart
            <4> QED BY <4>1, <4>2
        <3> QED BY <1>3, <3>1, <3>2
    <2> SUFFICES ASSUME NEW n \in Messages, NEW i \in Chunks
                 PROVE  ChunkOK(registry', tasks', burst'[n], n, i)
        BY DEF ChunksOK
    <2>3. ChunkOK(registry, tasks, burst[n], n, i)
        BY <1>t DEF ChunksOK
    <2> QED BY <2>1, <2>2, <2>3, ChunkSame
<1>5. ASSUME NEW m \in Messages, NEW missing, NEW g, NackArrives(m, missing, g) PROVE ChunksOK'
    BY <1>5, <1>u, KeepsSame DEF NackArrives, maps
<1>6. ASSUME Listen PROVE ChunksOK'
    <2> DEFINE m == listener.msg
    <2>0. m \in Messages /\ listener.chunks \in SUBSET Chunks
        BY <1>6, <1>t, Serving DEF Listen, GiveUpTold, GiveUpCleansUp, ListenerDispatches,
              ListenerSkips, ListenerTakes, ListenerDefers
    <2>1. CASE GiveUpTold \/ GiveUpCleansUp
        BY <2>1, <1>f, <1>u, KeepsSame DEF GiveUpTold, GiveUpCleansUp, cleanup, maps
    <2>2. CASE ListenerSkips
        BY <2>2, <1>n, <1>u DEF ListenerSkips, ListenerTakes, ListenerOutcome
    <2>3. CASE ListenerDispatches
        <3> DEFINE plan == frames_for(registry[m], listener.chunks)
        <3>1. /\ TakeOutcome(registry, m, listener.chunks) = "Ok" /\ burst' = burst
              /\ registry' = take_retransmit(registry, m, listener.chunks)
              /\ Spawn(m, Queued(m, plan))
            BY <2>3 DEF ListenerDispatches, ListenerTakes, ListenerOutcome
        <3>2. PICK t \in TaskIds : tasks[t] = Idle /\ tasks' = Change(tasks, t, Queued(m, plan))
            BY <3>1 DEF Spawn, FreeId, Change
        <3>3. tasks[t].at \notin {"queued", "sending"}
            BY <3>2 DEF Idle
        <3> QED BY <3>1, <3>2, <3>3, <2>0, <1>t, PlanTaken
    <2>4. CASE ListenerDefers
        <3>1. KeepsPending(registry', registry) /\ burst' = burst
            BY <2>4, <2>0, <1>d DEF ListenerDefers
        <3>2. Spawn(m, Asleep(m)) \/ tasks' = tasks
            BY <2>4 DEF ListenerDefers
        <3>3. ASSUME Spawn(m, Asleep(m)) PROVE ChunksOK'
            <4>1. PICK t \in TaskIds : tasks[t] = Idle /\ tasks' = Change(tasks, t, Asleep(m))
                BY <3>3 DEF Spawn, FreeId, Change
            <4>2. tasks[t].at \notin {"queued", "sending"}
                  /\ Asleep(m).at \notin {"queued", "sending"}
                BY <4>1 DEF Idle, Asleep
            <4> QED BY <4>1, <4>2, <3>1, <1>t, EmptyHanded
        <3> QED BY <3>1, <3>2, <3>3, <1>u
    <2> QED BY <1>6, <2>1, <2>2, <2>3, <2>4 DEF Listen
<1>7. ASSUME NEW t \in TaskIds, Retransmit(t) PROVE ChunksOK'
    <2> DEFINE m == Msg(t)
    <2>0. tasks[t] \in Live /\ m \in Messages /\ m = tasks[t].msg /\ burst' = burst
        BY <1>7, <1>t, Working DEF Retransmit, WakesUp, AwakeTakes, Redefers, AcquiresPermit,
              Dispatches, Msg
    <2>1. CASE WakesUp(t)
        <3>1. KeepsPending(registry', registry)
            <4> DEFINE new == take_deferred(registry, m)
            <4>1. /\ OthersSame(new, registry, m) /\ DOMAIN new = DOMAIN registry
                  /\ m \in DOMAIN registry => new[m].pending = registry[m].pending
                BY <1>t, TakeDeferredOK
            <4>2. registry' = new
                BY <2>1 DEF WakesUp
            <4> HIDE DEF new
            <4> QED BY <4>1, <4>2 DEF KeepsPending, OthersSame
        <3>2. PICK k : tasks' = Change(tasks, t, k) /\ k.at \in {"none", "awake"}
            <4>1. \/ tasks' = Change(tasks, t, Idle)
                  \/ tasks' = Change(tasks, t, Awake(m, registry[m].deferred))
                BY <2>1 DEF WakesUp, Become, End, Change
            <4>2. Idle.at = "none" /\ Awake(m, registry[m].deferred).at = "awake"
                BY DEF Idle, Awake
            <4> QED BY <4>1, <4>2
        <3>3. tasks[t].at = "sleeping"
            BY <2>1 DEF WakesUp
        <3> QED BY <3>1, <3>2, <3>3, <2>0, <1>t, EmptyHanded
    <2>2. CASE AwakeTakes(t)
        <3> DEFINE missing == tasks[t].chunks
        <3>1. registry' = take_retransmit(registry, m, missing) /\ tasks[t].at = "awake"
            BY <2>2 DEF AwakeTakes
        <3>2. CASE TakeOutcome(registry, m, missing) = "Ok"
            <4>1. tasks' = Change(tasks, t, Queued(m, frames_for(registry[m], missing)))
                BY <2>2, <3>2 DEF AwakeTakes, Become, Change
            <4> QED BY <3>1, <3>2, <4>1, <2>0, <1>t, PlanTaken
        <3>3. CASE TakeOutcome(registry, m, missing) # "Ok"
            <4>1. PICK k : tasks' = Change(tasks, t, k) /\ k.at \in {"none", "redefer"}
                <5>1. \/ tasks' = Change(tasks, t, Idle)
                      \/ tasks' = Change(tasks, t, Redeferring(m, missing))
                    BY <2>2, <3>3 DEF AwakeTakes, Become, End, Change
                <5>2. Idle.at = "none" /\ Redeferring(m, missing).at = "redefer"
                    BY DEF Idle, Redeferring
                <5> QED BY <5>1, <5>2
            <4>2. KeepsPending(registry', registry)
                BY <3>1, <3>3, <1>n
            <4> QED BY <3>1, <4>1, <4>2, <2>0, <1>t, EmptyHanded
        <3> QED BY <3>2, <3>3
    <2>3. CASE Redefers(t)
        <3>1. tasks[t].chunks \in SUBSET Chunks /\ tasks[t].at = "redefer"
            BY <2>3, <1>t, Working DEF Redefers
        <3>2. KeepsPending(registry', registry)
            BY <2>3, <3>1, <1>d DEF Redefers
        <3>3. PICK k : tasks' = Change(tasks, t, k) /\ k.at \in {"none", "sleeping"}
            <4>1. tasks' = Change(tasks, t, Idle) \/ tasks' = Change(tasks, t, Asleep(m))
                BY <2>3 DEF Redefers, Become, End, Change
            <4>2. Idle.at = "none" /\ Asleep(m).at = "sleeping"
                BY DEF Idle, Asleep
            <4> QED BY <4>1, <4>2
        <3> QED BY <3>1, <3>2, <3>3, <2>0, <1>t, EmptyHanded
    <2>4. CASE AcquiresPermit(t)
        <3> DEFINE k == Dispatching(m, tasks[t].chunks)
        <3>1. /\ tasks[t].at = "queued" /\ tasks' = Change(tasks, t, k)
              /\ KeepsPending(registry', registry)
            BY <2>4, KeepsSame DEF AcquiresPermit, Become, Change
        <3>2. tasks'[t] = k /\ \A u \in TaskIds \ {t} : tasks'[u] = tasks[u]
            BY <3>1, <1>t DEF TasksOK, Change
        <3>3. \A u \in TaskIds, n \in Messages, i \in Chunks :
                 Bears(tasks'[u], n, i) <=> Bears(tasks[u], n, i)
            BY <2>0, <3>1, <3>2 DEF Bears, Dispatching
        <3> SUFFICES ASSUME NEW n \in Messages, NEW i \in Chunks
                     PROVE  ChunkOK(registry', tasks', burst'[n], n, i)
            BY DEF ChunksOK
        <3>4. ChunkOK(registry, tasks, burst[n], n, i)
            BY <1>t DEF ChunksOK
        <3> QED BY <2>0, <3>1, <3>3, <3>4, ChunkSame
    <2>5. CASE Dispatches(t)
        BY <2>5, <1>t, BatchShrinks
    <2> QED BY <1>7, <2>1, <2>2, <2>3, <2>4, <2>5 DEF Retransmit
<1>8. CASE UNCHANGED vars
    BY <1>8, <1>u, KeepsSame DEF vars, maps, told
<1> QED BY <1>1, <1>2, <1>3, <1>5, <1>6, <1>7, <1>8 DEF Next

\* Overlapping NACK rounds, a deferred round and the burst never have one
\* chunk on its way twice, and pending_chunks names exactly the chunks on
\* their way, whatever errors and time-outs the batches meet.
THEOREM ChunkCorrect == Spec => []EachChunkOnce
<1> DEFINE Ind == Types /\ Fresh /\ ChunkInv
<1>1. Init => Ind
    <2>1. Init => \A m : Of(tasks, m) = {}
        BY DEF Init, Of
    <2>2. Init => Fresh
        BY <2>1 DEF Init, Fresh
    <2>3. Init => \A n \in Messages, i \in Chunks : ChunkOK(registry, tasks, burst[n], n, i)
        BY DEF Init, ChunkOK, Bears, Idle
    <2>4. Init => Gone /\ AtFirst
        BY DEF Init, Gone, AtFirst
    <2> QED BY <2>2, <2>3, <2>4, TypesInit DEF ChunkInv, ChunksOK
<1>2. Ind /\ [Next]_vars => Ind'
    <2>1. ChunkInv => Gone /\ AtFirst
        BY DEF ChunkInv
    <2>2. (Gone' /\ AtFirst' /\ ChunksOK') => ChunkInv'
        BY DEF ChunkInv
    <2> QED BY <2>1, <2>2, TypesStep, FreshStep, GoneStep, AtFirstStep, ChunkStep
<1>3. Ind => EachChunkOnce
    BY ChunkImplies
<1> QED BY <1>1, <1>2, <1>3, PTL DEF Spec

-----------------------------------------------------------------------------
(* One verdict each, and never none *)

Count(q, s) == Cardinality({ i \in DOMAIN q : q[i] = s })
Verdicts(q) == Count(q, "Complete") + Count(q, "Failed")
Serves(l, at, m) == l.at = at /\ l.msg = m

VerdictOK(b, q, l, act, reg, m) ==
    /\ Verdicts(q) <= 1
    /\ b.at \notin {"failing", "forget", "done"} => Verdicts(q) = 0
    /\ Count(q, "GaveUp") <= 1
    /\ Serves(l, "give_up", m) \/ b.at = "unsent" => Count(q, "GaveUp") = 0
    /\ m \in act => Count(q, "GaveUp") = 0 \/ Serves(l, "cleanup", m)
    /\ Serves(l, "cleanup", m) \/ b.at = "failing" => q # <<>>
    /\ b.at \notin {"unsent", "claimed"} /\ m \notin act => q # <<>>
    /\ b.at \in {"claimed", "forget", "done"} => m \notin act
    /\ b.at = "done" => m \notin DOMAIN reg

VerdictInv ==
    \A m \in Messages : VerdictOK(burst[m], ends[m], listener, active, registry, m)

LEMMA CountType ==
    ASSUME NEW q \in Seq(Terminal), NEW s
    PROVE  /\ Count(q, s) \in Nat /\ Verdicts(q) \in Nat
           /\ IsFiniteSet({ i \in DOMAIN q : q[i] = s })
<1>1. ASSUME NEW r PROVE Count(q, r) \in Nat /\ IsFiniteSet({ i \in DOMAIN q : q[i] = r })
    <2>1. DOMAIN q = 1 .. Len(q) /\ Len(q) \in Nat
        OBVIOUS
    <2>2. IsFiniteSet(1 .. Len(q))
        BY <2>1, FS_Interval
    <2>3. IsFiniteSet({ i \in DOMAIN q : q[i] = r })
        BY <2>1, <2>2, FS_Subset
    <2> QED BY <2>3, FS_CardinalityType DEF Count
<1>2. Count(q, s) \in Nat /\ IsFiniteSet({ i \in DOMAIN q : q[i] = s })
    BY <1>1
<1>3. Count(q, "Complete") \in Nat /\ Count(q, "Failed") \in Nat
    BY <1>1
<1>4. Verdicts(q) \in Nat
    BY <1>3 DEF Verdicts
<1> QED BY <1>2, <1>4

LEMMA CountAppend ==
    ASSUME NEW q \in Seq(Terminal), NEW x \in Terminal, NEW s
    PROVE  /\ Append(q, x) # <<>>
           /\ x = s => Count(Append(q, x), s) = Count(q, s) + 1
           /\ x # s => Count(Append(q, x), s) = Count(q, s)
<1> DEFINE p == Append(q, x)
           said(r) == { i \in DOMAIN r : r[i] = s }
           n == Len(q) + 1
<1>1. /\ DOMAIN q = 1 .. Len(q) /\ Len(q) \in Nat /\ DOMAIN p = 1 .. n /\ p[n] = x
      /\ \A i \in DOMAIN q : p[i] = q[i]
    OBVIOUS
<1>2. p # <<>>
    BY <1>1
<1>3. n \notin said(q)
    BY <1>1
<1>i. \A i : i \in 1 .. n <=> i \in 1 .. Len(q) \/ i = n
    BY <1>1
<1>4. x = s => said(p) = said(q) \cup {n}
    <2> HIDE DEF n, p
    <2> QED BY <1>1, <1>i
<1>5. x # s => said(p) = said(q)
    <2> HIDE DEF n, p
    <2> QED BY <1>1, <1>i
<1>6. IsFiniteSet(said(q))
    BY CountType
<1> HIDE DEF said, n
<1>7. x = s => Cardinality(said(p)) = Cardinality(said(q)) + 1
    BY <1>3, <1>4, <1>6, FS_AddElement
<1> QED BY <1>2, <1>5, <1>7 DEF Count, said

\* The statuses of a message, and those of the others, after a Tell.
LEMMA Told ==
    ASSUME EndsPart, NEW m \in Messages, NEW s, Tell(m, s)
    PROVE  /\ s \in Terminal => ends'[m] = Append(ends[m], s)
           /\ s \notin Terminal => ends'[m] = ends[m]
           /\ \A n \in Messages \ {m} : ends'[n] = ends[n]
BY DEF EndsPart, Tell

\* A message nothing happens to, but that the listener may serve it or its
\* entry go.
LEMMA VerdictKept ==
    ASSUME NEW m, NEW b, NEW q, NEW l, NEW act, NEW reg, NEW b2, NEW l2, NEW act2, NEW reg2,
           VerdictOK(b, q, l, act, reg, m),
           b2.at = b.at, m \in act2 <=> m \in act,
           m \in DOMAIN reg2 => m \in DOMAIN reg,
           Serves(l2, "give_up", m) <=> Serves(l, "give_up", m),
           Serves(l2, "cleanup", m) <=> Serves(l, "cleanup", m)
    PROVE  VerdictOK(b2, q, l2, act2, reg2, m)
BY DEF VerdictOK

LEMMA VerdictBurst ==
    ASSUME Types, Gone, VerdictInv, NEW m \in Messages, run_send(m) PROVE VerdictInv'
<1>t. RegOK(registry) /\ burst \in BurstType /\ EndsPart /\ listener' = listener
      /\ KeepsDeferral(registry', registry)
    BY RunSend DEF Types, RegPart, LoopPart
<1>d. \A x : x \in DOMAIN registry' => x \in DOMAIN registry
    BY <1>t DEF KeepsDeferral
<1>o. ASSUME NEW n \in Messages, n # m
      PROVE  VerdictOK(burst'[n], ends'[n], listener', active', registry', n)
    <2>1. VerdictOK(burst[n], ends[n], listener, active, registry, n)
        BY DEF VerdictInv
    <2>2. burst'[n] = burst[n]
        BY <1>o, RunSend
    <2>3. ends'[n] = ends[n]
        BY <1>o, <1>t, Told DEF run_send, BurstSent, BurstCleansUp, Forget, Claim, BurstChecks,
              BurstFails, BurstComplete, LingerEnds, Drained, DrainTimesOut, TellComplete, told
    <2>4. n \in active' <=> n \in active
        BY <1>o DEF run_send, BurstSent, BurstCleansUp, cleanup, Forget, Claim, BurstChecks,
              BurstFails, BurstComplete, LingerEnds, Drained, DrainTimesOut, TellComplete, maps
    <2> QED BY <1>d, <1>t, <2>1, <2>2, <2>3, <2>4, VerdictKept
<1>v. VerdictOK(burst[m], ends[m], listener, active, registry, m)
    BY DEF VerdictInv
<1>q. ends[m] \in Seq(Terminal)
    BY <1>t DEF EndsPart
<1>c. Count(ends[m], "Complete") \in Nat /\ Count(ends[m], "Failed") \in Nat
      /\ Count(ends[m], "GaveUp") \in Nat
    BY <1>q, CountType
<1>g. \A at : Goes(m, at) => burst'[m].at = at
    BY <1>t DEF Goes, BurstType
<1>m. VerdictOK(burst'[m], ends'[m], listener', active', registry', m)
    <2>1. CASE BurstChecks(m)
        <3>1. /\ ends'[m] = ends[m] /\ active' = active /\ registry' = registry
              /\ burst[m].at \in {"start", "check"}
              /\ m \notin active => burst'[m].at = "done"
              /\ m \in active => burst'[m].at \in {"check", "enqueued"}
            BY <2>1, <1>g DEF BurstChecks, maps, told
        <3>2. m \notin active => m \notin DOMAIN registry
            BY <3>1 DEF Gone
        <3> QED BY <3>1, <3>2, <1>t, <1>v DEF VerdictOK
    <2>2. CASE BurstSent(m)
        <3>1. burst[m].at = "enqueued" /\ burst'[m].at = "check" /\ active' = active
            BY <2>2, <1>t DEF BurstSent, BurstType
        <3>2. ends'[m] = ends[m]
            BY <2>2, <1>t, Told DEF BurstSent, Terminal
        <3> QED BY <3>1, <3>2, <1>d, <1>t, <1>v DEF VerdictOK
    <2>3. CASE BurstFails(m)
        <3>1. /\ burst[m].at = "enqueued" /\ burst'[m].at = "failing" /\ active' = active
              /\ registry' = registry /\ Tell(m, "Failed")
            BY <2>3, <1>g DEF BurstFails, maps
        <3>2. ends'[m] = Append(ends[m], "Failed")
            BY <3>1, <1>t, Told DEF Terminal
        <3>3. /\ ends'[m] # <<>>
              /\ Count(ends'[m], "Failed") = Count(ends[m], "Failed") + 1
              /\ Count(ends'[m], "Complete") = Count(ends[m], "Complete")
              /\ Count(ends'[m], "GaveUp") = Count(ends[m], "GaveUp")
            BY <3>2, <1>q, CountAppend DEF Terminal
        <3> QED BY <3>1, <3>3, <1>c, <1>t, <1>v DEF VerdictOK, Verdicts
    <2>4. CASE TellComplete(m)
        <3>1. /\ burst[m].at = "claimed" /\ burst'[m].at = "forget" /\ active' = active
              /\ registry' = registry /\ Tell(m, "Complete")
            BY <2>4, <1>g DEF TellComplete, maps
        <3>2. ends'[m] = Append(ends[m], "Complete")
            BY <3>1, <1>t, Told DEF Terminal
        <3>3. /\ ends'[m] # <<>>
              /\ Count(ends'[m], "Failed") = Count(ends[m], "Failed")
              /\ Count(ends'[m], "Complete") = Count(ends[m], "Complete") + 1
              /\ Count(ends'[m], "GaveUp") = Count(ends[m], "GaveUp")
            BY <3>2, <1>q, CountAppend DEF Terminal
        <3> QED BY <3>1, <3>3, <1>c, <1>t, <1>v DEF VerdictOK, Verdicts
    <2>5. CASE BurstCleansUp(m)
        <3>1. /\ burst[m].at = "failing" /\ burst'[m].at = "done" /\ m \notin active'
              /\ m \notin DOMAIN registry' /\ ends'[m] = ends[m]
            BY <2>5, <1>g, <1>t, RemoveOK DEF BurstCleansUp, cleanup, told
        <3> QED BY <3>1, <1>t, <1>v DEF VerdictOK
    <2>6. CASE Claim(m)
        <3>1. /\ burst[m].at = "claim" /\ m \notin active' /\ ends'[m] = ends[m]
              /\ m \in active => burst'[m].at = "claimed"
              /\ m \notin active => burst'[m].at = "forget"
            BY <2>6, <1>g DEF Claim, told
        <3> QED BY <3>1, <1>d, <1>t, <1>v DEF VerdictOK
    <2>7. CASE Forget(m)
        <3>1. /\ burst[m].at = "forget" /\ burst'[m].at = "done" /\ active' = active
              /\ ends'[m] = ends[m]
            BY <2>7, <1>g DEF Forget, told
        <3>2. m \notin DOMAIN registry'
            <4> DEFINE left == remove(registry, m)
            <4>1. RegOK(left) /\ m \notin DOMAIN left
                BY <1>t, RemoveOK
            <4>2. registry' = prune_expired(left)
                BY <2>7 DEF Forget
            <4> HIDE DEF left
            <4> QED BY <4>1, <4>2, PruneOK
        <3> QED BY <3>1, <3>2, <1>t, <1>v DEF VerdictOK
    <2>8. CASE BurstComplete(m)
        <3>1. burst[m].at = "check" /\ burst'[m].at = "linger" /\ active' = active
              /\ registry' = registry
            BY <2>8, <1>g DEF BurstComplete, maps
        <3>2. ends'[m] = ends[m]
            BY <2>8, <1>t, Told DEF BurstComplete, Terminal
        <3> QED BY <3>1, <3>2, <1>t, <1>v DEF VerdictOK
    <2>9. CASE LingerEnds(m) \/ Drained(m) \/ DrainTimesOut(m)
        <3>1. /\ burst[m].at \in {"linger", "drain"} /\ burst'[m].at \in {"drain", "claim"}
              /\ active' = active /\ registry' = registry /\ ends'[m] = ends[m]
            BY <2>9, <1>g DEF LingerEnds, Drained, DrainTimesOut, maps, told
        <3> QED BY <3>1, <1>t, <1>v DEF VerdictOK
    <2> QED BY <2>1, <2>2, <2>3, <2>4, <2>5, <2>6, <2>7, <2>8, <2>9 DEF run_send
<1> QED BY <1>o, <1>m DEF VerdictInv

LEMMA VerdictStep == Types /\ Fresh /\ Gone /\ VerdictInv /\ [Next]_vars => VerdictInv'
<1> SUFFICES ASSUME Types, Fresh, Gone, VerdictInv, [Next]_vars PROVE VerdictInv'
    OBVIOUS
<1>t. RegOK(registry) /\ LoopPart /\ TaskPart /\ EndsPart
    BY DEF Types, RegPart
<1>v. \A n \in Messages : VerdictOK(burst[n], ends[n], listener, active, registry, n)
    BY DEF VerdictInv
<1>u. ASSUME burst' = burst, ends' = ends, active' = active,
             DOMAIN registry' \subseteq DOMAIN registry,
             \A n \in Messages : /\ Serves(listener', "give_up", n) <=> Serves(listener, "give_up", n)
                                 /\ Serves(listener', "cleanup", n) <=> Serves(listener, "cleanup", n)
      PROVE  VerdictInv'
    <2> SUFFICES ASSUME NEW n \in Messages
                 PROVE  VerdictOK(burst'[n], ends'[n], listener', active', registry', n)
        BY DEF VerdictInv
    <2> QED BY <1>u, <1>v, VerdictKept
<1>1. ASSUME NEW m \in Messages, send(m) PROVE VerdictInv'
    <2> SUFFICES ASSUME NEW n \in Messages
                 PROVE  VerdictOK(burst'[n], ends'[n], listener', active', registry', n)
        BY DEF VerdictInv
    <2>1. ends'[n] = ends[n] /\ listener' = listener /\ active' = active \cup {m}
        BY <1>1, <1>t, Told DEF send, Terminal
    <2>2. CASE n # m
        <3>1. burst'[n] = burst[n]
            BY <1>1, <2>2, <1>t DEF send, Goes, LoopPart, BurstType
        <3>2. n \in DOMAIN registry' => n \in DOMAIN registry
            BY <1>1, <2>2, <1>t, RegisterOK DEF send, OthersSame
        <3> QED BY <2>1, <2>2, <3>1, <3>2, <1>v, VerdictKept
    <2>3. CASE n = m
        <3>1. burst[m].at = "unsent" /\ burst'[m].at = "start"
            BY <1>1, <1>t DEF send, Goes, LoopPart, BurstType
        <3>2. ~Serves(listener, "give_up", m) /\ ~Serves(listener, "cleanup", m)
            BY <3>1 DEF Fresh, Serves, Receiving
        <3> QED BY <2>1, <2>3, <3>1, <3>2, <1>v DEF VerdictOK
    <2> QED BY <2>2, <2>3
<1>2. ASSUME NEW m \in Messages, run_send(m) PROVE VerdictInv'
    BY <1>2, VerdictBurst
<1>3. ASSUME NEW m \in Messages, CooldownLapses(m) \/ TtlElapses(m) PROVE VerdictInv'
    <2>1. ends' = ends
        BY <1>3 DEF CooldownLapses, TtlElapses, told
    <2> QED BY <1>3, <2>1, <1>u, TimePasses
<1>5. ASSUME NEW m \in Messages, NEW missing, NEW g, NackArrives(m, missing, g) PROVE VerdictInv'
    <2> SUFFICES ASSUME NEW n \in Messages
                 PROVE  VerdictOK(burst'[n], ends'[n], listener', active', registry', n)
        BY DEF VerdictInv
    <2>1. /\ burst' = burst /\ ends' = ends /\ active' = active /\ registry' = registry
          /\ m \in active /\ listener.at = "recv"
          /\ listener'.at \in {"give_up", "take"} /\ listener'.msg = m
        BY <1>5 DEF NackArrives, maps, told
    <2>2. ~Serves(listener, "give_up", n) /\ ~Serves(listener, "cleanup", n)
          /\ ~Serves(listener', "cleanup", n) /\ (Serves(listener', "give_up", n) => n = m)
        BY <2>1 DEF Serves
    <2> QED BY <2>1, <2>2, <1>v DEF VerdictOK
<1>6. ASSUME Listen PROVE VerdictInv'
    <2> DEFINE m == listener.msg
    <2>0. m \in Messages /\ listener \in ServeType
        BY <1>6, <1>t, Serving DEF Listen, GiveUpTold, GiveUpCleansUp, ListenerDispatches,
              ListenerSkips, ListenerTakes, ListenerDefers
    <2>1. CASE GiveUpTold
        <3> SUFFICES ASSUME NEW n \in Messages
                     PROVE  VerdictOK(burst'[n], ends'[n], listener', active', registry', n)
            BY DEF VerdictInv
        <3>1. /\ burst' = burst /\ active' = active /\ registry' = registry
              /\ listener.at = "give_up" /\ Tell(m, "GaveUp")
              /\ listener'.at = "cleanup" /\ listener'.msg = m
            BY <2>0, <2>1 DEF GiveUpTold, Listens, maps, ServeType
        <3>2. ends'[m] = Append(ends[m], "GaveUp")
              /\ \A x \in Messages \ {m} : ends'[x] = ends[x]
            BY <3>1, <2>0, <1>t, Told DEF Terminal
        <3>3. CASE n # m
            <4>1. ~Serves(listener', "give_up", n) /\ ~Serves(listener', "cleanup", n)
                  /\ ~Serves(listener, "give_up", n) /\ ~Serves(listener, "cleanup", n)
                BY <3>1, <3>3 DEF Serves
            <4> QED BY <3>1, <3>2, <3>3, <4>1, <1>v, VerdictKept
        <3>4. CASE n = m
            <4>1. /\ ends'[m] # <<>>
                  /\ Count(ends'[m], "Failed") = Count(ends[m], "Failed")
                  /\ Count(ends'[m], "Complete") = Count(ends[m], "Complete")
                  /\ Count(ends'[m], "GaveUp") = Count(ends[m], "GaveUp") + 1
                <5>1. ends[m] \in Seq(Terminal)
                    BY <2>0, <1>t DEF EndsPart
                <5>2. "GaveUp" \in Terminal
                    BY DEF Terminal
                <5> DEFINE p == Append(ends[m], "GaveUp")
                <5>3. /\ p # <<>>
                      /\ Count(p, "Failed") = Count(ends[m], "Failed")
                      /\ Count(p, "Complete") = Count(ends[m], "Complete")
                      /\ Count(p, "GaveUp") = Count(ends[m], "GaveUp") + 1
                    BY <5>1, <5>2, CountAppend
                <5> QED BY <3>2, <5>3
            <4>2. VerdictOK(burst[m], ends[m], listener, active, registry, m)
                BY <1>v, <2>0
            <4>3. Serves(listener, "give_up", m) /\ Serves(listener', "cleanup", m)
                  /\ ~Serves(listener', "give_up", m)
                BY <3>1 DEF Serves
            <4>4. burst[m].at # "unsent"
                BY <2>0, <3>1 DEF Fresh, Receiving
            <4> HIDE DEF m
            <4> QED BY <3>1, <3>4, <4>1, <4>2, <4>3, <4>4 DEF VerdictOK, Verdicts
        <3> QED BY <3>3, <3>4
    <2>2. CASE GiveUpCleansUp
        <3> SUFFICES ASSUME NEW n \in Messages
                     PROVE  VerdictOK(burst'[n], ends'[n], listener', active', registry', n)
            BY DEF VerdictInv
        <3>1. /\ burst' = burst /\ active' = active \ {m} /\ ends' = ends
              /\ listener.at = "cleanup" /\ listener'.at = "recv"
              /\ DOMAIN registry' \subseteq DOMAIN registry
            BY <2>2 DEF GiveUpCleansUp, cleanup, Receiving, told, remove
        <3>2. ~Serves(listener', "give_up", n) /\ ~Serves(listener', "cleanup", n)
              /\ ~Serves(listener, "give_up", n) /\ (Serves(listener, "cleanup", n) <=> n = m)
            BY <3>1 DEF Serves
        <3>3. CASE n # m
            BY <3>1, <3>2, <3>3, <1>v, VerdictKept
        <3>4. CASE n = m
            BY <3>1, <3>2, <3>4, <1>v DEF VerdictOK
        <3> QED BY <3>3, <3>4
    <2>3. CASE ListenerDispatches \/ ListenerSkips \/ ListenerDefers
        <3>1. /\ burst' = burst /\ active' = active
              /\ listener.at \in {"take", "defer"} /\ listener'.at \in {"recv", "take", "defer"}
            <4>1. /\ burst' = burst /\ active' = active /\ listener.at \in {"take", "defer"}
                BY <2>3 DEF ListenerDispatches, ListenerSkips, ListenerTakes, ListenerDefers
            <4>2. \/ listener' = Receiving \/ listener' = [listener EXCEPT !.at = "defer"]
                  \/ listener' = [listener EXCEPT !.at = "take", !.tries = listener.tries + 1]
                BY <2>3 DEF ListenerDispatches, ListenerSkips, ListenerDefers
            <4>3. Receiving.at = "recv" /\ [listener EXCEPT !.at = "defer"].at = "defer"
                  /\ [listener EXCEPT !.at = "take", !.tries = listener.tries + 1].at = "take"
                BY <2>0 DEF Receiving, ServeType
            <4> QED BY <4>1, <4>2, <4>3
        <3>2. ends' = ends
            BY <2>3 DEF ListenerDispatches, ListenerSkips, ListenerDefers, Tell, Terminal, told
        <3>3. DOMAIN registry' \subseteq DOMAIN registry
            <4>1. CASE ListenerDispatches \/ ListenerSkips
                <5>1. KeepsDeferral(registry', registry)
                    BY <4>1, <1>t, TakeKeeps DEF ListenerDispatches, ListenerSkips, ListenerTakes
                <5> QED BY <5>1 DEF KeepsDeferral
            <4>2. CASE ListenerDefers
                <5>1. listener.chunks \in SUBSET Chunks
                    BY <2>0 DEF ServeType
                <5> QED BY <5>1, <4>2, <1>t, DeferOK DEF ListenerDefers
            <4> QED BY <2>3, <4>1, <4>2
        <3>4. \A n \in Messages : /\ ~Serves(listener, "give_up", n) /\ ~Serves(listener, "cleanup", n)
                                  /\ ~Serves(listener', "give_up", n) /\ ~Serves(listener', "cleanup", n)
            BY <3>1 DEF Serves
        <3> QED BY <3>1, <3>2, <3>3, <3>4, <1>u
    <2> QED BY <1>6, <2>1, <2>2, <2>3 DEF Listen
<1>7. ASSUME NEW t \in TaskIds, Retransmit(t) PROVE VerdictInv'
    <2>1. UNCHANGED <<burst, listener, active>>
        BY <1>7 DEF Retransmit, WakesUp, AwakeTakes, Redefers, AcquiresPermit, Dispatches
    <2>2. ends' = ends
        BY <1>7 DEF Retransmit, WakesUp, AwakeTakes, Redefers, AcquiresPermit, Dispatches,
              Tell, Terminal, told
    <2>3. DOMAIN registry' \subseteq DOMAIN registry
        <3>1. CASE WakesUp(t)
            BY <3>1, <1>t, TakeDeferredOK DEF WakesUp
        <3>2. CASE AwakeTakes(t)
            BY <3>2, <1>t, TakeKeeps DEF AwakeTakes, KeepsDeferral
        <3>3. CASE Redefers(t)
            <4>1. tasks[t].chunks \in SUBSET Chunks
                BY <3>3, <1>t, Working DEF Redefers
            <4> QED BY <4>1, <3>3, <1>t, DeferOK DEF Redefers
        <3>4. CASE AcquiresPermit(t)
            BY <3>4 DEF AcquiresPermit
        <3>5. CASE Dispatches(t)
            BY <3>5, <1>t, MarkKeeps DEF Dispatches, KeepsDeferral
        <3> QED BY <1>7, <3>1, <3>2, <3>3, <3>4, <3>5 DEF Retransmit
    <2> QED BY <2>1, <2>2, <2>3, <1>u
<1>8. CASE UNCHANGED vars
    BY <1>8, <1>u DEF vars, maps, told
<1> QED BY <1>1, <1>2, <1>3, <1>5, <1>6, <1>7, <1>8 DEF Next

\* run_send ends its message with at most one verdict, the listener gives it
\* up at most once, and none of run_send's returns leaves a subscriber without
\* a terminal status or the maps with an entry.
THEOREM VerdictCorrect == Spec => []OneVerdictEach
<1> DEFINE Ind == Types /\ Fresh /\ Gone /\ VerdictInv
<1>1. Init => Ind
    <2>1. Init => \A m : Of(tasks, m) = {}
        BY DEF Init, Of
    <2>2. Init => Fresh
        BY <2>1 DEF Init, Fresh
    <2>3. \A s : { i \in DOMAIN <<>> : <<>>[i] = s } = {}
        OBVIOUS
    <2>4. \A s : Count(<<>>, s) = 0
        BY <2>3, FS_EmptySet DEF Count
    <2>5. Init => VerdictInv
        BY <2>4 DEF Init, VerdictInv, VerdictOK, Verdicts, Serves, Receiving
    <2>6. Init => Gone
        BY DEF Init, Gone
    <2> QED BY <2>2, <2>5, <2>6, TypesInit
<1>2. Ind /\ [Next]_vars => Ind'
    BY TypesStep, FreshStep, GoneStep, VerdictStep
<1>3. Ind => OneVerdictEach
    <2> SUFFICES ASSUME Ind, NEW m \in Messages
                 PROVE  /\ Said(m, "Complete") + Said(m, "Failed") <= 1 /\ Said(m, "GaveUp") <= 1
                        /\ burst[m].at = "done" =>
                              ends[m] # <<>> /\ m \notin active /\ m \notin DOMAIN registry
        BY DEF OneVerdictEach
    <2>1. VerdictOK(burst[m], ends[m], listener, active, registry, m)
        BY DEF VerdictInv
    <2>2. \A s : Said(m, s) = Count(ends[m], s)
        BY DEF Said, Count
    <2> QED BY <2>1, <2>2 DEF VerdictOK, Verdicts
<1> QED BY <1>1, <1>2, <1>3, PTL DEF Spec

=============================================================================
