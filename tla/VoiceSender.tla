---------------------------- MODULE VoiceSender -----------------------------
(***************************************************************************)
(* The outbound voice pipeline (voice/sender.rs) over the registry: for    *)
(* each message a task that runs the initial burst, lingers and ends the   *)
(* send; one listener that serves NACKs; and retransmit tasks, either      *)
(* immediate or first sleeping out a cooldown.  They run on the threads of *)
(* one runtime and share the maps `active`, `registry` and `inflight`,     *)
(* each behind a mutex of its own that no task holds across two calls: an  *)
(* action is what a task does between two points where another may come    *)
(* in.                                                                     *)
(*                                                                         *)
(* Messages are unicast and NACKs come from their destination; any other   *)
(* NACK is dropped without a change.  fresh_message_id is taken to find a  *)
(* fresh id.  Time is abstracted to what may elapse: a linger, a cooldown, *)
(* the drain deadline, the retain TTL.                                     *)
(***************************************************************************)
EXTENDS OutgoingRegistry, Sequences

CONSTANTS
    Frames,     \* frames of a message: its DATA chunks, then its parity
    Permits,    \* retransmit_permits
    TaskIds,    \* bound: the retransmit tasks alive at one time
    MaxNacks    \* bound: the NACKs that arrive

ASSUME SenderAssumption ==
    /\ Frames \in Nat /\ Frames >= DataChunks
    /\ Permits \in Nat \ {0}
    /\ TaskIds \subseteq Nat /\ IsFiniteSet(TaskIds)
    /\ MaxNacks \in Nat

VARIABLES
    registry,  \* message -> its entry
    active,    \* the messages with an ActiveSend
    burst,     \* message -> run_send: where it is, the next frame
    listener,  \* nack_listener_task: where it is and the NACK it serves
    tasks,     \* task id -> a retransmit task
    inflight,  \* message -> retransmit_inflight
    stream,    \* message -> the last status its subscribers saw
    ends,      \* message -> the terminal statuses they saw, in order
    nacks      \* NACKs so far

maps == <<registry, active, inflight>>
told == <<stream, ends>>
vars == <<maps, told, burst, listener, tasks, nacks>>

Terminal == {"Complete", "GaveUp", "Failed"}

Idle == [at |-> "none"]
Asleep(m) == [at |-> "sleeping", msg |-> m, due |-> FALSE]
Awake(m, missing) == [at |-> "awake", msg |-> m, chunks |-> missing]
Redeferring(m, missing) == [at |-> "redefer", msg |-> m, chunks |-> missing]
Queued(m, plan) == [at |-> "queued", msg |-> m, chunks |-> plan]
Dispatching(m, plan) == [at |-> "sending", msg |-> m, chunks |-> plan]

TasksOf(m) == { t \in TaskIds : tasks[t] # Idle /\ tasks[t].msg = m }
Sleepers(m) == { t \in TasksOf(m) : tasks[t].at = "sleeping" }
Carriers(m) == { t \in TasksOf(m) : tasks[t].at \in {"queued", "sending"} }

\* The first unused task id, and starting and ending a task with the count
\* that InflightGuard pairs.
FreeId(t) ==
    /\ tasks[t] = Idle
    /\ \A u \in TaskIds : tasks[u] = Idle => t <= u
Spawn(m, task) ==
    \E t \in TaskIds :
        /\ FreeId(t)
        /\ tasks' = [tasks EXCEPT ![t] = task]
        /\ inflight' = [inflight EXCEPT ![m] = @ + 1]
End(t) ==
    /\ tasks' = [tasks EXCEPT ![t] = Idle]
    /\ inflight' = [inflight EXCEPT ![tasks[t].msg] = @ - 1]
Become(t, task) ==
    /\ tasks' = [tasks EXCEPT ![t] = task]
    /\ UNCHANGED inflight

\* status_tx.send
Tell(m, status) ==
    /\ stream' = [stream EXCEPT ![m] = status]
    /\ ends' = IF status \in Terminal
                 THEN [ends EXCEPT ![m] = Append(@, status)] ELSE ends

\* VoiceSender::cleanup
cleanup(m) ==
    /\ active' = active \ {m}
    /\ registry' = remove(registry, m)

-----------------------------------------------------------------------------
(* send and run_send *)

Goes(m, at) == burst' = [burst EXCEPT ![m].at = at]

send(m) ==
    /\ burst[m].at = "unsent"
    /\ registry' = register(registry, m)
    /\ active' = active \cup {m}
    /\ Tell(m, "Building")
    /\ Goes(m, "start")
    /\ UNCHANGED <<inflight, listener, tasks, nacks>>

\* The first look-up of the active entry, and the look-up before each frame:
\* without the entry the task returns.
BurstChecks(m) ==
    /\ \/ burst[m].at = "start"
       \/ burst[m].at = "check" /\ burst[m].next < Frames
    /\ Goes(m, IF m \notin active THEN "done"
               ELSE IF burst[m].at = "start" THEN "check" ELSE "enqueued")
    /\ UNCHANGED <<maps, told, listener, tasks, nacks>>

\* The worker has transmitted the frame.
BurstSent(m) ==
    /\ burst[m].at = "enqueued"
    /\ registry' = mark_chunk_sent(registry, m, {burst[m].next} \cap Chunks)
    /\ Tell(m, "Sending")
    /\ burst' = [burst EXCEPT ![m].next = @ + 1, ![m].at = "check"]
    /\ UNCHANGED <<active, inflight, listener, tasks, nacks>>

\* The worker reports an error.
BurstFails(m) ==
    /\ burst[m].at = "enqueued"
    /\ Tell(m, "Failed")
    /\ Goes(m, "failing")
    /\ UNCHANGED <<maps, listener, tasks, nacks>>

BurstCleansUp(m) ==
    /\ burst[m].at = "failing"
    /\ cleanup(m)
    /\ Goes(m, "done")
    /\ UNCHANGED <<inflight, told, listener, tasks, nacks>>

BurstComplete(m) ==
    /\ burst[m].at = "check" /\ burst[m].next = Frames
    /\ Tell(m, "BurstComplete")
    /\ Goes(m, "linger")
    /\ UNCHANGED <<maps, listener, tasks, nacks>>

LingerEnds(m) ==
    /\ burst[m].at = "linger"
    /\ Goes(m, "drain")
    /\ UNCHANGED <<maps, told, listener, tasks, nacks>>

\* The drain loop ends when nothing is in flight or at its deadline.
Drained(m) ==
    /\ burst[m].at = "drain" /\ inflight[m] = 0
    /\ Goes(m, "claim")
    /\ UNCHANGED <<maps, told, listener, tasks, nacks>>

DrainTimesOut(m) ==
    /\ burst[m].at = "drain" /\ inflight[m] > 0
    /\ Goes(m, "claim")
    /\ UNCHANGED <<maps, told, listener, tasks, nacks>>
\* Slips: the claim made on the registry's entry; no way on for the loser.
Claim_ByRegistry(m) ==
    /\ burst[m].at = "claim"
    /\ active' = active \ {m}
    /\ Goes(m, IF m \in DOMAIN registry THEN "claimed" ELSE "forget")
    /\ UNCHANGED <<registry, inflight, told, listener, tasks, nacks>>
Claim_WinnerOnly(m) ==
    /\ burst[m].at = "claim"
    /\ m \in active
    /\ active' = active \ {m}
    /\ Goes(m, "claimed")
    /\ UNCHANGED <<registry, inflight, told, listener, tasks, nacks>>

\* Whoever removes the active entry may announce the end.
Claim(m) ==
    /\ burst[m].at = "claim"
    /\ active' = active \ {m}
    /\ Goes(m, IF m \in active THEN "claimed" ELSE "forget")
    /\ UNCHANGED <<registry, inflight, told, listener, tasks, nacks>>

TellComplete(m) ==
    /\ burst[m].at = "claimed"
    /\ Tell(m, "Complete")
    /\ Goes(m, "forget")
    /\ UNCHANGED <<maps, listener, tasks, nacks>>

Forget(m) ==
    /\ burst[m].at = "forget"
    /\ registry' = prune_expired(remove(registry, m))
    /\ Goes(m, "done")
    /\ UNCHANGED <<active, inflight, told, listener, tasks, nacks>>

run_send(m) ==
    \/ BurstChecks(m) \/ BurstComplete(m)
    \/ BurstSent(m) \/ BurstFails(m) \/ BurstCleansUp(m)
    \/ LingerEnds(m) \/ Drained(m) \/ DrainTimesOut(m)
    \/ Claim(m) \/ TellComplete(m) \/ Forget(m)

-----------------------------------------------------------------------------
(* nack_listener_task *)

Receiving == [at |-> "recv"]
Listens(at) == listener' = [listener EXCEPT !.at = at]

\* A NACK for an active message: its status channel is kept, the lock is
\* not.  A NACK for any other message is dropped.
NackArrives(m, missing, give_up) ==
    /\ listener.at = "recv"
    /\ nacks < MaxNacks
    /\ m \in active
    /\ listener' = [at |-> IF give_up THEN "give_up" ELSE "take",
                    msg |-> m, chunks |-> missing, tries |-> 0]
    /\ nacks' = nacks + 1
    /\ UNCHANGED <<maps, told, burst, tasks>>

GiveUpTold ==
    /\ listener.at = "give_up"
    /\ Tell(listener.msg, "GaveUp")
    /\ Listens("cleanup")
    /\ UNCHANGED <<maps, burst, tasks, nacks>>

GiveUpCleansUp ==
    /\ listener.at = "cleanup"
    /\ cleanup(listener.msg)
    /\ listener' = Receiving
    /\ UNCHANGED <<inflight, told, burst, tasks, nacks>>

ListenerOutcome == TakeOutcome(registry, listener.msg, listener.chunks)

ListenerTakes ==
    /\ listener.at = "take"
    /\ registry' = take_retransmit(registry, listener.msg, listener.chunks)
    /\ UNCHANGED <<active, burst, nacks>>

\* spawn_plan_dispatch
ListenerDispatches ==
    LET m == listener.msg
    IN  /\ ListenerTakes
        /\ ListenerOutcome = "Ok"
        /\ Tell(m, "Retransmitting")
        /\ Spawn(m, Queued(m, frames_for(registry[m], listener.chunks)))
        /\ listener' = Receiving

\* The round is skipped, or on a cooldown to be deferred.
ListenerSkips ==
    /\ ListenerTakes
    /\ ListenerOutcome # "Ok"
    /\ listener' = IF ListenerOutcome = "CooldownActive"
                     THEN [listener EXCEPT !.at = "defer"] ELSE Receiving
    /\ UNCHANGED <<inflight, told, tasks>>

\* The deferral schedules a wake-up, finds one scheduled or finds the entry
\* gone; or the cooldown is over by now and the take is tried again, three
\* times in all.
ListenerDefers ==
    LET m == listener.msg
        outcome == DeferOutcome(registry, m)
    IN  /\ listener.at = "defer"
        /\ registry' = defer_nack(registry, m, listener.chunks)
        /\ IF outcome = "Scheduled" THEN Spawn(m, Asleep(m))
                                    ELSE UNCHANGED <<inflight, tasks>>
        /\ listener' = IF outcome = "CooldownElapsed" /\ listener.tries < 2
             THEN [listener EXCEPT !.at = "take", !.tries = @ + 1] ELSE Receiving
        /\ UNCHANGED <<active, told, burst, nacks>>

Listen == GiveUpTold \/ GiveUpCleansUp
          \/ ListenerDispatches \/ ListenerSkips \/ ListenerDefers

-----------------------------------------------------------------------------
(* Retransmit tasks *)

Msg(t) == tasks[t].msg
\* A slip: the sleep ends with the cooldown of an entry that may be gone.
WakesUp_WithEntry(t) ==
    /\ tasks[t].at = "sleeping"
    /\ tasks[t].due
    /\ registry' = take_deferred(registry, Msg(t))
    /\ IF Msg(t) \in DOMAIN registry /\ registry[Msg(t)].deferred # NoList
         THEN Become(t, Awake(Msg(t), registry[Msg(t)].deferred))
         ELSE End(t)
    /\ UNCHANGED <<active, told, burst, listener, nacks>>

\* A deferred task sleeps to the end of the cooldown it was scheduled for and
\* then takes the deferred list, if it is still there.
WakesUp(t) ==
    /\ tasks[t].at = "sleeping"
    /\ tasks[t].due \/ Msg(t) \notin DOMAIN registry
    /\ registry' = take_deferred(registry, Msg(t))
    /\ IF Msg(t) \in DOMAIN registry /\ registry[Msg(t)].deferred # NoList
         THEN Become(t, Awake(Msg(t), registry[Msg(t)].deferred))
         ELSE End(t)
    /\ UNCHANGED <<active, told, burst, listener, nacks>>

AwakeTakes(t) ==
    LET m == Msg(t)
        missing == tasks[t].chunks
        outcome == TakeOutcome(registry, m, missing)
    IN  /\ tasks[t].at = "awake"
        /\ registry' = take_retransmit(registry, m, missing)
        /\ \/ /\ outcome = "Ok"
              /\ Tell(m, "Retransmitting")
              /\ Become(t, Queued(m, frames_for(registry[m], missing)))
           \/ /\ outcome = "CooldownActive"
              /\ Become(t, Redeferring(m, missing))
              /\ UNCHANGED told
           \/ /\ outcome \notin {"Ok", "CooldownActive"}
              /\ End(t)
              /\ UNCHANGED told
        /\ UNCHANGED <<active, burst, listener, nacks>>
\* Slips: the re-armed wake-up is not spawned; or it is not counted.
Redefers_NoTask(t) ==
    /\ tasks[t].at = "redefer"
    /\ registry' = defer_nack(registry, Msg(t), tasks[t].chunks)
    /\ End(t)
    /\ UNCHANGED <<active, told, burst, listener, nacks>>
Redefers_NotCounted(t) ==
    /\ tasks[t].at = "redefer"
    /\ registry' = defer_nack(registry, Msg(t), tasks[t].chunks)
    /\ tasks' = [tasks EXCEPT ![t] =
          IF DeferOutcome(registry, Msg(t)) = "Scheduled" THEN Asleep(Msg(t)) ELSE Idle]
    /\ inflight' = [inflight EXCEPT ![Msg(t)] = @ - 1]
    /\ UNCHANGED <<active, told, burst, listener, nacks>>

\* A newer round has started a cooldown since: the list is stashed again, and
\* a new task takes this one's place and count if none is scheduled.
Redefers(t) ==
    /\ tasks[t].at = "redefer"
    /\ registry' = defer_nack(registry, Msg(t), tasks[t].chunks)
    /\ IF DeferOutcome(registry, Msg(t)) = "Scheduled"
         THEN Become(t, Asleep(Msg(t))) ELSE End(t)
    /\ UNCHANGED <<active, told, burst, listener, nacks>>

AcquiresPermit(t) ==
    /\ tasks[t].at = "queued"
    /\ Cardinality({ u \in TaskIds : tasks[u].at = "sending" }) < Permits
    /\ Become(t, Dispatching(Msg(t), tasks[t].chunks))
    /\ UNCHANGED <<registry, active, told, burst, listener, nacks>>

\* dispatch_retransmit_batch: the worker has transmitted the next frame, or
\* reports an error, which releases the rest of the batch.
NextChunk(t) == CHOOSE i \in tasks[t].chunks : \A j \in tasks[t].chunks : i <= j
\* A slip: an error releases only the chunk that failed.
Released_FailedOnly(t, ok) == {NextChunk(t)}

Released(t, ok) == IF ok THEN {NextChunk(t)} ELSE tasks[t].chunks

Dispatches(t) ==
    \E ok \in BOOLEAN :
        LET left == IF ok THEN tasks[t].chunks \ {NextChunk(t)} ELSE {}
        IN  /\ tasks[t].at = "sending"
            /\ registry' = mark_chunk_sent(registry, Msg(t), Released(t, ok))
            /\ IF left = {} THEN End(t) ELSE Become(t, Dispatching(Msg(t), left))
            /\ UNCHANGED <<active, told, burst, listener, nacks>>

Retransmit(t) ==
    \/ WakesUp(t) \/ AwakeTakes(t) \/ Redefers(t)
    \/ AcquiresPermit(t) \/ Dispatches(t)

-----------------------------------------------------------------------------
(* Time *)

\* The message's cooldown is over, and with it the sleep of the task
\* scheduled for it.
CooldownLapses(m) ==
    /\ m \in DOMAIN registry /\ registry[m].cooling
    /\ registry' = [registry EXCEPT ![m].cooling = FALSE]
    /\ tasks' = [t \in TaskIds |->
          IF t \in Sleepers(m) THEN [tasks[t] EXCEPT !.due = TRUE] ELSE tasks[t]]
    /\ UNCHANGED <<active, inflight, told, burst, listener, nacks>>

TtlElapses(m) ==
    /\ m \in DOMAIN registry /\ ~registry[m].expired
    /\ registry' = [registry EXCEPT ![m].expired = TRUE]
    /\ UNCHANGED <<active, inflight, told, burst, listener, tasks, nacks>>

-----------------------------------------------------------------------------

Init ==
    /\ registry = [m \in {} |-> 0]
    /\ active = {}
    /\ burst = [m \in Messages |-> [at |-> "unsent", next |-> 0]]
    /\ listener = Receiving
    /\ tasks = [t \in TaskIds |-> Idle]
    /\ inflight = [m \in Messages |-> 0]
    /\ stream = [m \in Messages |-> "none"]
    /\ ends = [m \in Messages |-> <<>>]
    /\ nacks = 0

Next ==
    \/ \E m \in Messages : send(m) \/ run_send(m) \/ CooldownLapses(m) \/ TtlElapses(m)
    \/ \E m \in Messages, missing \in (SUBSET Chunks) \ {NoList}, give_up \in BOOLEAN :
          NackArrives(m, missing, give_up)
    \/ Listen
    \/ \E t \in TaskIds : Retransmit(t)

Spec == Init /\ [][Next]_vars

\* The runtime runs every task, its timers fire and the TX worker answers every
\* frame with success or an error.  A NACK starts finitely many retransmit
\* steps, so some of them is as good as each.  Sends and NACKs are up to the
\* user and the mesh.
FairSpec ==
    /\ Spec
    /\ \A m \in Messages : WF_vars(run_send(m)) /\ WF_vars(CooldownLapses(m))
    /\ WF_vars(Listen)
    /\ WF_vars(\E t \in TaskIds : Retransmit(t))

-----------------------------------------------------------------------------
(* Invariants *)

TypeOK ==
    /\ DOMAIN registry \subseteq Messages
    /\ registry \in [DOMAIN registry -> EntryType]
    /\ active \subseteq Messages
    /\ burst \in [Messages ->
          [at : {"unsent", "start", "check", "enqueued", "failing", "linger",
                 "drain", "claim", "claimed", "forget", "done"},
           next : 0 .. Frames]]
    /\ \/ listener = Receiving
       \/ listener \in [at : {"give_up", "cleanup", "take", "defer"}, msg : Messages,
                        chunks : SUBSET Chunks, tries : 0 .. 2]
    /\ tasks \in [TaskIds ->
          {Idle} \cup [at : {"sleeping"}, msg : Messages, due : BOOLEAN]
          \cup [at : {"awake", "redefer", "queued", "sending"}, msg : Messages,
                chunks : (SUBSET Chunks) \ {NoList}]]
    /\ inflight \in [Messages -> Nat]
    /\ ends \in [Messages -> Seq(Terminal)]
    /\ nacks \in 0 .. MaxNacks

\* The DATA chunks run_send still has to hand to the worker.
Unburst(m) ==
    IF burst[m].at \in {"start", "check", "enqueued", "failing"}
      THEN { i \in Chunks : i >= burst[m].next } ELSE {}

\* Overlapping NACK rounds, a deferred round and the burst itself never have
\* one chunk on its way twice, and pending_chunks names exactly the chunks on
\* their way, so none stays barred from later rounds after an error.
EachChunkOnce ==
    \A m \in Messages :
        /\ \A t \in Carriers(m) :
              /\ tasks[t].chunks \cap Unburst(m) = {}
              /\ \A u \in Carriers(m) \ {t} : tasks[t].chunks \cap tasks[u].chunks = {}
        /\ m \in DOMAIN registry => registry[m].pending =
              Unburst(m) \cup UNION { tasks[t].chunks : t \in Carriers(m) }

\* A deferred NACK always has one wake-up sleeping for it and never two.
DeferralHasWakeUp ==
    \A m \in Messages :
        /\ Cardinality(Sleepers(m)) <= 1
        /\ m \in DOMAIN registry =>
              /\ registry[m].wake_up <=> Sleepers(m) # {}
              /\ registry[m].deferred # NoList => registry[m].wake_up

\* The count run_send waits on is that of the tasks alive, through
\* re-deferral and every early return.
InflightCountsTasks ==
    \A m \in Messages : inflight[m] = Cardinality(TasksOf(m))

\* run_send ends its message with one verdict of its own at the most, and the
\* listener gives it up at most once; and no subscriber waits for ever: when
\* run_send has returned, by whichever of its returns, a terminal status was
\* sent and nothing is kept.
Said(m, s) == Cardinality({ i \in DOMAIN ends[m] : ends[m][i] = s })
OneVerdictEach ==
    \A m \in Messages :
        /\ Said(m, "Complete") + Said(m, "Failed") <= 1 /\ Said(m, "GaveUp") <= 1
        /\ burst[m].at = "done" => ends[m] # <<>> /\ m \notin active /\ m \notin DOMAIN registry

-----------------------------------------------------------------------------
(* Liveness *)

\* Every send ends, however NACKs, errors and cooldowns fall; a deferred NACK
\* is taken up again, and no retransmit task lingers.
EverySendEnds ==
    \A m \in Messages :
        /\ (m \in active) ~> (burst[m].at = "done")
        /\ (TasksOf(m) # {}) ~> (TasksOf(m) = {})

=============================================================================
