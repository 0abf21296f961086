--------------------------- MODULE VoiceTransmit ---------------------------
(***************************************************************************)
(* The voice transmit queue (service/voice_tx.rs, voice/tx_policy.rs): a   *)
(* bounded queue shared by every burst and retransmit, one worker that     *)
(* paces the frames and holds them back while the radio reports a full     *)
(* queue, and the reports (QueueStatus) that travel back behind the        *)
(* frames.  Connections come and go underneath; a reader of an old         *)
(* connection may still deliver reports after the new one is installed.    *)
(***************************************************************************)
EXTENDS Integers, Sequences, SequencesExt

CONSTANTS
    Bursts,      \* callers of send_voice, which wait for each frame
    Relays,      \* callers of enqueue_voice_frame, which do not
    Count,       \* frames of each caller
    Pacing,      \* the gap each caller asks for
    Capacity,    \* QUEUE_CAPACITY
    LowWater,    \* RADIO_QUEUE_LOW_WATER
    WaitLimit,   \* RADIO_QUEUE_WAIT_TIMEOUT
    Slots,       \* the outbound queue of the firmware
    Unlimited,   \* u32::MAX, the depth assumed before the first report
    MaxConns,    \* bounds of the runs: connections,
    MaxReports   \* and reports under way on one; a further one is missed

VARIABLES
    caller,      \* what each caller has queued and heard back
    queue,       \* the channel
    worker,      \* where the worker is, with what, and (history) the report
                 \* it went by
    age,         \* time since the last send, as far as pacing cares
    free,        \* radio_queue_free, with the report it comes from
    permit,      \* the stored permit of radio_queue_notify
    conn,        \* connections so far; the last one may be over
    up,          \* the transport slot is filled
    dropped,     \* the last MeshtasticService is gone
    radio,       \* frames in the firmware's queue, and how many it got in all
    reports,     \* reports under way, by connection
    log,         \* history: frames handled, with the outcome
    spilled      \* history: why frames went to a radio with no room

vars == <<caller, queue, worker, age, free, permit, conn, up, dropped, radio,
          reports, log, spilled>>

Callers == Bursts \cup Relays
Frame == {[by |-> c, n |-> i] : c \in Callers, i \in 1 .. 9}
\* What a report tells the worker, and the connection it came by.
Report == [slots : 0 .. Slots \cup {Unlimited}, conn : 0 .. MaxConns, seen : Nat]
LongestGap == CHOOSE p \in {Pacing[c] : c \in Callers} : \A c \in Callers : Pacing[c] <= p

ASSUME TransmitAssumption ==
    /\ Bursts \cap Relays = {}
    /\ Count \in [Callers -> 1 .. 9] /\ Pacing \in [Callers -> Nat]
    /\ \E c \in Callers : \A d \in Callers : Pacing[d] <= Pacing[c]
    /\ {Capacity, WaitLimit, Slots} \subseteq Nat \ {0}
    /\ {LowWater, MaxConns, MaxReports} \subseteq Nat
    /\ Unlimited \in Nat /\ Unlimited > LowWater + Slots

NoItem == [by |-> "none", n |-> 0]
NoReport == [slots |-> Unlimited, conn |-> 0, seen |-> 0]
Resting == [pc |-> "recv", item |-> NoItem, left |-> 0, valve |-> FALSE, basis |-> NoReport]

-----------------------------------------------------------------------------
(* Policy *)

\* What is left of the gap after the previous frame; age never counts
\* further than the longest gap.
pacing_delay(elapsed, pacing) == IF elapsed < pacing THEN pacing - elapsed ELSE 0

\* A slip: the margin is used up as well.
queue_has_room_AtMark(n) == n >= LowWater

queue_has_room(n) == n > LowWater

-----------------------------------------------------------------------------
Init ==
    /\ caller = [c \in Callers |-> [pc |-> "ready", queued |-> 0, ids |-> 0]]
    /\ queue = <<>>
    /\ worker = Resting
    /\ age = LongestGap
    /\ free = NoReport
    /\ permit = FALSE
    /\ conn = 0 /\ up = FALSE /\ dropped = FALSE
    /\ radio = [used |-> 0, got |-> 0]
    /\ reports = [c \in 1 .. MaxConns |-> <<>>]
    /\ log = <<>>
    /\ spilled = {}

radioside == <<radio, reports, free, permit>>
link == <<conn, up, dropped>>

HasSpace == Len(queue) < Capacity

\* Both enqueue_voice_frame and its _with_id form, which waits for the
\* result: a full channel makes the caller wait.
enqueue_voice_frame(c) ==
    /\ caller[c].pc = "ready" /\ caller[c].queued < Count[c]
    /\ ~dropped /\ HasSpace
    /\ queue' = Append(queue, [by |-> c, n |-> caller[c].queued + 1])
    /\ caller' = [caller EXCEPT ![c].queued = @ + 1,
                                ![c].pc = IF c \in Bursts THEN "waits"
                                          ELSE IF caller[c].queued + 1 = Count[c] THEN "done"
                                          ELSE "ready"]
    /\ UNCHANGED <<worker, age, radioside, link, log, spilled>>

-----------------------------------------------------------------------------
(* The worker *)

Recv ==
    /\ worker.pc = "recv" /\ queue # <<>>
    /\ worker' = [Resting EXCEPT !.pc = "pace", !.item = Head(queue),
                                 !.left = pacing_delay(age, Pacing[Head(queue).by])]
    /\ queue' = Tail(queue)
    /\ UNCHANGED <<caller, age, radioside, link, log, spilled>>

\* The worker ends when nobody holds the service any more.
Anchor ==
    /\ worker.pc = "pace" /\ worker.left = 0
    /\ worker' = IF dropped THEN [Resting EXCEPT !.pc = "gone"]
                            ELSE [worker EXCEPT !.pc = "room"]
    /\ queue' = IF dropped THEN <<>> ELSE queue
    /\ UNCHANGED <<caller, age, radioside, link, log, spilled>>

CheckRoom ==
    /\ worker.pc = "room"
    /\ worker' = IF queue_has_room(free.slots)
                   THEN [worker EXCEPT !.pc = "send", !.basis = free]
                   ELSE [worker EXCEPT !.pc = "park"]
    /\ UNCHANGED <<caller, queue, age, radioside, link, log, spilled>>

\* Only now is the worker registered with the notifier.
Park ==
    /\ worker.pc = "park"
    /\ worker' = [worker EXCEPT !.pc = "wait", !.left = WaitLimit]
    /\ UNCHANGED <<caller, queue, age, radioside, link, log, spilled>>

\* A stored permit ends the wait at once, also one of an older report.
Woken ==
    /\ worker.pc = "wait" /\ permit
    /\ permit' = FALSE
    /\ worker' = [worker EXCEPT !.pc = "room", !.left = 0]
    /\ UNCHANGED <<caller, queue, age, radio, reports, free, link, log, spilled>>

\* A slip: the worker waits for a report however long it takes.
TimedOut_Never == FALSE /\ UNCHANGED vars

\* No report in time: send anyway.
TimedOut ==
    /\ worker.pc = "wait" /\ worker.left = 0 /\ ~permit
    /\ worker' = [worker EXCEPT !.pc = "send", !.valve = TRUE]
    /\ UNCHANGED <<caller, queue, age, radioside, link, log, spilled>>

\* What the host can be blamed for when a frame finds the radio full.
Reason ==
    IF worker.valve THEN "no report in time"
    ELSE IF worker.basis.slots = Unlimited THEN "no report yet"
    ELSE IF worker.basis.conn # conn THEN "report of an old connection"
    ELSE IF radio.got - worker.basis.seen > LowWater THEN "reports lag"
    ELSE "none"

CanPublish == up /\ Len(reports[conn]) < MaxReports

Arrive(published) ==
    LET used == IF radio.used < Slots THEN radio.used + 1 ELSE radio.used
    IN  /\ radio' = [used |-> used, got |-> radio.got + 1]
        /\ spilled' = IF radio.used < Slots THEN spilled ELSE spilled \cup {Reason}
        /\ reports' = IF published
                        THEN [reports EXCEPT ![conn] =
                                Append(@, [slots |-> Slots - used, seen |-> radio.got + 1])]
                        ELSE reports

\* send_voice: one id per frame, Ok after the last, an error at the first
\* failure.
AfterFrame(c) == IF caller[c].queued = Count[c] THEN "done" ELSE "ready"

\* A slip: after a failure the burst queues its next frame all the same.
Answer_GoesOn(c, ok) ==
    IF c \in Relays THEN caller
    ELSE [caller EXCEPT ![c].pc = AfterFrame(c), ![c].ids = IF ok THEN @ + 1 ELSE @]

\* The result reaches a caller that waits for it.
Answer(c, ok) ==
    IF c \in Relays THEN caller
    ELSE IF ok THEN [caller EXCEPT ![c].pc = AfterFrame(c), ![c].ids = @ + 1]
    ELSE [caller EXCEPT ![c].pc = "failed"]

\* send_data: with no transport, or a write that fails, the frame is gone
\* and pacing counts from here all the same.
Send ==
    \E ok \in BOOLEAN, published \in BOOLEAN :
        /\ worker.pc = "send"
        /\ ok => up
        /\ published => CanPublish
        /\ IF ok THEN Arrive(published)
                 ELSE ~published /\ UNCHANGED <<radio, reports, spilled>>
        /\ caller' = Answer(worker.item.by, ok)
        /\ log' = Append(log, [frame |-> worker.item, ok |-> ok])
        /\ worker' = Resting
        /\ age' = 0
        /\ UNCHANGED <<queue, free, permit, conn, up, dropped>>

-----------------------------------------------------------------------------
(* The radio and the reader of a connection *)

\* A frame goes on the air; the update that says so may be missed.
Drain ==
    \E published \in BOOLEAN :
        /\ radio.used > 0
        /\ radio' = [radio EXCEPT !.used = @ - 1]
        /\ reports' = IF published
                        THEN [reports EXCEPT ![conn] =
                                Append(@, [slots |-> Slots - radio.used + 1,
                                           seen |-> radio.got])]
                        ELSE reports
        /\ published => CanPublish
        /\ UNCHANGED <<caller, queue, worker, age, free, permit, link, log, spilled>>

\* A slip: only a worker that is already waiting is woken.
Notified_WaitersOnly == worker.pc = "wait" \/ permit

\* notify_one stores a permit when nobody waits.
Notified == TRUE

HearStatus(c) ==
    /\ reports[c] # <<>>
    /\ free' = [slots |-> Head(reports[c]).slots, seen |-> Head(reports[c]).seen,
                conn |-> c]
    /\ reports' = [reports EXCEPT ![c] = Tail(@)]
    /\ permit' = Notified
    /\ UNCHANGED <<caller, queue, worker, age, radio, link, log, spilled>>

\* The new connection is assumed to have room; nobody is notified.
connect_with_transport ==
    /\ ~dropped /\ conn < MaxConns
    /\ conn' = conn + 1 /\ up' = TRUE
    /\ free' = NoReport
    /\ UNCHANGED <<caller, queue, worker, age, permit, radio, reports, dropped,
                   log, spilled>>

Disconnect ==
    /\ up /\ up' = FALSE
    /\ UNCHANGED <<caller, queue, worker, age, radioside, conn, dropped,
                   log, spilled>>

\* Callers hold the service, so none is inside a call.
DropService ==
    /\ ~dropped /\ dropped' = TRUE
    /\ \A c \in Callers : caller[c].pc \in {"done", "failed"}
    /\ worker.pc \in {"recv", "pace"}
    /\ up' = FALSE
    /\ UNCHANGED <<caller, queue, worker, age, radioside, conn, log, spilled>>

Tick ==
    /\ age < LongestGap \/ (worker.pc \in {"pace", "wait"} /\ worker.left > 0)
    /\ age' = IF age < LongestGap THEN age + 1 ELSE age
    /\ worker' = [worker EXCEPT !.left = IF @ > 0 THEN @ - 1 ELSE 0]
    /\ UNCHANGED <<caller, queue, radioside, link, log, spilled>>

WorkerStep == Recv \/ Anchor \/ CheckRoom \/ Park \/ Woken \/ TimedOut \/ Send

Next ==
    \/ \E c \in Callers : enqueue_voice_frame(c)
    \/ WorkerStep
    \/ Drain
    \/ \E c \in 1 .. MaxConns : HearStatus(c)
    \/ connect_with_transport \/ Disconnect \/ DropService
    \/ Tick

Spec == Init /\ [][Next]_vars
FairSpec == Spec /\ WF_vars(WorkerStep) /\ WF_vars(Tick)

-----------------------------------------------------------------------------
(* Properties *)

\* Every part of the state has its type; the channel is bounded, the queue of
\* the firmware stays within its slots, and a filled slot has a connection.
TypeOK ==
    /\ caller \in [Callers -> [pc : {"ready", "waits", "done", "failed"},
                               queued : 0 .. 9, ids : Nat]]
    /\ queue \in Seq(Frame) /\ Len(queue) <= Capacity
    /\ worker \in [pc : {"recv", "pace", "room", "park", "wait", "send", "gone"},
                   item : Frame \cup {NoItem}, left : Nat, valve : BOOLEAN,
                   basis : Report]
    /\ age \in 0 .. LongestGap
    /\ radio \in [used : 0 .. Slots, got : Nat]
    /\ free \in Report
    /\ reports \in [1 .. MaxConns -> Seq([slots : 0 .. Slots, seen : Nat])]
    /\ permit \in BOOLEAN /\ up \in BOOLEAN /\ dropped \in BOOLEAN
    /\ conn \in 0 .. MaxConns /\ (up => conn > 0)

\* The margin is enough: a frame that a report of this connection let through
\* finds a free slot in the radio as long as no more than LowWater frames
\* left after the report was made.  Only the time limit, a connection that
\* has not reported, or late reports can overflow it.
MarginHolds == "none" \notin spilled

\* A report that makes room while the worker is between its look at the
\* depth and its wait is not lost: it never waits with room on record,
\* unless a new connection put it there (connect notifies nobody).
NoLostWakeUp ==
    worker.pc = "wait" /\ ~permit /\ queue_has_room(free.slots) => free.slots = Unlimited

\* Places in the log of a caller's frames, and of those that were sent.
Handled(c) == {i \in DOMAIN log : log[i].frame.by = c}
Sent(c) == {i \in Handled(c) : log[i].ok}

\* What send_voice tells its caller is what happened: it has one id per frame
\* sent, it returns Ok only when all were, and after the first failure none
\* of its frames is queued or sent.
BurstToldTruth ==
    \A c \in Bursts :
        /\ caller[c].ids = Cardinality(Sent(c))
        /\ caller[c].pc = "done" => caller[c].ids = Count[c]
        /\ caller[c].pc = "failed" =>
              /\ Cardinality(Handled(c)) = caller[c].queued
              /\ Max(Handled(c)) \notin Sent(c)

\* The worker handles every frame once and in order, and none waits for ever
\* (PacedFifo), though the radio may never report again.
Fifo == INSTANCE PacedFifo WITH
    line <- (IF worker.item = NoItem THEN <<>> ELSE <<worker.item>>) \o queue,
    closed <- dropped
ImplementsPacedFifo == Fifo!ASpec

=============================================================================
