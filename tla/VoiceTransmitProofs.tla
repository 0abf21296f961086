------------------------- MODULE VoiceTransmitProofs -------------------------
(***************************************************************************)
(* Proofs about VoiceTransmit for every value of its constants.            *)
(*                                                                         *)
(* The margin rests on one fact about every report, wherever it is: on its *)
(* way, on record, or gone by.  What the radio holds now is at most what   *)
(* it held when the report was made, plus the frames it got since.         *)
(***************************************************************************)
EXTENDS VoiceTransmit, SequenceTheorems, FiniteSetTheorems, TLAPS

\* What stays true of a report while the radio moves on to used and got.
Honest(r, used, got) ==
    r.slots # Unlimited => r.seen <= got /\ used <= Slots - r.slots + (got - r.seen)

\* The wake-up is not lost from the moment the worker has looked.
WakeInv ==
    worker.pc \in {"park", "wait"} /\ ~permit /\ queue_has_room(free.slots)
        => free.slots = Unlimited

\* The worker has a frame in hand exactly while it works on one.
HandInv == worker.item = NoItem <=> worker.pc \in {"recv", "gone"}

-----------------------------------------------------------------------------
(* Constants *)

\* The longest gap is a number, and no gap is longer.
LEMMA LongestGapIsGap == LongestGap \in Nat
<1> DEFINE Gaps == {Pacing[c] : c \in Callers}
<1>1. PICK c \in Callers : \A d \in Callers : Pacing[d] <= Pacing[c]
    BY TransmitAssumption DEF TransmitAssumption
<1>2. \E p \in Gaps : \A d \in Callers : Pacing[d] <= p
    BY <1>1
<1>3. LongestGap \in Gaps
    BY <1>2 DEF LongestGap
<1> QED BY <1>3, TransmitAssumption DEF TransmitAssumption

\* A frame is some caller's, and never taken for none.
LEMMA FrameFields ==
    /\ \A f \in Frame : f.by \in Callers /\ f.n \in 1 .. 9
    /\ NoItem \notin Frame
<1>1. \A f \in Frame : f.by \in Callers /\ f.n \in 1 .. 9
    BY DEF Frame
<1>2. NoItem.n = 0
    BY DEF NoItem
<1> QED BY <1>1, <1>2

LEMMA FrameMade ==
    ASSUME NEW c \in Callers, NEW i \in 1 .. 9
    PROVE  [by |-> c, n |-> i] \in Frame
BY DEF Frame

\* What TransmitAssumption says of the numbers.
LEMMA Numbers ==
    /\ Slots \in Nat /\ Capacity \in Nat \ {0} /\ WaitLimit \in Nat
    /\ LowWater \in Nat /\ MaxConns \in Nat /\ Unlimited \in Nat
    /\ Unlimited > LowWater + Slots
    /\ Unlimited \notin 0 .. Slots
    /\ NoReport \in Report
<1>1. /\ Slots \in Nat /\ Capacity \in Nat \ {0} /\ WaitLimit \in Nat
      /\ LowWater \in Nat /\ MaxConns \in Nat /\ Unlimited \in Nat
      /\ Unlimited > LowWater + Slots
    BY TransmitAssumption DEF TransmitAssumption
<1>2. Unlimited \notin 0 .. Slots
    BY <1>1
<1>3. NoReport \in Report
    BY <1>1 DEF NoReport, Report
<1> QED BY <1>1, <1>2, <1>3

-----------------------------------------------------------------------------
(* Types *)

WorkerType == [pc : {"recv", "pace", "room", "park", "wait", "send", "gone"},
               item : Frame \cup {NoItem}, left : Nat, valve : BOOLEAN,
               basis : Report]
CallerType == [pc : {"ready", "waits", "done", "failed"}, queued : 0 .. 9, ids : Nat]
UnderWay == [slots : 0 .. Slots, seen : Nat]

\* What the steps write into a caller's record keeps its type.
LEMMA RecordStep ==
    ASSUME NEW r \in CallerType, NEW pc \in {"ready", "waits", "done", "failed"}
    PROVE  /\ [r EXCEPT !.pc = pc] \in CallerType
           /\ [r EXCEPT !.pc = pc, !.ids = @ + 1] \in CallerType
           /\ \A q \in 0 .. 9 : [r EXCEPT !.queued = q, !.pc = pc] \in CallerType
<1>1. [r EXCEPT !.pc = pc] \in CallerType
    BY DEF CallerType
<1>2. r.ids + 1 \in Nat
    BY DEF CallerType
<1>3. [r EXCEPT !.pc = pc, !.ids = @ + 1] \in CallerType
    BY <1>2 DEF CallerType
<1>4. ASSUME NEW q \in 0 .. 9 PROVE [r EXCEPT !.queued = q, !.pc = pc] \in CallerType
    BY DEF CallerType
<1> QED BY <1>1, <1>3, <1>4

\* TypeOK in two parts: the flags, and the rest.
FlagsOK == permit \in BOOLEAN /\ up \in BOOLEAN /\ dropped \in BOOLEAN
StateOK ==
    /\ caller \in [Callers -> CallerType]
    /\ queue \in Seq(Frame) /\ Len(queue) <= Capacity
    /\ worker \in WorkerType
    /\ age \in 0 .. LongestGap
    /\ radio \in [used : 0 .. Slots, got : Nat]
    /\ free \in Report
    /\ reports \in [1 .. MaxConns -> Seq(UnderWay)]
    /\ conn \in 0 .. MaxConns /\ (up => conn > 0)

LEMMA TypeParts == TypeOK <=> FlagsOK /\ StateOK
BY Zenon DEF TypeOK, FlagsOK, StateOK, WorkerType, CallerType, UnderWay

LEMMA TypePartsNext == TypeOK' <=> FlagsOK' /\ StateOK'
BY Zenon DEF TypeOK, FlagsOK, StateOK, WorkerType, CallerType, UnderWay

\* No step takes a flag for anything but a flag.
LEMMA NextFlags == ASSUME FlagsOK, [Next]_vars PROVE FlagsOK'
<1> USE DEF FlagsOK, radioside, link
<1>1. ASSUME NEW c \in Callers, enqueue_voice_frame(c) PROVE FlagsOK'
    BY <1>1 DEF enqueue_voice_frame
<1>2. CASE WorkerStep
    BY <1>2 DEF WorkerStep, Recv, Anchor, CheckRoom, Park, Woken, TimedOut, Send
<1>3. CASE Drain
    BY <1>3 DEF Drain
<1>4. ASSUME NEW c \in 1 .. MaxConns, HearStatus(c) PROVE FlagsOK'
    BY <1>4 DEF HearStatus, Notified
<1>5. CASE connect_with_transport
    BY <1>5 DEF connect_with_transport
<1>6. CASE Disconnect
    BY <1>6 DEF Disconnect
<1>7. CASE DropService
    BY <1>7 DEF DropService
<1>8. CASE Tick
    BY <1>8 DEF Tick
<1>9. CASE UNCHANGED vars
    BY <1>9 DEF vars
<1> QED BY <1>1, <1>2, <1>3, <1>4, <1>5, <1>6, <1>7, <1>8, <1>9 DEF Next

LEMMA InitType == Init => TypeOK
<1> SUFFICES ASSUME Init PROVE FlagsOK /\ StateOK
    BY TypeParts
<1>1. FlagsOK
    BY DEF Init, FlagsOK
<1>2. worker \in WorkerType
    BY Numbers DEF Init, Resting, WorkerType
<1>3. reports \in [1 .. MaxConns -> Seq(UnderWay)]
    BY EmptySeq DEF Init
<1>4. caller \in [Callers -> CallerType]
    BY DEF Init, CallerType
<1>5. queue \in Seq(Frame) /\ Len(queue) <= Capacity
    BY EmptySeq, Numbers DEF Init
<1>6. age \in 0 .. LongestGap /\ radio \in [used : 0 .. Slots, got : Nat]
    BY LongestGapIsGap, Numbers DEF Init
<1>7. free \in Report /\ conn \in 0 .. MaxConns /\ (up => conn > 0)
    BY Numbers DEF Init
<1> QED BY <1>1, <1>2, <1>3, <1>4, <1>5, <1>6, <1>7 DEF StateOK

\* Each step of the worker keeps the types.
LEMMA WorkerStepState == ASSUME StateOK, WorkerStep PROVE StateOK'
<1> USE DEF StateOK
<1>1. CASE Recv
    <2>1. /\ queue # <<>> /\ queue' = Tail(queue)
          /\ worker' = [Resting EXCEPT !.pc = "pace", !.item = Head(queue),
                                       !.left = pacing_delay(age, Pacing[Head(queue).by])]
          /\ UNCHANGED <<caller, age, radio, reports, free, conn, up>>
        BY <1>1 DEF Recv, radioside, link
    <2>2. Head(queue) \in Frame /\ Tail(queue) \in Seq(Frame)
          /\ Len(Tail(queue)) = Len(queue) - 1 /\ Len(queue) \in Nat
        BY <2>1, HeadTailProperties, LenProperties
    <2>3. Pacing[Head(queue).by] \in Nat
        BY <2>2, FrameFields, TransmitAssumption DEF TransmitAssumption
    <2>4. pacing_delay(age, Pacing[Head(queue).by]) \in Nat
        BY <2>3, LongestGapIsGap DEF pacing_delay
    <2>5. worker' \in WorkerType
        BY <2>1, <2>2, <2>4, Numbers DEF Resting, WorkerType
    <2>6. Len(queue') <= Capacity
        BY <2>1, <2>2, Numbers
    <2> QED BY <2>1, <2>2, <2>5, <2>6
<1>2. CASE Anchor
    <2>1. worker' \in WorkerType
        BY <1>2, Numbers DEF Anchor, Resting, WorkerType
    <2>2. queue' \in Seq(Frame) /\ Len(queue') <= Capacity
        BY <1>2, Numbers, EmptySeq DEF Anchor
    <2> QED BY <1>2, <2>1, <2>2 DEF Anchor, radioside, link
<1>3. CASE CheckRoom
    <2>1. worker' \in WorkerType
        BY <1>3 DEF CheckRoom, WorkerType
    <2> QED BY <1>3, <2>1 DEF CheckRoom, radioside, link
<1>4. CASE Park
    <2>1. worker' \in WorkerType
        BY <1>4, Numbers DEF Park, WorkerType
    <2> QED BY <1>4, <2>1 DEF Park, radioside, link
<1>5. CASE Woken
    <2>1. worker' \in WorkerType
        BY <1>5 DEF Woken, WorkerType
    <2> QED BY <1>5, <2>1 DEF Woken, link
<1>6. CASE TimedOut
    <2>1. worker' \in WorkerType
        BY <1>6 DEF TimedOut, WorkerType
    <2> QED BY <1>6, <2>1 DEF TimedOut, radioside, link
<1>7. CASE Send
    <2>1. PICK ok \in BOOLEAN, published \in BOOLEAN :
            /\ ok => up
            /\ published => CanPublish
            /\ IF ok THEN Arrive(published)
                     ELSE ~published /\ UNCHANGED <<radio, reports, spilled>>
            /\ caller' = Answer(worker.item.by, ok)
            /\ worker' = Resting
            /\ age' = 0
            /\ UNCHANGED <<queue, free, permit, conn, up, dropped>>
        BY <1>7 DEF Send
    <2>2. caller' \in [Callers -> CallerType]
        <3> DEFINE by == worker.item.by
        <3>1. caller' = IF by \in Relays THEN caller
                        ELSE IF ok THEN [caller EXCEPT ![by].pc = AfterFrame(by), ![by].ids = @ + 1]
                        ELSE [caller EXCEPT ![by].pc = "failed"]
            BY <2>1 DEF Answer
        <3>2. AfterFrame(by) \in {"ready", "done"}
            BY DEF AfterFrame
        <3> HIDE DEF by
        <3>3. ASSUME NEW d \in Callers PROVE caller'[d] \in CallerType
            <4>1. \/ caller'[d] = caller[d]
                  \/ caller'[d] = [caller[d] EXCEPT !.pc = AfterFrame(by), !.ids = @ + 1]
                  \/ caller'[d] = [caller[d] EXCEPT !.pc = "failed"]
                BY <3>1
            <4>2. caller[d] \in CallerType
                OBVIOUS
            <4> QED BY <3>2, <4>1, <4>2, RecordStep
        <3>4. caller' = [d \in Callers |-> caller'[d]]
            BY <3>1
        <3> QED BY <3>3, <3>4
    <2>3. /\ radio' \in [used : 0 .. Slots, got : Nat]
          /\ reports' \in [1 .. MaxConns -> Seq(UnderWay)]
        <3> DEFINE used == IF radio.used < Slots THEN radio.used + 1 ELSE radio.used
                   r == [slots |-> Slots - used, seen |-> radio.got + 1]
        <3>1. CASE ~ok
            BY <2>1, <3>1
        <3>2. CASE ok
            <4>0. radio.used \in 0 .. Slots /\ radio.got \in Nat /\ Slots \in Nat
                BY Numbers
            <4>1. used \in 0 .. Slots /\ r \in UnderWay
                <5>1. used \in 0 .. Slots
                    BY <4>0
                <5>2. Slots - used \in 0 .. Slots /\ radio.got + 1 \in Nat
                    BY <4>0, <5>1
                <5> QED BY <5>1, <5>2 DEF UnderWay
            <4>2. conn \in 1 .. MaxConns
                BY <2>1, <3>2, Numbers
            <4>3. Append(reports[conn], r) \in Seq(UnderWay)
                BY <4>1, <4>2, AppendProperties
            <4>4. /\ radio' = [used |-> used, got |-> radio.got + 1]
                  /\ reports' = IF published
                                  THEN [reports EXCEPT ![conn] = Append(reports[conn], r)]
                                  ELSE reports
                BY <2>1, <3>2 DEF Arrive
            <4> HIDE DEF used, r
            <4>5. radio' \in [used : 0 .. Slots, got : Nat]
                BY <4>1, <4>4
            <4>6. reports' \in [1 .. MaxConns -> Seq(UnderWay)]
                BY <4>3, <4>4
            <4> QED BY <4>5, <4>6
        <3> QED BY <3>1, <3>2
    <2>4. worker' \in WorkerType
        BY <2>1, Numbers DEF Resting, WorkerType
    <2>5. age' \in 0 .. LongestGap
        BY <2>1, LongestGapIsGap
    <2>6. UNCHANGED <<queue, free, conn, up>>
        BY <2>1
    <2> QED BY <2>2, <2>3, <2>4, <2>5, <2>6
<1> QED BY <1>1, <1>2, <1>3, <1>4, <1>5, <1>6, <1>7 DEF WorkerStep

\* So does every other step.
LEMMA NextState == ASSUME StateOK, [Next]_vars PROVE StateOK'
<1> USE DEF StateOK
<1>1. ASSUME NEW c \in Callers, enqueue_voice_frame(c) PROVE StateOK'
    <2> DEFINE f == [by |-> c, n |-> caller[c].queued + 1]
    <2>1. /\ queue' = Append(queue, f) /\ Len(queue) < Capacity
          /\ caller[c].queued < Count[c]
          /\ UNCHANGED <<worker, age, radio, reports, free, conn, up>>
        BY <1>1 DEF enqueue_voice_frame, HasSpace, radioside, link
    <2>2. Count[c] \in 1 .. 9 /\ caller[c].queued \in 0 .. 9
        BY TransmitAssumption DEF TransmitAssumption, CallerType
    <2>3. caller[c].queued + 1 \in 1 .. 9
        BY <2>1, <2>2
    <2>4. f \in Frame
        BY <2>3, FrameMade
    <2>5. queue' \in Seq(Frame) /\ Len(queue') <= Capacity
        <3> HIDE DEF f
        <3> QED BY <2>1, <2>4, AppendProperties, LenProperties, Numbers
    <2>6. caller' \in [Callers -> CallerType]
        <3>1. \A d \in Callers :
                 \/ caller'[d] = caller[d]
                 \/ \E pc \in {"waits", "done", "ready"} :
                       caller'[d] = [caller[d] EXCEPT !.queued = caller[c].queued + 1, !.pc = pc]
            BY <1>1 DEF enqueue_voice_frame
        <3>2. ASSUME NEW d \in Callers PROVE caller'[d] \in CallerType
            <4>1. caller[d] \in CallerType /\ caller[c].queued + 1 \in 0 .. 9
                BY <2>3
            <4>2. CASE caller'[d] = caller[d]
                BY <4>1, <4>2
            <4>3. ASSUME NEW pc \in {"waits", "done", "ready"},
                         caller'[d] = [caller[d] EXCEPT !.queued = caller[c].queued + 1, !.pc = pc]
                  PROVE  caller'[d] \in CallerType
                <5> DEFINE q == caller[c].queued + 1
                <5>1. [caller[d] EXCEPT !.queued = q, !.pc = pc] \in CallerType
                    <6>1. q \in 0 .. 9 /\ caller[d] \in CallerType
                        BY <4>1
                    <6> HIDE DEF q
                    <6> QED BY <6>1, RecordStep
                <5> QED BY <4>3, <5>1
            <4> QED BY <3>1, <4>2, <4>3
        <3>3. caller' = [d \in Callers |-> caller'[d]]
            BY <1>1 DEF enqueue_voice_frame
        <3> QED BY <3>2, <3>3
    <2> QED BY <2>1, <2>5, <2>6
<1>2. CASE WorkerStep
    BY <1>2, WorkerStepState
<1>3. CASE Drain
    <2>1. PICK published \in BOOLEAN :
            /\ radio.used > 0
            /\ radio' = [radio EXCEPT !.used = @ - 1]
            /\ reports' = IF published
                            THEN [reports EXCEPT ![conn] =
                                    Append(@, [slots |-> Slots - radio.used + 1,
                                               seen |-> radio.got])]
                            ELSE reports
            /\ published => CanPublish
        BY <1>3 DEF Drain
    <2> DEFINE r == [slots |-> Slots - radio.used + 1, seen |-> radio.got]
    <2>0. radio.used \in 0 .. Slots /\ radio.got \in Nat /\ Slots \in Nat
        BY Numbers
    <2>2. radio' \in [used : 0 .. Slots, got : Nat]
        <3>1. radio.used - 1 \in 0 .. Slots
            BY <2>0, <2>1
        <3>2. radio' = [used |-> radio.used - 1, got |-> radio.got]
            BY <2>1
        <3> QED BY <2>0, <3>1, <3>2
    <2>3. r \in UnderWay
        <3>1. Slots - radio.used + 1 \in 0 .. Slots
            BY <2>0, <2>1
        <3> QED BY <2>0, <3>1 DEF UnderWay
    <2>4. reports' \in [1 .. MaxConns -> Seq(UnderWay)]
        <3>1. CASE published
            <4>1. conn \in 1 .. MaxConns
                BY <2>1, <3>1, Numbers DEF CanPublish
            <4>2. Append(reports[conn], r) \in Seq(UnderWay)
                BY <2>3, <4>1, AppendProperties
            <4>3. reports' = [reports EXCEPT ![conn] = Append(reports[conn], r)]
                BY <2>1, <3>1
            <4> HIDE DEF r
            <4> QED BY <4>2, <4>3
        <3> QED BY <2>1, <3>1
    <2> QED BY <1>3, <2>2, <2>4 DEF Drain, link
<1>4. ASSUME NEW c \in 1 .. MaxConns, HearStatus(c) PROVE StateOK'
    <2>1. Head(reports[c]) \in UnderWay /\ Tail(reports[c]) \in Seq(UnderWay)
        BY <1>4, HeadTailProperties DEF HearStatus
    <2>2. Head(reports[c]).slots \in 0 .. Slots /\ Head(reports[c]).seen \in Nat
        BY <2>1 DEF UnderWay
    <2>4. free' \in Report
        BY <1>4, <2>2, Numbers DEF HearStatus, Report
    <2>3. reports' \in [1 .. MaxConns -> Seq(UnderWay)]
        BY <1>4, <2>1 DEF HearStatus
    <2> QED BY <1>4, <2>4, <2>3 DEF HearStatus, link
<1>5. CASE connect_with_transport
    <2>1. conn' \in 0 .. MaxConns /\ conn' > 0 /\ free' \in Report
        BY <1>5, Numbers DEF connect_with_transport
    <2> QED BY <1>5, <2>1 DEF connect_with_transport
<1>6. CASE Disconnect
    BY <1>6 DEF Disconnect, radioside
<1>7. CASE DropService
    BY <1>7 DEF DropService, radioside
<1>8. CASE Tick
    <2>1. age' \in 0 .. LongestGap
        BY <1>8, LongestGapIsGap DEF Tick
    <2>2. worker' \in WorkerType
        BY <1>8 DEF Tick, WorkerType
    <2> QED BY <1>8, <2>1, <2>2 DEF Tick, radioside, link
<1>9. CASE UNCHANGED vars
    BY <1>9 DEF vars
<1> QED BY <1>1, <1>2, <1>3, <1>4, <1>5, <1>6, <1>7, <1>8, <1>9 DEF Next

\* The types hold in every reachable state: the channel never grows past its
\* capacity nor the queue of the firmware past its slots.
THEOREM TypeCorrect == Spec => []TypeOK
<1>1. TypeOK /\ [Next]_vars => TypeOK'
    BY TypeParts, TypePartsNext, NextFlags, NextState, Zenon
<1> QED BY <1>1, InitType, PTL DEF Spec

-----------------------------------------------------------------------------
(* The wake-up *)

\* From its look at the depth on, a worker that goes to wait has either found
\* no room or has a permit: whatever a report changes it also leaves one.
THEOREM NoLostWakeUpCorrect == Spec => []NoLostWakeUp
<1> USE DEF WakeInv, Resting
<1>1. Init => WakeInv
    BY DEF Init
<1>2. ASSUME TypeOK, WakeInv, [Next]_vars PROVE WakeInv'
    <2> worker \in WorkerType
        BY <1>2, TypeParts DEF StateOK
    <2>1. ASSUME NEW c \in Callers, enqueue_voice_frame(c) PROVE WakeInv'
        BY <1>2, <2>1 DEF enqueue_voice_frame, radioside
    <2>2. CASE CheckRoom
        BY <2>2 DEF CheckRoom, radioside
    <2>3. CASE Park
        BY <1>2, <2>3 DEF Park, radioside
    <2>4. CASE Recv \/ Anchor \/ Woken \/ TimedOut
        BY <2>4 DEF Recv, Anchor, Woken, TimedOut, WorkerType
    <2>11. CASE Send
        BY <2>11 DEF Send
    <2>5. CASE Drain
        BY <1>2, <2>5 DEF Drain
    <2>6. ASSUME NEW c \in 1 .. MaxConns, HearStatus(c) PROVE WakeInv'
        BY <2>6 DEF HearStatus, Notified
    <2>7. CASE connect_with_transport
        BY <2>7 DEF connect_with_transport, NoReport
    <2>8. CASE Disconnect \/ DropService
        BY <1>2, <2>8 DEF Disconnect, DropService, radioside
    <2>9. CASE Tick
        BY <1>2, <2>9 DEF Tick, radioside
    <2>10. CASE UNCHANGED vars
        BY <1>2, <2>10 DEF vars
    <2> QED BY <1>2, <2>1, <2>2, <2>3, <2>4, <2>5, <2>6, <2>7, <2>8, <2>9, <2>10,
            <2>11 DEF Next, WorkerStep
<1>3. WakeInv => NoLostWakeUp
    BY DEF NoLostWakeUp
<1> QED BY <1>1, <1>2, <1>3, TypeCorrect, PTL DEF Spec

-----------------------------------------------------------------------------
(* The margin *)

\* A report stays honest when the radio holds no more frames than it got.
LEMMA HonestStays ==
    ASSUME NEW r, r.slots \in 0 .. Slots \cup {Unlimited}, r.seen \in Nat,
           NEW used \in Nat, NEW got \in Nat, NEW used2 \in Nat, NEW got2 \in Nat,
           Honest(r, used, got), got <= got2, used2 - used <= got2 - got
    PROVE  Honest(r, used2, got2)
<1>1. CASE r.slots = Unlimited
    BY <1>1 DEF Honest
<1>2. CASE r.slots # Unlimited
    <2>1. r.seen <= got /\ used <= Slots - r.slots + (got - r.seen) /\ r.slots \in Nat
        BY <1>2, Numbers DEF Honest
    <2> QED BY <2>1, Numbers DEF Honest
<1> QED BY <1>1, <1>2

\* The reports of a state, wherever they are.
ReportsHonest(used, got) ==
    /\ \A c \in 1 .. MaxConns : \A i \in 1 .. Len(reports[c]) :
          Honest(reports[c][i], used, got)
    /\ Honest(free, used, got)
    /\ Honest(worker.basis, used, got)

\* All of them stay honest.
LEMMA AllHonestStay ==
    ASSUME StateOK, ReportsHonest(radio.used, radio.got),
           NEW used2 \in Nat, NEW got2 \in Nat,
           radio.got <= got2, used2 - radio.used <= got2 - radio.got
    PROVE  ReportsHonest(used2, got2)
<1>1. radio.used \in Nat /\ radio.got \in Nat
    BY Numbers DEF StateOK
<1>2. ASSUME NEW c \in 1 .. MaxConns, NEW i \in 1 .. Len(reports[c])
      PROVE  Honest(reports[c][i], used2, got2)
    <2>1. reports[c][i] \in UnderWay
        BY ElementOfSeq DEF StateOK
    <2>2. reports[c][i].slots \in 0 .. Slots \cup {Unlimited} /\ reports[c][i].seen \in Nat
        BY <2>1 DEF UnderWay
    <2>3. Honest(reports[c][i], radio.used, radio.got)
        BY DEF ReportsHonest
    <2> QED BY <1>1, <2>2, <2>3, HonestStays
<1>3. Honest(free, used2, got2)
    <2>1. free.slots \in 0 .. Slots \cup {Unlimited} /\ free.seen \in Nat
        BY DEF StateOK, Report
    <2>2. Honest(free, radio.used, radio.got)
        BY DEF ReportsHonest
    <2> QED BY <1>1, <2>1, <2>2, HonestStays
<1>4. Honest(worker.basis, used2, got2)
    <2>1. worker.basis \in Report
        BY DEF StateOK, WorkerType
    <2>2. worker.basis.slots \in 0 .. Slots \cup {Unlimited} /\ worker.basis.seen \in Nat
        BY <2>1 DEF Report
    <2>3. Honest(worker.basis, radio.used, radio.got)
        BY DEF ReportsHonest
    <2> QED BY <1>1, <2>2, <2>3, HonestStays
<1> QED BY <1>2, <1>3, <1>4 DEF ReportsHonest

\* Honesty of the reports on one connection survives a report that is honest.
LEMMA OneMoreHonest ==
    ASSUME StateOK, NEW used, NEW got, NEW r \in UnderWay, NEW d \in 1 .. MaxConns,
           \A c \in 1 .. MaxConns : \A i \in 1 .. Len(reports[c]) :
              Honest(reports[c][i], used, got),
           Honest(r, used, got),
           reports' = [reports EXCEPT ![d] = Append(reports[d], r)]
    PROVE  \A c \in 1 .. MaxConns : \A i \in 1 .. Len(reports'[c]) :
              Honest(reports'[c][i], used, got)
<1> SUFFICES ASSUME NEW c \in 1 .. MaxConns, NEW i \in 1 .. Len(reports'[c])
             PROVE  Honest(reports'[c][i], used, got)
    OBVIOUS
<1>1. reports[d] \in Seq(UnderWay) /\ reports \in [1 .. MaxConns -> Seq(UnderWay)]
    BY DEF StateOK
<1>2. CASE c # d
    <2>1. reports'[c] = reports[c]
        BY <1>1, <1>2
    <2> QED BY <2>1
<1>3. CASE c = d
    <2>1. reports'[c] = Append(reports[d], r)
        BY <1>1, <1>3
    <2>2. /\ Len(reports'[c]) = Len(reports[d]) + 1 /\ Len(reports[d]) \in Nat
          /\ \A j \in 1 .. Len(reports[d]) : reports'[c][j] = reports[d][j]
          /\ reports'[c][Len(reports[d]) + 1] = r
        BY <1>1, <2>1, AppendProperties, LenProperties
    <2>3. CASE i = Len(reports[d]) + 1
        BY <2>2, <2>3
    <2>4. CASE i # Len(reports[d]) + 1
        <3>1. i \in 1 .. Len(reports[d])
            BY <2>2, <2>4
        <3> QED BY <2>2, <3>1
    <2> QED BY <2>3, <2>4
<1> QED BY <1>2, <1>3

\* Every report is honest, and the worker sends on one that makes room.
MarginInv ==
    /\ ReportsHonest(radio.used, radio.got)
    /\ worker.pc = "send" /\ ~worker.valve => queue_has_room(worker.basis.slots)
    /\ MarginHolds

\* A step that leaves the radio and the reports alone, goes by a report on
\* record or by none, and sends only on room.
LEMMA WorkerAside ==
    ASSUME MarginInv, UNCHANGED <<radio, reports, free, spilled>>,
           worker'.basis \in {worker.basis, free, NoReport},
           worker'.pc = "send" /\ ~worker'.valve => queue_has_room(worker'.basis.slots)
    PROVE  MarginInv'
<1>1. Honest(NoReport, radio.used, radio.got)
    BY DEF Honest, NoReport
<1>2. Honest(worker'.basis, radio.used, radio.got)
    BY <1>1 DEF MarginInv, ReportsHonest
<1> QED BY <1>2 DEF MarginInv, ReportsHonest, MarginHolds

\* A frame that finds no room was not let in by a report the margin covers.
LEMMA ReasonGiven ==
    ASSUME StateOK, MarginInv, worker.pc = "send", radio.used = Slots
    PROVE  Reason # "none"
<1> SUFFICES ASSUME ~worker.valve, worker.basis.slots # Unlimited,
                    ~(radio.got - worker.basis.seen > LowWater)
             PROVE  FALSE
    BY DEF Reason
<1>1. worker.basis \in Report
    BY DEF StateOK, WorkerType
<1>2. worker.basis.slots \in 0 .. Slots /\ worker.basis.seen \in Nat /\ radio.got \in Nat
    BY <1>1 DEF Report, StateOK
<1>3. worker.basis.slots > LowWater
    BY DEF MarginInv, queue_has_room
<1>4. radio.used <= Slots - worker.basis.slots + (radio.got - worker.basis.seen)
    BY DEF MarginInv, ReportsHonest, Honest
<1> QED BY <1>2, <1>3, <1>4, Numbers

\* Sending keeps the margin.
LEMMA SendMargin ==
    ASSUME StateOK, MarginInv, Send
    PROVE  MarginInv'
<1>1. PICK ok \in BOOLEAN, published \in BOOLEAN :
        /\ worker.pc = "send"
        /\ ok => up
        /\ published => CanPublish
        /\ IF ok THEN Arrive(published)
                 ELSE ~published /\ UNCHANGED <<radio, reports, spilled>>
        /\ worker' = Resting
        /\ UNCHANGED <<queue, free, permit, conn, up, dropped>>
    BY DEF Send
<1>2. worker'.basis = NoReport /\ worker'.pc = "recv"
    BY <1>1 DEF Resting
<1>3. CASE ~ok
    BY <1>1, <1>2, <1>3, WorkerAside
<1>4. CASE ok
    <2> DEFINE used == IF radio.used < Slots THEN radio.used + 1 ELSE radio.used
               got == radio.got + 1
               r == [slots |-> Slots - used, seen |-> got]
    <2>1. /\ radio' = [used |-> used, got |-> got]
          /\ spilled' = IF radio.used < Slots THEN spilled ELSE spilled \cup {Reason}
          /\ reports' = IF published
                          THEN [reports EXCEPT ![conn] = Append(reports[conn], r)]
                          ELSE reports
        BY <1>1, <1>4 DEF Arrive
    <2>2. radio.used \in 0 .. Slots /\ radio.got \in Nat /\ Slots \in Nat
        BY Numbers DEF StateOK
    <2>3. /\ used \in 0 .. Slots /\ got \in Nat /\ radio.got <= got
          /\ used - radio.used <= got - radio.got
        BY <2>2
    <2>4. r \in UnderWay
        <3>1. Slots - used \in 0 .. Slots
            BY <2>2, <2>3
        <3> QED BY <2>3, <3>1 DEF UnderWay
    <2>5. Honest(r, used, got)
        BY <2>2, <2>3 DEF Honest
    <2>6. radio'.used = used /\ radio'.got = got
        BY <2>1
    <2>7. conn \in 1 .. MaxConns
        BY <1>1, <1>4, Numbers DEF StateOK
    <2> HIDE DEF used, got, r
    <2>8. ReportsHonest(used, got)
        <3>1. used \in Nat
            BY <2>2, <2>3
        <3> QED BY <2>3, <3>1, AllHonestStay DEF MarginInv
    <2>9. \A c \in 1 .. MaxConns : \A i \in 1 .. Len(reports'[c]) :
             Honest(reports'[c][i], used, got)
        <3>1. CASE published
            BY <2>1, <2>4, <2>5, <2>7, <2>8, <3>1, OneMoreHonest DEF ReportsHonest
        <3>2. CASE ~published
            BY <2>1, <2>8, <3>2 DEF ReportsHonest
        <3> QED BY <3>1, <3>2
    <2>10. Honest(free', used, got)
        BY <1>1, <2>8 DEF ReportsHonest
    <2>11. Honest(worker'.basis, used, got)
        BY <1>2 DEF Honest, NoReport
    <2>12. MarginHolds'
        <3>1. CASE radio.used < Slots
            BY <2>1, <3>1 DEF MarginInv, MarginHolds
        <3>2. CASE ~(radio.used < Slots)
            <4>1. Reason # "none"
                BY <1>1, <2>2, <3>2, ReasonGiven
            <4> QED BY <2>1, <3>2, <4>1 DEF MarginInv, MarginHolds
        <3> QED BY <3>1, <3>2
    <2> QED BY <1>2, <2>6, <2>9, <2>10, <2>11, <2>12 DEF MarginInv, ReportsHonest
<1> QED BY <1>3, <1>4

\* So does a frame that leaves the radio.
LEMMA DrainMargin ==
    ASSUME StateOK, MarginInv, Drain
    PROVE  MarginInv'
<1> DEFINE used == radio.used - 1
           r == [slots |-> Slots - radio.used + 1, seen |-> radio.got]
<1>1. PICK published \in BOOLEAN :
        /\ radio.used > 0
        /\ radio' = [radio EXCEPT !.used = @ - 1]
        /\ reports' = IF published
                        THEN [reports EXCEPT ![conn] = Append(reports[conn], r)]
                        ELSE reports
        /\ published => CanPublish
        /\ UNCHANGED <<worker, free, spilled>>
    BY DEF Drain
<1>2. radio.used \in 0 .. Slots /\ radio.got \in Nat /\ Slots \in Nat
    BY Numbers DEF StateOK
<1>3. used \in Nat /\ used - radio.used <= radio.got - radio.got
    BY <1>1, <1>2
<1>4. r \in UnderWay
    <2>1. Slots - radio.used + 1 \in 0 .. Slots
        BY <1>1, <1>2
    <2> QED BY <1>2, <2>1 DEF UnderWay
<1>5. Honest(r, used, radio.got)
    BY <1>2 DEF Honest
<1>6. radio'.used = used /\ radio'.got = radio.got
    BY <1>1 DEF StateOK
<1> HIDE DEF used, r
<1>7. ReportsHonest(used, radio.got)
    BY <1>2, <1>3, AllHonestStay DEF MarginInv
<1>8. \A c \in 1 .. MaxConns : \A i \in 1 .. Len(reports'[c]) :
         Honest(reports'[c][i], used, radio.got)
    <2>1. CASE published
        <3>1. conn \in 1 .. MaxConns
            BY <1>1, <2>1, Numbers DEF StateOK, CanPublish
        <3> QED BY <1>1, <1>4, <1>5, <1>7, <2>1, <3>1, OneMoreHonest DEF ReportsHonest
    <2>2. CASE ~published
        BY <1>1, <1>7, <2>2 DEF ReportsHonest
    <2> QED BY <2>1, <2>2
<1> QED BY <1>1, <1>6, <1>7, <1>8 DEF MarginInv, ReportsHonest, MarginHolds

\* And a report that arrives: it was honest on its way.
LEMMA HearMargin ==
    ASSUME StateOK, MarginInv, NEW d \in 1 .. MaxConns, HearStatus(d)
    PROVE  MarginInv'
<1>1. /\ reports[d] # <<>>
      /\ free' = [slots |-> Head(reports[d]).slots, seen |-> Head(reports[d]).seen,
                  conn |-> d]
      /\ reports' = [reports EXCEPT ![d] = Tail(reports[d])]
      /\ UNCHANGED <<worker, radio, spilled>>
    BY DEF HearStatus
<1>2. reports[d] \in Seq(UnderWay) /\ reports \in [1 .. MaxConns -> Seq(UnderWay)]
    BY DEF StateOK
<1>3. /\ Len(Tail(reports[d])) = Len(reports[d]) - 1 /\ Len(reports[d]) \in Nat \ {0}
      /\ \A i \in 1 .. Len(Tail(reports[d])) : Tail(reports[d])[i] = reports[d][i + 1]
    BY <1>1, <1>2, HeadTailProperties, EmptySeq
<1>4. Honest(free', radio.used, radio.got)
    <2>1. Honest(reports[d][1], radio.used, radio.got)
        BY <1>3 DEF MarginInv, ReportsHonest
    <2>2. Head(reports[d]) = reports[d][1]
        BY <1>1, <1>2
    <2> QED BY <1>1, <2>1, <2>2 DEF Honest
<1>5. ASSUME NEW c \in 1 .. MaxConns, NEW i \in 1 .. Len(reports'[c])
      PROVE  Honest(reports'[c][i], radio.used, radio.got)
    <2>1. CASE c # d
        <3>1. reports'[c] = reports[c]
            BY <1>1, <1>2, <2>1
        <3> QED BY <3>1 DEF MarginInv, ReportsHonest
    <2>2. CASE c = d
        <3>1. reports'[c] = Tail(reports[d])
            BY <1>1, <1>2, <2>2
        <3>2. i + 1 \in 1 .. Len(reports[d]) /\ reports'[c][i] = reports[d][i + 1]
            BY <1>3, <3>1
        <3> QED BY <3>2 DEF MarginInv, ReportsHonest
    <2> QED BY <2>1, <2>2
<1> QED BY <1>1, <1>4, <1>5 DEF MarginInv, ReportsHonest, MarginHolds

\* The margin: only the time limit, a connection that has not reported, a
\* report of an old one, or more frames than LowWater since the report can
\* make the worker fill a radio that has no room.
THEOREM MarginCorrect == Spec => []MarginHolds
<1>1. Init => MarginInv
    <2> SUFFICES ASSUME Init PROVE MarginInv
        OBVIOUS
    <2>1. free = NoReport /\ worker.basis = NoReport /\ worker.pc = "recv" /\ spilled = {}
        BY DEF Init, Resting
    <2>2. \A c \in 1 .. MaxConns : Len(reports[c]) = 0
        BY EmptySeq DEF Init
    <2>3. Honest(NoReport, radio.used, radio.got)
        BY DEF Honest, NoReport
    <2> QED BY <2>1, <2>2, <2>3 DEF MarginInv, ReportsHonest, MarginHolds
<1>2. ASSUME TypeOK, MarginInv, [Next]_vars PROVE MarginInv'
    <2>t. StateOK /\ worker \in WorkerType
        BY <1>2, TypeParts DEF StateOK
    <2>1. ASSUME NEW c \in Callers, enqueue_voice_frame(c) PROVE MarginInv'
        <3>1. worker' = worker /\ UNCHANGED <<radio, reports, free, spilled>>
            BY <2>1 DEF enqueue_voice_frame, radioside
        <3> QED BY <1>2, <3>1, WorkerAside DEF MarginInv
    <2>2. CASE Recv \/ Anchor
        <3>1. /\ UNCHANGED <<radio, reports, free, spilled>>
              /\ worker'.basis \in {worker.basis, free, NoReport} /\ worker'.pc # "send"
            BY <2>2, <2>t DEF Recv, Anchor, Resting, WorkerType, radioside
        <3> QED BY <1>2, <3>1, WorkerAside
    <2>3. CASE CheckRoom
        <3>1. /\ UNCHANGED <<radio, reports, free, spilled>>
              /\ worker'.basis \in {worker.basis, free, NoReport}
              /\ worker'.pc = "send" => queue_has_room(worker'.basis.slots)
            BY <2>3, <2>t DEF CheckRoom, WorkerType, radioside
        <3> QED BY <1>2, <3>1, WorkerAside
    <2>4. CASE Park \/ Woken \/ TimedOut
        <3>1. /\ UNCHANGED <<radio, reports, free, spilled>>
              /\ worker'.basis = worker.basis /\ ~(worker'.pc = "send" /\ ~worker'.valve)
            BY <2>4, <2>t DEF Park, Woken, TimedOut, WorkerType, radioside
        <3> QED BY <1>2, <3>1, WorkerAside
    <2>5. CASE Send
        BY <1>2, <2>5, <2>t, SendMargin
    <2>6. CASE Drain
        BY <1>2, <2>6, <2>t, DrainMargin
    <2>7. ASSUME NEW c \in 1 .. MaxConns, HearStatus(c) PROVE MarginInv'
        BY <1>2, <2>7, <2>t, HearMargin
    <2>8. CASE connect_with_transport
        <3>1. /\ free' = NoReport /\ UNCHANGED <<worker, radio, reports, spilled>>
            BY <2>8 DEF connect_with_transport
        <3>2. Honest(free', radio.used, radio.got)
            BY <3>1 DEF Honest, NoReport
        <3> QED BY <1>2, <3>1, <3>2 DEF MarginInv, ReportsHonest, MarginHolds
    <2>9. CASE Disconnect \/ DropService
        <3>1. worker' = worker /\ UNCHANGED <<radio, reports, free, spilled>>
            BY <2>9 DEF Disconnect, DropService, radioside
        <3> QED BY <1>2, <3>1, WorkerAside DEF MarginInv
    <2>10. CASE Tick
        <3>1. /\ UNCHANGED <<radio, reports, free, spilled>>
              /\ worker'.basis = worker.basis /\ worker'.pc = worker.pc
              /\ worker'.valve = worker.valve
            BY <2>10, <2>t DEF Tick, WorkerType, radioside
        <3> QED BY <1>2, <3>1, WorkerAside DEF MarginInv
    <2>11. CASE UNCHANGED vars
        BY <1>2, <2>11, WorkerAside DEF vars, MarginInv
    <2> QED BY <1>2, <2>1, <2>2, <2>3, <2>4, <2>5, <2>6, <2>7, <2>8, <2>9, <2>10,
               <2>11 DEF Next, WorkerStep
<1>3. MarginInv => MarginHolds
    BY DEF MarginInv
<1> QED BY <1>1, <1>2, <1>3, TypeCorrect, PTL DEF Spec

-----------------------------------------------------------------------------
(* The order *)

Line == (IF worker.item = NoItem THEN <<>> ELSE <<worker.item>>) \o queue

\* The frame in hand is the first of the line, the queue the rest.
LEMMA InFront ==
    ASSUME NEW it \in Frame, NEW q \in Seq(Frame)
    PROVE  /\ <<it>> \o q \in Seq(Frame) /\ <<it>> \o q # <<>>
           /\ Head(<<it>> \o q) = it /\ Tail(<<it>> \o q) = q
<1> DEFINE line == <<it>> \o q
<1>1. <<it>> \in Seq(Frame) /\ Len(<<it>>) = 1 /\ <<it>>[1] = it
    OBVIOUS
<1>2. /\ line \in Seq(Frame) /\ Len(line) = 1 + Len(q) /\ Len(q) \in Nat
      /\ \A i \in 1 .. 1 + Len(q) : line[i] = IF i <= 1 THEN <<it>>[i] ELSE q[i - 1]
    BY <1>1, ConcatProperties, LenProperties
<1> HIDE DEF line
<1>3. line # <<>>
    BY <1>2, EmptySeq
<1>4. /\ Tail(line) \in Seq(Frame) /\ Len(Tail(line)) = Len(line) - 1
      /\ \A i \in 1 .. Len(Tail(line)) : Tail(line)[i] = line[i + 1]
    BY <1>2, <1>3, HeadTailProperties
<1>5. Head(line) = it
    BY <1>1, <1>2, <1>3
<1>6. Tail(line) = q
    <2>1. ASSUME NEW i \in 1 .. Len(Tail(line)) PROVE Tail(line)[i] = q[i]
        BY <1>2, <1>4
    <2>2. Len(Tail(line)) = Len(q)
        BY <1>2, <1>4
    <2> QED BY <1>4, <2>1, <2>2, SeqEqual
<1> QED BY <1>2, <1>3, <1>5, <1>6 DEF line

\* A line is its first frame and the rest.
LEMMA SameEnds ==
    ASSUME NEW s \in Seq(Frame), NEW t \in Seq(Frame), s # <<>>, t # <<>>,
           Head(s) = Head(t), Tail(s) = Tail(t)
    PROVE  s = t
<1> DEFINE u == Tail(s)
           v == Tail(t)
<1>1. /\ Len(s) \in Nat \ {0} /\ Len(t) \in Nat \ {0}
      /\ Len(u) = Len(s) - 1 /\ Len(v) = Len(t) - 1
      /\ \A i \in 1 .. Len(u) : u[i] = s[i + 1]
      /\ \A i \in 1 .. Len(v) : v[i] = t[i + 1]
    BY HeadTailProperties, EmptySeq
<1>2. u = v /\ s[1] = t[1]
    OBVIOUS
<1> HIDE DEF u, v
<1>3. Len(s) = Len(t)
    BY <1>1, <1>2
<1>4. ASSUME NEW i \in 1 .. Len(s) PROVE s[i] = t[i]
    <2>1. CASE i = 1
        BY <1>2, <2>1
    <2>2. CASE i # 1
        <3>1. i - 1 \in 1 .. Len(u) /\ (i - 1) + 1 = i
            BY <1>1, <2>2
        <3>2. s[(i - 1) + 1] = u[i - 1] /\ t[(i - 1) + 1] = v[i - 1]
            BY <1>1, <1>2, <3>1
        <3> QED BY <1>2, <3>1, <3>2
    <2> QED BY <2>1, <2>2
<1> QED BY <1>3, <1>4, SeqEqual

\* The worker holds a frame exactly while it works on one.
LEMMA HandStep == ASSUME StateOK, HandInv, [Next]_vars PROVE HandInv'
<1> worker \in WorkerType
    BY DEF StateOK
<1> USE DEF HandInv, Resting, radioside, link
<1>1. ASSUME NEW c \in Callers, enqueue_voice_frame(c) PROVE HandInv'
    BY <1>1 DEF enqueue_voice_frame
<1>2. CASE Recv
    <2>1. Head(queue) # NoItem
        BY <1>2, HeadTailProperties, FrameFields DEF Recv, StateOK
    <2>2. worker'.item = Head(queue) /\ worker'.pc = "pace"
        BY <1>2 DEF Recv
    <2> QED BY <2>1, <2>2
<1>3. CASE Anchor
    BY <1>3 DEF Anchor, WorkerType
<1>4. CASE CheckRoom \/ Park \/ Woken \/ TimedOut
    BY <1>4 DEF CheckRoom, Park, Woken, TimedOut, WorkerType
<1>5. CASE Send
    BY <1>5 DEF Send
<1>6. CASE Drain \/ connect_with_transport \/ Disconnect \/ DropService
    BY <1>6 DEF Drain, connect_with_transport, Disconnect, DropService
<1>7. ASSUME NEW c \in 1 .. MaxConns, HearStatus(c) PROVE HandInv'
    BY <1>7 DEF HearStatus
<1>8. CASE Tick
    <2>1. worker'.item = worker.item /\ worker'.pc = worker.pc
        BY <1>8 DEF Tick, WorkerType
    <2> QED BY <2>1
<1>9. CASE UNCHANGED vars
    BY <1>9 DEF vars
<1> QED BY <1>1, <1>2, <1>3, <1>4, <1>5, <1>6, <1>7, <1>8, <1>9 DEF Next, WorkerStep

\* What a step does to the line, the log and the service is a step of
\* PacedFifo, or none.
LEMMA FifoStep ==
    ASSUME StateOK, StateOK', HandInv, HandInv', [Next]_vars
    PROVE  [Fifo!ANext]_(Fifo!avars)
<1> worker \in WorkerType
    BY DEF StateOK
<1> DEFINE Same == Line' = Line /\ log' = log /\ dropped' = dropped
<1>s. ASSUME Same PROVE UNCHANGED Fifo!avars
    BY <1>s DEF Line, Fifo!avars
<1>w. ASSUME worker' = worker, queue' = queue, log' = log, dropped' = dropped
      PROVE  Same
    BY <1>w DEF Line
<1>i. ASSUME worker'.item = worker.item, queue' = queue, log' = log, dropped' = dropped
      PROVE  Same
    BY <1>i DEF Line
<1>n. /\ queue \in Seq(Frame) /\ queue' \in Seq(Frame)
      /\ worker.item \in Frame \cup {NoItem}
    BY DEF StateOK, WorkerType
<1>1. ASSUME NEW c \in Callers, enqueue_voice_frame(c) PROVE Fifo!ANext
    <2> DEFINE f == [by |-> c, n |-> caller[c].queued + 1]
    <2>1. /\ ~dropped /\ queue' = Append(queue, f)
          /\ worker' = worker /\ log' = log /\ dropped' = dropped
        BY <1>1 DEF enqueue_voice_frame, link
    <2>2. f \in Frame
        <3>1. Count[c] \in 1 .. 9 /\ caller[c].queued \in 0 .. 9 /\ caller[c].queued < Count[c]
            BY <1>1, TransmitAssumption
               DEF StateOK, CallerType, TransmitAssumption, enqueue_voice_frame
        <3>2. caller[c].queued + 1 \in 1 .. 9
            BY <3>1
        <3> QED BY <3>2, FrameMade
    <2> HIDE DEF f
    <2>3. Line' = Append(Line, f)
        <3>1. CASE worker.item = NoItem
            BY <1>n, <2>1, <2>2, <3>1, ConcatEmptySeq, AppendProperties DEF Line
        <3>2. CASE worker.item # NoItem
            <4> DEFINE h == <<worker.item>>
            <4>1. h \in Seq(Frame) /\ <<f>> \in Seq(Frame)
                BY <1>n, <2>2, <3>2
            <4>2. Line = h \o queue /\ Line' = h \o Append(queue, f)
                BY <2>1, <3>2 DEF Line
            <4> HIDE DEF h
            <4>3. Append(queue, f) = queue \o <<f>>
                BY <1>n, <2>2, AppendIsConcat
            <4>4. h \o queue \in Seq(Frame)
                BY <1>n, <4>1, ConcatProperties
            <4>5. Append(h \o queue, f) = (h \o queue) \o <<f>>
                BY <2>2, <4>4, AppendIsConcat
            <4>6. (h \o queue) \o <<f>> = h \o (queue \o <<f>>)
                BY <1>n, <4>1, ConcatAssociative
            <4> QED BY <4>2, <4>3, <4>5, <4>6
        <3> QED BY <3>1, <3>2
    <2>4. Fifo!Take(f)
        BY <2>1, <2>3 DEF Line, Fifo!Take
    <2> QED BY <2>2, <2>4 DEF Fifo!ANext
<1>2. CASE Recv
    <2>1. worker.item = NoItem /\ queue # <<>> /\ queue' = Tail(queue)
          /\ worker'.item = Head(queue) /\ log' = log /\ dropped' = dropped
        BY <1>2 DEF Recv, HandInv, Resting, link
    <2>2. Head(queue) \in Frame /\ Head(queue) # NoItem
        BY <1>n, <2>1, HeadTailProperties, FrameFields
    <2>3. Line = queue
        BY <1>n, <2>1, ConcatEmptySeq DEF Line
    <2>4. Line' = <<Head(queue)>> \o Tail(queue)
        BY <2>1, <2>2 DEF Line
    <2>5. <<Head(queue)>> \o Tail(queue) = queue
        <3> DEFINE it == Head(queue)
                   q == Tail(queue)
                   l == <<it>> \o q
        <3>1. it \in Frame /\ q \in Seq(Frame)
            BY <1>n, <2>1, <2>2
        <3>2. l \in Seq(Frame) /\ l # <<>> /\ Head(l) = it /\ Tail(l) = q
            <4> HIDE DEF it, q
            <4> QED BY <3>1, InFront
        <3>3. Head(l) = Head(queue) /\ Tail(l) = Tail(queue)
            BY <3>2
        <3> HIDE DEF l
        <3> QED BY <1>n, <2>1, <3>2, <3>3, SameEnds DEF l
    <2> QED BY <1>s, <2>1, <2>3, <2>4, <2>5
<1>3. CASE Anchor
    <2>1. CASE dropped
        <3>1. worker.item \in Frame /\ worker'.item = NoItem /\ queue' = <<>>
              /\ log' = log /\ dropped' = dropped
            BY <1>3, <1>n, <2>1 DEF Anchor, HandInv, Resting, link
        <3>2. Line # <<>>
            BY <1>n, <3>1, InFront, FrameFields DEF Line
        <3>3. Line' = <<>>
            BY <3>1, EmptySeq, ConcatEmptySeq DEF Line
        <3> QED BY <2>1, <3>1, <3>2, <3>3 DEF Line, Fifo!Drop, Fifo!ANext
    <2>2. CASE ~dropped
        <3>1. worker'.item = worker.item /\ queue' = queue /\ log' = log /\ dropped' = dropped
            BY <1>3, <2>2 DEF Anchor, WorkerType, link
        <3> QED BY <1>i, <1>s, <3>1
    <2> QED BY <2>1, <2>2
<1>4. CASE CheckRoom \/ Park \/ Woken \/ TimedOut
    <2>1. worker'.item = worker.item /\ queue' = queue /\ log' = log /\ dropped' = dropped
        BY <1>4 DEF CheckRoom, Park, Woken, TimedOut, WorkerType, link
    <2> QED BY <1>i, <1>s, <2>1
<1>5. CASE Send
    <2>1. PICK ok \in BOOLEAN :
            /\ worker.pc = "send"
            /\ log' = Append(log, [frame |-> worker.item, ok |-> ok])
            /\ worker' = Resting /\ queue' = queue /\ dropped' = dropped
        BY <1>5 DEF Send
    <2>2. worker.item \in Frame /\ worker.item # NoItem /\ worker'.item = NoItem
        BY <1>n, <2>1 DEF HandInv, Resting
    <2>3. Line = <<worker.item>> \o queue /\ Line' = <<>> \o queue
        BY <2>1, <2>2 DEF Line
    <2>4. <<>> \o queue = queue
        BY <1>n, ConcatEmptySeq
    <2>5. Line # <<>> /\ Head(Line) = worker.item /\ Tail(Line) = queue
        BY <1>n, <2>2, <2>3, InFront
    <2>6. Line # <<>> /\ log' = Append(log, [frame |-> Head(Line), ok |-> ok])
          /\ Line' = Tail(Line) /\ dropped' = dropped
        BY <2>1, <2>3, <2>4, <2>5
    <2> QED BY <2>6 DEF Line, Fifo!Handle, Fifo!ANext
<1>6. CASE Drain \/ connect_with_transport \/ Disconnect
    BY <1>6, <1>w, <1>s DEF Drain, connect_with_transport, Disconnect, link
<1>7. CASE DropService
    <2>1. ~dropped /\ dropped' = TRUE /\ worker' = worker /\ queue' = queue /\ log' = log
        BY <1>7 DEF DropService
    <2> QED BY <2>1 DEF Fifo!Close, Fifo!ANext
<1>8. ASSUME NEW c \in 1 .. MaxConns, HearStatus(c) PROVE Same
    BY <1>8, <1>w DEF HearStatus, link
<1>9. CASE Tick
    <2>1. worker'.item = worker.item /\ queue' = queue /\ log' = log /\ dropped' = dropped
        BY <1>9 DEF Tick, WorkerType, link
    <2> QED BY <1>i, <1>s, <2>1
<1>10. CASE UNCHANGED vars
    BY <1>10, <1>w, <1>s DEF vars
<1> QED BY <1>1, <1>2, <1>3, <1>4, <1>5, <1>6, <1>7, <1>8, <1>9, <1>10, <1>s
        DEF Next, WorkerStep

\* The worker handles the frames of all callers once each and in the order
\* they were queued, and drops what waits only with the service: the safety
\* of PacedFifo, of which the run also checks that nothing waits for ever.
THEOREM FifoCorrect == Spec => Fifo!AInit /\ [][Fifo!ANext]_(Fifo!avars)
<1>1. Init => HandInv /\ Fifo!AInit
    BY ConcatEmptySeq, EmptySeq DEF Init, HandInv, Resting, Fifo!AInit
<1>2. TypeOK => StateOK
    BY TypeParts
<1>3. TypeOK' => StateOK'
    BY TypePartsNext
<1>4. TypeOK /\ HandInv /\ [Next]_vars => HandInv'
    BY <1>2, HandStep
<1>5. TypeOK /\ TypeOK' /\ HandInv /\ HandInv' /\ [Next]_vars => [Fifo!ANext]_(Fifo!avars)
    BY <1>2, <1>3, FifoStep
<1> QED BY <1>1, <1>4, <1>5, TypeCorrect, PTL DEF Spec

-----------------------------------------------------------------------------
(* What a burst is told *)

Entry == [frame : Frame, ok : BOOLEAN]

\* The caller's books agree with the log: what it queued has been handled but
\* for the frame it waits for, and it goes on only while all were sent.
Books(c) ==
    /\ caller[c].ids = Cardinality(Sent(c))
    /\ caller[c].queued = Cardinality(Handled(c)) + (IF caller[c].pc = "waits" THEN 1 ELSE 0)
    /\ caller[c].pc # "failed" =>
          caller[c].queued = caller[c].ids + (IF caller[c].pc = "waits" THEN 1 ELSE 0)
    /\ caller[c].pc = "done" => caller[c].queued = Count[c]
    /\ caller[c].pc = "failed" => Max(Handled(c)) \notin Sent(c)

InHand(c) == worker.item # NoItem /\ worker.item.by = c
InQueue(c) == {i \in DOMAIN queue : queue[i].by = c}

\* Only a caller that waits has a frame under way, and no more than one.
OneUnderWay(c) ==
    /\ caller[c].pc # "waits" \/ InHand(c) => InQueue(c) = {}
    /\ caller[c].pc # "waits" => ~InHand(c)
    /\ \A i, j \in InQueue(c) : i = j

BurstInv ==
    /\ log \in Seq(Entry)
    /\ \A c \in Bursts : Books(c) /\ OneUnderWay(c)

LEMMA HandledFinite ==
    ASSUME NEW c, log \in Seq(Entry)
    PROVE  /\ IsFiniteSet(Handled(c)) /\ IsFiniteSet(Sent(c))
           /\ Cardinality(Handled(c)) \in Nat /\ Cardinality(Sent(c)) \in Nat
<1>1. IsFiniteSet(DOMAIN log)
    BY FS_Interval, LenProperties
<1>2. Handled(c) \in SUBSET DOMAIN log /\ Sent(c) \in SUBSET DOMAIN log
    BY DEF Handled, Sent
<1> QED BY <1>1, <1>2, FS_Subset, FS_CardinalityType

\* An entry more in the log is the last of its caller's.
LEMMA LogGrows ==
    ASSUME NEW e \in Entry, log \in Seq(Entry), log' = Append(log, e)
    PROVE  /\ log' \in Seq(Entry)
           /\ \A c : e.frame.by # c => Handled(c)' = Handled(c) /\ Sent(c)' = Sent(c)
           /\ \A c : e.frame.by = c =>
                /\ Cardinality(Handled(c)') = Cardinality(Handled(c)) + 1
                /\ Cardinality(Sent(c)') = Cardinality(Sent(c)) + (IF e.ok THEN 1 ELSE 0)
                /\ ~e.ok => Max(Handled(c)') \notin Sent(c)'
           /\ \A c : Cardinality(Handled(c)) \in Nat /\ Cardinality(Sent(c)) \in Nat
<1> DEFINE n == Len(log) + 1
<1>1. /\ log' \in Seq(Entry) /\ n \in Nat /\ DOMAIN log = 1 .. Len(log) /\ DOMAIN log' = 1 .. n
      /\ log'[n] = e /\ \A i \in DOMAIN log : log'[i] = log[i]
    BY AppendProperties, LenProperties
<1>2. /\ DOMAIN log' = DOMAIN log \cup {n} /\ n \notin DOMAIN log
      /\ \A i \in DOMAIN log : i \in Nat /\ i < n
    BY <1>1
<1> HIDE DEF n
<1>3. \A c : /\ IsFiniteSet(Handled(c)) /\ IsFiniteSet(Sent(c))
             /\ Cardinality(Handled(c)) \in Nat /\ Cardinality(Sent(c)) \in Nat
    BY HandledFinite
<1>4. ASSUME NEW c, e.frame.by # c
      PROVE  Handled(c)' = Handled(c) /\ Sent(c)' = Sent(c)
    BY <1>1, <1>2, <1>4 DEF Handled, Sent
<1>5. ASSUME NEW c, e.frame.by = c
      PROVE  /\ Cardinality(Handled(c)') = Cardinality(Handled(c)) + 1
             /\ Cardinality(Sent(c)') = Cardinality(Sent(c)) + (IF e.ok THEN 1 ELSE 0)
             /\ ~e.ok => Max(Handled(c)') \notin Sent(c)'
    <2>1. Handled(c)' = Handled(c) \cup {n} /\ n \notin Handled(c)
        BY <1>1, <1>2, <1>5 DEF Handled
    <2>2. Sent(c)' = (IF e.ok THEN Sent(c) \cup {n} ELSE Sent(c)) /\ n \notin Sent(c)
        BY <1>1, <1>2, <1>5 DEF Handled, Sent
    <2>3. Max(Handled(c)') = n
        <3>1. n \in Handled(c)' /\ \A i \in Handled(c)' : i \in Nat /\ i <= n
            BY <1>1, <1>2, <2>1 DEF Handled
        <3> QED BY <3>1 DEF Max
    <2>4. Cardinality(Handled(c)') = Cardinality(Handled(c)) + 1
        BY <1>3, <2>1, FS_AddElement
    <2>5. Cardinality(Sent(c)') = Cardinality(Sent(c)) + (IF e.ok THEN 1 ELSE 0)
        <3>1. CASE e.ok
            BY <1>3, <2>2, <3>1, FS_AddElement
        <3>2. CASE ~e.ok
            <4>1. Sent(c)' = Sent(c) /\ Cardinality(Sent(c)) \in Nat
                BY <1>3, <2>2, <3>2
            <4> QED BY <3>2, <4>1
        <3> QED BY <3>1, <3>2
    <2> QED BY <2>2, <2>3, <2>4, <2>5
<1> QED BY <1>1, <1>3, <1>4, <1>5

\* A step that moves no frame and answers no caller leaves the books.
LEMMA BurstAside ==
    ASSUME BurstInv, UNCHANGED <<caller, log, queue>>, worker'.item = worker.item
    PROVE  BurstInv'
<1>1. \A c : /\ Handled(c)' = Handled(c) /\ Sent(c)' = Sent(c)
             /\ InHand(c)' = InHand(c) /\ InQueue(c)' = InQueue(c)
    BY DEF InHand, InQueue, Handled, Sent
<1> QED BY <1>1 DEF BurstInv, Books, OneUnderWay

\* The three steps that move frames.
LEMMA BurstEnqueue ==
    ASSUME StateOK, BurstInv, NEW c \in Callers, enqueue_voice_frame(c)
    PROVE  BurstInv'
<1>t. caller \in [Callers -> CallerType] /\ queue \in Seq(Frame)
    BY DEF StateOK
<1> DEFINE f == [by |-> c, n |-> caller[c].queued + 1]
           n == Len(queue) + 1
<1>1. f.by = c
    OBVIOUS
<1>2. /\ caller[c].pc = "ready" /\ queue' = Append(queue, f) /\ log' = log /\ worker' = worker
      /\ caller' = [caller EXCEPT ![c].queued = @ + 1,
                                  ![c].pc = IF c \in Bursts THEN "waits"
                                            ELSE IF caller[c].queued + 1 = Count[c] THEN "done"
                                            ELSE "ready"]
    BY DEF enqueue_voice_frame
<1>3. /\ DOMAIN queue' = DOMAIN queue \cup {n} /\ queue'[n] = f
      /\ \A i \in DOMAIN queue : queue'[i] = queue[i]
    <2>1. f \in Frame
        <3>1. caller[c].queued + 1 \in 1 .. 9
            <4>1. Count[c] \in 1 .. 9 /\ caller[c].queued \in 0 .. 9 /\ caller[c].queued < Count[c]
                BY <1>t, TransmitAssumption DEF TransmitAssumption, enqueue_voice_frame, CallerType
            <4> QED BY <4>1
        <3> QED BY <3>1, FrameMade
    <2> QED BY <1>t, <1>2, <2>1, AppendProperties, LenProperties
<1> HIDE DEF f, n
<1>4. \A d : /\ d # c => InQueue(d)' = InQueue(d)
             /\ d = c => InQueue(d)' = InQueue(d) \cup {n}
    BY <1>1, <1>3 DEF InQueue
<1>5. \A d : InHand(d)' = InHand(d) /\ Handled(d)' = Handled(d) /\ Sent(d)' = Sent(d)
    BY <1>2 DEF InHand, Handled, Sent
<1>6. ASSUME NEW d \in Bursts, d # c
      PROVE  Books(d)' /\ OneUnderWay(d)'
    <2>1. d \in Callers /\ caller'[d] = caller[d]
        BY <1>t, <1>2, <1>6 DEF Callers
    <2> QED BY <1>4, <1>5, <1>6, <2>1 DEF BurstInv, Books, OneUnderWay
<1>7. ASSUME c \in Bursts
      PROVE  Books(c)' /\ OneUnderWay(c)'
    <2>1. /\ caller'[c].pc = "waits" /\ caller'[c].queued = caller[c].queued + 1
          /\ caller'[c].ids = caller[c].ids
        BY <1>t, <1>2, <1>7 DEF CallerType
    <2>2. Books(c) /\ OneUnderWay(c) /\ caller[c].queued \in Nat
        <3>1. Books(c) /\ OneUnderWay(c)
            BY <1>7 DEF BurstInv
        <3> QED BY <1>t, <3>1 DEF CallerType
    <2>3. Books(c)'
        <3>1. caller[c].queued = Cardinality(Handled(c)) /\ caller[c].queued = caller[c].ids
            <4>1. caller[c].queued = Cardinality(Handled(c)) + 0 /\ caller[c].queued = caller[c].ids + 0
                BY <1>2, <2>2 DEF Books
            <4>2. Cardinality(Handled(c)) \in Nat /\ caller[c].ids \in Nat
                BY <1>t, HandledFinite DEF BurstInv, CallerType
            <4> QED BY <4>1, <4>2
        <3> QED BY <1>5, <2>1, <2>2, <3>1 DEF Books
    <2>4. OneUnderWay(c)'
        BY <1>2, <1>4, <1>5, <2>1, <2>2 DEF OneUnderWay
    <2> QED BY <2>3, <2>4
<1> QED BY <1>2, <1>6, <1>7 DEF BurstInv

LEMMA BurstRecv ==
    ASSUME StateOK, HandInv, BurstInv, Recv
    PROVE  BurstInv'
<1>1. /\ worker.item = NoItem /\ worker'.item = Head(queue) /\ queue' = Tail(queue)
      /\ caller' = caller /\ log' = log /\ queue # <<>> /\ queue \in Seq(Frame)
    BY DEF Recv, HandInv, StateOK, Resting
<1>2. /\ worker'.item = queue[1] /\ 1 \in DOMAIN queue
      /\ \A i \in DOMAIN queue' : i + 1 \in DOMAIN queue /\ queue'[i] = queue[i + 1] /\ i \in Nat \ {0}
    <2>1. Len(queue) \in Nat \ {0} /\ DOMAIN queue = 1 .. Len(queue)
        BY <1>1, EmptySeq, LenProperties
    <2>2. /\ Tail(queue) \in Seq(Frame) /\ Len(Tail(queue)) = Len(queue) - 1
          /\ \A i \in 1 .. Len(Tail(queue)) : Tail(queue)[i] = queue[i + 1]
        BY <1>1, HeadTailProperties
    <2>3. DOMAIN Tail(queue) = 1 .. Len(Tail(queue))
        BY <2>2, LenProperties
    <2> QED BY <1>1, <2>1, <2>2, <2>3
<1>3. ASSUME NEW c \in Bursts
      PROVE  OneUnderWay(c)'
    <2>1. OneUnderWay(c)
        BY DEF BurstInv
    <2>2. InHand(c)' => 1 \in InQueue(c)
        BY <1>2 DEF InHand, InQueue
    <2>3. \A i \in InQueue(c)' : i + 1 \in InQueue(c) /\ i \in Nat \ {0}
        BY <1>2 DEF InQueue
    <2>4. \A i, j \in InQueue(c)' : i = j
        <3>1. \A i, j \in InQueue(c)' : i + 1 = j + 1
            BY <2>1, <2>3 DEF OneUnderWay
        <3> QED BY <2>3, <3>1
    <2>5. InHand(c)' => InQueue(c)' = {}
        <3>1. ASSUME NEW i \in InQueue(c)', 1 \in InQueue(c)
              PROVE  FALSE
            <4>1. i + 1 = 1 /\ i \in Nat \ {0}
                BY <2>1, <2>3, <3>1 DEF OneUnderWay
            <4> QED BY <4>1
        <3> QED BY <2>2, <3>1
    <2>6. caller[c].pc # "waits" => InQueue(c)' = {} /\ ~InHand(c)'
        BY <2>1, <2>2, <2>3 DEF OneUnderWay
    <2> QED BY <1>1, <2>4, <2>5, <2>6 DEF OneUnderWay
<1>4. ASSUME NEW c \in Bursts
      PROVE  Books(c)'
    <2>1. Handled(c)' = Handled(c) /\ Sent(c)' = Sent(c)
        BY <1>1 DEF Handled, Sent
    <2> QED BY <1>1, <2>1 DEF BurstInv, Books
<1> QED BY <1>1, <1>3, <1>4 DEF BurstInv

LEMMA BurstSend ==
    ASSUME StateOK, HandInv, BurstInv, Send
    PROVE  BurstInv'
<1>t. /\ caller \in [Callers -> CallerType] /\ worker \in WorkerType
      /\ log \in Seq(Entry)
    BY DEF StateOK, BurstInv
<1>1. PICK ok \in BOOLEAN :
        /\ worker.pc = "send" /\ caller' = Answer(worker.item.by, ok)
        /\ log' = Append(log, [frame |-> worker.item, ok |-> ok])
        /\ worker' = Resting /\ queue' = queue
    BY DEF Send
<1> DEFINE e == [frame |-> worker.item, ok |-> ok]
           b == worker.item.by
<1>2. worker.item # NoItem /\ worker.item \in Frame /\ b \in Callers
    BY <1>t, <1>1, FrameFields DEF HandInv, WorkerType
<1>3. e \in Entry /\ e.frame.by = b /\ e.ok = ok
    BY <1>2 DEF Entry
<1> HIDE DEF e
<1>4. /\ log' \in Seq(Entry)
      /\ \A c : b # c => Handled(c)' = Handled(c) /\ Sent(c)' = Sent(c)
      /\ \A c : b = c =>
            /\ Cardinality(Handled(c)') = Cardinality(Handled(c)) + 1
            /\ Cardinality(Sent(c)') = Cardinality(Sent(c)) + (IF ok THEN 1 ELSE 0)
            /\ ~ok => Max(Handled(c)') \notin Sent(c)'
      /\ \A c : Cardinality(Handled(c)) \in Nat /\ Cardinality(Sent(c)) \in Nat
    BY <1>t, <1>1, <1>3, LogGrows DEF e
<1>5. \A c : ~InHand(c)' /\ InQueue(c)' = InQueue(c)
    BY <1>1 DEF InHand, InQueue, Resting
<1>6. ASSUME NEW c \in Bursts, c # b
      PROVE  Books(c)' /\ OneUnderWay(c)'
    <2>1. c \in Callers /\ caller'[c] = caller[c]
        BY <1>t, <1>1, <1>2, <1>6 DEF Answer, Callers
    <2> QED BY <1>4, <1>5, <1>6, <2>1 DEF BurstInv, Books, OneUnderWay
<1>7. ASSUME NEW c \in Bursts, c = b
      PROVE  Books(c)' /\ OneUnderWay(c)'
    <2>1. Books(c) /\ OneUnderWay(c) /\ InHand(c)
        BY <1>2, <1>7 DEF BurstInv, InHand
    <2>2. caller[c].pc = "waits" /\ InQueue(c) = {}
        BY <2>1 DEF OneUnderWay
    <2>3. /\ caller[c].queued = Cardinality(Handled(c)) + 1
          /\ caller[c].queued = caller[c].ids + 1 /\ caller[c].ids = Cardinality(Sent(c))
        BY <2>1, <2>2 DEF Books
    <2>4. c \in Callers /\ c \notin Relays
        BY <1>7, TransmitAssumption DEF TransmitAssumption, Callers
    <2>5. OneUnderWay(c)'
        BY <1>5, <2>2 DEF OneUnderWay
    <2>6. CASE ok
        <3>1. /\ caller'[c].pc = AfterFrame(c) /\ caller'[c].ids = caller[c].ids + 1
              /\ caller'[c].queued = caller[c].queued
            <4>1. caller' = [caller EXCEPT ![c].pc = AfterFrame(c), ![c].ids = @ + 1]
                BY <1>1, <1>7, <2>4, <2>6 DEF Answer
            <4> QED BY <1>t, <2>4, <4>1 DEF CallerType
        <3>2. Cardinality(Handled(c)') = caller[c].queued /\ Cardinality(Sent(c)') = caller[c].ids + 1
            BY <1>4, <1>7, <2>3, <2>6
        <3>3. AfterFrame(c) \in {"ready", "done"} /\ (AfterFrame(c) = "done" => caller[c].queued = Count[c])
            BY DEF AfterFrame
        <3>4. caller[c].queued \in Nat /\ caller[c].ids \in Nat
            BY <1>t, <2>4 DEF CallerType
        <3>5. Books(c)'
            BY <2>3, <3>1, <3>2, <3>3, <3>4 DEF Books
        <3> QED BY <2>5, <3>5
    <2>7. CASE ~ok
        <3>1. /\ caller'[c].pc = "failed" /\ caller'[c].ids = caller[c].ids
              /\ caller'[c].queued = caller[c].queued
            <4>1. caller' = [caller EXCEPT ![c].pc = "failed"]
                BY <1>1, <1>7, <2>4, <2>7 DEF Answer
            <4> QED BY <1>t, <2>4, <4>1 DEF CallerType
        <3>2. /\ Cardinality(Handled(c)') = caller[c].queued /\ Max(Handled(c)') \notin Sent(c)'
              /\ Cardinality(Sent(c)') = Cardinality(Sent(c)) + 0 /\ Cardinality(Sent(c)) \in Nat
            BY <1>4, <1>7, <2>3, <2>7
        <3>3. caller[c].queued \in Nat
            BY <1>t, <2>4 DEF CallerType
        <3>4. Books(c)'
            BY <2>3, <3>1, <3>2, <3>3 DEF Books
        <3> QED BY <2>5, <3>4
    <2> QED BY <2>6, <2>7
<1> QED BY <1>4, <1>6, <1>7 DEF BurstInv

LEMMA BurstStep == ASSUME StateOK, HandInv, BurstInv, [Next]_vars PROVE BurstInv'
<1>t. worker \in WorkerType
    BY DEF StateOK
<1>1. CASE Anchor
    <2>1. caller' = caller /\ log' = log
        BY <1>1 DEF Anchor
    <2>2. \/ worker'.item = worker.item /\ queue' = queue
          \/ worker'.item = NoItem /\ queue' = <<>>
        BY <1>t, <1>1 DEF Anchor, WorkerType, Resting
    <2>3. CASE worker'.item = NoItem /\ queue' = <<>>
        <3>1. \A c : /\ Handled(c)' = Handled(c) /\ Sent(c)' = Sent(c)
                     /\ ~InHand(c)' /\ InQueue(c)' = {}
            BY <2>1, <2>3 DEF InHand, InQueue, Handled, Sent
        <3> QED BY <2>1, <3>1 DEF BurstInv, Books, OneUnderWay
    <2> QED BY <2>1, <2>2, <2>3, BurstAside
<1>2. CASE CheckRoom \/ Park \/ Woken \/ TimedOut \/ Tick
    <2>1. UNCHANGED <<caller, log, queue>> /\ worker'.item = worker.item
        BY <1>t, <1>2 DEF CheckRoom, Park, Woken, TimedOut, Tick, WorkerType
    <2> QED BY <2>1, BurstAside
<1>3. CASE Drain \/ connect_with_transport \/ Disconnect \/ DropService \/ UNCHANGED vars
    BY <1>3, BurstAside DEF Drain, connect_with_transport, Disconnect, DropService, vars
<1>4. ASSUME NEW c \in 1 .. MaxConns, HearStatus(c) PROVE BurstInv'
    BY <1>4, BurstAside DEF HearStatus
<1> QED BY <1>1, <1>2, <1>3, <1>4, BurstEnqueue, BurstRecv, BurstSend DEF Next, WorkerStep

\* send_voice tells its caller what happened: the ids it returns are of the
\* frames sent, Ok means all of them, and after an error none of its frames
\* is on its way.
THEOREM BurstCorrect == Spec => []BurstToldTruth
<1>1. Init => HandInv /\ BurstInv
    <2>1. ASSUME Init PROVE BurstInv
        <3>1. \A c : Handled(c) = {} /\ Sent(c) = {} /\ InQueue(c) = {} /\ ~InHand(c)
            BY <2>1 DEF Init, Handled, Sent, InQueue, InHand, Resting
        <3>2. \A c \in Bursts : caller[c] = [pc |-> "ready", queued |-> 0, ids |-> 0]
            BY <2>1 DEF Init, Callers
        <3>3. log \in Seq(Entry)
            BY <2>1, EmptySeq DEF Init
        <3>4. Cardinality({}) = 0
            BY FS_EmptySet
        <3>5. \A c \in Bursts : Books(c) /\ OneUnderWay(c)
            BY <3>1, <3>2, <3>4 DEF Books, OneUnderWay
        <3> QED BY <3>3, <3>5 DEF BurstInv
    <2>2. Init => HandInv
        BY DEF Init, HandInv, Resting
    <2> QED BY <2>1, <2>2
<1>2. TypeOK => StateOK
    BY TypeParts
<1>3. TypeOK /\ HandInv /\ BurstInv /\ [Next]_vars => HandInv' /\ BurstInv'
    BY <1>2, HandStep, BurstStep
<1>4. TypeOK /\ BurstInv => BurstToldTruth
    <2>1. ASSUME StateOK, BurstInv, NEW c \in Bursts
          PROVE  /\ caller[c].ids = Cardinality(Sent(c))
                 /\ caller[c].pc = "done" => caller[c].ids = Count[c]
                 /\ caller[c].pc = "failed" =>
                      /\ Cardinality(Handled(c)) = caller[c].queued
                      /\ Max(Handled(c)) \notin Sent(c)
        <3>1. Books(c) /\ caller[c].ids \in Nat
            BY <2>1 DEF BurstInv, StateOK, CallerType, Callers
        <3>2. Cardinality(Handled(c)) \in Nat
            BY <2>1, HandledFinite DEF BurstInv
        <3> QED BY <3>1, <3>2 DEF Books
    <2> QED BY <1>2, <2>1 DEF BurstToldTruth
<1> QED BY <1>1, <1>3, <1>4, TypeCorrect, PTL DEF Spec

=============================================================================
