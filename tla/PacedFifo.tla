----------------------------- MODULE PacedFifo -----------------------------
(***************************************************************************)
(* What the voice transmit queue promises whoever hands it a frame: frames *)
(* are handled one at a time in the order they were taken in, each exactly *)
(* once, sent or failed, and as long as the service lives none waits for   *)
(* ever, however silent the radio is.                                      *)
(***************************************************************************)
EXTENDS Sequences

CONSTANT Frame

VARIABLES line,     \* taken in and not handled yet
          log,      \* handled, with the outcome
          closed    \* the service is gone

avars == <<line, log, closed>>

AInit == line = <<>> /\ log = <<>> /\ closed = FALSE

Take(f) ==
    /\ ~closed
    /\ line' = Append(line, f)
    /\ UNCHANGED <<log, closed>>

Handle ==
    /\ line # <<>>
    /\ \E ok \in BOOLEAN : log' = Append(log, [frame |-> Head(line), ok |-> ok])
    /\ line' = Tail(line)
    /\ UNCHANGED closed

Close == ~closed /\ closed' = TRUE /\ UNCHANGED <<line, log>>

\* Frames that wait when the service goes are dropped with it.
Drop == closed /\ line # <<>> /\ line' = <<>> /\ UNCHANGED <<log, closed>>

ANext == (\E f \in Frame : Take(f)) \/ Handle \/ Close \/ Drop

ASpec == AInit /\ [][ANext]_avars /\ WF_avars(Handle \/ Drop)

=============================================================================
