------------------------------ MODULE VoiceTx ------------------------------
(***************************************************************************)
(* The sans-IO sender of one voice burst (voicetastic-core/src/voice/      *)
(* tx_state.rs, with the policy of tx_policy.rs): next_action tells its    *)
(* driver to send the next frame, to wait and ask again, or that it is     *)
(* done.  Times are ages: how long ago the last frame was handed out, and  *)
(* since when the radio's queue has been seen full.                        *)
(***************************************************************************)
EXTENDS Integers, Sequences

CONSTANTS
    Never,                    \* Option::None of an age
    RADIO_QUEUE_LOW_WATER,
    RADIO_QUEUE_WAIT_TIMEOUT,
    QUEUE_RECHECK

\* VoiceTx::new
NewTx(frames, pace) ==
    [queue |-> frames, pace |-> pace, since_send |-> Never, blocked |-> Never]

\* tx_policy
pacing_delay(elapsed, pace) ==
    IF elapsed # Never /\ elapsed < pace THEN pace - elapsed ELSE 0
queue_has_room(free) == free > RADIO_QUEUE_LOW_WATER

\* VoiceTx as it is once time has passed.
Older(age, d) == IF age = Never THEN Never ELSE age + d
Passed(tx, d) ==
    [tx EXCEPT !.since_send = IF @ = Never \/ @ + d > tx.pace THEN
                                  IF @ = Never THEN Never ELSE tx.pace
                              ELSE @ + d,
               !.blocked = Older(@, d)]

Wait(tx, d) == [kind |-> "Wait", for |-> d, tx |-> tx]
Send(tx) ==
    [kind |-> "Send", frame |-> Head(tx.queue),
     tx |-> [tx EXCEPT !.queue = Tail(@), !.since_send = 0, !.blocked = Never]]

\* A slip: a full queue has no limit.
next_action_NoLimit(tx, free) ==
    CASE tx.queue = <<>> -> [kind |-> "Done", tx |-> tx]
      [] pacing_delay(tx.since_send, tx.pace) # 0 ->
            Wait(tx, pacing_delay(tx.since_send, tx.pace))
      [] ~queue_has_room(free) -> Wait(tx, QUEUE_RECHECK)
      [] OTHER -> Send(tx)

\* VoiceTx::next_action
next_action(tx, free) ==
    LET blocked == IF tx.blocked = Never THEN 0 ELSE tx.blocked
    IN  CASE tx.queue = <<>> -> [kind |-> "Done", tx |-> tx]
          [] pacing_delay(tx.since_send, tx.pace) # 0 ->
                Wait(tx, pacing_delay(tx.since_send, tx.pace))
          [] ~queue_has_room(free) /\ blocked < RADIO_QUEUE_WAIT_TIMEOUT ->
                Wait([tx EXCEPT !.blocked = blocked], QUEUE_RECHECK)
          [] OTHER -> Send(tx)
=============================================================================
