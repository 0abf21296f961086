-------------------------- MODULE OutgoingRegistry --------------------------
(***************************************************************************)
(* The sender's cache of wire frames that NACKs may ask for again          *)
(* (voice/outgoing.rs): the methods of OutgoingVoiceRegistry as operators  *)
(* on its map.  Each takes the registry's lock once, so each is one value  *)
(* of the map in and one out.                                              *)
(*                                                                         *)
(* Time is abstracted to the two comparisons the methods make with it:     *)
(* `cooling` holds while now < cooldown_until, `expired` from retain_ttl   *)
(* after registration on.  Frames are their chunk indices.                 *)
(***************************************************************************)
EXTENDS Integers, FiniteSets

CONSTANTS
    Messages,       \* message ids
    DataChunks,     \* total_data of every message
    MaxRetransmits  \* MAX_RETRANSMITS_PER_MESSAGE

ASSUME RegistryAssumption == DataChunks \in Nat \ {0} /\ MaxRetransmits \in Nat

Chunks == 0 .. (DataChunks - 1)

\* Option::None of a missing list; a NACK's own list is never empty.
NoList == {}

EntryType ==
    [pending : SUBSET Chunks, retransmits : 0 .. MaxRetransmits,
     cooling : BOOLEAN, expired : BOOLEAN,
     deferred : SUBSET Chunks, wake_up : BOOLEAN]

Put(reg, m, e) == [x \in DOMAIN reg \cup {m} |-> IF x = m THEN e ELSE reg[x]]

remove(reg, m) == [x \in DOMAIN reg \ {m} |-> reg[x]]

prune_expired(reg) == [x \in { x \in DOMAIN reg : ~reg[x].expired } |-> reg[x]]

\* Every DATA index is pending until the initial burst has sent it.
register(reg, m) ==
    Put(prune_expired(reg), m,
        [pending |-> Chunks, retransmits |-> 0, cooling |-> FALSE,
         expired |-> FALSE, deferred |-> NoList, wake_up |-> FALSE])

\* mark_chunk_sent for each of a set of chunks.
mark_chunk_sent(reg, m, chunks) ==
    IF m \in DOMAIN reg THEN [reg EXCEPT ![m].pending = @ \ chunks] ELSE reg

\* The requested chunks that are not in flight already.
frames_for(e, missing) == (missing \cap Chunks) \ e.pending

\* A slip: no budget.
TakeOutcome_NoBudget(reg, m, missing) ==
    IF m \notin DOMAIN reg \/ reg[m].expired THEN "TtlExpired"
    ELSE IF reg[m].cooling THEN "CooldownActive"
    ELSE IF frames_for(reg[m], missing) = {} THEN "AllChunksPending"
    ELSE "Ok"

TakeOutcome(reg, m, missing) ==
    IF m \notin DOMAIN reg \/ reg[m].expired THEN "TtlExpired"
    ELSE IF reg[m].retransmits >= MaxRetransmits THEN "BudgetExhausted"
    ELSE IF reg[m].cooling THEN "CooldownActive"
    ELSE IF frames_for(reg[m], missing) = {} THEN "AllChunksPending"
    ELSE "Ok"

take_retransmit(reg, m, missing) ==
    LET outcome == TakeOutcome(reg, m, missing)
    IN  IF outcome = "TtlExpired" THEN remove(reg, m)
        ELSE IF outcome = "Ok"
          THEN [reg EXCEPT ![m].pending = @ \cup frames_for(reg[m], missing),
                           ![m].retransmits = @ + 1, ![m].cooling = TRUE]
          ELSE reg

DeferOutcome(reg, m) ==
    IF m \notin DOMAIN reg THEN "Gone"
    ELSE IF ~reg[m].cooling THEN "CooldownElapsed"
    ELSE IF reg[m].wake_up THEN "AlreadyScheduled"
    ELSE "Scheduled"

\* The newer list replaces the older one.
defer_nack(reg, m, missing) ==
    IF DeferOutcome(reg, m) \in {"AlreadyScheduled", "Scheduled"}
      THEN [reg EXCEPT ![m].deferred = missing, ![m].wake_up = TRUE]
      ELSE reg

take_deferred(reg, m) ==
    IF m \in DOMAIN reg
      THEN [reg EXCEPT ![m].deferred = NoList, ![m].wake_up = FALSE]
      ELSE reg
=============================================================================
