----------------------------- MODULE SettledOnce -----------------------------
(***************************************************************************)
(* What the assembler promises about whole messages, without chunks, caps  *)
(* or timers (voice/assembler/mod.rs, config.rs completion_memory): a key  *)
(* is open, settled or unknown.  A message is handed to the player only    *)
(* when its key settles; a settled key does not open again until its time  *)
(* in memory is over, or until Capacity later keys have displaced it.      *)
(***************************************************************************)
EXTENDS Integers, FiniteSets

CONSTANTS
    Memory,    \* how long a settled key is remembered at least
    Capacity   \* how many settled keys are remembered at most

VARIABLES
    now,
    open,      \* the keys being assembled
    settled,   \* remembered key -> when it settled
    handed     \* the keys whose message the last step handed out

vars == <<now, open, settled, handed>>

Init ==
    /\ open = {} /\ handed = {}
    /\ settled = [k \in {} |-> 0]

\* Any number of keys may settle in a step, opened in that very step or
\* earlier; every remembered key keeps its time or is forgotten for age or
\* for room, oldest first.
Assemble ==
    LET closed == (open \ open') \cup handed'
        opened == (open' \cup closed) \ open
        aged == { k \in DOMAIN settled : now - settled[k] >= Memory }
        since(k) == IF k \in closed THEN now ELSE settled[k]
        lost == (DOMAIN settled \cup closed) \ DOMAIN settled'
    IN  /\ opened \cap DOMAIN settled \subseteq aged
        /\ open' \cap closed = {}
        /\ DOMAIN settled' \subseteq DOMAIN settled \cup closed
        /\ \A k \in DOMAIN settled' : settled'[k] = since(k)
        /\ \A k \in lost :
              \/ k \in aged \ closed
              \/ /\ Cardinality(DOMAIN settled') = Capacity
                 /\ \A j \in DOMAIN settled' : since(k) <= since(j)
        /\ now' = now

TimePasses ==
    /\ now' >= now
    /\ handed' = {}
    /\ UNCHANGED <<open, settled>>

Next == Assemble \/ TimePasses

Spec == Init /\ [][Next]_vars
=============================================================================
