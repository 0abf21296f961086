------------------------------ MODULE MCChatLog ------------------------------
(* The chat log with two typed texts, two senders that use one message id,   *)
(* and one clip; each budget gives one kind of traffic the most room.        *)
EXTENDS ChatLog

CONSTANTS n1, n2

TwoSounds == {[from |-> n1, id |-> 7, codec |-> "AmrNb"], [from |-> n2, id |-> 7, codec |-> "Opus"]}

Budget(texts, answers, heard, frames, forgets, takes) ==
    [texts |-> texts, answers |-> answers, heard |-> heard,
     frames |-> frames, forgets |-> forgets, takes |-> takes]

Mixed == {Budget(2, 4, 2, 0, 0, 0), Budget(2, 2, 1, 1, 0, 0),
          Budget(0, 0, 2, 6, 2, 0), Budget(0, 0, 1, 2, 1, 1), Budget(1, 1, 0, 1, 0, 1)}
==============================================================================
