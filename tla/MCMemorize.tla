----------------------------- MODULE MCMemorize -----------------------------
(* Instances of Memorize: the messages of one group, with their clocks. *)
EXTENDS Memorize

\* The clock of the first message's client is ahead, the others' are right.
Stamps == [r \in 1..Messages |-> IF r = 1 THEN 3 ELSE r]

\* The last message comes when nothing is in flight and nothing has failed: it
\* is there to see what the ones before it leave behind.
LastAlone ==
    worker[Messages].pc = "idle" /\ worker'[Messages].pc # "idle" => InFlight = {} /\ mishaps = 0
=============================================================================
