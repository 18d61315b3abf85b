------------------------------- MODULE OneKey -------------------------------
(***************************************************************************)
(* The smallest pool: one key with two slots per window, any request.      *)
(***************************************************************************)
EXTENDS Dispatcher

OneLane == {1}
OneProvider == [l \in OneLane |-> "a"]
OneProtocol == [l \in OneLane |-> "openai"]
OneRpm == [l \in OneLane |-> 2]
OneWeight == [s \in {"s"} |-> [l \in OneLane |-> 1]]
OneWants == {NoWant}
LongBackoffs == {1, 3}

=============================================================================
