----------------------------- MODULE MCEventStore -----------------------------
(* Instances of EventStore for TLC: a stream, and one whose end evicts it.   *)
EXTENDS EventStore

CONSTANTS stream, other

MCSessions == {stream, other}

MCMaxTurns == [s \in MCSessions |-> IF s = stream THEN 1 ELSE 0]

MCMaxEvents == [s \in MCSessions |-> IF s = stream THEN 3 ELSE 1]

===============================================================================
