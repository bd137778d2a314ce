---------------------------- MODULE MCCompositions ----------------------------
(* A small instance of Compositions for TLC: one session, its owner, and     *)
(* stages that are posted untouched.                                         *)
EXTENDS Compositions, TLC

CONSTANTS session, owner, result

Untouched == [input |-> Blank, output |-> Blank, approved |-> FALSE, completed |-> FALSE]

MCBodies == {<<Untouched>>, <<Untouched, Untouched>>}

MCOwner == session :> owner

===============================================================================
