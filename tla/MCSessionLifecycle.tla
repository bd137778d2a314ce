-------------------------- MODULE MCSessionLifecycle --------------------------
(* Instances of SessionLifecycle for TLC.                                    *)
EXTENDS SessionLifecycle, TLC

(* The requests other than the creating one, and the agents, are            *)
(* interchangeable; sound for the runs that check safety only.              *)
Symmetry == Permutations(Requests \ {Creator}) \cup Permutations(Agents)

===============================================================================
