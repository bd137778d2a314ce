------------------------------- MODULE AuditLog -------------------------------
(***************************************************************************)
(* What the audit package promises for one session (hashchain.go:14-28): a *)
(* log to which every writer adds its event at most once, in which an      *)
(* answered event stays where it is, and which retention drops only whole. *)
(***************************************************************************)
EXTENDS Sequences

CONSTANT Writers       (* each of them appends one event, named after it     *)

VARIABLES log,         (* the session's events, oldest first                 *)
          answer       (* what each writer knows of its event                *)

Init == log = <<>> /\ answer = [w \in Writers |-> "pending"]

Store(w) ==
  /\ answer[w] = "pending"
  /\ answer' = [answer EXCEPT ![w] = "stored"]
  /\ log' = Append(log, w)

(* A process that stops leaves all its calls in progress refused at once.   *)
Refuse(ws) ==
  /\ \A w \in ws : answer[w] = "pending"
  /\ answer' = [w \in Writers |-> IF w \in ws THEN "refused" ELSE answer[w]]
  /\ log' = log

Purge == log # <<>> /\ log' = <<>> /\ answer' = answer

Next == Purge \/ (\E w \in Writers : Store(w)) \/ (\E ws \in SUBSET Writers : Refuse(ws))

Spec == Init /\ [][Next]_<<log, answer>>

===============================================================================
