---------------------------- MODULE AdmissionProofs ----------------------------
(* The admission of sessions for any callers, administrators, targets and     *)
(* faults: the kill switch, what it holds back, and what the audit log says;  *)
(* and the Orchestrator's own intake, which routes prompts to specialists.    *)
EXTENDS Admission, SpecialistRouting, TLAPS

Switch == [op : {"block", "unblock"}, target : Targets, alone : BOOLEAN, at : {"row", "copy"}]

Busy(a) == admin[a] # NoChange

-----------------------------------------------------------------------------
(* The switch.  An administrator who is alone on a target knows its row; one  *)
(* who is not has the target among the raced.                                 *)
SwitchInv ==
    /\ admin \in [Admins -> {NoChange} \cup Switch]
    /\ \A a, b \in Admins :
          Busy(a) /\ Busy(b) /\ a # b /\ admin[a].target = admin[b].target => ~ admin[a].alone
    /\ \A a \in Admins : Busy(a) /\ ~ admin[a].alone => admin[a].target \in raced
    /\ setup.durable =>
          \A a \in Admins : Busy(a) =>
             /\ admin[a].at = "copy" /\ admin[a].alone =>
                   (admin[a].target \in rows <=> admin[a].op = "block")
             /\ admin[a].at = "row" /\ admin[a].target \notin raced =>
                   (admin[a].target \in rows <=> admin[a].target \in copy)
    /\ SwitchesAgree

LEMMA InitSwitchInv == Init => SwitchInv
  BY DEF Init, SwitchInv, Busy, SwitchesAgree, InProgress

LEMMA SwitchUntouched ==
  ASSUME SwitchInv, UNCHANGED <<setup, rows, copy, admin, raced>>
  PROVE  SwitchInv'
  BY DEF SwitchInv, Busy, SwitchesAgree, InProgress

LEMMA StartKeepsSwitch ==
  ASSUME NoChange \notin Switch, SwitchInv, NEW a \in Admins, SwitchStarts(a)
  PROVE  SwitchInv'
<1>1. PICK op \in {"block", "unblock"}, t \in Targets :
        /\ admin' = [b \in Admins |->
             IF b = a THEN [op |-> op, target |-> t, alone |-> InProgress(t) = {},
                            at |-> IF setup.durable THEN "row" ELSE "copy"]
             ELSE IF b \in InProgress(t) THEN [admin[b] EXCEPT !.alone = FALSE]
             ELSE admin[b]]
        /\ raced' = IF InProgress(t) = {} THEN raced ELSE raced \cup {t}
  BY DEF SwitchStarts
<1>2. ~ Busy(a) /\ UNCHANGED <<setup, rows, copy>>
  BY DEF SwitchStarts, Busy
<1>3. admin'[a] \in Switch /\ Busy(a)' /\ admin'[a].target = t /\ admin'[a].op = op
      /\ (admin'[a].alone <=> InProgress(t) = {})
      /\ (setup.durable => admin'[a].at = "row")
  <2> DEFINE alone == InProgress(t) = {}
             at == IF setup.durable THEN "row" ELSE "copy"
  <2>1. admin'[a] = [op |-> op, target |-> t, alone |-> alone, at |-> at]
    BY <1>1
  <2>2. alone \in BOOLEAN /\ at \in {"row", "copy"} /\ (setup.durable => at = "row")
    OBVIOUS
  <2>3. alone <=> InProgress(t) = {}
    OBVIOUS
  <2> HIDE DEF alone, at
  <2>4. admin'[a] \in Switch
    BY <2>1, <2>2 DEF Switch
  <2> QED
    BY <2>1, <2>2, <2>3, <2>4 DEF Busy
<1>4. ASSUME NEW b \in Admins, b # a
      PROVE  /\ Busy(b)' <=> Busy(b)
             /\ admin'[b] \in {NoChange} \cup Switch
             /\ Busy(b) => /\ admin'[b].target = admin[b].target /\ admin'[b].op = admin[b].op
                           /\ admin'[b].at = admin[b].at
                           /\ admin'[b].alone <=> admin[b].alone /\ admin[b].target # t
  <2>1. admin[b] \in {NoChange} \cup Switch
    BY DEF SwitchInv
  <2>2. CASE b \in InProgress(t)
    <3>1. admin[b] \in Switch /\ admin[b].target = t /\ Busy(b)
      BY <2>1, <2>2 DEF InProgress, Busy
    <3>2. admin'[b] = [admin[b] EXCEPT !.alone = FALSE]
      BY <1>1, <1>4, <2>2
    <3>3. admin'[b] \in Switch /\ ~ admin'[b].alone
      BY <3>1, <3>2 DEF Switch
    <3> QED
      BY <3>1, <3>2, <3>3 DEF Switch, Busy
  <2>3. CASE b \notin InProgress(t)
    <3>1. admin'[b] = admin[b]
      BY <1>1, <1>4, <2>3
    <3>2. Busy(b) => admin[b].target # t
      BY <2>3 DEF InProgress, Busy
    <3> QED
      BY <2>1, <3>1, <3>2 DEF Busy
  <2> QED
    BY <2>2, <2>3
<1>5. admin' \in [Admins -> {NoChange} \cup Switch]
  <2>1. \A b \in Admins : admin'[b] \in {NoChange} \cup Switch
    BY <1>3, <1>4
  <2> QED
    BY <1>1, <2>1
<1>6. InProgress(t) = {} => \A b \in Admins : Busy(b) => admin[b].target # t
  BY DEF InProgress, Busy
<1>7. ASSUME NEW b \in Admins, NEW c \in Admins, Busy(b)', Busy(c)', b # c,
             admin'[b].target = admin'[c].target
      PROVE  ~ admin'[b].alone
  <2>1. CASE b = a
    BY <1>3, <1>4, <1>6, <1>7, <2>1
  <2>2. CASE c = a
    BY <1>3, <1>4, <1>7, <2>2
  <2>3. CASE b # a /\ c # a
    <3>1. ~ admin[b].alone
      BY <1>4, <1>7, <2>3 DEF SwitchInv
    <3> QED
      BY <1>4, <1>7, <2>3, <3>1
  <2> QED
    BY <2>1, <2>2, <2>3
<1>8. ASSUME NEW b \in Admins, Busy(b)', ~ admin'[b].alone PROVE admin'[b].target \in raced'
  <2>1. CASE b = a
    BY <1>1, <1>3, <1>8, <2>1
  <2>2. CASE b # a /\ admin[b].target = t
    <3>1. Busy(b) /\ admin'[b].target = t
      BY <1>4, <1>8, <2>2
    <3>2. b \in InProgress(t)
      BY <2>2, <3>1 DEF InProgress, Busy
    <3> QED
      BY <1>1, <3>1, <3>2
  <2>3. CASE b # a /\ admin[b].target # t
    <3>1. Busy(b) /\ ~ admin[b].alone /\ admin'[b].target = admin[b].target
      BY <1>4, <1>8, <2>3
    <3> QED
      BY <1>1, <3>1 DEF SwitchInv
  <2> QED
    BY <2>1, <2>2, <2>3
<1>9. ASSUME setup.durable, NEW b \in Admins, Busy(b)'
      PROVE  /\ admin'[b].at = "copy" /\ admin'[b].alone =>
                   (admin'[b].target \in rows <=> admin'[b].op = "block")
             /\ admin'[b].at = "row" /\ admin'[b].target \notin raced' =>
                   (admin'[b].target \in rows <=> admin'[b].target \in copy)
  <2>1. CASE b = a
    <3>1. t \notin raced' => t \notin raced /\ InProgress(t) = {}
      BY <1>1
    <3>2. t \notin raced' => (t \in rows <=> t \in copy)
      BY <1>9, <3>1 DEF SwitchInv, SwitchesAgree
    <3> QED
      BY <1>3, <1>9, <2>1, <3>2
  <2>2. CASE b # a
    <3>1. raced \subseteq raced'
      BY <1>1
    <3>2. Busy(b) /\ (admin'[b].alone => admin[b].alone)
      BY <1>4, <1>9, <2>2
    <3> QED
      BY <1>4, <1>9, <2>2, <3>1, <3>2 DEF SwitchInv
  <2> QED
    BY <2>1, <2>2
<1>10. SwitchesAgree'
  <2> SUFFICES ASSUME setup.durable, NEW u \in Targets \ raced', InProgress(u)' = {}
               PROVE  u \in rows <=> u \in copy
    BY <1>2 DEF SwitchesAgree
  <2>1. u # t
    BY <1>3 DEF InProgress, Busy
  <2>2. u \notin raced
    BY <1>1
  <2>3. InProgress(u) = {}
    <3> SUFFICES ASSUME NEW b \in Admins, Busy(b), admin[b].target = u PROVE FALSE
      BY DEF InProgress, Busy
    <3>1. b # a
      BY <1>2
    <3>2. b \in InProgress(u)'
      BY <1>4, <3>1 DEF InProgress, Busy
    <3> QED
      BY <3>2
  <2> QED
    BY <2>2, <2>3 DEF SwitchInv, SwitchesAgree
<1> QED
  BY <1>2, <1>5, <1>7, <1>8, <1>9, <1>10 DEF SwitchInv

(* A request that ends, or goes on to the copy, leaves the others as they are. *)
LEMMA RowKeepsSwitch ==
  ASSUME NoChange \notin Switch, SwitchInv, NEW a \in Admins, SwitchRow(a)
  PROVE  SwitchInv'
<1>1. /\ Busy(a) /\ admin[a].at = "row" /\ admin[a] \in Switch
      /\ UNCHANGED <<setup, copy, raced>>
  BY DEF SwitchRow, Busy, SwitchInv
<1>2. CASE rows' = Change(rows, a) /\ admin' = [admin EXCEPT ![a] = [@ EXCEPT !.at = "copy"]]
  <2> DEFINE t == admin[a].target
  <2>1. /\ admin' \in [Admins -> {NoChange} \cup Switch]
        /\ \A b \in Admins : b # a => admin'[b] = admin[b]
        /\ admin'[a] = [admin[a] EXCEPT !.at = "copy"]
    BY <1>1, <1>2 DEF SwitchInv, Switch
  <2>2. /\ Busy(a)' /\ admin'[a].target = t /\ admin'[a].op = admin[a].op
        /\ (admin'[a].alone <=> admin[a].alone) /\ admin'[a].at = "copy"
    BY <1>1, <2>1 DEF Switch, Busy
  <2>3. \A u : u # t => (u \in rows' <=> u \in rows)
    BY <1>2 DEF Change
  <2>4. t \in rows' <=> admin[a].op = "block"
    BY <1>1, <1>2 DEF Change, Switch
  <2>5. \A b \in Admins : b # a /\ Busy(b) /\ admin[b].target = t =>
           ~ admin[b].alone /\ t \in raced
    BY <1>1 DEF SwitchInv
  <2>6. SwitchesAgree'
    <3> SUFFICES ASSUME setup.durable, NEW u \in Targets \ raced, InProgress(u)' = {}
                 PROVE  u \in rows' <=> u \in copy
      BY <1>1 DEF SwitchesAgree
    <3>1. u # t
      BY <2>2 DEF InProgress, Busy
    <3>2. InProgress(u) = {}
      BY <2>1, <2>2, <3>1 DEF InProgress, Busy
    <3> QED
      BY <2>3, <3>1, <3>2 DEF SwitchInv, SwitchesAgree
  <2> HIDE DEF t
  <2>7. ASSUME setup.durable, NEW b \in Admins, Busy(b)'
        PROVE  /\ admin'[b].at = "copy" /\ admin'[b].alone =>
                     (admin'[b].target \in rows' <=> admin'[b].op = "block")
               /\ admin'[b].at = "row" /\ admin'[b].target \notin raced =>
                     (admin'[b].target \in rows' <=> admin'[b].target \in copy)
    <3>1. CASE b = a
      BY <2>2, <2>4, <3>1
    <3>2. CASE b # a
      <4>1. admin'[b] = admin[b] /\ Busy(b)
        BY <2>1, <2>7, <3>2 DEF Busy
      <4> QED
        BY <2>3, <2>5, <2>7, <3>2, <4>1 DEF SwitchInv
    <3> QED
      BY <3>1, <3>2
  <2>8. ASSUME NEW b \in Admins PROVE Busy(b)' <=> Busy(b)
    BY <1>1, <2>1, <2>2 DEF Busy
  <2>9. ASSUME NEW b \in Admins, Busy(b)
        PROVE  admin'[b].target = admin[b].target /\ (admin'[b].alone <=> admin[b].alone)
    BY <2>1, <2>2 DEF t
  <2> QED
    BY <1>1, <2>1, <2>6, <2>7, <2>8, <2>9 DEF SwitchInv
<1>3. CASE rows' = rows /\ admin' = [admin EXCEPT ![a] = NoChange]
  <2>1. /\ admin' \in [Admins -> {NoChange} \cup Switch] /\ ~ Busy(a)'
        /\ \A b \in Admins : b # a => admin'[b] = admin[b]
    BY <1>3 DEF SwitchInv, Busy
  <2>2. SwitchesAgree'
    <3> SUFFICES ASSUME setup.durable, NEW u \in Targets \ raced, InProgress(u)' = {}
                 PROVE  u \in rows <=> u \in copy
      BY <1>1, <1>3 DEF SwitchesAgree
    <3>1. CASE u = admin[a].target
      BY <1>1, <3>1 DEF SwitchInv
    <3>2. CASE u # admin[a].target
      <4>1. InProgress(u) = {}
        BY <2>1, <3>2 DEF InProgress, Busy
      <4> QED
        BY <4>1 DEF SwitchInv, SwitchesAgree
    <3> QED
      BY <3>1, <3>2
  <2> QED
    BY <1>1, <1>3, <2>1, <2>2 DEF SwitchInv, Busy
<1> QED
  BY <1>2, <1>3 DEF SwitchRow

LEMMA CopyKeepsSwitch ==
  ASSUME NoChange \notin Switch, SwitchInv, NEW a \in Admins, SwitchCopy(a)
  PROVE  SwitchInv'
<1> DEFINE t == admin[a].target
<1>1. /\ Busy(a) /\ admin[a].at = "copy" /\ admin[a] \in Switch
      /\ UNCHANGED <<setup, rows>>
      /\ copy' = Change(copy, a)
      /\ raced' = IF admin[a].alone THEN raced \ {t} ELSE raced
  BY DEF SwitchCopy, Busy, SwitchInv
<1>2. /\ admin' \in [Admins -> {NoChange} \cup Switch] /\ ~ Busy(a)'
      /\ \A b \in Admins : b # a => admin'[b] = admin[b]
  BY DEF SwitchCopy, SwitchInv, Busy
<1>3. \A u : u # t => (u \in copy' <=> u \in copy) /\ (u \in raced' <=> u \in raced)
  BY <1>1 DEF Change
<1>4. t \in copy' <=> admin[a].op = "block"
  BY <1>1 DEF Change, Switch
<1>5. \A b \in Admins : b # a /\ Busy(b) /\ admin[b].target = t =>
         ~ admin[a].alone /\ ~ admin[b].alone /\ t \in raced /\ raced' = raced
  BY <1>1 DEF SwitchInv
<1> HIDE DEF t
<1>6. SwitchesAgree'
  <2> SUFFICES ASSUME setup.durable, NEW u \in Targets \ raced', InProgress(u)' = {}
               PROVE  u \in rows <=> u \in copy'
    BY <1>1 DEF SwitchesAgree
  <2>1. CASE u = t
    <3>1. admin[a].alone
      BY <1>1, <2>1 DEF SwitchInv, t
    <3>2. t \in rows <=> admin[a].op = "block"
      BY <1>1, <3>1 DEF SwitchInv, t
    <3> QED
      BY <1>4, <2>1, <3>2
  <2>2. CASE u # t
    <3>1. InProgress(u) = {}
      BY <1>2, <2>2 DEF InProgress, Busy, t
    <3> QED
      BY <1>3, <2>2, <3>1 DEF SwitchInv, SwitchesAgree
  <2> QED
    BY <2>1, <2>2
<1>7. ASSUME NEW b \in Admins, Busy(b)'
      PROVE  b # a /\ Busy(b) /\ admin'[b] = admin[b]
  BY <1>2, <1>7 DEF Busy
<1>8. ASSUME NEW b \in Admins, Busy(b)', ~ admin'[b].alone PROVE admin'[b].target \in raced'
  BY <1>3, <1>5, <1>7, <1>8 DEF SwitchInv
<1>9. ASSUME setup.durable, NEW b \in Admins, Busy(b)',
             admin'[b].at = "row", admin'[b].target \notin raced'
      PROVE  admin'[b].target \in rows <=> admin'[b].target \in copy'
  <2>1. admin[b].target # t
    BY <1>5, <1>7, <1>9
  <2> QED
    BY <1>3, <1>7, <1>9, <2>1 DEF SwitchInv
<1> QED
  BY <1>1, <1>2, <1>6, <1>7, <1>8, <1>9 DEF SwitchInv

LEMMA NextSwitchInv ==
  ASSUME NoChange \notin Switch, SwitchInv, [Next]_admitVars
  PROVE  SwitchInv'
<1>1. ASSUME NEW c \in Callers,
             \/ Arrive(c) \/ Authorize(c) \/ CheckGlobal(c) \/ CheckRequest(c) \/ CheckAgent(c)
             \/ EvaluatePolicy(c) \/ Deny(c) \/ AuditCreated(c) \/ CreateRow(c)
      PROVE  SwitchInv'
  BY <1>1, SwitchUntouched
     DEF Arrive, Authorize, CheckGlobal, CheckRequest, CheckAgent, EvaluatePolicy, Deny,
         AuditCreated, CreateRow, Gate, switchVars
<1>2. CASE Restart
  BY <1>2 DEF Restart, Load, SwitchInv, Busy, SwitchesAgree, InProgress
<1>3. CASE UNCHANGED admitVars
  BY <1>3, SwitchUntouched DEF admitVars, switchVars
<1> QED
  BY <1>1, <1>2, <1>3, StartKeepsSwitch, RowKeepsSwitch, CopyKeepsSwitch DEF Next

(* The switch that the gates read is the one in the database whenever nobody   *)
(* is changing it and no two administrators changed it together                *)
(* (SQLiteKillSwitch.Block, Unblock and load).                                 *)
THEOREM SwitchesAlwaysAgree ==
  ASSUME NoChange \notin Switch
  PROVE  Spec => []SwitchesAgree
<1>1. SwitchInv => SwitchesAgree
  BY DEF SwitchInv
<1>2. SwitchInv /\ [Next]_admitVars => SwitchInv'
  BY NextSwitchInv
<1> QED
  BY <1>1, <1>2, InitSwitchInv, PTL DEF Spec
-----------------------------------------------------------------------------
(* The records.  What the log holds of one caller, by where the caller is.     *)

Open == {"idle", "authorize", "global", "request", "agent", "policy", "deny", "audit"}
Refusals == {"locked", "forbidden", "payment", "precondition", "unauthorized", "unavailable"}
Denied == Refusals \cup {"invalid"}

Request == [at : Open \cup {"store", "done", "lost"}, kind : {"session", "auto"},
            flaws : SUBSET STRING,
            code : Refusals \cup {"none", "invalid", "error", "created"},
            barred : SUBSET Targets]

Told(q, n, made, kept) ==
    /\ q.at \in Open => ~ made /\ ~ kept /\ n = 0
    /\ q.at = "deny" => q.code \in Denied
    /\ q.at = "store" => made /\ ~ kept /\ n = 0
    /\ kept => made
    /\ made => n = 0
    /\ q.at = "done" /\ q.kind = "session" =>
          IF q.code = "created" THEN kept
          ELSE IF q.code \in Refusals THEN n = 1
          ELSE ~ kept /\ n <= 1

LogInv ==
    /\ caller \in [Callers -> Request] /\ held \subseteq Targets
    /\ denials \in [Callers -> Nat]
    /\ created \subseteq Callers /\ stored \subseteq Callers
    /\ \A c \in Callers : Told(caller[c], denials[c], c \in created, c \in stored)

AsksAssumption == Asks \subseteq [kind : {"session", "auto"}, flaws : SUBSET STRING]

LEMMA InvLogged == LogInv => AnswerIsLogged
<1> SUFFICES ASSUME LogInv PROVE AnswerIsLogged
  OBVIOUS
<1>1. stored \subseteq created
  BY DEF LogInv, Told
<1>2. ASSUME NEW c \in Callers, At(c, "done"), caller[c].kind = "session"
      PROVE  CASE caller[c].code = "created" -> c \in stored
               [] caller[c].code \in Refusals -> denials[c] = 1
               [] OTHER -> c \notin stored /\ denials[c] <= 1
  BY <1>2 DEF LogInv, Told, At, Refusals
<1>3. \A c \in Callers : c \in created => denials[c] = 0
  BY DEF LogInv, Told
<1> QED
  BY <1>1, <1>2, <1>3 DEF AnswerIsLogged, Refusals

LEMMA InitLogInv == Init => LogInv
  BY DEF Init, LogInv, NoCaller, Told, Open, Request, Refusals, Denied

(* One caller takes a step, and the log gains at most what it tells of it.     *)
LEMMA OneMoves ==
  ASSUME LogInv, NEW c \in Callers, NEW q \in Request, NEW n \in Nat,
         caller' = [caller EXCEPT ![c] = q], denials' = [denials EXCEPT ![c] = n],
         created' \in {created, created \cup {c}}, stored' \in {stored, stored \cup {c}},
         held' = held, Told(q, n, c \in created', c \in stored')
  PROVE  LogInv'
<1>1. ASSUME NEW x \in Callers
      PROVE  Told(caller'[x], denials'[x], x \in created', x \in stored')
  <2>1. CASE x = c
    BY <2>1 DEF LogInv
  <2>2. CASE x # c
    BY <2>2 DEF LogInv
  <2> QED
    BY <2>1, <2>2
<1> QED
  BY <1>1 DEF LogInv

(* A gate only moves its caller on, or refuses it.                             *)
LEMMA GateMoves ==
  ASSUME LogInv, NEW c \in Callers, NEW step \in Open \ {"deny", "idle"}, Gate(c, step),
         \/ \E next \in Open \ {"deny", "idle"} : Goes(c, next)
         \/ \E code \in Denied : Refuses(c, code)
         \/ Answers(c, "invalid")
  PROVE  LogInv'
<1>1. /\ caller[c] \in Request /\ denials[c] \in Nat
      /\ Told(caller[c], denials[c], c \in created, c \in stored)
  BY DEF LogInv
<1>2. c \notin created /\ c \notin stored /\ denials[c] = 0
  BY <1>1 DEF Gate, At, Told
<1>3. PICK q \in Request : /\ caller' = [caller EXCEPT ![c] = q]
                           /\ \/ q.at \in Open \ {"deny"}
                              \/ q.at = "deny" /\ q.code \in Denied
                              \/ q.at = "done" /\ q.code = "invalid"
  <2>1. ASSUME NEW next \in Open \ {"deny", "idle"}, Goes(c, next)
        PROVE  \E q \in Request : caller' = [caller EXCEPT ![c] = q] /\ q.at \in Open \ {"deny"}
    <3> DEFINE q == [caller[c] EXCEPT !.at = next]
    <3>1. q \in Request /\ q.at = next
      BY <1>1 DEF Request
    <3>2. caller' = [caller EXCEPT ![c] = q]
      BY <2>1 DEF Goes
    <3> QED
      BY <3>1, <3>2
  <2>2. ASSUME NEW code \in Denied, Refuses(c, code)
        PROVE  \E q \in Request : /\ caller' = [caller EXCEPT ![c] = q]
                                  /\ q.at = "deny" /\ q.code \in Denied
    <3> DEFINE q == [caller[c] EXCEPT !.at = "deny", !.code = code]
    <3>1. q \in Request /\ q.at = "deny" /\ q.code = code
      BY <1>1 DEF Request, Open, Denied
    <3>2. caller' = [caller EXCEPT ![c] = q]
      BY <2>2 DEF Refuses
    <3> QED
      BY <3>1, <3>2
  <2>3. ASSUME Answers(c, "invalid")
        PROVE  \E q \in Request : /\ caller' = [caller EXCEPT ![c] = q]
                                  /\ q.at = "done" /\ q.code = "invalid"
    <3> DEFINE q == [caller[c] EXCEPT !.at = "done", !.code = "invalid"]
    <3>1. q \in Request /\ q.at = "done" /\ q.code = "invalid"
      BY <1>1 DEF Request
    <3>2. caller' = [caller EXCEPT ![c] = q]
      BY <2>3 DEF Answers
    <3> QED
      BY <3>1, <3>2
  <2> QED
    BY <2>1, <2>2, <2>3
<1>4. UNCHANGED <<denials, created, stored, held>>
  BY DEF Gate
<1>5. denials' = [denials EXCEPT ![c] = 0]
  BY <1>2, <1>4 DEF LogInv
<1>6. Told(q, 0, c \in created', c \in stored')
  BY <1>2, <1>3, <1>4 DEF Told, Open, Refusals, Denied
<1> QED
  BY <1>3, <1>4, <1>5, <1>6, OneMoves

LEMMA NextLogInv ==
  ASSUME AsksAssumption, LogInv, SwitchInv, [Next]_admitVars
  PROVE  LogInv'
<1> USE DEF Open, Refusals, Denied
<1>1. ASSUME NEW c \in Callers, Arrive(c) PROVE LogInv'
  <2>1. PICK ask \in Asks :
          caller' = [caller EXCEPT ![c] = [NoCaller EXCEPT !.at = "authorize", !.kind = ask.kind,
                                                           !.flaws = ask.flaws, !.barred = held]]
    BY <1>1 DEF Arrive
  <2> DEFINE q == [NoCaller EXCEPT !.at = "authorize", !.kind = ask.kind,
                                   !.flaws = ask.flaws, !.barred = held]
  <2>2. q \in Request /\ q.at = "authorize"
    BY DEF AsksAssumption, LogInv, NoCaller, Request
  <2>3. UNCHANGED <<denials, created, stored, held>> /\ caller[c].at = "idle"
    BY <1>1 DEF Arrive, Gate, At
  <2>4. c \notin created /\ c \notin stored /\ denials[c] = 0
    BY <2>3 DEF LogInv, Told
  <2>5. denials' = [denials EXCEPT ![c] = 0]
    BY <2>3, <2>4 DEF LogInv
  <2>6. Told(q, 0, c \in created', c \in stored')
    BY <2>2, <2>3, <2>4 DEF Told
  <2>7. caller' = [caller EXCEPT ![c] = q]
    BY <2>1
  <2> HIDE DEF q
  <2> QED
    BY <2>2, <2>3, <2>5, <2>6, <2>7, OneMoves
<1>2. ASSUME NEW c \in Callers,
             \/ Authorize(c) \/ CheckGlobal(c) \/ CheckRequest(c) \/ CheckAgent(c)
             \/ EvaluatePolicy(c)
      PROVE  LogInv'
  <2>1. CASE Authorize(c)
    BY <2>1, GateMoves DEF Authorize
  <2>2. CASE CheckGlobal(c)
    BY <2>2, GateMoves DEF CheckGlobal
  <2>3. CASE CheckRequest(c)
    BY <2>3, GateMoves DEF CheckRequest
  <2>4. CASE CheckAgent(c)
    BY <2>4, GateMoves DEF CheckAgent
  <2>5. CASE EvaluatePolicy(c)
    BY <2>5, GateMoves DEF EvaluatePolicy
  <2> QED
    BY <1>2, <2>1, <2>2, <2>3, <2>4, <2>5
<1>3. ASSUME NEW c \in Callers, Deny(c) PROVE LogInv'
  <2>1. PICK ok \in BOOLEAN :
          /\ denials' = IF ok THEN [denials EXCEPT ![c] = @ + 1] ELSE denials
          /\ Answers(c, IF ok \/ caller[c].kind = "auto" THEN caller[c].code ELSE "error")
    BY <1>3 DEF Deny
  <2> DEFINE code == IF ok \/ caller[c].kind = "auto" THEN caller[c].code ELSE "error"
             q == [caller[c] EXCEPT !.at = "done", !.code = code]
             n == IF ok THEN 1 ELSE 0
  <2>2. /\ caller[c] \in Request /\ caller[c].at = "deny" /\ caller[c].code \in Denied
        /\ c \notin created /\ c \notin stored /\ denials[c] = 0
    BY <1>3 DEF LogInv, Told, Deny, At
  <2>3. code \in Denied \cup {"error"}
    BY <2>2
  <2>4. q \in Request /\ q.at = "done" /\ q.code = code /\ q.kind = caller[c].kind
    BY <2>2, <2>3 DEF Request
  <2>5. caller' = [caller EXCEPT ![c] = q]
    BY <2>1 DEF Answers
  <2>6. denials' = [denials EXCEPT ![c] = n] /\ n \in {0, 1}
    <3>1. CASE ok
      BY <2>1, <2>2, <3>1
    <3>2. CASE ~ ok
      BY <2>1, <2>2, <3>2 DEF LogInv
    <3> QED
      BY <3>1, <3>2
  <2>7. UNCHANGED <<created, stored, held>>
    BY <1>3 DEF Deny
  <2>8. q.kind = "session" => (n = 1 /\ q.code \in Denied) \/ q.code = "error"
    BY <2>2, <2>4
  <2>9. Told(q, n, c \in created', c \in stored')
    BY <2>2, <2>4, <2>6, <2>7, <2>8 DEF Told
  <2> HIDE DEF q, n
  <2> QED
    BY <2>4, <2>5, <2>6, <2>7, <2>9, OneMoves
<1>4. ASSUME NEW c \in Callers, AuditCreated(c) PROVE LogInv'
  <2>1. PICK ok \in BOOLEAN :
          /\ created' = IF ok THEN created \cup {c} ELSE created
          /\ IF ok THEN Goes(c, "store") ELSE Answers(c, "error")
    BY <1>4 DEF AuditCreated
  <2>2. /\ caller[c] \in Request /\ c \notin created /\ c \notin stored /\ denials[c] = 0
    BY <1>4 DEF LogInv, Told, AuditCreated, At
  <2>3. UNCHANGED <<denials, stored, held>> /\ denials' = [denials EXCEPT ![c] = 0]
    BY <1>4, <2>2 DEF AuditCreated, LogInv
  <2>4. CASE ok
    <3> DEFINE q == [caller[c] EXCEPT !.at = "store"]
    <3>1. q \in Request /\ q.at = "store" /\ caller' = [caller EXCEPT ![c] = q]
      BY <2>1, <2>2, <2>4 DEF Request, Goes
    <3>2. Told(q, 0, c \in created', c \in stored')
      BY <2>1, <2>2, <2>3, <2>4, <3>1 DEF Told
    <3> HIDE DEF q
    <3> QED
      BY <2>1, <2>3, <3>1, <3>2, OneMoves
  <2>5. CASE ~ ok
    <3> DEFINE q == [caller[c] EXCEPT !.at = "done", !.code = "error"]
    <3>1. q \in Request /\ q.at = "done" /\ q.code = "error" /\ caller' = [caller EXCEPT ![c] = q]
      BY <2>1, <2>2, <2>5 DEF Request, Answers
    <3>2. Told(q, 0, c \in created', c \in stored')
      BY <2>1, <2>2, <2>3, <2>5, <3>1 DEF Told
    <3> HIDE DEF q
    <3> QED
      BY <2>1, <2>3, <3>1, <3>2, OneMoves
  <2> QED
    BY <2>4, <2>5
<1>5. ASSUME NEW c \in Callers, CreateRow(c) PROVE LogInv'
  <2>1. PICK ok \in BOOLEAN :
          /\ stored' = IF ok THEN stored \cup {c} ELSE stored
          /\ Answers(c, IF ok THEN "created" ELSE "error")
    BY <1>5 DEF CreateRow
  <2>2. /\ caller[c] \in Request /\ c \in created /\ c \notin stored /\ denials[c] = 0
    BY <1>5 DEF LogInv, Told, CreateRow, At
  <2>3. UNCHANGED <<denials, created, held>> /\ denials' = [denials EXCEPT ![c] = 0]
    BY <1>5, <2>2 DEF CreateRow, LogInv
  <2> DEFINE q == [caller[c] EXCEPT !.at = "done", !.code = IF ok THEN "created" ELSE "error"]
  <2>4. /\ q \in Request /\ q.at = "done" /\ q.code = IF ok THEN "created" ELSE "error"
        /\ caller' = [caller EXCEPT ![c] = q]
    BY <2>1, <2>2 DEF Request, Answers
  <2>5. Told(q, 0, c \in created', c \in stored')
    BY <2>1, <2>2, <2>3, <2>4 DEF Told
  <2> HIDE DEF q
  <2> QED
    BY <2>1, <2>3, <2>4, <2>5, OneMoves
<1>6. ASSUME NEW a \in Admins, SwitchStarts(a) PROVE LogInv'
  <2>1. UNCHANGED <<denials, created, stored>>
    BY <1>6 DEF SwitchStarts
  <2>2. PICK op \in {"block", "unblock"}, t \in Targets :
          /\ held' = IF op = "unblock" \/ InProgress(t) # {} THEN held \ {t} ELSE held
          /\ caller' = [c \in Callers |-> [caller[c] EXCEPT !.barred = IF op = "unblock" THEN @ \ {t} ELSE @]]
    BY <1>6 DEF SwitchStarts
  <2>3. ASSUME NEW c \in Callers
        PROVE  /\ caller'[c] \in Request /\ caller'[c].at = caller[c].at
               /\ caller'[c].kind = caller[c].kind /\ caller'[c].code = caller[c].code
    BY <2>2 DEF LogInv, Request
  <2>4. caller' \in [Callers -> Request]
    BY <2>2, <2>3
  <2> QED
    BY <2>1, <2>2, <2>3, <2>4 DEF LogInv, Told
<1>7. ASSUME NEW a \in Admins, SwitchRow(a) PROVE LogInv'
  BY <1>7 DEF SwitchRow, LogInv
<1>8. ASSUME NEW a \in Admins, SwitchCopy(a) PROVE LogInv'
  <2>1. held' \subseteq Targets
    BY <1>8 DEF SwitchCopy, LogInv, SwitchInv, Switch
  <2>2. UNCHANGED <<caller, denials, created, stored>>
    BY <1>8 DEF SwitchCopy
  <2> QED
    BY <2>1, <2>2 DEF LogInv
<1>9. CASE Restart
  <2>1. UNCHANGED <<denials, created, stored>> /\ held' \subseteq Targets
    BY <1>9 DEF Restart, LogInv
  <2>2. ASSUME NEW c \in Callers
        PROVE  /\ caller'[c] \in Request
               /\ Told(caller'[c], denials[c], c \in created, c \in stored)
    <3> DEFINE at == IF caller[c].at \in {"idle", "done"} THEN caller[c].at ELSE "lost"
               barred == IF setup.durable THEN caller[c].barred ELSE {}
    <3>1. caller'[c] = [caller[c] EXCEPT !.at = at, !.barred = barred]
      BY <1>9 DEF Restart
    <3>2. /\ caller[c] \in Request /\ barred \in SUBSET Targets
          /\ at \in {"idle", "done", "lost"} /\ (at # "lost" => caller[c].at = at)
          /\ Told(caller[c], denials[c], c \in created, c \in stored)
      BY DEF LogInv, Request
    <3> HIDE DEF at, barred
    <3>3. /\ caller'[c] \in Request /\ caller'[c].at = at
          /\ caller'[c].kind = caller[c].kind /\ caller'[c].code = caller[c].code
      BY <3>1, <3>2 DEF Request
    <3> QED
      BY <3>2, <3>3 DEF Told
  <2>3. caller' \in [Callers -> Request]
    BY <1>9, <2>2 DEF Restart
  <2> QED
    BY <2>1, <2>2, <2>3 DEF LogInv
<1>10. CASE UNCHANGED admitVars
  BY <1>10 DEF admitVars, switchVars, LogInv
<1> QED
  BY <1>1, <1>2, <1>3, <1>4, <1>5, <1>6, <1>7, <1>8, <1>9, <1>10 DEF Next

(* What a caller is told of POST /v1/sessions is what the audit log says,      *)
(* whichever append or insert fails (createSession, appendDenied).             *)
THEOREM AnswersAlwaysLogged ==
  ASSUME NoChange \notin Switch, AsksAssumption
  PROVE  Spec => []AnswerIsLogged
<1>1. LogInv /\ SwitchInv /\ [Next]_admitVars => LogInv' /\ SwitchInv'
  BY NextLogInv, NextSwitchInv
<1> QED
  BY <1>1, InitLogInv, InitSwitchInv, InvLogged, PTL DEF Spec
-----------------------------------------------------------------------------
(* The block.  A target that was held when a request came is blocked in the    *)
(* copy that the gates read, and no administrator in progress unblocks it.     *)

Firm(t) ==
    /\ t \in copy
    /\ setup.durable => t \in rows
    /\ \A a \in Admins : Busy(a) /\ admin[a].target = t => admin[a].op = "block"

BlockInv ==
    /\ \A t \in held : Firm(t)
    /\ \A c \in Callers : \A t \in caller[c].barred : Firm(t)
    /\ \A c \in Callers :
          caller[c].at \in {"policy", "audit", "store"} \/ c \in created =>
             caller[c].barred \cap Concern(c) = {}

LEMMA InvHolds == LogInv /\ BlockInv => BlockHolds
  BY DEF LogInv, BlockInv, BlockHolds, Told

LEMMA InitBlockInv == Init => BlockInv
  BY DEF Init, BlockInv, NoCaller

(* One caller's step, which leaves the switch alone.                           *)
LEMMA CallerKeepsBlock ==
  ASSUME LogInv, BlockInv, NEW c \in Callers, NEW q,
         caller' = [caller EXCEPT ![c] = q],
         UNCHANGED <<setup, rows, copy, admin, held>>,
         \A t \in q.barred : Firm(t),
         \A x \in Callers : x # c => (x \in created' => x \in created),
         q.at \in {"policy", "audit", "store"} \/ c \in created' =>
            q.barred \cap Concern(c)' = {}
  PROVE  BlockInv'
<1>1. \A t : Firm(t) => Firm(t)'
  BY DEF Firm, Busy
<1>2. ASSUME NEW x \in Callers
      PROVE  /\ \A t \in caller'[x].barred : Firm(t)'
             /\ caller'[x].at \in {"policy", "audit", "store"} \/ x \in created' =>
                   caller'[x].barred \cap Concern(x)' = {}
  <2>1. CASE x = c
    BY <1>1, <2>1 DEF LogInv
  <2>2. CASE x # c
    <3>1. caller'[x] = caller[x]
      BY <2>2 DEF LogInv
    <3> QED
      BY <1>1, <2>2, <3>1 DEF BlockInv, Concern, Agent
  <2> QED
    BY <2>1, <2>2
<1> QED
  BY <1>1, <1>2 DEF BlockInv

(* The caller keeps its targets, and passes no gate that it had not passed.    *)
LEMMA CallerGoesOn ==
  ASSUME LogInv, BlockInv, NEW c \in Callers, NEW step, NEW code,
         caller' = [caller EXCEPT ![c].at = step, ![c].code = code],
         UNCHANGED <<setup, rows, copy, admin, held>>,
         \A x \in Callers : x # c => (x \in created' => x \in created),
         step \in {"policy", "audit", "store"} \/ c \in created' =>
            caller[c].barred \cap Concern(c) = {}
  PROVE  BlockInv'
<1> DEFINE q == [caller[c] EXCEPT !.at = step, !.code = code]
<1>1. caller[c] \in Request
  BY DEF LogInv
<1>2. q.at = step /\ q.barred = caller[c].barred /\ q.kind = caller[c].kind
  BY <1>1 DEF Request
<1>3. caller' = [caller EXCEPT ![c] = q]
  OBVIOUS
<1> HIDE DEF q
<1>4. Concern(c)' = Concern(c)
  BY <1>2, <1>3 DEF LogInv, Concern, Agent
<1>5. \A t \in q.barred : Firm(t)
  BY <1>2 DEF BlockInv
<1> QED
  BY <1>2, <1>3, <1>4, <1>5, CallerKeepsBlock

LEMMA GoesKeepsCode ==
  ASSUME LogInv, NEW c \in Callers, NEW step, Goes(c, step)
  PROVE  caller' = [caller EXCEPT ![c].at = step, ![c].code = caller[c].code]
<1>1. caller[c] \in Request
  BY DEF LogInv
<1>2. [caller[c] EXCEPT !.at = step] = [caller[c] EXCEPT !.at = step, !.code = caller[c].code]
  BY <1>1 DEF Request
<1> QED
  BY <1>2 DEF Goes

LEMMA NextBlockInv ==
  ASSUME NoChange \notin Switch, AsksAssumption, LogInv, SwitchInv, BlockInv, [Next]_admitVars
  PROVE  BlockInv'
<1>1. ASSUME NEW c \in Callers, Arrive(c) PROVE BlockInv'
  <2>1. PICK ask \in Asks :
          caller' = [caller EXCEPT ![c] = [NoCaller EXCEPT !.at = "authorize", !.kind = ask.kind,
                                                           !.flaws = ask.flaws, !.barred = held]]
    BY <1>1 DEF Arrive
  <2> DEFINE q == [NoCaller EXCEPT !.at = "authorize", !.kind = ask.kind,
                                   !.flaws = ask.flaws, !.barred = held]
  <2>2. q.at = "authorize" /\ q.barred = held
    BY DEF NoCaller
  <2>3. c \notin created /\ created' = created /\ UNCHANGED <<setup, rows, copy, admin, held>>
    BY <1>1 DEF Arrive, Gate, At, LogInv, Told, Open, switchVars
  <2>4. caller' = [caller EXCEPT ![c] = q] /\ \A t \in q.barred : Firm(t)
    BY <2>1, <2>2 DEF BlockInv
  <2> HIDE DEF q
  <2> QED
    BY <2>2, <2>3, <2>4, CallerKeepsBlock
<1>2. ASSUME NEW c \in Callers,
             \/ Authorize(c) \/ CheckGlobal(c) \/ CheckRequest(c) \/ CheckAgent(c)
             \/ EvaluatePolicy(c)
      PROVE  BlockInv'
  <2>1. PICK step \in {"global", "request", "agent", "policy", "audit", "deny", "done"} :
        \E code : caller' = [caller EXCEPT ![c].at = step, ![c].code = code]
    <3>1. (\E step \in {"global", "request", "agent", "policy", "audit"} : Goes(c, step))
          \/ (\E code : Refuses(c, code)) \/ (\E code : Answers(c, code))
      BY <1>2 DEF Authorize, CheckGlobal, CheckRequest, CheckAgent, EvaluatePolicy
    <3> QED
      BY <3>1, GoesKeepsCode DEF Refuses, Answers
  <2>2. UNCHANGED <<setup, rows, copy, admin, held, created>>
    BY <1>2 DEF Authorize, CheckGlobal, CheckRequest, CheckAgent, EvaluatePolicy, Gate, switchVars
  <2>3. c \notin created
    BY <1>2 DEF Authorize, CheckGlobal, CheckRequest, CheckAgent, EvaluatePolicy, Gate, At,
                LogInv, Told, Open
  <2>4. ASSUME step \in {"policy", "audit"} PROVE caller[c].barred \cap Concern(c) = {}
    <3>1. caller'[c].at = step /\ caller[c] \in Request
      BY <2>1 DEF LogInv, Request
    <3>2. CASE CheckAgent(c)
      <4>1. ~ BlockedForAgent(c) /\ ~ BlockedForClient(c)
        BY <2>4, <3>1, <3>2 DEF CheckAgent, Refuses, LogInv, Request
      <4>2. \A t \in Concern(c) : t \notin copy
        BY <4>1 DEF BlockedForAgent, BlockedForClient, BlockedGlobally, Blocked, Concern
      <4> QED
        BY <4>2 DEF BlockInv, Firm
    <3>3. CASE EvaluatePolicy(c)
      BY <3>3 DEF EvaluatePolicy, Gate, At, BlockInv
    <3>4. CASE Authorize(c) \/ CheckGlobal(c) \/ CheckRequest(c)
      BY <2>4, <3>1, <3>4
         DEF Authorize, CheckGlobal, CheckRequest, Goes, Refuses, Answers, LogInv, Request
    <3> QED
      BY <1>2, <3>2, <3>3, <3>4
  <2>5. PICK code : caller' = [caller EXCEPT ![c].at = step, ![c].code = code]
    BY <2>1
  <2>6. step \in {"policy", "audit", "store"} \/ c \in created' =>
           caller[c].barred \cap Concern(c) = {}
    BY <2>1, <2>2, <2>3, <2>4
  <2> QED
    BY <2>2, <2>5, <2>6, CallerGoesOn
<1>3. ASSUME NEW c \in Callers, Deny(c) PROVE BlockInv'
  <2>1. PICK code : caller' = [caller EXCEPT ![c].at = "done", ![c].code = code]
    BY <1>3 DEF Deny, Answers
  <2>2. UNCHANGED <<setup, rows, copy, admin, held, created>> /\ c \notin created
    BY <1>3 DEF Deny, switchVars, At, LogInv, Told, Open
  <2>3. ~ (("done" \in {"policy", "audit", "store"}) \/ c \in created')
    BY <2>2
  <2> QED
    BY <2>1, <2>2, <2>3, CallerGoesOn
<1>4. ASSUME NEW c \in Callers, AuditCreated(c) \/ CreateRow(c) PROVE BlockInv'
  <2>1. PICK step \in {"store", "done"} :
        \E code : caller' = [caller EXCEPT ![c].at = step, ![c].code = code]
    <3>1. Goes(c, "store") \/ \E code : Answers(c, code)
      BY <1>4 DEF AuditCreated, CreateRow
    <3> QED
      BY <3>1, GoesKeepsCode DEF Answers
  <2>2. UNCHANGED <<setup, rows, copy, admin, held>> /\ created' \subseteq created \cup {c}
    BY <1>4 DEF AuditCreated, CreateRow, switchVars
  <2>3. caller[c].barred \cap Concern(c) = {}
    BY <1>4 DEF AuditCreated, CreateRow, At, BlockInv
  <2> QED
    BY <2>1, <2>2, <2>3, CallerGoesOn
<1>5. ASSUME NEW a \in Admins, SwitchStarts(a) PROVE BlockInv'
  <2>1. PICK op \in {"block", "unblock"}, t \in Targets :
        /\ admin' = [b \in Admins |->
             IF b = a THEN [op |-> op, target |-> t, alone |-> InProgress(t) = {},
                            at |-> IF setup.durable THEN "row" ELSE "copy"]
             ELSE IF b \in InProgress(t) THEN [admin[b] EXCEPT !.alone = FALSE]
             ELSE admin[b]]
        /\ held' = IF op = "unblock" \/ InProgress(t) # {} THEN held \ {t} ELSE held
        /\ caller' = [c \in Callers |-> [caller[c] EXCEPT !.barred = IF op = "unblock" THEN @ \ {t} ELSE @]]
    BY <1>5 DEF SwitchStarts
  <2>2. UNCHANGED <<setup, rows, copy, created>>
    BY <1>5 DEF SwitchStarts
  <2>3. admin'[a].op = op /\ admin'[a].target = t
    BY <2>1
  <2>4. ASSUME NEW b \in Admins, b # a, Busy(b)'
        PROVE  Busy(b) /\ admin'[b].op = admin[b].op /\ admin'[b].target = admin[b].target
    <3>1. CASE b \in InProgress(t)
      <4>1. Busy(b) /\ admin[b] \in Switch
        BY <3>1 DEF InProgress, Busy, SwitchInv
      <4>2. admin'[b] = [admin[b] EXCEPT !.alone = FALSE]
        BY <2>1, <2>4, <3>1
      <4> QED
        BY <4>1, <4>2 DEF Switch
    <3>2. CASE b \notin InProgress(t)
      BY <2>1, <2>4, <3>2 DEF Busy
    <3> QED
      BY <3>1, <3>2
  <2>5. ASSUME NEW u, Firm(u), u # t \/ op = "block" PROVE Firm(u)'
    BY <2>2, <2>3, <2>4, <2>5 DEF Firm
  <2>6. \A u \in held' : u \in held /\ (u # t \/ op = "block")
    BY <2>1
  <2>7. ASSUME NEW c \in Callers
        PROVE  /\ caller'[c].at = caller[c].at /\ Concern(c)' = Concern(c)
               /\ \A u \in caller'[c].barred :
                     u \in caller[c].barred /\ (u # t \/ op = "block")
    <3>1. /\ caller[c] \in Request
          /\ caller'[c] = [caller[c] EXCEPT !.barred = IF op = "unblock" THEN @ \ {t} ELSE @]
      BY <2>1 DEF LogInv
    <3>2. /\ caller'[c].at = caller[c].at /\ caller'[c].kind = caller[c].kind
          /\ caller'[c].barred = IF op = "unblock" THEN caller[c].barred \ {t}
                                 ELSE caller[c].barred
      BY <3>1 DEF Request
    <3> QED
      BY <3>2 DEF Concern, Agent
  <2> QED
    BY <2>2, <2>5, <2>6, <2>7 DEF BlockInv
<1>6. ASSUME NEW a \in Admins, SwitchRow(a) PROVE BlockInv'
  <2>1. /\ Busy(a) /\ admin[a] \in Switch
        /\ UNCHANGED <<setup, copy, caller, created, held>>
        /\ rows' \in {rows, Change(rows, a)}
    BY <1>6 DEF SwitchRow, Busy, SwitchInv
  <2>2. ASSUME NEW b \in Admins, Busy(b)'
        PROVE  Busy(b) /\ admin'[b].op = admin[b].op /\ admin'[b].target = admin[b].target
    <3>1. CASE b = a
      <4>1. admin'[a] = [admin[a] EXCEPT !.at = "copy"]
        BY <1>6, <2>2, <3>1 DEF SwitchRow, Busy, SwitchInv
      <4> QED
        BY <2>1, <3>1, <4>1 DEF Switch
    <3>2. CASE b # a
      <4>1. admin'[b] = admin[b]
        BY <1>6, <3>2 DEF SwitchRow, SwitchInv
      <4> QED
        BY <2>2, <4>1 DEF Busy
    <3> QED
      BY <3>1, <3>2
  <2>3. ASSUME NEW u, Firm(u) PROVE Firm(u)'
    <3>1. setup.durable => u \in rows'
      BY <2>1, <2>3 DEF Firm, Change
    <3> QED
      BY <2>1, <2>2, <2>3, <3>1 DEF Firm
  <2> QED
    BY <2>1, <2>3 DEF BlockInv, Concern, Agent
<1>7. ASSUME NEW a \in Admins, SwitchCopy(a) PROVE BlockInv'
  <2>0. PICK t : t = admin[a].target
    OBVIOUS
  <2>1. /\ Busy(a) /\ admin[a] \in Switch /\ admin[a].at = "copy"
        /\ UNCHANGED <<setup, rows, caller, created>>
        /\ copy' = Change(copy, a)
        /\ held' = IF admin[a].op = "block" /\ admin[a].alone THEN held \cup {t} ELSE held
    BY <1>7, <2>0 DEF SwitchCopy, Busy, SwitchInv
  <2>2. ASSUME NEW b \in Admins, Busy(b)' PROVE b # a /\ Busy(b) /\ admin'[b] = admin[b]
    BY <1>7, <2>2 DEF SwitchCopy, Busy, SwitchInv
  <2>3. ASSUME NEW u, Firm(u) PROVE Firm(u)'
    <3>1. u \in copy'
      BY <2>1, <2>3 DEF Firm, Change
    <3> QED
      BY <2>1, <2>2, <2>3, <3>1 DEF Firm
  <2>4. ASSUME admin[a].op = "block", admin[a].alone PROVE Firm(t)'
    <3>1. t \in copy' /\ (setup.durable => t \in rows)
      BY <2>0, <2>1, <2>4 DEF Change, SwitchInv
    <3>2. ASSUME NEW b \in Admins, Busy(b)' PROVE admin'[b].target # t
      BY <2>0, <2>1, <2>2, <2>4, <3>2 DEF SwitchInv
    <3> QED
      BY <2>1, <3>1, <3>2 DEF Firm
  <2>5. \A u \in held' : Firm(u)'
    BY <2>1, <2>3, <2>4 DEF BlockInv
  <2> QED
    BY <2>1, <2>3, <2>5 DEF BlockInv, Concern, Agent
<1>8. CASE Restart
  <2>1. \A a \in Admins : ~ Busy(a)'
    BY <1>8 DEF Restart, Busy
  <2>2. UNCHANGED <<setup, rows, created>> /\ copy' = IF setup.durable THEN rows ELSE {}
    BY <1>8 DEF Restart, Load
  <2>3. ASSUME setup.durable, NEW u, Firm(u) PROVE Firm(u)'
    BY <2>1, <2>2, <2>3 DEF Firm
  <2>4. held' = IF setup.durable THEN held ELSE {}
    BY <1>8 DEF Restart
  <2>5. ASSUME NEW c \in Callers
        PROVE  /\ caller'[c].at \in {"idle", "done", "lost"}
               /\ caller'[c].barred = IF setup.durable THEN caller[c].barred ELSE {}
               /\ Concern(c)' = Concern(c)
    <3> DEFINE at == IF caller[c].at \in {"idle", "done"} THEN caller[c].at ELSE "lost"
               barred == IF setup.durable THEN caller[c].barred ELSE {}
    <3>1. caller[c] \in Request /\ caller'[c] = [caller[c] EXCEPT !.at = at, !.barred = barred]
      BY <1>8 DEF Restart, LogInv
    <3>2. at \in {"idle", "done", "lost"}
      OBVIOUS
    <3> HIDE DEF at
    <3>3. caller'[c].at = at /\ caller'[c].barred = barred /\ caller'[c].kind = caller[c].kind
      BY <3>1 DEF Request
    <3> QED
      BY <3>2, <3>3 DEF Concern, Agent
  <2> QED
    BY <2>2, <2>3, <2>4, <2>5 DEF BlockInv
<1>9. CASE UNCHANGED admitVars
  BY <1>9 DEF admitVars, switchVars, BlockInv, Firm, Busy, Concern, Agent
<1> QED
  BY <1>1, <1>2, <1>3, <1>4, <1>5, <1>6, <1>7, <1>8, <1>9 DEF Next

(* A block that was answered holds against every request that comes later,     *)
(* through failed writes and restarts, until somebody starts to unblock.       *)
THEOREM BlockAlwaysHolds ==
  ASSUME NoChange \notin Switch, AsksAssumption
  PROVE  Spec => []BlockHolds
<1>1. LogInv /\ SwitchInv /\ BlockInv /\ [Next]_admitVars => LogInv' /\ SwitchInv' /\ BlockInv'
  BY NextLogInv, NextSwitchInv, NextBlockInv
<1> QED
  BY <1>1, InitLogInv, InitSwitchInv, InitBlockInv, InvHolds, PTL DEF Spec

-----------------------------------------------------------------------------

(* The Orchestrator's intake for any catalogs, prompts, lifetimes and bounds. *)
(* Each request and the cache are sound for a time, a history of the disk and *)
(* a log: what a request goes by is what a validation could find among what   *)
(* was on disk between two times, and how long ago that is adds up along its  *)
(* way through the validation and the cache.                                  *)

Steps == {"idle", "look", "validate", "store", "select", "audit", "selected", "bad request",
          "audit accepted", "accepted", "error"}

Outcomes == (SUBSET UNION Catalogs) \cup {Broken}

Disks == [agents : Catalogs, valid : BOOLEAN, edition : Nat]

IntakeType == [at : Steps, wanted : Prompts \cup {<<>>}, agent : (UNION Catalogs) \cup {NoAgent},
               outcome : Outcomes \cup {NoAgent}, began : Nat, met : SUBSET Disks,
               taken : Nat]

CacheType == [outcome : Outcomes, at : Nat]

\* What was on disk from one time to another.
Met(disk, from, to) == UNION {disk[t] : t \in from .. to}

\* What a validation may find that met some of these states.
MayFind(outcome, S) == S # {} /\ outcome \in Validations(S)

\* An outcome is one of a validation that began at most age before the given time.
SeenWithin(disk, outcome, age, time) ==
    \E b, e \in 0 .. time :
       b <= e /\ e <= b + MaxValidation /\ time <= b + age /\ MayFind(outcome, Met(disk, b, e))

\* How old an outcome may be that a request takes from the cache.
Age(outcome) == Lifetime(outcome) - 1 + MaxValidation

Logged(r, step, agent, log) == <<r, step, agent>> \in log

\* q is where request r may be at the given time.
Sound(r, q, time, disk, log) ==
    /\ q \in IntakeType
    /\ q.at \in {"validate", "store"} => q.began <= time /\ time <= q.began + MaxValidation
    /\ q.at = "validate" => q.met # {} /\ q.met \subseteq Met(disk, q.began, time)
    /\ q.at = "store" =>
          /\ q.began <= q.taken /\ q.taken <= time /\ q.outcome \in Outcomes
          /\ MayFind(q.outcome, Met(disk, q.began, q.taken))
    /\ q.at \in {"select", "audit", "selected", "bad request"} =>
          /\ q.taken <= time /\ q.outcome \in Outcomes
          /\ SeenWithin(disk, q.outcome, Age(q.outcome), q.taken)
    /\ q.at \in {"audit", "selected"} => q.outcome # Broken /\ q.agent \in q.outcome
    /\ q.at \in {"selected", "accepted"} => Logged(r, q.at, q.agent, log)

SoundCache(c, time, disk) ==
    c # NoAgent =>
        c \in CacheType /\ c.at <= time /\ SeenWithin(disk, c.outcome, MaxValidation, c.at)

SoundDisk(disk, time) ==
    /\ disk \in [0 .. MaxTime -> SUBSET Disks]
    /\ time \in 0 .. MaxTime
    /\ files \in disk[time] /\ edits \in Nat

IntakeInv ==
    /\ SoundDisk(onDisk, now)
    /\ SoundCache(cached, now, onDisk)
    /\ DOMAIN request = Intakes
    /\ \A r \in Intakes : Sound(r, request[r], now, onDisk, routed)

\* Nothing that was on disk before is forgotten.
Remembers(disk, later, time) == \A t \in 0 .. time : disk[t] \subseteq later[t]

LEMMA AgeIsNat == ASSUME NEW outcome PROVE Age(outcome) \in Nat
<1>1. Lifetime(outcome) \in Nat /\ Lifetime(outcome) - 1 \in Nat
  BY IntakeConstants DEF Lifetime
<1> QED
  BY <1>1, IntakeConstants DEF Age

\* Who meets more may find more.
LEMMA ValidationsGrow ==
  ASSUME NEW S, NEW T, S \subseteq T, NEW outcome, MayFind(outcome, S)
  PROVE  MayFind(outcome, T)
<1>1. CASE \E disk \in S : S = {disk}
  <2>1. PICK disk \in S : S = {disk}
    BY <1>1
  <2>2. outcome = Diagnosed(disk)
    BY <2>1 DEF MayFind, Validations
  <2>3. CASE \E other \in T : T = {other}
    BY <2>1, <2>3 DEF MayFind
  <2>4. CASE ~ \E other \in T : T = {other}
    <3>1. Diagnosed(disk) \in {Broken} \cup SUBSET UNION {d.agents : d \in T}
      BY <2>1 DEF Diagnosed
    <3> QED
      BY <2>1, <2>2, <2>4, <3>1 DEF MayFind, Validations
  <2> QED
    BY <2>3, <2>4
<1>2. CASE ~ \E disk \in S : S = {disk}
  <2>1. outcome \in {Broken} \cup SUBSET UNION {d.agents : d \in S}
    BY <1>2 DEF MayFind, Validations
  <2>2. ~ \E other \in T : T = {other}
    BY <1>2 DEF MayFind
  <2>3. UNION {d.agents : d \in S} \subseteq UNION {d.agents : d \in T}
    OBVIOUS
  <2>4. outcome \in {Broken} \cup SUBSET UNION {d.agents : d \in T}
    BY <2>1, <2>3
  <2> QED
    BY <2>2, <2>4 DEF MayFind, Validations
<1> QED
  BY <1>1, <1>2

LEMMA FindingsAreOutcomes ==
  ASSUME NEW S \in SUBSET Disks, NEW outcome, MayFind(outcome, S)
  PROVE  outcome \in Outcomes
<1>1. \A disk \in S : disk.agents \subseteq UNION Catalogs
  BY DEF Disks
<1>2. CASE \E disk \in S : S = {disk}
  <2>1. PICK disk \in S : S = {disk}
    BY <1>2
  <2> QED
    BY <1>1, <2>1 DEF MayFind, Validations, Diagnosed, Outcomes
<1>3. CASE ~ \E disk \in S : S = {disk}
  <2>1. UNION {d.agents : d \in S} \subseteq UNION Catalogs
    BY <1>1
  <2> QED
    BY <1>3, <2>1 DEF MayFind, Validations, Outcomes
<1> QED
  BY <1>2, <1>3

LEMMA MetGrows ==
  ASSUME NEW disk, NEW later, NEW now1 \in Nat, Remembers(disk, later, now1),
         NEW from \in Nat, NEW to \in Nat, NEW to2 \in Nat, to <= to2, to <= now1
  PROVE  Met(disk, from, to) \subseteq Met(later, from, to2)
<1>1. \A t \in from .. to : t \in 0 .. now1 /\ t \in from .. to2
  OBVIOUS
<1> QED
  BY <1>1 DEF Met, Remembers

LEMMA StillSeen ==
  ASSUME NEW disk, NEW later, NEW now1 \in Nat, NEW time \in Nat, NEW age \in Nat, NEW outcome,
         time <= now1, Remembers(disk, later, now1), SeenWithin(disk, outcome, age, time)
  PROVE  SeenWithin(later, outcome, age, time)
<1>1. PICK b, e \in 0 .. time :
         b <= e /\ e <= b + MaxValidation /\ time <= b + age /\ MayFind(outcome, Met(disk, b, e))
  BY DEF SeenWithin
<1>2. b \in Nat /\ e \in Nat /\ e <= now1 /\ e <= e
  BY <1>1
<1>3. Met(disk, b, e) \subseteq Met(later, b, e)
  BY <1>2, MetGrows
<1>4. MayFind(outcome, Met(later, b, e))
  BY <1>1, <1>3, ValidationsGrow
<1> QED
  BY <1>1, <1>4 DEF SeenWithin

LEMMA SeenAgain ==
  ASSUME NEW disk, NEW first \in Nat, NEW then \in Nat, NEW age \in Nat, NEW longer \in Nat, NEW outcome,
         SeenWithin(disk, outcome, age, first), first <= then, then - first + age <= longer
  PROVE  SeenWithin(disk, outcome, longer, then)
<1>1. PICK b, e \in 0 .. first :
         b <= e /\ e <= b + MaxValidation /\ first <= b + age /\ MayFind(outcome, Met(disk, b, e))
  BY DEF SeenWithin
<1>2. b \in 0 .. then /\ e \in 0 .. then /\ then <= b + longer
  BY <1>1
<1> QED
  BY <1>1, <1>2 DEF SeenWithin

\* A request that stands still remains sound while time passes and the log grows.
LEMMA StillSound ==
  ASSUME NEW r, NEW q, NEW now1 \in Nat, NEW now2 \in Nat, NEW disk, NEW later, NEW log, NEW longer,
         now1 <= now2, Remembers(disk, later, now1), log \subseteq longer,
         q.at \in {"validate", "store"} => now2 <= q.began + MaxValidation,
         Sound(r, q, now1, disk, log)
  PROVE  Sound(r, q, now2, later, longer)
<1>0. \A time \in Nat : time <= now1 => time <= now2
  OBVIOUS
<1>1. q \in IntakeType /\ q.taken \in Nat /\ q.began \in Nat
  BY DEF Sound, IntakeType
<1>2. q.at \in {"validate", "store"} => q.began <= now2 /\ now2 <= q.began + MaxValidation
  <2>1. q.at \in {"validate", "store"} => q.began <= now1
    BY DEF Sound
  <2> QED
    BY <1>1, <2>1
<1>3. q.at = "store" => /\ q.began <= q.taken /\ q.taken <= now2 /\ q.outcome \in Outcomes
                        /\ MayFind(q.outcome, Met(later, q.began, q.taken))
  <2> SUFFICES ASSUME q.at = "store"
               PROVE  /\ q.began <= q.taken /\ q.taken <= now2 /\ q.outcome \in Outcomes
                      /\ MayFind(q.outcome, Met(later, q.began, q.taken))
    OBVIOUS
  <2>1. /\ q.began <= q.taken /\ q.taken <= now1 /\ q.outcome \in Outcomes
        /\ MayFind(q.outcome, Met(disk, q.began, q.taken))
    BY DEF Sound
  <2>2. q.taken <= now2 /\ q.taken <= q.taken
    BY <1>0, <1>1, <2>1
  <2>3. Met(disk, q.began, q.taken) \subseteq Met(later, q.began, q.taken)
    BY <1>1, <2>1, <2>2, MetGrows
  <2> QED
    BY <2>1, <2>2, <2>3, ValidationsGrow
<1>7. q.at = "validate" => q.met # {} /\ q.met \subseteq Met(later, q.began, now2)
  <2>1. q.at = "validate" => q.met # {} /\ q.met \subseteq Met(disk, q.began, now1)
    BY DEF Sound
  <2>2. now1 <= now1 /\ Met(disk, q.began, now1) \subseteq Met(later, q.began, now2)
    BY <1>1, MetGrows
  <2> QED
    BY <2>1, <2>2
<1>4. q.at \in {"select", "audit", "selected", "bad request"} =>
          /\ q.taken <= now2 /\ q.outcome \in Outcomes
          /\ SeenWithin(later, q.outcome, Age(q.outcome), q.taken)
  <2> SUFFICES ASSUME q.at \in {"select", "audit", "selected", "bad request"}
               PROVE  /\ q.taken <= now2 /\ q.outcome \in Outcomes
                      /\ SeenWithin(later, q.outcome, Age(q.outcome), q.taken)
    OBVIOUS
  <2>1. SeenWithin(disk, q.outcome, Age(q.outcome), q.taken)
    BY DEF Sound
  <2>2. q.taken <= now1 /\ q.outcome \in Outcomes
    BY DEF Sound
  <2>3. q.taken <= now2
    BY <1>0, <2>2, <1>1
  <2>4. SeenWithin(later, q.outcome, Age(q.outcome), q.taken)
    BY <2>1, <2>2, AgeIsNat, <1>1, StillSeen
  <2> QED
    BY <2>2, <2>3, <2>4
<1>5. q.at \in {"audit", "selected"} => q.outcome # Broken /\ q.agent \in q.outcome
  BY DEF Sound
<1>6. q.at \in {"selected", "accepted"} => Logged(r, q.at, q.agent, longer)
  BY DEF Sound, Logged
<1> QED
  BY <1>1, <1>2, <1>3, <1>4, <1>5, <1>6, <1>7 DEF Sound

LEMMA StillSoundCache ==
  ASSUME NEW c, NEW now1 \in Nat, NEW now2 \in Nat, NEW disk, NEW later,
         now1 <= now2, Remembers(disk, later, now1), SoundCache(c, now1, disk)
  PROVE  SoundCache(c, now2, later)
<1>1. CASE c = NoAgent
  BY <1>1 DEF SoundCache
<1>2. CASE c # NoAgent
  <2>1. c \in CacheType /\ c.at \in Nat /\ c.at <= now1 /\ SeenWithin(disk, c.outcome, MaxValidation, c.at)
    BY <1>2 DEF SoundCache, CacheType
  <2>2. SeenWithin(later, c.outcome, MaxValidation, c.at)
    BY <2>1, StillSeen, IntakeConstants
  <2> QED
    BY <2>1, <2>2 DEF SoundCache
<1> QED
  BY <1>1, <1>2

LEMMA NewIsTyped == NewIntake \in IntakeType /\ NewIntake.at = "idle"
<1>1. <<>> \in Prompts \cup {<<>>}
  OBVIOUS
<1> QED
  BY <1>1 DEF NewIntake, IntakeType, Steps

LEMMA RemembersItself == ASSUME NEW disk, NEW time PROVE Remembers(disk, disk, time)
  BY DEF Remembers

\* One request moves and nothing but the log and the count of troubles changes.
StoreStays == UNCHANGED <<now, files, edits, onDisk>>

LEMMA OneIntakeMoves ==
  ASSUME IntakeInv, StoreStays, cached' = cached, routed \subseteq routed', NEW r \in Intakes, NEW q,
         request' = [request EXCEPT ![r] = q],
         Sound(r, q, now, onDisk, routed')
  PROVE  IntakeInv'
<1>1. now' = now /\ onDisk' = onDisk /\ files' = files /\ edits' = edits
  BY DEF StoreStays
<1>2. SoundDisk(onDisk, now)' /\ SoundCache(cached, now, onDisk)' /\ now \in Nat
  BY <1>1, IntakeConstants DEF IntakeInv, SoundDisk
<1>3. DOMAIN request' = Intakes
  BY DEF IntakeInv
<1>4. \A s \in Intakes : Sound(s, request'[s], now, onDisk, routed')
  <2> SUFFICES ASSUME NEW s \in Intakes, s # r PROVE Sound(s, request'[s], now, onDisk, routed')
    BY DEF IntakeInv
  <2>1. request'[s] = request[s] /\ Sound(s, request[s], now, onDisk, routed)
    BY DEF IntakeInv
  <2>2. request[s].at \in {"validate", "store"} => now <= request[s].began + MaxValidation
    BY <2>1 DEF Sound
  <2> QED
    BY <2>1, <2>2, <1>2, StillSound, RemembersItself
<1> QED
  BY <1>1, <1>2, <1>3, <1>4 DEF IntakeInv
LEMMA InitIntakeInv == IntakeInit => IntakeInv
<1> SUFFICES ASSUME IntakeInit PROVE IntakeInv
  OBVIOUS
<1>1. NewIntake \in IntakeType /\ NewIntake.at = "idle"
  BY NewIsTyped
<1>2. \A r \in Intakes : Sound(r, request[r], now, onDisk, routed)
  BY <1>1 DEF IntakeInit, Sound, NewIntake
<1>3. SoundDisk(onDisk, now) /\ SoundCache(cached, now, onDisk)
  <2>1. files \in Disks /\ edits = 0 /\ now = 0
    BY DEF IntakeInit, Disks
  <2>2. onDisk = [t \in 0 .. MaxTime |-> IF t = 0 THEN {files} ELSE {}]
    BY DEF IntakeInit
  <2> QED
    BY <2>1, <2>2, IntakeConstants DEF IntakeInit, SoundDisk, SoundCache
<1> QED
  BY <1>2, <1>3 DEF IntakeInit, IntakeInv

LEMMA StepIntakeInv == IntakeInv /\ [IntakeNext]_routerVars => IntakeInv'
<1> SUFFICES ASSUME IntakeInv, [IntakeNext]_routerVars PROVE IntakeInv'
  OBVIOUS
<1>0. /\ now \in Nat /\ now <= MaxTime /\ MaxTime \in Nat
      /\ onDisk \in [0 .. MaxTime -> SUBSET Disks] /\ files \in onDisk[now] /\ files \in Disks
      /\ DOMAIN request = Intakes /\ edits \in Nat
  BY IntakeConstants DEF IntakeInv, SoundDisk
<1>00. \A r \in Intakes : Sound(r, request[r], now, onDisk, routed) /\ request[r] \in IntakeType
  BY DEF IntakeInv, Sound
<1>1. ASSUME NEW r \in Intakes, NEW prompt \in Prompts, RoutePrompt(r, prompt) PROVE IntakeInv'
  <2> DEFINE q == [NewIntake EXCEPT !.at = "look", !.wanted = prompt]
  <2>1. request' = [request EXCEPT ![r] = q] /\ StoreStays /\ cached' = cached /\ routed' = routed
    BY <1>1 DEF RoutePrompt, StoreStays
  <2>2. q \in IntakeType /\ q.at = "look"
    BY NewIsTyped DEF IntakeType, Steps
  <2> HIDE DEF q
  <2>3. Sound(r, q, now, onDisk, routed')
    BY <2>2 DEF Sound
  <2> QED
    BY <2>1, <2>3, OneIntakeMoves
<1>2. ASSUME NEW r \in Intakes, NEW agent \in UNION Catalogs, Accept(r, agent) PROVE IntakeInv'
  <2> DEFINE q == [NewIntake EXCEPT !.at = "audit accepted", !.agent = agent]
  <2>1. request' = [request EXCEPT ![r] = q] /\ StoreStays /\ cached' = cached /\ routed' = routed
    BY <1>2 DEF Accept, StoreStays
  <2>2. q \in IntakeType /\ q.at = "audit accepted"
    BY NewIsTyped DEF IntakeType, Steps
  <2> HIDE DEF q
  <2>3. Sound(r, q, now, onDisk, routed')
    BY <2>2 DEF Sound
  <2> QED
    BY <2>1, <2>3, OneIntakeMoves
<1>3. ASSUME NEW r \in Intakes, LookUpCatalog(r) PROVE IntakeInv'
  <2>1. StoreStays /\ cached' = cached /\ routed' = routed
    BY <1>3 DEF LookUpCatalog, StoreStays
  <2>2. CASE FreshCatalog
    <3> DEFINE q == [request[r] EXCEPT !.at = "select", !.outcome = cached.outcome, !.taken = now,
                                       !.met = {}, !.began = 0]
    <3>1. request' = [request EXCEPT ![r] = q]
      BY <1>3, <2>2, <1>0 DEF LookUpCatalog, Taken
    <3>2. /\ cached.at \in Nat /\ cached.outcome \in Outcomes /\ cached.at <= now
          /\ SeenWithin(onDisk, cached.outcome, MaxValidation, cached.at)
      BY <2>2 DEF IntakeInv, SoundCache, CacheType, FreshCatalog
    <3>3. now - cached.at + MaxValidation <= Age(cached.outcome)
      <4>1. Lifetime(cached.outcome) \in Nat
        BY IntakeConstants DEF Lifetime
      <4>2. now - cached.at < Lifetime(cached.outcome)
        BY <2>2 DEF FreshCatalog
      <4> QED
        BY <4>1, <4>2, <3>2, <1>0, IntakeConstants DEF Age
    <3>4. SeenWithin(onDisk, cached.outcome, Age(cached.outcome), now)
      BY <3>2, <3>3, <1>0, SeenAgain, AgeIsNat, IntakeConstants
    <3>5. /\ q \in IntakeType /\ q.at = "select" /\ q.outcome = cached.outcome /\ q.taken = now
          /\ q.outcome \in Outcomes
      BY <3>2, <1>0, <1>00 DEF IntakeType, Steps
    <3> HIDE DEF q
    <3>6. Sound(r, q, now, onDisk, routed')
      BY <3>4, <3>5, <1>0 DEF Sound
    <3> QED
      BY <2>1, <3>1, <3>6, OneIntakeMoves
  <2>3. CASE ~FreshCatalog
    <3> DEFINE q == [request[r] EXCEPT !.at = "validate", !.began = now, !.met = {files}]
    <3>1. request' = [request EXCEPT ![r] = q]
      BY <1>3, <2>3, <1>0 DEF LookUpCatalog
    <3>2. q \in IntakeType /\ q.at = "validate" /\ q.began = now /\ q.met = {files}
      BY <1>0, <1>00 DEF IntakeType, Steps
    <3> HIDE DEF q
    <3>4. {files} \subseteq Met(onDisk, now, now)
      <4>1. now \in now .. now
        BY <1>0
      <4> QED
        BY <4>1, <1>0 DEF Met
    <3>5. now <= now /\ now <= now + MaxValidation
      BY <1>0, IntakeConstants
    <3>3. Sound(r, q, now, onDisk, routed')
      BY <3>2, <3>4, <3>5 DEF Sound
    <3> QED
      BY <2>1, <3>1, <3>3, OneIntakeMoves
  <2> QED
    BY <2>2, <2>3
<1>4. ASSUME NEW r \in Intakes, Validate(r) PROVE IntakeInv'
  <2>0. PICK outcome \in Validations(request[r].met) : Taken(r, outcome, "store")
    BY <1>4 DEF Validate
  <2> DEFINE q == [request[r] EXCEPT !.at = "store", !.outcome = outcome, !.taken = now, !.met = {}]
  <2>1. StoreStays /\ cached' = cached /\ routed' = routed /\ request[r].at = "validate"
    BY <1>4 DEF Validate, StoreStays, IntakeAt
  <2>2. request' = [request EXCEPT ![r] = q]
    BY <2>0, <1>0, <1>00 DEF Taken, IntakeType
  <2>3. /\ MayFind(outcome, request[r].met) /\ request[r].met \in SUBSET Disks
        /\ request[r].met \subseteq Met(onDisk, request[r].began, now)
        /\ request[r].began <= now /\ now <= request[r].began + MaxValidation
    BY <2>0, <2>1, <1>00 DEF Sound, IntakeType, MayFind
  <2>4. outcome \in Outcomes /\ MayFind(outcome, Met(onDisk, request[r].began, now))
    BY <2>3, FindingsAreOutcomes, ValidationsGrow
  <2>5. /\ q \in IntakeType /\ q.at = "store" /\ q.outcome = outcome /\ q.taken = now
        /\ q.began = request[r].began
    BY <2>4, <1>0, <1>00 DEF IntakeType, Steps
  <2> HIDE DEF q
  <2>6. now <= now
    BY <1>0
  <2>7. Sound(r, q, now, onDisk, routed')
    BY <2>3, <2>4, <2>5, <2>6 DEF Sound
  <2> QED
    BY <2>1, <2>2, <2>7, OneIntakeMoves
<1>5. ASSUME NEW r \in Intakes, StoreOutcome(r) PROVE IntakeInv'
  <2> DEFINE q == [request[r] EXCEPT !.at = "select", !.taken = now, !.met = {}, !.began = 0]
  <2>1. now' = now /\ files' = files /\ edits' = edits /\ onDisk' = onDisk /\ routed' = routed
    BY <1>5 DEF StoreOutcome
  <2>2. request' = [request EXCEPT ![r] = q]
    BY <1>5, <1>0, <1>00 DEF StoreOutcome, Taken, IntakeType
  <2>3. /\ request[r].at = "store" /\ cached' = [outcome |-> request[r].outcome, at |-> now]
    BY <1>5 DEF StoreOutcome, IntakeAt
  <2>4. /\ request[r].began <= request[r].taken /\ request[r].taken <= now
        /\ MayFind(request[r].outcome, Met(onDisk, request[r].began, request[r].taken))
        /\ now <= request[r].began + MaxValidation /\ request[r].outcome \in Outcomes
    BY <2>3, <1>00 DEF Sound
  <2>5. request[r].began \in Nat /\ request[r].taken \in Nat
    BY <1>00 DEF IntakeType
  <2>6. SeenWithin(onDisk, request[r].outcome, MaxValidation, now)
    <3>1. /\ request[r].began \in 0 .. now /\ request[r].taken \in 0 .. now /\ request[r].began <= request[r].taken
          /\ request[r].taken <= request[r].began + MaxValidation
      BY <2>4, <2>5, <1>0, IntakeConstants
    <3> QED
      BY <2>4, <3>1 DEF SeenWithin
  <2>7. request[r].outcome \in Outcomes
    BY <2>4
  <2>8. SoundCache(cached, now, onDisk)'
    BY <2>1, <2>3, <2>6, <2>7, <1>0 DEF SoundCache, CacheType
  <2>9. SeenWithin(onDisk, request[r].outcome, Age(request[r].outcome), now)
    <3>1. now - now + MaxValidation <= Age(request[r].outcome)
      BY IntakeConstants, <1>0 DEF Age, Lifetime
    <3> QED
      BY <3>1, <2>6, <1>0, SeenAgain, AgeIsNat, IntakeConstants
  <2>10. q \in IntakeType /\ q.at = "select" /\ q.outcome = request[r].outcome /\ q.taken = now
    BY <1>0, <1>00 DEF IntakeType, Steps
  <2> HIDE DEF q
  <2>11. Sound(r, q, now, onDisk, routed)
    BY <2>7, <2>9, <2>10, <1>0 DEF Sound
  <2>12. \A s \in Intakes : Sound(s, request'[s], now, onDisk, routed)
    BY <2>2, <2>11, <1>0, <1>00
  <2>13. DOMAIN request' = Intakes
    BY <2>2, <1>0
  <2>14. SoundDisk(onDisk, now)'
    BY <2>1 DEF IntakeInv, SoundDisk
  <2> QED
    BY <2>1, <2>8, <2>12, <2>13, <2>14 DEF IntakeInv
<1>6. ASSUME NEW r \in Intakes, Select(r) PROVE IntakeInv'
  <2>1. /\ StoreStays /\ cached' = cached /\ routed' = routed /\ request[r].at = "select"
    BY <1>6 DEF Select, StoreStays, IntakeAt
  <2>2. /\ request[r].taken <= now /\ request[r].outcome \in Outcomes
        /\ SeenWithin(onDisk, request[r].outcome, Age(request[r].outcome), request[r].taken)
    BY <2>1, <1>00 DEF Sound
  <2>3. CASE IntakeGoes(r, "bad request")
    <3> DEFINE q == [request[r] EXCEPT !.at = "bad request"]
    <3>1. request' = [request EXCEPT ![r] = q]
      BY <2>3, <1>0 DEF IntakeGoes
    <3>2. /\ q \in IntakeType /\ q.at = "bad request" /\ q.outcome = request[r].outcome
          /\ q.taken = request[r].taken
      BY <1>00 DEF IntakeType, Steps
    <3> HIDE DEF q
    <3>3. Sound(r, q, now, onDisk, routed')
      BY <2>2, <3>2 DEF Sound
    <3> QED
      BY <2>1, <3>1, <3>3, OneIntakeMoves
  <2>4. ASSUME NEW agent \in Selected(r),
               request' = [request EXCEPT ![r].at = "audit", ![r].agent = agent]
        PROVE  IntakeInv'
    <3> DEFINE q == [request[r] EXCEPT !.at = "audit", !.agent = agent]
    <3>1. request' = [request EXCEPT ![r] = q]
      BY <2>4, <1>0
    <3>2. request[r].outcome # Broken /\ agent \in request[r].outcome
      BY DEF Selected, Listed
    <3>4. agent \in UNION Catalogs
      <4>1. request[r].outcome \in SUBSET UNION Catalogs
        BY <2>2, <3>2 DEF Outcomes
      <4> QED
        BY <3>2, <4>1
    <3>5. /\ q \in IntakeType /\ q.at = "audit" /\ q.outcome = request[r].outcome
          /\ q.taken = request[r].taken /\ q.agent = agent
      BY <1>00, <3>4 DEF IntakeType, Steps
    <3> HIDE DEF q
    <3>6. Sound(r, q, now, onDisk, routed')
      BY <2>2, <3>2, <3>5 DEF Sound
    <3> QED
      BY <2>1, <3>1, <3>6, OneIntakeMoves
  <2> QED
    BY <1>6, <2>3, <2>4 DEF Select
<1>7. ASSUME NEW r \in Intakes, AuditSelected(r) \/ AuditAccepted(r) PROVE IntakeInv'
  <2>1. PICK done \in {"selected", "accepted"} :
           /\ request[r].at = IF done = "selected" THEN "audit" ELSE "audit accepted"
           /\ \/ /\ routed' = routed \cup {<<r, done, request[r].agent>>}
                 /\ IntakeGoes(r, done)
              \/ IntakeGoes(r, "error") /\ routed' = routed
           /\ UNCHANGED <<now, files, edits, cached, onDisk>>
    BY <1>7 DEF AuditSelected, AuditAccepted, Audit, IntakeAt
  <2>2. StoreStays /\ cached' = cached
    BY <2>1 DEF StoreStays
  <2>3. CASE IntakeGoes(r, "error") /\ routed' = routed
    <3> DEFINE q == [request[r] EXCEPT !.at = "error"]
    <3>1. request' = [request EXCEPT ![r] = q]
      BY <2>3, <1>0 DEF IntakeGoes
    <3>2. q \in IntakeType /\ q.at = "error"
      BY <1>00 DEF IntakeType, Steps
    <3> HIDE DEF q
    <3>3. Sound(r, q, now, onDisk, routed')
      BY <3>2 DEF Sound
    <3> QED
      BY <2>2, <2>3, <3>1, <3>3, OneIntakeMoves
  <2>4. CASE IntakeGoes(r, done) /\ routed' = routed \cup {<<r, done, request[r].agent>>}
    <3> DEFINE q == [request[r] EXCEPT !.at = done]
    <3>1. request' = [request EXCEPT ![r] = q]
      BY <2>4, <1>0 DEF IntakeGoes
    <3>2. /\ q \in IntakeType /\ q.at = done /\ q.outcome = request[r].outcome
          /\ q.taken = request[r].taken /\ q.agent = request[r].agent
      BY <1>00 DEF IntakeType, Steps
    <3>3. Sound(r, request[r], now, onDisk, routed)
      BY <1>00
    <3> HIDE DEF q
    <3>4. Logged(r, q.at, q.agent, routed')
      BY <2>4, <3>2 DEF Logged
    <3>5. ASSUME done = "selected" PROVE Sound(r, q, now, onDisk, routed')
      <4>1. request[r].at = "audit"
        BY <2>1, <3>5
      <4>2. /\ request[r].taken <= now /\ request[r].outcome \in Outcomes
            /\ SeenWithin(onDisk, request[r].outcome, Age(request[r].outcome), request[r].taken)
            /\ request[r].outcome # Broken /\ request[r].agent \in request[r].outcome
        BY <3>3, <4>1 DEF Sound
      <4>3. q.at = "selected"
        BY <3>2, <3>5
      <4> QED
        BY <3>2, <3>4, <4>2, <4>3 DEF Sound
    <3>6. ASSUME done = "accepted" PROVE Sound(r, q, now, onDisk, routed')
      <4>1. q.at = "accepted"
        BY <3>2, <3>6
      <4> QED
        BY <3>2, <3>4, <4>1 DEF Sound
    <3>7. Sound(r, q, now, onDisk, routed')
      BY <3>5, <3>6
    <3>8. routed \subseteq routed'
      BY <2>4
    <3> QED
      BY <2>2, <3>1, <3>7, <3>8, OneIntakeMoves
  <2> QED
    BY <2>1, <2>3, <2>4
<1>8. ASSUME NEW agents \in Catalogs, NEW valid \in BOOLEAN, Edit(agents, valid) PROVE IntakeInv'
  <2>1. /\ onDisk' = [onDisk EXCEPT ![now] = @ \cup {files'}]
        /\ files' = [agents |-> agents, valid |-> valid, edition |-> edits + 1] /\ edits' = edits + 1
        /\ now' = now /\ cached' = cached /\ routed' = routed
        /\ request' = [r \in Intakes |-> [request[r] EXCEPT
                          !.met = IF IntakeAt(r, "validate") THEN @ \cup {files'} ELSE @]]
    BY <1>8 DEF Edit
  <2>2. files' \in Disks /\ edits' \in Nat
    BY <2>1, <1>0 DEF Disks
  <2>3. Remembers(onDisk, onDisk', now) /\ files' \in onDisk'[now]
    BY <2>1, <1>0 DEF Remembers
  <2>4. SoundDisk(onDisk, now)'
    BY <2>1, <2>2, <2>3, <1>0 DEF SoundDisk
  <2>5. SoundCache(cached, now, onDisk)'
    BY <2>1, <2>3, <1>0, StillSoundCache DEF IntakeInv
  <2>6. \A r \in Intakes : Sound(r, request'[r], now, onDisk', routed)
    <3> SUFFICES ASSUME NEW r \in Intakes PROVE Sound(r, request'[r], now, onDisk', routed)
      OBVIOUS
    <3>1. /\ Sound(r, request[r], now, onDisk, routed)
          /\ request[r].at \in {"validate", "store"} => now <= request[r].began + MaxValidation
      BY <1>00 DEF Sound
    <3>2. Sound(r, request[r], now, onDisk', routed)
      BY <3>1, <2>3, <1>0, StillSound
    <3>3. CASE request[r].at # "validate"
      BY <2>1, <3>2, <3>3, <1>00 DEF IntakeAt, IntakeType
    <3>4. CASE request[r].at = "validate"
      <4> DEFINE q == [request[r] EXCEPT !.met = request[r].met \cup {files'}]
      <4>1. request'[r] = q
        BY <2>1, <3>4 DEF IntakeAt
      <4>2. /\ q \in IntakeType /\ q.at = "validate" /\ q.began = request[r].began
            /\ q.met = request[r].met \cup {files'}
        BY <2>2, <3>4, <1>00 DEF IntakeType
      <4> HIDE DEF q
      <4>3. /\ request[r].met \subseteq Met(onDisk', request[r].began, now)
            /\ request[r].began <= now /\ now <= request[r].began + MaxValidation
        BY <3>2, <3>4 DEF Sound
      <4>4. files' \in Met(onDisk', request[r].began, now)
        <5>1. now \in request[r].began .. now
          BY <4>3, <1>0, <1>00 DEF IntakeType
        <5> QED
          BY <2>3, <5>1 DEF Met
      <4>5. Sound(r, q, now, onDisk', routed)
        BY <4>2, <4>3, <4>4 DEF Sound
      <4> QED
        BY <4>1, <4>5
    <3> QED
      BY <3>3, <3>4
  <2>7. DOMAIN request' = Intakes
    BY <2>1
  <2> QED
    BY <2>1, <2>4, <2>5, <2>6, <2>7, <1>0 DEF IntakeInv
<1>9. CASE ClockTicks
  <2>1. /\ onDisk' = [onDisk EXCEPT ![now + 1] = {files}] /\ files' = files /\ now' = now + 1
        /\ now < MaxTime /\ edits' = edits
        /\ cached' = cached /\ request' = request /\ routed' = routed
        /\ \A r \in Intakes : IntakeAt(r, "validate") \/ IntakeAt(r, "store")
                             => now - request[r].began < MaxValidation
    BY <1>9 DEF ClockTicks
  <2>2. Remembers(onDisk, onDisk', now)
    BY <2>1, <1>0 DEF Remembers
  <2>3. SoundDisk(onDisk, now)'
    BY <2>1, <1>0 DEF SoundDisk
  <2>4. SoundCache(cached, now, onDisk)'
    BY <2>1, <2>2, <1>0, StillSoundCache DEF IntakeInv
  <2>5. \A r \in Intakes : Sound(r, request[r], now + 1, onDisk', routed)
    <3> SUFFICES ASSUME NEW r \in Intakes PROVE Sound(r, request[r], now + 1, onDisk', routed)
      OBVIOUS
    <3>1. Sound(r, request[r], now, onDisk, routed) /\ request[r].began \in Nat
      BY <1>00 DEF IntakeType
    <3>2. request[r].at \in {"validate", "store"} => now + 1 <= request[r].began + MaxValidation
      <4>1. request[r].at \in {"validate", "store"} => now - request[r].began < MaxValidation
        BY <2>1 DEF IntakeAt
      <4> QED
        BY <4>1, <3>1, <1>0, IntakeConstants
    <3> QED
      BY <3>1, <3>2, <2>2, <1>0, StillSound
  <2> QED
    BY <2>1, <2>3, <2>4, <2>5, <1>0 DEF IntakeInv
<1>10. CASE RestartIntake
  <2>1. /\ onDisk' = onDisk /\ files' = files /\ edits' = edits /\ now' = now /\ cached' = NoAgent
        /\ request' = [r \in Intakes |-> NewIntake]
    BY <1>10 DEF RestartIntake
  <2>2. NewIntake \in IntakeType /\ NewIntake.at = "idle"
    BY NewIsTyped
  <2>3. \A r \in Intakes : Sound(r, NewIntake, now, onDisk, routed')
    BY <2>2 DEF Sound
  <2> QED
    BY <2>1, <2>3, <1>0 DEF IntakeInv, SoundDisk, SoundCache
<1>11. CASE UNCHANGED routerVars
  BY <1>11 DEF routerVars, IntakeInv, SoundDisk
<1> QED
  BY <1>1, <1>2, <1>3, <1>4, <1>5, <1>6, <1>7, <1>8, <1>9, <1>10, <1>11 DEF IntakeNext

LEMMA SeenIsRecent ==
  ASSUME NEW r \in Intakes, request[r] \in IntakeType,
         SeenWithin(onDisk, request[r].outcome, Age(request[r].outcome), request[r].taken)
  PROVE  Recent(r, Lifetime(request[r].outcome) - 1)
<1>1. PICK b, e \in 0 .. request[r].taken :
         /\ b <= e /\ e <= b + MaxValidation
         /\ request[r].taken <= b + Age(request[r].outcome)
         /\ MayFind(request[r].outcome, Met(onDisk, b, e))
  BY DEF SeenWithin
<1>2. request[r].taken \in Nat /\ Lifetime(request[r].outcome) - 1 \in Nat /\ MaxValidation \in Nat
  BY IntakeConstants DEF IntakeType, Lifetime
<1> DEFINE ttl == Lifetime(request[r].outcome) - 1
<1>3. request[r].taken <= b + ttl + MaxValidation
  BY <1>1, <1>2 DEF Age
<1> HIDE DEF ttl
<1>4. ttl \in Nat
  BY <1>2 DEF ttl
<1> DEFINE from == IF request[r].taken > ttl + MaxValidation
                   THEN request[r].taken - ttl - MaxValidation ELSE 0
<1>5. b \in from .. request[r].taken /\ e \in from .. request[r].taken
  BY <1>1, <1>2, <1>3, <1>4
<1>6. request[r].outcome \in Findings(b, e)
  BY <1>1 DEF MayFind, Met, Findings
<1> QED
  BY <1>1, <1>5, <1>6 DEF Recent, ttl

LEMMA InvRoutedByTheCatalog == IntakeInv => RoutedByTheCatalog
<1> SUFFICES ASSUME IntakeInv, NEW r \in Intakes
             PROVE  /\ request[r].at \in {"select", "audit", "selected", "bad request"} =>
                          Recent(r, Lifetime(request[r].outcome) - 1)
                    /\ IntakeAt(r, "selected") =>
                          /\ request[r].outcome # Broken /\ request[r].agent \in request[r].outcome
                          /\ <<r, "selected", request[r].agent>> \in routed
                    /\ IntakeAt(r, "accepted") => <<r, "accepted", request[r].agent>> \in routed
  BY DEF RoutedByTheCatalog
<1>1. Sound(r, request[r], now, onDisk, routed)
  BY DEF IntakeInv
<1>2. request[r].at \in {"select", "audit", "selected", "bad request"} =>
         Recent(r, Lifetime(request[r].outcome) - 1)
  BY <1>1, SeenIsRecent DEF Sound
<1> QED
  BY <1>1, <1>2 DEF Sound, IntakeAt, Logged

\* A prompt is routed by, and refused because of, what a validation finds in the files as they
\* were no longer ago than a report or an error is kept and one validation takes, however many
\* requests validate at once, whoever changes the files meanwhile and in whichever order the
\* outcomes are stored; the agent that is answered is one of that report, and it is in the
\* audit log.
THEOREM RoutesByARecentCatalog == IntakeSpec => []RoutedByTheCatalog
<1> QED
  BY InitIntakeInv, StepIntakeInv, InvRoutedByTheCatalog, PTL DEF IntakeSpec
=============================================================================
