-------------------------- MODULE ModelGatewayProofs --------------------------
(* The properties of ModelGateway, for any number of calls, any requests and *)
(* any number of failures, departures and restarts, and of the Routing of a   *)
(* request to its model, for any aliases and policies.  What makes the first  *)
(* inductive is what each place in a handler implies: that a session has a    *)
(* row exactly when its call opened it, which events stand in the log by      *)
(* then, and what the deferred finish is about to write.                      *)
EXTENDS ModelGateway, Routing, TLAPS

Before   == {"check", "audit_auto", "create"}
Asking   == {"route", "upstream", "answer"}
Deciding == {"delegate", "audit_child", "create_child"}
Ending   == {"respond", "finish"}
Over     == {"done", "lost"}
Places   == {"idle", "forward"} \cup Before \cup Asking \cup Deciding \cup Ending \cup Over

CallRecord ==
    [pc : Places, kind : Kinds \cup {Unset}, stream : BOOLEAN,
     sess : GatewaySessions \cup {Unset}, finish : {"failed", "completed"},
     result : {"error", "whole", "incomplete", "left", Unset}, task : BOOLEAN,
     gone : BOOLEAN, answered : BOOLEAN]

AbortRecord ==
    [pc : {"idle", "audit", "swap", "aborted", "refused"},
     sess : GatewaySessions \cup {Unset}, seen : Open \cup {Unset}]

GatewayTypeOK ==
    /\ raw \in BOOLEAN
    /\ status \in [GatewaySessions -> Statuses]
    /\ call \in [Calls -> CallRecord]
    /\ child \in SUBSET Calls /\ lost \in SUBSET Calls
    /\ abort \in AbortRecord
    /\ troubles \in Nat

-----------------------------------------------------------------------------
(* The invariant, call by call.                                            *)

Recorded(c) == <<"model.call", c>> \in log \/ <<"stream.completed", c>> \in log
HasSession(c) == call[c].sess \in GatewaySessions /\ status[call[c].sess] # Unset

\* Where a call may be, and of what kind it is there.
PlaceInv(c) ==
    /\ call[c].pc = "idle" => call[c] = NoCall
    /\ call[c].pc \in {"audit_auto", "create", "route"} \cup Deciding \cup Ending =>
          call[c].kind \in Models
    /\ call[c].pc = "check" => call[c].kind \in Models \cup {"mcp"}
    /\ call[c].pc \in {"upstream", "answer"} => call[c].kind \in Models \cup {"proxy"}
    /\ call[c].pc = "forward" => call[c].kind = "mcp" /\ <<"mcp.forwarded", c>> \in log
    /\ call[c].pc \in Asking \cup Deciding => HasSession(c)

\* A call and the session of its own.
OwnInv(c) ==
    /\ status[c] # Unset <=> AutoSession(c)
    /\ AutoSession(c) =>
          /\ call[c].kind \in Models
          /\ call[c].pc \in Asking \cup Deciding \cup Ending \cup Over
          /\ call[c].pc \notin Over => status[c] \in {"running", "aborted"}
          /\ call[c].pc = "done" => status[c] # "running" \/ c \in lost
          /\ call[c].pc = "lost" => c \in lost

\* What finishStatus holds on the way.
EndInv(c) ==
    /\ call[c].pc \in {"idle"} \cup Before \cup Asking => call[c].finish = "failed"
    /\ call[c].pc \in {"idle", "route", "upstream"} \cup Before => call[c].result = Unset
    /\ call[c].pc \in Deciding \cup Ending /\ call[c].stream =>
          (call[c].finish = "completed" <=> call[c].result = "whole")
    /\ AutoSession(c) /\ call[c].stream /\ call[c].pc = "done" /\ c \notin lost =>
          status[c] \in {IF call[c].result = "whole" THEN "completed" ELSE "failed", "aborted"}

\* What stands in the log.
LogInv(c) ==
    /\ call[c].answered => /\ call[c].pc \in {"finish"} \cup Over
                           /\ call[c].kind = "mcp"   => <<"mcp.forwarded", c>> \in log
                           /\ call[c].kind = "proxy" => <<"model.proxy_call", c>> \in log
    /\ call[c].pc \in Deciding => Recorded(c)
    /\ call[c].pc = "create_child" => <<"session.delegated", c>> \in log
    /\ c \in child => /\ call[c].pc \in Ending \cup Over
                      /\ <<"session.delegated", c>> \in log
                      /\ Recorded(c) /\ HasSession(c)

CallInv(c) == PlaceInv(c) /\ OwnInv(c) /\ EndInv(c) /\ LogInv(c)

\* The abort: it has a session with a row, and holds once it was answered.
AbortInv ==
    /\ abort.pc \in {"audit", "swap"} => abort.sess \in GatewaySessions /\ abort.seen \in Open
    /\ abort.pc = "aborted" => abort.sess \in GatewaySessions
    /\ AbortHolds

GatewayInv == GatewayTypeOK /\ (\A c \in Calls : CallInv(c)) /\ AbortInv

-----------------------------------------------------------------------------
(* What a step of one call may leave to be shown.                          *)

\* A step of one call changes that call, the session named by it and what the log and the
\* histories say of it; the log only grows and a row stays.
Advances(c, new) ==
    /\ call' = [call EXCEPT ![c] = new]
    /\ status' \in [GatewaySessions -> Statuses]
    /\ \A s \in GatewaySessions \ {c} : status'[s] = status[s]
    /\ status[c] # Unset => status'[c] # Unset
    /\ status[c] = "aborted" => status'[c] = "aborted"
    /\ log \subseteq log'
    /\ child' \in SUBSET Calls /\ \A d \in Calls \ {c} : d \in child' <=> d \in child
    /\ lost' \in SUBSET Calls /\ \A d \in Calls \ {c} : d \in lost' <=> d \in lost
    /\ troubles' \in Nat /\ raw' = raw /\ abort' = abort

LEMMA Elsewhere ==
  ASSUME GatewayInv, NEW c \in Calls, NEW new, Advances(c, new), NEW d \in Calls, d # c
  PROVE  CallInv(d)'
<1>1. call'[d] = call[d] /\ status'[d] = status[d] /\ log \subseteq log'
      /\ (d \in child' <=> d \in child) /\ (d \in lost' <=> d \in lost)
  BY DEF Advances, GatewayInv, GatewayTypeOK, GatewaySessions
<1>2. HasSession(d) => HasSession(d)'
  BY <1>1 DEF HasSession, Advances
<1>3. (AutoSession(d) <=> AutoSession(d)') /\ (Recorded(d) => Recorded(d)')
  BY <1>1 DEF AutoSession, Recorded
<1>4. CallInv(d)
  BY DEF GatewayInv
<1>5. PlaceInv(d)'
  BY <1>1, <1>2, <1>4 DEF CallInv, PlaceInv
<1>6. OwnInv(d)'
  BY <1>1, <1>3, <1>4 DEF CallInv, OwnInv
<1>7. EndInv(d)'
  BY <1>1, <1>3, <1>4 DEF CallInv, EndInv
<1>8. LogInv(d)'
  BY <1>1, <1>2, <1>3, <1>4 DEF CallInv, LogInv
<1> QED
  BY <1>5, <1>6, <1>7, <1>8 DEF CallInv

LEMMA OneCall ==
  ASSUME GatewayInv, NEW c \in Calls, NEW new \in CallRecord, Advances(c, new), CallInv(c)'
  PROVE  GatewayInv'
<1>1. \A d \in Calls : CallInv(d)'
  BY Elsewhere
<1>2. GatewayTypeOK'
  BY DEF Advances, GatewayInv, GatewayTypeOK
<1>3. AbortInv'
  BY DEF Advances, GatewayInv, AbortInv, AbortHolds
<1> QED
  BY <1>1, <1>2, <1>3 DEF GatewayInv

\* Most steps of a call leave the sessions and the histories alone.
Quietly == UNCHANGED <<raw, status, child, abort, lost>> /\ log \subseteq log' /\ troubles' \in Nat

LEMMA QuietCall ==
  ASSUME GatewayInv, NEW c \in Calls, NEW new \in CallRecord,
         call' = [call EXCEPT ![c] = new], Quietly, CallInv(c)'
  PROVE  GatewayInv'
<1>1. Advances(c, new)
  BY DEF Advances, Quietly, GatewayInv, GatewayTypeOK
<1> QED
  BY <1>1, OneCall

LEMMA Appending ==
  ASSUME GatewayInv, NEW c \in Calls, NEW event, NEW detached \in BOOLEAN, NEW ok \in BOOLEAN,
         AppendEvent(c, event, detached, ok)
  PROVE  log \subseteq log' /\ troubles' \in Nat /\ (ok => <<event, c>> \in log')
  BY DEF AppendEvent, DbWorks, GatewayInv, GatewayTypeOK

\* A call that is turned away has no session of its own and has done nothing.
LEMMA TurnedAway ==
  ASSUME GatewayInv, GatewayConstants, NEW c \in Calls, TurnAway(c), Quietly,
         call[c].pc \in {"idle"} \cup Before \cup {"answer"},
         call[c].pc = "answer" => call[c].kind = "proxy"
  PROVE  GatewayInv'
<1> DEFINE new == [NoCall EXCEPT !.pc = "done"]
<1>1. new \in CallRecord
  BY DEF NoCall, CallRecord, Places, Over, GatewaySessions
<1>2. call' = [call EXCEPT ![c] = new]
  BY DEF TurnAway
<1>3. call[c] \in CallRecord /\ CallInv(c) /\ call'[c] = new /\ c # Unset
  BY <1>2 DEF GatewayInv, GatewayTypeOK, GatewayConstants, GatewaySessions
<1>4. ~ AutoSession(c) /\ ~ AutoSession(c)' /\ c \notin child
  BY <1>3 DEF CallInv, PlaceInv, OwnInv, LogInv, AutoSession, NoCall, Before, Asking, Deciding, Ending,
              Over, Models
<1>5. PlaceInv(c)'
  BY <1>3 DEF PlaceInv, NoCall, Asking, Deciding, Ending
<1>6. OwnInv(c)'
  BY <1>3, <1>4 DEF CallInv, OwnInv, Quietly
<1>7. EndInv(c)'
  BY <1>3, <1>4 DEF EndInv, NoCall, Before, Asking, Deciding, Ending
<1>8. LogInv(c)'
  BY <1>3, <1>4 DEF LogInv, NoCall, Deciding, Quietly
<1> QED
  BY <1>1, <1>2, <1>5, <1>6, <1>7, <1>8, QuietCall DEF CallInv

-----------------------------------------------------------------------------
(* The steps of a call.                                                    *)

LEMMA ArriveAutoInv ==
  ASSUME GatewayInv, NEW c \in Calls, NEW kind \in Kinds, NEW stream \in BOOLEAN,
         ArriveAuto(c, kind, stream)
  PROVE  GatewayInv'
<1> DEFINE new == [call[c] EXCEPT !.pc = "check", !.kind = kind, !.stream = stream]
<1>1. call[c] \in CallRecord /\ CallInv(c) /\ call[c] = NoCall /\ kind \in Models
  BY DEF ArriveAuto, CallInv, PlaceInv, GatewayInv, GatewayTypeOK
<1>2. new \in CallRecord /\ call' = [call EXCEPT ![c] = new] /\ call'[c] = new
  BY <1>1 DEF ArriveAuto, CallRecord, Places, Before, GatewayInv, GatewayTypeOK
<1>3. Quietly
  BY DEF ArriveAuto, Quietly, GatewayInv, GatewayTypeOK
<1>4. /\ new.pc = "check" /\ new.kind = kind /\ new.sess = call[c].sess /\ new.finish = "failed"
      /\ new.result = Unset /\ ~ new.answered
  BY <1>1 DEF CallRecord, NoCall
<1>5. ~ AutoSession(c) /\ c \notin child /\ call[c].pc = "idle"
  BY <1>1 DEF CallInv, OwnInv, LogInv, NoCall, Asking, Deciding, Ending, Over
<1> HIDE DEF new
<1>6. ~ AutoSession(c)'
  BY <1>2, <1>4, <1>5 DEF AutoSession
<1>7. PlaceInv(c)'
  BY <1>1, <1>2, <1>4 DEF PlaceInv, Asking, Deciding, Ending
<1>8. OwnInv(c)'
  BY <1>1, <1>3, <1>5, <1>6 DEF CallInv, OwnInv, Quietly
<1>9. EndInv(c)'
  BY <1>2, <1>4, <1>6 DEF EndInv, Before, Asking, Deciding, Ending
<1>10. LogInv(c)'
  BY <1>2, <1>3, <1>4, <1>5 DEF LogInv, Quietly, Deciding
<1> QED
  BY <1>2, <1>3, <1>7, <1>8, <1>9, <1>10, QuietCall DEF CallInv

LEMMA ArriveWithSessionInv ==
  ASSUME GatewayInv, GatewayConstants, NEW c \in Calls, NEW kind \in Kinds, NEW stream \in BOOLEAN,
         NEW s \in GatewaySessions, ArriveWithSession(c, kind, stream, s)
  PROVE  GatewayInv'
<1> DEFINE next == CASE kind = "mcp" -> "check" [] kind = "proxy" -> "upstream" [] OTHER -> "route"
           new  == [call[c] EXCEPT !.pc = next, !.kind = kind, !.stream = stream, !.sess = s]
<1>1. call[c] \in CallRecord /\ CallInv(c) /\ call[c].pc = "idle" /\ s # c
  BY DEF GatewayInv, GatewayTypeOK, ArriveWithSession
<1>2. Quietly
  BY DEF ArriveWithSession, Quietly, GatewayInv, GatewayTypeOK
<1>3. CASE TurnAway(c)
  BY <1>1, <1>2, <1>3, TurnedAway
<1>4. CASE status[s] # Unset /\ call' = [call EXCEPT ![c] = new]
  <2>1. /\ next \in {"check", "upstream", "route"} /\ (next = "route" => kind \in Models)
        /\ (next = "check" => kind = "mcp") /\ (next = "upstream" => kind = "proxy")
    BY DEF Kinds, Models
  <2> HIDE DEF next
  <2>2. new \in CallRecord /\ call'[c] = new
    BY <1>1, <1>4, <2>1 DEF CallRecord, Places, Before, Asking, GatewayInv, GatewayTypeOK
  <2>3. ~ AutoSession(c)
    BY <1>1 DEF AutoSession, CallInv, PlaceInv, NoCall, GatewayConstants, GatewaySessions
  <2>4. call'[c].sess = s /\ status' = status
    BY <1>1, <1>2, <2>2 DEF CallRecord, Quietly
  <2>5. ~ AutoSession(c)' /\ HasSession(c)'
    BY <1>1, <1>4, <2>4 DEF AutoSession, HasSession
  <2>6. CallInv(c)'
    BY <1>1, <1>2, <2>1, <2>2, <2>3, <2>5 DEF CallInv, PlaceInv, OwnInv, EndInv, LogInv, Quietly,
       NoCall, CallRecord, Before, Asking, Deciding, Ending, Over
  <2> QED
    BY <1>2, <1>4, <2>2, <2>6, QuietCall
<1> QED
  BY <1>3, <1>4 DEF ArriveWithSession

\* A step that moves a call on, and what is known of the place it comes to.
Moved(c, place) ==
    /\ call[c] \in CallRecord /\ CallInv(c)
    /\ call'[c] \in CallRecord /\ call' = [call EXCEPT ![c] = call'[c]]
    /\ call'[c].pc = place /\ call'[c].kind = call[c].kind /\ call'[c].stream = call[c].stream
    /\ call'[c].finish = call[c].finish /\ call'[c].result = call[c].result
    /\ call'[c].answered = call[c].answered
    /\ AutoSession(c)' <=> AutoSession(c)
    /\ HasSession(c) => HasSession(c)'

LEMMA Going ==
  ASSUME GatewayInv, NEW c \in Calls, NEW place \in Places, Goto(c, place), UNCHANGED status
  PROVE  Moved(c, place)
<1> DEFINE new == [call[c] EXCEPT !.pc = place]
<1>1. call[c] \in CallRecord /\ CallInv(c) /\ call \in [Calls -> CallRecord]
  BY DEF GatewayInv, GatewayTypeOK
<1>2. new \in CallRecord /\ call' = [call EXCEPT ![c] = new] /\ call'[c] = new
  BY <1>1 DEF Goto, CallRecord
<1>3. call'[c].sess = call[c].sess
  BY <1>1, <1>2 DEF CallRecord
<1>4. (AutoSession(c)' <=> AutoSession(c)) /\ (HasSession(c) => HasSession(c)')
  BY <1>3 DEF AutoSession, HasSession
<1> QED
  BY <1>1, <1>2, <1>4 DEF Moved, CallRecord

LEMMA CheckAutoInv ==
  ASSUME GatewayInv, GatewayConstants, NEW c \in Calls, CheckAuto(c)
  PROVE  GatewayInv'
<1>1. Quietly /\ call[c].pc = "check" /\ call[c].kind # "mcp"
  BY DEF CheckAuto, Quietly, GatewayInv, GatewayTypeOK
<1>2. CASE TurnAway(c)
  BY <1>1, <1>2, TurnedAway DEF Before
<1>3. CASE Goto(c, "audit_auto")
  <2>1. "audit_auto" \in Places \ {"idle"}
    BY DEF Places, Before
  <2>2. Moved(c, "audit_auto")
    BY <1>1, <1>3, <2>1, Going DEF Quietly
  <2>3. CallInv(c)'
    BY <1>1, <2>2 DEF Moved, CallInv, PlaceInv, OwnInv, EndInv, LogInv, Quietly, CallRecord,
       Before, Asking, Deciding, Ending, Over
  <2> QED
    BY <1>1, <2>2, <2>3, QuietCall DEF Moved
<1> QED
  BY <1>2, <1>3 DEF CheckAuto

LEMMA AuditAutoInv ==
  ASSUME GatewayInv, GatewayConstants, NEW c \in Calls, AuditAuto(c)
  PROVE  GatewayInv'
<1>1. PICK ok \in BOOLEAN : AppendEvent(c, "session.auto_created", FALSE, ok)
                            /\ IF ok THEN Goto(c, "create") ELSE TurnAway(c)
  BY DEF AuditAuto
<1>2. Quietly /\ call[c].pc = "audit_auto"
  BY <1>1, Appending DEF AuditAuto, Quietly
<1>3. CASE TurnAway(c)
  BY <1>2, <1>3, TurnedAway DEF Before
<1>4. CASE Goto(c, "create")
  <2>1. "create" \in Places \ {"idle"}
    BY DEF Places, Before
  <2>2. Moved(c, "create")
    BY <1>2, <1>4, <2>1, Going DEF Quietly
  <2>3. CallInv(c)'
    BY <1>2, <2>2 DEF Moved, CallInv, PlaceInv, OwnInv, EndInv, LogInv, Quietly, CallRecord,
       Before, Asking, Deciding, Ending, Over
  <2> QED
    BY <1>2, <2>2, <2>3, QuietCall DEF Moved
<1> QED
  BY <1>1, <1>3, <1>4

\* The row of an auto session: the session is the call's own from here on.
LEMMA CreateAutoInv ==
  ASSUME GatewayInv, GatewayConstants, NEW c \in Calls, CreateAuto(c)
  PROVE  GatewayInv'
<1>1. PICK ok \in BOOLEAN :
         /\ DbWorks(call[c].gone, ok)
         /\ IF ok THEN /\ status' = [status EXCEPT ![c] = "running"]
                       /\ call' = [call EXCEPT ![c].pc = "route", ![c].sess = c]
                  ELSE TurnAway(c) /\ UNCHANGED status
  BY DEF CreateAuto
<1>2. /\ call[c].pc = "create" /\ UNCHANGED <<raw, child, log, abort, lost>> /\ troubles' \in Nat
      /\ call[c] \in CallRecord /\ CallInv(c)
  BY <1>1 DEF CreateAuto, DbWorks, GatewayInv, GatewayTypeOK
<1>3. CASE ~ ok
  <2>1. TurnAway(c) /\ Quietly
    BY <1>1, <1>2, <1>3 DEF Quietly
  <2> QED
    BY <1>2, <2>1, TurnedAway DEF Before
<1>4. CASE ok
  <2> DEFINE new == [call[c] EXCEPT !.pc = "route", !.sess = c]
  <2>1. new \in CallRecord /\ call' = [call EXCEPT ![c] = new] /\ call'[c] = new
    BY <1>1, <1>2, <1>4 DEF CallRecord, Places, Asking, GatewaySessions, GatewayInv, GatewayTypeOK
  <2>2. /\ new.pc = "route" /\ new.sess = c /\ new.kind = call[c].kind
        /\ new.finish = call[c].finish /\ new.result = call[c].result
        /\ new.answered = call[c].answered
    BY <1>2 DEF CallRecord
  <2>3. status[c] = Unset /\ status' = [status EXCEPT ![c] = "running"] /\ c # Unset
    BY <1>1, <1>2, <1>4 DEF CallInv, OwnInv, Asking, Deciding, Ending, Over, GatewayConstants,
       GatewaySessions
  <2>4. status'[c] = "running" /\ "running" # Unset /\ c \in GatewaySessions
    BY <2>3 DEF GatewayInv, GatewayTypeOK, GatewaySessions, GatewayConstants, Open
  <2> HIDE DEF new
  <2>5. Advances(c, new)
    BY <1>2, <2>1, <2>3, <2>4 DEF Advances, GatewayInv, GatewayTypeOK, Statuses, Open, GatewaySessions,
       GatewayConstants
  <2>6. AutoSession(c)' /\ HasSession(c)'
    BY <2>1, <2>2, <2>4 DEF AutoSession, HasSession
  <2>7. CallInv(c)'
    BY <1>2, <2>1, <2>2, <2>4, <2>6 DEF CallInv, PlaceInv, OwnInv, EndInv, LogInv, Before, Asking,
       Deciding, Ending, Over, Recorded
  <2> QED
    BY <2>1, <2>5, <2>7, OneCall
<1> QED
  BY <1>3, <1>4

LEMMA RouteInv ==
  ASSUME GatewayInv, GatewayConstants, NEW c \in Calls, Route(c)
  PROVE  GatewayInv'
<1>1. PICK place \in {"upstream", "finish"} : Goto(c, place)
  BY DEF Route
<1>2. Quietly /\ UNCHANGED status /\ call[c].pc = "route" /\ place \in Places
  BY DEF Route, Quietly, GatewayInv, GatewayTypeOK, Places, Asking, Ending
<1>3. Moved(c, place) /\ Unset # "whole"
  BY <1>1, <1>2, Going DEF GatewayConstants
<1>4. CallInv(c)'
  BY <1>2, <1>3 DEF Moved, CallInv, PlaceInv, OwnInv, EndInv, LogInv, Quietly, CallRecord, Before,
     Asking, Deciding, Ending, Over
<1> QED
  BY <1>2, <1>3, <1>4, QuietCall DEF Moved

LEMMA UpstreamInv ==
  ASSUME GatewayInv, NEW c \in Calls, Upstream(c)
  PROVE  GatewayInv'
<1>1. PICK r \in Results(c), t \in BOOLEAN :
         call' = [call EXCEPT ![c].pc = "answer", ![c].result = r, ![c].task = t]
  BY DEF Upstream
<1> DEFINE new == [call[c] EXCEPT !.pc = "answer", !.result = r, !.task = t]
<1>2. r \in {"error", "whole", "incomplete", "left"}
  BY DEF Results
<1>3. call[c] \in CallRecord /\ CallInv(c) /\ Quietly /\ call[c].pc = "upstream"
  BY DEF Upstream, Quietly, GatewayInv, GatewayTypeOK
<1>4. new \in CallRecord /\ call' = [call EXCEPT ![c] = new] /\ call'[c] = new
  BY <1>1, <1>2, <1>3 DEF CallRecord, Places, Asking, GatewayInv, GatewayTypeOK
<1>5. /\ new.pc = "answer" /\ new.sess = call[c].sess /\ new.kind = call[c].kind
      /\ new.finish = call[c].finish /\ new.answered = call[c].answered
  BY <1>3 DEF CallRecord
<1> HIDE DEF new
<1>6. (AutoSession(c)' <=> AutoSession(c)) /\ (HasSession(c) => HasSession(c)')
  BY <1>3, <1>4, <1>5 DEF AutoSession, HasSession, Quietly
<1>7. PlaceInv(c)' /\ OwnInv(c)'
  BY <1>3, <1>4, <1>5, <1>6 DEF CallInv, PlaceInv, OwnInv, Quietly, Before, Asking, Deciding, Ending, Over
<1>8. EndInv(c)'
  BY <1>3, <1>4, <1>5, <1>6 DEF CallInv, EndInv, Before, Asking, Deciding, Ending, Over
<1>9. LogInv(c)'
  BY <1>3, <1>4, <1>5, <1>6 DEF CallInv, LogInv, Quietly, Before, Asking, Deciding, Ending, Over
<1> QED
  BY <1>3, <1>4, <1>7, <1>8, <1>9, QuietCall DEF CallInv

\* The end of the answer is recorded, or not; only a recorded whole one is delegated from.
LEMMA AuditCallInv ==
  ASSUME GatewayInv, NEW c \in Calls, AuditCall(c)
  PROVE  GatewayInv'
<1> DEFINE whole == call[c].result = "whole"
           place(ok) == IF ok /\ whole /\ call[c].task THEN "delegate" ELSE "respond"
           finish == IF whole /\ (call[c].stream \/ ~raw) THEN "completed" ELSE call[c].finish
           new(ok) == [call[c] EXCEPT !.pc = place(ok), !.finish = finish]
<1>1. PICK ok \in BOOLEAN :
         /\ AppendEvent(c, EndEvent(c), call[c].result = "left", ok)
         /\ call' = [call EXCEPT ![c].pc = place(ok), ![c].finish = finish]
  BY DEF AuditCall, GatewayInv, GatewayTypeOK
<1>2. log \subseteq log' /\ troubles' \in Nat /\ (ok => <<EndEvent(c), c>> \in log')
  BY <1>1, Appending
<1>3. call[c] \in CallRecord /\ CallInv(c) /\ Quietly /\ call[c].pc = "answer" /\ call[c].kind # "proxy"
  BY <1>2 DEF AuditCall, Quietly, GatewayInv, GatewayTypeOK
<1>4. new(ok) \in CallRecord /\ call' = [call EXCEPT ![c] = new(ok)] /\ call'[c] = new(ok)
  <2>1. place(ok) \in Places /\ finish \in {"failed", "completed"}
    BY <1>3 DEF CallRecord, Places, Deciding, Ending
  <2>2. new(ok) \in CallRecord
    <3> HIDE DEF place, finish
    <3> QED
      BY <1>3, <2>1 DEF CallRecord
  <2>3. call' = [call EXCEPT ![c] = new(ok)]
    BY <1>1, <1>3 DEF GatewayInv, GatewayTypeOK
  <2> HIDE DEF new
  <2> QED
    BY <2>2, <2>3 DEF GatewayInv, GatewayTypeOK
<1>5. /\ new(ok).pc = place(ok) /\ new(ok).finish = finish /\ new(ok).sess = call[c].sess
      /\ new(ok).kind = call[c].kind /\ new(ok).stream = call[c].stream
      /\ new(ok).result = call[c].result /\ new(ok).answered = call[c].answered
  BY <1>3 DEF CallRecord
<1>6. (AutoSession(c)' <=> AutoSession(c)) /\ (HasSession(c) => HasSession(c)')
  BY <1>3, <1>4, <1>5 DEF AutoSession, HasSession, Quietly
<1>7. place(ok) \in {"delegate", "respond"} /\ (place(ok) = "delegate" => Recorded(c)')
  <2>1. whole => EndEvent(c) \in {"model.call", "stream.completed"}
    BY DEF EndEvent
  <2> QED
    BY <1>2, <2>1 DEF Recorded
<1>8. finish = "completed" <=> whole /\ (call[c].stream \/ ~raw)
  BY <1>3 DEF CallInv, EndInv, Asking
<1> HIDE DEF new, place, finish
<1>9. PlaceInv(c)'
  BY <1>3, <1>4, <1>5, <1>6, <1>7 DEF CallInv, PlaceInv, Asking, Deciding, Ending
<1>10. OwnInv(c)'
  BY <1>3, <1>4, <1>5, <1>6, <1>7 DEF CallInv, OwnInv, Quietly, Asking, Deciding, Ending, Over
<1>11. EndInv(c)'
  BY <1>3, <1>4, <1>5, <1>7, <1>8 DEF EndInv, Before, Asking, Deciding, Ending
<1>12. LogInv(c)'
  BY <1>3, <1>4, <1>5, <1>6, <1>7 DEF CallInv, LogInv, Quietly, Asking, Deciding, Ending, Over
<1> QED
  BY <1>3, <1>4, <1>9, <1>10, <1>11, <1>12, QuietCall DEF CallInv

LEMMA AuditProxyInv ==
  ASSUME GatewayInv, GatewayConstants, NEW c \in Calls, AuditProxy(c)
  PROVE  GatewayInv'
<1>1. call[c] \in CallRecord /\ CallInv(c) /\ call[c].pc = "answer" /\ call[c].kind = "proxy"
  BY DEF AuditProxy, GatewayInv, GatewayTypeOK
<1>2. CASE call[c].result # "whole"
  <2>1. TurnAway(c) /\ Quietly
    BY <1>2 DEF AuditProxy, Quietly, GatewayInv, GatewayTypeOK
  <2> QED
    BY <1>1, <2>1, TurnedAway
<1>3. CASE call[c].result = "whole"
  <2>1. PICK ok \in BOOLEAN : /\ AppendEvent(c, "model.proxy_call", FALSE, ok)
                              /\ call' = [call EXCEPT ![c].pc = "done", ![c].answered = ok]
    BY <1>3 DEF AuditProxy
  <2> DEFINE new == [call[c] EXCEPT !.pc = "done", !.answered = ok]
  <2>2. Quietly /\ (ok => <<"model.proxy_call", c>> \in log')
    BY <2>1, Appending DEF AuditProxy, Quietly
  <2>3. new \in CallRecord /\ call' = [call EXCEPT ![c] = new] /\ call'[c] = new
    BY <1>1, <2>1 DEF CallRecord, Places, Over, GatewayInv, GatewayTypeOK
  <2>4. /\ new.pc = "done" /\ new.sess = call[c].sess /\ new.kind = call[c].kind
        /\ new.answered = ok
    BY <1>1 DEF CallRecord
  <2> HIDE DEF new
  <2>5. ~ AutoSession(c) /\ ~ AutoSession(c)' /\ c \notin child
    BY <1>1, <2>3, <2>4 DEF CallInv, OwnInv, LogInv, AutoSession, Models, Ending, Over
  <2>6. CallInv(c)'
    BY <1>1, <2>2, <2>3, <2>4, <2>5 DEF CallInv, PlaceInv, OwnInv, EndInv, LogInv, Quietly, Before,
       Asking, Deciding, Ending, Over
  <2> QED
    BY <2>2, <2>3, <2>6, QuietCall
<1> QED
  BY <1>2, <1>3

LEMMA CheckDelegationInv ==
  ASSUME GatewayInv, NEW c \in Calls, CheckDelegation(c)
  PROVE  GatewayInv'
<1>1. PICK place \in {"audit_child", "respond"} : Goto(c, place)
  BY DEF CheckDelegation
<1>2. Quietly /\ UNCHANGED status /\ call[c].pc = "delegate" /\ place \in Places
  BY DEF CheckDelegation, Quietly, GatewayInv, GatewayTypeOK, Places, Deciding, Ending
<1>3. Moved(c, place) /\ (Recorded(c) => Recorded(c)')
  BY <1>1, <1>2, Going DEF Recorded, Quietly
<1>4. CallInv(c)'
  BY <1>2, <1>3 DEF Moved, CallInv, PlaceInv, OwnInv, EndInv, LogInv, Quietly, Before, Asking,
     Deciding, Ending, Over
<1> QED
  BY <1>2, <1>3, <1>4, QuietCall DEF Moved

LEMMA AuditDelegationInv ==
  ASSUME GatewayInv, NEW c \in Calls, AuditDelegation(c)
  PROVE  GatewayInv'
<1>1. PICK ok \in BOOLEAN : AppendEvent(c, "session.delegated", FALSE, ok)
                            /\ Goto(c, IF ok THEN "create_child" ELSE "respond")
  BY DEF AuditDelegation
<1>2. PICK place \in {"create_child", "respond"} : Goto(c, place) /\ (place = "create_child" => ok)
  BY <1>1
<1>3. /\ Quietly /\ UNCHANGED status /\ call[c].pc = "audit_child" /\ place \in Places
      /\ ok => <<"session.delegated", c>> \in log'
  BY <1>1, Appending DEF AuditDelegation, Quietly, Places, Deciding, Ending
<1>4. Moved(c, place) /\ (Recorded(c) => Recorded(c)')
  BY <1>2, <1>3, Going DEF Recorded, Quietly
<1>5. CallInv(c)'
  BY <1>2, <1>3, <1>4 DEF Moved, CallInv, PlaceInv, OwnInv, EndInv, LogInv, Quietly, Before, Asking,
     Deciding, Ending, Over
<1> QED
  BY <1>3, <1>4, <1>5, QuietCall DEF Moved

LEMMA CreateChildInv ==
  ASSUME GatewayInv, NEW c \in Calls, CreateChild(c)
  PROVE  GatewayInv'
<1>1. /\ call[c].pc = "create_child" /\ Goto(c, "respond")
      /\ UNCHANGED <<raw, status, log, abort, lost>> /\ troubles' \in Nat
      /\ child' \in {child, child \cup {c}}
  BY DEF CreateChild, DbWorks, GatewayInv, GatewayTypeOK
<1>2. Moved(c, "respond") /\ (Recorded(c) => Recorded(c)')
  BY <1>1, Going DEF Places, Ending, Recorded
<1>3. Advances(c, call'[c])
  BY <1>1, <1>2 DEF Moved, Advances, GatewayInv, GatewayTypeOK
<1>4. CallInv(c)'
  BY <1>1, <1>2 DEF Moved, CallInv, PlaceInv, OwnInv, EndInv, LogInv, Before, Asking, Deciding,
     Ending, Over
<1> QED
  BY <1>2, <1>3, <1>4, OneCall DEF Moved

LEMMA RespondInv ==
  ASSUME GatewayInv, NEW c \in Calls, Respond(c)
  PROVE  GatewayInv'
<1> DEFINE new == [call[c] EXCEPT !.pc = "finish", !.answered = call[c].result = "whole"]
<1>1. call[c] \in CallRecord /\ CallInv(c) /\ Quietly /\ call[c].pc = "respond"
  BY DEF Respond, Quietly, GatewayInv, GatewayTypeOK
<1>2. new \in CallRecord
  BY <1>1 DEF CallRecord, Places, Ending
<1>3. call' = [call EXCEPT ![c] = new] /\ call'[c] = new
  BY DEF Respond, GatewayInv, GatewayTypeOK
<1>4. /\ new.pc = "finish" /\ new.sess = call[c].sess /\ new.kind = call[c].kind
      /\ new.stream = call[c].stream /\ new.finish = call[c].finish /\ new.result = call[c].result
  BY <1>1 DEF CallRecord
<1> HIDE DEF new
<1>5. (AutoSession(c)' <=> AutoSession(c)) /\ (HasSession(c) => HasSession(c)')
  BY <1>1, <1>3, <1>4 DEF AutoSession, HasSession, Quietly
<1>6. CallInv(c)'
  BY <1>1, <1>3, <1>4, <1>5 DEF CallInv, PlaceInv, OwnInv, EndInv, LogInv, Recorded, Quietly, Models,
     Before, Asking, Deciding, Ending, Over
<1> QED
  BY <1>1, <1>2, <1>3, <1>6, QuietCall

\* The deferred finish: it ends a running session as the handler has found, leaves an aborted
\* one, and counts itself lost when the status could not be written.
LEMMA FinishInv ==
  ASSUME GatewayInv, GatewayConstants, NEW c \in Calls, Finish(c)
  PROVE  GatewayInv'
<1> DEFINE new == [call[c] EXCEPT !.pc = "done", !.gone = FALSE, !.task = FALSE]
<1>1. call[c] \in CallRecord /\ CallInv(c) /\ call[c].pc = "finish" /\ UNCHANGED <<raw, child, log, abort>>
  BY DEF Finish, GatewayInv, GatewayTypeOK
<1>2. new \in CallRecord /\ call' = [call EXCEPT ![c] = new] /\ call'[c] = new
  BY <1>1 DEF Finish, CallRecord, Places, Over, GatewayInv, GatewayTypeOK
<1>3. /\ new.pc = "done" /\ new.sess = call[c].sess /\ new.kind = call[c].kind
      /\ new.stream = call[c].stream /\ new.finish = call[c].finish /\ new.result = call[c].result
      /\ new.answered = call[c].answered
  BY <1>1 DEF CallRecord
<1> HIDE DEF new
<1>4. AutoSession(c)' <=> AutoSession(c)
  BY <1>1, <1>2, <1>3 DEF AutoSession
<1>5. c \in GatewaySessions /\ status \in [GatewaySessions -> Statuses]
      /\ call[c].finish \in {"failed", "completed"}
  BY <1>1 DEF GatewaySessions, GatewayInv, GatewayTypeOK, CallRecord
<1>6. \E end \in Statuses \ {Unset} :
         /\ AutoSession(c) => /\ status[c] \in {"running", "aborted"}
                              /\ c \in lost' \/ end = (IF status[c] = "running" THEN call[c].finish ELSE status[c])
                              /\ end \in {status[c], call[c].finish} /\ (status[c] = "aborted" => end = status[c])
                              /\ status' = [status EXCEPT ![c] = end]
         /\ ~ AutoSession(c) => status' = status
  <2>1. CASE ~ AutoSession(c)
    BY <2>1 DEF Finish, Statuses, Open, GatewayConstants
  <2>2. CASE AutoSession(c)
    <3>1. status[c] \in {"running", "aborted"}
      BY <1>1, <2>2 DEF CallInv, OwnInv, Over
    <3>2. PICK ok \in BOOLEAN :
             /\ status' = IF ok /\ status[c] = "running"
                          THEN [status EXCEPT ![c] = call[c].finish] ELSE status
             /\ lost' = IF ok THEN lost ELSE lost \cup {c}
      BY <2>2 DEF Finish
    <3> DEFINE end == IF ok /\ status[c] = "running" THEN call[c].finish ELSE status[c]
    <3>3. end \in Statuses \ {Unset}
      BY <1>5, <3>1 DEF Statuses, Open, GatewayConstants
    <3>4. status' = [status EXCEPT ![c] = end]
      BY <1>5, <3>2
    <3>5. c \in lost' \/ end = (IF status[c] = "running" THEN call[c].finish ELSE status[c])
      BY <3>2
    <3>6. end \in {status[c], call[c].finish} /\ (status[c] = "aborted" => end = status[c])
      OBVIOUS
    <3> HIDE DEF end
    <3> QED
      BY <2>2, <3>1, <3>3, <3>4, <3>5, <3>6
  <2> QED
    BY <2>1, <2>2
<1>7. lost' \in {lost, lost \cup {c}} /\ troubles' \in Nat
  BY DEF Finish, DbWorks, GatewayInv, GatewayTypeOK
<1>8. Advances(c, new)
  BY <1>1, <1>2, <1>5, <1>6, <1>7 DEF Advances, GatewayInv, GatewayTypeOK, CallInv, OwnInv
<1>9. /\ status'[c] # Unset <=> status[c] # Unset
      /\ HasSession(c) => HasSession(c)'
      /\ AutoSession(c) => status'[c] # "running" \/ c \in lost'
  BY <1>1, <1>2, <1>3, <1>5, <1>6, <1>8 DEF CallInv, OwnInv, Advances, HasSession, Statuses,
     GatewayConstants
<1>10. AutoSession(c) /\ call[c].stream /\ c \notin lost' =>
          status'[c] \in {IF call[c].result = "whole" THEN "completed" ELSE "failed", "aborted"}
  BY <1>1, <1>5, <1>6 DEF CallInv, EndInv, Ending
<1>11. CallInv(c)'
  BY <1>1, <1>2, <1>3, <1>4, <1>9, <1>10 DEF CallInv, PlaceInv, OwnInv, EndInv, LogInv, Recorded,
     Before, Asking, Deciding, Ending, Over
<1> QED
  BY <1>2, <1>8, <1>11, OneCall

LEMMA CheckToolInv ==
  ASSUME GatewayInv, GatewayConstants, NEW c \in Calls, CheckTool(c)
  PROVE  GatewayInv'
<1>1. call[c].pc = "check" /\ call[c].kind = "mcp"
  BY DEF CheckTool
<1>2. CASE TurnAway(c) /\ UNCHANGED <<log, troubles>>
  <2>1. Quietly
    BY <1>2 DEF CheckTool, Quietly, GatewayInv, GatewayTypeOK
  <2> QED
    BY <1>1, <1>2, <2>1, TurnedAway DEF Before
<1>3. ASSUME NEW ok \in BOOLEAN, AppendEvent(c, "mcp.forwarded", FALSE, ok),
             IF ok THEN Goto(c, "forward") ELSE TurnAway(c)
      PROVE  GatewayInv'
  <2>1. Quietly /\ UNCHANGED status /\ (ok => <<"mcp.forwarded", c>> \in log')
    BY <1>3, Appending DEF CheckTool, Quietly
  <2>2. CASE ~ ok
    BY <1>1, <1>3, <2>1, <2>2, TurnedAway DEF Before
  <2>3. CASE ok
    <3>1. Moved(c, "forward")
      BY <1>3, <2>1, <2>3, Going DEF Places
    <3>2. CallInv(c)'
      BY <1>1, <2>1, <2>3, <3>1 DEF Moved, CallInv, PlaceInv, OwnInv, EndInv, LogInv, Quietly, Before,
         Asking, Deciding, Ending, Over
    <3> QED
      BY <2>1, <3>1, <3>2, QuietCall DEF Moved
  <2> QED
    BY <2>2, <2>3
<1> QED
  BY <1>2, <1>3 DEF CheckTool

LEMMA ForwardInv ==
  ASSUME GatewayInv, NEW c \in Calls, Forward(c)
  PROVE  GatewayInv'
<1>1. PICK a \in BOOLEAN : call' = [call EXCEPT ![c].pc = "done", ![c].answered = a]
  BY DEF Forward
<1> DEFINE new == [call[c] EXCEPT !.pc = "done", !.answered = a]
<1>2. call[c] \in CallRecord /\ CallInv(c) /\ Quietly /\ call[c].pc = "forward"
  BY DEF Forward, Quietly, GatewayInv, GatewayTypeOK
<1>3. new \in CallRecord /\ call' = [call EXCEPT ![c] = new] /\ call'[c] = new
  BY <1>1, <1>2 DEF CallRecord, Places, Over, GatewayInv, GatewayTypeOK
<1>4. new.pc = "done" /\ new.sess = call[c].sess /\ new.kind = call[c].kind
  BY <1>2 DEF CallRecord
<1> HIDE DEF new
<1>5. ~ AutoSession(c) /\ ~ AutoSession(c)' /\ c \notin child
  BY <1>2, <1>3, <1>4 DEF CallInv, PlaceInv, OwnInv, LogInv, AutoSession, Asking, Deciding, Ending, Over
<1>6. CallInv(c)'
  BY <1>2, <1>3, <1>4, <1>5 DEF CallInv, PlaceInv, OwnInv, EndInv, LogInv, Quietly, Before, Asking,
     Deciding, Ending, Over
<1> QED
  BY <1>2, <1>3, <1>6, QuietCall

LEMMA ClientLeavesInv ==
  ASSUME GatewayInv, GatewayConstants, NEW c \in Calls, ClientLeaves(c)
  PROVE  GatewayInv'
<1> DEFINE new == [call[c] EXCEPT !.gone = TRUE]
<1>1. call[c] \in CallRecord /\ CallInv(c) /\ Quietly /\ InFlight(c)
  BY DEF ClientLeaves, Quietly, GatewayInv, GatewayTypeOK, GatewayConstants
<1>2. new \in CallRecord /\ call' = [call EXCEPT ![c] = new] /\ call'[c] = new
  BY <1>1 DEF ClientLeaves, CallRecord, GatewayInv, GatewayTypeOK
<1>3. /\ new.pc = call[c].pc /\ new.sess = call[c].sess /\ new.kind = call[c].kind
      /\ new.stream = call[c].stream /\ new.finish = call[c].finish /\ new.result = call[c].result
      /\ new.answered = call[c].answered
  BY <1>1 DEF CallRecord
<1> HIDE DEF new
<1>4. (AutoSession(c)' <=> AutoSession(c)) /\ (HasSession(c) => HasSession(c)')
      /\ (Recorded(c) => Recorded(c)')
  BY <1>1, <1>2, <1>3 DEF AutoSession, HasSession, Recorded, Quietly
<1>5. CallInv(c)'
  BY <1>1, <1>2, <1>3, <1>4 DEF InFlight, CallInv, PlaceInv, OwnInv, EndInv, LogInv, Quietly
<1> QED
  BY <1>1, <1>2, <1>5, QuietCall

-----------------------------------------------------------------------------
(* What happens around the calls.                                          *)

\* A session whose status changes while no call moves: it had a row and still has one, and
\* the session of a call can only become aborted.
LEMMA StatusMoves ==
  ASSUME GatewayInv, GatewayConstants, NEW s \in GatewaySessions, NEW end \in Statuses \ {Unset, "running"},
         status[s] # Unset, s \in Calls => end = "aborted",
         status' = [status EXCEPT ![s] = end], UNCHANGED <<raw, child, call, log, lost>>,
         NEW c \in Calls
  PROVE  CallInv(c)'
<1>1. CallInv(c) /\ status \in [GatewaySessions -> Statuses] /\ c \in GatewaySessions
  BY DEF GatewayInv, GatewayTypeOK, GatewaySessions
<1>2. /\ status'[c] = Unset <=> status[c] = Unset
      /\ status'[c] = status[c] \/ status'[c] = "aborted"
      /\ HasSession(c) => HasSession(c)'
  BY <1>1 DEF HasSession
<1>3. AutoSession(c)' <=> AutoSession(c)
  BY DEF AutoSession
<1>4. PlaceInv(c)'
  BY <1>1, <1>2 DEF CallInv, PlaceInv
<1>5. OwnInv(c)'
  BY <1>1, <1>2, <1>3 DEF CallInv, OwnInv
<1>6. EndInv(c)'
  BY <1>1, <1>2, <1>3 DEF CallInv, EndInv
<1>7. LogInv(c)'
  BY <1>1, <1>2 DEF CallInv, LogInv, Recorded
<1> QED
  BY <1>4, <1>5, <1>6, <1>7 DEF CallInv

LEMMA SharedMovesInv ==
  ASSUME GatewayInv, GatewayConstants, SharedMoves
  PROVE  GatewayInv'
<1>1. Shared \in GatewaySessions /\ Shared \notin Calls
      /\ "completed" \in Statuses \ {Unset, "running"} /\ "running" # Unset
  BY DEF GatewaySessions, GatewayConstants, Statuses, Open
<1>2. \A c \in Calls : CallInv(c)'
  BY <1>1, StatusMoves DEF SharedMoves
<1>3. GatewayTypeOK'
  BY <1>1 DEF SharedMoves, GatewayInv, GatewayTypeOK
<1>4. AbortInv'
  BY DEF SharedMoves, GatewayInv, AbortInv, AbortHolds, GatewayTypeOK
<1> QED
  BY <1>2, <1>3, <1>4 DEF GatewayInv

LEMMA AbortReadsInv ==
  ASSUME GatewayInv, NEW s \in GatewaySessions, AbortReads(s)
  PROVE  GatewayInv'
<1>1. UNCHANGED <<raw, status, child, call, log, troubles, lost>>
      /\ abort' = [pc |-> "audit", sess |-> s, seen |-> status[s]] /\ status[s] \in Open
  BY DEF AbortReads
<1>2. GatewayTypeOK'
  BY <1>1 DEF GatewayInv, GatewayTypeOK, AbortRecord
<1>3. ASSUME NEW c \in Calls PROVE CallInv(c)'
  BY <1>1 DEF GatewayInv, CallInv, PlaceInv, OwnInv, EndInv, LogInv, AutoSession, HasSession, Recorded
<1>4. AbortInv'
  BY <1>1 DEF AbortInv, AbortHolds
<1> QED
  BY <1>2, <1>3, <1>4 DEF GatewayInv

LEMMA AbortAuditsInv ==
  ASSUME GatewayInv, AbortAudits
  PROVE  GatewayInv'
<1>1. PICK pc \in {"swap", "refused"} : abort' = [abort EXCEPT !.pc = pc]
  BY DEF AbortAudits
<1>2. /\ UNCHANGED <<raw, status, child, call, lost>> /\ abort.pc = "audit" /\ abort \in AbortRecord
      /\ log \subseteq log' /\ troubles' \in Nat
  BY DEF AbortAudits, DbWorks, GatewayInv, GatewayTypeOK
<1>3. abort'.pc = pc /\ abort'.sess = abort.sess /\ abort'.seen = abort.seen /\ abort' \in AbortRecord
  BY <1>1, <1>2 DEF AbortRecord
<1>4. GatewayTypeOK'
  BY <1>2, <1>3 DEF GatewayInv, GatewayTypeOK
<1>5. ASSUME NEW c \in Calls PROVE CallInv(c)'
  BY <1>2 DEF GatewayInv, CallInv, PlaceInv, OwnInv, EndInv, LogInv, AutoSession, HasSession, Recorded
<1>6. AbortInv'
  BY <1>2, <1>3 DEF GatewayInv, AbortInv, AbortHolds
<1> QED
  BY <1>4, <1>5, <1>6 DEF GatewayInv

\* The swap succeeds only on the status that was read, which was open: a running session of
\* a call becomes aborted, and its finish will find it so.
LEMMA AbortSwapsInv ==
  ASSUME GatewayInv, GatewayConstants, AbortSwaps
  PROVE  GatewayInv'
<1> DEFINE s == abort.sess
<1>1. /\ UNCHANGED <<raw, child, call, log, lost>> /\ abort.pc = "swap" /\ abort \in AbortRecord
      /\ s \in GatewaySessions /\ abort.seen \in Open /\ troubles' \in Nat
  BY DEF AbortSwaps, DbWorks, GatewayInv, GatewayTypeOK, AbortInv
<1>2. CASE status[s] = abort.seen /\ status' = [status EXCEPT ![s] = "aborted"]
           /\ abort' = [abort EXCEPT !.pc = "aborted"]
  <2>1. abort'.pc = "aborted" /\ abort'.sess = s /\ abort' \in AbortRecord
    BY <1>1, <1>2 DEF AbortRecord
  <2>2. "aborted" \in Statuses \ {Unset, "running"} /\ status[s] # Unset
    BY <1>1, <1>2 DEF Statuses, GatewayConstants
  <2>3. \A c \in Calls : CallInv(c)'
    BY <1>1, <1>2, <2>2, StatusMoves
  <2>4. GatewayTypeOK'
    BY <1>1, <1>2, <2>1, <2>2 DEF GatewayInv, GatewayTypeOK
  <2>5. status'[s] = "aborted"
    BY <1>1, <1>2 DEF GatewayInv, GatewayTypeOK
  <2>6. AbortInv'
    BY <1>1, <2>1, <2>5 DEF AbortInv, AbortHolds
  <2> QED
    BY <2>3, <2>4, <2>6 DEF GatewayInv
<1>3. CASE status' = status /\ abort' = [abort EXCEPT !.pc = "refused"]
  <2>1. abort'.pc = "refused" /\ abort' \in AbortRecord
    BY <1>1, <1>3 DEF AbortRecord
  <2>2. ASSUME NEW c \in Calls PROVE CallInv(c)'
    BY <1>1, <1>3 DEF GatewayInv, CallInv, PlaceInv, OwnInv, EndInv, LogInv, AutoSession, HasSession,
       Recorded
  <2>3. GatewayTypeOK'
    BY <1>1, <1>3, <2>1 DEF GatewayInv, GatewayTypeOK
  <2>4. AbortInv'
    BY <2>1 DEF AbortInv, AbortHolds
  <2> QED
    BY <2>2, <2>3, <2>4 DEF GatewayInv
<1> QED
  BY <1>2, <1>3 DEF AbortSwaps

\* A restart loses the calls in flight where they are; the sessions and the log stay.
LEMMA RestartInv ==
  ASSUME GatewayInv, GatewayConstants, GatewayRestarts
  PROVE  GatewayInv'
<1>1. UNCHANGED <<raw, status, child, log>> /\ troubles' \in Nat
  BY DEF GatewayRestarts, GatewayInv, GatewayTypeOK, GatewayConstants
<1>2. ASSUME NEW c \in Calls
      PROVE  /\ call'[c] \in CallRecord
             /\ call'[c].sess = call[c].sess
             /\ InFlight(c) => /\ call'[c].pc = "lost" /\ call'[c].kind = call[c].kind
                               /\ call'[c].answered = call[c].answered /\ c \in lost'
             /\ ~ InFlight(c) => call'[c] = call[c] /\ (c \in lost' <=> c \in lost)
  <2>1. call[c] \in CallRecord
    BY DEF GatewayInv, GatewayTypeOK
  <2>2. CASE InFlight(c)
    <3> DEFINE new == [call[c] EXCEPT !.pc = "lost"]
    <3>1. call'[c] = new /\ c \in lost'
      BY <2>2 DEF GatewayRestarts
    <3>2. new \in CallRecord /\ new.pc = "lost" /\ new.sess = call[c].sess /\ new.kind = call[c].kind
          /\ new.answered = call[c].answered
      BY <2>1 DEF CallRecord, Places, Over
    <3> QED
      BY <2>2, <3>1, <3>2
  <2>3. CASE ~ InFlight(c)
    BY <2>1, <2>3 DEF GatewayRestarts
  <2> QED
    BY <2>2, <2>3
<1>3. GatewayTypeOK'
  <2>1. call' \in [Calls -> CallRecord]
    BY <1>2 DEF GatewayRestarts
  <2>2. abort' \in AbortRecord
    BY DEF GatewayRestarts, GatewayInv, GatewayTypeOK, AbortRecord
  <2> QED
    BY <1>1, <2>1, <2>2 DEF GatewayRestarts, GatewayInv, GatewayTypeOK
<1>4. ASSUME NEW c \in Calls PROVE CallInv(c)'
  <2>1. CallInv(c)
    BY DEF GatewayInv
  <2>2. (AutoSession(c)' <=> AutoSession(c)) /\ (HasSession(c)' <=> HasSession(c))
        /\ (Recorded(c)' <=> Recorded(c))
    BY <1>1, <1>2 DEF AutoSession, HasSession, Recorded
  <2>3. CASE InFlight(c)
    BY <1>1, <1>2, <2>1, <2>2, <2>3 DEF InFlight, CallInv, PlaceInv, OwnInv, EndInv, LogInv, Before,
       Asking, Deciding, Ending, Over
  <2>4. CASE ~ InFlight(c)
    BY <1>1, <1>2, <2>1, <2>2, <2>4 DEF CallInv, PlaceInv, OwnInv, EndInv, LogInv
  <2> QED
    BY <2>3, <2>4
<1>5. AbortInv'
  BY <1>1 DEF GatewayRestarts, GatewayInv, GatewayTypeOK, AbortRecord, AbortInv, AbortHolds
<1> QED
  BY <1>3, <1>4, <1>5 DEF GatewayInv

-----------------------------------------------------------------------------
LEMMA InitGatewayInv ==
  ASSUME GatewayConstants, GatewayInit
  PROVE  GatewayInv
<1>1. GatewayTypeOK
  BY DEF GatewayConstants, GatewayInit, GatewayTypeOK, GatewaySessions, Statuses, Open, NoCall, NoAbort,
     CallRecord, AbortRecord, Places
<1>2. ASSUME NEW c \in Calls PROVE CallInv(c)
  <2>1. call[c] = NoCall /\ status[c] = Unset /\ c \notin child
    BY DEF GatewayInit, GatewayConstants, GatewaySessions
  <2>2. ~ AutoSession(c)
    BY <2>1 DEF AutoSession, NoCall, GatewayConstants, GatewaySessions
  <2> QED
    BY <2>1, <2>2 DEF CallInv, PlaceInv, OwnInv, EndInv, LogInv, NoCall, Before, Asking, Deciding,
       Ending, Over
<1>3. AbortInv
  BY DEF GatewayInit, NoAbort, AbortInv, AbortHolds
<1> QED
  BY <1>1, <1>2, <1>3 DEF GatewayInv

LEMMA NextGatewayInv ==
  ASSUME GatewayConstants, GatewayInv, [GatewayNext]_gatewayVars
  PROVE  GatewayInv'
<1>1. ASSUME NEW c \in Calls, NEW r \in Requests[c],
             \/ ArriveAuto(c, r[1], r[2])
             \/ \E s \in GatewaySessions : ArriveWithSession(c, r[1], r[2], s)
      PROVE  GatewayInv'
  <2>1. r[1] \in Kinds /\ r[2] \in BOOLEAN
    BY DEF GatewayConstants
  <2> QED
    BY <1>1, <2>1, ArriveAutoInv, ArriveWithSessionInv
<1>2. ASSUME NEW c \in Calls, Step(c)
      PROVE  GatewayInv'
  BY <1>2, CheckAutoInv, AuditAutoInv, CreateAutoInv, RouteInv, AuditCallInv, AuditProxyInv,
     CheckDelegationInv, AuditDelegationInv, CreateChildInv, RespondInv, FinishInv, CheckToolInv
     DEF Step
<1>3. ASSUME NEW c \in Calls, Upstream(c) \/ Forward(c) \/ ClientLeaves(c)
      PROVE  GatewayInv'
  BY <1>3, UpstreamInv, ForwardInv, ClientLeavesInv
<1>4. ASSUME SharedMoves \/ (\E s \in GatewaySessions : AbortReads(s)) \/ AbortAudits \/ AbortSwaps
             \/ GatewayRestarts
      PROVE  GatewayInv'
  BY <1>4, SharedMovesInv, AbortReadsInv, AbortAuditsInv, AbortSwapsInv, RestartInv
<1>5. CASE UNCHANGED gatewayVars
  BY <1>5 DEF gatewayVars, GatewayInv, GatewayTypeOK, CallInv, PlaceInv, OwnInv, EndInv, LogInv,
     AbortInv, AbortHolds, AutoSession, HasSession, Recorded
<1> QED
  BY <1>1, <1>2, <1>3, <1>4, <1>5 DEF GatewayNext

LEMMA GatewayInvariant ==
  ASSUME GatewayConstants
  PROVE  GatewaySpec => []GatewayInv
<1>1. GatewayInit => GatewayInv
  BY InitGatewayInv
<1>2. GatewayInv /\ [GatewayNext]_gatewayVars => GatewayInv'
  BY NextGatewayInv
<1> QED
  BY <1>1, <1>2, PTL DEF GatewaySpec

LEMMA GatewayAlways == GatewaySpec => []GatewayInv
  BY GatewayInvariant, GatewayAssumption

-----------------------------------------------------------------------------
\* An auto session is running only while the call that opened it is in progress, whatever
\* fails: otherwise its last status write was lost, or the process stopped under it
\* (finishGatewayAutoSession, deferred by both handlers).
THEOREM AutoAlwaysOwned == GatewaySpec => []RunningIsOwned
<1>1. "running" # Unset
  BY GatewayAssumption DEF GatewayConstants, Open
<1>2. GatewayInv => RunningIsOwned
  BY <1>1 DEF GatewayInv, CallInv, OwnInv, RunningIsOwned, InFlight, Asking, Deciding, Ending, Over
<1> QED
  BY <1>2, GatewayAlways, PTL

\* A streamed call leaves its own session completed exactly when the provider's stream was
\* whole, and failed otherwise, unless the owner aborted it (handleStream and
\* handleResponsesStream with their deferred finish).
THEOREM StatusAlwaysTells == GatewaySpec => []StatusTellsTheEnd
<1>1. GatewayInv => StatusTellsTheEnd
  BY DEF GatewayInv, CallInv, EndInv, StatusTellsTheEnd
<1> QED
  BY <1>1, GatewayAlways, PTL

\* An abort that was answered holds: neither the deferred finish of a call nor the end of the
\* interactive session writes over it (AbortHandler, CompareAndSwapStatus).
THEOREM AbortAlwaysHolds == GatewaySpec => []AbortHolds
<1>1. GatewayInv => AbortHolds
  BY DEF GatewayInv, AbortInv
<1> QED
  BY <1>1, GatewayAlways, PTL

\* What was done for a runtime stands in the log: a tool that ran, an answer of the model
\* proxy, and a delegated child together with its parent's recorded answer.
THEOREM WorkAlwaysLogged == GatewaySpec => []WorkIsLogged
<1>1. ASSUME GatewayInv PROVE WorkIsLogged
  <2>1. \A c \in Calls : LogInv(c)
    BY <1>1 DEF GatewayInv, CallInv
  <2>2. child \subseteq Calls
    BY <1>1 DEF GatewayInv, GatewayTypeOK
  <2> QED
    BY <2>1, <2>2 DEF LogInv, Recorded, HasSession, WorkIsLogged
<1> QED
  BY <1>1, GatewayAlways, PTL

-----------------------------------------------------------------------------

(* Routing for any registry of aliases: whatever its fallbacks point to, and *)
(* however long the chain grows.                                             *)

\* The chosen alias and the chain built so far.
Line == <<decision.alias>> \o chain

RoutingTypes ==
    /\ route \in {"choose", "picker", "chain", "effort", "routed", "refused"}
    /\ permits \in SUBSET Aliases
    /\ effort \in AnyEffort
    /\ decision.by \in {"nobody", "router", "picker"}
    /\ decision \in [alias : {decision.alias}, by : {decision.by}, effort : Nat]
    /\ chain \in Seq(Aliases)

\* What line of aliases the router may decide on, and how its end is left.
WithinPolicy(line) ==
    /\ ToSet(line) \subseteq permits
    /\ IsInjective(line)
    /\ \A i \in 1 .. Len(line) - 1 : line[i + 1] = nextOf[line[i]]

Ended(line, last) == last \in permits => last \in ToSet(line)

EffortBounded == \A max \in {effort.max, effort.agent[2]} : max # 0 => decision.effort <= max

RoutingInv ==
    /\ RoutingTypes
    /\ route \in {"choose", "picker"} => chain = <<>>
    /\ route = "chain" => decision.by = "router" /\ link = nextOf[Line[Len(Line)]]
    /\ route \in {"effort", "routed"} =>
          IF decision.by = "picker" THEN query.open /\ query.actor
          ELSE decision.by = "router" /\ Ended(Line, nextOf[Line[Len(Line)]])
    /\ decision.by = "router" => decision.alias \in Offered /\ WithinPolicy(Line)
    /\ route = "routed" => EffortBounded

LEMMA LineFacts ==
  ASSUME NEW a, NEW S, a \in S, NEW c \in Seq(S)
  PROVE  /\ <<a>> \o c \in Seq(S) /\ Len(<<a>> \o c) = Len(c) + 1
         /\ (<<a>> \o c)[1] = a
         /\ \A i \in 1 .. Len(c) : (<<a>> \o c)[i + 1] = c[i]
  OBVIOUS

LEMMA GrownLine ==
  ASSUME NEW a, NEW S, a \in S, NEW c \in Seq(S), NEW x \in S
  PROVE  <<a>> \o Append(c, x) = Append(<<a>> \o c, x)
  OBVIOUS

\* Nothing the agent asks for passes the stricter of the two maxima.
LEMMA StricterBounds ==
  ASSUME NEW r \in Nat, NEW a \in Nat, NEW w \in Nat,
         Stricter(r, a) # 0 => w <= Stricter(r, a)
  PROVE  (r # 0 => w <= r) /\ (a # 0 => w <= a)
  BY DEF Stricter

LEMMA LineGrows ==
  ASSUME NEW S, NEW line \in Seq(S), Len(line) # 0, NEW x \in permits, permits \subseteq S,
         WithinPolicy(line), x = nextOf[line[Len(line)]], x \notin ToSet(line)
  PROVE  WithinPolicy(Append(line, x))
<1> DEFINE grown == Append(line, x)
<1>1. /\ grown \in Seq(S) /\ Len(grown) = Len(line) + 1 /\ grown[Len(line) + 1] = x
      /\ \A i \in 1 .. Len(line) : grown[i] = line[i]
  OBVIOUS
<1>2. DOMAIN grown = 1 .. Len(line) + 1 /\ DOMAIN line = 1 .. Len(line) /\ Len(line) \in Nat
  BY <1>1
<1>3. \A i \in 1 .. Len(line) : line[i] \in permits /\ line[i] # x
  BY <1>2 DEF WithinPolicy, ToSet
<1> HIDE DEF grown
<1>4. ToSet(grown) \subseteq permits
  BY <1>1, <1>2, <1>3 DEF ToSet
<1>5. IsInjective(grown)
  <2> SUFFICES ASSUME NEW i \in 1 .. Len(line) + 1, NEW j \in 1 .. Len(line) + 1,
                      grown[i] = grown[j]
               PROVE  i = j
    BY <1>2 DEF IsInjective
  <2>1. CASE i \in 1 .. Len(line) /\ j \in 1 .. Len(line)
    BY <2>1, <1>1, <1>2 DEF WithinPolicy, IsInjective
  <2>2. CASE i = Len(line) + 1 \/ j = Len(line) + 1
    BY <2>2, <1>1, <1>2, <1>3
  <2> QED
    BY <2>1, <2>2, <1>2
<1>6. \A i \in 1 .. Len(grown) - 1 : grown[i + 1] = nextOf[grown[i]]
  <2> SUFFICES ASSUME NEW i \in 1 .. Len(line) PROVE grown[i + 1] = nextOf[grown[i]]
    BY <1>1, <1>2
  <2>1. CASE i = Len(line)
    BY <2>1, <1>1, <1>2
  <2>2. CASE i # Len(line)
    <3>1. Len(line) \in Nat /\ i \in Nat /\ 1 <= i /\ i <= Len(line)
      OBVIOUS
    <3>2. i \in 1 .. Len(line) - 1 /\ i + 1 \in 1 .. Len(line)
      BY <2>2, <3>1
    <3> QED
      BY <3>2, <1>1 DEF WithinPolicy
  <2> QED
    BY <2>1, <2>2
<1> QED
  BY <1>4, <1>5, <1>6 DEF WithinPolicy, grown

LEMMA LineStarts ==
  ASSUME NEW a \in permits
  PROVE  WithinPolicy(<<a>>)
  BY DEF WithinPolicy, ToSet, IsInjective

LEMMA InvWithinPolicy == RoutingInv => RoutedWithinPolicy
<1> SUFFICES ASSUME RoutingInv, route = "routed" PROVE RoutedWithinPolicy
  BY DEF RoutedWithinPolicy
<1>1. EffortBounded
  BY DEF RoutingInv
<1>2. CASE decision.by = "picker"
  BY <1>1, <1>2 DEF RoutingInv, RoutedWithinPolicy, EffortBounded
<1>3. CASE decision.by # "picker"
  <2>1. /\ decision.by = "router" /\ Ended(Line, nextOf[Line[Len(Line)]])
        /\ decision.alias \in Offered /\ WithinPolicy(Line)
    BY <1>3 DEF RoutingInv
  <2>2. decision.alias \in Aliases /\ chain \in Seq(Aliases)
    BY <2>1 DEF Offered, RoutingInv, RoutingTypes
  <2>3. /\ Line \in Seq(Aliases) /\ Len(Line) = Len(chain) + 1
        /\ \A i \in 1 .. Len(chain) : Line[i + 1] = chain[i]
    BY <2>2, LineFacts DEF Line
  <2>4. \A i \in DOMAIN chain : chain[i] = nextOf[Line[i]]
    BY <2>1, <2>2, <2>3 DEF WithinPolicy
  <2>5. ToSet(Line) \subseteq permits /\ IsInjective(Line)
    BY <2>1 DEF WithinPolicy
  <2> QED
    BY <1>1, <1>3, <2>1, <2>4, <2>5 DEF RoutedWithinPolicy, Line, Ended, EffortBounded
<1> QED
  BY <1>2, <1>3

LEMMA InitRoutingInv == RoutingInit => RoutingInv
<1> SUFFICES ASSUME RoutingInit PROVE RoutingInv
  OBVIOUS
<1>1. PlainEffort \in AnyEffort
  BY DEF PlainEffort, AnyEffort, Efforts, AgentPolicies
<1>2. RoutingTypes
  BY <1>1 DEF RoutingInit, RoutingTypes
<1> QED
  BY <1>2 DEF RoutingInit, RoutingInv

LEMMA StepRoutingInv == RoutingInv /\ [RoutingNext]_routingVars => RoutingInv'
<1> SUFFICES ASSUME RoutingInv, [RoutingNext]_routingVars PROVE RoutingInv'
  OBVIOUS
<1>1. CASE Choose
  <2>1. PICK a \in Candidates : /\ a \in routable
                                /\ decision' = [alias |-> a, by |-> "router", effort |-> 0]
                                /\ route' = "chain" /\ link' = nextOf[a]
    BY <1>1 DEF Choose
  <2>2. chain = <<>> /\ UNCHANGED <<queryVars, chain>>
    BY <1>1 DEF Choose, RoutingInv
  <2>3. a \in permits
    BY DEF Candidates
  <2>4. Line' = <<a>>
    BY <2>1, <2>2 DEF Line
  <2>5. WithinPolicy(<<a>>)'
    BY <2>2, <2>3, LineStarts DEF queryVars, WithinPolicy
  <2>6. RoutingTypes'
    BY <2>1, <2>2 DEF RoutingInv, RoutingTypes, queryVars
  <2> QED
    BY <2>1, <2>2, <2>3, <2>4, <2>5, <2>6 DEF RoutingInv, queryVars, Offered, WithinPolicy
<1>2. CASE RouterRefuses
  BY <1>2 DEF RouterRefuses, RoutingInv, RoutingTypes, queryVars, Offered, WithinPolicy, Line
<1>3. CASE LookUpAlias
  BY <1>3 DEF LookUpAlias, RoutingInv, RoutingTypes, queryVars, Offered, WithinPolicy, Line
<1>4. CASE Follow
  <2>1. /\ route = "chain" /\ decision.by = "router" /\ UNCHANGED <<queryVars, decision>>
        /\ link = nextOf[Line[Len(Line)]] /\ decision.alias \in Offered /\ WithinPolicy(Line)
        /\ permits \subseteq Aliases /\ chain \in Seq(Aliases)
    BY <1>4 DEF Follow, RoutingInv, RoutingTypes
  <2>2. decision.alias \in Aliases
    BY <2>1 DEF Offered
  <2>3. /\ Line \in Seq(Aliases) /\ Len(Line) = Len(chain) + 1 /\ Line[1] = decision.alias
        /\ \A i \in 1 .. Len(chain) : Line[i + 1] = chain[i]
    BY <2>1, <2>2, LineFacts DEF Line
  <2>4. ToSet(Line) = {decision.alias} \cup ToSet(chain)
    <3>1. DOMAIN Line = 1 .. Len(chain) + 1 /\ DOMAIN chain = 1 .. Len(chain) /\ Len(chain) \in Nat
      BY <2>1, <2>3
    <3>2. \A i \in 1 .. Len(chain) + 1 : i = 1 \/ i - 1 \in 1 .. Len(chain)
      BY <3>1
    <3>3. \A i \in 1 .. Len(chain) : Line[i + 1] = chain[i] /\ i + 1 \in 1 .. Len(chain) + 1
      BY <3>1, <2>3
    <3>4. \A i \in 1 .. Len(chain) + 1 : Line[i] = decision.alias \/ Line[i] \in ToSet(chain)
      <4> SUFFICES ASSUME NEW i \in 1 .. Len(chain) + 1, i # 1 PROVE Line[i] \in ToSet(chain)
        BY <2>3
      <4>1. i - 1 \in 1 .. Len(chain) /\ (i - 1) + 1 = i
        BY <3>1, <3>2
      <4>2. Line[i] = chain[i - 1]
        BY <4>1, <3>3
      <4> QED
        BY <4>1, <4>2, <3>1 DEF ToSet
    <3> QED
      BY <3>1, <3>3, <3>4, <2>3 DEF ToSet
  <2>5. CASE link \in {NoAlias, decision.alias} \cup ToSet(chain) \/ link \notin Aliases \cap permits
    <3>1. route' = "effort" /\ UNCHANGED <<chain, link>>
      BY <1>4, <2>5 DEF Follow
    <3>2. Ended(Line, link)
      BY <2>5, <2>4, <2>1, RoutingConstants DEF Ended
    <3>3. Line' = Line
      BY <3>1, <2>1 DEF Line
    <3> QED
      BY <3>1, <3>2, <3>3, <2>1 DEF RoutingInv, RoutingTypes, queryVars, Offered, WithinPolicy, Ended
  <2>6. CASE ~(link \in {NoAlias, decision.alias} \cup ToSet(chain) \/ link \notin Aliases \cap permits)
    <3>1. chain' = Append(chain, link) /\ link' = nextOf[link] /\ route' = route
      BY <1>4, <2>6 DEF Follow
    <3>2. link \in permits /\ link \in Aliases /\ link \notin ToSet(Line)
      BY <2>6, <2>4
    <3>3. Line' = Append(Line, link)
      BY <3>1, <3>2, <2>1, <2>2, GrownLine DEF Line
    <3>4. WithinPolicy(Append(Line, link))
      BY <3>2, <2>1, <2>3, LineGrows
    <3>5. link' = nextOf[Append(Line, link)[Len(Append(Line, link))]]
      BY <3>1, <3>2, <2>3
    <3>6. chain' \in Seq(Aliases)
      BY <3>1, <3>2, <2>1
    <3>7. RoutingTypes'
      BY <3>1, <3>6, <2>1 DEF RoutingInv, RoutingTypes, queryVars
    <3>8. WithinPolicy(Line)'
      BY <3>3, <3>4, <2>1 DEF WithinPolicy, queryVars
    <3> QED
      BY <3>1, <3>3, <3>5, <3>7, <3>8, <2>1 DEF RoutingInv, queryVars, Offered
  <2> QED
    BY <2>5, <2>6
<1>5. CASE ApplyEffort
  <2> DEFINE max == Stricter(effort.max, effort.agent[2])
             applied == IF decision.by = "picker" \/ ~effort.supported THEN 0
                        ELSE IF max # 0 /\ Wanted > max THEN max ELSE Wanted
  <2>1. /\ route = "effort" /\ route' = "routed" /\ UNCHANGED <<queryVars, chain, link>>
        /\ decision' = [decision EXCEPT !.effort = applied]
    BY <1>5 DEF ApplyEffort
  <2>2. effort.max \in Nat /\ effort.agent[2] \in Nat /\ Wanted \in Nat
    BY DEF RoutingInv, RoutingTypes, AnyEffort, Efforts, AgentPolicies, Wanted
  <2>3. max \in Nat
    BY <2>2 DEF Stricter
  <2> HIDE DEF max
  <2>4. applied \in Nat /\ (max # 0 => applied <= max)
    BY <2>2, <2>3
  <2> HIDE DEF applied
  <2>5. \A m \in {effort.max, effort.agent[2]} : m # 0 => applied <= m
    BY <2>2, <2>4, StricterBounds DEF max
  <2>6. decision'.alias = decision.alias /\ decision'.by = decision.by /\ decision'.effort = applied
    BY <2>1 DEF RoutingInv, RoutingTypes
  <2>7. EffortBounded'
    BY <2>1, <2>5, <2>6 DEF EffortBounded, queryVars
  <2>8. Line' = Line
    BY <2>1, <2>6 DEF Line
  <2>9. RoutingTypes'
    BY <2>1, <2>4, <2>6 DEF RoutingInv, RoutingTypes, queryVars
  <2> QED
    BY <2>1, <2>6, <2>7, <2>8, <2>9 DEF RoutingInv, queryVars, Offered, WithinPolicy, Ended
<1>6. CASE UNCHANGED routingVars
  BY <1>6 DEF routingVars, RoutingInv, RoutingTypes, queryVars, Offered, WithinPolicy, Line, Ended,
              EffortBounded
<1> QED
  BY <1>1, <1>2, <1>3, <1>4, <1>5, <1>6 DEF RoutingNext

\* A decision of the router and every fallback reported with it keep to the session's
\* classification, whatever the registry's fallbacks point to; a model of the picker serves
\* public and internal work only; and no effort passes the route's or the agent's maximum.
THEOREM DecisionsKeepToPolicy == RoutingSpec => []RoutedWithinPolicy
<1> QED
  BY InitRoutingInv, StepRoutingInv, InvWithinPolicy, PTL DEF RoutingSpec
=============================================================================
