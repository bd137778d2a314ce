---------------------------- MODULE DispatchProofs ----------------------------
(* The event channel of a dispatch, for any workspace, any capacity and any   *)
(* agent.  The goroutines of the ACP runtime share a mutex; the fallbacks     *)
(* have one goroutine and no mutex, and the invariant has to keep them apart. *)
EXTENDS Dispatch, StreamBridge, FiniteSetTheorems, TLAPS

ChannelInv ==
    /\ pending \subseteq Requests
    /\ dispatcher = "dispatch" => kind = "none" /\ ~ shut
    /\ kind = "none" => runner = "off"
    /\ kind # "acp" => runner \in {"off", "last", "ended"} /\ reader = "off" /\ blocked = Nobody
    /\ kind = "acp" => runner # "last"
    /\ NoSendOnClosed

LEMMA InitChannelInv == Init => ChannelInv
  BY DEF Init, ChannelInv, NoSendOnClosed, Idle

(* Each step keeps it.  Only Emit blocks a goroutine, on an open channel, and   *)
(* only CloseEvents closes the channel, when nobody is blocked.                *)
LEMMA NextChannelInv == ChannelInv /\ [Next]_vars => ChannelInv'
<1> SUFFICES ASSUME ChannelInv, [Next]_vars PROVE ChannelInv'
  OBVIOUS
<1> USE DEF ChannelInv, NoSendOnClosed, Requests, Idle
<1>1. CASE SendRequest
  BY <1>1 DEF SendRequest, Fails
<1>2. CASE Answered
  BY <1>2 DEF Answered, Fails
<1>3. CASE Complete
  BY <1>3 DEF Complete, acp
<1>4. CASE Leave
  BY <1>4 DEF Leave, Exit, acp
<1>5. CASE CloseEvents
  BY <1>5 DEF CloseEvents, acp
<1>6. CASE Send
  BY <1>6 DEF Send, acp
<1>7. ASSUME NEW g \in Goroutines, Emit(g) PROVE ChannelInv'
  BY <1>7 DEF Emit, acp
<1>8. CASE Unanswered
  BY <1>8 DEF Unanswered, Fails
<1>9. CASE Read
  <2>1. kind = "acp" /\ UNCHANGED <<kind, dispatcher, runner, blocked, shut>>
    BY <1>9 DEF Read
  <2>2. pending' \subseteq Requests
    BY <1>9 DEF Read
  <2> QED
    BY <2>1, <2>2
<1>10. CASE ReadEnds
  BY <1>10 DEF ReadEnds, FailPending
<1>11. CASE Refuse
  BY <1>11 DEF Refuse, acp
<1>12. CASE StartAcp
  BY <1>12 DEF StartAcp
<1>13. CASE StartFallback
  <2>1. kind = "none" /\ ~ shut /\ kind' \in {"direct", "echo"} /\ runner' = "last"
    BY <1>13 DEF StartFallback
  <2>2. UNCHANGED <<reader, blocked, shut, pending>> /\ dispatcher' = "collect"
    BY <1>13 DEF StartFallback, acp
  <2> QED
    BY <2>1, <2>2
<1>14. CASE Collect
  BY <1>14 DEF Collect, acp
<1>15. CASE Wait
  BY <1>15 DEF Wait, acp
<1>16. CASE Audit
  BY <1>16 DEF Audit, acp
<1>17. ASSUME NEW r \in Requests, Replies(r) PROVE ChannelInv'
  BY <1>17 DEF Replies
<1>18. CASE Writes
  BY <1>18 DEF Writes
<1>19. CASE Edits
  BY <1>19 DEF Edits
<1>20. CASE Dies
  BY <1>20 DEF Dies
<1>21. CASE Deadline
  BY <1>21 DEF Deadline, acp
<1>22. CASE UNCHANGED vars
  BY <1>22 DEF vars, acp
<1> QED
  BY <1>1, <1>2, <1>3, <1>4, <1>5, <1>6, <1>7, <1>8, <1>9, <1>10, <1>11, <1>12, <1>13, <1>14,
     <1>15, <1>16, <1>17, <1>18, <1>19, <1>20, <1>21, <1>22
     DEF Next, Runner, Reader, Handler, Goroutines

(* No goroutine sends on the closed channel of a dispatch, which would end the  *)
(* Orchestrator, whichever runtime serves it and however its agent behaves      *)
(* (emitEvent and closeEvents, acp_runtime.go:508-551).                         *)
THEOREM NeverSendsOnClosed == Spec => []NoSendOnClosed
<1>1. ChannelInv => NoSendOnClosed
  BY DEF ChannelInv
<1> QED
  BY <1>1, InitChannelInv, NextChannelInv, PTL DEF Spec

-----------------------------------------------------------------------------
(* A dispatch that is reported completed.                                     *)

EventSet == [type : {"stream", "error", "done"}] \cup [type : {"patch"}, files : SUBSET Paths]

Lines ==
    {<<"note">>, <<"bad">>, <<"overlong">>} \cup ({"write"} \X Paths) \cup (Requests \X {"ok", "error"})

DispatchTypes ==
    /\ kind \in {"none", "acp", "direct", "echo"}
    /\ got \in [error : BOOLEAN, done : BOOLEAN, files : SUBSET Paths]
    /\ todo \in [Goroutines -> Seq(EventSet)] /\ events \in Seq(EventSet)
    /\ reply \in [Requests -> {"none", "ok", "error"}]
    /\ wire \in Seq(Lines)
    /\ files \in [Paths -> Contents] /\ written \subseteq Paths
    /\ snapshot \in Seq([Paths -> Contents])

\* Is there an event of this type among these; the files that their patches hold.
Has(q, type) == \E i \in DOMAIN q : q[i].type = type
Patched(q)   == {p \in Paths : \E i \in DOMAIN q : q[i].type = "patch" /\ p \in q[i].files}

\* At most one request waits, that of the runner's step, for its only answer, and the
\* runner has emitted all it had to before it asks or completes.
RequestInv ==
    /\ pending \subseteq {runner}
    /\ \A r \in pending : reply[r] = "none"
    /\ runner = "off" => reply["initialize"] = "none"
    /\ runner \in {"off", "initialize"} => reply["new"] = "none"
    /\ runner \in {"off", "initialize", "new"} => reply["prompt"] = "none"
    /\ runner \in {"off", "initialize"} => snapshot = <<>>
    /\ runner \in {"off", "initialize", "new", "prompt"} => reply["close"] = "none" /\ Len(snapshot) < 2
    /\ runner \in {"close", "done"} \/ Len(snapshot) = 2 => reply["prompt"] = "ok"
    /\ runner \in pending \/ (runner \in Requests /\ reply[runner] # "none") \/ runner = "done" => Idle("runner")

\* The context ends with the runner, or at the deadline.
StopInv ==
    /\ kind = "acp" =>
          /\ runner \in {"close_events", "ended"} => stopped /\ Idle("runner")
          /\ shut => runner = "ended"
          /\ stopped => late \/ runner \in {"close_events", "ended"}
    /\ over => err /\ kind = "direct"
    /\ kind = "none" => ~stopped /\ ~shut
    /\ kind # "acp" => written = {}

\* How the runner ended is on its way to the handler, and so are the files.
Told(type) == Has(todo["runner"], type) \/ Has(events, type)

EndTold ==
    kind = "acp" /\ runner \in {"exit", "close_events", "ended"} =>
        \/ Told("error") \/ got.error
        \/ reply["prompt"] = "ok" /\ (Told("done") \/ got.done)

FallbackTold == kind \in {"direct", "echo"} /\ ~err => Told("done") \/ got.done

\* What was written before the prompt's answer is in the channel when the answer is read:
\* the reader emits a patch before it reads on.  It is lost only by a context that has ended.
WrittenShown ==
    kind = "acp" =>
        /\ reply["prompt"] = "ok" => written \subseteq got.files \cup Patched(events)
        /\ ~ stopped => written \subseteq got.files \cup Patched(events) \cup Patched(todo["reader"])

ChangedShown ==
    kind = "acp" /\ Len(snapshot) = 2 =>
        Differing(snapshot[1], snapshot[2]) \subseteq got.files \cup Patched(events) \cup Patched(todo["runner"])

OutcomeInv == ~late => EndTold /\ FallbackTold /\ WrittenShown /\ ChangedShown

HandlerInv ==
    /\ dispatcher \in {"collect", "wait", "audit", "ok"} => kind # "none"
    /\ dispatcher \in {"wait", "audit", "ok"} => shut /\ events = <<>>
    /\ dispatcher \in {"audit", "ok"} => ~got.error /\ runner = "ended" /\ (kind # "acp" => ~err)
    /\ dispatcher = "ok" => ~late

WholeInv ==
    /\ ChannelInv /\ DispatchTypes /\ RequestInv /\ StopInv /\ OutcomeInv /\ HandlerInv

LEMMA EventIsEvent == {Stream, Error, Done} \subseteq EventSet /\ \A P \in SUBSET Paths : Patch(P) \in EventSet
  BY DEF EventSet, Stream, Error, Done, Patch

(* What an event adds to the end of a sequence, and what its head takes away.   *)
LEMMA Appended ==
  ASSUME NEW q \in Seq(EventSet), NEW e \in EventSet
  PROVE  /\ \A type : Has(Append(q, e), type) <=> Has(q, type) \/ e.type = type
         /\ Patched(q) \subseteq Patched(Append(q, e))
         /\ e.type = "patch" => Patched(Append(q, e)) = Patched(q) \cup e.files
<1> DEFINE a == Append(q, e)
<1>1. /\ DOMAIN a = 1 .. Len(q) + 1 /\ DOMAIN q = 1 .. Len(q) /\ Len(q) \in Nat
      /\ a[Len(q) + 1] = e /\ \A i \in 1 .. Len(q) : a[i] = q[i]
  OBVIOUS
<1>2. \A i : i \in DOMAIN a <=> i \in DOMAIN q \/ i = Len(q) + 1
  BY <1>1
<1>3. \A i \in DOMAIN q : a[i] = q[i]
  BY <1>1
<1>4. e.type = "patch" => e.files \subseteq Paths
  BY DEF EventSet
<1> HIDE DEF a
<1>5. \A type : Has(a, type) <=> Has(q, type) \/ e.type = type
  BY <1>1, <1>2, <1>3 DEF Has
<1>6. \A p \in Paths : p \in Patched(a) <=> p \in Patched(q) \/ (e.type = "patch" /\ p \in e.files)
  BY <1>1, <1>2, <1>3 DEF Patched
<1>7. Patched(a) \subseteq Paths /\ Patched(q) \subseteq Paths
  BY DEF Patched
<1> QED
  BY <1>4, <1>5, <1>6, <1>7 DEF a

LEMMA Beheaded ==
  ASSUME NEW q \in Seq(EventSet), q # <<>>
  PROVE  /\ Head(q) \in EventSet /\ Tail(q) \in Seq(EventSet)
         /\ \A type : Has(q, type) <=> Head(q).type = type \/ Has(Tail(q), type)
         /\ Patched(Tail(q)) \subseteq Patched(q)
         /\ Patched(q) = Patched(Tail(q)) \cup (IF Head(q).type = "patch" THEN Head(q).files ELSE {})
<1> DEFINE t == Tail(q)
<1>1. /\ DOMAIN q = 1 .. Len(q) /\ Len(q) \in Nat \ {0} /\ DOMAIN t = 1 .. Len(q) - 1
      /\ Head(q) = q[1] /\ \A i \in 1 .. Len(q) - 1 : t[i] = q[i + 1]
      /\ q[1] \in EventSet /\ t \in Seq(EventSet)
  OBVIOUS
<1>2. \A i \in DOMAIN t : i + 1 \in DOMAIN q /\ t[i] = q[i + 1]
  BY <1>1
<1>3. \A i \in DOMAIN q : i = 1 \/ \E j \in DOMAIN t : q[i] = t[j]
  <2>1. ASSUME NEW i \in DOMAIN q, i # 1 PROVE i - 1 \in DOMAIN t /\ (i - 1) + 1 = i
    BY <1>1, <2>1
  <2> QED
    BY <1>1, <2>1
<1>4. 1 \in DOMAIN q
  BY <1>1
<1>5. Head(q).type = "patch" => Head(q).files \subseteq Paths
  BY <1>1 DEF EventSet
<1> HIDE DEF t
<1>6. \A type : Has(q, type) <=> Head(q).type = type \/ Has(t, type)
  BY <1>1, <1>2, <1>3, <1>4 DEF Has
<1>7. \A p \in Paths : p \in Patched(q) <=> p \in Patched(t) \/ (Head(q).type = "patch" /\ p \in Head(q).files)
  BY <1>1, <1>2, <1>3, <1>4, SMTT(60) DEF Patched
<1>8. Patched(t) \subseteq Paths /\ Patched(q) \subseteq Paths
  BY DEF Patched
<1> QED
  BY <1>1, <1>5, <1>6, <1>7, <1>8 DEF t

(* A second capture is kept after the first.                                  *)
LEMMA SecondCapture ==
  ASSUME NEW S, NEW q \in Seq(S), NEW e \in S
  PROVE  Len(q) = 1 => Append(q, e)[1] = q[1] /\ Append(q, e)[2] = e
<1> DEFINE a == Append(q, e)
<1>1. /\ DOMAIN a = 1 .. Len(q) + 1 /\ DOMAIN q = 1 .. Len(q) /\ Len(q) \in Nat
      /\ a[Len(q) + 1] = e /\ \A i \in 1 .. Len(q) : a[i] = q[i]
  OBVIOUS
<1> HIDE DEF a
<1>2. Len(q) = 1 => a[1] = q[1] /\ a[2] = e
  BY <1>1
<1> QED
  BY <1>2 DEF a

LEMMA NothingInEmpty == (\A type : ~ Has(<<>>, type)) /\ Patched(<<>>) = {}
  BY DEF Has, Patched

LEMMA Concatenated ==
  ASSUME NEW q \in Seq(EventSet), NEW r \in Seq(EventSet)
  PROVE  /\ q \o r \in Seq(EventSet)
         /\ \A type : Has(r, type) => Has(q \o r, type)
         /\ Patched(r) \subseteq Patched(q \o r)
<1> DEFINE c == q \o r
<1>1. c \in Seq(EventSet) /\ Len(q) \in Nat /\ DOMAIN r = 1 .. Len(r) /\ Len(r) \in Nat
  OBVIOUS
<1>2. ASSUME NEW i \in DOMAIN r PROVE Len(q) + i \in DOMAIN c /\ c[Len(q) + i] = r[i]
  <2>1. Len(c) = Len(q) + Len(r) /\ DOMAIN c = 1 .. Len(q) + Len(r)
    OBVIOUS
  <2>2. i \in Nat /\ i >= 1 /\ i <= Len(r)
    BY <1>1
  <2>3. Len(q) + i \in 1 .. Len(q) + Len(r)
    BY <1>1, <2>2
  <2>4. c[Len(q) + i] = r[i]
    BY <1>1, <2>2, <2>3
  <2> QED
    BY <2>1, <2>3, <2>4
<1> HIDE DEF c
<1>3. \A type : Has(r, type) => Has(c, type)
  BY <1>2 DEF Has
<1>4. Patched(r) \subseteq Patched(c)
  BY <1>2 DEF Patched
<1> QED
  BY <1>1, <1>3, <1>4 DEF c

LEMMA Singled ==
  ASSUME NEW e \in EventSet
  PROVE  /\ <<e>> \in Seq(EventSet) /\ Has(<<e>>, e.type)
         /\ e.type = "patch" => e.files \subseteq Patched(<<e>>)
<1>1. <<e>> \in Seq(EventSet) /\ 1 \in DOMAIN <<e>> /\ <<e>>[1] = e
  OBVIOUS
<1>2. e.type = "patch" => e.files \subseteq Paths
  BY DEF EventSet
<1> QED
  BY <1>1, <1>2 DEF Has, Patched

(* The sequences that the goroutines have to emit are events.                   *)
LEMMA RunnersEvents ==
  /\ \A call \in {"failed", "over", "text", "patch"} :
        DirectEvents(call) \in Seq(EventSet) /\ (call \in {"text", "patch"} => Has(DirectEvents(call), "done"))
  /\ <<Stream, Patch(Paths), Done>> \in Seq(EventSet) /\ Has(<<Stream, Patch(Paths), Done>>, "done")
  /\ \A inline \in {<<>>, <<Patch({})>>} :
        /\ inline \in Seq(EventSet) /\ Append(inline, Stream) \in Seq(EventSet)
        /\ \A before, after :
              /\ inline \o Compared(before, after) \in Seq(EventSet)
              /\ Differing(before, after) \subseteq Patched(inline \o Compared(before, after))
<1>1. {Stream, Error, Done, Patch(Paths), Patch({})} \subseteq EventSet
  BY EventIsEvent
<1>4. ASSUME NEW call \in {"failed", "over", "text", "patch"}
      PROVE  DirectEvents(call) \in Seq(EventSet) /\ (call \in {"text", "patch"} => Has(DirectEvents(call), "done"))
  <2> DEFINE rest == CASE call = "failed" -> <<Error>>
                       [] call = "over"   -> <<Stream, Error>>
                       [] call = "text"   -> <<Stream, Stream, Done>>
                       [] call = "patch"  -> <<Stream, Stream, Patch(Paths), Done>>
  <2>1. rest \in Seq(EventSet) /\ (call \in {"text", "patch"} => Has(rest, "done"))
    <3>1. CASE call \in {"failed", "over"}
      BY <1>1, <3>1
    <3>2. CASE call = "text"
      <4>1. rest = <<Stream, Stream, Done>>
        BY <3>2
      <4>2. 3 \in DOMAIN rest /\ rest[3].type = "done"
        BY <4>1 DEF Done
      <4>3. rest \in Seq(EventSet)
        BY <1>1, <4>1
      <4> QED
        BY <4>2, <4>3 DEF Has
    <3>3. CASE call = "patch"
      <4>1. rest = <<Stream, Stream, Patch(Paths), Done>>
        BY <3>3
      <4>2. 4 \in DOMAIN rest /\ rest[4].type = "done"
        BY <4>1 DEF Done
      <4>3. rest \in Seq(EventSet)
        BY <1>1, <4>1
      <4> QED
        BY <4>2, <4>3 DEF Has
    <3> QED
      BY <3>1, <3>2, <3>3
  <2>2. DirectEvents(call) = <<Stream>> \o rest
    BY DEF DirectEvents
  <2>3. <<Stream>> \in Seq(EventSet)
    BY <1>1
  <2> HIDE DEF rest
  <2> QED
    BY <2>1, <2>2, <2>3, Concatenated
<1>5. <<Stream, Patch(Paths), Done>> \in Seq(EventSet) /\ Has(<<Stream, Patch(Paths), Done>>, "done")
  <2> DEFINE q == <<Stream, Patch(Paths), Done>>
  <2>1. q[3].type = "done" /\ 3 \in DOMAIN q
    BY DEF Done
  <2> QED
    BY <1>1, <2>1 DEF Has
<1>6. ASSUME NEW inline \in {<<>>, <<Patch({})>>}
      PROVE  /\ inline \in Seq(EventSet) /\ Append(inline, Stream) \in Seq(EventSet)
             /\ \A before, after :
                   /\ inline \o Compared(before, after) \in Seq(EventSet)
                   /\ Differing(before, after) \subseteq Patched(inline \o Compared(before, after))
  <2>1. inline \in Seq(EventSet)
    <3>1. <<>> \in Seq(EventSet) /\ <<Patch({})>> \in Seq(EventSet)
      BY <1>1
    <3> QED
      BY <3>1
  <2>2. Append(inline, Stream) \in Seq(EventSet)
    BY <1>1, <2>1
  <2>3. ASSUME NEW before, NEW after
        PROVE  Compared(before, after) \in Seq(EventSet) /\ Differing(before, after) \subseteq Patched(Compared(before, after))
    <3> DEFINE D == Differing(before, after)
    <3>1. D \subseteq Paths
      BY DEF Differing, Captured
    <3>2. Compared(before, after) = IF D = {} THEN <<>> ELSE <<Patch(D)>>
      BY DEF Compared
    <3>3. Patch(D) \in EventSet /\ Patch(D).type = "patch" /\ Patch(D).files = D
      BY <3>1, EventIsEvent DEF Patch
    <3>4. CASE D = {}
      BY <3>2, <3>4
    <3>5. CASE D # {}
      <4> DEFINE e == Patch(D)
      <4>1. e \in EventSet /\ e.type = "patch" /\ e.files = D
        BY <3>3
      <4>2. Compared(before, after) = <<e>>
        BY <3>2, <3>5
      <4> HIDE DEF e, D
      <4>3. <<e>> \in Seq(EventSet) /\ D \subseteq Patched(<<e>>)
        BY <4>1, Singled
      <4> QED
        BY <4>2, <4>3 DEF D
    <3> QED
      BY <3>4, <3>5
  <2> QED
    BY <2>1, <2>2, <2>3, Concatenated
<1> QED
  BY <1>4, <1>5, <1>6

-----------------------------------------------------------------------------
(* What one action may change.                                                  *)

LEMMA FailsLast ==
  ASSUME DispatchTypes, Fails
  PROVE  /\ runner' = "exit" /\ todo' \in [Goroutines -> Seq(EventSet)]
         /\ Has(todo'["runner"], "error") /\ Patched(todo["runner"]) \subseteq Patched(todo'["runner"])
         /\ todo'["reader"] = todo["reader"]
<1>1. todo["runner"] \in Seq(EventSet) /\ Error \in EventSet /\ Error.type = "error"
  BY EventIsEvent DEF DispatchTypes, Goroutines, Error
<1>2. runner' = "exit" /\ todo' = [todo EXCEPT !["runner"] = Append(@, Error)]
  BY DEF Fails
<1> HIDE DEF Error
<1>3. Append(todo["runner"], Error) \in Seq(EventSet)
  BY <1>1
<1>4. todo'["runner"] = Append(todo["runner"], Error) /\ todo'["reader"] = todo["reader"]
  BY <1>2 DEF DispatchTypes, Goroutines
<1>5. todo' \in [Goroutines -> Seq(EventSet)]
  BY <1>2, <1>3 DEF DispatchTypes, Goroutines
<1> QED
  BY <1>1, <1>2, <1>4, <1>5, Appended

(* An event is sent, lost, or waits.  It is lost when the channel is closed,    *)
(* when the context has ended, or when it is neither a patch, nor an error, nor *)
(* the end.                                                                     *)
LEMMA Emitted ==
  ASSUME DispatchTypes, NEW g \in Goroutines, Emit(g)
  PROVE  /\ todo' \in [Goroutines -> Seq(EventSet)] /\ events' \in Seq(EventSet)
         /\ ~ Idle(g) /\ \A h \in Goroutines \ {g} : todo'[h] = todo[h]
         /\ Patched(todo'[g]) \subseteq Patched(todo[g]) /\ Patched(events) \subseteq Patched(events')
         /\ \A type : Has(events, type) => Has(events', type)
         /\ shut => events' = events
         /\ ~ shut /\ ~ stopped =>
              /\ Patched(todo[g]) \subseteq Patched(todo'[g]) \cup Patched(events')
              /\ \A type \in {"error", "done"} : Has(todo[g], type) => Has(todo'[g], type) \/ Has(events', type)
<1> DEFINE e == Head(todo[g])
<1>1. ~ Idle(g) /\ todo[g] \in Seq(EventSet) /\ todo[g] # <<>> /\ events \in Seq(EventSet)
  BY DEF Emit, Idle, DispatchTypes
<1>2. /\ e \in EventSet /\ Tail(todo[g]) \in Seq(EventSet)
      /\ \A type : Has(todo[g], type) <=> e.type = type \/ Has(Tail(todo[g]), type)
      /\ Patched(Tail(todo[g])) \subseteq Patched(todo[g])
      /\ Patched(todo[g]) = Patched(Tail(todo[g])) \cup (IF e.type = "patch" THEN e.files ELSE {})
  BY <1>1, Beheaded
<1>3. /\ Append(events, e) \in Seq(EventSet)
      /\ \A type : Has(Append(events, e), type) <=> Has(events, type) \/ e.type = type
      /\ Patched(events) \subseteq Patched(Append(events, e))
      /\ e.type = "patch" => Patched(Append(events, e)) = Patched(events) \cup e.files
  <2> HIDE DEF e
  <2>1. Append(events, e) \in Seq(EventSet)
    BY <1>1, <1>2
  <2> QED
    BY <1>1, <1>2, <2>1, Appended
<1>4. \/ /\ shut \/ Drops(e) \/ (stopped /\ Critical(e))
         /\ todo' = [todo EXCEPT ![g] = Tail(@)] /\ events' = events
      \/ ~ shut /\ todo' = [todo EXCEPT ![g] = Tail(@)] /\ events' = Append(events, e)
      \/ todo' = todo /\ events' = events
  BY DEF Emit
<1>5. todo \in [Goroutines -> Seq(EventSet)]
  BY DEF DispatchTypes
<1>6. Drops(e) => e.type \notin {"patch", "error", "done"}
  BY DEF Drops, Critical
<1> HIDE DEF e
<1>7. CASE todo' = todo /\ events' = events
  BY <1>1, <1>5, <1>7
<1>8. CASE todo' = [todo EXCEPT ![g] = Tail(@)]
  <2>1. todo'[g] = Tail(todo[g]) /\ todo' \in [Goroutines -> Seq(EventSet)] /\ \A h \in Goroutines \ {g} : todo'[h] = todo[h]
    BY <1>2, <1>5, <1>8
  <2>2. CASE events' = events /\ (shut \/ Drops(e) \/ stopped)
    BY <1>1, <1>2, <1>6, <2>1, <2>2
  <2>3. CASE events' = Append(events, e) /\ ~ shut
    BY <1>1, <1>2, <1>3, <2>1, <2>3
  <2>4. CASE todo' = todo /\ events' = events
    BY <1>7, <2>4
  <2> QED
    BY <1>4, <2>2, <2>3, <2>4
<1> QED
  BY <1>4, <1>7, <1>8

(* What the handler takes from the channel it keeps.                            *)
LEMMA Collected ==
  ASSUME DispatchTypes, Collect, events # <<>>
  PROVE  /\ got' \in [error : BOOLEAN, done : BOOLEAN, files : SUBSET Paths] /\ events' \in Seq(EventSet)
         /\ got.files \cup Patched(events) = got'.files \cup Patched(events')
         /\ got.error \/ Has(events, "error") <=> got'.error \/ Has(events', "error")
         /\ got.done \/ Has(events, "done") <=> got'.done \/ Has(events', "done")
<1> DEFINE e == Head(events)
<1>1. /\ e \in EventSet /\ Tail(events) \in Seq(EventSet)
      /\ \A type : Has(events, type) <=> e.type = type \/ Has(Tail(events), type)
      /\ Patched(events) = Patched(Tail(events)) \cup (IF e.type = "patch" THEN e.files ELSE {})
  BY Beheaded DEF DispatchTypes
<1>2. /\ events' = Tail(events)
      /\ got' = [got EXCEPT !.error = @ \/ e.type = "error", !.done = @ \/ e.type = "done",
                            !.files = IF e.type = "patch" THEN @ \cup e.files ELSE @]
  BY DEF Collect
<1>3. got \in [error : BOOLEAN, done : BOOLEAN, files : SUBSET Paths]
  BY DEF DispatchTypes
<1>4. e.type = "patch" => e.files \subseteq Paths
  BY <1>1 DEF EventSet
<1> HIDE DEF e
<1>5. /\ got'.error = (got.error \/ e.type = "error") /\ got'.done = (got.done \/ e.type = "done")
      /\ got'.files = IF e.type = "patch" THEN got.files \cup e.files ELSE got.files
  BY <1>2, <1>3
<1>6. got' \in [error : BOOLEAN, done : BOOLEAN, files : SUBSET Paths]
  BY <1>2, <1>3, <1>4
<1> QED
  BY <1>1, <1>2, <1>5, <1>6

-----------------------------------------------------------------------------
(* The invariant holds at the start, and each of its parts is kept.             *)

LEMMA InitWholeInv == Init => WholeInv
<1> SUFFICES ASSUME Init PROVE WholeInv
  OBVIOUS
<1>1. ChannelInv
  BY InitChannelInv
<1>2. DispatchTypes
  <2>1. <<>> \in Seq(EventSet) /\ <<>> \in Seq(Lines) /\ <<>> \in Seq([Paths -> Contents])
    OBVIOUS
  <2> QED
    BY <2>1 DEF Init, DispatchTypes
<1>3. RequestInv
  BY DEF Init, RequestInv, Requests
<1>5. StopInv /\ HandlerInv
  BY DEF Init, StopInv, HandlerInv
<1>6. OutcomeInv
  BY DEF Init, OutcomeInv, EndTold, FallbackTold, WrittenShown, ChangedShown
<1> QED
  BY <1>1, <1>2, <1>3, <1>5, <1>6 DEF WholeInv

LEMMA LinesRead ==
  ASSUME wire \in Seq(Lines), wire # <<>>
  PROVE  Head(wire) \in Lines /\ Tail(wire) \in Seq(Lines)
  OBVIOUS

LEMMA NextDispatchTypes ==
  ASSUME WholeInv, [Next]_vars
  PROVE  DispatchTypes'
<1> USE DEF DispatchTypes
<1>0. DispatchTypes
  BY DEF WholeInv
<1>1. ASSUME UNCHANGED <<kind, got, todo, events, reply, wire, files, written, snapshot>> PROVE DispatchTypes'
  BY <1>0, <1>1
<1>2. ASSUME Fails, UNCHANGED <<kind, got, events, reply, wire, files, written, snapshot>> PROVE DispatchTypes'
  BY <1>0, <1>2, FailsLast
<1>3. CASE SendRequest
  BY <1>1, <1>2, <1>3 DEF SendRequest
<1>4. CASE Answered
  <2>1. UNCHANGED <<kind, got, events, reply, wire, files, written>>
    BY <1>4 DEF Answered
  <2>2. \/ Fails \/ UNCHANGED todo
        \/ todo' = [todo EXCEPT !["runner"] = <<Stream>>]
        \/ \E inline \in {<<>>, <<Patch({})>>} :
              \/ todo' = [todo EXCEPT !["runner"] = inline]
              \/ todo' = [todo EXCEPT !["runner"] = Append(inline, Stream)]
              \/ todo' = [todo EXCEPT !["runner"] = inline \o Compared(snapshot[1], files)]
    BY <1>4 DEF Answered
  <2>0. snapshot' \in Seq([Paths -> Contents])
    <3>1. snapshot' \in {snapshot, <<files>>, Append(snapshot, files)}
      BY <1>4 DEF Answered
    <3>2. <<files>> \in Seq([Paths -> Contents]) /\ Append(snapshot, files) \in Seq([Paths -> Contents])
      BY <1>0
    <3> QED
      BY <1>0, <3>1, <3>2
  <2>3. <<Stream>> \in Seq(EventSet)
    BY EventIsEvent
  <2>4. CASE Fails
    BY <1>0, <2>0, <2>1, <2>4, FailsLast
  <2>5. ASSUME NEW q \in Seq(EventSet), todo' = [todo EXCEPT !["runner"] = q] PROVE DispatchTypes'
    <3>1. todo' \in [Goroutines -> Seq(EventSet)]
      BY <1>0, <2>5
    <3> QED
      BY <1>0, <2>0, <2>1, <3>1
  <2>6. CASE UNCHANGED todo
    BY <1>0, <2>0, <2>1, <2>6
  <2>7. \A inline \in {<<>>, <<Patch({})>>} :
           /\ inline \in Seq(EventSet) /\ Append(inline, Stream) \in Seq(EventSet)
           /\ inline \o Compared(snapshot[1], files) \in Seq(EventSet)
    BY RunnersEvents
  <2> QED
    BY <2>2, <2>3, <2>4, <2>5, <2>6, <2>7
<1>5. CASE Unanswered
  BY <1>1, <1>2, <1>5 DEF Unanswered
<1>6. CASE Complete
  <2>1. <<Done>> \in Seq(EventSet)
    BY EventIsEvent
  <2> QED
    BY <1>0, <1>6, <2>1 DEF Complete, acp
<1>7. CASE Leave \/ CloseEvents \/ Refuse \/ Wait \/ Audit \/ Deadline
  BY <1>1, <1>7 DEF Leave, CloseEvents, Refuse, Wait, Audit, Deadline, acp
<1>8. CASE Send
  <2>1. UNCHANGED <<kind, got, reply, wire, files, written, snapshot>>
    BY <1>8 DEF Send, acp
  <2>2. todo["runner"] \in Seq(EventSet) /\ todo["runner"] # <<>>
    BY <1>0, <1>8 DEF Send, Idle, Goroutines
  <2>3. Head(todo["runner"]) \in EventSet /\ Tail(todo["runner"]) \in Seq(EventSet)
    BY <2>2
  <2>4. events' \in Seq(EventSet)
    BY <1>0, <1>8, <2>3 DEF Send
  <2>5. todo' \in [Goroutines -> Seq(EventSet)]
    BY <1>0, <1>8, <2>3 DEF Send
  <2> QED
    BY <1>0, <2>1, <2>4, <2>5
<1>9. ASSUME NEW g \in Goroutines, Emit(g) PROVE DispatchTypes'
  <2>1. UNCHANGED <<kind, got, reply, wire, files, written, snapshot>>
    BY <1>9 DEF Emit, acp
  <2>2. todo' \in [Goroutines -> Seq(EventSet)] /\ events' \in Seq(EventSet)
    BY <1>0, <1>9, Emitted
  <2> QED
    BY <1>0, <2>1, <2>2
<1>10. CASE Read
  <2>1. UNCHANGED <<kind, got, events, snapshot>>
    BY <1>10 DEF Read
  <2>2. wire # <<>> /\ wire' = Tail(wire) /\ wire \in Seq(Lines)
    BY <1>0, <1>10 DEF Read
  <2>3. Head(wire) \in Lines /\ wire' \in Seq(Lines)
    BY <2>2, LinesRead
  <2> DEFINE line == Head(wire)
  <2>4. /\ line[1] \in Requests => line[2] \in {"ok", "error"}
        /\ line[1] = "write" => line[2] \in Paths
    BY <2>3 DEF Lines, Requests
  <2>5. \/ /\ line[1] \in Requests /\ UNCHANGED <<todo, files, written>>
           /\ reply' = [reply EXCEPT ![line[1]] = line[2]] \/ reply' = reply
        \/ UNCHANGED <<reply, files, written>> /\ (Queue(<<Stream>>) \/ Queue(<<Error>>))
        \/ line[1] = "write" /\ WriteTextFile(line[2]) /\ UNCHANGED reply
    BY <1>10 DEF Read
  <2>9. line[1] = "write" /\ WriteTextFile(line[2]) =>
           /\ \E content \in Contents : files' = [files EXCEPT ![line[2]] = content]
           /\ written' \in {written, written \cup {line[2]}}
           /\ Queue(<<Stream, Patch({line[2]})>>) \/ Queue(<<Error>>)
    BY DEF WriteTextFile
  <2> HIDE DEF line
  <2>6. reply' \in [Requests -> {"none", "ok", "error"}]
    BY <1>0, <2>4, <2>5
  <2>7. files' \in [Paths -> Contents] /\ written' \subseteq Paths
    BY <1>0, <2>4, <2>5, <2>9
  <2>8. todo' \in [Goroutines -> Seq(EventSet)]
    <3>1. {Stream, Error} \subseteq EventSet /\ (line[1] = "write" => Patch({line[2]}) \in EventSet)
      BY <2>4, EventIsEvent
    <3>2. <<Stream>> \in Seq(EventSet) /\ <<Error>> \in Seq(EventSet)
      BY <3>1
    <3>3. line[1] = "write" => <<Stream, Patch({line[2]})>> \in Seq(EventSet)
      BY <3>1
    <3>4. \A es \in Seq(EventSet) : Queue(es) => todo' \in [Goroutines -> Seq(EventSet)]
      <4>1. ASSUME NEW es \in Seq(EventSet), todo' = [todo EXCEPT !["reader"] = es]
            PROVE  todo' \in [Goroutines -> Seq(EventSet)]
        BY <1>0, <4>1
      <4> QED
        BY <4>1 DEF Queue
    <3> QED
      BY <1>0, <2>5, <2>9, <3>2, <3>3, <3>4
  <2> QED
    BY <1>0, <2>1, <2>3, <2>6, <2>7, <2>8
<1>11. CASE ReadEnds
  BY <1>0, <1>11 DEF ReadEnds, FailPending
<1>12. CASE StartAcp
  BY <1>0, <1>12 DEF StartAcp
<1>13. CASE StartFallback
  <2>1. kind' \in {"direct", "echo"} /\ UNCHANGED <<got, events, reply, wire, files, written, snapshot>>
    BY <1>13 DEF StartFallback, acp
  <2>2. \/ \E call \in {"failed", "over", "text", "patch"} : todo' = [todo EXCEPT !["runner"] = DirectEvents(call)]
        \/ todo' = [todo EXCEPT !["runner"] = <<Stream, Patch(Paths), Done>>]
    BY <1>13 DEF StartFallback
  <2>3. todo' \in [Goroutines -> Seq(EventSet)]
    <3>1. PICK q \in Seq(EventSet) : todo' = [todo EXCEPT !["runner"] = q]
      BY <1>0, <2>2, RunnersEvents
    <3> QED
      BY <1>0, <3>1
  <2> QED
    BY <1>0, <2>1, <2>3
<1>14. CASE Collect
  <2>1. UNCHANGED <<kind, todo, reply, wire, files, written, snapshot>>
    BY <1>14 DEF Collect, acp
  <2>2. CASE events = <<>>
    <3>1. UNCHANGED <<got, events>>
      BY <1>14, <2>2 DEF Collect
    <3> QED
      BY <1>1, <2>1, <3>1
  <2>3. CASE events # <<>>
    BY <1>0, <1>14, <2>1, <2>3, Collected
  <2> QED
    BY <2>2, <2>3
<1>15. ASSUME NEW line \in Lines, Write(line), UNCHANGED <<kind, got, todo, events, reply, files, written, snapshot>>
       PROVE  DispatchTypes'
  <2>1. wire' = Append(wire, line)
    BY <1>15 DEF Write
  <2> QED
    BY <1>0, <1>15, <2>1
<1>16. ASSUME NEW r \in Requests, Replies(r) PROVE DispatchTypes'
  <2>1. PICK how \in {"ok", "error"} : Write(<<r, how>>)
    BY <1>16 DEF Replies
  <2>2. <<r, how>> \in Lines
    BY DEF Lines
  <2> QED
    BY <1>0, <1>15, <1>16, <2>1, <2>2 DEF Replies
<1>17. CASE Writes
  <2>1. PICK line \in Lines : Write(line)
    BY <1>17 DEF Writes, Lines
  <2> QED
    BY <1>0, <1>15, <1>17, <2>1 DEF Writes
<1>18. CASE Edits
  <2>1. PICK p \in Paths, content \in Contents : files' = [files EXCEPT ![p] = content]
    BY <1>18 DEF Edits
  <2>2. files' \in [Paths -> Contents]
    BY <1>0, <2>1
  <2> QED
    BY <1>0, <1>18, <2>2 DEF Edits
<1>19. CASE Dies \/ UNCHANGED vars
  BY <1>1, <1>19 DEF Dies, vars, acp
<1> QED
  BY <1>3, <1>4, <1>5, <1>6, <1>7, <1>8, <1>9, <1>10, <1>11, <1>12, <1>13, <1>14, <1>16, <1>17, <1>18, <1>19
     DEF Next, Runner, Reader, Handler, Goroutines

LEMMA NextRequestInv ==
  ASSUME WholeInv, [Next]_vars
  PROVE  RequestInv'
<1>1. /\ RequestInv /\ pending \subseteq Requests /\ reply \in [Requests -> {"none", "ok", "error"}]
      /\ todo \in [Goroutines -> Seq(EventSet)]
  BY DEF WholeInv, ChannelInv, DispatchTypes
<1> USE DEF RequestInv
<1>2. ASSUME UNCHANGED <<runner, pending, reply, snapshot>>, Idle("runner") => Idle("runner")'
      PROVE  RequestInv'
  BY <1>1, <1>2
<1>3. runner \notin pending => pending = {}
  BY <1>1
<1>4. ASSUME Fails, pending' = {}, UNCHANGED <<reply, snapshot>>,
             Len(snapshot) = 2 => reply["prompt"] = "ok"
      PROVE  RequestInv'
  BY <1>4, FailsLast DEF WholeInv, Requests
<1>5. CASE SendRequest
  <2>1. /\ runner \in Requests /\ Idle("runner") /\ runner \notin pending /\ reply[runner] = "none"
        /\ UNCHANGED <<reply, snapshot>>
    BY <1>5 DEF SendRequest
  <2>2. CASE agent = "up"
    <3>1. pending' = {runner} /\ UNCHANGED <<runner, todo>>
      BY <1>3, <1>5, <2>1, <2>2 DEF SendRequest
    <3> QED
      BY <1>1, <2>1, <3>1 DEF Idle
  <2>3. CASE agent # "up" /\ runner = "close"
    <3>1. pending' = {} /\ runner' = "done" /\ UNCHANGED todo
      BY <1>3, <1>5, <2>1, <2>3 DEF SendRequest
    <3> QED
      BY <1>1, <2>1, <2>3, <3>1 DEF Idle, Requests
  <2>4. CASE agent # "up" /\ runner # "close"
    <3>1. pending' = {} /\ Fails
      BY <1>3, <1>5, <2>1, <2>4 DEF SendRequest
    <3> QED
      BY <1>1, <1>4, <2>1, <3>1
  <2> QED
    BY <2>2, <2>3, <2>4
<1>6. CASE Answered
  <2>1. runner \in Requests /\ reply[runner] # "none" /\ UNCHANGED <<pending, reply>>
    BY <1>6 DEF Answered
  <2>2. pending = {} /\ Idle("runner")
    BY <1>1, <2>1
  <2>3. CASE Fails /\ UNCHANGED snapshot
    BY <1>1, <1>4, <2>1, <2>2, <2>3
  <2>4. CASE reply[runner] = "ok" /\ runner = "initialize" /\ runner' = "new" /\ snapshot' \in {<<files>>, snapshot}
    <3>1. Len(<<files>>) < 2 /\ Len(<<files>>) # 2
      <4>1. Len(<<files>>) = 1
        OBVIOUS
      <4> QED
        BY <4>1
    <3>2. Len(snapshot') < 2 /\ Len(snapshot') # 2
      <4>1. CASE snapshot' = <<files>>
        BY <3>1, <4>1, Zenon
      <4>2. CASE snapshot' = snapshot
        BY <1>1, <2>4, <4>2, Zenon
      <4> QED
        BY <2>4, <4>1, <4>2
    <3> QED
      BY <1>1, <2>1, <2>2, <2>4, <3>2 DEF Requests
  <2>5. CASE reply[runner] = "ok" /\ runner = "new" /\ runner' = "prompt" /\ UNCHANGED <<todo, snapshot>>
    BY <1>1, <2>1, <2>2, <2>5 DEF Requests
  <2>6. CASE reply[runner] = "ok" /\ runner = "prompt" /\ runner' = "close"
    BY <1>1, <2>1, <2>2, <2>6 DEF Requests
  <2>7. CASE runner = "close" /\ runner' = "done" /\ UNCHANGED <<todo, snapshot>>
    BY <1>1, <2>1, <2>2, <2>7 DEF Requests, Idle
  <2> QED
    BY <1>6, <2>3, <2>4, <2>5, <2>6, <2>7 DEF Answered
<1>7. CASE Unanswered
  <2>1. /\ runner \in Requests /\ pending' = {} /\ UNCHANGED <<reply, snapshot>>
        /\ Idle("runner")
    BY <1>1, <1>7 DEF Unanswered
  <2>2. CASE runner = "close"
    <3>1. runner' = "done" /\ UNCHANGED todo
      BY <1>7, <2>2 DEF Unanswered
    <3> QED
      BY <1>1, <2>1, <2>2, <3>1 DEF Idle, Requests
  <2>3. CASE runner # "close"
    <3>1. Fails
      BY <1>7, <2>3 DEF Unanswered
    <3> QED
      BY <1>1, <1>4, <2>1, <3>1
  <2> QED
    BY <2>2, <2>3
<1>8. CASE Complete \/ Leave \/ CloseEvents
  <2>1. /\ runner \in {"done", "exit", "close_events", "last"} /\ runner' \in {"exit", "close_events", "ended"}
        /\ UNCHANGED <<pending, reply, snapshot>>
    BY <1>8 DEF Complete, Leave, Exit, CloseEvents, acp
  <2>2. pending = {}
    BY <1>1, <2>1 DEF Requests
  <2> QED
    BY <1>1, <2>1, <2>2 DEF Requests
<1>9. CASE Send
  <2>1. /\ kind # "acp" /\ UNCHANGED <<runner, pending, reply, snapshot>>
    BY <1>9 DEF Send, acp
  <2>2. runner \in {"off", "last", "ended"}
    BY <2>1 DEF WholeInv, ChannelInv
  <2> QED
    BY <1>1, <2>1, <2>2 DEF Requests
<1>10. ASSUME NEW g \in Goroutines, Emit(g) PROVE RequestInv'
  <2>1. UNCHANGED <<runner, pending, reply, snapshot>>
    BY <1>10 DEF Emit, acp
  <2>2. DispatchTypes
    BY DEF WholeInv
  <2>3. Idle("runner") => Idle("runner")'
    BY <1>10, <2>2, Emitted DEF Idle, Goroutines
  <2> QED
    BY <1>2, <2>1, <2>3
<1>11. CASE Read
  <2>1. UNCHANGED <<runner, snapshot>>
    BY <1>11 DEF Read
  <2>2. Idle("runner") => Idle("runner")'
    <3>1. todo'["runner"] = todo["runner"]
      BY <1>1, <1>11 DEF Read, Queue, WriteTextFile, Goroutines
    <3> QED
      BY <3>1 DEF Idle
  <2>3. CASE UNCHANGED <<pending, reply>>
    BY <1>2, <2>1, <2>2, <2>3
  <2>4. CASE ~ UNCHANGED <<pending, reply>>
    <3>1. PICK r \in pending : reply' = [reply EXCEPT ![r] = Head(wire)[2]] /\ pending' = pending \ {r}
      BY <1>11, <2>4 DEF Read
    <3>2. r = runner /\ pending' = {} /\ r \in Requests /\ \A x \in Requests \ {r} : reply'[x] = reply[x]
      BY <1>1, <3>1
    <3>3. Idle("runner") /\ r \notin {"done", "off"}
      BY <1>1, <3>1, <3>2 DEF Requests
    <3>4. runner = "prompt" => Len(snapshot) # 2
      BY <1>1
    <3>5. reply["prompt"] = "ok" => reply'["prompt"] = "ok"
      BY <1>1, <3>1, <3>2 DEF Requests
    <3> QED
      BY <1>1, <2>1, <2>2, <3>2, <3>3, <3>4, <3>5 DEF Requests
  <2> QED
    BY <2>3, <2>4
<1>12. CASE ReadEnds
  <2>1. /\ UNCHANGED <<runner, todo, snapshot>> /\ pending' = {}
        /\ reply' = [r \in Requests |-> IF r \in pending THEN "error" ELSE reply[r]]
    BY <1>12 DEF ReadEnds, FailPending
  <2>2. \A r \in Requests : r # runner => reply'[r] = reply[r]
    BY <1>1, <2>1
  <2>3. reply["prompt"] = "ok" => reply'["prompt"] = "ok"
    BY <1>1, <2>1 DEF Requests
  <2>4. runner \in Requests /\ reply'[runner] # "none" => Idle("runner")
    BY <1>1, <2>1
  <2> QED
    BY <1>1, <2>1, <2>2, <2>3, <2>4 DEF Requests, Idle
<1>13. CASE StartAcp \/ StartFallback
  <2>1. dispatcher = "dispatch" /\ runner' \in {"initialize", "last"} /\ UNCHANGED <<pending, reply, snapshot>>
    BY <1>13 DEF StartAcp, StartFallback, acp
  <2>2. runner = "off"
    BY <2>1 DEF WholeInv, ChannelInv
  <2>3. pending = {}
    BY <1>1, <2>2 DEF Requests
  <2> QED
    BY <1>1, <2>1, <2>2, <2>3 DEF Requests
<1>14. CASE Refuse \/ Wait \/ Audit \/ Deadline \/ Collect \/ Writes \/ Edits \/ Dies \/ UNCHANGED vars
  <2>1. UNCHANGED <<runner, pending, reply, snapshot, todo>>
    BY <1>14 DEF Refuse, Wait, Audit, Deadline, Collect, Writes, Edits, Dies, vars, acp
  <2> QED
    BY <1>2, <2>1 DEF Idle
<1>15. ASSUME NEW r \in Requests, Replies(r) PROVE RequestInv'
  <2>1. UNCHANGED <<runner, pending, reply, snapshot, todo>>
    BY <1>15 DEF Replies
  <2> QED
    BY <1>2, <2>1 DEF Idle
<1> QED
  BY <1>5, <1>6, <1>7, <1>8, <1>9, <1>10, <1>11, <1>12, <1>13, <1>14, <1>15
     DEF Next, Runner, Reader, Handler, Goroutines

LEMMA NextStopInv ==
  ASSUME WholeInv, [Next]_vars
  PROVE  StopInv'
<1>1. StopInv /\ ChannelInv /\ DispatchTypes
  BY DEF WholeInv
<1>2. /\ kind = "none" => runner = "off"
      /\ kind # "acp" => runner \in {"off", "last", "ended"} /\ reader = "off"
  BY <1>1 DEF ChannelInv
<1> USE DEF StopInv
<1>3. ASSUME UNCHANGED <<kind, shut, stopped, late, over, err, written>>,
             Idle("runner") => Idle("runner")', runner' \in {"close_events", "ended"} <=> runner \in {"close_events", "ended"},
             runner = "ended" => runner' = "ended"
      PROVE  StopInv'
  BY <1>1, <1>3
<1>4. ASSUME UNCHANGED <<kind, shut, stopped, late, over, err, written>>,
             runner \notin {"off", "last", "close_events", "ended"}, runner' \notin {"close_events", "ended"}
      PROVE  StopInv'
  BY <1>1, <1>2, <1>4
<1>5. CASE SendRequest \/ Answered \/ Unanswered \/ Complete
  <2>1. UNCHANGED <<kind, shut, stopped, late, over, err, written>>
    BY <1>5 DEF SendRequest, Answered, Unanswered, Complete, acp
  <2>2. runner \in Requests \cup {"done"}
    BY <1>1, <1>5 DEF SendRequest, Answered, Unanswered, Complete, ChannelInv
  <2>3. runner' \in Requests \cup {"done", "exit"}
    <3>1. CASE SendRequest
      BY <2>2, <3>1 DEF SendRequest, Fails
    <3>2. CASE Answered
      BY <2>2, <3>2 DEF Answered, Fails, Requests
    <3>3. CASE Unanswered
      BY <2>2, <3>3 DEF Unanswered, Fails
    <3>4. CASE Complete
      BY <3>4 DEF Complete
    <3> QED
      BY <1>5, <3>1, <3>2, <3>3, <3>4
  <2> QED
    BY <1>4, <2>1, <2>2, <2>3 DEF Requests
<1>6. CASE Leave
  <2>1. /\ runner = "exit" /\ Idle("runner") /\ runner' = "close_events" /\ stopped' = TRUE
        /\ UNCHANGED <<kind, shut, late, over, err, written, todo>>
    BY <1>6 DEF Leave, Exit, acp
  <2> QED
    BY <1>1, <1>2, <2>1 DEF Idle
<1>7. CASE CloseEvents
  <2>1. runner \in {"close_events", "last"} /\ shut' = TRUE /\ runner' = "ended"
    BY <1>7 DEF CloseEvents
  <2>2. UNCHANGED <<kind, stopped, late, over, err, written, todo>>
    BY <1>7 DEF CloseEvents, acp
  <2>3. kind = "acp" => runner # "last"
    BY <1>1 DEF ChannelInv
  <2> QED
    BY <1>1, <1>2, <2>1, <2>2, <2>3 DEF Idle
<1>8. CASE Send
  <2>1. kind # "acp" /\ UNCHANGED <<kind, shut, stopped, over, err, written>>
    BY <1>8 DEF Send, acp
  <2> QED
    BY <1>1, <2>1
<1>9. ASSUME NEW g \in Goroutines, Emit(g) PROVE StopInv'
  <2>1. UNCHANGED <<kind, runner, shut, stopped, late, over, err, written>>
    BY <1>9 DEF Emit, acp
  <2>2. Idle("runner") => Idle("runner")'
    BY <1>1, <1>9, Emitted DEF Idle, Goroutines
  <2> QED
    BY <1>3, <2>1, <2>2
<1>10. CASE Read
  <2>1. reader = "scan" /\ UNCHANGED <<kind, runner, shut, stopped, late, over>>
    BY <1>10 DEF Read
  <2>2. kind = "acp"
    BY <1>2, <2>1
  <2>3. todo'["runner"] = todo["runner"]
    BY <1>1, <1>10 DEF Read, Queue, WriteTextFile, Goroutines, DispatchTypes
  <2> QED
    BY <1>1, <2>1, <2>2, <2>3 DEF Idle
<1>11. CASE ReadEnds \/ Refuse \/ Collect \/ Wait \/ Audit \/ Writes \/ Edits \/ Dies \/ UNCHANGED vars
  <2>1. UNCHANGED <<kind, runner, shut, stopped, late, over, err, written, todo>>
    BY <1>11 DEF ReadEnds, Refuse, Collect, Wait, Audit, Writes, Edits, Dies, vars, acp
  <2> QED
    BY <1>3, <2>1 DEF Idle
<1>12. ASSUME NEW r \in Requests, Replies(r) PROVE StopInv'
  <2>1. UNCHANGED <<kind, runner, shut, stopped, late, over, err, written, todo>>
    BY <1>12 DEF Replies
  <2> QED
    BY <1>3, <2>1 DEF Idle
<1>14. CASE StartAcp
  <2>1. dispatcher = "dispatch" /\ kind' = "acp" /\ runner' = "initialize" /\ UNCHANGED <<shut, stopped, over>>
    BY <1>14 DEF StartAcp
  <2> QED
    BY <1>1, <2>1 DEF ChannelInv
<1>15. CASE StartFallback
  <2>1. /\ dispatcher = "dispatch" /\ UNCHANGED written
        /\ \/ kind' = "direct" /\ (over' => err')
           \/ kind' = "echo" /\ UNCHANGED over
    BY <1>15 DEF StartFallback, acp
  <2> QED
    BY <1>1, <2>1 DEF ChannelInv
<1>16. CASE Deadline
  <2>1. /\ dispatcher \in {"collect", "wait", "audit"} /\ late' = TRUE
        /\ UNCHANGED <<kind, runner, shut, over, err, written, todo>> /\ stopped' = TRUE
    BY <1>16 DEF Deadline, acp
  <2>2. kind # "none"
    BY <2>1 DEF WholeInv, HandlerInv
  <2> QED
    BY <1>1, <2>1, <2>2 DEF Idle
<1> QED
  BY <1>5, <1>6, <1>7, <1>8, <1>9, <1>10, <1>11, <1>12, <1>14, <1>15, <1>16
     DEF Next, Runner, Reader, Handler, Goroutines

LEMMA NextHandlerInv ==
  ASSUME WholeInv, [Next]_vars
  PROVE  HandlerInv'
<1>1. HandlerInv /\ ChannelInv /\ DispatchTypes
  BY DEF WholeInv
<1> USE DEF HandlerInv
<1>2. ASSUME UNCHANGED <<kind, dispatcher, events, got, late>>, shut => shut', runner = "ended" => runner' = "ended",
             kind # "acp" => UNCHANGED err
      PROVE  HandlerInv'
  BY <1>1, <1>2
<1>3. CASE SendRequest \/ Answered \/ Unanswered \/ Complete \/ Leave \/ CloseEvents
  <2>1. UNCHANGED <<kind, dispatcher, events, got, late, err>>
    BY <1>3 DEF SendRequest, Answered, Unanswered, Complete, Leave, CloseEvents, acp
  <2>2. shut => shut'
    BY <1>3 DEF SendRequest, Answered, Unanswered, Complete, Leave, CloseEvents
  <2>3. runner # "ended"
    BY <1>1, <1>3 DEF SendRequest, Answered, Unanswered, Complete, Leave, CloseEvents, ChannelInv, Requests
  <2> QED
    BY <1>2, <2>1, <2>2, <2>3
<1>4. CASE Send
  <2>1. kind \in {"direct", "echo"} /\ ~ Idle("runner") /\ UNCHANGED <<kind, dispatcher, got, runner, shut, err, late>>
    BY <1>4 DEF Send, acp
  <2>2. ~ shut
    BY <1>1, <2>1 DEF ChannelInv, NoSendOnClosed
  <2> QED
    BY <1>1, <2>1, <2>2
<1>5. ASSUME NEW g \in Goroutines, Emit(g) PROVE HandlerInv'
  <2>1. UNCHANGED <<kind, dispatcher, got, runner, shut, err, late>>
    BY <1>5 DEF Emit, acp
  <2>2. shut => events' = events
    BY <1>1, <1>5, Emitted
  <2> QED
    BY <1>1, <2>1, <2>2
<1>6. CASE Read
  <2>1. reader = "scan" /\ UNCHANGED <<kind, dispatcher, got, runner, events, shut, late>>
    BY <1>6 DEF Read
  <2>2. kind = "acp"
    BY <1>1, <2>1 DEF ChannelInv
  <2> QED
    BY <1>2, <2>1, <2>2
<1>7. CASE ReadEnds \/ Writes \/ Dies \/ Edits \/ UNCHANGED vars
  <2>1. UNCHANGED <<kind, dispatcher, got, runner, events, shut, err, late>>
    BY <1>7 DEF ReadEnds, Writes, Dies, Edits, vars
  <2> QED
    BY <1>2, <2>1
<1>8. ASSUME NEW r \in Requests, Replies(r) PROVE HandlerInv'
  <2>1. UNCHANGED <<kind, dispatcher, got, runner, events, shut, err, late>>
    BY <1>8 DEF Replies
  <2> QED
    BY <1>2, <2>1
<1>9. CASE Refuse
  BY <1>9 DEF Refuse
<1>10. CASE StartAcp
  BY <1>10 DEF StartAcp
<1>11. CASE StartFallback
  BY <1>11 DEF StartFallback
<1>12. CASE Collect
  <2>1. dispatcher = "collect" /\ UNCHANGED <<kind, runner, shut, err, late>>
    BY <1>12 DEF Collect
  <2>2. dispatcher' = "collect" \/ (dispatcher' = "wait" /\ shut /\ events' = <<>>)
    BY <1>12, <2>1 DEF Collect
  <2> QED
    BY <1>1, <2>1, <2>2
<1>13. CASE Wait
  <2>1. /\ dispatcher = "wait" /\ runner = "ended" /\ UNCHANGED <<kind, got, runner, events, shut, err, late>>
        /\ dispatcher' = IF err \/ got.error THEN "failed" ELSE "audit"
    BY <1>13 DEF Wait
  <2> QED
    BY <1>1, <2>1
<1>14. CASE Audit
  <2>1. /\ dispatcher = "audit" /\ UNCHANGED <<kind, got, runner, events, shut, err, late>>
        /\ (dispatcher' = "ok" /\ ~ late) \/ dispatcher' = "failed"
    BY <1>14 DEF Audit
  <2> QED
    BY <1>1, <2>1
<1>15. CASE Deadline
  <2>1. /\ dispatcher \in {"collect", "wait", "audit"} /\ UNCHANGED <<kind, dispatcher, got, runner, events, shut, err>>
    BY <1>15 DEF Deadline
  <2> QED
    BY <1>1, <2>1
<1> QED
  BY <1>3, <1>4, <1>5, <1>6, <1>7, <1>8, <1>9, <1>10, <1>11, <1>12, <1>13, <1>14, <1>15
     DEF Next, Runner, Reader, Handler, Goroutines

LEMMA NextOutcomeInv ==
  ASSUME WholeInv, [Next]_vars
  PROVE  OutcomeInv'
<1> DEFINE Goal == ~ late' => EndTold' /\ FallbackTold' /\ WrittenShown' /\ ChangedShown'
<1> SUFFICES Goal
  BY DEF OutcomeInv
<1>1. /\ ChannelInv /\ DispatchTypes /\ RequestInv /\ StopInv
      /\ ~ late => EndTold /\ FallbackTold /\ WrittenShown /\ ChangedShown
  BY DEF WholeInv, OutcomeInv
<1>2. /\ kind # "acp" => runner \in {"off", "last", "ended"} /\ reader = "off"
      /\ kind = "none" => runner = "off"
      /\ kind = "acp" => runner # "last"
  BY <1>1 DEF ChannelInv
<1>3. todo \in [Goroutines -> Seq(EventSet)] /\ todo["runner"] \in Seq(EventSet) /\ todo["reader"] \in Seq(EventSet)
  BY <1>1 DEF DispatchTypes, Goroutines
<1> USE DEF EndTold, FallbackTold, WrittenShown, ChangedShown, Told
\* What changes nothing that the handler will be told.
<1>4. ASSUME UNCHANGED <<kind, late, err, stopped, got, events, files, written, snapshot, reply, todo>>,
             runner' = runner \/ kind # "acp"
      PROVE  Goal
  BY <1>1, <1>4
\* A step of the runner: the events of the reader and what was written stay.
<1>5. ASSUME UNCHANGED <<kind, late, err, stopped, got, events, files, written, reply>>, kind = "acp",
             todo'["reader"] = todo["reader"]
      PROVE  ~ late' => FallbackTold' /\ WrittenShown'
  BY <1>1, <1>5
<1>6. ASSUME UNCHANGED <<kind, late, err, stopped, got, events, files, written, reply, snapshot>>, kind = "acp", Fails
      PROVE  Goal
  <2>1. /\ Has(todo'["runner"], "error") /\ Patched(todo["runner"]) \subseteq Patched(todo'["runner"])
        /\ todo'["reader"] = todo["reader"]
    BY <1>1, <1>6, FailsLast
  <2>2. EndTold'
    BY <2>1
  <2>3. ~ late' => ChangedShown'
    BY <1>1, <1>6, <2>1
  <2> QED
    BY <1>5, <1>6, <2>1, <2>2, <2>3
<1>7. ASSUME UNCHANGED <<kind, late, err, stopped, got, events, files, written, reply, snapshot, todo>>, kind = "acp",
             runner' \notin {"exit", "close_events", "ended"}
      PROVE  Goal
  BY <1>1, <1>7
<1>8. runner \in Requests \cup {"done", "exit", "close_events"} => kind = "acp"
  BY <1>2 DEF Requests
<1>9. CASE SendRequest
  <2>1. /\ runner \in Requests
        /\ UNCHANGED <<kind, late, err, stopped, got, events, files, written, reply, snapshot>>
    BY <1>9 DEF SendRequest
  <2>2. \/ runner' \in Requests \cup {"done"} /\ UNCHANGED todo
        \/ Fails
    <3>1. CASE agent = "up"
      BY <1>9, <2>1, <3>1 DEF SendRequest
    <3>2. CASE agent # "up" /\ runner = "close"
      BY <1>9, <3>2 DEF SendRequest
    <3>3. CASE agent # "up" /\ runner # "close"
      BY <1>9, <3>3 DEF SendRequest
    <3> QED
      BY <3>1, <3>2, <3>3
  <2> QED
    BY <1>6, <1>7, <1>8, <2>1, <2>2 DEF Requests
<1>10. CASE Unanswered
  <2>1. /\ runner \in Requests
        /\ UNCHANGED <<kind, late, err, stopped, got, events, files, written, reply, snapshot>>
    BY <1>1, <1>10 DEF Unanswered, ChannelInv
  <2>2. \/ runner' = "done" /\ UNCHANGED todo
        \/ Fails
    <3>1. CASE runner = "close"
      BY <1>10, <3>1 DEF Unanswered
    <3>2. CASE runner # "close"
      BY <1>10, <3>2 DEF Unanswered
    <3> QED
      BY <3>1, <3>2
  <2> QED
    BY <1>6, <1>7, <1>8, <2>1, <2>2
<1>11. CASE Answered
  <2>1. runner \in Requests /\ UNCHANGED <<kind, late, err, stopped, got, events, files, written, reply>>
    BY <1>11 DEF Answered
  <2>2. kind = "acp"
    BY <1>8, <2>1
  <2>3. CASE Fails /\ UNCHANGED snapshot
    BY <1>6, <2>1, <2>2, <2>3
  <2>4. CASE runner' \in {"prompt", "done"} /\ UNCHANGED <<todo, snapshot>>
    BY <1>7, <2>1, <2>2, <2>4
  <2>5. CASE /\ runner = "initialize" /\ runner' = "new" /\ snapshot' \in {<<files>>, snapshot}
             /\ todo'["reader"] = todo["reader"]
    <3>1. Len(snapshot') # 2
      BY <1>1, <2>5 DEF RequestInv
    <3> QED
      BY <1>5, <2>1, <2>2, <2>5, <3>1
  <2>6. CASE runner = "prompt" /\ runner' = "close"
    <3>1. PICK inline \in {<<>>, <<Patch({})>>} :
            \/ /\ snapshot' = snapshot
               /\ todo' = [todo EXCEPT !["runner"] = inline] \/ todo' = [todo EXCEPT !["runner"] = Append(inline, Stream)]
            \/ /\ snapshot # <<>> /\ snapshot' = Append(snapshot, files)
               /\ todo' = [todo EXCEPT !["runner"] = inline \o Compared(snapshot[1], files)]
      BY <1>11, <2>6 DEF Answered, Fails
    <3>2. todo'["reader"] = todo["reader"]
      BY <1>3, <3>1 DEF Goroutines
    <3>3. ChangedShown'
      <4>1. CASE snapshot' = snapshot
        BY <1>1, <2>6, <4>1 DEF RequestInv
      <4>2. CASE /\ snapshot # <<>> /\ snapshot' = Append(snapshot, files)
                 /\ todo' = [todo EXCEPT !["runner"] = inline \o Compared(snapshot[1], files)]
        <5>1. todo'["runner"] = inline \o Compared(snapshot[1], files)
          BY <1>3, <4>2 DEF Goroutines
        <5>2. Len(snapshot) = 1
          <6>1. Len(snapshot) < 2
            BY <1>1, <2>6 DEF RequestInv
          <6>2. snapshot # <<>> /\ snapshot \in Seq([Paths -> Contents])
            BY <1>1, <4>2 DEF DispatchTypes
          <6>3. Len(snapshot) \in Nat /\ Len(snapshot) # 0
            BY <6>2
          <6> QED
            BY <6>1, <6>3
        <5>3. snapshot'[1] = snapshot[1] /\ snapshot'[2] = files
          <6>1. snapshot \in Seq([Paths -> Contents]) /\ files \in [Paths -> Contents]
            BY <1>1 DEF DispatchTypes
          <6>2. Append(snapshot, files)[1] = snapshot[1] /\ Append(snapshot, files)[2] = files
            BY <5>2, <6>1, SecondCapture
          <6> QED
            BY <4>2, <6>2
        <5>4. Differing(snapshot[1], files) \subseteq Patched(inline \o Compared(snapshot[1], files))
          BY RunnersEvents
        <5> QED
          BY <5>1, <5>3, <5>4
      <4> QED
        BY <3>1, <4>1, <4>2
    <3> QED
      BY <1>5, <2>1, <2>2, <2>6, <3>2, <3>3
  <2>7. \/ Fails /\ UNCHANGED snapshot
        \/ runner' \in {"prompt", "done"} /\ UNCHANGED <<todo, snapshot>>
        \/ /\ runner = "initialize" /\ runner' = "new"
           /\ \/ snapshot' = <<files>> /\ UNCHANGED todo
              \/ UNCHANGED snapshot /\ todo' = [todo EXCEPT !["runner"] = <<Stream>>]
        \/ runner = "prompt" /\ runner' = "close"
    BY <1>11 DEF Answered
  <2>8. todo' = [todo EXCEPT !["runner"] = <<Stream>>] => todo'["reader"] = todo["reader"]
    BY <1>3 DEF Goroutines
  <2> QED
    BY <2>3, <2>4, <2>5, <2>6, <2>7, <2>8
<1>12. CASE Complete
  <2>1. /\ runner = "done" /\ todo' = [todo EXCEPT !["runner"] = <<Done>>]
        /\ UNCHANGED <<kind, late, err, stopped, got, events, files, written, reply, snapshot>>
    BY <1>12 DEF Complete, acp
  <2>2. todo'["reader"] = todo["reader"] /\ todo'["runner"] = <<Done>>
    BY <1>3, <2>1 DEF Goroutines
  <2>3. Has(<<Done>>, "done")
    BY EventIsEvent, Singled DEF Done
  <2>4. reply["prompt"] = "ok" /\ todo["runner"] = <<>>
    BY <1>1, <2>1 DEF RequestInv, Idle
  <2>5. EndTold'
    BY <2>1, <2>2, <2>3, <2>4
  <2>6. ~ late' => ChangedShown'
    BY <1>1, <2>1, <2>4, NothingInEmpty
  <2> QED
    BY <1>5, <1>8, <2>1, <2>2, <2>5, <2>6
<1>13. CASE Leave
  <2>1. /\ runner = "exit" /\ runner' = "close_events" /\ stopped' = TRUE
        /\ UNCHANGED <<kind, late, err, got, events, files, written, reply, snapshot, todo>>
    BY <1>13 DEF Leave, Exit, acp
  <2> QED
    BY <1>1, <1>8, <2>1
<1>14. CASE CloseEvents
  <2>1. /\ runner \in {"close_events", "last"}
        /\ UNCHANGED <<kind, late, err, stopped, got, events, files, written, reply, snapshot, todo>>
    BY <1>14 DEF CloseEvents, acp
  <2> QED
    BY <1>1, <1>2, <2>1
<1>15. CASE Send
  <2>1. /\ kind \in {"direct", "echo"} /\ ~ Idle("runner")
        /\ events' = Append(events, Head(todo["runner"])) /\ todo' = [todo EXCEPT !["runner"] = Tail(@)]
        /\ UNCHANGED <<kind, late, err, got>>
    BY <1>15 DEF Send
  <2> DEFINE e == Head(todo["runner"])
  <2>2. e \in EventSet /\ \A type : Has(todo["runner"], type) <=> e.type = type \/ Has(Tail(todo["runner"]), type)
    BY <1>3, <2>1, Beheaded DEF Idle
  <2>3. \A type : Has(Append(events, e), type) <=> Has(events, type) \/ e.type = type
    <3> HIDE DEF e
    <3> QED
      BY <1>1, <2>2, Appended DEF DispatchTypes
  <2>4. todo'["runner"] = Tail(todo["runner"])
    BY <1>3, <2>1 DEF Goroutines
  <2> HIDE DEF e
  <2>5. Told("done") => Told("done")'
    <3>1. events' = Append(events, e)
      BY <2>1 DEF e
    <3> QED
      BY <2>2, <2>3, <2>4, <3>1
  <2>6. kind' # "acp"
    BY <2>1
  <2> QED
    BY <1>1, <2>1, <2>5, <2>6
<1>16. ASSUME NEW g \in Goroutines, Emit(g) PROVE Goal
  <2>1. /\ kind = "acp" /\ ~ Idle(g)
        /\ UNCHANGED <<kind, late, err, stopped, got, runner, shut, files, written, reply, snapshot>>
    BY <1>16 DEF Emit, acp
  <2>2. /\ \A h \in Goroutines \ {g} : todo'[h] = todo[h]
        /\ Patched(todo'[g]) \subseteq Patched(todo[g]) /\ Patched(events) \subseteq Patched(events')
        /\ \A type : Has(events, type) => Has(events', type)
        /\ ~ shut /\ ~ stopped =>
             /\ Patched(todo[g]) \subseteq Patched(todo'[g]) \cup Patched(events')
             /\ \A type \in {"error", "done"} : Has(todo[g], type) => Has(todo'[g], type) \/ Has(events', type)
    BY <1>1, <1>16, Emitted
  <2>3. /\ runner \in {"close_events", "ended"} => stopped /\ Idle("runner")
        /\ shut => runner = "ended"
        /\ stopped => late \/ runner \in {"close_events", "ended"}
    BY <1>1, <2>1 DEF StopInv
  <2>4. kind' = "acp"
    BY <2>1
  <2>5. FallbackTold'
    BY <2>4
  <2>6. CASE g = "runner"
    <3>1. ~ late => ~ shut /\ ~ stopped
      BY <2>1, <2>3, <2>6
    <3>2. todo'["reader"] = todo["reader"]
      BY <2>2, <2>6 DEF Goroutines
    <3>3. ~ late => (Told("error") => Told("error")') /\ (Told("done") => Told("done")')
      BY <2>2, <2>6, <3>1
    <3>4. ~ late' => EndTold'
      BY <1>1, <2>1, <3>3
    <3>5. ~ late' => ChangedShown'
      BY <1>1, <2>1, <2>2, <2>6, <3>1
    <3>6. ~ late' => WrittenShown'
      BY <1>1, <2>1, <2>2, <3>2
    <3> QED
      BY <2>5, <3>4, <3>5, <3>6
  <2>7. CASE g = "reader"
    <3>1. todo'["runner"] = todo["runner"]
      BY <2>2, <2>7 DEF Goroutines
    <3>2. (Told("error") => Told("error")') /\ (Told("done") => Told("done")')
      BY <2>2, <3>1
    <3>3. ~ late' => EndTold' /\ ChangedShown'
      BY <1>1, <2>1, <2>2, <3>1, <3>2
    <3>4. ~ late' => WrittenShown'
      <4>1. ~ stopped => ~ shut \/ late
        BY <2>3
      <4> QED
        BY <1>1, <2>1, <2>2, <2>7, <4>1
    <3> QED
      BY <2>5, <3>3, <3>4
  <2> QED
    BY <2>6, <2>7 DEF Goroutines
<1>17. CASE Read
  <2>1. /\ reader = "scan" /\ Idle("reader") /\ wire # <<>>
        /\ UNCHANGED <<kind, late, stopped, got, runner, events, snapshot>>
    BY <1>17 DEF Read
  <2>2. kind = "acp" /\ kind' = "acp"
    BY <1>2, <2>1
  <2>3. Head(wire) \in Lines
    BY <1>1, <2>1, LinesRead DEF DispatchTypes
  <2>4. todo'["runner"] = todo["runner"]
    BY <1>3, <1>17 DEF Read, Queue, WriteTextFile, Goroutines
  <2>5. \/ reply'["prompt"] = reply["prompt"]
        \/ "prompt" \in pending
    BY <1>1, <1>17 DEF Read, DispatchTypes, Requests
  <2>6. "prompt" \in pending => reply["prompt"] = "none" /\ runner = "prompt"
    BY <1>1 DEF RequestInv
  <2>7. ~ late' => EndTold' /\ FallbackTold' /\ ChangedShown'
    BY <1>1, <2>1, <2>2, <2>4, <2>5, <2>6
  <2>8. ~ late' => WrittenShown'
    <3>1. SUFFICES ASSUME ~ late PROVE WrittenShown'
      BY <2>1
    <3>2. reply'["prompt"] = "ok" => reply["prompt"] = "ok" \/ ~ stopped
      BY <1>1, <2>2, <2>5, <2>6, <3>1 DEF StopInv
    <3>3. reply["prompt"] = "ok" \/ ~ stopped => written \subseteq got.files \cup Patched(events)
      BY <1>1, <2>1, <2>2, <3>1, NothingInEmpty DEF Idle
    <3>4. CASE UNCHANGED written
      BY <2>1, <3>2, <3>3, <3>4
    <3>5. CASE written' # written
      <4>1. PICK p : /\ p \in Paths /\ WriteTextFile(p) /\ UNCHANGED reply
        <5>1. Head(wire)[1] = "write" /\ WriteTextFile(Head(wire)[2]) /\ UNCHANGED reply
          BY <1>17, <3>5 DEF Read
        <5>2. Head(wire)[2] \in Paths
          BY <2>3, <5>1 DEF Lines, Requests
        <5> QED
          BY <5>1, <5>2
      <4>2. reply'["prompt"] = "none" /\ written' = written \cup {p} /\ Queue(<<Stream, Patch({p})>>)
        BY <3>5, <4>1 DEF WriteTextFile
      <4>3. todo'["reader"] = <<Stream, Patch({p})>>
        BY <1>3, <4>2 DEF Queue, Goroutines
      <4>4. p \in Patched(<<Stream, Patch({p})>>)
        <5> DEFINE q == <<Stream, Patch({p})>>
        <5>1. 2 \in DOMAIN q /\ q[2].type = "patch" /\ p \in q[2].files
          BY DEF Patch
        <5> HIDE DEF q
        <5>2. p \in Patched(q)
          BY <4>1, <5>1 DEF Patched
        <5> QED
          BY <5>2 DEF q
      <4>5. ~ stopped' => written' \subseteq got'.files \cup Patched(events') \cup Patched(todo'["reader"])
        BY <2>1, <3>3, <4>2, <4>3, <4>4
      <4> QED
        BY <4>2, <4>5
    <3> QED
      BY <3>4, <3>5
  <2> QED
    BY <2>7, <2>8
<1>18. CASE ReadEnds
  <2>1. /\ UNCHANGED <<kind, late, err, stopped, got, runner, events, files, written, snapshot, todo>>
        /\ reply' = [r \in Requests |-> IF r \in pending THEN "error" ELSE reply[r]]
    BY <1>18 DEF ReadEnds, FailPending
  <2>2. "prompt" \in pending => reply["prompt"] = "none"
    BY <1>1 DEF RequestInv
  <2>3. reply'["prompt"] = "ok" <=> reply["prompt"] = "ok"
    BY <2>1, <2>2 DEF Requests
  <2> QED
    BY <1>1, <2>1, <2>3
<1>19. CASE StartAcp
  <2>1. /\ dispatcher = "dispatch" /\ runner' = "initialize" /\ kind' = "acp"
        /\ UNCHANGED <<written, snapshot>>
    BY <1>19 DEF StartAcp
  <2>2. kind = "none" /\ runner = "off"
    BY <1>1, <2>1 DEF ChannelInv
  <2>3. written = {} /\ Len(snapshot) # 2
    BY <1>1, <2>2 DEF StopInv, RequestInv
  <2> QED
    BY <2>1, <2>3
<1>20. CASE StartFallback
  <2>1. /\ kind' \in {"direct", "echo"}
        /\ \/ \E call \in {"failed", "over", "text", "patch"} :
                 /\ todo' = [todo EXCEPT !["runner"] = DirectEvents(call)]
                 /\ err' = (call \in {"failed", "over"})
           \/ todo' = [todo EXCEPT !["runner"] = <<Stream, Patch(Paths), Done>>]
    BY <1>20 DEF StartFallback
  <2>2. ~ err' => \E q : Has(q, "done") /\ todo' = [todo EXCEPT !["runner"] = q]
    BY <1>1, <2>1, RunnersEvents
  <2>3. ~ err' => Told("done")'
    BY <1>3, <2>2 DEF Goroutines
  <2>4. kind' # "acp"
    BY <2>1
  <2> QED
    BY <2>3, <2>4
<1>21. CASE Collect
  <2>1. UNCHANGED <<kind, late, err, stopped, runner, files, written, reply, snapshot, todo>>
    BY <1>21 DEF Collect, acp
  <2>2. /\ got.files \cup Patched(events) = got'.files \cup Patched(events')
        /\ got.error \/ Has(events, "error") <=> got'.error \/ Has(events', "error")
        /\ got.done \/ Has(events, "done") <=> got'.done \/ Has(events', "done")
    <3>1. events = <<>> => UNCHANGED <<got, events>>
      BY <1>21 DEF Collect
    <3> QED
      BY <1>1, <1>21, <3>1, Collected
  <2>3. ~ late' => EndTold' /\ FallbackTold'
    BY <1>1, <2>1, <2>2
  <2>4. ~ late' => WrittenShown' /\ ChangedShown'
    BY <1>1, <2>1, <2>2
  <2> QED
    BY <2>3, <2>4
<1>22. CASE Edits
  <2>1. UNCHANGED <<kind, late, err, stopped, got, runner, events, written, snapshot, reply, todo>>
    BY <1>22 DEF Edits
  <2> QED
    BY <1>1, <2>1
<1>23. CASE Deadline
  BY <1>23 DEF Deadline
<1>24. CASE Refuse \/ Wait \/ Audit \/ Writes \/ Dies \/ UNCHANGED vars
  <2>1. UNCHANGED <<kind, late, err, stopped, got, runner, events, files, written, snapshot, reply, todo>>
    BY <1>24 DEF Refuse, Wait, Audit, Writes, Dies, vars, acp
  <2> QED
    BY <1>4, <2>1
<1>25. ASSUME NEW r \in Requests, Replies(r) PROVE Goal
  <2>1. UNCHANGED <<kind, late, err, stopped, got, runner, events, files, written, snapshot, reply, todo>>
    BY <1>25 DEF Replies
  <2> QED
    BY <1>4, <2>1
<1> QED
  BY <1>9, <1>10, <1>11, <1>12, <1>13, <1>14, <1>15, <1>16, <1>17, <1>18, <1>19, <1>20, <1>21,
     <1>22, <1>23, <1>24, <1>25 DEF Next, Runner, Reader, Handler, Goroutines

LEMMA NextWholeInv == WholeInv /\ [Next]_vars => WholeInv'
<1> SUFFICES ASSUME WholeInv, [Next]_vars PROVE WholeInv'
  OBVIOUS
<1>1. ChannelInv'
  BY NextChannelInv DEF WholeInv
<1> QED
  BY <1>1, NextDispatchTypes, NextRequestInv, NextStopInv, NextOutcomeInv, NextHandlerInv
     DEF WholeInv

(* A dispatch that is reported completed ran to its end, for any workspace, any *)
(* capacity of the channel and any number of lines of the agent: its done event *)
(* arrived and no error did, its prompt was answered, its cost cap was kept, and *)
(* the patches that were collected name every file the agent wrote through the   *)
(* client before it answered and every file that differs between two captures of *)
(* the workspace, unless both skip it (runSession and emitEvent, acp_runtime.go; *)
(* acp_workspace.go; Dispatch and collectEvents, dispatcher.go).                 *)
THEOREM CompletedAlwaysWhole == Spec => []CompletedIsWhole
<1>1. WholeInv => CompletedIsWhole
  <2> SUFFICES ASSUME WholeInv, dispatcher = "ok" PROVE CompletedIsWhole
    BY DEF CompletedIsWhole
  <2>1. /\ kind # "none" /\ shut /\ events = <<>> /\ ~ got.error /\ runner = "ended" /\ ~ late
        /\ kind # "acp" => ~ err
    BY DEF WholeInv, HandlerInv
  <2>2. ~ over
    BY <2>1 DEF WholeInv, StopInv
  <2>3. todo["runner"] = <<>>
    BY <2>1 DEF WholeInv, StopInv, ChannelInv, NoSendOnClosed, Idle
  <2>4. ~ Told("error") /\ ~ Told("done")
    BY <2>1, <2>3, NothingInEmpty DEF Told
  <2>5. EndTold /\ FallbackTold /\ WrittenShown /\ ChangedShown /\ kind \in {"none", "acp", "direct", "echo"}
    BY <2>1 DEF WholeInv, OutcomeInv, DispatchTypes
  <2>6. CASE kind = "acp"
    <3>1. reply["prompt"] = "ok" /\ got.done
      BY <2>1, <2>4, <2>5, <2>6 DEF EndTold
    <3>2. Patched(events) = {} /\ Patched(todo["runner"]) = {}
      BY <2>1, <2>3, NothingInEmpty
    <3>3. written \subseteq got.files
      BY <2>5, <2>6, <3>1, <3>2 DEF WrittenShown
    <3>4. Len(snapshot) = 2 => Differing(snapshot[1], snapshot[2]) \subseteq got.files
      BY <2>5, <2>6, <3>2 DEF ChangedShown
    <3>5. ASSUME Len(snapshot) = 2, NEW p \in Paths, snapshot[1][p] # snapshot[2][p], p \notin got.files
          PROVE  {<<p, snapshot[1][p]>>, <<p, snapshot[2][p]>>} \subseteq LeftOut
      BY <3>4, <3>5 DEF Differing, Captured
    <3> QED
      BY <2>1, <2>2, <3>1, <3>3, <3>5 DEF CompletedIsWhole
  <2>7. CASE kind # "acp"
    BY <2>1, <2>2, <2>4, <2>5, <2>7 DEF FallbackTold, CompletedIsWhole
  <2> QED
    BY <2>6, <2>7
<1> QED
  BY <1>1, InitWholeInv, NextWholeInv, PTL DEF Spec

(***************************************************************************)
(* The bridge and the record of tool calls, for any number of calls with   *)
(* arguments of any length.                                                *)
(***************************************************************************)

-----------------------------------------------------------------------------
\* What the client has, and what the tracker has, once the chunks o are forwarded: what a
\* step changes in the translator it changes in these, and a forwarded chunk in neither.
Fed(cl, o) ==
    CASE Len(o) = 0 -> cl
      [] Len(o) = 1 -> Receive(cl, o[1])
      [] Len(o) = 2 -> Receive(Receive(cl, o[1]), o[2])
      [] OTHER      -> Receive(Receive(Receive(cl, o[1]), o[2]), o[3])

Observed(t, o) ==
    CASE Len(o) = 0 -> t
      [] Len(o) = 1 -> ObserveChat(t, o[1])
      [] Len(o) = 2 -> ObserveChat(ObserveChat(t, o[1]), o[2])
      [] OTHER      -> ObserveChat(ObserveChat(ObserveChat(t, o[1]), o[2]), o[3])

HeldCalls == [index : Indices, args : Seq(Nat)]
Clients == [started : Seq(Calls \X Indices), args : [Indices -> Seq(Nat)],
            finish : Nat, done : BOOLEAN, late : BOOLEAN]
Trackers == [keys : SUBSET Keys, alias : [Keys -> Keys], args : [Keys -> Seq(Nat)]]

Chunks == {StartChunk(c, i) : c \in Calls, i \in Indices}
          \cup {ArgsChunk(i, x) : i \in Indices, x \in Seq(Nat)}
          \cup {Finish, Usage, DoneChunk, [kind |-> "text"]}

\* The chunks that one event makes the translator write.
Written(o) == /\ o \in Seq(Chunks) /\ Len(o) <= 3
              /\ \A i \in 1 .. Len(o) - 1 : o[i].kind # "done"

Announced(its) == {c \in Calls : its[c].announced > 0}
FinalUsed(it, st) == it.announced > 0 /\ (st.renames => it.announced = 2 \/ it.done)

Progress == [announced : 0..2, sent : 0..Tokens, told : BOOLEAN, done : BOOLEAN]

\* What the provider may have said of each call.
Items(its) ==
    /\ its \in [Calls -> Progress]
    /\ \A c \in Calls : (its[c].announced = 0 => ~ its[c].done) /\ (its[c].done => its[c].sent = Tokens)

\* The answer that ends whole has every item done.
EndsWhole(its, end) == end \in {"completed", "[DONE]"} => \A c \in Announced(its) : its[c].done

KnownIds(kn, its, st) ==
    /\ kn \subseteq Ids
    /\ \A c \in Calls :
          /\ <<c, "announced">> \in kn <=> its[c].announced > 0 /\ st.renames
          /\ <<c, "final">> \in kn <=> FinalUsed(its[c], st)

\* What the translator holds of a call.
Holds(h, it, st) ==
    /\ h.args = FirstTokens(Len(h.args)) /\ Len(h.args) <= it.sent
    /\ FinalUsed(it, st) => Len(h.args) = it.sent

Indexed(A, h, kn, st) ==
    \A c \in A : IF st.indexed THEN h[c].index = c ELSE h[c].index < Cardinality(kn)

\* Every call has an index of its own.
Apart(A, h) == \A c, d \in A : h[c].index = h[d].index => c = d

StartedOnce(w, A, h) ==
    /\ \A i \in DOMAIN w.started : w.started[i][1] \in A /\ w.started[i][2] = h[w.started[i][1]].index
    /\ \A c \in A : \E i \in DOMAIN w.started : w.started[i][1] = c
    /\ \A i, j \in DOMAIN w.started : w.started[i][1] = w.started[j][1] => i = j

HasArgs(w, A, h) ==
    /\ \A c \in A : w.args[h[c].index] = h[c].args
    /\ \A i \in Indices : (\A c \in A : h[c].index # i) => w.args[i] = <<>>

ToldTheEnd(w, end, kn) ==
    /\ w.late = FALSE
    /\ IF end \in {"no", "eof", "broken"} THEN w.finish = 0 /\ w.done = FALSE
       ELSE w.done = TRUE /\ w.finish = IF kn = {} THEN 0 ELSE 1

Recorded(t, A, h) ==
    /\ t.keys = {<<"call", c>> : c \in A}
    /\ \A c \in Calls : t.alias[<<"call", c>>] = <<"call", c>>
    /\ \A c \in A : t.alias[<<"index", h[c].index>>] = <<"call", c>>
    /\ \A c \in Calls : t.args[<<"call", c>>] = IF c \in A THEN h[c].args ELSE <<>>

\* The client and the tracker have what the translator holds of the calls A.
Settled(w, t, A, h) ==
    /\ w \in Clients /\ t \in Trackers /\ h \in [Calls -> HeldCalls]
    /\ Apart(A, h) /\ StartedOnce(w, A, h) /\ HasArgs(w, A, h) /\ Recorded(t, A, h)

View(cl, t, o, h, kn, its, st, end) ==
    /\ Written(o) /\ cl \in Clients
    /\ KnownIds(kn, its, st)
    /\ \A c \in Announced(its) : Holds(h[c], its[c], st)
    /\ Indexed(Announced(its), h, kn, st)
    /\ Settled(Fed(cl, o), Observed(t, o), Announced(its), h)
    /\ ToldTheEnd(Fed(cl, o), end, kn)
    /\ cl.done => o = <<>>

BridgeView == View(client, tracker, out, held, known, item, style, ended)

\* What the tracker has of a call of a responses answer.
Observes(t, c, it, st) ==
    /\ t.alias[<<"call", c>>] = <<"call", c>>
    /\ t.alias[<<"item", <<c, "final">>>>] =
          IF FinalUsed(it, st) THEN <<"call", c>> ELSE <<"item", <<c, "final">>>>
    /\ <<"call", c>> \in t.keys <=> it.announced > 0
    /\ <<"item", <<c, "final">>>> \in t.keys => it.announced > 0 /\ ~ FinalUsed(it, st)
    /\ it.done => t.args[<<"call", c>>] = AllTokens

ResponsesView(t, its, st) ==
    /\ t \in Trackers /\ t.keys \subseteq UNION {Own(c) : c \in Calls}
    /\ \A c \in Calls : Observes(t, c, its[c], st)
    /\ Tokens = 0 => \A k \in Keys : t.args[k] = <<>>

BridgeInv ==
    /\ mode \in {"start", "bridge", "responses", "refused"}
    /\ style \in [indexed : BOOLEAN, renames : BOOLEAN]
    /\ client \in Clients
    /\ ended \in {"no", "eof", "broken", "completed", "[DONE]", "incomplete"}
    /\ Items(item) /\ EndsWhole(item, ended)
    /\ mode = "start" => ended = "no" /\ out = <<>> /\ pipe = "open" /\ handler = "reading" /\ client.done = FALSE
    /\ mode = "refused" => handler = "failed"
    /\ mode \in {"start", "bridge"} =>
          /\ IF pipe = "abandoned" THEN client.done = FALSE /\ client.late = FALSE /\ out = <<>> ELSE BridgeView
          /\ pipe = "closed_by_reader" => out # <<>>
          /\ handler = "completed" => pipe = "closed" /\ client.done
    /\ mode \in {"start", "responses"} /\ handler \in {"reading", "completed"} /\ ended # "incomplete" =>
          /\ ResponsesView(tracker, item, style)
          /\ ended = "completed" => client.done
          /\ handler = "completed" => ended \in {"completed", "[DONE]"}
    /\ mode \in {"start", "responses"} /\ handler = "completed" => ended # "incomplete"

-----------------------------------------------------------------------------
(* Arguments.                                                              *)

LEMMA FirstTokensFacts ==
  ASSUME NEW n \in Nat
  PROVE  FirstTokens(n) \in Seq(Nat) /\ Len(FirstTokens(n)) = n
  BY DEF FirstTokens

LEMMA NextToken ==
  ASSUME NEW n \in Nat
  PROVE  FirstTokens(n) \o <<n + 1>> = FirstTokens(n + 1)
  BY DEF FirstTokens

\* What is missing completes what was sent.
LEMMA MissingTokens ==
  ASSUME NEW m \in Nat, NEW n \in Nat, m <= n
  PROVE  /\ Missing(FirstTokens(m), FirstTokens(n)) \in Seq(Nat)
         /\ FirstTokens(m) \o Missing(FirstTokens(m), FirstTokens(n)) = FirstTokens(n)
<1>1. SubSeq(FirstTokens(n), 1, m) = FirstTokens(m) /\ SubSeq(FirstTokens(m), 1, m) = FirstTokens(m)
  BY DEF FirstTokens
<1>2. IsPrefix(FirstTokens(m), FirstTokens(n))
  BY <1>1, FirstTokensFacts DEF IsPrefix
<1>3. Missing(FirstTokens(m), FirstTokens(n)) = SubSeq(FirstTokens(n), m + 1, n)
  BY <1>2, FirstTokensFacts DEF Missing
<1>4. SubSeq(FirstTokens(n), m + 1, n) \in Seq(Nat)
  BY DEF FirstTokens
<1>5. FirstTokens(m) \o SubSeq(FirstTokens(n), m + 1, n) = FirstTokens(n)
  BY DEF FirstTokens
<1> QED
  BY <1>3, <1>4, <1>5

-----------------------------------------------------------------------------
(* Chunks.                                                                 *)

LEMMA ReceivedStart ==
  ASSUME NEW w \in Clients, NEW c \in Calls, NEW i \in Indices
  PROVE  LET v == Receive(w, StartChunk(c, i)) IN
         /\ v \in Clients
         /\ v.started = Append(w.started, <<c, i>>) /\ v.args = w.args
         /\ v.finish = w.finish /\ v.done = w.done
         /\ w.finish = 0 => v.late = w.late
  BY DEF Receive, StartChunk, Clients

LEMMA ReceivedArgs ==
  ASSUME NEW w \in Clients, NEW i \in Indices, NEW x \in Seq(Nat)
  PROVE  LET v == Receive(w, ArgsChunk(i, x)) IN
         /\ v \in Clients
         /\ v.started = w.started /\ v.args = [w.args EXCEPT ![i] = @ \o x]
         /\ v.finish = w.finish /\ v.done = w.done
         /\ w.finish = 0 => v.late = w.late
  BY DEF Receive, ArgsChunk, Clients

LEMMA ReceivedOther ==
  ASSUME NEW w \in Clients, NEW k, k.kind \notin {"start", "args"}
  PROVE  LET v == Receive(w, k) IN
         /\ v \in Clients
         /\ v.started = w.started /\ v.args = w.args /\ v.late = w.late
         /\ v.finish = IF k.kind = "finish" THEN w.finish + 1 ELSE w.finish
         /\ v.done = IF k.kind = "done" THEN TRUE ELSE w.done
<1>1. w.finish + 1 \in Nat /\ w.late \in BOOLEAN /\ w.done \in BOOLEAN
  BY DEF Clients
<1>2. /\ Receive(w, k).started = w.started /\ Receive(w, k).args = w.args
      /\ Receive(w, k).finish = IF k.kind = "finish" THEN w.finish + 1 ELSE w.finish
  BY DEF Receive
<1>3. Receive(w, k).late = w.late
  BY <1>1 DEF Receive
<1>4. Receive(w, k).done = IF k.kind = "done" THEN TRUE ELSE w.done
  BY <1>1 DEF Receive
<1>5. Receive(w, k) = [started |-> Receive(w, k).started, args |-> Receive(w, k).args,
                       finish |-> Receive(w, k).finish, late |-> Receive(w, k).late,
                       done |-> Receive(w, k).done]
  BY DEF Receive
<1>6. Receive(w, k) \in Clients
  BY <1>1, <1>2, <1>3, <1>4, <1>5 DEF Clients
<1> QED
  BY <1>2, <1>3, <1>4, <1>6

LEMMA KeyFacts ==
  /\ \A c \in Calls : <<"call", c>> \in Keys /\ <<"item", <<c, "final">>>> \in Keys
                      /\ <<"item", <<c, "announced">>>> \in Keys
  /\ \A i \in Indices : <<"index", i>> \in Keys
  BY DEF Keys, Ids

LEMMA ObservedStart ==
  ASSUME NEW t \in Trackers, NEW c \in Calls, NEW i \in Indices,
         <<"index", i>> \notin t.keys, t.alias[<<"call", c>>] = <<"call", c>>
  PROVE  LET u == ObserveChat(t, StartChunk(c, i)) IN
         /\ u \in Trackers
         /\ u.keys = t.keys \cup {<<"call", c>>} /\ u.args = t.args
         /\ u.alias = [t.alias EXCEPT ![<<"index", i>>] = <<"call", c>>]
<1> DEFINE K == <<"call", c>>
           X == <<"index", i>>
           m == moveAlias(t, X, K)
           u == ObserveChat(t, StartChunk(c, i))
<1>1. K \in Keys /\ X \in Keys /\ K # X
  BY KeyFacts
<1>2. u = remember(m, K, <<>>, TRUE)
  BY DEF ObserveChat, StartChunk
<1>3. m = [alias |-> [t.alias EXCEPT ![X] = K], keys |-> t.keys, args |-> t.args]
  BY DEF moveAlias
<1> HIDE DEF m, K, X, u
<1>a. t.alias[K] = K
  BY DEF K
<1>4. m.alias[K] = K
  BY <1>1, <1>3, <1>a DEF Trackers
<1>5. u = [m EXCEPT !.keys = @ \cup {K}, !.args[K] = @]
  BY <1>2, <1>4 DEF remember
<1>6. u = [alias |-> [t.alias EXCEPT ![X] = K], keys |-> t.keys \cup {K}, args |-> t.args]
  BY <1>1, <1>3, <1>5 DEF Trackers
<1>7. u \in Trackers
  BY <1>1, <1>6 DEF Trackers
<1> QED
  BY <1>6, <1>7 DEF u, K, X

LEMMA ObservedArgs ==
  ASSUME NEW t \in Trackers, NEW c \in Calls, NEW i \in Indices, NEW x \in Seq(Nat), x # <<>>,
         <<"call", c>> \in t.keys, t.alias[<<"index", i>>] = <<"call", c>>
  PROVE  LET u == ObserveChat(t, ArgsChunk(i, x)) IN
         /\ u \in Trackers
         /\ u.keys = t.keys /\ u.alias = t.alias
         /\ \A k \in Keys : u.args[k] = IF k = <<"call", c>> THEN t.args[k] \o x ELSE t.args[k]
<1> DEFINE K == <<"call", c>>
           X == <<"index", i>>
           u == ObserveChat(t, ArgsChunk(i, x))
<1>1. K \in Keys /\ X \in Keys
  BY KeyFacts
<1>2. u = remember(t, X, x, TRUE)
  BY DEF ObserveChat, ArgsChunk
<1> HIDE DEF K, X, u
<1>3. t.alias[X] = K /\ K \in t.keys
  BY DEF K, X
<1>4. u = [t EXCEPT !.keys = @ \cup {K}, !.args[K] = @ \o x]
  BY <1>2, <1>3 DEF remember
<1>5. u = [alias |-> t.alias, keys |-> t.keys, args |-> [t.args EXCEPT ![K] = @ \o x]]
  <2>1. t = [keys |-> t.keys, alias |-> t.alias, args |-> t.args] /\ t.args \in [Keys -> Seq(Nat)]
    BY DEF Trackers
  <2>2. t.keys \cup {K} = t.keys
    BY <1>3
  <2> QED
    BY <1>4, <2>1, <2>2
<1>6. u \in Trackers
  BY <1>1, <1>5 DEF Trackers
<1>7. \A k \in Keys : u.args[k] = IF k = K THEN t.args[k] \o x ELSE t.args[k]
  BY <1>1, <1>5 DEF Trackers
<1>8. u.keys = t.keys /\ u.alias = t.alias
  BY <1>5
<1> QED
  BY <1>6, <1>7, <1>8 DEF u, K, X

LEMMA ObservedOther ==
  ASSUME NEW t, NEW k, k.kind \notin {"start", "args"}
  PROVE  ObserveChat(t, k) = t
  BY DEF ObserveChat

-----------------------------------------------------------------------------
(* What has been forwarded and what is yet to be.                          *)

LEMMA ChunkKinds ==
  ASSUME NEW k \in Chunks
  PROVE  \/ \E c \in Calls, i \in Indices : k = StartChunk(c, i)
         \/ \E i \in Indices, x \in Seq(Nat) : k = ArgsChunk(i, x)
         \/ k.kind \notin {"start", "args"}
  BY DEF Chunks, Finish, Usage, DoneChunk

LEMMA ReceivedAny ==
  ASSUME NEW w \in Clients, NEW k \in Chunks
  PROVE  /\ Receive(w, k) \in Clients
         /\ Receive(w, k).done = IF k.kind = "done" THEN TRUE ELSE w.done
<1>1. CASE \E c \in Calls, i \in Indices : k = StartChunk(c, i)
  <2>1. PICK c \in Calls, i \in Indices : k = StartChunk(c, i)
    BY <1>1
  <2>2. k.kind = "start"
    BY <2>1 DEF StartChunk
  <2> QED
    BY <2>1, <2>2, ReceivedStart
<1>2. CASE \E i \in Indices, x \in Seq(Nat) : k = ArgsChunk(i, x)
  <2>1. PICK i \in Indices, x \in Seq(Nat) : k = ArgsChunk(i, x)
    BY <1>2
  <2>2. k.kind = "args"
    BY <2>1 DEF ArgsChunk
  <2> QED
    BY <2>1, <2>2, ReceivedArgs
<1>3. CASE k.kind \notin {"start", "args"}
  BY <1>3, ReceivedOther
<1> QED
  BY <1>1, <1>2, <1>3, ChunkKinds

LEMMA NonEmpty ==
  ASSUME NEW S, NEW o \in Seq(S), o # <<>>
  PROVE  /\ Len(o) \in Nat /\ Len(o) >= 1
         /\ Head(o) = o[1] /\ o[1] \in S
         /\ Tail(o) \in Seq(S) /\ Len(Tail(o)) = Len(o) - 1
         /\ \A i \in 1 .. Len(o) - 1 : Tail(o)[i] = o[i + 1]
<1>1. Len(o) \in Nat /\ Len(o) # 0
  OBVIOUS
<1>2. Len(o) >= 1
  BY <1>1
<1> QED
  BY <1>1, <1>2

\* Forwarding a chunk changes nothing of what the client will have.
LEMMA FedTail ==
  ASSUME NEW w, NEW t, NEW o \in Seq(Chunks), o # <<>>, Len(o) <= 3
  PROVE  /\ Fed(Receive(w, Head(o)), Tail(o)) = Fed(w, o)
         /\ Observed(ObserveChat(t, Head(o)), Tail(o)) = Observed(t, o)
<1>0. Len(o) \in Nat /\ Len(o) >= 1
  BY NonEmpty, Zenon
<1>a. Head(o) = o[1] /\ Len(Tail(o)) = Len(o) - 1
  BY NonEmpty, Zenon
<1>1. Len(o) \in 1..3 /\ Head(o) = o[1] /\ Len(Tail(o)) = Len(o) - 1
  BY <1>0, <1>a
<1>2. \A i \in 1 .. Len(o) - 1 : Tail(o)[i] = o[i + 1]
  BY NonEmpty, Zenon
<1> DEFINE q == Tail(o)
<1>3. CASE Len(o) = 1
  BY <1>1, <1>3 DEF Fed, Observed
<1>4. CASE Len(o) = 2
  <2>0. Len(o) - 1 = 1 /\ 1 \in 1 .. Len(o) - 1 /\ 1 + 1 = 2
    BY <1>4
  <2>1. Len(q) = 1 /\ q[1] = o[2]
    BY <2>0, <1>1, <1>2
  <2> HIDE DEF q
  <2>2. Fed(Receive(w, o[1]), q) = Fed(w, o)
    BY <1>4, <2>1 DEF Fed
  <2>3. Observed(ObserveChat(t, o[1]), q) = Observed(t, o)
    BY <1>4, <2>1 DEF Observed
  <2> QED
    BY <1>1, <2>2, <2>3 DEF q
<1>5. CASE Len(o) = 3
  <2>1. Len(q) = 2 /\ q[1] = o[2] /\ q[2] = o[3]
    BY <1>1, <1>2, <1>5, SMTT(60)
  <2> HIDE DEF q
  <2>2. Fed(Receive(w, o[1]), q) = Fed(w, o)
    BY <1>5, <2>1 DEF Fed
  <2>3. Observed(ObserveChat(t, o[1]), q) = Observed(t, o)
    BY <1>5, <2>1 DEF Observed
  <2> QED
    BY <1>1, <2>2, <2>3 DEF q
<1> QED
  BY <1>1, <1>3, <1>4, <1>5

LEMMA WrittenTail ==
  ASSUME NEW o, Written(o), o # <<>>
  PROVE  /\ Written(Tail(o)) /\ Head(o) \in Chunks
         /\ Head(o).kind = "done" => Tail(o) = <<>>
<1>0. o \in Seq(Chunks) /\ Len(o) <= 3
  BY DEF Written
<1>a. Len(o) \in Nat /\ Len(o) >= 1
  BY <1>0, NonEmpty, Zenon
<1>b. Head(o) = o[1] /\ Len(Tail(o)) = Len(o) - 1 /\ Tail(o) \in Seq(Chunks)
  BY <1>0, NonEmpty, Zenon
<1>1. Len(o) \in 1..3 /\ Head(o) = o[1] /\ Len(Tail(o)) = Len(o) - 1
      /\ Tail(o) \in Seq(Chunks) /\ o \in Seq(Chunks)
  BY <1>0, <1>a, <1>b
<1>2. \A i \in 1 .. Len(o) - 1 : Tail(o)[i] = o[i + 1]
  BY <1>1
<1>3. Written(Tail(o))
  BY <1>1, <1>2 DEF Written
<1>4. Head(o).kind = "done" => Len(o) = 1
  BY <1>1 DEF Written
<1> QED
  BY <1>1, <1>3, <1>4

-----------------------------------------------------------------------------
(* What one event of the provider adds.                                    *)

LEMMA SettledStart ==
  ASSUME NEW w, NEW t, NEW A \in SUBSET Calls, NEW h, Settled(w, t, A, h), w.finish = 0,
         NEW c \in Calls, c \notin A, NEW i \in Indices, \A d \in A : h[d].index # i,
         NEW h2 \in [Calls -> HeldCalls], h2[c].index = i, h2[c].args = <<>>,
         \A d \in A : h2[d] = h[d]
  PROVE  Settled(Receive(w, StartChunk(c, i)), ObserveChat(t, StartChunk(c, i)), A \cup {c}, h2)
<1> DEFINE v == Receive(w, StartChunk(c, i))
           u == ObserveChat(t, StartChunk(c, i))
           B == A \cup {c}
<1>1. w \in Clients /\ t \in Trackers /\ Apart(A, h) /\ StartedOnce(w, A, h) /\ HasArgs(w, A, h)
      /\ Recorded(t, A, h)
  BY DEF Settled
<1>2. v \in Clients /\ v.started = Append(w.started, <<c, i>>) /\ v.args = w.args
  BY <1>1, ReceivedStart
<1>3. t.keys = {<<"call", d>> : d \in A} /\ t.alias[<<"call", c>>] = <<"call", c>>
  BY <1>1 DEF Recorded
<1>4. <<"index", i>> \notin t.keys
  BY <1>3
<1>5. u \in Trackers /\ u.keys = t.keys \cup {<<"call", c>>} /\ u.args = t.args
      /\ u.alias = [t.alias EXCEPT ![<<"index", i>>] = <<"call", c>>]
  BY <1>1, <1>3, <1>4, ObservedStart, SMTT(60)
<1>6. Apart(B, h2)
  BY <1>1 DEF Apart
<1> HIDE DEF v, u
<1>7. StartedOnce(v, B, h2)
  <2> DEFINE q == w.started
             p == v.started
  <2>1. q \in Seq(Calls \X Indices)
    BY <1>1 DEF Clients
  <2>2. Len(p) = Len(q) + 1 /\ p[Len(q) + 1] = <<c, i>> /\ (\A j \in 1 .. Len(q) : p[j] = q[j])
        /\ DOMAIN p = 1 .. Len(q) + 1 /\ DOMAIN q = 1 .. Len(q) /\ Len(q) \in Nat
    BY <1>2, <2>1
  <2>3. /\ \A j \in DOMAIN q : q[j][1] \in A /\ q[j][2] = h[q[j][1]].index
        /\ \A d \in A : \E j \in DOMAIN q : q[j][1] = d
        /\ \A j, k \in DOMAIN q : q[j][1] = q[k][1] => j = k
    BY <1>1 DEF StartedOnce
  <2> HIDE DEF q, p
  <2>4. \A j \in DOMAIN p : p[j][1] \in B /\ p[j][2] = h2[p[j][1]].index
    BY <2>2, <2>3
  <2>5. \A d \in B : \E j \in DOMAIN p : p[j][1] = d
    BY <2>2, <2>3
  <2>6. \A j, k \in DOMAIN p : p[j][1] = p[k][1] => j = k
    BY <2>2, <2>3
  <2> QED
    BY <2>4, <2>5, <2>6 DEF StartedOnce, p
<1>8. HasArgs(v, B, h2)
  BY <1>1, <1>2 DEF HasArgs
<1>9. Recorded(u, B, h2)
  <2>1. u.keys = {<<"call", d>> : d \in B}
    BY <1>3, <1>5
  <2>2. \A d \in Calls : u.alias[<<"call", d>>] = <<"call", d>>
    BY <1>1, <1>5, KeyFacts DEF Recorded, Trackers
  <2>3. \A d \in B : u.alias[<<"index", h2[d].index>>] = <<"call", d>>
    <3> SUFFICES ASSUME NEW d \in B PROVE u.alias[<<"index", h2[d].index>>] = <<"call", d>>
      OBVIOUS
    <3>1. <<"index", i>> \in Keys /\ t.alias \in [Keys -> Keys]
      BY <1>1, KeyFacts DEF Trackers
    <3>2. CASE d = c
      BY <3>1, <3>2, <1>5
    <3>3. CASE d # c
      <4>1. h2[d].index = h[d].index /\ h[d].index # i /\ d \in A
        BY <3>3
      <4>2. t.alias[<<"index", h[d].index>>] = <<"call", d>>
        BY <4>1, <1>1 DEF Recorded
      <4>3. <<"index", h[d].index>> # <<"index", i>>
        BY <4>1
      <4>4. h[d].index \in Indices
        BY <4>1 DEF HeldCalls
      <4> QED
        BY <4>1, <4>2, <4>3, <4>4, <3>1, <1>5, KeyFacts, SMTT(60)
    <3> QED
      BY <3>2, <3>3
  <2>4. \A d \in Calls : u.args[<<"call", d>>] = IF d \in B THEN h2[d].args ELSE <<>>
    BY <1>1, <1>5 DEF Recorded
  <2> QED
    BY <2>1, <2>2, <2>3, <2>4 DEF Recorded
<1> QED
  BY <1>2, <1>5, <1>6, <1>7, <1>8, <1>9 DEF Settled, v, u

LEMMA SettledArgs ==
  ASSUME NEW w, NEW t, NEW A \in SUBSET Calls, NEW h, Settled(w, t, A, h), w.finish = 0,
         NEW c \in A, NEW x \in Seq(Nat), x # <<>>,
         NEW h2 \in [Calls -> HeldCalls], h2[c].index = h[c].index, h2[c].args = h[c].args \o x,
         \A d \in A \ {c} : h2[d] = h[d]
  PROVE  Settled(Receive(w, ArgsChunk(h[c].index, x)), ObserveChat(t, ArgsChunk(h[c].index, x)), A, h2)
<1> DEFINE i == h[c].index
           v == Receive(w, ArgsChunk(i, x))
           u == ObserveChat(t, ArgsChunk(i, x))
<1>1. w \in Clients /\ t \in Trackers /\ Apart(A, h) /\ StartedOnce(w, A, h) /\ HasArgs(w, A, h)
      /\ Recorded(t, A, h) /\ h \in [Calls -> HeldCalls]
  BY DEF Settled
<1>a. i \in Indices /\ c \in Calls
  BY <1>1 DEF HeldCalls
<1>b. \A d \in A : h2[d].index = h[d].index
  OBVIOUS
<1> HIDE DEF i
<1>2. v \in Clients /\ v.started = w.started /\ v.args = [w.args EXCEPT ![i] = @ \o x]
  BY <1>1, <1>a, ReceivedArgs, ZenonT(60)
<1>3. <<"call", c>> \in t.keys /\ t.alias[<<"index", i>>] = <<"call", c>>
  BY <1>1 DEF Recorded, i
<1>5. u \in Trackers /\ u.keys = t.keys /\ u.alias = t.alias
      /\ \A k \in Keys : u.args[k] = IF k = <<"call", c>> THEN t.args[k] \o x ELSE t.args[k]
  <2>1. t \in Trackers /\ c \in Calls /\ i \in Indices
    BY <1>1, <1>a
  <2> QED
    BY <2>1, <1>3, ObservedArgs
<1>6. Apart(A, h2)
  BY <1>1, <1>b DEF Apart
<1>7. StartedOnce(v, A, h2)
  BY <1>1, <1>2, <1>b DEF StartedOnce
<1>8. HasArgs(v, A, h2)
  <2>1. w.args \in [Indices -> Seq(Nat)]
    BY <1>1 DEF Clients
  <2>2. \A d \in A : h[d].index = i => d = c
    BY <1>1 DEF Apart, i
  <2>3. \A d \in A : v.args[h2[d].index] = h2[d].args
    <3> SUFFICES ASSUME NEW d \in A PROVE v.args[h2[d].index] = h2[d].args
      OBVIOUS
    <3>1. w.args[h[d].index] = h[d].args /\ h2[d].index = h[d].index /\ h[d].index \in Indices
      BY <1>1, <1>b DEF HasArgs, HeldCalls
    <3>2. CASE d = c
      BY <3>1, <3>2, <1>2, <1>a, <2>1 DEF i
    <3>3. CASE d # c
      BY <3>1, <3>3, <1>2, <1>a, <2>1, <2>2
    <3> QED
      BY <3>2, <3>3
  <2>4. \A k \in Indices : (\A d \in A : h2[d].index # k) => v.args[k] = <<>>
    <3> SUFFICES ASSUME NEW k \in Indices, \A d \in A : h2[d].index # k PROVE v.args[k] = <<>>
      OBVIOUS
    <3>1. \A d \in A : h[d].index # k
      BY <1>b
    <3>2. w.args[k] = <<>> /\ k # i
      BY <1>1, <3>1 DEF HasArgs, i
    <3> QED
      BY <1>2, <2>1, <3>2
  <2> QED
    BY <2>3, <2>4 DEF HasArgs
<1>9. Recorded(u, A, h2)
  <2>1. u.keys = {<<"call", d>> : d \in A} /\ \A d \in Calls : u.alias[<<"call", d>>] = <<"call", d>>
    BY <1>1, <1>5 DEF Recorded
  <2>2. \A d \in A : u.alias[<<"index", h2[d].index>>] = <<"call", d>>
    BY <1>1, <1>5, <1>b DEF Recorded
  <2>3. \A d \in Calls : u.args[<<"call", d>>] = IF d \in A THEN h2[d].args ELSE <<>>
    <3>1. t.args \in [Keys -> Seq(Nat)] /\ \A d \in Calls : <<"call", d>> \in Keys
      BY <1>1, KeyFacts DEF Trackers
    <3>2. \A d \in Calls : t.args[<<"call", d>>] = IF d \in A THEN h[d].args ELSE <<>>
      BY <1>1 DEF Recorded
    <3>3. \A d \in Calls : d # c => <<"call", d>> # <<"call", c>>
      OBVIOUS
    <3> QED
      BY <1>5, <1>a, <3>1, <3>2, <3>3
  <2> QED
    BY <2>1, <2>2, <2>3 DEF Recorded
<1> QED
  BY <1>2, <1>5, <1>6, <1>7, <1>8, <1>9 DEF Settled, i

\* Nothing of the end has been told.
Quiet(w) == w.finish = 0 /\ w.done = FALSE /\ w.late = FALSE

LEMMA FedNone ==
  ASSUME NEW w, NEW t
  PROVE  Fed(w, <<>>) = w /\ Observed(t, <<>>) = t /\ Written(<<>>)
<1>1. Fed(w, <<>>) = w /\ Observed(t, <<>>) = t
  BY DEF Fed, Observed
<1>2. <<>> \in Seq(Chunks) /\ Len(<<>>) = 0 /\ 1 .. 0 - 1 = {}
  OBVIOUS
<1> QED
  BY <1>1, <1>2 DEF Written

LEMMA FedOne ==
  ASSUME NEW w, NEW t, NEW k \in Chunks, NEW o, o = <<k>>
  PROVE  Fed(w, o) = Receive(w, k) /\ Observed(t, o) = ObserveChat(t, k) /\ Written(o)
<1>1. Len(o) = 1 /\ o[1] = k /\ o \in Seq(Chunks)
  OBVIOUS
<1>2. Fed(w, o) = Receive(w, k) /\ Observed(t, o) = ObserveChat(t, k)
  BY <1>1 DEF Fed, Observed
<1>3. Written(o)
  BY <1>1 DEF Written
<1> QED
  BY <1>2, <1>3

LEMMA FedTwo ==
  ASSUME NEW w, NEW t, NEW o \in Seq(Chunks), Len(o) = 2, o[1].kind # "done"
  PROVE  /\ Fed(w, o) = Receive(Receive(w, o[1]), o[2])
         /\ Observed(t, o) = ObserveChat(ObserveChat(t, o[1]), o[2])
         /\ Written(o)
<1>1. Fed(w, o) = Receive(Receive(w, o[1]), o[2])
      /\ Observed(t, o) = ObserveChat(ObserveChat(t, o[1]), o[2])
  BY DEF Fed, Observed
<1>2. Written(o)
  BY DEF Written
<1> QED
  BY <1>1, <1>2

LEMMA FedThree ==
  ASSUME NEW w, NEW t, NEW o \in Seq(Chunks), Len(o) = 3, o[1].kind # "done", o[2].kind # "done"
  PROVE  /\ Fed(w, o) = Receive(Receive(Receive(w, o[1]), o[2]), o[3])
         /\ Observed(t, o) = ObserveChat(ObserveChat(ObserveChat(t, o[1]), o[2]), o[3])
         /\ Written(o)
<1>1. /\ Fed(w, o) = Receive(Receive(Receive(w, o[1]), o[2]), o[3])
      /\ Observed(t, o) = ObserveChat(ObserveChat(ObserveChat(t, o[1]), o[2]), o[3])
  BY DEF Fed, Observed
<1>2. Written(o)
  BY DEF Written
<1> QED
  BY <1>1, <1>2

LEMMA Joined ==
  ASSUME NEW k \in Chunks, NEW l \in Chunks, NEW m \in Chunks
  PROVE  /\ LET o == <<k>> \o <<l>> IN o \in Seq(Chunks) /\ Len(o) = 2 /\ o[1] = k /\ o[2] = l
         /\ LET o == <<k>> \o <<l, m>> IN
            o \in Seq(Chunks) /\ Len(o) = 3 /\ o[1] = k /\ o[2] = l /\ o[3] = m
         /\ LET o == <<>> \o <<l, m>> IN o \in Seq(Chunks) /\ Len(o) = 2 /\ o[1] = l /\ o[2] = m
  OBVIOUS

LEMMA JoinedOne == ASSUME NEW k PROVE <<k>> \o <<>> = <<k>> /\ <<>> \o <<k>> = <<k>>
  OBVIOUS

LEMMA StartAndArgsAreChunks ==
  ASSUME NEW c \in Calls, NEW i \in Indices, NEW x \in Seq(Nat)
  PROVE  /\ StartChunk(c, i) \in Chunks /\ ArgsChunk(i, x) \in Chunks
         /\ StartChunk(c, i).kind # "done" /\ ArgsChunk(i, x).kind # "done"
  BY DEF Chunks, StartChunk, ArgsChunk

\* A call c is announced, with the index i and the arguments x.
Opens(A, h, c, i, x, h2, o) ==
    /\ A \subseteq Calls /\ c \in Calls \ A
    /\ i \in Indices /\ \A d \in A : h[d].index # i
    /\ x \in Seq(Nat)
    /\ h2 \in [Calls -> HeldCalls] /\ h2[c].index = i /\ h2[c].args = x /\ \A d \in A : h2[d] = h[d]
    /\ o = <<StartChunk(c, i)>> \o ArgsChunks(i, x)

LEMMA SettledNew ==
  ASSUME NEW w, NEW t, NEW A, NEW h, Settled(w, t, A, h), Quiet(w),
         NEW c, NEW i, NEW x, NEW h2, NEW o, Opens(A, h, c, i, x, h2, o)
  PROVE  Written(o) /\ Settled(Fed(w, o), Observed(t, o), A \cup {c}, h2) /\ Quiet(Fed(w, o))
<1> USE DEF Opens
<1> DEFINE h1 == [h EXCEPT ![c] = [index |-> i, args |-> <<>>]]
           B == A \cup {c}
           v == Receive(w, StartChunk(c, i))
           u == ObserveChat(t, StartChunk(c, i))
<1>1. h \in [Calls -> HeldCalls] /\ w \in Clients
  BY DEF Settled
<1>2. h1 \in [Calls -> HeldCalls] /\ h1[c].index = i /\ h1[c].args = <<>> /\ \A d \in A : h1[d] = h[d]
  BY <1>1 DEF HeldCalls
<1>3. B \in SUBSET Calls /\ c \in B
  OBVIOUS
<1>4. v \in Clients /\ Quiet(v)
  BY <1>1, ReceivedStart DEF Quiet
<1> HIDE DEF h1
<1> DEFINE k == StartChunk(c, i)
           l == ArgsChunk(i, x)
<1>a. k \in Chunks /\ l \in Chunks /\ k.kind # "done"
  BY StartAndArgsAreChunks
<1>5. CASE x = <<>>
  <2>1. o = <<k>>
    BY <1>5, JoinedOne DEF ArgsChunks
  <2>2. Settled(v, u, B, h2)
    BY <1>5, SettledStart DEF Quiet
  <2> HIDE DEF k
  <2>3. Fed(w, o) = Receive(w, k) /\ Observed(t, o) = ObserveChat(t, k) /\ Written(o)
    BY <1>a, <2>1, FedOne
  <2> QED
    BY <2>2, <2>3, <1>4 DEF k
<1>6. CASE x # <<>>
  <2>0. ArgsChunks(i, x) = <<l>>
    BY <1>6 DEF ArgsChunks
  <2>1. o \in Seq(Chunks) /\ Len(o) = 2 /\ o[1] = k /\ o[2] = l
    BY <2>0, <1>a, Joined
  <2>2. Settled(v, u, B, h1)
    BY <1>2, SettledStart DEF Quiet
  <2>3. h2[c].index = h1[c].index /\ h2[c].args = h1[c].args \o x
    BY <1>2
  <2>4. \A d \in B \ {c} : h2[d] = h1[d]
    BY <1>2
  <2>5. v.finish = 0
    BY <1>4 DEF Quiet
  <2> HIDE DEF v, u, B
  <2>6. Settled(Receive(v, ArgsChunk(h1[c].index, x)), ObserveChat(u, ArgsChunk(h1[c].index, x)), B, h2)
    BY <2>2, <2>3, <2>4, <2>5, <1>3, <1>6, SettledArgs
  <2>7. Quiet(Receive(v, ArgsChunk(i, x)))
    BY <1>4, ReceivedArgs, ZenonT(60) DEF Quiet
  <2> HIDE DEF k, l
  <2>8. Fed(w, o) = Receive(Receive(w, k), l) /\ Observed(t, o) = ObserveChat(ObserveChat(t, k), l)
        /\ Written(o)
    BY <1>a, <2>1, FedTwo
  <2> QED
    BY <2>6, <2>7, <2>8, <1>2 DEF B, k, l, v, u
<1> QED
  BY <1>5, <1>6

LEMMA HeldAlike ==
  ASSUME NEW a \in HeldCalls, NEW b \in HeldCalls, a.index = b.index, a.args = b.args
  PROVE  a = b
  BY DEF HeldCalls

\* A call c gets more arguments x.
Grows(A, h, c, x, h2, o) ==
    /\ A \subseteq Calls /\ c \in A
    /\ x \in Seq(Nat)
    /\ h2 \in [Calls -> HeldCalls] /\ h2[c].index = h[c].index /\ h2[c].args = h[c].args \o x
    /\ \A d \in Calls \ {c} : h2[d] = h[d]
    /\ o = ArgsChunks(h[c].index, x)

LEMMA SettledMore ==
  ASSUME NEW w, NEW t, NEW A, NEW h, Settled(w, t, A, h), Quiet(w),
         NEW c, NEW x, NEW h2, NEW o, Grows(A, h, c, x, h2, o)
  PROVE  Written(o) /\ Settled(Fed(w, o), Observed(t, o), A, h2) /\ Quiet(Fed(w, o))
<1> USE DEF Grows
<1>1. h \in [Calls -> HeldCalls] /\ w \in Clients /\ c \in Calls
  BY DEF Settled
<1>2. h[c].index \in Indices /\ h[c].args \in Seq(Nat)
  BY <1>1 DEF HeldCalls
<1>3. CASE x = <<>>
  <2>1. o = <<>>
    BY <1>3 DEF ArgsChunks
  <2>2. h2[c].args = h[c].args
    BY <1>2, <1>3
  <2>3. h2[c] = h[c]
    BY <2>2, <1>1, HeldAlike
  <2>4. h2 = h
    BY <2>3, <1>1
  <2> QED
    BY <2>1, <2>4, FedNone
<1>4. CASE x # <<>>
  <2>1. o = <<ArgsChunk(h[c].index, x)>>
    BY <1>4 DEF ArgsChunks
  <2>2. Settled(Receive(w, ArgsChunk(h[c].index, x)), ObserveChat(t, ArgsChunk(h[c].index, x)), A, h2)
    BY <1>1, <1>4, SettledArgs DEF Quiet
  <2>3. Quiet(Receive(w, ArgsChunk(h[c].index, x)))
    BY <1>1, <1>2, ReceivedArgs DEF Quiet
  <2> QED
    BY <2>1, <2>2, <2>3, <1>1, <1>2, FedOne, StartAndArgsAreChunks
<1> QED
  BY <1>3, <1>4

\* What is not about a call changes nothing of the calls.
LEMMA SettledOther ==
  ASSUME NEW w, NEW t, NEW A, NEW h, Settled(w, t, A, h), NEW k, k.kind \notin {"start", "args"}
  PROVE  Settled(Receive(w, k), ObserveChat(t, k), A, h)
<1>1. w \in Clients
  BY DEF Settled
<1>2. ObserveChat(t, k) = t
  BY ObservedOther
<1>3. Receive(w, k) \in Clients /\ Receive(w, k).started = w.started /\ Receive(w, k).args = w.args
  BY <1>1, ReceivedOther
<1> QED
  BY <1>2, <1>3 DEF Settled, StartedOnce, HasArgs

LEMMA EndChunks ==
  /\ Finish \in Chunks /\ Usage \in Chunks /\ DoneChunk \in Chunks /\ [kind |-> "text"] \in Chunks
  /\ Finish.kind = "finish" /\ Usage.kind = "usage" /\ DoneChunk.kind = "done"
  /\ [kind |-> "text"].kind = "text"
  BY DEF Chunks, Finish, Usage, DoneChunk

\* How much of the end has been told.
Stands(w, n, end) == w \in Clients /\ w.finish = n /\ w.done = end /\ w.late = FALSE

LEMMA StandsAfter ==
  ASSUME NEW w, NEW n \in Nat, Stands(w, n, FALSE)
  PROVE  /\ Stands(Receive(w, Finish), n + 1, FALSE) /\ Stands(Receive(w, Usage), n, FALSE)
         /\ Stands(Receive(w, DoneChunk), n, TRUE) /\ Stands(Receive(w, [kind |-> "text"]), n, FALSE)
<1>1. w \in Clients /\ w.finish = n /\ w.done = FALSE /\ w.late = FALSE
  BY DEF Stands
<1>2. Stands(Receive(w, Finish), n + 1, FALSE)
  <2>1. Finish.kind = "finish"
    BY EndChunks
  <2>2. Receive(w, Finish).finish = w.finish + 1 /\ Receive(w, Finish).done = w.done
        /\ Receive(w, Finish).late = w.late /\ Receive(w, Finish) \in Clients
    BY <1>1, <2>1, ReceivedOther
  <2> QED
    BY <1>1, <2>2 DEF Stands
<1>3. Stands(Receive(w, Usage), n, FALSE)
  BY <1>1, EndChunks, ReceivedOther DEF Stands
<1>4. Stands(Receive(w, DoneChunk), n, TRUE)
  BY <1>1, EndChunks, ReceivedOther DEF Stands
<1>5. Stands(Receive(w, [kind |-> "text"]), n, FALSE)
  BY <1>1, EndChunks, ReceivedOther DEF Stands
<1> QED
  BY <1>2, <1>3, <1>4, <1>5

\* The end of the answer, told to a client that has the calls of kn.
LEMMA SettledEnd ==
  ASSUME NEW w, NEW t, NEW A, NEW h, Settled(w, t, A, h), Quiet(w),
         NEW o, \/ o = CallFinish \o <<Usage, DoneChunk>>
                \/ o = CallFinish \o <<DoneChunk>>
  PROVE  /\ Written(o) /\ Settled(Fed(w, o), Observed(t, o), A, h)
         /\ Stands(Fed(w, o), IF known = {} THEN 0 ELSE 1, TRUE)
<1> DEFINE f == Finish
           g == Usage
           d == DoneChunk
<1>0. Stands(w, 0, FALSE)
  BY DEF Settled, Quiet, Stands
<1>a. \A v, n : n \in Nat /\ Stands(v, n, FALSE) =>
        Stands(Receive(v, f), n + 1, FALSE) /\ Stands(Receive(v, g), n, FALSE) /\ Stands(Receive(v, d), n, TRUE)
  BY StandsAfter
<1>b. Stands(Receive(w, f), 1, FALSE)
  <2>1. Stands(Receive(w, f), 0 + 1, FALSE)
    BY <1>0, StandsAfter
  <2>2. 0 + 1 = 1
    OBVIOUS
  <2> QED
    BY <2>1, <2>2
<1>1. /\ f \in Chunks /\ g \in Chunks /\ d \in Chunks
      /\ f.kind = "finish" /\ g.kind = "usage" /\ d.kind = "done"
  BY EndChunks
<1> HIDE DEF f, g, d
<1>2. CASE known # {}
  <2>1. CallFinish = <<f>>
    BY <1>2 DEF CallFinish, f
  <2>2. CASE o = CallFinish \o <<Usage, DoneChunk>>
    <3>1. o = <<f>> \o <<g, d>>
      BY <2>1, <2>2 DEF g, d
    <3>2. o \in Seq(Chunks) /\ Len(o) = 3 /\ o[1] = f /\ o[2] = g /\ o[3] = d
      BY <1>1, <3>1, Joined
    <3>3. /\ Fed(w, o) = Receive(Receive(Receive(w, f), g), d)
          /\ Observed(t, o) = ObserveChat(ObserveChat(ObserveChat(t, f), g), d)
          /\ Written(o)
      BY <1>1, <3>2, FedThree
    <3>4. Settled(Receive(w, f), ObserveChat(t, f), A, h)
      BY <1>1, SettledOther
    <3>5. Settled(Receive(Receive(w, f), g), ObserveChat(ObserveChat(t, f), g), A, h)
      BY <1>1, <3>4, SettledOther
    <3>6. Settled(Fed(w, o), Observed(t, o), A, h)
      BY <1>1, <3>3, <3>5, SettledOther
    <3>7. Stands(Receive(w, f), 1, FALSE)
      BY <1>b
    <3>8. Stands(Receive(Receive(w, f), g), 1, FALSE)
      BY <3>7, <1>a
    <3>9. Stands(Fed(w, o), 1, TRUE)
      BY <3>8, <3>3, <1>a
    <3> QED
      BY <3>3, <3>6, <3>9, <1>2
  <2>3. CASE o = CallFinish \o <<DoneChunk>>
    <3>1. o = <<f>> \o <<d>>
      BY <2>1, <2>3 DEF d
    <3>2. o \in Seq(Chunks) /\ Len(o) = 2 /\ o[1] = f /\ o[2] = d
      BY <1>1, <3>1, Joined
    <3>3. /\ Fed(w, o) = Receive(Receive(w, f), d)
          /\ Observed(t, o) = ObserveChat(ObserveChat(t, f), d)
          /\ Written(o)
      BY <1>1, <3>2, FedTwo
    <3>4. Settled(Receive(w, f), ObserveChat(t, f), A, h)
      BY <1>1, SettledOther
    <3>6. Settled(Fed(w, o), Observed(t, o), A, h)
      BY <1>1, <3>3, <3>4, SettledOther
    <3>7. Stands(Receive(w, f), 1, FALSE)
      BY <1>b
    <3>9. Stands(Fed(w, o), 1, TRUE)
      BY <3>7, <3>3, <1>a
    <3> QED
      BY <3>3, <3>6, <3>9, <1>2
  <2> QED
    BY <2>2, <2>3
<1>3. CASE known = {}
  <2>1. CallFinish = <<>>
    BY <1>3 DEF CallFinish
  <2>2. CASE o = CallFinish \o <<Usage, DoneChunk>>
    <3>1. o = <<>> \o <<g, d>>
      BY <2>1, <2>2 DEF g, d
    <3>2. o \in Seq(Chunks) /\ Len(o) = 2 /\ o[1] = g /\ o[2] = d
      BY <1>1, <3>1, Joined
    <3>3. /\ Fed(w, o) = Receive(Receive(w, g), d)
          /\ Observed(t, o) = ObserveChat(ObserveChat(t, g), d)
          /\ Written(o)
      BY <1>1, <3>2, FedTwo
    <3>4. Settled(Receive(w, g), ObserveChat(t, g), A, h)
      BY <1>1, SettledOther
    <3>6. Settled(Fed(w, o), Observed(t, o), A, h)
      BY <1>1, <3>3, <3>4, SettledOther
    <3>7. Stands(Receive(w, g), 0, FALSE)
      BY <1>0, <1>a
    <3>9. Stands(Fed(w, o), 0, TRUE)
      BY <3>7, <3>3, <1>a
    <3> QED
      BY <3>3, <3>6, <3>9, <1>3
  <2>3. CASE o = CallFinish \o <<DoneChunk>>
    <3>1. o = <<d>>
      BY <2>1, <2>3, JoinedOne DEF d
    <3>3. Fed(w, o) = Receive(w, d) /\ Observed(t, o) = ObserveChat(t, d) /\ Written(o)
      BY <1>1, <3>1, FedOne
    <3>6. Settled(Fed(w, o), Observed(t, o), A, h)
      BY <1>1, <3>3, SettledOther
    <3>9. Stands(Fed(w, o), 0, TRUE)
      BY <1>0, <3>3, <1>a
    <3> QED
      BY <3>3, <3>6, <3>9, <1>3
  <2> QED
    BY <2>2, <2>3
<1> QED
  BY <1>2, <1>3

-----------------------------------------------------------------------------
(* The steps of the bridge.                                                *)

LEMMA IdsFacts ==
  /\ IsFiniteSet(Ids) /\ Cardinality(Ids) = 2 * Tools
  /\ \A c \in Calls : <<c, "announced">> \in Ids /\ <<c, "final">> \in Ids
  /\ \A id \in Ids : id = <<id[1], "announced">> \/ id = <<id[1], "final">>
<1>1. IsFiniteSet(Calls) /\ Cardinality(Calls) = Tools
  BY FS_Interval, BridgeConstants DEF Calls
<1>2. IsFiniteSet({"announced"}) /\ Cardinality({"announced"}) = 1
  BY FS_Singleton
<1>3. IsFiniteSet({"announced"} \cup {"final"}) /\ Cardinality({"announced"} \cup {"final"}) = 2
  BY <1>2, FS_AddElement
<1>4. {"announced"} \cup {"final"} = {"announced", "final"}
  OBVIOUS
<1>5. IsFiniteSet(Ids) /\ Cardinality(Ids) = Tools * 2
  BY <1>1, <1>3, <1>4, FS_Product DEF Ids
<1>6. Tools * 2 = 2 * Tools
  BY BridgeConstants
<1>7. /\ \A c \in Calls : <<c, "announced">> \in Ids /\ <<c, "final">> \in Ids
      /\ \A id \in Ids : id = <<id[1], "announced">> \/ id = <<id[1], "final">>
  BY DEF Ids
<1> QED
  BY <1>5, <1>6, <1>7

LEMMA KnownCounts ==
  ASSUME NEW kn \in SUBSET Ids, NEW id \in Ids
  PROVE  /\ Cardinality(kn) \in Indices /\ Cardinality(kn) \in Nat /\ Cardinality(kn \cup {id}) \in Nat
         /\ Cardinality(kn) <= Cardinality(kn \cup {id})
         /\ id \notin kn => Cardinality(kn \cup {id}) = Cardinality(kn) + 1
<1>1. IsFiniteSet(kn) /\ Cardinality(kn) <= 2 * Tools
  BY IdsFacts, FS_Subset
<1>2. Cardinality(kn) \in Nat
  BY <1>1, FS_CardinalityType
<1>3. Cardinality(kn \cup {id}) = IF id \in kn THEN Cardinality(kn) ELSE Cardinality(kn) + 1
  BY <1>1, FS_AddElement
<1> QED
  BY <1>1, <1>2, <1>3, BridgeConstants DEF Indices

LEMMA Rested ==
  ASSUME NEW cl, NEW t, NEW h, NEW kn, NEW its, NEW st, View(cl, t, <<>>, h, kn, its, st, "no")
  PROVE  /\ Settled(cl, t, Announced(its), h) /\ Quiet(cl) /\ cl \in Clients
         /\ KnownIds(kn, its, st) /\ Indexed(Announced(its), h, kn, st)
         /\ \A c \in Announced(its) : Holds(h[c], its[c], st)
         /\ h \in [Calls -> HeldCalls] /\ Apart(Announced(its), h)
<1>1. Fed(cl, <<>>) = cl /\ Observed(t, <<>>) = t
  BY FedNone
<1> QED
  BY <1>1 DEF View, ToldTheEnd, Quiet, Settled

\* A call is announced under an identifier.
Announces(c, id, i, x, h, h2, kn, its, its2, st, o) ==
    /\ c \in Calls /\ c \notin Announced(its)
    /\ Announced(its2) = Announced(its) \cup {c} /\ \A d \in Announced(its) : its2[d] = its[d]
    /\ id \in Ids /\ id \notin kn /\ KnownIds(kn \cup {id}, its2, st)
    /\ i = IF st.indexed THEN c ELSE Cardinality(kn)
    /\ x \in Seq(Nat) /\ h2 = [h EXCEPT ![c] = [index |-> i, args |-> x]]
    /\ x = FirstTokens(Len(x)) /\ Len(x) = its2[c].sent
    /\ o = <<StartChunk(c, i)>> \o ArgsChunks(i, x)

LEMMA ViewNew ==
  ASSUME NEW cl, NEW t, NEW h, NEW kn, NEW its, NEW st, View(cl, t, <<>>, h, kn, its, st, "no"),
         NEW c, NEW id, NEW i, NEW x, NEW h2, NEW its2, NEW o,
         Announces(c, id, i, x, h, h2, kn, its, its2, st, o)
  PROVE  View(cl, t, o, h2, kn \cup {id}, its2, st, "no")
<1> USE DEF Announces
<1> DEFINE A == Announced(its)
<1>1. /\ Settled(cl, t, A, h) /\ Quiet(cl) /\ cl \in Clients
      /\ KnownIds(kn, its, st) /\ Indexed(A, h, kn, st)
      /\ \A d \in A : Holds(h[d], its[d], st)
      /\ h \in [Calls -> HeldCalls]
  BY Rested
<1>2. A \in SUBSET Calls
  BY DEF Announced
<1>3. kn \in SUBSET Ids
  BY <1>1 DEF KnownIds
<1>4. i \in Indices /\ \A d \in A : h[d].index # i
  <2>1. CASE st.indexed
    BY <2>1, <1>1, <1>2, BridgeConstants DEF Indexed, Indices, Calls
  <2>2. CASE ~ st.indexed
    <3>1. Cardinality(kn) \in Indices /\ Cardinality(kn) \in Nat
      BY <1>3, KnownCounts
    <3>2. \A d \in A : h[d].index \in Nat /\ h[d].index < Cardinality(kn)
      BY <2>2, <1>1, <1>2 DEF Indexed, HeldCalls, Indices
    <3> QED
      BY <2>2, <3>1, <3>2
  <2> QED
    BY <2>1, <2>2
<1>5. h2 \in [Calls -> HeldCalls] /\ h2[c].index = i /\ h2[c].args = x /\ \A d \in A : h2[d] = h[d]
  BY <1>1, <1>2, <1>4 DEF HeldCalls
<1>6. Written(o) /\ Settled(Fed(cl, o), Observed(t, o), A \cup {c}, h2) /\ Quiet(Fed(cl, o))
  <2>1. Opens(A, h, c, i, x, h2, o)
    BY <1>2, <1>4, <1>5 DEF Opens
  <2> HIDE DEF A, Announces
  <2> QED
    BY <1>1, <2>1, SettledNew
<1>7. \A d \in Announced(its2) : Holds(h2[d], its2[d], st)
  <2>1. Holds(h2[c], its2[c], st)
    BY <1>5 DEF Holds
  <2> QED
    BY <2>1, <1>1, <1>5
<1>8. Indexed(A \cup {c}, h2, kn \cup {id}, st)
  <2> SUFFICES ASSUME NEW d \in A \cup {c}
               PROVE  IF st.indexed THEN h2[d].index = d ELSE h2[d].index < Cardinality(kn \cup {id})
    BY DEF Indexed
  <2>1. Cardinality(kn) \in Nat /\ Cardinality(kn \cup {id}) = Cardinality(kn) + 1
    BY <1>3, KnownCounts
  <2>2. CASE d = c
    BY <2>1, <2>2, <1>5
  <2>3. CASE d # c
    <3>1. h2[d] = h[d] /\ h[d].index \in Nat
      BY <2>3, <1>1, <1>2, <1>5 DEF HeldCalls, Indices
    <3>2. IF st.indexed THEN h[d].index = d ELSE h[d].index < Cardinality(kn)
      BY <2>3, <1>1 DEF Indexed
    <3> QED
      BY <3>1, <3>2, <2>1
  <2> QED
    BY <2>2, <2>3
<1>9. ToldTheEnd(Fed(cl, o), "no", kn \cup {id})
  BY <1>6 DEF ToldTheEnd, Quiet
<1>10. cl.done = FALSE
  BY <1>1 DEF Quiet
<1> QED
  BY <1>1, <1>6, <1>7, <1>8, <1>9, <1>10 DEF View

\* More of a call.
Continues(c, x, h, h2, kn, kn2, its, its2, st, o) ==
    /\ Announced(its2) = Announced(its) /\ \A d \in Calls \ {c} : its2[d] = its[d]
    /\ kn2 = kn \/ \E id \in Ids : kn2 = kn \cup {id}
    /\ KnownIds(kn2, its2, st)
    /\ Grows(Announced(its), h, c, x, h2, o)
    /\ Holds(h2[c], its2[c], st)

LEMMA ViewMore ==
  ASSUME NEW cl, NEW t, NEW h, NEW kn, NEW its, NEW st, View(cl, t, <<>>, h, kn, its, st, "no"),
         NEW c, NEW x, NEW h2, NEW kn2, NEW its2, NEW o,
         Continues(c, x, h, h2, kn, kn2, its, its2, st, o)
  PROVE  View(cl, t, o, h2, kn2, its2, st, "no")
<1> USE DEF Continues, Grows
<1> DEFINE A == Announced(its)
<1>1. /\ Settled(cl, t, A, h) /\ Quiet(cl) /\ cl \in Clients
      /\ KnownIds(kn, its, st) /\ Indexed(A, h, kn, st)
      /\ \A d \in A : Holds(h[d], its[d], st)
      /\ h \in [Calls -> HeldCalls]
  BY Rested
<1>2. A \in SUBSET Calls
  BY DEF Announced
<1>3. kn \in SUBSET Ids
  BY <1>1 DEF KnownIds
<1>6. Written(o) /\ Settled(Fed(cl, o), Observed(t, o), A, h2) /\ Quiet(Fed(cl, o))
  <2>1. Grows(A, h, c, x, h2, o)
    OBVIOUS
  <2> HIDE DEF A, Grows
  <2> QED
    BY <1>1, <2>1, SettledMore
<1>7. \A d \in Announced(its2) : Holds(h2[d], its2[d], st)
  BY <1>1, <1>2
<1>8. Indexed(A, h2, kn2, st)
  <2> SUFFICES ASSUME NEW d \in A
               PROVE  IF st.indexed THEN h2[d].index = d ELSE h2[d].index < Cardinality(kn2)
    BY DEF Indexed
  <2>1. Cardinality(kn) \in Nat /\ Cardinality(kn2) \in Nat /\ Cardinality(kn) <= Cardinality(kn2)
    <3>1. CASE kn2 = kn
      BY <3>1, <1>3, IdsFacts, FS_Subset, FS_CardinalityType
    <3>2. CASE \E id \in Ids : kn2 = kn \cup {id}
      BY <3>2, <1>3, KnownCounts
    <3> QED
      BY <3>1, <3>2
  <2>2. h2[d].index = h[d].index /\ h[d].index \in Nat
    <3>1. h2[d].index = h[d].index
      BY <1>2
    <3> QED
      BY <3>1, <1>1, <1>2 DEF HeldCalls, Indices
  <2>3. IF st.indexed THEN h[d].index = d ELSE h[d].index < Cardinality(kn)
    BY <1>1 DEF Indexed
  <2> QED
    BY <2>1, <2>2, <2>3
<1>9. ToldTheEnd(Fed(cl, o), "no", kn2)
  BY <1>6 DEF ToldTheEnd, Quiet
<1>10. cl.done = FALSE
  BY <1>1 DEF Quiet
<1> QED
  BY <1>1, <1>6, <1>7, <1>8, <1>9, <1>10 DEF View

\* The end of the answer, a text, and the end of the connection.
LEMMA ViewEnd ==
  ASSUME NEW cl, NEW t, NEW h, NEW its, NEW st, View(cl, t, <<>>, h, known, its, st, "no"),
         NEW how \in {"completed", "incomplete", "[DONE]"},
         NEW o, \/ o = CallFinish \o <<Usage, DoneChunk>>
                \/ o = CallFinish \o <<DoneChunk>>
  PROVE  View(cl, t, o, h, known, its, st, how)
<1>1. /\ Settled(cl, t, Announced(its), h) /\ Quiet(cl) /\ cl \in Clients
      /\ KnownIds(known, its, st) /\ Indexed(Announced(its), h, known, st)
      /\ \A d \in Announced(its) : Holds(h[d], its[d], st)
  BY Rested
<1>2. /\ Written(o) /\ Settled(Fed(cl, o), Observed(t, o), Announced(its), h)
      /\ Stands(Fed(cl, o), IF known = {} THEN 0 ELSE 1, TRUE)
  BY <1>1, SettledEnd
<1>3. ToldTheEnd(Fed(cl, o), how, known)
  BY <1>2 DEF ToldTheEnd, Stands
<1>4. cl.done = FALSE
  BY <1>1 DEF Quiet
<1> QED
  BY <1>1, <1>2, <1>3, <1>4 DEF View

LEMMA ViewText ==
  ASSUME NEW cl, NEW t, NEW h, NEW kn, NEW its, NEW st, View(cl, t, <<>>, h, kn, its, st, "no"),
         NEW o, o = <<[kind |-> "text"]>>
  PROVE  View(cl, t, o, h, kn, its, st, "no")
<1> DEFINE k == [kind |-> "text"]
<1>1. /\ Settled(cl, t, Announced(its), h) /\ Quiet(cl) /\ cl \in Clients
      /\ KnownIds(kn, its, st) /\ Indexed(Announced(its), h, kn, st)
      /\ \A d \in Announced(its) : Holds(h[d], its[d], st)
  BY Rested
<1>a. Stands(cl, 0, FALSE)
  BY <1>1 DEF Stands, Quiet
<1>2. k \in Chunks /\ k.kind = "text"
  BY EndChunks
<1>3. Stands(Receive(cl, k), 0, FALSE)
  BY <1>a, StandsAfter
<1> HIDE DEF k
<1>4. Fed(cl, o) = Receive(cl, k) /\ Observed(t, o) = ObserveChat(t, k) /\ Written(o)
  BY <1>2, FedOne DEF k
<1>5. Settled(Fed(cl, o), Observed(t, o), Announced(its), h)
  BY <1>1, <1>2, <1>4, SettledOther
<1>6. ToldTheEnd(Fed(cl, o), "no", kn)
  BY <1>3, <1>4 DEF ToldTheEnd, Stands
<1>7. cl.done = FALSE
  BY <1>1 DEF Quiet
<1> QED
  BY <1>1, <1>4, <1>5, <1>6, <1>7 DEF View

LEMMA ViewBreaks ==
  ASSUME NEW cl, NEW t, NEW h, NEW kn, NEW its, NEW st, View(cl, t, <<>>, h, kn, its, st, "no"),
         NEW how \in {"eof", "broken"}
  PROVE  View(cl, t, <<>>, h, kn, its, st, how)
  BY DEF View, ToldTheEnd

\* A chunk is forwarded.
LEMMA ViewForward ==
  ASSUME NEW cl, NEW t, NEW o, NEW h, NEW kn, NEW its, NEW st, NEW end,
         View(cl, t, o, h, kn, its, st, end), o # <<>>
  PROVE  View(Receive(cl, Head(o)), ObserveChat(t, Head(o)), Tail(o), h, kn, its, st, end)
<1> DEFINE cl2 == Receive(cl, Head(o))
           t2 == ObserveChat(t, Head(o))
           q == Tail(o)
<1>1. Written(o) /\ cl \in Clients /\ ~ cl.done
  BY DEF View
<1>2. o \in Seq(Chunks) /\ Len(o) <= 3
  BY <1>1 DEF Written
<1>3. Fed(cl2, q) = Fed(cl, o) /\ Observed(t2, q) = Observed(t, o)
  BY <1>2, FedTail
<1>4. Written(q) /\ Head(o) \in Chunks /\ (Head(o).kind = "done" => q = <<>>)
  BY <1>1, WrittenTail
<1>5. cl2 \in Clients /\ (cl2.done => q = <<>>)
  BY <1>1, <1>4, ReceivedAny
<1> QED
  BY <1>3, <1>4, <1>5 DEF View

-----------------------------------------------------------------------------
(* What the provider says of a call.                                       *)

\* A call c has become it; nothing else has changed.
Becomes(its, its2, c, it) ==
    /\ its2 \in [Calls -> Progress] /\ its2[c] = it
    /\ \A d \in Calls \ {c} : its2[d] = its[d]

LEMMA ItemsKept ==
  ASSUME NEW its, NEW its2, NEW c \in Calls, NEW it, Items(its), Becomes(its, its2, c, it),
         it.announced > 0, it.done => it.sent = Tokens
  PROVE  /\ Items(its2) /\ Announced(its2) = Announced(its) \cup {c}
         /\ \A d \in Calls \ {c} : its2[d] = its[d]
  BY DEF Items, Becomes, Announced, Progress

\* The identifiers known after c was heard of under its final one.
LEMMA FinalKnown ==
  ASSUME NEW its, NEW its2, NEW c \in Calls, NEW it, NEW st, NEW kn, KnownIds(kn, its, st),
         Becomes(its, its2, c, it), its[c].announced > 0, it.announced > 0, FinalUsed(it, st)
  PROVE  KnownIds(kn \cup {<<c, "final">>}, its2, st)
<1> DEFINE K == kn \cup {<<c, "final">>}
<1>1. K \subseteq Ids
  BY IdsFacts DEF KnownIds
<1> SUFFICES ASSUME NEW d \in Calls
             PROVE  /\ <<d, "announced">> \in K <=> its2[d].announced > 0 /\ st.renames
                    /\ <<d, "final">> \in K <=> FinalUsed(its2[d], st)
  BY <1>1 DEF KnownIds
<1>2. /\ <<d, "announced">> \in kn <=> its[d].announced > 0 /\ st.renames
      /\ <<d, "final">> \in kn <=> FinalUsed(its[d], st)
  BY DEF KnownIds
<1>3. <<d, "announced">> \in K <=> <<d, "announced">> \in kn
  OBVIOUS
<1>4. CASE d = c
  BY <1>2, <1>3, <1>4 DEF Becomes
<1>5. CASE d # c
  <2>1. <<d, "final">> \in K <=> <<d, "final">> \in kn
    BY <1>5
  <2>2. its2[d] = its[d]
    BY <1>5 DEF Becomes
  <2> QED
    BY <1>2, <1>3, <2>1, <2>2
<1> QED
  BY <1>4, <1>5

\* The same, when c's identifiers were known.
LEMMA SameKnown ==
  ASSUME NEW its, NEW its2, NEW c \in Calls, NEW it, NEW st, NEW kn, KnownIds(kn, its, st),
         Becomes(its, its2, c, it), it.announced = its[c].announced, it.done = its[c].done
  PROVE  KnownIds(kn, its2, st)
<1>1. \A d \in Calls : its2[d].announced = its[d].announced /\ its2[d].done = its[d].done
  BY DEF Becomes
<1>2. \A d \in Calls : FinalUsed(its2[d], st) <=> FinalUsed(its[d], st)
  BY <1>1 DEF FinalUsed
<1> QED
  BY <1>1, <1>2 DEF KnownIds

\* A new call.
LEMMA NewKnown ==
  ASSUME NEW its, NEW its2, NEW c \in Calls, NEW it, NEW st, NEW kn, KnownIds(kn, its, st),
         Items(its), Becomes(its, its2, c, it), its[c].announced = 0,
         it.announced = 1, it.done = FALSE, st.renames \in BOOLEAN,
         NEW id, id = <<c, IF st.renames THEN "announced" ELSE "final">>
  PROVE  /\ id \in Ids /\ id \notin kn /\ KnownIds(kn \cup {id}, its2, st)
         /\ ~ \E k \in kn : k[1] = c
<1>1. <<c, "announced">> \notin kn /\ <<c, "final">> \notin kn
  BY DEF KnownIds, FinalUsed
<1>2. id \in Ids /\ id \notin kn
  BY <1>1, IdsFacts
<1>3. ~ \E k \in kn : k[1] = c
  BY <1>1, IdsFacts DEF KnownIds
<1>4. kn \cup {id} \subseteq Ids
  BY <1>2 DEF KnownIds
<1>5. ASSUME NEW d \in Calls
      PROVE  /\ <<d, "announced">> \in kn \cup {id} <=> its2[d].announced > 0 /\ st.renames
             /\ <<d, "final">> \in kn \cup {id} <=> FinalUsed(its2[d], st)
  <2>1. CASE d = c
    <3>1. its2[c].announced = 1 /\ its2[c].done = FALSE
      BY DEF Becomes
    <3>2. FinalUsed(its2[c], st) <=> ~ st.renames
      BY <3>1 DEF FinalUsed
    <3> QED
      BY <2>1, <3>1, <3>2, <1>1
  <2>2. CASE d # c
    <3>1. its2[d] = its[d]
      BY <2>2 DEF Becomes
    <3>2. <<d, "announced">> # id /\ <<d, "final">> # id
      BY <2>2
    <3> QED
      BY <3>1, <3>2 DEF KnownIds
  <2> QED
    BY <2>1, <2>2
<1> QED
  BY <1>2, <1>3, <1>4, <1>5 DEF KnownIds

\* The bridge waits for the provider.
Waits == /\ style \in [indexed : BOOLEAN, renames : BOOLEAN] /\ Items(item)
         /\ View(client, tracker, <<>>, held, known, item, style, "no")

LEMMA AddedTranslated ==
  ASSUME Waits, NEW c \in Calls, NEW whole \in BOOLEAN, item[c].announced = 0,
         NEW its2, NEW it, Becomes(item, its2, c, it), it.announced = 1, it.done = FALSE,
         it.sent = IF whole THEN Tokens ELSE 0,
         NEW e, e = Event("added", c, IF whole THEN AllTokens ELSE <<>>), Translate(e)
  PROVE  View(client, tracker, out', held', known', its2, style, "no")
<1> DEFINE x == IF whole THEN AllTokens ELSE <<>>
           id == <<c, IF style.renames THEN "announced" ELSE "final">>
           j == IF style.indexed THEN c ELSE Cardinality(known)
<1>1. /\ style.renames \in BOOLEAN /\ Items(item)
      /\ View(client, tracker, <<>>, held, known, item, style, "no")
      /\ KnownIds(known, item, style)
  BY Rested DEF Waits
<1>2. e.type = "added" /\ e.call = c /\ e.id = id /\ e.args = x
  BY DEF Event, Id
<1>3. x \in Seq(Nat) /\ x = FirstTokens(Len(x)) /\ Len(x) = it.sent
  <2>1. CASE whole
    BY <2>1, BridgeConstants, FirstTokensFacts DEF AllTokens
  <2>2. CASE ~ whole
    BY <2>2 DEF FirstTokens
  <2> QED
    BY <2>1, <2>2
<1> HIDE DEF x, id
<1>4. id \in Ids /\ id \notin known /\ KnownIds(known \cup {id}, its2, style) /\ ~ \E k \in known : k[1] = c
  BY <1>1, NewKnown, ZenonT(60) DEF id
<1>5. ~ Seen(c)
  BY <1>4 DEF Seen
<1>6. Fresh(e) = [index |-> j, args |-> x]
  BY <1>2 DEF Fresh
<1>7. known' = known \cup {id} /\ held' = [held EXCEPT ![c] = [index |-> j, args |-> x]]
      /\ out' = <<StartChunk(c, j)>> \o ArgsChunks(j, x)
  <2> HIDE DEF j
  <2>1. /\ known' = known \cup {e.id} /\ held' = [held EXCEPT ![e.call] = Fresh(e)]
        /\ out' = <<StartChunk(e.call, Fresh(e).index)>> \o ArgsChunks(Fresh(e).index, e.args)
    <3>1. ~ Seen(e.call)
      BY <1>2, <1>5
    <3> QED
      BY <1>2, <3>1 DEF Translate
  <2>2. Fresh(e).index = j
    BY <1>6
  <2> QED
    BY <1>2, <1>6, <2>1, <2>2
<1>8. Announced(its2) = Announced(item) \cup {c} /\ c \notin Announced(item)
      /\ \A d \in Announced(item) : its2[d] = item[d]
  BY DEF Becomes, Announced
<1>9. its2[c].sent = it.sent
  BY DEF Becomes
<1> HIDE DEF j
<1>10. Announces(c, id, j, x, held, held', known, item, its2, style, out')
  BY <1>3, <1>4, <1>7, <1>8, <1>9 DEF Announces, j
<1> QED
  BY <1>1, <1>7, <1>10, ViewNew

\* A call that is held is completed.
LEMMA CompletedCall ==
  ASSUME Waits, NEW c \in Announced(item), NEW e, e.call = c, e.args \in {<<>>, AllTokens}, CompleteCall(e)
  PROVE  \E x : /\ Grows(Announced(item), held, c, x, held', out')
                /\ held'[c].args = IF e.args = <<>> THEN held[c].args ELSE AllTokens
<1>1. /\ held \in [Calls -> HeldCalls] /\ Holds(held[c], item[c], style) /\ Items(item)
  BY Rested DEF Waits
<1>2. Announced(item) \subseteq Calls /\ c \in Calls
  BY DEF Announced
<1>3. held[c].args \in Seq(Nat) /\ held[c].index \in Indices
  BY <1>1, <1>2 DEF HeldCalls
<1>4. CASE e.args = <<>>
  <2>1. held' = held /\ out' = <<>>
    BY <1>4 DEF CompleteCall
  <2>2. held[c].args \o <<>> = held[c].args /\ <<>> \in Seq(Nat)
    BY <1>3
  <2>3. Grows(Announced(item), held, c, <<>>, held', out')
    BY <1>1, <1>2, <2>1, <2>2 DEF Grows, ArgsChunks
  <2> QED
    BY <1>4, <2>1, <2>3
<1>5. CASE e.args # <<>>
  <2> DEFINE m == Len(held[c].args)
             x == Missing(held[c].args, AllTokens)
  <2>1. e.args = AllTokens
    BY <1>5
  <2>2. held' = [held EXCEPT ![c].args = AllTokens] /\ out' = ArgsChunks(held[c].index, x)
    BY <1>5, <2>1 DEF CompleteCall
  <2>3. m \in Nat /\ m <= Tokens /\ held[c].args = FirstTokens(m)
    <3>1. m \in Nat /\ held[c].args = FirstTokens(m) /\ m <= item[c].sent
      BY <1>1, <1>3 DEF Holds
    <3>2. item[c].sent \in 0 .. Tokens
      BY <1>1, <1>2 DEF Items, Progress
    <3> QED
      BY <3>1, <3>2, BridgeConstants
  <2> HIDE DEF m
  <2>4. x \in Seq(Nat) /\ held[c].args \o x = AllTokens
    BY <2>3, MissingTokens, BridgeConstants DEF AllTokens
  <2>5. AllTokens \in Seq(Nat)
    BY FirstTokensFacts, BridgeConstants DEF AllTokens
  <2> HIDE DEF x
  <2>6. held' \in [Calls -> HeldCalls] /\ held'[c].index = held[c].index /\ held'[c].args = AllTokens
        /\ \A d \in Calls \ {c} : held'[d] = held[d]
    BY <1>1, <1>2, <2>2, <2>5 DEF HeldCalls
  <2>7. Grows(Announced(item), held, c, x, held', out')
    BY <1>2, <2>2, <2>4, <2>6 DEF Grows
  <2> QED
    BY <1>5, <2>6, <2>7
<1> QED
  BY <1>4, <1>5

LEMMA AnnouncedIsCall == \A c \in Announced(item) : c \in Calls /\ item[c].announced > 0
  BY DEF Announced

\* All or nothing is heard of a call under its final identifier.
LEMMA HeardWhole ==
  ASSUME Waits, NEW c \in Announced(item), NEW its2, NEW it, Becomes(item, its2, c, it),
         it.announced > 0, FinalUsed(it, style), Items(its2),
         NEW e, e.call = c, CompleteCall(e), known' = known \cup {<<c, "final">>},
         \/ e.args = <<>> /\ item[c].sent = 0 /\ it.sent = 0
         \/ e.args = AllTokens /\ it.sent = Tokens
  PROVE  View(client, tracker, out', held', known', its2, style, "no")
<1>1. /\ held \in [Calls -> HeldCalls] /\ Holds(held[c], item[c], style) /\ KnownIds(known, item, style)
      /\ View(client, tracker, <<>>, held, known, item, style, "no") /\ Items(item)
  BY Rested DEF Waits
<1>2. c \in Calls /\ item[c].announced > 0
  BY AnnouncedIsCall
<1>3. PICK x : /\ Grows(Announced(item), held, c, x, held', out')
               /\ held'[c].args = IF e.args = <<>> THEN held[c].args ELSE AllTokens
  BY CompletedCall
<1>4. KnownIds(known', its2, style)
  BY <1>1, <1>2, FinalKnown
<1>5. \E id \in Ids : known' = known \cup {id}
  BY <1>2, IdsFacts
<1>6. Announced(its2) = Announced(item) /\ \A d \in Calls \ {c} : its2[d] = item[d]
  BY <1>2 DEF Becomes, Announced
<1>7. held[c].args \in Seq(Nat) /\ Len(held[c].args) \in Nat /\ held[c].args = FirstTokens(Len(held[c].args))
  BY <1>1, <1>2 DEF HeldCalls, Holds
<1>8. held'[c].args = FirstTokens(it.sent) /\ it.sent \in Nat
  <2>1. CASE e.args = AllTokens /\ it.sent = Tokens /\ e.args # <<>>
    BY <2>1, <1>3, BridgeConstants DEF AllTokens
  <2>2. CASE e.args = AllTokens /\ it.sent = Tokens /\ e.args = <<>>
    <3>0. Len(FirstTokens(Tokens)) = Tokens /\ FirstTokens(Tokens) = <<>>
      BY <2>2, FirstTokensFacts, BridgeConstants DEF AllTokens
    <3>1. Tokens = 0
      BY <3>0
    <3>2. item[c].sent = 0
      BY <3>1, <1>1, <1>2 DEF Items, Progress
    <3>3. Len(held[c].args) = 0
      BY <3>2, <1>1, <1>7 DEF Holds
    <3> QED
      BY <3>1, <3>3, <1>7, <1>3, <2>2
  <2>3. CASE e.args = <<>> /\ item[c].sent = 0 /\ it.sent = 0
    <3>3. Len(held[c].args) = 0
      BY <2>3, <1>1, <1>7 DEF Holds
    <3> QED
      BY <3>3, <1>7, <1>3, <2>3
  <2> QED
    BY <2>1, <2>2, <2>3
<1>9. Holds(held'[c], its2[c], style)
  <2>1. its2[c] = it
    BY DEF Becomes
  <2>2. Len(held'[c].args) = it.sent
    BY <1>8, FirstTokensFacts
  <2> QED
    BY <2>1, <2>2, <1>8 DEF Holds
<1>10. Continues(c, x, held, held', known, known', item, its2, style, out')
  BY <1>3, <1>4, <1>5, <1>6, <1>9 DEF Continues
<1> QED
  BY <1>1, <1>10, ViewMore

\* What the translator cannot attribute to an item is dropped.
LEMMA HeardNothing ==
  ASSUME Waits, NEW c \in Announced(item), NEW its2, NEW it, Becomes(item, its2, c, it),
         it.announced = item[c].announced, it.done = item[c].done, item[c].sent <= it.sent,
         it.sent \in Nat, <<c, "final">> \notin known,
         known' = known, held' = held, out' = <<>>
  PROVE  View(client, tracker, out', held', known', its2, style, "no")
<1>1. /\ held \in [Calls -> HeldCalls] /\ Holds(held[c], item[c], style) /\ KnownIds(known, item, style)
      /\ View(client, tracker, <<>>, held, known, item, style, "no") /\ Items(item)
  BY Rested DEF Waits
<1>2. c \in Calls /\ item[c].announced > 0
  BY AnnouncedIsCall
<1>3. KnownIds(known, its2, style)
  BY <1>1, <1>2, SameKnown
<1>4. its2[c] = it
  BY DEF Becomes
<1>5. ~ FinalUsed(it, style)
  BY <1>2, <1>3, <1>4 DEF KnownIds
<1>6. Announced(its2) = Announced(item) /\ \A d \in Calls \ {c} : its2[d] = item[d]
  BY <1>2 DEF Becomes, Announced
<1>7. held[c].args \in Seq(Nat) /\ Len(held[c].args) \in Nat /\ item[c].sent \in Nat
  BY <1>1, <1>2 DEF HeldCalls, Items, Progress
<1>8. Holds(held[c], its2[c], style)
  BY <1>1, <1>4, <1>5, <1>7 DEF Holds
<1>9. Grows(Announced(item), held, c, <<>>, held, <<>>)
  <2>1. held[c].args \o <<>> = held[c].args /\ <<>> \in Seq(Nat)
    BY <1>7
  <2> QED
    BY <2>1, <1>1 DEF Grows, ArgsChunks, Announced
<1>10. Continues(c, <<>>, held, held, known, known, item, its2, style, <<>>)
  BY <1>3, <1>6, <1>8, <1>9 DEF Continues
<1> QED
  BY <1>1, <1>10, ViewMore

\* The next token of a call.
LEMMA HeardToken ==
  ASSUME Waits, NEW c \in Announced(item), NEW its2, NEW it, Becomes(item, its2, c, it),
         it.announced = item[c].announced, it.done = item[c].done, it.sent = item[c].sent + 1,
         <<c, "final">> \in known, known' = known,
         held' = [held EXCEPT ![c].args = held[c].args \o <<item[c].sent + 1>>],
         out' = ArgsChunks(held[c].index, <<item[c].sent + 1>>)
  PROVE  View(client, tracker, out', held', known', its2, style, "no")
<1> DEFINE n == item[c].sent
           x == <<n + 1>>
<1>1. /\ held \in [Calls -> HeldCalls] /\ Holds(held[c], item[c], style) /\ KnownIds(known, item, style)
      /\ View(client, tracker, <<>>, held, known, item, style, "no") /\ Items(item)
  BY Rested DEF Waits
<1>2. c \in Calls /\ item[c].announced > 0
  BY AnnouncedIsCall
<1>3. KnownIds(known, its2, style)
  BY <1>1, <1>2, SameKnown
<1>4. its2[c] = it
  BY DEF Becomes
<1>5. FinalUsed(item[c], style)
  BY <1>1, <1>2 DEF KnownIds
<1>6. Announced(its2) = Announced(item) /\ \A d \in Calls \ {c} : its2[d] = item[d]
  BY <1>2 DEF Becomes, Announced
<1>7. n \in Nat
  BY <1>1, <1>2 DEF Items, Progress
<1>8. held[c].args = FirstTokens(n)
  BY <1>1, <1>5 DEF Holds
<1>9. held[c].args \o x = FirstTokens(n + 1) /\ FirstTokens(n + 1) \in Seq(Nat) /\ Len(FirstTokens(n + 1)) = n + 1
  <2>1. n + 1 \in Nat
    BY <1>7
  <2>2. FirstTokens(n) \o <<n + 1>> = FirstTokens(n + 1)
    BY <1>7, NextToken
  <2>3. FirstTokens(n + 1) \in Seq(Nat) /\ Len(FirstTokens(n + 1)) = n + 1
    BY <2>1, FirstTokensFacts
  <2> HIDE DEF n
  <2> QED
    BY <1>8, <2>2, <2>3
<1>10. x \in Seq(Nat)
  BY <1>7
<1> HIDE DEF x
<1>11. held' = [held EXCEPT ![c].args = FirstTokens(n + 1)]
  BY <1>9 DEF x
<1>12. held' \in [Calls -> HeldCalls] /\ held'[c].index = held[c].index
       /\ held'[c].args = FirstTokens(n + 1) /\ \A d \in Calls \ {c} : held'[d] = held[d]
  BY <1>1, <1>2, <1>9, <1>11 DEF HeldCalls
<1>13. Grows(Announced(item), held, c, x, held', out')
  BY <1>9, <1>10, <1>12 DEF Grows, Announced, x
<1>14. Holds(held'[c], its2[c], style)
  <2>1. its2[c].sent = n + 1
    BY <1>4
  <2> HIDE DEF n
  <2>2. Len(held'[c].args) = n + 1 /\ n + 1 <= n + 1
    BY <1>7, <1>9, <1>12
  <2> QED
    BY <2>1, <2>2, <1>12 DEF Holds
<1>15. Continues(c, x, held, held', known, known', item, its2, style, out')
  BY <1>3, <1>6, <1>13, <1>14 DEF Continues
<1> QED
  BY <1>1, <1>15, ViewMore

-----------------------------------------------------------------------------
(* The answers of the responses protocol.                                  *)

LEMMA OwnKeys ==
  ASSUME NEW c \in Calls
  PROVE  /\ <<"call", c>> \in Own(c) /\ <<"item", <<c, "final">>>> \in Own(c)
         /\ Own(c) \subseteq Keys
         /\ \A d \in Calls \ {c} : <<"call", d>> \notin Own(c) /\ <<"item", <<d, "final">>>> \notin Own(c)
         /\ \A k \in Own(c), d \in Calls : k \in Own(d) => d = c
<1>1. \A k \in Own(c) : k = <<"call", c>> \/ k = <<"item", <<c, "final">>>>
  BY DEF Own
<1>2. \A d \in Calls : <<"call", d>> \in Own(d) /\ <<"item", <<d, "final">>>> \in Own(d)
  BY DEF Own
<1>3. \A d \in Calls : \A k \in Own(d) : k = <<"call", d>> \/ k = <<"item", <<d, "final">>>>
  BY DEF Own
<1>4. <<"call", c>> \in Keys /\ <<"item", <<c, "final">>>> \in Keys
  BY KeyFacts
<1>5. Own(c) \subseteq Keys
  BY <1>1, <1>4
<1>6. \A d \in Calls \ {c} : <<"call", d>> \notin Own(c) /\ <<"item", <<d, "final">>>> \notin Own(c)
  BY <1>1
<1>7. \A k \in Own(c), d \in Calls : k \in Own(d) => d = c
  BY <1>1, <1>3
<1> QED
  BY <1>2, <1>5, <1>6, <1>7

LEMMA Itemized ==
  ASSUME NEW t \in Trackers, NEW c \in Calls, NEW id \in Ids, NEW x \in Seq(Nat),
         t.alias[<<"call", c>>] = <<"call", c>>
  PROVE  LET u == ObserveItem(t, c, id, x)
             I == <<"item", id>>
             K == <<"call", c>>
         IN  /\ u \in Trackers
             /\ u.keys = (t.keys \ {I}) \cup {K}
             /\ \A k \in Keys : u.alias[k] = IF k = I THEN K ELSE t.alias[k]
             /\ u.args[K] = IF x # <<>> THEN x ELSE IF I \in t.keys THEN t.args[I] ELSE t.args[K]
             /\ u.args[I] = <<>> \/ u.args[I] = t.args[I]
             /\ \A k \in Keys : k # I /\ k # K => u.args[k] = t.args[k]
<1> DEFINE K == <<"call", c>>
           I == <<"item", id>>
           m == moveAlias(t, I, K)
           u == ObserveItem(t, c, id, x)
<1>1. K \in Keys /\ I \in Keys /\ K # I
  BY DEF Keys
<1>2. u = remember(m, K, x, FALSE)
  BY DEF ObserveItem
<1>3. /\ m.alias = [t.alias EXCEPT ![I] = K]
      /\ m.keys = IF I \in t.keys THEN (t.keys \ {I}) \cup {K} ELSE t.keys
      /\ m.args = IF I \in t.keys THEN [t.args EXCEPT ![K] = t.args[I], ![I] = <<>>] ELSE t.args
      /\ m = [alias |-> m.alias, keys |-> m.keys, args |-> m.args]
  BY DEF moveAlias
<1>a. t.alias[K] = K
  OBVIOUS
<1> HIDE DEF m, K, I, u
<1>b. /\ t.keys \in SUBSET Keys /\ t.alias \in [Keys -> Keys] /\ t.args \in [Keys -> Seq(Nat)]
  BY DEF Trackers
<1>c. <<>> \in Seq(Nat)
  OBVIOUS
<1>4. m.alias \in [Keys -> Keys] /\ m.keys \in SUBSET Keys /\ m.args \in [Keys -> Seq(Nat)]
  <2>0. t.args[I] \in Seq(Nat)
    BY <1>1, <1>b
  <2>1. m.args \in [Keys -> Seq(Nat)]
    <3>1. CASE I \in t.keys
      <4> DEFINE S == Seq(Nat)
      <4>1. m.args = [t.args EXCEPT ![K] = t.args[I], ![I] = <<>>]
        BY <3>1, <1>3
      <4>2. t.args \in [Keys -> S] /\ t.args[I] \in S /\ <<>> \in S
        BY <1>b, <1>c, <2>0
      <4> HIDE DEF S
      <4>3. m.args \in [Keys -> S]
        BY <1>1, <4>1, <4>2
      <4> QED
        BY <4>3 DEF S
    <3>2. CASE I \notin t.keys
      BY <3>2, <1>3, <1>b
    <3> QED
      BY <3>1, <3>2
  <2>2. m.alias \in [Keys -> Keys] /\ m.keys \in SUBSET Keys
    BY <1>1, <1>3, <1>b
  <2> QED
    BY <2>1, <2>2
<1>5. m.alias[K] = K /\ \A k \in Keys : m.alias[k] = IF k = I THEN K ELSE t.alias[k]
  BY <1>1, <1>3, <1>a, <1>b
<1>6. /\ m.args[K] = IF I \in t.keys THEN t.args[I] ELSE t.args[K]
      /\ m.args[I] = <<>> \/ m.args[I] = t.args[I]
      /\ \A k \in Keys : k # I /\ k # K => m.args[k] = t.args[k]
  BY <1>1, <1>3, <1>b
<1>7. u = [m EXCEPT !.keys = @ \cup {K}, !.args[K] = IF x = <<>> THEN @ ELSE x]
  BY <1>2, <1>5 DEF remember
<1>8. u = [alias |-> m.alias, keys |-> m.keys \cup {K},
           args |-> [m.args EXCEPT ![K] = IF x = <<>> THEN @ ELSE x]]
  BY <1>3, <1>7
<1>9. u.alias = m.alias /\ u.keys = m.keys \cup {K}
      /\ u.args = [m.args EXCEPT ![K] = IF x = <<>> THEN @ ELSE x]
  BY <1>8
<1>10. u.args \in [Keys -> Seq(Nat)]
  BY <1>1, <1>4, <1>9
<1>11. u \in Trackers
  BY <1>1, <1>4, <1>8, <1>9, <1>10 DEF Trackers
<1>12. u.keys = (t.keys \ {I}) \cup {K}
  BY <1>1, <1>3, <1>9
<1>13. /\ u.args[K] = IF x # <<>> THEN x ELSE m.args[K]
       /\ \A k \in Keys : k # K => u.args[k] = m.args[k]
  BY <1>1, <1>4, <1>9
<1> QED
  BY <1>1, <1>5, <1>6, <1>9, <1>11, <1>12, <1>13 DEF u, K, I

LEMMA Remembered ==
  ASSUME NEW t \in Trackers, NEW key \in Keys, NEW x \in Seq(Nat), NEW append \in BOOLEAN
  PROVE  LET u == remember(t, key, x, append) IN
         /\ u \in Trackers /\ u.alias = t.alias
         /\ u.keys = t.keys \cup {t.alias[key]}
         /\ \A k \in Keys : k # t.alias[key] => u.args[k] = t.args[k]
         /\ x = <<>> => u.args = t.args
<1> DEFINE K == t.alias[key]
           u == remember(t, key, x, append)
           y == IF x = <<>> THEN t.args[K] ELSE IF append THEN t.args[K] \o x ELSE x
<1>b. /\ t.keys \in SUBSET Keys /\ t.alias \in [Keys -> Keys] /\ t.args \in [Keys -> Seq(Nat)]
      /\ t = [keys |-> t.keys, alias |-> t.alias, args |-> t.args]
  BY DEF Trackers
<1>1. K \in Keys
  BY <1>b
<1>2. u = [t EXCEPT !.keys = @ \cup {K}, !.args[K] = y]
  BY <1>1, <1>b DEF remember
<1>3. y \in Seq(Nat)
  BY <1>1, <1>b
<1>4. x = <<>> => y = t.args[K]
  OBVIOUS
<1> HIDE DEF K, y, u
<1>5. u = [keys |-> t.keys \cup {K}, alias |-> t.alias, args |-> [t.args EXCEPT ![K] = y]]
  BY <1>2, <1>b
<1>6. u.keys = t.keys \cup {K} /\ u.alias = t.alias /\ u.args = [t.args EXCEPT ![K] = y]
  BY <1>5
<1>7. u.args \in [Keys -> Seq(Nat)]
  BY <1>1, <1>3, <1>6, <1>b
<1>8. u \in Trackers
  BY <1>1, <1>5, <1>6, <1>7, <1>b DEF Trackers
<1>9. /\ \A k \in Keys : k # K => u.args[k] = t.args[k]
      /\ x = <<>> => u.args = t.args
  BY <1>1, <1>4, <1>6, <1>b
<1> QED
  BY <1>6, <1>8, <1>9 DEF u, K

\* An item of call c with its identifier and its arguments x.
Tells(its, its2, c, it, id, x, st) ==
    /\ c \in Calls /\ Becomes(its, its2, c, it) /\ it.announced > 0
    /\ id \in {<<c, "announced">>, <<c, "final">>}
    /\ FinalUsed(it, st) <=> FinalUsed(its[c], st) \/ id = <<c, "final">>
    /\ x \in Seq(Nat) /\ (it.done => x = AllTokens) /\ (Tokens = 0 => x = <<>>)

LEMMA ResponsesItem ==
  ASSUME NEW t, NEW its, NEW st, ResponsesView(t, its, st),
         NEW its2, NEW c, NEW it, NEW id, NEW x, Tells(its, its2, c, it, id, x, st)
  PROVE  ResponsesView(ObserveItem(t, c, id, x), its2, st)
<1> DEFINE K == <<"call", c>>
           I == <<"item", id>>
           F == <<"item", <<c, "final">>>>
           u == ObserveItem(t, c, id, x)
<1>1. /\ c \in Calls /\ Becomes(its, its2, c, it) /\ it.announced > 0
      /\ id \in {<<c, "announced">>, <<c, "final">>}
      /\ FinalUsed(it, st) <=> FinalUsed(its[c], st) \/ id = <<c, "final">>
      /\ x \in Seq(Nat) /\ (it.done => x = AllTokens) /\ (Tokens = 0 => x = <<>>)
  BY DEF Tells
<1>2. id \in Ids
  BY <1>1, IdsFacts
<1>3. /\ t \in Trackers /\ t.keys \subseteq UNION {Own(d) : d \in Calls}
      /\ \A d \in Calls : Observes(t, d, its[d], st)
      /\ Tokens = 0 => \A k \in Keys : t.args[k] = <<>>
  BY DEF ResponsesView
<1>4. Observes(t, c, its[c], st)
  BY <1>1, <1>3
<1>5. /\ u \in Trackers
      /\ u.keys = (t.keys \ {I}) \cup {K}
      /\ \A k \in Keys : u.alias[k] = IF k = I THEN K ELSE t.alias[k]
      /\ u.args[K] = IF x # <<>> THEN x ELSE IF I \in t.keys THEN t.args[I] ELSE t.args[K]
      /\ u.args[I] = <<>> \/ u.args[I] = t.args[I]
      /\ \A k \in Keys : k # I /\ k # K => u.args[k] = t.args[k]
  <2>1. t.alias[<<"call", c>>] = <<"call", c>>
    BY <1>4 DEF Observes
  <2> QED
    BY <1>1, <1>2, <1>3, <2>1, Itemized, SMTT(30)
<1>6. K \in Keys /\ I \in Keys /\ F \in Keys /\ K # I /\ K # F /\ (I = F <=> id = <<c, "final">>)
  BY <1>1, <1>2, KeyFacts DEF Keys
<1>7. its2[c] = it /\ \A d \in Calls \ {c} : its2[d] = its[d]
  BY <1>1 DEF Becomes
<1> HIDE DEF u
<1>8. Tokens = 0 => \A k \in Keys : u.args[k] = <<>>
  BY <1>1, <1>3, <1>5, <1>6
<1>9. u.keys \subseteq UNION {Own(d) : d \in Calls}
  <2>1. K \in Own(c)
    BY <1>1, OwnKeys
  <2> QED
    BY <1>1, <1>3, <1>5, <2>1
<1>10. Observes(u, c, it, st)
  <2>1. u.alias[K] = K
    BY <1>4, <1>5, <1>6 DEF Observes
  <2>2. u.alias[F] = IF FinalUsed(it, st) THEN K ELSE F
    BY <1>1, <1>4, <1>5, <1>6 DEF Observes
  <2>3. K \in u.keys /\ it.announced > 0
    BY <1>1, <1>5
  <2>4. F \in u.keys => ~ FinalUsed(it, st)
    BY <1>1, <1>4, <1>5, <1>6 DEF Observes
  <2>5. it.done => u.args[K] = AllTokens
    <3>1. CASE x # <<>>
      BY <3>1, <1>1, <1>5
    <3>2. CASE x = <<>> /\ it.done
      <4>1. Len(FirstTokens(Tokens)) = Tokens /\ FirstTokens(Tokens) = <<>>
        BY <3>2, <1>1, FirstTokensFacts, BridgeConstants DEF AllTokens
      <4>2. Tokens = 0
        BY <4>1
      <4> QED
        BY <4>2, <3>2, <1>1, <1>6, <1>8
    <3> QED
      BY <3>1, <3>2
  <2> QED
    BY <2>1, <2>2, <2>3, <2>4, <2>5 DEF Observes
<1>11. ASSUME NEW d \in Calls \ {c}
       PROVE  Observes(u, d, its[d], st)
  <2> DEFINE Kd == <<"call", d>>
             Fd == <<"item", <<d, "final">>>>
  <2>1. Kd \in Keys /\ Fd \in Keys /\ Kd # K /\ Kd # I /\ Fd # K /\ Fd # I
    <3>1. Kd # K /\ Kd # I /\ Fd # K
      OBVIOUS
    <3>2. <<d, "final">> # <<c, "announced">> /\ <<d, "final">> # <<c, "final">>
      OBVIOUS
    <3>3. Fd # I
      BY <3>2, <1>1
    <3> QED
      BY <3>1, <3>3, KeyFacts
  <2>2. Observes(t, d, its[d], st)
    BY <1>3
  <2>3. u.alias[Kd] = t.alias[Kd] /\ u.alias[Fd] = t.alias[Fd] /\ u.args[Kd] = t.args[Kd]
        /\ (Kd \in u.keys <=> Kd \in t.keys) /\ (Fd \in u.keys <=> Fd \in t.keys)
    BY <2>1, <1>5
  <2> QED
    BY <2>2, <2>3 DEF Observes
<1>12. \A d \in Calls : Observes(u, d, its2[d], st)
  BY <1>7, <1>10, <1>11
<1>13. ResponsesView(u, its2, st)
  BY <1>5, <1>8, <1>9, <1>12 DEF ResponsesView
<1> QED
  BY <1>13 DEF u

\* Arguments of call c, under its final identifier.
LEMMA ResponsesArgs ==
  ASSUME NEW t, NEW its, NEW st, ResponsesView(t, its, st),
         NEW its2, NEW c \in Calls, NEW it, Becomes(its, its2, c, it),
         its[c].announced > 0, it.announced = its[c].announced, it.done = FALSE, its[c].done = FALSE,
         NEW x \in Seq(Nat), Tokens = 0 => x = <<>>, NEW append \in BOOLEAN
  PROVE  ResponsesView(remember(t, <<"item", <<c, "final">>>>, x, append), its2, st)
<1> DEFINE K == <<"call", c>>
           F == <<"item", <<c, "final">>>>
           A == t.alias[F]
           u == remember(t, F, x, append)
<1>1. K \in Keys /\ F \in Keys /\ K # F
  BY KeyFacts
<1>2. /\ t \in Trackers /\ t.keys \subseteq UNION {Own(d) : d \in Calls}
      /\ \A d \in Calls : Observes(t, d, its[d], st)
      /\ Tokens = 0 => \A k \in Keys : t.args[k] = <<>>
  BY DEF ResponsesView
<1>3. /\ u \in Trackers /\ u.alias = t.alias
      /\ u.keys = t.keys \cup {A}
      /\ \A k \in Keys : k # A => u.args[k] = t.args[k]
      /\ x = <<>> => u.args = t.args
  <2>1. t \in Trackers /\ F \in Keys /\ x \in Seq(Nat) /\ append \in BOOLEAN
    BY <1>1, <1>2
  <2> HIDE DEF F, K
  <2> QED
    BY <2>1, Remembered
<1>4. A = IF FinalUsed(its[c], st) THEN K ELSE F
  BY <1>2 DEF Observes
<1>5. its2[c] = it /\ \A d \in Calls \ {c} : its2[d] = its[d]
  BY DEF Becomes
<1>6. FinalUsed(it, st) <=> FinalUsed(its[c], st)
  BY DEF FinalUsed
<1>7. A \in Own(c)
  BY <1>4, OwnKeys
<1> HIDE DEF u
<1>8. Observes(u, c, it, st)
  <2>1. Observes(t, c, its[c], st)
    BY <1>2
  <2> QED
    BY <2>1, <1>1, <1>3, <1>4, <1>6 DEF Observes
<1>9. ASSUME NEW d \in Calls \ {c}
      PROVE  Observes(u, d, its[d], st)
  <2> DEFINE Kd == <<"call", d>>
             Fd == <<"item", <<d, "final">>>>
  <2>1. Kd \in Keys /\ Fd \in Keys /\ Kd # A /\ Fd # A
    BY <1>7, KeyFacts, OwnKeys
  <2>2. Observes(t, d, its[d], st)
    BY <1>2
  <2>3. u.args[Kd] = t.args[Kd] /\ (Kd \in u.keys <=> Kd \in t.keys) /\ (Fd \in u.keys <=> Fd \in t.keys)
    BY <2>1, <1>3
  <2> QED
    BY <2>2, <2>3, <1>3 DEF Observes
<1>10. \A d \in Calls : Observes(u, d, its2[d], st)
  BY <1>5, <1>8, <1>9
<1>11. u.keys \subseteq UNION {Own(d) : d \in Calls}
  BY <1>2, <1>3, <1>7
<1>12. ResponsesView(u, its2, st)
  BY <1>2, <1>3, <1>10, <1>11 DEF ResponsesView
<1> QED
  BY <1>12 DEF u

\* The final event names every item once more.
LEMMA ResponsesOutput ==
  ASSUME NEW t, ResponsesView(t, item, style), Items(item), \A c \in Announced(item) : item[c].done
  PROVE  ResponsesView(ObserveOutput(t), item, style)
<1> DEFINE told == {c \in Calls : item[c].announced > 0}
           after(c) == ObserveItem(t, c, <<c, "final">>, FirstTokens(item[c].sent))
           of(k) == IF \E c \in told : k \in Own(c) THEN after(CHOOSE c \in told : k \in Own(c)) ELSE t
           v(c) == IF c \in told THEN after(c) ELSE t
           u == ObserveOutput(t)
<1>1. u = [keys  |-> {k \in Keys : k \in of(k).keys},
           alias |-> [k \in Keys |-> of(k).alias[k]],
           args  |-> [k \in Keys |-> of(k).args[k]]]
  BY DEF ObserveOutput
<1>2. told = Announced(item) /\ told \subseteq Calls
  BY DEF Announced
<1>4. ASSUME NEW c \in told
      PROVE  ResponsesView(after(c), item, style)
  <2>1. /\ c \in Calls /\ item \in [Calls -> Progress] /\ item[c].announced > 0
        /\ item[c].sent = Tokens /\ item[c].done
    BY <1>2 DEF Items
  <2>2. Tells(item, item, c, item[c], <<c, "final">>, FirstTokens(item[c].sent), style)
    <3>1. Becomes(item, item, c, item[c])
      BY <2>1 DEF Becomes
    <3>2. FinalUsed(item[c], style)
      BY <2>1 DEF FinalUsed
    <3>3. FirstTokens(Tokens) \in Seq(Nat) /\ (Tokens = 0 => FirstTokens(Tokens) = <<>>)
      BY BridgeConstants DEF FirstTokens
    <3> QED
      BY <2>1, <3>1, <3>2, <3>3 DEF Tells, AllTokens
  <2> QED
    BY <2>2, ResponsesItem
<1>5. ASSUME NEW c \in Calls, NEW k \in Own(c)
      PROVE  of(k) = v(c)
  <2>1. \A d \in Calls : k \in Own(d) => d = c
    BY OwnKeys
  <2>2. CASE c \in told
    <3>1. \E d \in told : k \in Own(d)
      BY <2>2
    <3>2. (CHOOSE d \in told : k \in Own(d)) = c
      BY <2>1, <3>1
    <3> HIDE DEF after
    <3> QED
      BY <2>2, <3>1, <3>2
  <2>3. CASE c \notin told
    <3>1. ~ \E d \in told : k \in Own(d)
      BY <2>1, <2>3
    <3> QED
      BY <2>3, <3>1
  <2> QED
    BY <2>2, <2>3
<1>6. ASSUME NEW k \in Keys
      PROVE  of(k) = t \/ \E c \in told : k \in Own(c) /\ of(k) = after(c)
  <2>1. CASE \E c \in told : k \in Own(c)
    <3>1. PICK c \in told : k \in Own(c)
      BY <2>1
    <3>2. of(k) = v(c)
      BY <3>1, <1>5
    <3> QED
      BY <3>1, <3>2
  <2>2. CASE ~ \E c \in told : k \in Own(c)
    BY <2>2
  <2> QED
    BY <2>1, <2>2
<1> HIDE DEF after
<1>7. \A k \in Keys : of(k) \in Trackers
  BY <1>4, <1>6 DEF ResponsesView
<1> HIDE DEF of, u
<1>8. u \in Trackers
  BY <1>1, <1>7 DEF Trackers
<1>9. ResponsesView(u, item, style)
  <2>1. \A c \in Calls : ResponsesView(v(c), item, style)
    BY <1>4
  <2>2. ASSUME NEW k \in u.keys
        PROVE  \E d \in Calls : k \in Own(d)
    <3>1. k \in Keys /\ k \in of(k).keys
      BY <1>1
    <3>2. CASE of(k) = t
      BY <3>1, <3>2 DEF ResponsesView
    <3> QED
      BY <1>2, <1>6, <3>1, <3>2
  <2>3. ASSUME NEW c \in Calls
        PROVE  Observes(u, c, item[c], style)
    <3> DEFINE K == <<"call", c>>
               F == <<"item", <<c, "final">>>>
    <3>1. Observes(v(c), c, item[c], style)
      BY <2>1 DEF ResponsesView
    <3>2. K \in Keys /\ F \in Keys /\ of(K) = v(c) /\ of(F) = v(c)
      <4>1. K \in Own(c) /\ F \in Own(c) /\ K \in Keys /\ F \in Keys
        BY OwnKeys
      <4> HIDE DEF v
      <4> QED
        BY <4>1, <1>5
    <3> HIDE DEF v
    <3>3. /\ u.alias[K] = v(c).alias[K] /\ u.alias[F] = v(c).alias[F] /\ u.args[K] = v(c).args[K]
          /\ (K \in u.keys <=> K \in v(c).keys) /\ (F \in u.keys <=> F \in v(c).keys)
      BY <1>1, <3>2
    <3> QED
      BY <3>1, <3>3 DEF Observes
  <2>4. ASSUME Tokens = 0, NEW k \in Keys
        PROVE  u.args[k] = <<>>
    <3>1. u.args[k] = of(k).args[k]
      BY <1>1
    <3>2. CASE of(k) = t
      BY <2>4, <3>1, <3>2 DEF ResponsesView
    <3>3. CASE \E c \in told : k \in Own(c) /\ of(k) = after(c)
      <4>1. PICK c \in told : of(k) = after(c)
        BY <3>3
      <4>2. ResponsesView(after(c), item, style)
        BY <1>4
      <4> QED
        BY <2>4, <3>1, <4>1, <4>2 DEF ResponsesView
    <3> QED
      BY <1>6, <3>2, <3>3
  <2> QED
    BY <1>8, <2>2, <2>3, <2>4 DEF ResponsesView
<1> QED
  BY <1>9 DEF u

-----------------------------------------------------------------------------
(* The invariant.                                                          *)

LEMMA BridgeStarts == BridgeInit => BridgeInv
<1> SUFFICES ASSUME BridgeInit PROVE BridgeInv
  OBVIOUS
<1> USE DEF BridgeInit
<1>1. client \in Clients
  BY DEF Clients
<1>2. NewTracker \in Trackers /\ NewTracker.keys = {} /\ \A k \in Keys : NewTracker.alias[k] = k /\ NewTracker.args[k] = <<>>
  BY DEF NewTracker, Trackers
<1>3. Announced(item) = {} /\ \A c \in Calls : ~ FinalUsed(item[c], style) /\ item[c].announced = 0 /\ ~ item[c].done
  BY DEF Announced, FinalUsed
<1>4. Items(item) /\ EndsWhole(item, ended)
  BY <1>3, BridgeConstants DEF Items, EndsWhole, Progress
<1>5. held \in [Calls -> HeldCalls]
  BY BridgeConstants DEF HeldCalls, Indices
<1>6. Settled(client, tracker, {}, held)
  <2>1. Apart({}, held) /\ StartedOnce(client, {}, held) /\ HasArgs(client, {}, held)
    BY DEF Apart, StartedOnce, HasArgs
  <2>2. Recorded(tracker, {}, held)
    BY <1>2, KeyFacts DEF Recorded
  <2> QED
    BY <1>1, <1>2, <1>5, <2>1, <2>2 DEF Settled
<1>7. KnownIds(known, item, style)
  BY <1>3 DEF KnownIds
<1>8. Fed(client, out) = client /\ Observed(tracker, out) = tracker /\ Written(out)
  BY FedNone DEF Written
<1>9. ToldTheEnd(client, ended, known)
  BY DEF ToldTheEnd
<1>10. BridgeView
  BY <1>1, <1>3, <1>6, <1>7, <1>8, <1>9 DEF BridgeView, View, Indexed
<1>11. ResponsesView(tracker, item, style)
  <2>1. tracker = NewTracker
    OBVIOUS
  <2>2. tracker.keys = {} /\ \A k \in Keys : tracker.alias[k] = k /\ tracker.args[k] = <<>>
    BY <2>1, <1>2
  <2>3. \A c \in Calls : Observes(tracker, c, item[c], style)
    <3> SUFFICES ASSUME NEW c \in Calls PROVE Observes(tracker, c, item[c], style)
      OBVIOUS
    <3> DEFINE K == <<"call", c>>
               F == <<"item", <<c, "final">>>>
    <3>1. K \in Keys /\ F \in Keys
      BY KeyFacts
    <3>2. ~ FinalUsed(item[c], style) /\ item[c].announced = 0 /\ ~ item[c].done
      BY <1>3
    <3>3. tracker.alias[K] = K /\ tracker.alias[F] = F /\ K \notin tracker.keys /\ F \notin tracker.keys
      BY <2>2, <3>1
    <3> QED
      BY <3>2, <3>3 DEF Observes
  <2>4. tracker \in Trackers
    BY <1>2, <2>1
  <2> QED
    BY <2>2, <2>3, <2>4 DEF ResponsesView
<1> QED
  BY <1>1, <1>4, <1>10, <1>11 DEF BridgeInv

Endings == {"no", "eof", "broken", "completed", "[DONE]", "incomplete"}

\* An event of the provider, when the translator makes of it what the client will have
\* and the tracker what is recorded.
LEMMA Delivered ==
  ASSUME BridgeInv, NEW e, Deliver(e), Items(item'), EndsWhole(item', ended'),
         ended' \in Endings, ended' = "no" \/ ended' = e.type,
         Waits /\ out = <<>> /\ Translate(e) => View(client, tracker, out', held', known', item', style, ended'),
         ResponsesView(tracker, item, style) /\ ended' # "incomplete" =>
            ResponsesView(ObserveResponses(tracker, e), item', style)
  PROVE  BridgeInv'
<1>1. style' = style /\ mode' = mode /\ ended = "no"
  BY DEF Deliver
<1>2. CASE /\ mode = "bridge" /\ out = <<>> /\ pipe = "open"
           /\ Translate(e) /\ UNCHANGED <<handler, pipe, tracker, client, gone>>
  <2>1. Waits /\ handler # "completed"
    BY <1>1, <1>2 DEF BridgeInv, BridgeView, Waits
  <2>2. BridgeView'
    BY <2>1, <1>1, <1>2 DEF BridgeView
  <2> QED
    BY <2>1, <2>2, <1>1, <1>2 DEF BridgeInv, Endings
<1>3. CASE mode = "responses" /\ handler = "reading" /\ Pass(e)
  <2>1. ResponsesView(tracker, item, style) /\ client \in Clients
    BY <1>1, <1>3 DEF BridgeInv
  <2>2. CASE gone
    <3>1. handler' = "failed" /\ tracker' = tracker /\ client' = client
      BY <1>3, <2>2 DEF Pass
    <3> QED
      BY <3>1, <1>1, <1>3 DEF BridgeInv, Endings
  <2>3. CASE ~ gone
    <3>1. tracker' = ObserveResponses(tracker, e) /\ handler' = handler
          /\ client' = IF e.type = "completed" THEN [client EXCEPT !.done = TRUE] ELSE client
      BY <1>3, <2>3 DEF Pass
    <3>2. client' \in Clients /\ (e.type = "completed" => client'.done)
      BY <2>1, <3>1 DEF Clients
    <3>3. ended' # "incomplete" => ResponsesView(tracker', item', style')
      BY <1>1, <2>1, <3>1
    <3> QED
      BY <1>1, <1>3, <3>1, <3>2, <3>3 DEF BridgeInv, Endings
  <2> QED
    BY <2>2, <2>3
<1> QED
  BY <1>2, <1>3 DEF Deliver

\* A call the provider has announced is known to the translator.
LEMMA AnnouncedSeen ==
  ASSUME Waits, NEW c \in Announced(item)
  PROVE  Seen(c)
<1>1. KnownIds(known, item, style) /\ style.renames \in BOOLEAN
  BY Rested DEF Waits
<1>2. c \in Calls /\ item[c].announced > 0
  BY AnnouncedIsCall
<1>3. <<c, "announced">> \in known \/ <<c, "final">> \in known
  BY <1>1, <1>2 DEF KnownIds, FinalUsed
<1> QED
  BY <1>3 DEF Seen

LEMMA AddedKeeps ==
  ASSUME BridgeInv, NEW c \in Calls, Added(c)
  PROVE  BridgeInv'
<1>1. PICK whole \in BOOLEAN :
          /\ item[c].announced = 0
          /\ item' = [item EXCEPT ![c].announced = 1, ![c].sent = IF whole THEN Tokens ELSE 0]
          /\ Deliver(Event("added", c, IF whole THEN AllTokens ELSE <<>>))
  BY DEF Added
<1> DEFINE x == IF whole THEN AllTokens ELSE <<>>
           e == Event("added", c, x)
           n == IF whole THEN Tokens ELSE 0
           it == item'[c]
<1>2. ended = "no" /\ ended' = "no"
  BY <1>1 DEF Added, Deliver
<1>3. Items(item) /\ item \in [Calls -> Progress] /\ item[c] \in Progress /\ item[c].done = FALSE
      /\ style \in [indexed : BOOLEAN, renames : BOOLEAN]
  BY <1>1 DEF BridgeInv, Items, Progress
<1>4. Becomes(item, item', c, it)
  <2>1. item' \in [Calls -> Progress] /\ \A d \in Calls \ {c} : item'[d] = item[d]
    <3>1. n \in 0 .. Tokens /\ 1 \in 0..2
      BY BridgeConstants
    <3> HIDE DEF n
    <3> QED
      BY <1>1, <1>3, <3>1 DEF Progress, n
  <2> QED
    BY <2>1 DEF Becomes
<1>5. it.announced = 1 /\ it.done = FALSE /\ it.sent = n
  BY <1>1, <1>3 DEF Progress
<1> HIDE DEF it
<1>6. Items(item')
  BY <1>3, <1>4, <1>5, ItemsKept
<1>7. e.type = "added" /\ e.call = c /\ e.args = x /\ e.id = <<c, IF style.renames THEN "announced" ELSE "final">>
  BY DEF Event, Id
<1>8. ASSUME Waits, Translate(e)
      PROVE  View(client, tracker, out', held', known', item', style, ended')
  BY <1>1, <1>2, <1>4, <1>5, <1>8, AddedTranslated
<1>9. x \in Seq(Nat) /\ (Tokens = 0 => x = <<>>)
  BY FirstTokensFacts, BridgeConstants DEF AllTokens, FirstTokens
<1> HIDE DEF e, x
<1>10. ASSUME ResponsesView(tracker, item, style)
       PROVE  ResponsesView(ObserveResponses(tracker, e), item', style)
  <2>1. FinalUsed(it, style) <=> FinalUsed(item[c], style) \/ e.id = <<c, "final">>
    BY <1>1, <1>3, <1>5, <1>7 DEF FinalUsed
  <2>2. Tells(item, item', c, it, e.id, x, style)
    BY <1>4, <1>5, <1>7, <1>9, <2>1 DEF Tells
  <2>3. ObserveResponses(tracker, e) = ObserveItem(tracker, c, e.id, x)
    BY <1>7 DEF ObserveResponses
  <2> QED
    BY <1>10, <2>2, <2>3, ResponsesItem
<1>11. Deliver(e)
  BY <1>1 DEF e, x
<1>12. EndsWhole(item', ended') /\ ended' \in Endings
  BY <1>2 DEF EndsWhole, Endings
<1> QED
  BY <1>2, <1>6, <1>8, <1>10, <1>11, <1>12, Delivered

LEMMA AddedAgainKeeps ==
  ASSUME BridgeInv, NEW c \in Calls, AddedAgain(c)
  PROVE  BridgeInv'
<1> DEFINE e == [Event("added", c, <<>>) EXCEPT !.id = <<c, "final">>]
           it == item'[c]
<1>1. /\ style.renames /\ item[c].announced = 1 /\ item[c].sent = 0 /\ ~ item[c].done
      /\ item' = [item EXCEPT ![c].announced = 2]
      /\ Deliver(e)
  BY DEF AddedAgain
<1>2. ended = "no" /\ ended' = "no"
  BY DEF AddedAgain, Deliver
<1>3. Items(item) /\ item \in [Calls -> Progress] /\ item[c] \in Progress /\ item[c].sent \in 0 .. Tokens
      /\ item[c].announced \in 0 .. 2 /\ c \in Announced(item)
      /\ style \in [indexed : BOOLEAN, renames : BOOLEAN]
  BY <1>1 DEF BridgeInv, Items, Progress, Announced
<1>4. Becomes(item, item', c, it)
  <2>1. item' \in [Calls -> Progress] /\ \A d \in Calls \ {c} : item'[d] = item[d]
    <3>1. 2 \in 0 .. 2
      BY <1>1, <1>3, BridgeConstants
    <3> QED
      BY <1>1, <1>3, <3>1 DEF Progress
  <2> QED
    BY <2>1 DEF Becomes
<1>5. it.announced = 2 /\ it.done = item[c].done /\ it.sent = item[c].sent
  BY <1>1, <1>3 DEF Progress
<1> HIDE DEF it
<1>6. Items(item')
  <2>1. it.announced > 0 /\ (it.done => it.sent = Tokens)
    BY <1>1, <1>3, <1>5
  <2> QED
    BY <1>3, <1>4, <2>1, ItemsKept
<1>7. e.type = "added" /\ e.call = c /\ e.args = <<>> /\ e.id = <<c, "final">>
  BY DEF Event, Id
<1> HIDE DEF e
<1>8. ASSUME Waits, Translate(e)
      PROVE  View(client, tracker, out', held', known', item', style, ended')
  <2>1. Seen(e.call)
    BY <1>3, <1>7, <1>8, AnnouncedSeen
  <2>2. known' = known \cup {<<c, "final">>} /\ CompleteCall(e)
    BY <1>7, <1>8, <2>1 DEF Translate
  <2>3. FinalUsed(it, style) /\ it.announced > 0
    BY <1>1, <1>3, <1>5 DEF FinalUsed
  <2>4. \/ e.args = <<>> /\ item[c].sent = 0 /\ it.sent = 0
        \/ e.args = AllTokens /\ it.sent = Tokens
    BY <1>1, <1>5, <1>7
  <2> QED
    BY <1>2, <1>3, <1>4, <1>6, <1>7, <1>8, <2>2, <2>3, <2>4, HeardWhole
<1>9. <<>> \in Seq(Nat) /\ (Tokens = 0 => <<>> = <<>>)
  BY FirstTokensFacts, BridgeConstants DEF AllTokens, FirstTokens
<1>10. ASSUME ResponsesView(tracker, item, style)
       PROVE  ResponsesView(ObserveResponses(tracker, e), item', style)
  <2>1. FinalUsed(it, style) <=> FinalUsed(item[c], style) \/ e.id = <<c, "final">>
    BY <1>1, <1>3, <1>5, <1>7 DEF FinalUsed
  <2>2. it.announced > 0 /\ (it.done => <<>> = AllTokens)
    BY <1>1, <1>3, <1>5
  <2>3. Tells(item, item', c, it, e.id, <<>>, style)
    BY <1>4, <1>7, <1>9, <2>1, <2>2 DEF Tells
  <2>4. ObserveResponses(tracker, e) = ObserveItem(tracker, c, e.id, <<>>)
    BY <1>7 DEF ObserveResponses
  <2> QED
    BY <1>10, <2>3, <2>4, ResponsesItem
<1>11. EndsWhole(item', ended') /\ ended' \in Endings
  BY <1>2 DEF EndsWhole, Endings
<1> QED
  BY <1>1, <1>2, <1>6, <1>8, <1>10, <1>11, Delivered


LEMMA ItemDoneKeeps ==
  ASSUME BridgeInv, NEW c \in Calls, ItemDone(c)
  PROVE  BridgeInv'
<1> DEFINE e == Event("item_done", c, AllTokens)
           it == item'[c]
<1>1. /\ item[c].announced > 0 /\ ~ item[c].done
      /\ item' = [item EXCEPT ![c].done = TRUE, ![c].sent = Tokens]
      /\ Deliver(e)
  BY DEF ItemDone
<1>2. ended = "no" /\ ended' = "no"
  BY DEF ItemDone, Deliver
<1>3. Items(item) /\ item \in [Calls -> Progress] /\ item[c] \in Progress /\ item[c].sent \in 0 .. Tokens
      /\ item[c].announced \in 0 .. 2 /\ c \in Announced(item)
      /\ style \in [indexed : BOOLEAN, renames : BOOLEAN]
  BY <1>1 DEF BridgeInv, Items, Progress, Announced
<1>4. Becomes(item, item', c, it)
  <2>1. item' \in [Calls -> Progress] /\ \A d \in Calls \ {c} : item'[d] = item[d]
    <3>1. Tokens \in 0 .. Tokens
      BY <1>1, <1>3, BridgeConstants
    <3> QED
      BY <1>1, <1>3, <3>1 DEF Progress
  <2> QED
    BY <2>1 DEF Becomes
<1>5. it.announced = item[c].announced /\ it.done = TRUE /\ it.sent = Tokens
  BY <1>1, <1>3 DEF Progress
<1> HIDE DEF it
<1>6. Items(item')
  <2>1. it.announced > 0 /\ (it.done => it.sent = Tokens)
    BY <1>1, <1>3, <1>5
  <2> QED
    BY <1>3, <1>4, <2>1, ItemsKept
<1>7. e.type = "item_done" /\ e.call = c /\ e.args = AllTokens /\ e.id = <<c, "final">>
  BY DEF Event, Id
<1> HIDE DEF e
<1>8. ASSUME Waits, Translate(e)
      PROVE  View(client, tracker, out', held', known', item', style, ended')
  <2>1. Seen(e.call)
    BY <1>3, <1>7, <1>8, AnnouncedSeen
  <2>2. known' = known \cup {<<c, "final">>} /\ CompleteCall(e)
    BY <1>7, <1>8, <2>1 DEF Translate
  <2>3. FinalUsed(it, style) /\ it.announced > 0
    BY <1>1, <1>3, <1>5 DEF FinalUsed
  <2>4. \/ e.args = <<>> /\ item[c].sent = 0 /\ it.sent = 0
        \/ e.args = AllTokens /\ it.sent = Tokens
    BY <1>1, <1>5, <1>7
  <2> QED
    BY <1>2, <1>3, <1>4, <1>6, <1>7, <1>8, <2>2, <2>3, <2>4, HeardWhole
<1>9. AllTokens \in Seq(Nat) /\ (Tokens = 0 => AllTokens = <<>>)
  BY FirstTokensFacts, BridgeConstants DEF AllTokens, FirstTokens
<1>10. ASSUME ResponsesView(tracker, item, style)
       PROVE  ResponsesView(ObserveResponses(tracker, e), item', style)
  <2>1. FinalUsed(it, style) <=> FinalUsed(item[c], style) \/ e.id = <<c, "final">>
    BY <1>1, <1>3, <1>5, <1>7 DEF FinalUsed
  <2>2. it.announced > 0 /\ (it.done => AllTokens = AllTokens)
    BY <1>1, <1>3, <1>5
  <2>3. Tells(item, item', c, it, e.id, AllTokens, style)
    BY <1>4, <1>7, <1>9, <2>1, <2>2 DEF Tells
  <2>4. ObserveResponses(tracker, e) = ObserveItem(tracker, c, e.id, AllTokens)
    BY <1>7 DEF ObserveResponses
  <2> QED
    BY <1>10, <2>3, <2>4, ResponsesItem
<1>11. EndsWhole(item', ended') /\ ended' \in Endings
  BY <1>2 DEF EndsWhole, Endings
<1> QED
  BY <1>1, <1>2, <1>6, <1>8, <1>10, <1>11, Delivered

LEMMA DeltaKeeps ==
  ASSUME BridgeInv, NEW c \in Calls, Delta(c)
  PROVE  BridgeInv'
<1> DEFINE x == <<item[c].sent + 1>>
           e == Event("delta", c, x)
           it == item'[c]
<1>1. /\ item[c].announced > 0 /\ item[c].sent < Tokens /\ ~ item[c].told /\ ~ item[c].done
      /\ item' = [item EXCEPT ![c].sent = item[c].sent + 1]
      /\ Deliver(e)
  BY DEF Delta
<1>2. ended = "no" /\ ended' = "no"
  BY DEF Delta, Deliver
<1>3. Items(item) /\ item \in [Calls -> Progress] /\ item[c] \in Progress /\ item[c].sent \in 0 .. Tokens
      /\ item[c].announced \in 0 .. 2 /\ c \in Announced(item) /\ item[c].sent \in Nat
  BY <1>1, BridgeConstants DEF BridgeInv, Items, Progress, Announced
<1>4. Becomes(item, item', c, it)
  <2>1. item' \in [Calls -> Progress] /\ \A d \in Calls \ {c} : item'[d] = item[d]
    <3>1. item[c].sent + 1 \in 0 .. Tokens
      BY <1>1, <1>3, BridgeConstants
    <3> QED
      BY <1>1, <1>3, <3>1 DEF Progress
  <2> QED
    BY <2>1 DEF Becomes
<1>5. it.announced = item[c].announced /\ it.done = item[c].done /\ it.sent = item[c].sent + 1
  BY <1>1, <1>3 DEF Progress
<1> HIDE DEF it
<1>6. Items(item')
  <2>1. it.announced > 0 /\ (it.done => it.sent = Tokens)
    BY <1>1, <1>3, <1>5
  <2> QED
    BY <1>3, <1>4, <2>1, ItemsKept
<1>7. e.type = "delta" /\ e.call = c /\ e.args = x /\ e.id = <<c, "final">>
  BY DEF Event, Id
<1> HIDE DEF e
<1>8. ASSUME Waits, out = <<>>, Translate(e)
      PROVE  View(client, tracker, out', held', known', item', style, ended')
  <2>1. CASE <<c, "final">> \notin known
    <3>1. known' = known /\ held' = held /\ out' = <<>>
      BY <1>7, <1>8, <2>1 DEF Translate
    <3>2. item[c].sent <= it.sent /\ it.sent \in Nat
      BY <1>1, <1>3, <1>5, BridgeConstants
    <3> QED
      BY <1>2, <1>3, <1>4, <1>5, <1>8, <2>1, <3>1, <3>2, HeardNothing
  <2>2. CASE <<c, "final">> \in known
    <3>1. /\ known' = known
          /\ held' = [held EXCEPT ![c].args = held[c].args \o <<item[c].sent + 1>>]
          /\ out' = ArgsChunks(held[c].index, <<item[c].sent + 1>>)
      <4>1. /\ known' = known
            /\ held' = [held EXCEPT ![e.call].args = @ \o e.args]
            /\ out' = ArgsChunks(held[e.call].index, e.args)
        BY <1>7, <1>8, <2>2 DEF Translate
      <4>2. held \in [Calls -> HeldCalls]
        BY <1>8, Rested DEF Waits
      <4> HIDE DEF x
      <4>3. held' = [held EXCEPT ![c].args = held[c].args \o x]
        BY <1>7, <4>1, <4>2
      <4> QED
        BY <1>7, <4>1, <4>3 DEF x
    <3> QED
      BY <1>2, <1>3, <1>4, <1>5, <1>8, <2>2, <3>1, HeardToken
  <2> QED
    BY <2>1, <2>2
<1>9. x \in Seq(Nat) /\ (Tokens = 0 => x = <<>>)
  BY <1>1, <1>3
<1>10. ASSUME ResponsesView(tracker, item, style)
       PROVE  ResponsesView(ObserveResponses(tracker, e), item', style)
  <2>1. ObserveResponses(tracker, e) = remember(tracker, <<"item", <<c, "final">>>>, x, TRUE)
    BY <1>7 DEF ObserveResponses
  <2>3. it.done = FALSE /\ item[c].done = FALSE
    BY <1>1, <1>3, <1>5 DEF Progress
  <2>4. item[c].announced > 0 /\ it.announced = item[c].announced
    BY <1>1, <1>5
  <2> HIDE DEF x
  <2>5. ResponsesView(remember(tracker, <<"item", <<c, "final">>>>, x, TRUE), item', style)
    BY <1>4, <1>9, <1>10, <2>3, <2>4, ResponsesArgs
  <2> QED
    BY <2>1, <2>5
<1>11. EndsWhole(item', ended') /\ ended' \in Endings
  BY <1>2 DEF EndsWhole, Endings
<1> QED
  BY <1>1, <1>2, <1>6, <1>8, <1>10, <1>11, Delivered

LEMMA ArgsDoneKeeps ==
  ASSUME BridgeInv, NEW c \in Calls, ArgsDone(c)
  PROVE  BridgeInv'
<1> DEFINE x == AllTokens
           e == Event("args_done", c, x)
           it == item'[c]
<1>1. /\ item[c].announced > 0 /\ ~ item[c].told /\ ~ item[c].done
      /\ item' = [item EXCEPT ![c].told = TRUE, ![c].sent = Tokens]
      /\ Deliver(e)
  BY DEF ArgsDone
<1>2. ended = "no" /\ ended' = "no"
  BY DEF ArgsDone, Deliver
<1>3. Items(item) /\ item \in [Calls -> Progress] /\ item[c] \in Progress /\ item[c].sent \in 0 .. Tokens
      /\ item[c].announced \in 0 .. 2 /\ c \in Announced(item) /\ item[c].sent \in Nat
  BY <1>1, BridgeConstants DEF BridgeInv, Items, Progress, Announced
<1>4. Becomes(item, item', c, it)
  <2>1. item' \in [Calls -> Progress] /\ \A d \in Calls \ {c} : item'[d] = item[d]
    <3>1. Tokens \in 0 .. Tokens
      BY <1>1, <1>3, BridgeConstants
    <3> QED
      BY <1>1, <1>3, <3>1 DEF Progress
  <2> QED
    BY <2>1 DEF Becomes
<1>5. it.announced = item[c].announced /\ it.done = item[c].done /\ it.sent = Tokens
  BY <1>1, <1>3 DEF Progress
<1> HIDE DEF it
<1>6. Items(item')
  <2>1. it.announced > 0 /\ (it.done => it.sent = Tokens)
    BY <1>1, <1>3, <1>5
  <2> QED
    BY <1>3, <1>4, <2>1, ItemsKept
<1>7. e.type = "args_done" /\ e.call = c /\ e.args = x /\ e.id = <<c, "final">>
  BY DEF Event, Id
<1> HIDE DEF e
<1>8. ASSUME Waits, out = <<>>, Translate(e)
      PROVE  View(client, tracker, out', held', known', item', style, ended')
  <2>1. CASE <<c, "final">> \notin known
    <3>1. known' = known /\ held' = held /\ out' = <<>>
      BY <1>7, <1>8, <2>1 DEF Translate
    <3>2. item[c].sent <= it.sent /\ it.sent \in Nat
      BY <1>1, <1>3, <1>5, BridgeConstants
    <3> QED
      BY <1>2, <1>3, <1>4, <1>5, <1>8, <2>1, <3>1, <3>2, HeardNothing
  <2>2. CASE <<c, "final">> \in known
    <3>1. known' = known /\ CompleteCall(e)
      BY <1>7, <1>8, <2>2 DEF Translate
    <3>2. known' = known \cup {<<c, "final">>}
      BY <3>1, <2>2
    <3>3. KnownIds(known, item, style) /\ c \in Calls
      BY <1>8, Rested DEF Waits
    <3>4. FinalUsed(item[c], style)
      BY <2>2, <3>3 DEF KnownIds
    <3>5. FinalUsed(it, style) /\ it.announced > 0
      BY <3>4, <1>5 DEF FinalUsed
    <3>6. e.args = AllTokens /\ it.sent = Tokens
      BY <1>5, <1>7
    <3> QED
      BY <1>2, <1>3, <1>4, <1>6, <1>7, <1>8, <3>1, <3>2, <3>5, <3>6, HeardWhole
  <2> QED
    BY <2>1, <2>2
<1>9. x \in Seq(Nat) /\ (Tokens = 0 => x = <<>>)
  BY FirstTokensFacts, BridgeConstants DEF AllTokens, FirstTokens
<1>10. ASSUME ResponsesView(tracker, item, style)
       PROVE  ResponsesView(ObserveResponses(tracker, e), item', style)
  <2>1. ObserveResponses(tracker, e) = remember(tracker, <<"item", <<c, "final">>>>, x, FALSE)
    BY <1>7 DEF ObserveResponses
  <2>3. it.done = FALSE /\ item[c].done = FALSE
    BY <1>1, <1>3, <1>5 DEF Progress
  <2>4. item[c].announced > 0 /\ it.announced = item[c].announced
    BY <1>1, <1>5
  <2> HIDE DEF x
  <2>5. ResponsesView(remember(tracker, <<"item", <<c, "final">>>>, x, FALSE), item', style)
    BY <1>4, <1>9, <1>10, <2>3, <2>4, ResponsesArgs
  <2> QED
    BY <2>1, <2>5
<1>11. EndsWhole(item', ended') /\ ended' \in Endings
  BY <1>2 DEF EndsWhole, Endings
<1> QED
  BY <1>1, <1>2, <1>6, <1>8, <1>10, <1>11, Delivered

LEMMA EndsKeeps ==
  ASSUME BridgeInv, NEW how \in {"completed", "incomplete", "[DONE]"}, Ends(how)
  PROVE  BridgeInv'
<1> DEFINE e == [type |-> how]
<1>1. /\ ended = "no" /\ ended' = how /\ item' = item
      /\ how \in {"completed", "[DONE]"} => \A c \in Calls : item[c].announced > 0 => item[c].done
      /\ Deliver(e) /\ e.type = how
  BY DEF Ends
<1> HIDE DEF e
<1>2. Items(item)
  BY DEF BridgeInv
<1>3. how \in {"completed", "[DONE]"} => \A c \in Announced(item) : item[c].done
  BY <1>1 DEF Announced
<1>4. EndsWhole(item', ended') /\ ended' \in Endings /\ Items(item')
  BY <1>1, <1>2, <1>3 DEF EndsWhole, Endings
<1>5. ASSUME Waits, Translate(e)
      PROVE  View(client, tracker, out', held', known', item', style, ended')
  <2>1. known' = known /\ held' = held
    BY <1>1, <1>5 DEF Translate
  <2>2. out' = CallFinish \o <<Usage, DoneChunk>> \/ out' = CallFinish \o <<DoneChunk>>
    BY <1>1, <1>5 DEF Translate
  <2>3. View(client, tracker, <<>>, held, known, item, style, "no")
    BY <1>5 DEF Waits
  <2> QED
    BY <1>1, <2>1, <2>2, <2>3, ViewEnd
<1>6. ASSUME ResponsesView(tracker, item, style), ended' # "incomplete"
      PROVE  ResponsesView(ObserveResponses(tracker, e), item', style)
  <2>1. CASE how = "[DONE]"
    <3>1. ObserveResponses(tracker, e) = tracker
      BY <1>1, <2>1 DEF ObserveResponses
    <3> QED
      BY <3>1, <1>1, <1>2, <1>6
  <2>2. CASE how # "[DONE]"
    <3>1. ObserveResponses(tracker, e) = ObserveOutput(tracker)
      BY <1>1, <2>2 DEF ObserveResponses
    <3> QED
      BY <3>1, <1>1, <1>2, <1>3, <1>6, <2>2, ResponsesOutput
  <2> QED
    BY <2>1, <2>2
<1> QED
  BY <1>1, <1>4, <1>5, <1>6, Delivered

LEMMA TextKeeps ==
  ASSUME BridgeInv, Text
  PROVE  BridgeInv'
<1> DEFINE e == [type |-> "text"]
<1>1. item' = item /\ ended' = ended /\ Deliver(e) /\ e.type = "text"
  BY DEF Text
<1> HIDE DEF e
<1>2. ended = "no"
  BY <1>1 DEF Deliver
<1>3. Items(item') /\ EndsWhole(item', ended') /\ ended' \in Endings
  BY <1>1, <1>2 DEF BridgeInv, Endings
<1>4. ASSUME Waits, Translate(e)
      PROVE  View(client, tracker, out', held', known', item', style, ended')
  <2>1. known' = known /\ held' = held /\ out' = <<[kind |-> "text"]>>
    BY <1>1, <1>4 DEF Translate
  <2> QED
    BY <1>1, <1>2, <1>4, <2>1, ViewText DEF Waits
<1>5. ObserveResponses(tracker, e) = tracker
  BY <1>1 DEF ObserveResponses
<1> QED
  BY <1>1, <1>2, <1>3, <1>4, <1>5, Delivered

LEMMA BreaksKeeps ==
  ASSUME BridgeInv, Breaks
  PROVE  BridgeInv'
<1>1. /\ ended = "no" /\ mode \in {"bridge", "responses"} /\ out = <<>> /\ ended' \in {"eof", "broken"}
      /\ UNCHANGED <<mode, style, item, known, held, out, pipe, handler, tracker, client>>
  BY DEF Breaks
<1>2. EndsWhole(item', ended') /\ ended' \in Endings
  BY <1>1 DEF EndsWhole, Endings
<1>3. mode = "bridge" /\ pipe # "abandoned" => BridgeView'
  <2>1. ASSUME mode = "bridge", pipe # "abandoned"
        PROVE  View(client, tracker, <<>>, held, known, item, style, ended')
    <3>1. View(client, tracker, <<>>, held, known, item, style, "no")
      BY <1>1, <2>1 DEF BridgeInv, BridgeView
    <3> QED
      BY <1>1, <3>1, ViewBreaks
  <2> QED
    BY <1>1, <2>1 DEF BridgeView
<1> QED
  BY <1>1, <1>2, <1>3 DEF BridgeInv, Endings

LEMMA StartKeeps ==
  ASSUME BridgeInv, Start
  PROVE  BridgeInv'
<1>1. mode = "start" /\ mode' \in {"bridge", "responses", "refused"}
      /\ handler' = (IF mode' = "refused" THEN "failed" ELSE handler)
      /\ UNCHANGED <<provider, known, held, out, pipe, tracker, client, gone>>
  BY DEF Start, StartChatStream
<1>2. style' = style /\ item' = item /\ ended' = ended
  BY <1>1 DEF provider
<1>3. BridgeView /\ ended = "no" /\ out = <<>> /\ pipe = "open" /\ handler = "reading"
      /\ ResponsesView(tracker, item, style)
  BY <1>1 DEF BridgeInv
<1>4. BridgeView'
  BY <1>1, <1>2, <1>3 DEF BridgeView
<1>5. ResponsesView(tracker', item', style')
  BY <1>1, <1>2, <1>3
<1> QED
  BY <1>1, <1>2, <1>3, <1>4, <1>5 DEF BridgeInv

LEMMA ForwardKeeps ==
  ASSUME BridgeInv, Forward
  PROVE  BridgeInv'
<1>1. /\ mode = "bridge" /\ handler = "reading" /\ out # <<>> /\ pipe = "open"
      /\ UNCHANGED <<mode, provider, known, held>>
  BY DEF Forward
<1>2. style' = style /\ item' = item /\ ended' = ended
  BY <1>1 DEF provider
<1>3. BridgeView
  BY <1>1 DEF BridgeInv
<1>4. CASE gone
  <2>1. handler' = "failed" /\ pipe' = "closed_by_reader" /\ UNCHANGED <<out, tracker, client>>
    BY <1>1, <1>4 DEF Forward, LeaveBridge
  <2>2. BridgeView'
    BY <1>1, <1>2, <1>3, <2>1 DEF BridgeView
  <2> QED
    BY <1>1, <1>2, <2>1, <2>2 DEF BridgeInv
<1>5. CASE ~ gone
  <2>1. /\ tracker' = ObserveChat(tracker, Head(out)) /\ client' = Receive(client, Head(out))
        /\ out' = Tail(out) /\ UNCHANGED <<handler, pipe, gone>>
    BY <1>5 DEF Forward
  <2>2. View(Receive(client, Head(out)), ObserveChat(tracker, Head(out)), Tail(out), held, known, item, style, ended)
    BY <1>1, <1>3, ViewForward DEF BridgeView
  <2>3. BridgeView'
    BY <1>1, <1>2, <2>1, <2>2 DEF BridgeView
  <2>4. client' \in Clients
    BY <2>1, <2>2 DEF View
  <2> QED
    BY <1>1, <1>2, <2>1, <2>3, <2>4 DEF BridgeInv
<1> QED
  BY <1>4, <1>5

\* What is too late is too late for good.
LEMMA ReceivedLate ==
  ASSUME NEW w, NEW k, ~ Receive(w, k).late
  PROVE  ~ w.late
  BY DEF Receive

LEMMA FedLate ==
  ASSUME NEW w \in Clients, NEW o, ~ Fed(w, o).late
  PROVE  w.late = FALSE
<1>1. w.late \in BOOLEAN
  BY DEF Clients
<1>2. CASE Len(o) = 0
  BY <1>1, <1>2 DEF Fed
<1>3. CASE Len(o) = 1
  <2>1. ~ Receive(w, o[1]).late
    BY <1>3 DEF Fed
  <2> QED
    BY <1>1, <2>1, ReceivedLate
<1>4. CASE Len(o) = 2
  <2>1. ~ Receive(Receive(w, o[1]), o[2]).late
    BY <1>4 DEF Fed
  <2>2. ~ Receive(w, o[1]).late
    BY <2>1, ReceivedLate
  <2> QED
    BY <1>1, <2>2, ReceivedLate
<1>5. CASE Len(o) \notin {0, 1, 2}
  <2>1. ~ Receive(Receive(Receive(w, o[1]), o[2]), o[3]).late
    BY <1>5 DEF Fed
  <2>2. ~ Receive(Receive(w, o[1]), o[2]).late
    BY <2>1, ReceivedLate
  <2>3. ~ Receive(w, o[1]).late
    BY <2>2, ReceivedLate
  <2> QED
    BY <1>1, <2>3, ReceivedLate
<1> QED
  BY <1>2, <1>3, <1>4, <1>5

LEMMA CloseWriterKeeps ==
  ASSUME BridgeInv, CloseWriter
  PROVE  BridgeInv'
<1>1. /\ mode = "bridge" /\ out = <<>> /\ pipe = "open" /\ pipe' \in {"error", "closed"}
      /\ UNCHANGED <<mode, provider, known, held, out, handler, tracker, client, gone>>
  BY DEF CloseWriter
<1>2. style' = style /\ item' = item /\ ended' = ended
  BY <1>1 DEF provider
<1>3. BridgeView' /\ handler # "completed"
  BY <1>1, <1>2 DEF BridgeInv, BridgeView
<1> QED
  BY <1>1, <1>2, <1>3 DEF BridgeInv

LEMMA WriteFailsKeeps ==
  ASSUME BridgeInv, WriteFails
  PROVE  BridgeInv'
<1>1. /\ mode = "bridge" /\ pipe = "closed_by_reader" /\ pipe' = "abandoned" /\ out' = <<>>
      /\ UNCHANGED <<mode, provider, known, held, handler, tracker, client, gone>>
  BY DEF WriteFails
<1>2. style' = style /\ item' = item /\ ended' = ended
  BY <1>1 DEF provider
<1>3. BridgeView /\ out # <<>> /\ handler # "completed" /\ client \in Clients
  BY <1>1 DEF BridgeInv
<1>4. client.done = FALSE /\ Fed(client, out).late = FALSE
  BY <1>3 DEF BridgeView, View, ToldTheEnd, Clients
<1>5. client.late = FALSE
  BY <1>3, <1>4, FedLate
<1> QED
  BY <1>1, <1>2, <1>3, <1>4, <1>5 DEF BridgeInv

LEMMA EndsOfStreamKeep ==
  ASSUME BridgeInv, ReadEnd \/ PassEnd \/ ClientLeaves \/ UNCHANGED bridgeVars
  PROVE  BridgeInv'
<1>1. UNCHANGED <<mode, provider, known, held, out, pipe, tracker, client>>
  BY DEF ReadEnd, PassEnd, ClientLeaves, bridgeVars
<1>2. style' = style /\ item' = item /\ ended' = ended
  BY <1>1 DEF provider
<1>3. BridgeView' = BridgeView
  BY <1>1, <1>2 DEF BridgeView
<1>4. ResponsesView(tracker', item', style') = ResponsesView(tracker, item, style)
  BY <1>1, <1>2
<1>5. CASE ReadEnd
  <2>1. /\ mode = "bridge" /\ handler' = IF pipe = "closed" /\ client.done THEN "completed" ELSE "failed"
    BY <1>5 DEF ReadEnd
  <2> QED
    BY <1>1, <1>2, <1>3, <2>1 DEF BridgeInv
<1>6. CASE PassEnd
  <2>1. mode = "responses" /\ handler = "reading" /\ handler' \in {Outcome(ended), "failed"} /\ ended # "no"
    BY <1>6 DEF PassEnd
  <2>2. handler' = "completed" => ended \in {"completed", "[DONE]"}
    BY <2>1 DEF Outcome
  <2>3. handler' # "reading"
    BY <2>1 DEF Outcome
  <2> QED
    BY <1>1, <1>2, <1>3, <1>4, <2>1, <2>2, <2>3 DEF BridgeInv
<1>7. CASE ClientLeaves \/ UNCHANGED bridgeVars
  <2>1. handler' = handler
    BY <1>7 DEF ClientLeaves, bridgeVars
  <2> QED
    BY <1>1, <1>2, <1>3, <1>4, <2>1 DEF BridgeInv
<1> QED
  BY <1>5, <1>6, <1>7

LEMMA BridgeKeeps == BridgeInv /\ [BridgeNext]_bridgeVars => BridgeInv'
<1> SUFFICES ASSUME BridgeInv, [BridgeNext]_bridgeVars PROVE BridgeInv'
  OBVIOUS
<1>1. CASE Start
  BY <1>1, StartKeeps
<1>2. CASE \E c \in Calls : Added(c) \/ AddedAgain(c) \/ Delta(c) \/ ArgsDone(c) \/ ItemDone(c)
  BY <1>2, AddedKeeps, AddedAgainKeeps, DeltaKeeps, ArgsDoneKeeps, ItemDoneKeeps
<1>3. CASE \E how \in {"completed", "incomplete", "[DONE]"} : Ends(how)
  BY <1>3, EndsKeeps
<1>4. CASE Text
  BY <1>4, TextKeeps
<1>5. CASE Breaks
  BY <1>5, BreaksKeeps
<1>6. CASE Forward
  BY <1>6, ForwardKeeps
<1>7. CASE CloseWriter
  BY <1>7, CloseWriterKeeps
<1>8. CASE WriteFails
  BY <1>8, WriteFailsKeeps
<1>9. CASE ReadEnd \/ PassEnd \/ ClientLeaves \/ UNCHANGED bridgeVars
  BY <1>9, EndsOfStreamKeep
<1> QED
  BY <1>1, <1>2, <1>3, <1>4, <1>5, <1>6, <1>7, <1>8, <1>9 DEF BridgeNext, Passes

-----------------------------------------------------------------------------
(* What follows from it.                                                   *)

\* A whole answer is held whole.
LEMMA HeldWhole ==
  ASSUME BridgeView, BridgeInv, out = <<>>, client.done, ended # "incomplete"
  PROVE  /\ Settled(client, tracker, Announced(item), held)
         /\ \A c \in Announced(item) : c \in Calls /\ held[c].args = AllTokens
<1>1. /\ Settled(client, tracker, Announced(item), held) /\ ToldTheEnd(client, ended, known)
      /\ \A c \in Announced(item) : Holds(held[c], item[c], style)
  BY FedNone DEF BridgeView, View
<1>2. ended \in {"completed", "[DONE]"}
  BY <1>1 DEF ToldTheEnd, BridgeInv
<1>3. ASSUME NEW c \in Announced(item)
      PROVE  c \in Calls /\ held[c].args = AllTokens
  <2>1. c \in Calls /\ item[c].announced > 0
    BY AnnouncedIsCall
  <2>2. item[c].done /\ item[c].sent = Tokens
    BY <1>2, <2>1 DEF BridgeInv, EndsWhole, Items
  <2>3. FinalUsed(item[c], style)
    BY <2>1, <2>2 DEF FinalUsed
  <2> QED
    BY <1>1, <2>1, <2>2, <2>3 DEF Holds, AllTokens
<1> QED
  BY <1>1, <1>3

LEMMA StartedCount ==
  ASSUME NEW c \in Calls, StartedOnce(client, Announced(item), held)
  PROVE  Cardinality(Started(c)) = IF item[c].announced > 0 THEN 1 ELSE 0
<1>1. CASE item[c].announced > 0
  <2>1. c \in Announced(item)
    BY <1>1 DEF Announced
  <2>2. PICK i \in DOMAIN client.started : client.started[i][1] = c
    BY <2>1 DEF StartedOnce
  <2>3. Started(c) = {i}
    BY <2>2 DEF StartedOnce, Started
  <2> QED
    BY <1>1, <2>3, FS_Singleton
<1>2. CASE ~ (item[c].announced > 0)
  <2>1. c \notin Announced(item)
    BY <1>2 DEF Announced
  <2>2. Started(c) = {}
    BY <2>1 DEF StartedOnce, Started
  <2> QED
    BY <1>2, <2>2, FS_EmptySet
<1> QED
  BY <1>1, <1>2

LEMMA NoneKnown ==
  ASSUME KnownIds(known, item, style), style.renames \in BOOLEAN,
         StartedOnce(client, Announced(item), held), client \in Clients
  PROVE  known = {} <=> client.started = <<>>
<1>1. Announced(item) \subseteq Calls /\ \A c \in Calls : c \in Announced(item) <=> item[c].announced > 0
  BY DEF Announced
<1>2. ASSUME NEW id \in known
      PROVE  id[1] \in Announced(item)
  <2>1. id \in Ids /\ id[1] \in Calls /\ (id = <<id[1], "announced">> \/ id = <<id[1], "final">>)
    BY DEF KnownIds, Ids
  <2> QED
    BY <1>1, <2>1 DEF KnownIds, FinalUsed
<1>3. ASSUME NEW c \in Announced(item)
      PROVE  known # {}
  <2>1. c \in Calls /\ item[c].announced > 0
    BY <1>1
  <2>2. <<c, "announced">> \in known \/ <<c, "final">> \in known
    BY <2>1 DEF KnownIds, FinalUsed
  <2> QED
    BY <2>2
<1>4. known = {} <=> Announced(item) = {}
  BY <1>2, <1>3
<1>5. client.started \in Seq(Calls \X Indices)
  BY DEF Clients
<1>6. Announced(item) = {} <=> DOMAIN client.started = {}
  BY DEF StartedOnce
<1>7. DOMAIN client.started = {} <=> client.started = <<>>
  BY <1>5
<1> QED
  BY <1>4, <1>6, <1>7

LEMMA TheInvariantTellsTheClient == BridgeInv => ToolCallsReachTheClient
<1> SUFFICES ASSUME BridgeInv, mode = "bridge" PROVE ToolCallsReachTheClient
  BY DEF ToolCallsReachTheClient, ToolCallsWhole, FinishTold
<1>1. CASE pipe = "abandoned"
  BY <1>1 DEF BridgeInv, ToolCallsReachTheClient, ToolCallsWhole, FinishTold
<1>2. CASE pipe # "abandoned"
  <2>1. BridgeView /\ client \in Clients /\ style.renames \in BOOLEAN
    BY <1>2 DEF BridgeInv
  <2>2. Fed(client, out).late = FALSE /\ (client.done => out = <<>>)
    BY <2>1 DEF BridgeView, View, ToldTheEnd
  <2>3. ~ client.late
    BY <2>1, <2>2, FedLate
  <2>4. ASSUME client.done
        PROVE  /\ KnownIds(known, item, style)
               /\ StartedOnce(client, Announced(item), held) /\ ToldTheEnd(client, ended, known)
    BY <2>1, <2>2, <2>4, FedNone DEF BridgeView, View, Settled
  <2>5. client.done => client.finish = IF client.started = <<>> THEN 0 ELSE 1
    BY <2>1, <2>4, NoneKnown DEF ToldTheEnd
  <2>6. ASSUME client.done, ended # "incomplete", NEW c \in Calls
        PROVE  /\ Cardinality(Started(c)) = IF item[c].announced > 0 THEN 1 ELSE 0
               /\ \A i \in Started(c) :
                     /\ client.args[client.started[i][2]] = AllTokens
                     /\ \A j \in DOMAIN client.started :
                           client.started[j][2] = client.started[i][2] => j = i
    <3>1. /\ Settled(client, tracker, Announced(item), held)
          /\ \A d \in Announced(item) : d \in Calls /\ held[d].args = AllTokens
      BY <2>1, <2>2, <2>6, HeldWhole
    <3>2. /\ Apart(Announced(item), held) /\ StartedOnce(client, Announced(item), held)
          /\ HasArgs(client, Announced(item), held)
      BY <3>1 DEF Settled
    <3>3. Cardinality(Started(c)) = IF item[c].announced > 0 THEN 1 ELSE 0
      BY <3>2, StartedCount
    <3>4. ASSUME NEW i \in Started(c)
          PROVE  client.args[client.started[i][2]] = AllTokens
      <4>1. i \in DOMAIN client.started /\ client.started[i][1] = c
        BY DEF Started
      <4>2. c \in Announced(item) /\ client.started[i][2] = held[c].index
        BY <3>2, <4>1 DEF StartedOnce
      <4> QED
        BY <3>1, <3>2, <4>2 DEF HasArgs
    <3>5. ASSUME NEW i \in Started(c), NEW j \in DOMAIN client.started,
                 client.started[j][2] = client.started[i][2]
          PROVE  j = i
      <4>1. i \in DOMAIN client.started /\ client.started[i][1] = c
        BY DEF Started
      <4>2. /\ client.started[i][1] \in Announced(item) /\ client.started[j][1] \in Announced(item)
            /\ held[client.started[i][1]].index = held[client.started[j][1]].index
        BY <3>2, <3>5, <4>1 DEF StartedOnce
      <4>3. client.started[i][1] = client.started[j][1]
        BY <3>2, <4>2 DEF Apart
      <4> QED
        BY <3>2, <4>1, <4>3 DEF StartedOnce
    <3> QED
      BY <3>3, <3>4, <3>5
  <2>7. ToolCallsWhole
    BY <2>6 DEF ToolCallsWhole
  <2>8. FinishTold
    BY <2>3, <2>5 DEF FinishTold
  <2> QED
    BY <2>7, <2>8 DEF ToolCallsReachTheClient
<1> QED
  BY <1>1, <1>2

LEMMA TheInvariantTellsTheRecord == BridgeInv => RecordTellsTheCalls
<1> SUFFICES ASSUME BridgeInv, handler = "completed" PROVE RecordTellsTheCalls
  BY DEF RecordTellsTheCalls
<1>1. mode \in {"bridge", "responses"}
  BY DEF BridgeInv
<1>2. {d \in Calls : item[d].announced > 0} = Announced(item)
  BY DEF Announced
<1>3. CASE mode = "bridge"
  <2>1. pipe = "closed" /\ client.done /\ BridgeView
    BY <1>3 DEF BridgeInv
  <2>2. out = <<>>
    BY <2>1 DEF BridgeView, View
  <2>3. ASSUME ended # "incomplete"
        PROVE  /\ tracker.keys = {<<"call", c>> : c \in Announced(item)}
               /\ \A k \in tracker.keys : tracker.args[k] = AllTokens
    <3>1. /\ Settled(client, tracker, Announced(item), held)
          /\ \A c \in Announced(item) : c \in Calls /\ held[c].args = AllTokens
      BY <2>1, <2>2, <2>3, HeldWhole
    <3>2. Recorded(tracker, Announced(item), held)
      BY <3>1 DEF Settled
    <3> QED
      BY <3>1, <3>2 DEF Recorded
  <2> QED
    BY <1>2, <2>1, <2>3 DEF RecordTellsTheCalls
<1>4. CASE mode = "responses"
  <2>1. /\ ResponsesView(tracker, item, style) /\ ended \in {"completed", "[DONE]"}
        /\ ended = "completed" => client.done
    BY <1>4 DEF BridgeInv
  <2>2. /\ tracker.keys \subseteq UNION {Own(c) : c \in Calls}
        /\ \A c \in Calls : Observes(tracker, c, item[c], style)
    BY <2>1 DEF ResponsesView
  <2>3. ASSUME NEW c \in Announced(item)
        PROVE  c \in Calls /\ item[c].done /\ item[c].announced > 0 /\ FinalUsed(item[c], style)
    BY <2>1, AnnouncedIsCall DEF BridgeInv, EndsWhole, FinalUsed
  <2>4. ASSUME NEW k \in tracker.keys
        PROVE  \E c \in Announced(item) : k = <<"call", c>>
    <3>1. PICK c \in Calls : k \in Own(c)
      BY <2>2
    <3>2. k = <<"call", c>> \/ k = <<"item", <<c, "final">>>>
      BY <3>1 DEF Own
    <3>3. Observes(tracker, c, item[c], style)
      BY <2>2
    <3>4. item[c].announced > 0
      BY <3>2, <3>3 DEF Observes
    <3>5. c \in Announced(item)
      BY <3>4 DEF Announced
    <3> QED
      BY <3>2, <3>3, <3>5, <2>3 DEF Observes
  <2>5. \A c \in Announced(item) : <<"call", c>> \in tracker.keys /\ tracker.args[<<"call", c>>] = AllTokens
    BY <2>2, <2>3 DEF Observes
  <2>6. tracker.keys = {<<"call", c>> : c \in Announced(item)}
    BY <2>4, <2>5
  <2>7. \A k \in tracker.keys : tracker.args[k] = AllTokens
    BY <2>4, <2>5
  <2> QED
    BY <1>2, <2>1, <2>6, <2>7 DEF RecordTellsTheCalls
<1> QED
  BY <1>1, <1>3, <1>4

\* However the provider announces, splits, repeats or renames its tool calls, and whenever
\* it stops or the client leaves, a chat client that has been sent the end of a whole answer
\* holds every call once, under an index of its own and with all its arguments, and is told
\* in time that the turn ends in tool calls (gateway_stream_util.go:378-529, 591-618).
THEOREM TheClientHasItsCalls == BridgeSpec => []ToolCallsReachTheClient
<1>1. BridgeInit => BridgeInv
  BY BridgeStarts
<1>2. BridgeInv /\ [BridgeNext]_bridgeVars => BridgeInv'
  BY BridgeKeeps
<1>3. BridgeInv => ToolCallsReachTheClient
  BY TheInvariantTellsTheClient
<1> QED
  BY <1>1, <1>2, <1>3, PTL DEF BridgeSpec

\* A stream recorded as completed was sent to its end, and the record names the provider's
\* tool calls, each once and with its arguments, in either protocol
\* (gateway_tool_audit.go:62-260).
THEOREM TheRecordHasTheCalls == BridgeSpec => []RecordTellsTheCalls
<1>1. BridgeInit => BridgeInv
  BY BridgeStarts
<1>2. BridgeInv /\ [BridgeNext]_bridgeVars => BridgeInv'
  BY BridgeKeeps
<1>3. BridgeInv => RecordTellsTheCalls
  BY TheInvariantTellsTheRecord
<1> QED
  BY <1>1, <1>2, <1>3, PTL DEF BridgeSpec

=============================================================================
