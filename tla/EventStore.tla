------------------------------ MODULE EventStore ------------------------------
(***************************************************************************)
(* The in-memory event streams of the Governance Shell (stream.go): what   *)
(* executions publish, what the SSE handlers of GET .../events deliver.    *)
(* Every method of EventStore runs under its mutex and is one action here; *)
(* the channel of a handler is drained between them.                       *)
(*                                                                         *)
(* Nothing keeps the callers apart: executions of one session may overlap, *)
(* an old one may close the stream of a new one, and a follow-up turn may  *)
(* reopen a stream that is open (turns.go:107).                            *)
(***************************************************************************)
EXTENDS Naturals, Sequences, FiniteSets

CONSTANTS
  Sessions,
  Handlers,      (* the SSE requests, each for one session                   *)
  None,          (* no session yet                                           *)
  MaxReaders,    (* capacity of sseGlobalLimiter                             *)
  MaxHistory,    (* maxHistory                                               *)
  MinBuffer,     (* the least buffer size of a channel                       *)
  MaxClosed,     (* maxClosedSessionHistory                                  *)
  MaxTurns,      (* bound on the Reopens of a session                        *)
  MaxEvents      (* bound on the events of each session                      *)

ASSUME ConstantsAssumption ==
  /\ None \notin Sessions
  /\ {MaxReaders, MaxHistory, MinBuffer, MaxClosed} \subseteq Nat \ {0}
  /\ MaxTurns \in [Sessions -> Nat] /\ MaxEvents \in [Sessions -> Nat]

VARIABLES
  closed, closedOrder, history, chans,     (* the fields of EventStore       *)
  buffer, capacity, open,                  (* the channel of each handler    *)
  pc, watching, received,                  (* the handlers                   *)
  turn, published,                         (* history: per session, how many *)
                                           (* Reopens, how many events       *)
  base, turnOf, dropped, orphaned          (* history: per handler, events   *)
                                           (* before the replay, its turn,   *)
                                           (* a full buffer; and the         *)
                                           (* handlers a Reopen forgot       *)

streams  == <<closed, closedOrder, history, chans>>
channels == <<buffer, capacity, open>>
handlers == <<pc, watching, received>>
counts   == <<turn, published>>
fates    == <<base, turnOf, dropped, orphaned>>
vars     == <<streams, channels, handlers, counts, fates>>

EventTypes == {"stream", "error", "done"}

Events == [n : Nat \ {0}, turn : Nat, type : EventTypes]

Init ==
  /\ closed = {} /\ closedOrder = <<>>
  /\ history = [s \in Sessions |-> <<>>] /\ chans = [s \in Sessions |-> {}]
  /\ buffer = [x \in Handlers |-> <<>>] /\ capacity = [x \in Handlers |-> 0]
  /\ open = [x \in Handlers |-> FALSE]
  /\ pc = [x \in Handlers |-> "idle"] /\ watching = [x \in Handlers |-> None]
  /\ received = [x \in Handlers |-> 0]
  /\ turn = [s \in Sessions |-> 0] /\ published = [s \in Sessions |-> 0]
  /\ base = [x \in Handlers |-> 0] /\ turnOf = [x \in Handlers |-> 0]
  /\ dropped = {} /\ orphaned = {}

-----------------------------------------------------------------------------
Trim(q) == IF Len(q) > MaxHistory THEN SubSeq(q, Len(q) - MaxHistory + 1, Len(q)) ELSE q

(* Mutant: any last event is taken for the end of the stream.               *)
LastEventIsAny(q) == q # <<>>

LastEventIsDone(q) == q # <<>> /\ q[Len(q)].type = "done"

NextEvent(s, type) == [n |-> published[s] + 1, turn |-> turn[s], type |-> type]

(* appendHistoryLocked.                                                     *)
Recorded(s, type) == [history EXCEPT ![s] = Trim(Append(@, NextEvent(s, type)))]

(* The send to each subscriber does not block: a full channel drops it.     *)
Send(s, type) ==
  LET full == {x \in chans[s] : Len(buffer[x]) >= capacity[x]} IN
  /\ published[s] < MaxEvents[s]
  /\ published' = [published EXCEPT ![s] = @ + 1]
  /\ buffer' = [x \in Handlers |-> IF x \in chans[s] \ full THEN Append(buffer[x], NextEvent(s, type))
                                                           ELSE buffer[x]]
  /\ dropped' = dropped \cup full

Publish(s, type) ==
  /\ s \notin closed
  /\ Send(s, type)
  /\ history' = Recorded(s, type)
  /\ UNCHANGED <<closed, closedOrder, chans, capacity, open, handlers, turn, base, turnOf, orphaned>>

(* Mutant: the session stays in line for eviction.                          *)
UnlistNothing(s) == closedOrder' = closedOrder

(* The first entry of the session, if there is one, leaves the line.        *)
Unlist(s) ==
  LET at == {i \in DOMAIN closedOrder : closedOrder[i] = s} IN
  closedOrder' = IF at = {} THEN closedOrder
                 ELSE LET first == CHOOSE i \in at : \A j \in at : i <= j IN
                      [j \in 1 .. Len(closedOrder) - 1 |-> closedOrder[IF j < first THEN j ELSE j + 1]]

(* Mutant: the history of the last turn stays.                              *)
ReopenKeepsHistory(s) ==
  /\ turn[s] < MaxTurns[s] /\ turn' = [turn EXCEPT ![s] = @ + 1]
  /\ closed' = closed \ {s} /\ Unlist(s)
  /\ chans' = [chans EXCEPT ![s] = {}]
  /\ orphaned' = orphaned \cup chans[s]
  /\ UNCHANGED <<history, channels, handlers, published, base, turnOf, dropped>>

(* The subscribers of a stream that is still open are forgotten; their      *)
(* channels are not closed.                                                 *)
Reopen(s) ==
  /\ turn[s] < MaxTurns[s] /\ turn' = [turn EXCEPT ![s] = @ + 1]
  /\ closed' = closed \ {s} /\ Unlist(s)
  /\ history' = [history EXCEPT ![s] = <<>>]
  /\ chans' = [chans EXCEPT ![s] = {}]
  /\ orphaned' = orphaned \cup chans[s]
  /\ UNCHANGED <<channels, handlers, published, base, turnOf, dropped>>

-----------------------------------------------------------------------------
(* Mutant: the closed channels stay in the subscriber list.                 *)
CloseChannelsOnly(s) ==
  /\ open' = [x \in Handlers |-> open[x] /\ x \notin chans[s]]
  /\ chans' = chans

(* Mutant: the subscribers are left to the done event.                      *)
CloseListOnly(s) ==
  /\ open' = open
  /\ chans' = [chans EXCEPT ![s] = {}]

CloseChannels(s) ==
  /\ open' = [x \in Handlers |-> open[x] /\ x \notin chans[s]]
  /\ chans' = [chans EXCEPT ![s] = {}]

(* evictClosedHistoryLocked.  The order was within its bound before the     *)
(* new entry, so that one entry at most is over it, and the subscriber list *)
(* of a closed session is empty already.                                    *)
Evict(order, ended, kept) ==
  LET gone == IF Len(order) > MaxClosed THEN {order[1]} \cap ended ELSE {} IN
  /\ closedOrder' = IF Len(order) > MaxClosed THEN Tail(order) ELSE order
  /\ closed' = ended \ gone
  /\ history' = [t \in Sessions |-> IF t \in gone THEN <<>> ELSE kept[t]]

Close(s) ==
  LET told == LastEventIsDone(history[s]) IN
  /\ s \notin closed
  /\ IF told THEN UNCHANGED <<buffer, published, dropped>> ELSE Send(s, "done")
  /\ CloseChannels(s)
  /\ Evict(Append(closedOrder, s), closed \cup {s}, IF told THEN history ELSE Recorded(s, "done"))
  /\ UNCHANGED <<capacity, handlers, turn, base, turnOf, orphaned>>

-----------------------------------------------------------------------------
Reading == {x \in Handlers : pc[x] = "reading"}

(* The handler of x takes a slot of the limiter, which it holds until it    *)
(* returns, and subscribes: its channel starts with the stream's history.   *)
Subscribe(x, s) ==
  /\ pc[x] = "idle" /\ Cardinality({y \in Handlers : pc[y] \in {"reading", "leaving"}}) < MaxReaders
  /\ pc' = [pc EXCEPT ![x] = "reading"]
  /\ watching' = [watching EXCEPT ![x] = s]
  /\ buffer' = [buffer EXCEPT ![x] = history[s]]
  /\ capacity' = [capacity EXCEPT ![x] = IF Len(history[s]) > MinBuffer THEN Len(history[s]) ELSE MinBuffer]
  /\ open' = [open EXCEPT ![x] = s \notin closed]
  /\ chans' = IF s \in closed THEN chans ELSE [chans EXCEPT ![s] = @ \cup {x}]
  /\ base' = [base EXCEPT ![x] = published[s] - Len(history[s])]
  /\ turnOf' = [turnOf EXCEPT ![x] = turn[s]]
  /\ UNCHANGED <<closed, closedOrder, history, received, counts, dropped, orphaned>>

(* The handler writes the event to its client; "done" and "error" end it.   *)
Read(x) ==
  /\ pc[x] = "reading" /\ buffer[x] # <<>>
  /\ buffer' = [buffer EXCEPT ![x] = Tail(@)]
  /\ received' = [received EXCEPT ![x] = @ + 1]
  /\ pc' = [pc EXCEPT ![x] = IF buffer[x][1].type \in {"done", "error"} THEN "leaving" ELSE "reading"]
  /\ UNCHANGED <<streams, capacity, open, watching, counts, fates>>

(* The channel is closed and drained.                                       *)
ReadEnd(x) ==
  /\ pc[x] = "reading" /\ buffer[x] = <<>> /\ ~open[x]
  /\ pc' = [pc EXCEPT ![x] = "leaving"]
  /\ UNCHANGED <<streams, channels, watching, received, counts, fates>>

(* The client is gone: its context is done or a write to it fails.          *)
Disconnect(x) ==
  /\ pc[x] = "reading"
  /\ pc' = [pc EXCEPT ![x] = "leaving"]
  /\ UNCHANGED <<streams, channels, watching, received, counts, fates>>

(* The deferred Unsubscribe takes the channel from the list, if it is still *)
(* there, and closes it; the handler returns and its channel is garbage.    *)
Unsubscribe(x) ==
  /\ pc[x] = "leaving"
  /\ pc' = [pc EXCEPT ![x] = "ended"]
  /\ chans' = [chans EXCEPT ![watching[x]] = @ \ {x}]
  /\ open' = [open EXCEPT ![x] = FALSE]
  /\ buffer' = [buffer EXCEPT ![x] = <<>>] /\ capacity' = [capacity EXCEPT ![x] = 0]
  /\ watching' = [watching EXCEPT ![x] = None] /\ received' = [received EXCEPT ![x] = 0]
  /\ base' = [base EXCEPT ![x] = 0] /\ turnOf' = [turnOf EXCEPT ![x] = 0]
  /\ UNCHANGED <<closed, closedOrder, history, counts, dropped, orphaned>>

-----------------------------------------------------------------------------
Handle(x) == Read(x) \/ ReadEnd(x) \/ Unsubscribe(x)

Next ==
  \/ \E s \in Sessions : Reopen(s) \/ Close(s) \/ (\E type \in EventTypes : Publish(s, type))
  \/ \E x \in Handlers : Handle(x) \/ Disconnect(x) \/ (\E s \in Sessions : Subscribe(x, s))

Spec == Init /\ [][Next]_vars

(* A handler that can receive from its channel does, each write to its      *)
(* client has a deadline, and a deferred call runs.                         *)
Fairness == \A x \in Handlers : WF_vars(Handle(x))

FairSpec == Spec /\ Fairness

-----------------------------------------------------------------------------
(* No send on a closed channel and no second close, either of which would   *)
(* take the whole process down: what a subscriber list holds is the open    *)
(* channel of a handler of that session (stream.go:83-153).                 *)
ListedIsOpen ==
  \A s \in Sessions : \A x \in chans[s] :
    open[x] /\ watching[x] = s /\ pc[x] \in {"reading", "leaving"}

(* A handler whose buffer never was full delivers, from the history it was  *)
(* given at its subscription on, every event of one turn in the order of    *)
(* their publication (stream.go:62-126).                                    *)
NoGaps ==
  \A x \in Reading \ dropped :
    LET s == watching[x] IN
    /\ \A i \in DOMAIN buffer[x] :
         buffer[x][i].n = base[x] + received[x] + i /\ buffer[x][i].turn = turnOf[x]
    /\ x \in chans[s] => base[x] + received[x] + Len(buffer[x]) = published[s]

(* The closed sessions are those in line for eviction, each once, and no    *)
(* more than the bound: an open stream is never evicted (stream.go:113-166).*)
ClosedInLine ==
  /\ closed = {closedOrder[i] : i \in DOMAIN closedOrder}
  /\ Len(closedOrder) = Cardinality(closed) /\ Len(closedOrder) <= MaxClosed

(* A client that kept up is told that the stream ended, when it ends and    *)
(* when it subscribes after the end (stream.go:71-77, 137-141), and the     *)
(* store knows the ended streams by the line of its eviction.               *)
EndIsTold ==
  /\ \A x \in Reading \ dropped :
       ~open[x] => buffer[x] # <<>> /\ buffer[x][Len(buffer[x])].type = "done"
  /\ ClosedInLine

(* A handler that reads a stream when it is closed comes to an end, and     *)
(* with it its slot of the limiter, unless a Reopen forgot it.              *)
ReadersEnd ==
  \A x \in Handlers :
    pc[x] = "reading" /\ watching[x] \in closed ~> pc[x] = "ended" \/ x \in orphaned
=============================================================================
