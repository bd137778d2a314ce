--------------------------- MODULE EventStoreProofs ---------------------------
(* Proofs about EventStore, for any streams, handlers, sizes and bounds.     *)
EXTENDS EventStore, FiniteSetTheorems, TLAPS

(* What the methods of the store need to know of its lists and channels.     *)
ListTypes ==
  /\ chans \in [Sessions -> SUBSET Handlers]
  /\ open \in [Handlers -> BOOLEAN]
  /\ pc \in [Handlers -> {"idle", "reading", "leaving", "ended"}]
  /\ watching \in [Handlers -> Sessions \cup {None}]
  /\ \A x \in Handlers : pc[x] = "reading" => watching[x] \in Sessions

ListInv == ListTypes /\ ListedIsOpen

LEMMA InitListInv == Init => ListInv
  BY DEF Init, ListInv, ListTypes, ListedIsOpen

(* Each step keeps the lists and channels in agreement.  A handler that      *)
(* subscribes is in no list yet, and one that leaves is in the list of its   *)
(* own session only: both follow from the invariant.                         *)
LEMMA NextListInv == ListInv /\ [Next]_vars => ListInv'
<1> SUFFICES ASSUME ListInv, [Next]_vars PROVE ListInv'
  OBVIOUS
<1> USE DEF ListInv, ListTypes, ListedIsOpen
<1>1. ASSUME NEW s \in Sessions, NEW type \in EventTypes, Publish(s, type) PROVE ListInv'
  BY <1>1 DEF Publish, handlers
<1>2. ASSUME NEW s \in Sessions, Reopen(s) PROVE ListInv'
  BY <1>2 DEF Reopen, channels, handlers
<1>3. ASSUME NEW s \in Sessions, Close(s) PROVE ListInv'
  <2>1. /\ open' = [x \in Handlers |-> open[x] /\ x \notin chans[s]]
        /\ chans' = [chans EXCEPT ![s] = {}]
        /\ UNCHANGED <<pc, watching>>
    BY <1>3 DEF Close, CloseChannels, handlers
  <2>2. ListTypes'
    BY <2>1
  <2>3. ASSUME NEW t \in Sessions, NEW x \in chans'[t] PROVE open'[x] /\ t # s
    <3>1. t # s /\ x \in chans[t]
      BY <2>1, <2>3
    <3>2. x \in Handlers /\ watching[x] = t /\ open[x]
      BY <3>1
    <3>3. x \notin chans[s]
      BY <3>1, <3>2
    <3> QED
      BY <2>1, <3>1, <3>2, <3>3
  <2> QED
    BY <2>1, <2>2, <2>3
<1>4. ASSUME NEW x \in Handlers, NEW s \in Sessions, Subscribe(x, s) PROVE ListInv'
  <2>1. \A t \in Sessions : x \notin chans[t]
    BY <1>4 DEF Subscribe
  <2>2. /\ pc' = [pc EXCEPT ![x] = "reading"]
        /\ watching' = [watching EXCEPT ![x] = s]
        /\ open' = [open EXCEPT ![x] = s \notin closed]
        /\ chans' = IF s \in closed THEN chans ELSE [chans EXCEPT ![s] = @ \cup {x}]
    BY <1>4 DEF Subscribe
  <2>3. ListTypes'
    BY <2>2, (s \notin closed) \in BOOLEAN
  <2>4. ASSUME NEW t \in Sessions, NEW y \in chans'[t]
        PROVE open'[y] /\ watching'[y] = t /\ pc'[y] \in {"reading", "leaving"}
    <3>1. CASE y \in chans[t]
      <4>1. y \in Handlers /\ y # x
        BY <2>1, <3>1
      <4>2. open[y] /\ watching[y] = t /\ pc[y] \in {"reading", "leaving"}
        BY <3>1
      <4> QED
        BY <2>2, <4>1, <4>2
    <3>2. CASE y \notin chans[t]
      <4>1. y = x /\ t = s /\ s \notin closed
        BY <2>2, <2>4, <3>2
      <4> QED
        BY <2>2, <4>1
    <3> QED
      BY <3>1, <3>2
  <2> QED
    BY <2>3, <2>4
<1>5. ASSUME NEW x \in Handlers, Read(x) PROVE ListInv'
  BY <1>5 DEF Read, streams
<1>6. ASSUME NEW x \in Handlers, ReadEnd(x) \/ Disconnect(x) PROVE ListInv'
  BY <1>6 DEF ReadEnd, Disconnect, streams, channels
<1>7. ASSUME NEW x \in Handlers, Unsubscribe(x) PROVE ListInv'
  <2>1. \A t \in Sessions : x \in chans[t] => t = watching[x]
    OBVIOUS
  <2>2. \A t \in Sessions : x \notin chans'[t] /\ chans'[t] \subseteq chans[t]
    BY <1>7, <2>1 DEF Unsubscribe
  <2>3. \A y \in Handlers \ {x} : open'[y] = open[y] /\ pc'[y] = pc[y] /\ watching'[y] = watching[y]
    BY <1>7 DEF Unsubscribe
  <2>4. ListTypes'
    BY <1>7 DEF Unsubscribe
  <2>5. ListedIsOpen'
    BY <2>2, <2>3
  <2> QED
    BY <2>4, <2>5
<1>8. CASE UNCHANGED vars
  BY <1>8 DEF vars, streams, channels, handlers
<1> QED
  BY <1>1, <1>2, <1>3, <1>4, <1>5, <1>6, <1>7, <1>8 DEF Next, Handle

(* The shell never sends on a closed channel and never closes one twice      *)
(* (stream.go:83-153), whatever the callers do.                              *)
THEOREM ListedAlwaysOpen == Spec => []ListedIsOpen
<1>1. ListInv => ListedIsOpen
  BY DEF ListInv
<1> QED
  BY <1>1, InitListInv, NextListInv, PTL DEF Spec

-----------------------------------------------------------------------------
(* What a handler delivers, and what it is told at the end.                  *)

StoreTypes ==
  /\ history \in [Sessions -> Seq(Events)] /\ buffer \in [Handlers -> Seq(Events)]
  /\ published \in [Sessions -> Nat] /\ turn \in [Sessions -> Nat]
  /\ base \in [Handlers -> Nat] /\ received \in [Handlers -> Nat]
  /\ turnOf \in [Handlers -> Nat]
  /\ closed \in SUBSET Sessions /\ dropped \in SUBSET Handlers

(* A history is the last part of what was published, of the present turn.    *)
HistoryInv(s) ==
  /\ Len(history[s]) <= published[s]
  /\ \A i \in DOMAIN history[s] :
       history[s][i].n = published[s] - Len(history[s]) + i /\ history[s][i].turn = turn[s]
  /\ s \in closed => LastEventIsDone(history[s])

(* A subscriber that kept up is of the present turn and as far as the store. *)
UpToDate(x, s) ==
  /\ turnOf[x] = turn[s]
  /\ base[x] + received[x] + Len(buffer[x]) = published[s]
  /\ LastEventIsDone(history[s]) => LastEventIsDone(buffer[x])

ReaderInv(x) ==
  /\ pc[x] = "idle" => received[x] = 0
  /\ pc[x] = "reading" /\ x \notin dropped =>
       /\ \A i \in DOMAIN buffer[x] :
            buffer[x][i].n = base[x] + received[x] + i /\ buffer[x][i].turn = turnOf[x]
       /\ ~open[x] => LastEventIsDone(buffer[x])
       /\ \A s \in Sessions : x \in chans[s] => UpToDate(x, s)

DeliveryInv ==
  /\ ListInv /\ StoreTypes
  /\ \A s \in Sessions : HistoryInv(s)
  /\ \A x \in Handlers : ReaderInv(x)

(* The line of the ended streams holds each of them once.                    *)
LineInv ==
  /\ closedOrder \in Seq(Sessions) /\ Len(closedOrder) <= MaxClosed
  /\ closed = {closedOrder[i] : i \in DOMAIN closedOrder}
  /\ \A i, j \in DOMAIN closedOrder : closedOrder[i] = closedOrder[j] => i = j

LEMMA InitDeliveryInv == Init => DeliveryInv
<1> SUFFICES ASSUME Init PROVE DeliveryInv
  OBVIOUS
<1>1. ListInv
  BY InitListInv
<1>2. StoreTypes
  BY ConstantsAssumption DEF Init, StoreTypes
<1>3. ASSUME NEW s \in Sessions PROVE HistoryInv(s)
  BY <1>3 DEF Init, HistoryInv
<1>4. ASSUME NEW x \in Handlers PROVE ReaderInv(x)
  BY <1>4 DEF Init, ReaderInv
<1> QED
  BY <1>1, <1>2, <1>3, <1>4 DEF DeliveryInv

(* What appendHistoryLocked leaves: the new event is the last one, however   *)
(* much of the old history is cut off.                                       *)
LEMMA RecordedHistory ==
  ASSUME StoreTypes, NEW s \in Sessions, HistoryInv(s), NEW type \in EventTypes
  PROVE  LET h == Trim(Append(history[s], NextEvent(s, type))) IN
         /\ h \in Seq(Events) /\ Len(h) <= published[s] + 1
         /\ \A i \in DOMAIN h : h[i].n = published[s] + 1 - Len(h) + i /\ h[i].turn = turn[s]
         /\ h # <<>> /\ h[Len(h)].type = type
<1> DEFINE e == NextEvent(s, type)
           q == Append(history[s], e)
           h == Trim(q)
<1>1. e \in Events /\ e.n = published[s] + 1 /\ e.turn = turn[s] /\ e.type = type
  BY DEF StoreTypes, NextEvent, Events
<1>2. history[s] \in Seq(Events) /\ published[s] \in Nat
  BY DEF StoreTypes
<1> HIDE DEF e
<1>3. /\ q \in Seq(Events) /\ Len(q) = Len(history[s]) + 1 /\ q[Len(q)] = e
      /\ \A i \in 1 .. Len(history[s]) : q[i] = history[s][i]
  BY <1>1, <1>2
<1>4. Len(history[s]) \in Nat /\ Len(history[s]) <= published[s]
  BY <1>2 DEF HistoryInv
<1>5. ASSUME NEW i \in 1 .. Len(q)
      PROVE  q[i].n = published[s] + 1 - Len(q) + i /\ q[i].turn = turn[s]
  <2>1. CASE i = Len(q)
    <3>1. q[i] = e
      BY <1>3, <2>1
    <3>2. published[s] + 1 - Len(q) + i = published[s] + 1
      BY <1>2, <1>3, <1>4, <2>1
    <3> QED
      BY <1>1, <3>1, <3>2
  <2>2. CASE i # Len(q)
    <3>1. i \in 1 .. Len(history[s]) /\ q[i] = history[s][i]
      BY <1>3, <1>4, <2>2
    <3>2. q[i].n = published[s] - Len(history[s]) + i /\ q[i].turn = turn[s]
      BY <1>2, <3>1 DEF HistoryInv
    <3>3. published[s] - Len(history[s]) + i = published[s] + 1 - Len(q) + i
      BY <1>2, <1>3, <1>4
    <3> QED
      BY <3>1, <3>2, <3>3
  <2> QED
    BY <2>1, <2>2
<1> HIDE DEF q
<1>6. CASE ~ Len(q) > MaxHistory
  <2>1. h = q
    BY <1>6 DEF Trim
  <2>2. Len(q) <= published[s] + 1 /\ Len(q) \in Nat /\ Len(q) # 0
    BY <1>2, <1>3, <1>4
  <2>3. DOMAIN q = 1 .. Len(q) /\ q # <<>>
    BY <1>3, <2>2
  <2> HIDE DEF h
  <2>4. /\ h \in Seq(Events) /\ Len(h) <= published[s] + 1 /\ h # <<>> /\ h[Len(h)].type = type
        /\ \A i \in DOMAIN h : h[i].n = published[s] + 1 - Len(h) + i /\ h[i].turn = turn[s]
    BY <1>1, <1>3, <1>5, <2>1, <2>2, <2>3
  <2> QED
    BY <2>4 DEF e, q, h
<1>7. CASE Len(q) > MaxHistory
  <2>1. h = SubSeq(q, Len(q) - MaxHistory + 1, Len(q))
    BY <1>7 DEF Trim
  <2>2. MaxHistory \in Nat \ {0} /\ Len(q) \in Nat
    BY <1>3, ConstantsAssumption
  <2>3. /\ h \in Seq(Events) /\ Len(h) = MaxHistory
        /\ \A i \in 1 .. MaxHistory : h[i] = q[Len(q) - MaxHistory + i]
    BY <1>3, <1>7, <2>1, <2>2
  <2> HIDE DEF h
  <2>4. ASSUME NEW i \in 1 .. Len(h)
        PROVE  h[i].n = published[s] + 1 - Len(h) + i /\ h[i].turn = turn[s]
    <3>1. Len(q) - MaxHistory + i \in 1 .. Len(q) /\ h[i] = q[Len(q) - MaxHistory + i]
      BY <1>7, <2>2, <2>3
    <3>2. /\ h[i].n = published[s] + 1 - Len(q) + (Len(q) - MaxHistory + i)
          /\ h[i].turn = turn[s]
      BY <1>5, <3>1
    <3>3. Len(h) = MaxHistory /\ published[s] + 1 - Len(q) + (Len(q) - MaxHistory + i) = published[s] + 1 - MaxHistory + i
      BY <1>2, <2>2, <2>3
    <3> QED
      BY <3>2, <3>3
  <2>5. h # <<>> /\ h[Len(h)] = e
    BY <1>3, <2>2, <2>3
  <2>6. Len(h) <= published[s] + 1
    BY <1>2, <1>3, <1>4, <1>7, <2>2, <2>3
  <2>7. DOMAIN h = 1 .. Len(h)
    BY <2>3
  <2> QED
    BY <1>1, <2>3, <2>4, <2>5, <2>6, <2>7 DEF e, q, h
<1> QED
  BY <1>6, <1>7

(* A send that is not dropped is the next event of each subscriber that kept *)
(* up, and of nobody else.                                                   *)
LEMMA SentToSubscribers ==
  ASSUME DeliveryInv, NEW s \in Sessions, NEW type \in EventTypes, Send(s, type)
  PROVE  /\ buffer' \in [Handlers -> Seq(Events)] /\ published' \in [Sessions -> Nat]
         /\ dropped \subseteq dropped' /\ dropped' \subseteq Handlers
         /\ published'[s] = published[s] + 1
         /\ \A t \in Sessions \ {s} : published'[t] = published[t]
         /\ \A x \in Handlers \ chans[s] : buffer'[x] = buffer[x]
         /\ \A x \in chans[s] \ dropped' :
              /\ buffer'[x] = Append(buffer[x], NextEvent(s, type))
              /\ buffer'[x] # <<>> /\ buffer'[x][Len(buffer'[x])].type = type
<1> DEFINE full == {x \in chans[s] : Len(buffer[x]) >= capacity[x]}
           e == NextEvent(s, type)
<1>1. StoreTypes /\ chans[s] \subseteq Handlers
  BY DEF DeliveryInv, ListInv, ListTypes
<1>2. e \in Events /\ e.type = type
  BY <1>1 DEF StoreTypes, NextEvent, Events
<1>3. /\ published' = [published EXCEPT ![s] = @ + 1]
      /\ buffer' = [x \in Handlers |-> IF x \in chans[s] \ full THEN Append(buffer[x], e) ELSE buffer[x]]
      /\ dropped' = dropped \cup full
  BY DEF Send
<1>4. buffer \in [Handlers -> Seq(Events)] /\ published \in [Sessions -> Nat] /\ dropped \subseteq Handlers
  BY <1>1 DEF StoreTypes
<1> HIDE DEF e
<1>5. \A x \in Handlers : Append(buffer[x], e) \in Seq(Events)
  BY <1>2, <1>4
<1>6. ASSUME NEW x \in chans[s] \ dropped'
      PROVE  /\ buffer'[x] = Append(buffer[x], e)
             /\ buffer'[x] # <<>> /\ buffer'[x][Len(buffer'[x])].type = type
  <2>1. x \in Handlers /\ buffer'[x] = Append(buffer[x], e) /\ buffer[x] \in Seq(Events)
    BY <1>1, <1>3, <1>4
  <2> QED
    BY <1>2, <2>1
<1>7. \A x \in Handlers \ chans[s] : buffer'[x] = buffer[x]
  BY <1>3
<1>8. buffer' \in [Handlers -> Seq(Events)]
  BY <1>3, <1>4, <1>5
<1>9. dropped \subseteq dropped' /\ dropped' \subseteq Handlers
  BY <1>1, <1>3, <1>4
<1> HIDE DEF full
<1>10. /\ published' \in [Sessions -> Nat] /\ published'[s] = published[s] + 1
       /\ \A t \in Sessions \ {s} : published'[t] = published[t]
  BY <1>3, <1>4
<1> QED
  BY <1>6, <1>7, <1>8, <1>9, <1>10 DEF e

LEMMA ReadersFollow ==
  ASSUME DeliveryInv, NEW s \in Sessions, NEW type \in EventTypes, Send(s, type),
         NEW x \in Handlers, pc[x] = "reading", x \notin dropped'
  PROVE  /\ \A i \in DOMAIN buffer'[x] :
              buffer'[x][i].n = base[x] + received[x] + i /\ buffer'[x][i].turn = turnOf[x]
         /\ \A t \in Sessions : x \in chans[t] =>
              turnOf[x] = turn[t] /\ base[x] + received[x] + Len(buffer'[x]) = published'[t]
<1>1. StoreTypes /\ ReaderInv(x) /\ x \notin dropped
  BY SentToSubscribers DEF DeliveryInv
<1>2. /\ \A i \in DOMAIN buffer[x] :
           buffer[x][i].n = base[x] + received[x] + i /\ buffer[x][i].turn = turnOf[x]
      /\ \A t \in Sessions : x \in chans[t] =>
           turnOf[x] = turn[t] /\ base[x] + received[x] + Len(buffer[x]) = published[t]
  BY <1>1 DEF ReaderInv, UpToDate
<1>3. CASE x \notin chans[s]
  <2>1. buffer'[x] = buffer[x] /\ \A t \in Sessions \ {s} : published'[t] = published[t]
    BY <1>3, SentToSubscribers
  <2> QED
    BY <1>2, <1>3, <2>1
<1>4. CASE x \in chans[s]
  <2> DEFINE e == NextEvent(s, type)
  <2>1. buffer'[x] = Append(buffer[x], e) /\ published'[s] = published[s] + 1
    BY <1>4, SentToSubscribers
  <2>2. turnOf[x] = turn[s] /\ base[x] + received[x] + Len(buffer[x]) = published[s]
    BY <1>2, <1>4
  <2>3. e.n = published[s] + 1 /\ e.turn = turn[s]
    BY DEF NextEvent
  <2>9. base[x] \in Nat /\ received[x] \in Nat /\ published[s] \in Nat /\ turn[s] \in Nat
    BY <1>1 DEF StoreTypes
  <2>10. e \in Events
    BY <2>9 DEF NextEvent, Events
  <2>4. buffer[x] \in Seq(Events) /\ e \in Events
    BY <1>1, <2>10 DEF StoreTypes
  <2> HIDE DEF e
  <2>5. \A t \in Sessions : x \in chans[t] => t = s
    BY <1>4 DEF DeliveryInv, ListInv, ListedIsOpen
  <2>6. Len(buffer'[x]) = Len(buffer[x]) + 1 /\ Len(buffer[x]) \in Nat /\ DOMAIN buffer'[x] = 1 .. Len(buffer[x]) + 1
    BY <2>1, <2>4
  <2>7. ASSUME NEW i \in DOMAIN buffer'[x]
        PROVE  buffer'[x][i].n = base[x] + received[x] + i /\ buffer'[x][i].turn = turnOf[x]
    <3>1. CASE i \in DOMAIN buffer[x]
      <4>1. buffer'[x][i] = buffer[x][i]
        BY <2>1, <2>4, <3>1
      <4> QED
        BY <1>2, <3>1, <4>1
    <3>2. CASE i \notin DOMAIN buffer[x]
      <4>1. i = Len(buffer[x]) + 1
        BY <2>4, <2>6, <3>2
      <4>2. buffer'[x][i] = e
        BY <2>1, <2>4, <4>1
      <4>3. base[x] + received[x] + i = published[s] + 1
        BY <2>2, <2>6, <2>9, <4>1, SMTT(30)
      <4>4. e.n = published[s] + 1 /\ e.turn = turnOf[x]
        BY <2>2, <2>3
      <4> QED
        BY <4>2, <4>3, <4>4
    <3> QED
      BY <3>1, <3>2
  <2>8. base[x] + received[x] + Len(buffer'[x]) = published'[s]
    BY <2>1, <2>2, <2>6, <2>9
  <2> QED
    BY <2>2, <2>5, <2>7, <2>8
<1> QED
  BY <1>3, <1>4

LEMMA PublishKeepsDelivery ==
  ASSUME DeliveryInv, ListInv', NEW s \in Sessions, NEW type \in EventTypes, Publish(s, type)
  PROVE  DeliveryInv'
<1>1. /\ s \notin closed /\ Send(s, type) /\ history' = Recorded(s, type)
      /\ UNCHANGED <<closed, chans, open, pc, received, turn, base, turnOf>>
  BY DEF Publish, handlers
<1>2. StoreTypes /\ HistoryInv(s)
  BY DEF DeliveryInv
<1>3. /\ history'[s] \in Seq(Events) /\ Len(history'[s]) <= published[s] + 1
      /\ \A i \in DOMAIN history'[s] :
           history'[s][i].n = published[s] + 1 - Len(history'[s]) + i /\ history'[s][i].turn = turn[s]
      /\ history'[s] # <<>> /\ history'[s][Len(history'[s])].type = type
  <2> DEFINE h == Trim(Append(history[s], NextEvent(s, type)))
  <2>1. history'[s] = h
    BY <1>1, <1>2 DEF Recorded, StoreTypes
  <2>2. /\ h \in Seq(Events) /\ Len(h) <= published[s] + 1
        /\ \A i \in DOMAIN h : h[i].n = published[s] + 1 - Len(h) + i /\ h[i].turn = turn[s]
        /\ h # <<>> /\ h[Len(h)].type = type
    BY <1>2, RecordedHistory
  <2> HIDE DEF h
  <2> QED
    BY <2>1, <2>2
<1>4. history' \in [Sessions -> Seq(Events)] /\ \A t \in Sessions \ {s} : history'[t] = history[t]
  BY <1>1, <1>2, <1>3 DEF Recorded, StoreTypes
<1>5. /\ buffer' \in [Handlers -> Seq(Events)] /\ published' \in [Sessions -> Nat]
      /\ dropped \subseteq dropped' /\ dropped' \subseteq Handlers
      /\ published'[s] = published[s] + 1
      /\ \A t \in Sessions \ {s} : published'[t] = published[t]
  BY <1>1, SentToSubscribers
<1>6. StoreTypes'
  BY <1>1, <1>2, <1>4, <1>5 DEF StoreTypes
<1>7. ASSUME NEW t \in Sessions PROVE HistoryInv(t)'
  <2>1. CASE t = s
    <3>1. s \notin closed' /\ published'[s] = published[s] + 1 /\ turn'[s] = turn[s]
      BY <1>1, <1>5
    <3>2. Len(history'[s]) <= published'[s]
      BY <1>3, <3>1
    <3>3. ASSUME NEW i \in DOMAIN history'[s]
          PROVE  /\ history'[s][i].n = published'[s] - Len(history'[s]) + i
                 /\ history'[s][i].turn = turn'[s]
      <4>1. /\ history'[s][i].n = published[s] + 1 - Len(history'[s]) + i
            /\ history'[s][i].turn = turn[s]
        BY <1>3, <3>3
      <4>2. published[s] \in Nat /\ published'[s] = published[s] + 1
        BY <1>2, <3>1 DEF StoreTypes
      <4>3. Len(history'[s]) \in Nat /\ i \in Nat
        BY <1>3
      <4> QED
        BY <3>1, <4>1, <4>2, <4>3, SMTT(30)
    <3> QED
      BY <2>1, <3>1, <3>2, <3>3 DEF HistoryInv
  <2>2. CASE t # s
    <3>1. /\ history'[t] = history[t] /\ published'[t] = published[t] /\ turn'[t] = turn[t]
          /\ closed' = closed
      BY <1>1, <1>4, <1>5, <2>2
    <3>2. HistoryInv(t)
      BY DEF DeliveryInv
    <3> QED
      BY <3>1, <3>2 DEF HistoryInv, LastEventIsDone
  <2> QED
    BY <2>1, <2>2
<1>8. ASSUME NEW x \in Handlers PROVE ReaderInv(x)'
  <2>1. ReaderInv(x)
    BY DEF DeliveryInv
  <2>2. CASE pc[x] = "reading" /\ x \notin dropped'
    <3>1. /\ \A i \in DOMAIN buffer'[x] :
               buffer'[x][i].n = base[x] + received[x] + i /\ buffer'[x][i].turn = turnOf[x]
          /\ \A t \in Sessions : x \in chans[t] =>
               turnOf[x] = turn[t] /\ base[x] + received[x] + Len(buffer'[x]) = published'[t]
      BY <1>1, <2>2, ReadersFollow
    <3>2. x \notin dropped
      BY <1>5, <2>2
    <3>3. ~ open[x] => LastEventIsDone(buffer'[x])
      <4>1. SUFFICES ASSUME ~ open[x] PROVE LastEventIsDone(buffer'[x])
        OBVIOUS
      <4>2. x \notin chans[s]
        BY <4>1 DEF DeliveryInv, ListInv, ListedIsOpen
      <4>3. buffer'[x] = buffer[x]
        BY <1>1, <4>2, SentToSubscribers
      <4> QED
        BY <2>1, <2>2, <3>2, <4>1, <4>3 DEF ReaderInv
    <3>4. ASSUME NEW t \in Sessions, x \in chans[t], LastEventIsDone(history'[t])
          PROVE  LastEventIsDone(buffer'[x])
      <4>1. CASE t = s
        <5>1. type = "done"
          BY <1>3, <3>4, <4>1 DEF LastEventIsDone
        <5>2. buffer'[x] # <<>> /\ buffer'[x][Len(buffer'[x])].type = type
          BY <1>1, <2>2, <3>4, <4>1, SentToSubscribers
        <5> QED
          BY <5>1, <5>2 DEF LastEventIsDone
      <4>2. CASE t # s
        <5>1. x \notin chans[s]
          BY <3>4, <4>2 DEF DeliveryInv, ListInv, ListedIsOpen
        <5>2. buffer'[x] = buffer[x] /\ history'[t] = history[t]
          BY <1>1, <1>4, <4>2, <5>1, SentToSubscribers
        <5> QED
          BY <2>1, <2>2, <3>2, <3>4, <5>2 DEF ReaderInv, UpToDate
      <4> QED
        BY <4>1, <4>2
    <3>5. ASSUME NEW t \in Sessions, x \in chans'[t] PROVE UpToDate(x, t)'
      BY <1>1, <3>1, <3>4, <3>5 DEF UpToDate
    <3> QED
      BY <1>1, <2>1, <3>1, <3>3, <3>5 DEF ReaderInv
  <2>3. CASE ~ (pc[x] = "reading" /\ x \notin dropped')
    BY <1>1, <2>1, <2>3 DEF ReaderInv
  <2> QED
    BY <2>2, <2>3
<1> QED
  BY <1>6, <1>7, <1>8 DEF DeliveryInv

LEMMA ReopenKeepsDelivery ==
  ASSUME DeliveryInv, ListInv', NEW s \in Sessions, Reopen(s)
  PROVE  DeliveryInv'
<1>1. /\ turn[s] < MaxTurns[s] /\ turn' = [turn EXCEPT ![s] = @ + 1] /\ closed' = closed \ {s}
      /\ history' = [history EXCEPT ![s] = <<>>] /\ chans' = [chans EXCEPT ![s] = {}]
      /\ UNCHANGED <<buffer, open, pc, received, published, base, turnOf, dropped>>
  BY DEF Reopen, channels, handlers
<1>2. StoreTypes /\ ListTypes
  BY DEF DeliveryInv, ListInv
<1>3. StoreTypes'
  <2>1. turn[s] + 1 \in Nat
    BY <1>2 DEF StoreTypes
  <2> QED
    BY <1>1, <1>2, <2>1 DEF StoreTypes
<1>4. ASSUME NEW t \in Sessions PROVE HistoryInv(t)'
  <2>1. CASE t = s
    BY <1>1, <1>2, <2>1 DEF HistoryInv, StoreTypes
  <2>2. CASE t # s
    BY <1>1, <1>2, <2>2 DEF HistoryInv, StoreTypes, DeliveryInv, LastEventIsDone
  <2> QED
    BY <2>1, <2>2
<1>5. ASSUME NEW x \in Handlers PROVE ReaderInv(x)'
  <2>1. ReaderInv(x)
    BY DEF DeliveryInv
  <2>2. ASSUME NEW t \in Sessions, x \in chans'[t], UpToDate(x, t) PROVE UpToDate(x, t)'
    <3>1. t # s
      BY <1>1, <1>2, <2>2 DEF ListTypes
    <3> QED
      BY <1>1, <1>2, <2>2, <3>1 DEF UpToDate, LastEventIsDone, StoreTypes
  <2>3. \A t \in Sessions : chans'[t] \subseteq chans[t]
    BY <1>1, <1>2 DEF ListTypes
  <2> QED
    BY <1>1, <2>1, <2>2, <2>3 DEF ReaderInv, LastEventIsDone
<1> QED
  BY <1>3, <1>4, <1>5 DEF DeliveryInv

(* The end of a stream: whoever kept up has the done event last in its       *)
(* channel, from the executor or from Close.                                 *)
LEMMA CloseKeepsDelivery ==
  ASSUME DeliveryInv, ListInv', NEW s \in Sessions, Close(s)
  PROVE  DeliveryInv'
<1> DEFINE told == LastEventIsDone(history[s])
           kept == IF told THEN history ELSE Recorded(s, "done")
           order == Append(closedOrder, s)
           gone == IF Len(order) > MaxClosed THEN {order[1]} \cap (closed \cup {s}) ELSE {}
<1>1. /\ s \notin closed
      /\ IF told THEN UNCHANGED <<buffer, published, dropped>> ELSE Send(s, "done")
      /\ open' = [x \in Handlers |-> open[x] /\ x \notin chans[s]]
      /\ chans' = [chans EXCEPT ![s] = {}]
      /\ closed' = (closed \cup {s}) \ gone
      /\ history' = [t \in Sessions |-> IF t \in gone THEN <<>> ELSE kept[t]]
      /\ UNCHANGED <<pc, received, turn, base, turnOf>>
  BY DEF Close, CloseChannels, Evict, handlers
<1>2. StoreTypes /\ ListTypes /\ HistoryInv(s)
  BY DEF DeliveryInv, ListInv
<1>3. /\ kept[s] \in Seq(Events) /\ Len(kept[s]) <= published'[s] /\ LastEventIsDone(kept[s])
      /\ \A i \in DOMAIN kept[s] :
           kept[s][i].n = published'[s] - Len(kept[s]) + i /\ kept[s][i].turn = turn[s]
  <2>1. CASE told
    <3>1. kept[s] = history[s] /\ published' = published
      BY <1>1, <2>1
    <3> QED
      BY <1>2, <2>1, <3>1 DEF HistoryInv, StoreTypes
  <2>2. CASE ~ told
    <3> DEFINE h == Trim(Append(history[s], NextEvent(s, "done")))
    <3>1. kept[s] = h
      BY <1>2, <2>2 DEF Recorded, StoreTypes
    <3>2. /\ h \in Seq(Events) /\ Len(h) <= published[s] + 1
          /\ \A i \in DOMAIN h : h[i].n = published[s] + 1 - Len(h) + i /\ h[i].turn = turn[s]
          /\ h # <<>> /\ h[Len(h)].type = "done"
      <4>1. "done" \in EventTypes
        BY DEF EventTypes
      <4> QED
        BY <1>2, <4>1, RecordedHistory
    <3>3. published'[s] = published[s] + 1
      BY <1>1, <2>2, SentToSubscribers DEF EventTypes
    <3> HIDE DEF h, kept
    <3>4. published[s] \in Nat /\ Len(h) \in Nat
      BY <1>2, <3>2 DEF StoreTypes
    <3>5. ASSUME NEW i \in DOMAIN h
          PROVE  h[i].n = published'[s] - Len(h) + i /\ h[i].turn = turn[s]
      <4>1. h[i].n = published[s] + 1 - Len(h) + i /\ i \in Nat /\ h[i].turn = turn[s]
        BY <3>2
      <4> QED
        BY <3>3, <3>4, <4>1
    <3> QED
      BY <3>1, <3>2, <3>3, <3>5 DEF LastEventIsDone
  <2> QED
    BY <2>1, <2>2
<1>4. kept \in [Sessions -> Seq(Events)] /\ \A t \in Sessions \ {s} : kept[t] = history[t]
  BY <1>2, <1>3 DEF Recorded, StoreTypes
<1>5. /\ buffer' \in [Handlers -> Seq(Events)] /\ published' \in [Sessions -> Nat]
      /\ dropped \subseteq dropped' /\ dropped' \subseteq Handlers
      /\ \A t \in Sessions \ {s} : published'[t] = published[t]
      /\ \A x \in Handlers \ chans[s] : buffer'[x] = buffer[x]
  <2>1. CASE told
    BY <1>1, <1>2, <2>1 DEF StoreTypes
  <2>2. CASE ~ told
    BY <1>1, <2>2, SentToSubscribers DEF EventTypes
  <2> QED
    BY <2>1, <2>2
<1>6. ASSUME NEW x \in Handlers, pc[x] = "reading", x \notin dropped'
      PROVE  /\ \A i \in DOMAIN buffer'[x] :
                  buffer'[x][i].n = base[x] + received[x] + i /\ buffer'[x][i].turn = turnOf[x]
             /\ \A t \in Sessions : x \in chans[t] =>
                  turnOf[x] = turn[t] /\ base[x] + received[x] + Len(buffer'[x]) = published'[t]
             /\ x \in chans[s] => LastEventIsDone(buffer'[x])
  <2>1. CASE told
    <3>1. buffer' = buffer /\ published' = published /\ dropped' = dropped
      BY <1>1, <2>1
    <3>2. ReaderInv(x)
      BY DEF DeliveryInv
    <3> QED
      BY <1>6, <2>1, <3>1, <3>2 DEF ReaderInv, UpToDate
  <2>2. CASE ~ told
    <3>1. Send(s, "done") /\ "done" \in EventTypes
      BY <1>1, <2>2 DEF EventTypes
    <3>2. x \in chans[s] => LastEventIsDone(buffer'[x])
      BY <1>6, <3>1, SentToSubscribers DEF LastEventIsDone
    <3> QED
      BY <1>6, <3>1, <3>2, ReadersFollow
  <2> QED
    BY <2>1, <2>2
<1>7. \A t \in Sessions : history'[t] = IF t \in gone THEN <<>> ELSE kept[t]
  BY <1>1
<1> HIDE DEF kept, gone, told
<1>8. StoreTypes'
  <2>1. history' \in [Sessions -> Seq(Events)]
    BY <1>1, <1>4
  <2>2. closed' \in SUBSET Sessions
    BY <1>1, <1>2 DEF StoreTypes
  <2> QED
    BY <1>1, <1>2, <1>5, <2>1, <2>2 DEF StoreTypes
<1>9. ASSUME NEW t \in Sessions PROVE HistoryInv(t)'
  <2>1. CASE t \in gone
    <3>1. history'[t] = <<>> /\ t \notin closed' /\ published'[t] \in Nat
      BY <1>1, <1>5, <1>7, <2>1
    <3> QED
      BY <3>1 DEF HistoryInv
  <2>2. CASE t \notin gone /\ t = s
    BY <1>1, <1>3, <1>7, <2>2 DEF HistoryInv, LastEventIsDone
  <2>3. CASE t \notin gone /\ t # s
    <3>1. /\ history'[t] = history[t] /\ published'[t] = published[t] /\ turn'[t] = turn[t]
          /\ t \in closed' => t \in closed
      BY <1>1, <1>4, <1>5, <1>7, <2>3
    <3>2. HistoryInv(t)
      BY DEF DeliveryInv
    <3> QED
      BY <3>1, <3>2 DEF HistoryInv, LastEventIsDone
  <2> QED
    BY <2>1, <2>2, <2>3
<1>10. ASSUME NEW x \in Handlers PROVE ReaderInv(x)'
  <2>1. ReaderInv(x)
    BY DEF DeliveryInv
  <2>2. CASE pc[x] = "reading" /\ x \notin dropped'
    <3>1. x \notin dropped
      BY <1>5, <2>2
    <3>2. ASSUME ~ open'[x] PROVE LastEventIsDone(buffer'[x])
      <4>1. CASE x \in chans[s]
        BY <1>6, <2>2, <4>1
      <4>2. CASE x \notin chans[s]
        <5>1. ~ open[x] /\ buffer'[x] = buffer[x]
          BY <1>1, <1>5, <3>2, <4>2
        <5> QED
          BY <2>1, <2>2, <3>1, <5>1 DEF ReaderInv
      <4> QED
        BY <4>1, <4>2
    <3>3. ASSUME NEW t \in Sessions, x \in chans'[t] PROVE UpToDate(x, t)'
      <4>1. t # s /\ x \in chans[t]
        BY <1>1, <1>2, <3>3 DEF ListTypes
      <4>2. x \notin chans[s]
        BY <4>1 DEF DeliveryInv, ListInv, ListedIsOpen
      <4>3. buffer'[x] = buffer[x] /\ (history'[t] = history[t] \/ history'[t] = <<>>)
        BY <1>4, <1>5, <1>7, <4>1, <4>2
      <4>4. LastEventIsDone(history'[t]) => LastEventIsDone(buffer'[x])
        BY <2>1, <2>2, <3>1, <4>1, <4>3 DEF ReaderInv, UpToDate, LastEventIsDone
      <4> QED
        BY <1>1, <1>6, <2>2, <4>1, <4>4 DEF UpToDate
    <3> QED
      BY <1>1, <1>6, <2>1, <2>2, <3>2, <3>3 DEF ReaderInv
  <2>3. CASE ~ (pc[x] = "reading" /\ x \notin dropped')
    BY <1>1, <2>1, <2>3 DEF ReaderInv
  <2> QED
    BY <2>2, <2>3
<1> QED
  BY <1>8, <1>9, <1>10 DEF DeliveryInv

(* A handler that subscribes is given the history, and is told at once if    *)
(* the stream is over.                                                       *)
LEMMA SubscribeKeepsDelivery ==
  ASSUME DeliveryInv, ListInv', NEW x \in Handlers, NEW s \in Sessions, Subscribe(x, s)
  PROVE  DeliveryInv'
<1>1. /\ pc[x] = "idle" /\ pc' = [pc EXCEPT ![x] = "reading"]
      /\ buffer' = [buffer EXCEPT ![x] = history[s]]
      /\ open' = [open EXCEPT ![x] = s \notin closed]
      /\ chans' = IF s \in closed THEN chans ELSE [chans EXCEPT ![s] = @ \cup {x}]
      /\ base' = [base EXCEPT ![x] = published[s] - Len(history[s])]
      /\ turnOf' = [turnOf EXCEPT ![x] = turn[s]]
      /\ UNCHANGED <<closed, history, received, turn, published, dropped>>
  BY DEF Subscribe, counts
<1>2. StoreTypes /\ ListTypes /\ HistoryInv(s) /\ ReaderInv(x)
  BY DEF DeliveryInv, ListInv
<1>3. history[s] \in Seq(Events) /\ published[s] \in Nat /\ received[x] = 0 /\ Len(history[s]) \in Nat
  BY <1>1, <1>2 DEF StoreTypes, ReaderInv
<1>4. published[s] - Len(history[s]) \in Nat
  BY <1>2, <1>3 DEF HistoryInv
<1>5. StoreTypes'
  BY <1>1, <1>2, <1>3, <1>4 DEF StoreTypes
<1>6. ASSUME NEW t \in Sessions PROVE HistoryInv(t)'
  BY <1>1 DEF DeliveryInv, HistoryInv, LastEventIsDone
<1>7. ReaderInv(x)'
  <2>1. /\ pc'[x] = "reading" /\ buffer'[x] = history[s] /\ open'[x] = (s \notin closed)
        /\ base'[x] = published[s] - Len(history[s]) /\ received'[x] = 0 /\ turnOf'[x] = turn[s]
    BY <1>1, <1>2, <1>3 DEF StoreTypes, ListTypes
  <2>2. ASSUME NEW i \in DOMAIN buffer'[x]
        PROVE  buffer'[x][i].n = base'[x] + received'[x] + i /\ buffer'[x][i].turn = turnOf'[x]
    <3>1. i \in Nat /\ history[s][i].n = published[s] - Len(history[s]) + i /\ history[s][i].turn = turn[s]
      BY <1>2, <1>3, <2>1, <2>2 DEF HistoryInv
    <3> QED
      BY <1>3, <2>1, <3>1
  <2>3. ASSUME NEW t \in Sessions, x \in chans'[t] PROVE UpToDate(x, t)'
    <3>1. t = s
      BY <1>1, <1>2, <2>3 DEF ListTypes, DeliveryInv, ListInv, ListedIsOpen
    <3>2. base'[x] + received'[x] + Len(buffer'[x]) = published'[s]
      BY <1>1, <1>3, <2>1
    <3> QED
      BY <1>1, <2>1, <3>1, <3>2 DEF UpToDate, LastEventIsDone
  <2>4. ~ open'[x] => LastEventIsDone(buffer'[x])
    BY <1>2, <2>1 DEF HistoryInv, LastEventIsDone
  <2> QED
    BY <2>1, <2>2, <2>3, <2>4 DEF ReaderInv, LastEventIsDone
<1>8. ASSUME NEW y \in Handlers \ {x} PROVE ReaderInv(y)'
  <2>1. ReaderInv(y)
    BY DEF DeliveryInv
  <2>2. /\ pc'[y] = pc[y] /\ buffer'[y] = buffer[y] /\ open'[y] = open[y] /\ base'[y] = base[y]
        /\ received'[y] = received[y] /\ turnOf'[y] = turnOf[y]
        /\ \A t \in Sessions : y \in chans'[t] => y \in chans[t]
    BY <1>1, <1>2 DEF StoreTypes, ListTypes
  <2>3. ASSUME NEW t \in Sessions, UpToDate(y, t) PROVE UpToDate(y, t)'
    BY <1>1, <2>2, <2>3 DEF UpToDate, LastEventIsDone
  <2> QED
    BY <1>1, <2>1, <2>2, <2>3 DEF ReaderInv, LastEventIsDone
<1> QED
  BY <1>5, <1>6, <1>7, <1>8 DEF DeliveryInv

LEMMA ReadKeepsDelivery ==
  ASSUME DeliveryInv, ListInv', NEW x \in Handlers, Read(x)
  PROVE  DeliveryInv'
<1>1. /\ pc[x] = "reading" /\ buffer[x] # <<>>
      /\ buffer' = [buffer EXCEPT ![x] = Tail(@)] /\ received' = [received EXCEPT ![x] = @ + 1]
      /\ pc' = [pc EXCEPT ![x] = IF buffer[x][1].type \in {"done", "error"} THEN "leaving" ELSE "reading"]
      /\ UNCHANGED <<closed, history, chans, open, turn, published, base, turnOf, dropped>>
  BY DEF Read, streams, counts, fates
<1>2. StoreTypes /\ ListTypes /\ ReaderInv(x)
  BY DEF DeliveryInv, ListInv
<1>3. /\ buffer[x] \in Seq(Events) /\ base[x] \in Nat /\ received[x] \in Nat
      /\ buffer'[x] = Tail(buffer[x]) /\ received'[x] = received[x] + 1
  BY <1>1, <1>2 DEF StoreTypes
<1>4. /\ buffer'[x] \in Seq(Events) /\ DOMAIN buffer'[x] = 1 .. Len(buffer'[x])
      /\ Len(buffer[x]) \in Nat \ {0} /\ Len(buffer'[x]) = Len(buffer[x]) - 1
      /\ \A i \in DOMAIN buffer'[x] : i \in Nat /\ i + 1 \in DOMAIN buffer[x] /\ buffer'[x][i] = buffer[x][i + 1]
  <2> DEFINE b == buffer[x]
  <2>1. b \in Seq(Events) /\ b # <<>>
    BY <1>1, <1>3
  <2>2. buffer'[x] = Tail(b)
    BY <1>3
  <2> HIDE DEF b
  <2>3. Tail(b) \in Seq(Events) /\ Len(Tail(b)) = Len(b) - 1 /\ Len(b) \in Nat \ {0}
    BY <2>1
  <2>4. DOMAIN Tail(b) = 1 .. Len(b) - 1 /\ DOMAIN b = 1 .. Len(b)
    BY <2>1, <2>3
  <2>5. ASSUME NEW i \in 1 .. Len(b) - 1
        PROVE  i \in Nat /\ i + 1 \in 1 .. Len(b) /\ Tail(b)[i] = b[i + 1]
    BY <2>1, <2>3
  <2> QED
    BY <2>2, <2>3, <2>4, <2>5 DEF b
<1>9. base[x] \in Nat /\ received[x] \in Nat /\ received'[x] = received[x] + 1
  BY <1>3
<1>10. Len(buffer[x]) \in Nat /\ Len(buffer'[x]) \in Nat /\ Len(buffer'[x]) = Len(buffer[x]) - 1
  BY <1>4
<1>5. StoreTypes'
  BY <1>1, <1>2, <1>3, <1>4 DEF StoreTypes
<1>6. ASSUME NEW t \in Sessions PROVE HistoryInv(t)'
  BY <1>1 DEF DeliveryInv, HistoryInv, LastEventIsDone
<1>7. ReaderInv(x)'
  <2>1. CASE pc'[x] # "reading" \/ x \in dropped
    BY <1>1, <1>2, <2>1 DEF ReaderInv, ListTypes
  <2>2. CASE pc'[x] = "reading" /\ x \notin dropped
    <3>1. buffer[x][1].type # "done"
      BY <1>1, <1>2, <2>2 DEF ListTypes
    <3>2. ASSUME LastEventIsDone(buffer[x]) PROVE LastEventIsDone(buffer'[x])
      <4>1. buffer[x][Len(buffer[x])].type = "done" /\ Len(buffer[x]) # 1
        BY <3>1, <3>2 DEF LastEventIsDone
      <4>2. Len(buffer[x]) # 0
        BY <1>1, <1>3
      <4>3. Len(buffer'[x]) \in DOMAIN buffer'[x] /\ Len(buffer'[x]) + 1 = Len(buffer[x])
        <5>1. Len(buffer'[x]) \in 1 .. Len(buffer'[x]) /\ Len(buffer'[x]) + 1 = Len(buffer[x])
          <6>1. Len(buffer[x]) # 0 /\ Len(buffer[x]) # 1
            BY <4>1, <4>2
          <6>2. Len(buffer'[x]) + 1 = Len(buffer[x])
            BY <1>10
          <6>3. Len(buffer'[x]) \in Nat /\ Len(buffer'[x]) # 0
            BY <1>10, <6>1
          <6> QED
            BY <6>2, <6>3
        <5> QED
          BY <1>4, <5>1
      <4>4. buffer'[x][Len(buffer'[x])] = buffer[x][Len(buffer[x])] /\ buffer'[x] # <<>>
        BY <1>4, <4>3
      <4> QED
        BY <4>1, <4>4 DEF LastEventIsDone
    <3>3. ASSUME NEW i \in DOMAIN buffer'[x]
          PROVE  buffer'[x][i].n = base[x] + received'[x] + i /\ buffer'[x][i].turn = turnOf[x]
      <4>1. /\ buffer[x][i + 1].n = base[x] + received[x] + (i + 1) /\ buffer[x][i + 1].turn = turnOf[x]
            /\ buffer'[x][i] = buffer[x][i + 1] /\ i \in Nat
        BY <1>1, <1>2, <1>4, <2>2 DEF ReaderInv
      <4>2. base[x] + received[x] + (i + 1) = base[x] + received'[x] + i
        BY <1>9, <4>1
      <4> QED
        BY <4>1, <4>2
    <3>4. ASSUME NEW t \in Sessions, x \in chans[t] PROVE UpToDate(x, t)'
      <4>1. UpToDate(x, t)
        BY <1>1, <1>2, <2>2, <3>4 DEF ReaderInv
      <4>2. base[x] + received[x] + Len(buffer[x]) = published[t]
        BY <4>1 DEF UpToDate
      <4>3. base[x] + received'[x] + Len(buffer'[x]) = published[t]
        BY <1>9, <1>10, <4>2, SMTT(30)
      <4>4. LastEventIsDone(history[t]) => LastEventIsDone(buffer'[x])
        BY <3>2, <4>1 DEF UpToDate
      <4>5. base'[x] + received'[x] + Len(buffer'[x]) = published'[t] /\ turnOf'[x] = turn'[t]
        BY <1>1, <4>1, <4>3 DEF UpToDate
      <4>6. (LastEventIsDone(history[t]) => LastEventIsDone(buffer[x]))'
        BY <1>1, <4>4 DEF LastEventIsDone
      <4> QED
        BY <4>5, <4>6 DEF UpToDate
    <3>5. ~ open[x] => LastEventIsDone(buffer'[x])
      BY <1>1, <1>2, <2>2, <3>2 DEF ReaderInv
    <3> QED
      BY <1>1, <2>2, <3>3, <3>4, <3>5 DEF ReaderInv, LastEventIsDone
  <2> QED
    BY <2>1, <2>2
<1>8. ASSUME NEW y \in Handlers \ {x} PROVE ReaderInv(y)'
  <2>1. ReaderInv(y)
    BY DEF DeliveryInv
  <2>2. pc'[y] = pc[y] /\ buffer'[y] = buffer[y] /\ received'[y] = received[y]
    BY <1>1, <1>2 DEF StoreTypes, ListTypes
  <2>3. ASSUME NEW t \in Sessions, UpToDate(y, t) PROVE UpToDate(y, t)'
    BY <1>1, <2>2, <2>3 DEF UpToDate, LastEventIsDone
  <2> QED
    BY <1>1, <2>1, <2>2, <2>3 DEF ReaderInv, LastEventIsDone
<1> QED
  BY <1>5, <1>6, <1>7, <1>8 DEF DeliveryInv

LEMMA LeaveKeepsDelivery ==
  ASSUME DeliveryInv, ListInv', NEW x \in Handlers, ReadEnd(x) \/ Disconnect(x) \/ Unsubscribe(x)
  PROVE  DeliveryInv'
<1>1. /\ pc'[x] \in {"leaving", "ended"} /\ \A y \in Handlers \ {x} : pc'[y] = pc[y]
      /\ UNCHANGED <<closed, history, turn, published, dropped>>
      /\ \A y \in Handlers \ {x} :
           /\ buffer'[y] = buffer[y] /\ received'[y] = received[y] /\ open'[y] = open[y]
           /\ base'[y] = base[y] /\ turnOf'[y] = turnOf[y]
           /\ \A t \in Sessions : y \in chans'[t] => y \in chans[t]
  <2>1. ListTypes /\ StoreTypes
    BY DEF DeliveryInv, ListInv
  <2>2. CASE ReadEnd(x) \/ Disconnect(x)
    BY <2>1, <2>2 DEF ListTypes, StoreTypes, ReadEnd, Disconnect, streams, channels, counts, fates
  <2>3. CASE Unsubscribe(x)
    <3>1. \A y \in Handlers \ {x} : \A t \in Sessions : y \in chans'[t] => y \in chans[t]
      BY <2>1, <2>3 DEF ListTypes, Unsubscribe
    <3> QED
      BY <2>1, <2>3, <3>1 DEF ListTypes, StoreTypes, Unsubscribe, counts
  <2> QED
    BY <2>2, <2>3
<1>2. StoreTypes'
  <2>1. StoreTypes
    BY DEF DeliveryInv
  <2>2. CASE ReadEnd(x) \/ Disconnect(x)
    BY <2>1, <2>2 DEF StoreTypes, ReadEnd, Disconnect, streams, channels, counts, fates
  <2>3. CASE Unsubscribe(x)
    <3>1. <<>> \in Seq(Events) /\ 0 \in Nat
      OBVIOUS
    <3> QED
      BY <2>1, <2>3, <3>1 DEF StoreTypes, Unsubscribe, counts
  <2> QED
    BY <2>2, <2>3
<1>3. ASSUME NEW t \in Sessions PROVE HistoryInv(t)'
  BY <1>1 DEF DeliveryInv, HistoryInv, LastEventIsDone
<1>4. ReaderInv(x)'
  BY <1>1 DEF ReaderInv
<1>5. ASSUME NEW y \in Handlers \ {x} PROVE ReaderInv(y)'
  <2>1. ReaderInv(y)
    BY DEF DeliveryInv
  <2>2. ASSUME NEW t \in Sessions, UpToDate(y, t) PROVE UpToDate(y, t)'
    BY <1>1, <2>2 DEF UpToDate, LastEventIsDone
  <2> QED
    BY <1>1, <2>1, <2>2 DEF ReaderInv, LastEventIsDone
<1> QED
  BY <1>2, <1>3, <1>4, <1>5 DEF DeliveryInv

LEMMA NextDeliveryInv == DeliveryInv /\ [Next]_vars => DeliveryInv'
<1> SUFFICES ASSUME DeliveryInv, [Next]_vars PROVE DeliveryInv'
  OBVIOUS
<1>1. ListInv'
  BY NextListInv DEF DeliveryInv
<1>2. ASSUME NEW s \in Sessions, Reopen(s) \/ Close(s) PROVE DeliveryInv'
  BY <1>1, <1>2, ReopenKeepsDelivery, CloseKeepsDelivery
<1>3. ASSUME NEW s \in Sessions, NEW type \in EventTypes, Publish(s, type) PROVE DeliveryInv'
  BY <1>1, <1>3, PublishKeepsDelivery
<1>4. ASSUME NEW x \in Handlers, NEW s \in Sessions, Subscribe(x, s) PROVE DeliveryInv'
  BY <1>1, <1>4, SubscribeKeepsDelivery
<1>5. ASSUME NEW x \in Handlers, Handle(x) \/ Disconnect(x) PROVE DeliveryInv'
  BY <1>1, <1>5, ReadKeepsDelivery, LeaveKeepsDelivery DEF Handle
<1>6. CASE UNCHANGED vars
  BY <1>1, <1>6 DEF vars, streams, channels, handlers, counts, fates, DeliveryInv, StoreTypes,
     HistoryInv, ReaderInv, UpToDate, LastEventIsDone
<1> QED
  BY <1>2, <1>3, <1>4, <1>5, <1>6 DEF Next

(* A handler whose buffer was never full delivers every event of its turn    *)
(* from its subscription on, in order (stream.go:62-126).                    *)
THEOREM DeliveryHasNoGaps == Spec => []NoGaps
<1>1. DeliveryInv => NoGaps
  <2> SUFFICES ASSUME DeliveryInv, NEW x \in Reading \ dropped
               PROVE  LET s == watching[x] IN
                      /\ \A i \in DOMAIN buffer[x] :
                           buffer[x][i].n = base[x] + received[x] + i /\ buffer[x][i].turn = turnOf[x]
                      /\ x \in chans[s] => base[x] + received[x] + Len(buffer[x]) = published[s]
    BY DEF NoGaps
  <2>1. x \in Handlers /\ pc[x] = "reading" /\ x \notin dropped /\ ReaderInv(x)
    BY DEF Reading, DeliveryInv
  <2>2. x \in chans[watching[x]] => watching[x] \in Sessions
    BY <2>1 DEF DeliveryInv, ListInv, ListTypes
  <2> QED
    BY <2>1, <2>2 DEF ReaderInv, UpToDate
<1> QED
  BY <1>1, InitDeliveryInv, NextDeliveryInv, PTL DEF Spec

-----------------------------------------------------------------------------
(* The line of the ended streams, in which an ended stream stands once.      *)

LEMMA LineOfEach ==
  ASSUME LineInv
  PROVE  Cardinality(closed) = Len(closedOrder)
<1> DEFINE n == Len(closedOrder)
<1>1. n \in Nat /\ DOMAIN closedOrder = 1 .. n /\ closedOrder \in [1 .. n -> closed]
  BY DEF LineInv
<1>2. /\ \A i, j \in 1 .. n : closedOrder[i] = closedOrder[j] => i = j
      /\ \A s \in closed : \E i \in 1 .. n : closedOrder[i] = s
  BY <1>1 DEF LineInv
<1>3. closedOrder \in Bijection(1 .. n, closed)
  BY <1>1, <1>2 DEF Bijection, Injection, Surjection, IsInjective
<1>4. ExistsBijection(1 .. n, closed)
  BY <1>3 DEF ExistsBijection
<1> HIDE DEF n
<1>5. Cardinality(closed) = n
  BY <1>1, <1>4, FS_CountingElements
<1> QED
  BY <1>5 DEF n

(* A reopened stream leaves the line, and the others move up.                *)
LEMMA ReopenKeepsLine ==
  ASSUME LineInv, NEW s \in Sessions, Reopen(s)
  PROVE  LineInv'
<1> DEFINE at == {i \in DOMAIN closedOrder : closedOrder[i] = s}
           n == Len(closedOrder)
<1>1. /\ closedOrder \in Seq(Sessions) /\ n \in Nat /\ n <= MaxClosed /\ DOMAIN closedOrder = 1 .. n
      /\ closed = {closedOrder[i] : i \in 1 .. n}
      /\ \A i, j \in 1 .. n : closedOrder[i] = closedOrder[j] => i = j
      /\ \A i \in 1 .. n : closedOrder[i] \in Sessions
  BY DEF LineInv
<1>2. closed' = closed \ {s} /\ Unlist(s)
  BY DEF Reopen
<1>3. CASE at = {}
  <2>1. closedOrder' = closedOrder /\ s \notin closed
    BY <1>1, <1>2, <1>3 DEF Unlist
  <2> QED
    BY <1>2, <2>1 DEF LineInv
<1>4. CASE at # {}
  <2>1. PICK k \in 1 .. n : closedOrder[k] = s
    BY <1>1, <1>4
  <2>2. at = {k}
    BY <1>1, <2>1
  <2>3. (CHOOSE i \in at : \A j \in at : i <= j) = k
    BY <2>1, <2>2
  <2> DEFINE up(j) == IF j < k THEN j ELSE j + 1
  <2>4. closedOrder' = [j \in 1 .. n - 1 |-> closedOrder[up(j)]]
    BY <1>2, <1>4, <2>3 DEF Unlist
  <2>5. \A j \in 1 .. n - 1 : up(j) \in 1 .. n /\ up(j) # k
    BY <1>1, <2>1
  <2>6. \A i, j \in 1 .. n - 1 : up(i) = up(j) => i = j
    BY <1>1, <2>1
  <2>7. ASSUME NEW i \in 1 .. n, i # k PROVE \E j \in 1 .. n - 1 : up(j) = i
    <3>1. CASE i < k
      <4>1. i \in 1 .. n - 1 /\ up(i) = i
        BY <1>1, <2>1, <3>1
      <4> QED
        BY <4>1
    <3>2. CASE i > k
      <4>1. i - 1 \in 1 .. n - 1 /\ up(i - 1) = i
        BY <1>1, <2>1, <3>2
      <4> QED
        BY <4>1
    <3> QED
      BY <2>1, <2>7, <3>1, <3>2
  <2> HIDE DEF up
  <2>8. n - 1 \in Nat /\ n - 1 <= MaxClosed
    BY <1>1, <2>1, ConstantsAssumption
  <2>9. /\ closedOrder' \in Seq(Sessions) /\ Len(closedOrder') = n - 1
        /\ DOMAIN closedOrder' = 1 .. n - 1
    <3>1. closedOrder' \in [1 .. n - 1 -> Sessions]
      BY <1>1, <2>4, <2>5
    <3> QED
      BY <2>4, <2>8, <3>1
  <2>10. \A i, j \in 1 .. n - 1 : closedOrder'[i] = closedOrder'[j] => i = j
    BY <1>1, <2>4, <2>5, <2>6
  <2>11. closed' = {closedOrder'[j] : j \in 1 .. n - 1}
    <3>1. ASSUME NEW t \in closed' PROVE \E j \in 1 .. n - 1 : closedOrder'[j] = t
      <4>1. PICK i \in 1 .. n : closedOrder[i] = t /\ i # k
        BY <1>1, <1>2, <2>1, <3>1
      <4>2. PICK j \in 1 .. n - 1 : up(j) = i
        BY <2>7, <4>1
      <4> QED
        BY <2>4, <4>1, <4>2
    <3>2. ASSUME NEW j \in 1 .. n - 1 PROVE closedOrder'[j] \in closed'
      <4>1. closedOrder'[j] = closedOrder[up(j)] /\ up(j) \in 1 .. n /\ up(j) # k
        BY <2>4, <2>5
      <4>2. closedOrder[up(j)] \in closed /\ closedOrder[up(j)] # s
        BY <1>1, <2>1, <4>1
      <4> QED
        BY <1>2, <4>1, <4>2
    <3> QED
      BY <3>1, <3>2
  <2> QED
    BY <2>8, <2>9, <2>10, <2>11 DEF LineInv
<1> QED
  BY <1>3, <1>4

(* An ended stream goes to the end of the line, and the first of a line that *)
(* is too long is evicted.                                                   *)
LEMMA CloseKeepsLine ==
  ASSUME LineInv, closed \subseteq Sessions, NEW s \in Sessions, Close(s)
  PROVE  LineInv'
<1> DEFINE n == Len(closedOrder)
           order == Append(closedOrder, s)
           gone == IF Len(order) > MaxClosed THEN {order[1]} \cap (closed \cup {s}) ELSE {}
<1>1. /\ closedOrder \in Seq(Sessions) /\ n \in Nat /\ n <= MaxClosed /\ DOMAIN closedOrder = 1 .. n
      /\ closed = {closedOrder[i] : i \in 1 .. n}
      /\ \A i, j \in 1 .. n : closedOrder[i] = closedOrder[j] => i = j
      /\ \A i \in 1 .. n : closedOrder[i] \in Sessions
  BY DEF LineInv
<1>2. /\ s \notin closed
      /\ closedOrder' = IF Len(order) > MaxClosed THEN Tail(order) ELSE order
      /\ closed' = (closed \cup {s}) \ gone
  BY DEF Close, Evict
<1>3. /\ order \in Seq(Sessions) /\ Len(order) = n + 1 /\ DOMAIN order = 1 .. n + 1
      /\ order[n + 1] = s /\ \A i \in 1 .. n : order[i] = closedOrder[i]
  BY <1>1
<1>4. \A i \in 1 .. n + 1 : i \in 1 .. n \/ i = n + 1
  BY <1>1
<1>5. \A i, j \in 1 .. n + 1 : order[i] = order[j] => i = j
  BY <1>1, <1>2, <1>3, <1>4
<1>6. closed \cup {s} = {order[i] : i \in 1 .. n + 1}
  <2>1. 1 .. n \subseteq 1 .. n + 1 /\ n + 1 \in 1 .. n + 1
    BY <1>1
  <2>2. ASSUME NEW t \in closed \cup {s} PROVE \E i \in 1 .. n + 1 : order[i] = t
    BY <1>1, <1>3, <2>1
  <2>3. ASSUME NEW i \in 1 .. n + 1 PROVE order[i] \in closed \cup {s}
    BY <1>1, <1>3, <1>4
  <2> QED
    BY <2>2, <2>3
<1> HIDE DEF order
<1>7. CASE n + 1 <= MaxClosed
  <2>1. closedOrder' = order /\ closed' = closed \cup {s}
    BY <1>1, <1>2, <1>3, <1>7, ConstantsAssumption
  <2> QED
    BY <1>3, <1>5, <1>6, <1>7, <2>1 DEF LineInv
<1>8. CASE ~ n + 1 <= MaxClosed
  <2>1. n = MaxClosed /\ n \in Nat \ {0}
    BY <1>1, <1>8, ConstantsAssumption
  <2>2. closedOrder' = Tail(order) /\ 1 \in 1 .. n + 1
    BY <1>2, <1>3, <2>1
  <2>3. closed' = (closed \cup {s}) \ {order[1]}
    BY <1>2, <1>3, <1>6, <2>1, <2>2
  <2>4. /\ closedOrder' \in Seq(Sessions) /\ Len(closedOrder') = n
        /\ \A i \in 1 .. n : closedOrder'[i] = order[i + 1]
    BY <1>3, <2>1, <2>2
  <2>5. DOMAIN closedOrder' = 1 .. n
    BY <2>4
  <2>6. \A i \in 1 .. n : i + 1 \in 1 .. n + 1 /\ i + 1 # 1 /\ i \in Nat
    BY <2>1
  <2>7. \A i, j \in 1 .. n : closedOrder'[i] = closedOrder'[j] => i = j
    <3>1. ASSUME NEW i \in 1 .. n, NEW j \in 1 .. n, closedOrder'[i] = closedOrder'[j]
          PROVE  i = j
      <4>1. i + 1 = j + 1
        BY <1>5, <2>4, <2>6, <3>1
      <4> QED
        BY <4>1
    <3> QED
      BY <3>1
  <2>8. closed' = {closedOrder'[i] : i \in 1 .. n}
    <3>1. ASSUME NEW t \in closed' PROVE \E i \in 1 .. n : closedOrder'[i] = t
      <4>1. PICK j \in 1 .. n + 1 : order[j] = t /\ j # 1
        BY <1>6, <2>3, <3>1
      <4>2. j - 1 \in 1 .. n /\ (j - 1) + 1 = j
        BY <2>1, <4>1
      <4> QED
        BY <2>4, <4>1, <4>2
    <3>2. ASSUME NEW i \in 1 .. n PROVE closedOrder'[i] \in closed'
      <4>1. closedOrder'[i] = order[i + 1] /\ i + 1 \in 1 .. n + 1 /\ i + 1 # 1
        BY <2>4, <2>6
      <4>2. order[i + 1] # order[1]
        BY <1>5, <2>2, <4>1
      <4> QED
        BY <1>6, <2>3, <4>1, <4>2
    <3> QED
      BY <3>1, <3>2
  <2> QED
    BY <2>1, <2>4, <2>5, <2>7, <2>8 DEF LineInv
<1> QED
  BY <1>7, <1>8

EndInv == DeliveryInv /\ LineInv

LEMMA InitEndInv == Init => EndInv
<1> SUFFICES ASSUME Init PROVE LineInv
  BY InitDeliveryInv DEF EndInv
<1>1. closedOrder = <<>> /\ closed = {}
  BY DEF Init
<1> QED
  BY <1>1, ConstantsAssumption DEF LineInv

LEMMA NextEndInv == EndInv /\ [Next]_vars => EndInv'
<1> SUFFICES ASSUME EndInv, [Next]_vars PROVE LineInv'
  BY NextDeliveryInv DEF EndInv
<1>1. LineInv /\ closed \subseteq Sessions
  BY DEF EndInv, DeliveryInv, StoreTypes
<1>2. ASSUME NEW s \in Sessions, Reopen(s) \/ Close(s) PROVE LineInv'
  BY <1>1, <1>2, ReopenKeepsLine, CloseKeepsLine
<1>3. ASSUME closed' = closed, closedOrder' = closedOrder PROVE LineInv'
  BY <1>1, <1>3 DEF LineInv
<1>4. ASSUME NEW s \in Sessions, NEW type \in EventTypes, Publish(s, type) PROVE LineInv'
  BY <1>3, <1>4 DEF Publish
<1>5. ASSUME NEW x \in Handlers, NEW s \in Sessions, Subscribe(x, s) PROVE LineInv'
  BY <1>3, <1>5 DEF Subscribe
<1>6. ASSUME NEW x \in Handlers, Handle(x) \/ Disconnect(x) PROVE LineInv'
  BY <1>3, <1>6 DEF Handle, Read, ReadEnd, Unsubscribe, Disconnect, streams
<1>7. CASE UNCHANGED vars
  BY <1>3, <1>7 DEF vars, streams
<1> QED
  BY <1>2, <1>4, <1>5, <1>6, <1>7 DEF Next

(* A client that kept up is told that its stream ended, at its end or on     *)
(* subscribing after it, and the line of the ended streams holds each of     *)
(* them once, within its bound (stream.go:71-77, 113-166).                   *)
THEOREM EndAlwaysTold == Spec => []EndIsTold
<1>1. EndInv => EndIsTold
  <2> SUFFICES ASSUME EndInv PROVE EndIsTold
    OBVIOUS
  <2>1. ASSUME NEW x \in Reading \ dropped, ~ open[x]
        PROVE  buffer[x] # <<>> /\ buffer[x][Len(buffer[x])].type = "done"
    BY <2>1 DEF EndInv, DeliveryInv, ReaderInv, Reading, LastEventIsDone
  <2>2. ClosedInLine
    BY LineOfEach DEF EndInv, LineInv, ClosedInLine
  <2> QED
    BY <2>1, <2>2 DEF EndIsTold
<1> QED
  BY <1>1, InitEndInv, NextEndInv, PTL DEF Spec
===============================================================================
