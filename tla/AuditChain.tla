------------------------------ MODULE AuditChain ------------------------------
(***************************************************************************)
(* The hash chain of one session's audit events.  The Governance Shell and *)
(* the Orchestrator each wrap the shared SQLite store in a ChainAppender   *)
(* of their own (hashchain.go): a mutex, a cache of the last hash, and the *)
(* compare-and-append transaction of the store (sqlite.go).                *)
(*                                                                         *)
(* A writer is one call of Append; its event and, the hash being free of   *)
(* collisions, the event's hash carry the writer's name.                   *)
(***************************************************************************)
EXTENDS Naturals, Sequences, FiniteSets

CONSTANTS
  Processes,     (* the processes that hold a ChainAppender                  *)
  Writers,       (* the calls of Append                                      *)
  Home,          (* the process each call is made in                         *)
  None,          (* the empty hash; no cache entry; no head row              *)
  Powers,        (* lengths, in ticks, of the decimal places of the clock    *)
  StoreErrors,   (* whether a statement on the audit database may fail       *)
  MaxTime,       (* bound on the clock                                       *)
  MaxInFlight,   (* bound on the calls in progress together                  *)
  MaxRestarts,   (* bound on the restarts of a process                       *)
  MaxPurges      (* bound on the runs of the retention policy                *)

ASSUME ConstantsAssumption ==
  /\ Home \in [Writers -> Processes]
  /\ None \notin Writers
  /\ Powers \subseteq Nat \ {0}
  /\ StoreErrors \in BOOLEAN
  /\ {MaxTime, MaxInFlight, MaxRestarts, MaxPurges} \subseteq Nat

VARIABLES
  table,         (* audit_events, in rowid order                             *)
  head,          (* the session's row of audit_chain_heads                   *)
  cache,         (* ChainAppender.lastHash of each process                   *)
  lock,          (* ChainAppender.mu of each process: its holder             *)
  pc, at, latest, attempt,   (* the calls: counter, RecordedAt, locals       *)
  rival,         (* whether another process appended since the call locked   *)
  clock, restarts, purges

store    == <<table, head>>
appender == <<cache, lock>>
call     == <<pc, at, latest, attempt, rival>>
world    == <<clock, restarts, purges>>
vars     == <<store, appender, call, world>>

Attempts == 3

Busy == {"waiting", "load", "try", "committed"}

Holding == {"load", "try", "committed"}

Events == [id : Writers, at : 0 .. MaxTime, prev : Writers \cup {None}]

Init ==
  /\ table = <<>> /\ head = None
  /\ cache = [p \in Processes |-> None] /\ lock = [p \in Processes |-> None]
  /\ pc = [w \in Writers |-> "idle"] /\ at = [w \in Writers |-> 0]
  /\ latest = [w \in Writers |-> None] /\ attempt = [w \in Writers |-> 0]
  /\ rival = [w \in Writers |-> FALSE]
  /\ clock = 0 /\ restarts = 0 /\ purges = 0

-----------------------------------------------------------------------------
(* recorded_at is text in time.RFC3339Nano, which drops trailing zeros of   *)
(* the fraction: the text of t is a prefix of the text of u, but for the    *)
(* final Z, when t has only zeros from some place on and u has the same     *)
(* digits up to there.  Z sorts after every digit and after the point.      *)
TrimmedPrefix(t, u) == t # u /\ \E p \in Powers : t % p = 0 /\ t \div p = u \div p

TextBefore(t, u) ==
  \/ t < u /\ ~TrimmedPrefix(t, u)
  \/ u < t /\ TrimmedPrefix(u, t)

(* ORDER BY recorded_at ASC, rowid ASC, on row numbers.                     *)
RowBefore(i, j) ==
  \/ TextBefore(table[i].at, table[j].at)
  \/ table[i].at = table[j].at /\ i < j

(* EventsBySession.                                                         *)
EventsBySession ==
  [n \in DOMAIN table |->
     table[CHOOSE i \in DOMAIN table : Cardinality({j \in DOMAIN table : RowBefore(j, i)}) = n - 1]]

(* The last of them, which latestHash and latestSessionHashTx return.       *)
NewestHash ==
  IF table = <<>> THEN None
  ELSE table[CHOOSE i \in DOMAIN table : \A j \in DOMAIN table \ {i} : RowBefore(j, i)].id

-----------------------------------------------------------------------------
(* Append stamps the event before it takes the mutex.                       *)
Begin(w) ==
  /\ pc[w] = "idle"
  /\ Cardinality({v \in Writers : pc[v] \in Busy}) < MaxInFlight
  /\ pc' = [pc EXCEPT ![w] = "waiting"]
  /\ at' = [at EXCEPT ![w] = clock]
  /\ UNCHANGED <<store, appender, latest, attempt, rival, world>>

Lock(w) ==
  LET p == Home[w] IN
  /\ pc[w] = "waiting" /\ lock[p] = None
  /\ lock' = [lock EXCEPT ![p] = w]
  /\ latest' = [latest EXCEPT ![w] = cache[p]]
  /\ pc' = [pc EXCEPT ![w] = IF cache[p] = None THEN "load" ELSE "try"]
  /\ UNCHANGED <<store, cache, at, attempt, rival, world>>

Unlock(w, answer) ==
  /\ lock' = [lock EXCEPT ![Home[w]] = None]
  /\ pc' = [pc EXCEPT ![w] = answer]

(* Mutant: latestHash answers from the cache when it can.                   *)
LoadLatestCached(w) ==
  /\ latest' = [latest EXCEPT ![w] = IF cache[Home[w]] # None THEN cache[Home[w]] ELSE NewestHash]
  /\ cache' = IF table = <<>> THEN cache ELSE [cache EXCEPT ![Home[w]] = latest'[w]]

(* latestHash fills the cache with the event that is newest by time.        *)
LoadLatest(w) ==
  /\ latest' = [latest EXCEPT ![w] = NewestHash]
  /\ cache' = IF table = <<>> THEN cache ELSE [cache EXCEPT ![Home[w]] = NewestHash]

Load(w) ==
  /\ pc[w] = "load" /\ attempt[w] < Attempts
  /\ LoadLatest(w)
  /\ pc' = [pc EXCEPT ![w] = "try"]
  /\ UNCHANGED <<store, lock, at, attempt, rival, world>>

(* "concurrent append conflict"                                             *)
Conflict(w) ==
  /\ pc[w] = "load" /\ attempt[w] = Attempts
  /\ LoadLatest(w)
  /\ Unlock(w, "conflict")
  /\ UNCHANGED <<store, at, attempt, rival, world>>

(* Mutant: the head is always the newest event by time.                     *)
CurrentHeadByTime == NewestHash

(* AppendIfPrev, one transaction: the head row, seeded from the newest      *)
(* event when there is none, must be the hash the caller links to.          *)
CurrentHead == IF head = None THEN NewestHash ELSE head

AppendIfPrev(w) ==
  /\ pc[w] = "try" /\ CurrentHead = latest[w]
  /\ table' = Append(table, [id |-> w, at |-> at[w], prev |-> latest[w]])
  /\ head' = w
  /\ pc' = [pc EXCEPT ![w] = "committed"]
  /\ rival' = [v \in Writers |-> rival[v] \/ (pc[v] \in Holding /\ Home[v] # Home[w])]
  /\ UNCHANGED <<appender, at, latest, attempt, world>>

PrevMismatch(w) ==
  /\ pc[w] = "try" /\ CurrentHead # latest[w]
  /\ attempt' = [attempt EXCEPT ![w] = @ + 1]
  /\ pc' = [pc EXCEPT ![w] = "load"]
  /\ UNCHANGED <<store, appender, at, latest, rival, world>>

Return(w) ==
  /\ pc[w] = "committed"
  /\ cache' = [cache EXCEPT ![Home[w]] = w]
  /\ Unlock(w, "done")
  /\ UNCHANGED <<store, at, latest, attempt, rival, world>>

(* Mutant: an error after the commit is reported as a failed append.        *)
AppendFailsLate(w) ==
  /\ StoreErrors /\ pc[w] \in Holding
  /\ Unlock(w, "failed")
  /\ UNCHANGED <<store, cache, at, latest, attempt, rival, world>>

(* Mutant: an error path that leaves the mutex locked.                      *)
AppendFailsLocked(w) ==
  /\ StoreErrors /\ pc[w] \in {"load", "try"}
  /\ pc' = [pc EXCEPT ![w] = "failed"]
  /\ UNCHANGED <<store, appender, at, latest, attempt, rival, world>>

(* A query or the transaction fails, or the caller's context is done.       *)
AppendFails(w) ==
  /\ StoreErrors /\ pc[w] \in {"load", "try"}
  /\ Unlock(w, "failed")
  /\ UNCHANGED <<store, cache, at, latest, attempt, rival, world>>

-----------------------------------------------------------------------------
Tick ==
  /\ clock < MaxTime
  /\ clock' = clock + 1
  /\ UNCHANGED <<store, appender, call, restarts, purges>>

(* A process stops and starts with an empty cache.  "done" is also the end  *)
(* of a call whose transaction committed and whose caller died with it.     *)
Restart(p) ==
  /\ restarts < MaxRestarts /\ restarts' = restarts + 1
  /\ lock' = [lock EXCEPT ![p] = None]
  /\ cache' = [cache EXCEPT ![p] = None]
  /\ pc' = [w \in Writers |->
              IF Home[w] # p \/ pc[w] \notin Busy THEN pc[w]
              ELSE IF pc[w] = "committed" THEN "done" ELSE "failed"]
  /\ UNCHANGED <<store, at, latest, attempt, rival, clock, purges>>

(* Mutant: the events are purged, their head row is not.                    *)
ChainRetentionPolicyKeepsHead ==
  /\ table # <<>> /\ purges < MaxPurges /\ purges' = purges + 1
  /\ \E cutoff \in 0 .. clock : \A i \in DOMAIN table : TextBefore(table[i].at, cutoff)
  /\ table' = <<>>
  /\ UNCHANGED <<head, appender, call, clock, restarts>>

(* ChainRetentionPolicy deletes the chain and its head together when        *)
(* MAX(recorded_at), as text, is before the cutoff; no cache hears of it.   *)
ChainRetentionPolicy ==
  /\ table # <<>> /\ purges < MaxPurges /\ purges' = purges + 1
  /\ \E cutoff \in 0 .. clock : \A i \in DOMAIN table : TextBefore(table[i].at, cutoff)
  /\ table' = <<>> /\ head' = None
  /\ UNCHANGED <<appender, call, clock, restarts>>

Step(w) ==
  \/ Lock(w) \/ Load(w) \/ Conflict(w) \/ AppendIfPrev(w) \/ PrevMismatch(w) \/ Return(w)
  \/ AppendFails(w)

Next ==
  \/ \E w \in Writers : Begin(w) \/ Step(w)
  \/ \E p \in Processes : Restart(p)
  \/ Tick \/ ChainRetentionPolicy

Spec == Init /\ [][Next]_vars

(* sync.Mutex starves nobody, and SQLite answers or fails.                  *)
Fairness == \A w \in Writers : WF_vars(Step(w))

FairSpec == Spec /\ Fairness

-----------------------------------------------------------------------------
(* VerifyChain, with every stored hash right.                               *)
VerifyChain(events) ==
  \A n \in DOMAIN events : events[n].prev = IF n = 1 THEN None ELSE events[n - 1].id

(* Whatever the processes, their caches, restarts and the retention policy  *)
(* do, the stored events form one unforked chain in the order they were     *)
(* inserted, from an event without predecessor to the head row              *)
(* (sqlite.go:251-305, hashchain.go:84-101).                                *)
ChainIsLinear ==
  /\ VerifyChain(table)
  /\ head = IF table = <<>> THEN None ELSE table[Len(table)].id

(* The chain implements the audit log: an event whose Append was answered   *)
(* with success is in it once, and one refused never appears.               *)
Answered ==
  [w \in Writers |->
     CASE pc[w] \in {"done", "committed"} -> "stored"
       [] pc[w] \in {"conflict", "failed"} -> "refused"
       [] OTHER -> "pending"]

Log == INSTANCE AuditLog WITH log <- [n \in DOMAIN table |-> table[n].id], answer <- Answered

ImplementsLog == Log!Spec

(* What VerifyChain is given by its callers: "events are ordered by         *)
(* occurrence (e.g. by RecordedAt ascending)" (hashchain.go:217-218).       *)
ChainVerifies == VerifyChain(EventsBySession)

(* A call gives up with "concurrent append conflict" only if another        *)
(* process did append while it held its mutex (hashchain.go:84-101).        *)
ConflictNeedsRival == \A w \in Writers : pc[w] = "conflict" => rival[w]

(* Every call of Append is answered.                                        *)
AppendsEnd == \A w \in Writers : pc[w] = "waiting" ~> pc[w] \notin Busy
===============================================================================
