--------------------------------- MODULE Ledger ---------------------------------
(***************************************************************************)
(* What the list of sessions tells of one session's use of models: the     *)
(* calls and tokens in its audit events, what they cost and where each     *)
(* cost comes from.  A call costs what its provider reported, or what the  *)
(* table of prices makes of its tokens, or what its caller estimated.  The *)
(* table is refreshed in the background, one transaction at a time, while  *)
(* the list looks prices up, one query at a time.                          *)
(***************************************************************************)
EXTENDS Naturals, Sequences, FiniteSets

CONSTANTS
    Recordable,    \* what may be recorded: [type, usage, reported, estimate, model]
    LookupsOf,    \* for each model, the lookups to try in turn: sequences of sequences of
                   \* keys <<provider, model>>
    Books,         \* what the price service may answer: functions from keys to prices
    NoBook,
    MaxRecorded, MaxRefreshes, MaxQueryTroubles      \* bounds

IsList(c) == c \in Seq({c[i] : i \in DOMAIN c})

\* Tokens, costs and prices are not negative.
ASSUME LedgerConstants ==
    /\ \A e \in Recordable :
          /\ e.reported \in Nat /\ e.estimate \in Nat
          /\ IsList(LookupsOf[e.model])
          /\ \A i \in DOMAIN LookupsOf[e.model] : IsList(LookupsOf[e.model][i])
    /\ NoBook \notin Books
    /\ \A book \in Books : \A k \in DOMAIN book : book[k] \in Nat

VARIABLES
    recorded,      \* the session's audit events
    prices,        \* table model_pricing: a function from the keys it has
    fetched,       \* the refresh in progress: the records fetched, or NoBook
    refreshes, queryTroubles,
    list,          \* a request for the list, and the summary it adds up
    stood,         \* history: the tables that stood while the list was made
    bills          \* history: for each event read, [source, amount]

ledgerVars == <<recorded, prices, fetched, refreshes, queryTroubles, list, stood, bills>>

\* The completed calls; the start of a stream and a failed call count for nothing.
IsCall(e) == e.type = "call"

NewList == [at |-> "idle", events |-> <<>>, next |-> 1, candidate |-> 1, lookup |-> 1,
           calls |-> 0, tokens |-> 0, turns |-> 0, cost |-> 0, source |-> ""]

LedgerInit ==
    /\ recorded = <<>> /\ bills = <<>>
    /\ prices = << >> /\ fetched = NoBook
    /\ refreshes = 0 /\ queryTroubles = 0
    /\ list = NewList /\ stood = {}

QueryWorks(ok) == IF ok THEN UNCHANGED queryTroubles
                  ELSE queryTroubles < MaxQueryTroubles /\ queryTroubles' = queryTroubles + 1

-----------------------------------------------------------------------------
(* The session, and the prices.                                            *)

RecordEvent(e) ==
    /\ Len(recorded) < MaxRecorded
    /\ recorded' = Append(recorded, e)
    /\ UNCHANGED <<prices, fetched, refreshes, queryTroubles, list, stood, bills>>

\* OpenRouterPricingFetcher.Fetch; when it fails the table stays as it is.
FetchPrices(book) ==
    /\ fetched = NoBook /\ refreshes < MaxRefreshes
    /\ refreshes' = refreshes + 1 /\ fetched' = book
    /\ UNCHANGED <<recorded, prices, queryTroubles, list, stood, bills>>

\* UpsertModelPricing, one transaction: models the service no longer names keep their price.
Upserted == [k \in DOMAIN prices \cup DOMAIN fetched |->
               IF k \in DOMAIN fetched THEN fetched[k] ELSE prices[k]]

UpsertModelPricing ==
    /\ fetched # NoBook /\ fetched' = NoBook
    /\ \/ QueryWorks(TRUE) /\ prices' = Upserted /\ stood' = stood \cup {Upserted}
       \/ QueryWorks(FALSE) /\ UNCHANGED <<prices, stood>>
    /\ UNCHANGED <<recorded, refreshes, list, bills>>

-----------------------------------------------------------------------------
(* SummarizeSessionUsageWithPricing.                                       *)

\* listSessions reads the session's row, then its events; without them it fails.
ReadEvents ==
    /\ list.at = "idle"
    /\ list' = [NewList EXCEPT !.at = "count", !.events = recorded]
    /\ stood' = {prices}
    /\ UNCHANGED <<recorded, prices, fetched, refreshes, queryTroubles, bills>>

Counted == list.events[list.next]
Counting == list.at = "count" /\ list.next <= Len(list.events)

\* mergeCostSource
Merged(source, next) ==
    IF source \in {"", "unavailable", next} THEN next ELSE "mixed"

\* addTokenUsage finds the tokens under the names of either API.
Tokens(e) == IF e.usage = "none" THEN 0 ELSE 1

\* Done with an event, which cost an amount by a source.
Charge(source, amount) ==
    /\ list' = [list EXCEPT
         !.at = "count", !.next = @ + 1, !.candidate = 1, !.lookup = 1,
         !.calls = @ + 1, !.tokens = @ + Tokens(Counted), !.cost = @ + amount,
         !.source = IF source = "unavailable"
                    THEN IF @ = "" THEN source ELSE @
                    ELSE IF source = "" THEN @ ELSE Merged(@, source)]
    /\ bills' = Append(bills, [source |-> source, amount |-> amount])
    /\ UNCHANGED <<recorded, prices, fetched, refreshes, stood>>

\* What is left when the table prices nothing.
ChargeEstimate ==
    IF Counted.estimate > 0 THEN Charge("caller_estimated", Counted.estimate)
    ELSE Charge(IF Counted.usage = "none" THEN "" ELSE "unavailable", 0)

\* Events other than calls; the estimate a session was created with counts, without a source.
CountOther ==
    /\ Counting /\ ~ IsCall(Counted)
    /\ list' = [list EXCEPT !.next = @ + 1,
                            !.turns = @ + (IF Counted.type = "turn" THEN 1 ELSE 0),
                            !.cost = @ + (IF Counted.type = "created" THEN Counted.estimate ELSE 0)]
    /\ bills' = Append(bills, [source |-> "", amount |->
                                 IF Counted.type = "created" THEN Counted.estimate ELSE 0])
    /\ UNCHANGED <<recorded, prices, fetched, refreshes, queryTroubles, stood>>

\* Mutant: what the provider reported is looked up again.
CountReportedAgain ==
    /\ Counting /\ IsCall(Counted)
    /\ list' = [list EXCEPT !.at = "price", !.cost = @ + Counted.reported]
    /\ UNCHANGED <<recorded, prices, fetched, refreshes, queryTroubles, stood, bills>>

CountCall ==
    /\ Counting /\ IsCall(Counted)
    /\ IF Counted.reported > 0 THEN Charge("provider_reported", Counted.reported)
       ELSE IF Counted.usage = "none" THEN ChargeEstimate
       ELSE /\ list' = [list EXCEPT !.at = "price"]
            /\ UNCHANGED <<recorded, prices, fetched, refreshes, stood, bills>>
    /\ UNCHANGED queryTroubles

\* Only the chat API's names for tokens are priced.
Priced(key) == IF Counted.usage = "chat" THEN prices[key] ELSE 0

\* One query of GetModelPricing.  The first price found decides, be it nothing; a query that
\* fails passes over the rest of its candidate.
LookUpPrice ==
    LET candidates == LookupsOf[Counted.model]
        lookups == candidates[list.candidate] IN
    /\ list.at = "price"
    /\ list.candidate <= Len(candidates)
    /\ \/ /\ list.lookup <= Len(lookups)
          /\ QueryWorks(TRUE)
          /\ LET key == lookups[list.lookup] IN
             IF key \notin DOMAIN prices
             THEN /\ list' = [list EXCEPT !.lookup = @ + 1]
                  /\ UNCHANGED <<recorded, prices, fetched, refreshes, stood, bills>>
             ELSE IF Priced(key) > 0 THEN Charge("pricing_table", Priced(key))
             ELSE ChargeEstimate
       \/ /\ QueryWorks(list.lookup > Len(lookups))
          /\ list' = [list EXCEPT !.candidate = @ + 1, !.lookup = 1]
          /\ UNCHANGED <<recorded, prices, fetched, refreshes, stood, bills>>

NoPrice ==
    /\ list.at = "price" /\ list.candidate > Len(LookupsOf[Counted.model])
    /\ ChargeEstimate /\ UNCHANGED queryTroubles

AnswerList ==
    /\ list.at = "count" /\ list.next > Len(list.events)
    /\ list' = [list EXCEPT !.at = "answered"]
    /\ UNCHANGED <<recorded, prices, fetched, refreshes, queryTroubles, stood, bills>>

LedgerNext ==
    \/ \E e \in Recordable : RecordEvent(e)
    \/ \E book \in Books : FetchPrices(book)
    \/ UpsertModelPricing
    \/ ReadEvents \/ CountOther \/ CountCall \/ LookUpPrice \/ NoPrice \/ AnswerList

LedgerSpec == LedgerInit /\ [][LedgerNext]_ledgerVars

-----------------------------------------------------------------------------
Billed == [i \in DOMAIN bills |-> list.events[i]]

\* A bill is what its event allows.  A price is one of the tables that stood while the list
\* was made.
Just(e, bill, tables) ==
    LET looked == UNION {{c[i] : i \in DOMAIN c} :
                           c \in {LookupsOf[e.model][j] : j \in DOMAIN LookupsOf[e.model]}} IN
    CASE bill.source = "provider_reported" -> bill.amount = e.reported
      [] bill.source = "pricing_table" ->
           e.reported = 0 /\ \E table \in tables, k \in looked :
                                k \in DOMAIN table /\ table[k] = bill.amount
      [] bill.source = "caller_estimated" -> e.reported = 0 /\ bill.amount = e.estimate
      [] bill.source = "unavailable" -> e.reported = 0 /\ e.estimate = 0 /\ bill.amount = 0
      [] OTHER -> bill.amount = IF e.type = "created" THEN e.estimate ELSE 0

\* The source that is told depends on the calls and not on their order.
SourceOf(sources) ==
    LET known == sources \ {"", "unavailable"} IN
    IF Cardinality(known) > 1 THEN "mixed"
    ELSE IF known # {} THEN CHOOSE s \in known : TRUE
    ELSE IF "unavailable" \in sources THEN "unavailable" ELSE ""

Total[n \in 0 .. Len(bills)] == IF n = 0 THEN 0 ELSE bills[n].amount + Total[n - 1]

\* The summary adds each call's cost up once, whatever is known of the call, in whichever
\* order the events come and however the table changes meanwhile, and tells where the
\* costs come from (session_usage.go:32-75, model_pricing.go:69-134).
CostsOnce ==
    /\ \A i \in DOMAIN bills : Just(Billed[i], bills[i], stood)
    /\ list.cost = Total[Len(bills)]
    /\ list.source = SourceOf({bills[i].source : i \in DOMAIN bills})
    /\ list.calls = Cardinality({i \in DOMAIN bills : IsCall(Billed[i])})
    /\ list.tokens = Cardinality({i \in DOMAIN bills : IsCall(Billed[i]) /\ Billed[i].usage # "none"})
    /\ list.at = "answered" => Len(bills) = Len(list.events)

================================================================================
