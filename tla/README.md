# Verification of the AI governance control plane

TLA+ models of the Governance Shell and the Orchestrator (`ai-agent-orch/internal`),
their TLC configurations and TLAPS proofs. Paths below are relative to
`ai-agent-orch/internal/` unless they begin with `docs/`.

Every definition is translated from the Go source; `PROJECT.json` ("map") gives
the lines each one stands for.

## 1. The system

A developer's tool opens a *session* with a prompt. The **Governance Shell** checks
policy, audits, stores the session and remembers the prompt in memory. It asks the
**Orchestrator** to route the prompt to a specialist agent, waits for the user to
*confirm* that agent, then has the Orchestrator *dispatch* the run in the background
and streams the result as server-sent events. The session can be aborted, and
continued with follow-up *turns*. Runtimes call models and tools through the
**model gateway** and the **MCP gateway**, which check session, policy and registry
first. Everything relevant is appended to a hash-chained **audit log** that the
Governance Shell and the Orchestrator write from two processes.

| Component | State | Operations | Who calls it | What is hard | What makes it correct |
|---|---|---|---|---|---|
| Session lifecycle (`governance/sessions`, `messages`, `runs`, `confirm`, `turns`, `abort`, `execution`) | row with status and routed agent (SQLite); maps of prompts and cancel functions, each with its own mutex | seven handlers, the background executor | HTTP clients; a goroutine per request and per execution | no lock spans two steps; unconditional status writes; deadlines; a crash loses the maps | approval audited before execution; a transient status is left again; abort is final and cancels; the prompt run is the one routed |
| Audit chain (`audit/hashchain`, `audit/sqlite`) | events, chain head row; per-process cache and mutex | append, read, verify, retention | both processes | two writers; clock read before the lock; times compared as text | one unforked chain; success means stored once; what is read back verifies |
| Event streams (`governance/stream`) | history, subscriber channels, closed sessions in order | Subscribe, Unsubscribe, Publish, Reopen, Close | executor, SSE handlers | overlapping executions; slow readers; eviction | no send on a closed channel; no gaps; readers end |
| Patch review (`governance/patch_*`) | buffered contents and known identifiers, a lifetime each | store, remember, publish; fetch, decide | executor, client | two maps written one after the other and evicted by different readers | what was shown stays open to review |
| Kill switch and admission (`governance/killswitch_store`, `admin`, `session_policy`) | table and copy in memory; sessions and denials | block, unblock, load; the gates of session creation | administrators, every gate | row and copy change one after the other | an answered block holds; every refusal is in the log |
| Model gateway (`modelgateway/gateway*`, `governance/model_proxy`, `session_auto_gateway`, `session_delegation`) | auto and delegated sessions | chat, responses, proxy, finish, delegate | runtimes | the status is checked once before a call of minutes; a client that leaves | every return finishes the session; an abort in between stands; work is logged |
| Streamed answers (`modelgateway/gateway_stream_util`, `gateway_tool_audit`) | translator, pipe, tracker of tool calls | translate, copy, track | a goroutine and the handler of a call | events of a provider in any order, renamed, repeated, cut | each tool call reaches client and log once and whole; nothing leaks |
| Dispatch (`orchestrator/dispatch_handler`, `dispatch/*`) | event channel, pending requests, agent process, workspace snapshot | start, request, read, emit, compare, collect | Governance Shell | two goroutines, a bounded channel, a process that dies | completed means whole; every goroutine ends; no send on a closed channel |
| Orchestrator's intake (`orchestrator/router`, `accept`) | cached outcome of catalog validation | accept, route | Governance Shell | validation outside the lock | routed by a recent catalog, on the record |
| Model router (`router`, `modelgateway/gateway_reasoning`, `gateway_dynamic_copilot`) | none | choose, fall back, cap the effort | model gateway | cycles and holes in the registry | no model outside the classification |
| Registry (`governance/registry*`) | use cases, workflows, manifests, evidence, cache outcomes | create, get, list | clients | ownership looked up apart from the record | acknowledged is listed; reads are one's own |
| Copilot tokens (`copilot`, `modelbackend/copilot`) | enrollments, cached bearers | login, refresh, exchange, logout | model calls, users | load, call, load, save with nothing held | the enrollment stays usable; no stale bearer; logout holds |
| Identity (`httpauth/oidc`) | key cache, channel of the running refresh | verify, refresh | every request | shared refresh; rotation | one refresh; withdrawn keys lapse |
| Compositions (`composition`) | stages per session | create, approve, complete, advance | users | requests name no stage | stages in their order |
| Ledger (`governance/session_usage`, `pricing`) | prices; audit events | refresh, summarise | list of sessions | prices change between look-ups | each call costs once |
| Policy engine, classifier, catalog parsing, context resolver, packager | none or configuration | evaluate, parse | gates | text | - |
| MCP gateway's own tools, model backends, command-line tools, agent bridge | client state | calls of the API | users | late answers | - |

## 2. Modules

| Module | What it is |
|---|---|
| `SessionLifecycle` | one session: row, maps, handlers, executor, faults |
| `AuditLog`, `AuditChain` | what an append promises; the chain over SQLite and its appenders, which refines it |
| `EventStore` | the streams of several sessions and the handlers that read them |
| `ModelGateway` | calls of runtimes, their sessions, delegation, the two proxies |
| `PatchReview`, `Admission`, `Registry`, `CopilotTokens`, `KeyCache`, `Routing`, `Compositions`, `SpecialistRouting`, `Ledger` | the services of the table above |
| `StreamBridge`, `Dispatch` | one streamed answer; one dispatch |
| `MCSessionLifecycle`, `MCAuditChain`, `MCEventStore`, `MCCompositions` | instances for TLC of one component |
| `MCServices`, `MCStreams` | instances for TLC of several independent components side by side |
| `SessionLifecycleProofs`, `AuditChainProofs`, `EventStoreProofs` | theorems on the module of that name |
| `ModelGatewayProofs` (and of `Routing`), `AdmissionProofs` (and of `SpecialistRouting`), `CredentialProofs` (of `KeyCache` and `CopilotTokens`), `DispatchProofs` (of `Dispatch` and `StreamBridge`), `HandlerProofs` (of `Compositions`, `PatchReview`, `Registry` and `Ledger`) | theorems on several modules |

`MCServices` has a variable `service` and `MCStreams` a variable `flow`, chosen at the
start: the services share no state that the models keep, so a behaviour exercises one
of them and leaves the others in an initial state. Nothing is lost, and the product of
their states is not built. A property that relates two components is stated in the
module that models both: admission with the kill switch, the gateway with sessions,
delegation and the log, patches with the executor that proposes them.

### SessionLifecycle

A *request* is one HTTP call, with a program counter that stops before every access
to shared state, because handlers hold no lock across two of them. An *execution*
is named after the request whose `RunAsync` started it; a prompt after the request
that submitted it.

| Variable | Code |
|---|---|
| `status`, `routedAgent` | the row of `sessions` (`session_store.go:17-63`) |
| `audit` | the session's events by type and request |
| `prompt`, `canceler` | `SessionService.prompts`, `.cancels` at this session's key |
| `stream` | `EventStore.closed` at this session's key |
| `pc`, `agent`, `carried`, `seen` | where a handler is, and its locals |
| `exec`, `ctx` | phase of `SessionExecutor.Run`; its context: live, or ended by an abort, its deadline or another execution's cleanup |
| `selection`, `lost`, `crashes` | history of the model |

Actions follow the handlers in source order: `Create*` (`createSession`), `Route`,
`SetAgent`, `SetStatus`, `AuditSelected`, `Remember` (`MessagesHandler`, and the tail
of `RunHandler`, which is the same), `Confirm*`, `Accept`, `Commit`, `Reset`
(`ConfirmHandler`), `Turn*` (`TurnsHandler`), `Forget`, `SetRunning`, `Register`
(`RunAsync`), `Abort*` (`AbortHandler`), `Exec*` (`Run`). Arrivals include the
handler's first read: a request that the first status check refuses changes nothing
and is left out. The Orchestrator is external here: each of its three calls answers
or fails. `GET /v1/sessions` shows a session from its INSERT on, so that other
requests may come before the creating one is answered.

Left out: rejected input, ownership and kill-switch refusals (no step of theirs
changes the session), `patches` (`PatchReview`) and `lastEventID`, the gateway secret,
and the events `runtime.started` and `runtime.done`, which no property reads.

### AuditChain

A *writer* is one call of `ChainAppender.Append`; its event and (hashes do not
collide) the event's hash carry its name. `table` is `audit_events` in rowid
order, `head` the session's row of `audit_chain_heads`, `cache` and `lock` the
appender of each process. `Begin` stamps the event, before `Lock` takes the mutex;
`Load` is `latestHash`; `AppendIfPrev` and `PrevMismatch` are the two outcomes of
the transaction, `AppendFails` any error (SQLITE_BUSY included); `Return` fills the
cache. `TextBefore` is the order SQLite gives to RFC3339Nano text, in which
trailing zeros are missing: with `Powers = {}` all times have the same number of
digits and the order is that of time; with `Powers = {2}` an even tick has a digit
fewer than an odd one.

### EventStore

Each method is one action, as all of them run under the store's mutex. A handler
drains its channel between them. The callers are not constrained: in
`SessionLifecycle` executions can overlap, a stale one can close a new stream, and
a follow-up turn can reopen a stream that is open (a turn whose routing failed has
left it open). The three sizes (history 128, buffer 64, closed streams 256) and the
limit of 500 connections are constants.

### ModelGateway

`call[c]` is the handler of one call: step, endpoint, whether it streams, its session,
the status it will leave (`finish`, what the deferred `finishGatewayAutoSession` was
given so far), what the provider sent (`result`), whether a Task tool call asks for a
child. `status` holds the rows, an auto session under the name of its call; `Shared` is
an interactive session. The check of the session, the audit of the decision, the
provider, the audit of the outcome, the delegated child's audit and row, and the end of
the session are one action each; appends and updates may fail, the client may leave,
the owner abort, the process restart. The proxies (`model_proxy.go`, `mcp_proxy.go`)
check no status and audit before they answer or forward. A gate (kill switch, policy)
may always refuse; `Admission` says when.

### StreamBridge and Dispatch

`StreamBridge`: `item`, `ended` and `style` are the provider, which announces tool calls,
sends pieces of arguments, ends, repeats and renames them in any order; `known` and
`held` the translator's map; `out` and `pipe` what it writes and the `io.Pipe`;
`tracker` the `toolCallAuditTracker`; `client` what has been sent. A provider of
`responses` that is asked for `responses` bypasses the translator. Arguments are the
tokens `1..Tokens`; text is a single kind of chunk.

`Dispatch`: `runner` is `runSession`, `reader` is `readLoop`, `dispatcher` the HTTP
handler; `events`, `shut`, `blocked` are the channel and the holder of `eventMu`;
`pending`, `reply` the requests over stdin; `agent`, `inbox`, `wire` the child process,
which answers, asks to write files, edits on its own, or dies, before and after its answers;
`late` and `stopped` the two deadlines. The direct and echo runtimes are one goroutine
(`last`). `files` is the workspace, `snapshot` the two captures whose comparison becomes a
patch. A capture leaves out, without an error, what lies in `.git`, `node_modules`, `dist`
and five more directories, what is not a regular file, files over 512 KiB and files with NUL
bytes (`acp_workspace.go:84-112`): `LeftOut` is any such set of files and contents, absent
files among them, and `Differing` compares what is left. `written` remembers what the agent
wrote through the client (`fs/write_text_file`) before the prompt's answer was read; later
writes are performed all the same, and their patches may be dropped.

A capture reads all files in one step. Not modelled: a child of the agent that keeps its
stdout open when the agent has been killed, and a write to the agent's stdin that blocks.

### The services of MCServices

* `PatchReview`: an execution goes through its events (`HandleEvent`), stores, remembers,
  publishes; a reviewer checks, fetches, decides. The clock and both lifetimes are
  explicit; `shown` is what clients of this process were told. Fails: appends; restarts.
* `Admission`: callers pass the gates in the order of `createSession` and
  `CreateAutoGatewaySession`; administrators change `rows`, then `copy`. `flaws` are what
  a request lacks; `barred` and `held` remember which blocks were answered when it came.
* `Registry`: `appended` and `named` are the tables of a database or of the process;
  a request checks the owner, acts, reads back, and filters a list by one owner look-up
  for each record, each of which may fail.
* `CopilotTokens`: GitHub issues grants, of which `live` ones still refresh and `due` ones
  are about to expire. A model call is load, refresh, load, upsert, load, exchange,
  cache, send; login and logout come between.
* `KeyCache`: a request looks up its key, joins or leads a refresh, waits for its channel;
  a leader fetches, stores, stamps, closes. `lastTold` is when a fetch last had the key.
* `Routing`: the registry is any function from aliases to permits and fallbacks; a query
  is refused or routed, its chain followed link by link, the effort capped.
* `Compositions`: each request takes the store's lock once and is one action; a client
  may post stages that claim to be complete and approved.
* `SpecialistRouting`: `cached` is `Router.cached`, written by every request that found
  nothing fresh; the files change; validation takes time and reads many files in turn
  (`catalog/validator.go:43-100`). `met` is what was on disk since a validation began: if
  that is one state its outcome is that of the state, otherwise an error or any of the
  agents of those states (`Validations`).
* `Ledger`: the list reads the events, then looks each price up in its own query, while a
  refresh replaces prices in one transaction; `stood` remembers the tables that stood.

## 3. Runs

Two requests in flight are enough for each pairwise race of handlers; further ones bring
the session into the states where the races begin. In each service two actors (calls,
executions, administrators, bearers) and one failure are enough for every window between
two of its steps to be met by a step of the other; three aliases make a cycle, a chain
and a hole; two stages are all that `MaxDepth` lets in, three are posted to be refused.

| Run | Bounds | Shows |
|---|---|---|
| `session_concurrent` | 4 requests, 2 in flight; database and audit errors, deadline | `TransientHasOwner`, `SoleExecutionCancelable`, `SealedStaysSealed` |
| `session_serial` | 4 requests one after another, 2 agents; Orchestrator errors, expiry, deadline, 1 crash | `RunsWhatWasRouted`, `OneExecution`, `AbortCancelsAll` for a client that waits for each answer |
| `session_faults` | 3 requests, 2 in flight; all seven kinds of fault, 1 crash; fairness | `ApprovedBeforeRunning`, `TransientIsLeft` |
| `chain_overlap` | 2 + 1 calls of two processes, 3 in flight, store errors, 1 restart, 1 purge, two text widths, 2 ticks; fairness | `ChainIsLinear`, `ImplementsLog`, `AppendsEnd` |
| `chain_sequential` | 3 + 2 calls one after another, equal precision, restart, purge, 3 ticks | `ChainVerifies`, `ConflictNeedsRival` |
| `event_streams` | 2 handlers; a stream of 3 events and 1 reopening, and one whose end evicts it; buffer 1, history 2, 1 closed stream kept; fairness | `ListedIsOpen`, `NoGaps`, `EndIsTold`, `ReadersEnd` |
| `streams` | 2 tool calls of 2 tokens; 1 file with 3 contents, one of which a capture leaves out, a channel of 1 event, 1 line in the pipe, 1 line that answers nothing, edits between the captures; fairness | `ToolCallsReachTheClient`, `RecordTellsTheCalls`, `TranslatorEnds`; `CompletedIsWhole`, `NoSendOnClosed`, `RuntimeEnds` |
| `services` | gateway: a chat, responses or tool call, a proxy call, an interactive session, 1 failure; patches: 2 executions of 1 session, 1 patch, 2 events, 2 minutes; 1 caller, 2 administrators, 2 changes, 1 failure; 2 registry requests, 1 record id, 1 outage; 2 model calls, 1 login, 1 logout, 2 grants, 1 failure; 2 bearers, 2 keys, 1 rotation, lifetime 1; 3 aliases; 2 users, 2 stages; 2 prompts, 1 edit, lifetimes 2 and 1, time 3; 3 events, 1 price refresh | the sixteen properties of the services, below |
| `session_abort_final`, `chain_stamp_order`, `copilot_logout`, `composition_complete` | smallest instances | a documented claim and its counterexample (section 6) |

`services`: `RunningIsOwned`, `StatusTellsTheEnd`, `AbortHolds`, `WorkIsLogged` (gateway);
`ShownIsReviewable` (patches); `SwitchesAgree`, `BlockHolds`, `AnswerIsLogged`
(admission); `RegistryIsFaithful` (what was acknowledged is listed, reads are one's own);
`EnrollmentHolds` (no bearer of a replaced enrollment, refresh tokens stay usable);
`SingleFlight`, `WithdrawnKeysLapse` (keys); `RoutedWithinPolicy`; `StagesInOrder`;
`RoutedByTheCatalog`; `CostsOnce`.

`CHECK_DEADLOCK FALSE` everywhere but `composition_complete`: requests, calls and events
are finitely many and clients may stop. `"evict"`, the loss of a cancel function to
`LocalStateTTL`, needs an execution timeout above that (10 and 30 minutes by default), so
it is a fault of its own, and `SoleExecutionCancelable` excludes it. Symmetry is used in
runs that check safety only. `Swaps` of `services` swaps the members of every set of
interchangeable actors at once: only one service leaves its initial state, so for each
behaviour this is the exchange of that service's own actors.

**Fairness.** `SessionLifecycle`: weak fairness of each handler and each executor. Go
runs every goroutine, database and Orchestrator calls answer or fail, and a dispatch
ends at the latest when the execution's deadline cancels its context. No fairness on
arrivals or faults: clients need not come back. `AuditChain`: weak fairness of each
call; `sync.Mutex` does not starve a waiter and SQLite answers or fails after its
busy timeout. `EventStore`: weak fairness of each handler, whose writes have a
deadline of five seconds (`governance/stream.go:204-207`); none on publishing.
`StreamBridge`: the goroutine and the handler run (`Passes`), and a provider breaks off
once the request is cancelled; it need not say anything before. `Dispatch`: runner,
reader, handler and the bounded waits run, and an agent whose context has ended is
killed; it need not answer, and need not die before.

Each property of a passing run has in `PROJECT.json` a mutant of the code's model that
breaks it: a dropped guard, a missing reset, two steps swapped, a slip by one.

## 4. What is proved

For every value of the constants. Assumptions are those the modules name, or stand as
hypotheses of the theorem: that the constant for "nobody" is not somebody
(`GatewayAssumption`, `Nobody \notin Bearers`, `NoChange \notin Switch`), that clients post
sequences of stages (`Bodies \subseteq Seq(Stage)`), requests are records of a kind and
flaws (`AsksAssumption`), lifetimes are numbers and developers are finitely many, that no
request is named like a record there was before (`RegistryConstants`), that the picker is
none of the registry's aliases and Copilot's is one (`RoutingConstants`), that catalog
entries live at least one unit of time (`IntakeConstants`), that tokens, prices and
estimates are not negative (`LedgerConstants`), that what a capture leaves out are files with
contents (`DispatchConstants`), that there is a number of tool calls and of
tokens in their arguments, none included (`BridgeConstants`). Some properties hold only for a client
that waits for each answer (`MaxInFlight = 1`, with finitely many requests), or only while
some kind of failure stays away; section 6 has the traces without. Each hypothesis is one
that some run of section 3 satisfies, and each invariant below was checked by TLC on the
constants of its component's run, or smaller ones, before it was proved.

* `TypeCorrect`. The type invariant of `SessionLifecycle` is inductive by itself.
* `ApprovedAlways`: no execution starts before its approval is audited. The
  inductive `ApprovalInv` adds the confirm that has audited and not yet committed
  (`pc = "commit"`); every step keeps it because the audit set only grows.
* `TransientAlwaysOwned`: `TransientHasOwner` is inductive over `TypeOK`. A step that
  enters a transient status makes its request the owner; one that ends an ownership
  writes the row, loses a write, or finds the status changed by someone else.
* `AlwaysCancelable`: `CancelerIsLive` and `SoleExecutionCancelable` are inductive
  only together: a cleanup empties the entry of its own execution because the entry
  is live and there is no other.
* `AbortedForGood`: an aborted session that has drained stays so. This is an action
  property: every gate refuses "aborted", and past them nobody is left.
* `AlwaysRunsWhatWasRouted` (one request in flight, no failing audit append): an execution
  gets a prompt with the agent picked for it. `OneRequest` says that whoever takes a step is
  alone, `RoutingInv` at which places the row has an agent and a handler has picked one,
  and `SelectionInv` follows the pair of prompt and agent from the Orchestrator's answer
  through row and map to the confirm and the turn. A failed append leaves an earlier prompt
  beside a newer agent, which is why it is excluded.
* `AlwaysOneExecution`, `AbortAlwaysCancels` (one request in flight, no failing status
  write, and for the second no eviction of a cancel function): `SerialInv` says that while
  an execution has not written its result the row is "running" or "aborted", nobody is past
  a gate that those refuse, and the map has the execution's cancel function.
* `ChainAlwaysLinear`: the inductive `StoreInv` holds the chain and its head
  together; a writer's local hash and the caches may be anything, because the
  compare-and-append is what decides.
* `ChainImplementsLog`: refinement of `AuditLog` under
  `log = names of the table's events`, `answer` read off the program counters; each
  step is an abstract step or a stutter.
* `ChainAlwaysVerifies`, `ConflictAlwaysNeedsRival` (one append at a time, and
  `TextOrdersTime`: no stamp's text is a prefix of another's): what is read back verifies,
  and an append never gives up. `OrderInv` adds to `StoreInv` that rows stand in the order
  of their stamps, so that the newest by time is the head, and how much a call still knows:
  after a first conflict the cache is fresh or the table purged, after a second it is empty.
* `ListedAlwaysOpen`: whatever the callers of the event store do, subscriber lists
  hold open channels of handlers of that session, so no send or close panics.
* `DeliveryHasNoGaps`: a reader that was not dropped gets what was published, in order and
  of one turn. `DeliveryInv` says of each history that it is the last part of what was
  published, and of each subscriber that what it has read and what is in its buffer reach as
  far as the store; a full buffer drops the subscriber, which is what keeps this.
* `EndAlwaysTold`: the last event of a channel that was closed on its reader, and of the
  history of an ended stream, is "done". It takes `DeliveryInv`, and `LineInv`: the line of
  the ended streams holds each of them once, so that an eviction forgets the stream it took
  from the line and no other.
* `AutoAlwaysOwned`, `StatusAlwaysTells`, `AbortAlwaysHolds`, `WorkAlwaysLogged`: a running
  auto session has a call that will end it, its last status is what the call came to, an
  answered abort stands, and what was done for a runtime is in the log. They are read off
  one invariant, `GatewayInv`: what each place in a handler implies for its session
  (`PlaceInv`, `OwnInv`), for the status it is about to write (`EndInv`) and for the log
  (`LogInv`), and that an abort has a session whose row exists (`AbortInv`).
* `NeverSendsOnClosed`: nothing is sent on a dispatch's closed channel. `ChannelInv` keeps
  the kinds of runtime apart: the ACP runner closes under the mutex, when nobody is
  blocked; a fallback closes when its only goroutine has nothing left.
* `CompletedAlwaysWhole`: a dispatch is reported completed only when the Shell has been
  sent the end, no error, every file that the agent wrote through the client before its
  answer was read, and, when the workspace was captured twice, every file on which the
  captures differ, unless both leave it out. Nothing is claimed of what no capture sees,
  nor of what the agent does after its answer (section 6). `WholeInv` follows each of these
  on its way: the runner asks only when it has emitted everything, and compares only a
  second capture, after the prompt's answer (`RequestInv`); the context ends with the runner
  or at the deadline (`StopInv`); and unless the deadline has passed, what happened is in a
  goroutine's hands, in the channel, or with the handler (`OutcomeInv`).
* `TheClientHasItsCalls`, `TheRecordHasTheCalls`: a chat client that was sent the end of a
  whole answer holds each tool call once, whole, under an index of its own, and was told so
  in time; a completed stream is recorded with exactly those calls, in either protocol. No
  invariant of what the client has by now would do: an event changes what the translator
  holds at once and the client only chunk by chunk. `BridgeInv` therefore speaks of what
  client and tracker *will* have when the pending chunks are forwarded (`Fed`, `Observed`):
  a forwarded chunk leaves that alone, and an event changes it as it changes what the
  translator holds (`Settled`). A call is behind only while the provider writes under an
  identifier the translator does not know (`Holds`, `KnownIds`); the end of its item makes
  up for it (`Missing`). A new call gets an index that no other has: the
  provider's, or the number of identifiers known, which has grown since each earlier call
  (`Indexed`, `Apart`). For the responses protocol
  `ResponsesView` says where the tracker keeps a call: under its item's identifier until
  that is known to be the call's, and under the call's from then on.
* `AlwaysSingleFlight`: one refresh of the signing keys, and whoever waits has one to
  wait for. `KeyInv` adds only types: what makes `SingleFlight` inductive is that it
  names the leader.
* `WithdrawnKeysAlwaysLapse`: a token is not accepted on a key that the provider has not
  named for `KeyTTL`. `LapseInv` follows the key of each request back to the fetch that
  named it; a request whose refresh failed while it waited is excepted (`misled`).
* `AlwaysInOrder`: stages are worked on in their order. `StoreInv` says how a composition
  relates to the stages it was posted with; each request touches the current stage only,
  and keeps the input it was handed.
* `ShownAlwaysReviewable`: a patch that a stream has shown can be fetched and decided
  while its contents are kept. It does not say that they are the ones shown, should an
  agent use a patch's identifier again. `ReviewInv` follows a patch from its storing to its showing:
  a younger entry than the execution's is in the buffer from "stored" on, and among the
  known identifiers from "remembered" on, and evictions take only what is too old.
* `EnrollmentAlwaysHolds`: no call sends a bearer of an enrollment replaced before the call
  began, and overlapping refreshes leave a refresh token that works. `TokensInv` says where
  a grant is: with the one call or login that brings it (`OnTheWay`), in one record
  (`RecordsApart`), or replaced; that only calls of one actor hold it (`CallsHold`), that a
  cached bearer is of the grant it is filed under (`CacheTells`), and that a refresh token
  came with its access token or is never used up (`Refreshes`). Two refreshes of one actor
  can then only spend a token that one of them is about to replace.
* `SwitchesAlwaysAgree`: table and copy of the kill switch agree where no administrators
  race. `SwitchInv` adds what an administrator in progress knows: alone on its target and
  past its row, the row is as it wants; before its row, row and copy agree.
* `AnswersAlwaysLogged`: `LogInv` says for each step of a request what is in the log and
  the table by then (`Told`), so that every answer finds what it claims.
* `BlockAlwaysHolds`: an answered block keeps out every later request. `BlockInv` says
  that a held target is *firm*: in the copy, in the rows of a durable switch, and with no
  administrator about to unblock it; firmness survives failed writes and restarts.

* `NothingLostNothingLeaked`: what a request registered is listed for every later reader
  who may see it, and nobody else's is. `RegistryInv` says for each table which
  acknowledged requests its records come from and which are there (`Traced`, `Stored`), and
  for a list under way which part of the table it holds and how many look-ups it has done.
* `DecisionsKeepToPolicy`: every alias of a routing decision, its fallbacks included, is
  permitted and available, the chain ends where policy ends it, and the effort stays under
  both caps. `RoutingInv` follows the chain link by link.
* `RoutesByARecentCatalog`: a prompt is routed by what a validation finds in the files as
  they were within the cache's lifetime and the time validation takes; without a change in
  that time this is the catalog on disk. `IntakeInv` says of the cache and of each request
  how old what it holds may be and which states of the files it may stem from; time that
  passes makes it older, and who meets more may find more (`ValidationsGrow`).
* `EachCallCostsOnce`: a summary bills each call once, by what its event and one of the
  tables that stood allow. `LedgerInv` keeps the running sums and the source that is told
  in step with the bills. That the recursive `Total` is the running sum is shown from the
  least number at which the two would differ, which needs no induction schema.

Every safety property of a passing run, invariants and action properties, has its theorem.
Only model-checked are the liveness properties (`TransientIsLeft`, `AppendsEnd`,
`ReadersEnd`, `TranslatorEnds`, `RuntimeEnds`): the prover does not do fairness.

## 5. Not modelled

`PROJECT.json` gives each component its reason. In short:

* *Text*: classifier, command allowlist, secret patterns, request rewriting, catalog and
  context parsing, workspace packaging, wire formats. They keep no state.
* *Clients and test doubles*: command-line tools, smoke tests, the agent bridge. The
  servers' models let clients send anything in any order.
* *Other services*: the HTTP clients of model providers; what they may answer is
  enumerated where they are called. The MCP gateway's own tools are each one call of a
  service modelled here; its SSE transport has one handler and one channel per
  connection and is not modelled.
* *The file backend of the audit log* and its import: a migration for one process.
* Configuration, wiring, logging, metrics and status pages, which read and count.

## 6. Disagreements found

Each of these has a run whose trace shows it.

* **Abort is not final** (`session_abort_final`, `governance/messages.go:156`,
  `runs.go:130`). A routing call that was under way when the session was aborted writes
  `awaiting_confirmation` over `aborted`, and model calls are admitted again
  (`docs/api-contract-v1.md:69`).
* **Overlapping appends break verification** (`chain_stamp_order`,
  `audit/hashchain.go:61-70`). The time is taken before the lock: the chain is right, its
  order by time is not.
* **A logout is undone** (`copilot_logout`, `copilot/store.go:250`). A refresh that loaded
  the enrollment saves it again after the logout was answered
  (`docs/api-contract-v1.md:92`).
* **A complete composition is not complete** (`composition_complete`,
  `composition/composition.go:72`). `CanProceed` never leaves the second stage.

These are shown by other searches on the same modules, which are not part of the runs:

* A cleanup cancels the next turn (`governance/execution.go:51`): an executor writes
  `done`, then audits, then calls `cancelExecution` for the session; a follow-up turn
  started in between loses its context (`NoExecutionSwept` of `SessionLifecycle`). On the
  failure path (`:85`, `:107`) it loses its stream (`FollowUpStreams`). Both are violated
  under the constants of `session_concurrent` without its faults.
* An append refused for ever (`audit/hashchain.go:96`, `sqlite.go:232,307`): `latestHash`
  goes by text order, the head row by insertion. Once they differ, a process with an old
  or empty cache entry gets "concurrent append conflict" on every call:
  `ConflictNeedsRival`, and `ChainVerifies` too, in `chain_sequential` with `Powers = {2}`.
* With two requests in flight `OneExecution` fails (two turns pass `turns.go:91`
  together), and with it `AbortCancelsAll`; `RunsWhatWasRouted` fails too (a message
  re-routes the session between the check of the agent, `confirm.go:92`, and the claim at 96).

These were met while translating and are built into the models as the code has them:

* A completed dispatch may hide changes of the workspace: what both captures leave out
  (`dispatch/acp_workspace.go:84-112`) is in no patch and no note says so, and when a
  capture fails there is only a note in the stream (`125`). A file that the agent writes
  through the client after the prompt's answer is written (`acp_runtime.go:417`), while its
  patch is dropped once the runtime has stopped or closed the channel (`514-525`).
  `CompletedIsWhole` excepts both.
* Validating a catalog that is being changed may report agents of the old and of the new
  one together, and the report is kept for 30 seconds (`orchestrator/router.go:177-197`).
* The session is opened for confirmation before the routing decision is audited
  (`governance/messages.go:163`; `CONTRIBUTING.md:37` wants every decision audited).
* `runtime.failed` is never appended when the execution's context has ended
  (`execution.go:86`; promised in `docs/api-contract-v1.md:127-134`); an answer's audit is
  lost when the client has gone (`modelgateway/gateway.go:385-387`;
  `docs/model-compatibility-gateway.md:406`).
* An auto session of a raw call without streaming is finished "failed" although it was
  answered (`gateway.go:265-285`). The bridge ends a truncated answer like a whole one
  (`gateway_responses.go:229-230`), and loses arguments of which only the final event
  arrives (`gateway_stream_util.go:478-501`).
* Two administrators on one target can leave table and copy of the kill switch apart
  until the next change (`killswitch_store.go:10`); hence `raced`.
* `createManifest` reads its record back by name and may answer with another request's
  (`registry.go:546`), so `RegistryIsFaithful` does not look for a replaced manifest; a
  list leaves out records whose owner look-up failed (`620-623`).
* A failed `Delete` is answered as a logout (`copilot_handler.go:247`); a refresh whose
  save fails loses a rotated token. The minimum interval between key fetches is not kept
  by lazy refreshes and failed ones, and a waiter of a failed refresh goes on with the
  keys there are (`httpauth/oidc.go:50`, `363-386`); hence `misled`.
* The human gate between stages (`composition.go:28`) is passed by a posted body that is
  already approved, by an approval before completion, and by completing again; a repeated
  approval approves the next stage. Advancing a composition of one stage changes the store
  and then panics (`composition_handlers.go:191`).
* A decided patch counts twice in `patch_count` (`sessions.go:398-405`); usage of the
  responses API is never priced from the table.

## 7. Further work

Composing `SessionLifecycle` with `EventStore`, so that the callers of Reopen and Close
are the real ones; an abstract session (open, running, ended) that `SessionLifecycle` and
`ModelGateway` both implement; the transport of the MCP gateway, whose SSE handler may
return while a message is being written.
