------------------------------ MODULE StreamBridge ------------------------------
(***************************************************************************)
(* One streamed answer of the model gateway.  A provider that only speaks  *)
(* the responses protocol to a chat client is translated: a goroutine      *)
(* reads the provider's events and writes chat chunks into an io.Pipe, and *)
(* handleStream copies the chunks to the client ("bridge").  A responses   *)
(* client gets the provider's events as they are ("responses").  In both,  *)
(* a tracker collects the tool calls for the audit log.  The provider may  *)
(* stop or break at any event, and the client may leave at any moment.     *)
(*                                                                         *)
(* A tool call's arguments are the tokens 1..Tokens; texts, names and the  *)
(* JSON around them are left out.                                          *)
(***************************************************************************)
EXTENDS Naturals, Sequences, FiniteSets, SequencesExt, Functions

CONSTANTS
    Tools,     \* the tool calls of the answer, numbered from 1
    Tokens     \* length of the arguments of a tool call

ASSUME BridgeConstants == Tools \in Nat /\ Tokens \in Nat

VARIABLES
    mode,      \* "start", "bridge", "responses" or "refused"
    style,     \* how this provider writes: [indexed, renames]
    item,      \* the provider's progress with each tool call
    ended,     \* how the provider's stream ended, "no" while it has not
    known,     \* the item identifiers in the translator's map toolCalls
    held,      \* Index and Arguments of the translator's tool calls
    out,       \* chunks the translator has yet to write to the pipe
    pipe,      \* "open", or who closed it and how
    handler,   \* "reading", or the outcome the handler has recorded
    tracker,   \* the handler's toolCallAuditTracker
    client,    \* what the client has been sent
    gone       \* has the client left (the request's context is cancelled)

provider == <<style, item, ended>>
bridgeVars == <<mode, provider, known, held, out, pipe, handler, tracker, client, gone>>

Calls == 1..Tools
FirstTokens(n) == [i \in 1..n |-> i]
AllTokens == FirstTokens(Tokens)

\* An item of the provider has an identifier of its own; a provider that renames
\* announces it under another one than it uses from then on.
Ids == Calls \X {"announced", "final"}
Id(c, event) == <<c, IF style.renames /\ event = "added" THEN "announced" ELSE "final">>

\* The index of a tool call in the chat stream: the provider's, or how many identifiers
\* the translator knows, which is up to two for each call.
Indices == 0..(2 * Tools)

Keys == ({"index"} \X Indices) \cup ({"item"} \X Ids) \cup ({"call"} \X Calls)

NewTracker == [keys |-> {}, alias |-> [k \in Keys |-> k], args |-> [k \in Keys |-> <<>>]]

BridgeInit ==
    /\ mode = "start"
    /\ style \in [indexed : BOOLEAN, renames : BOOLEAN]
    /\ item = [c \in Calls |-> [announced |-> 0, sent |-> 0, told |-> FALSE, done |-> FALSE]]
    /\ ended = "no" /\ known = {} /\ out = <<>> /\ pipe = "open" /\ handler = "reading"
    /\ held = [c \in Calls |-> [index |-> 0, args |-> <<>>]]
    /\ tracker = NewTracker
    /\ client = [started |-> <<>>, args |-> [i \in Indices |-> <<>>],
                 finish |-> 0, done |-> FALSE, late |-> FALSE]
    /\ gone = FALSE

-----------------------------------------------------------------------------
(* Starting the stream.                                                    *)

\* The backend's shape and its answers decide who reads the provider's stream:
\* startChatStream tries chat first unless the model is known to have no chat
\* endpoint, and translates when the backend says so.
StartChatStream(raw, responses, gpt5, chat, translated) ==
    LET bridge == IF translated THEN "bridge" ELSE "refused"
    IN  CASE raw /\ responses /\ gpt5 -> bridge
          [] ~raw \/ chat = "ok"      -> "chat"
          [] responses /\ chat = "responses_only" -> bridge
          [] OTHER -> "refused"

Start ==
    /\ mode = "start"
    /\ \/ \E raw, responses, gpt5, translated \in BOOLEAN,
             chat \in {"ok", "responses_only", "error"} :
             LET m == StartChatStream(raw, responses, gpt5, chat, translated)
             IN  m # "chat" /\ mode' = m
       \/ mode' \in {"responses", "refused"}
    /\ handler' = IF mode' = "refused" THEN "failed" ELSE handler
    /\ UNCHANGED <<provider, known, held, out, pipe, tracker, client, gone>>

-----------------------------------------------------------------------------
(* The tool-call tracker of the audit log.                                 *)

\* Mutant: the alias is set and what was kept stays where it was.
moveAliasOnly(t, from, to) == [t EXCEPT !.alias[from] = to]

\* moveAlias: from now stands for to, and what was kept under from moves along.
moveAlias(t, from, to) ==
    [alias |-> [t.alias EXCEPT ![from] = to],
     keys  |-> IF from \in t.keys THEN (t.keys \ {from}) \cup {to} ELSE t.keys,
     args  |-> IF from \in t.keys THEN [t.args EXCEPT ![to] = t.args[from], ![from] = <<>>]
                                  ELSE t.args]

remember(t, key, args, append) ==
    LET k == t.alias[key]
    IN  [t EXCEPT !.keys = @ \cup {k},
                  !.args[k] = IF args = <<>> THEN @ ELSE IF append THEN @ \o args ELSE args]

\* ObserveChatCompletionSSELine for one chunk of the translator.
ObserveChat(t, chunk) ==
    CASE chunk.kind = "start" ->
           remember(moveAlias(t, <<"index", chunk.index>>, <<"call", chunk.call>>),
                    <<"call", chunk.call>>, <<>>, TRUE)
      [] chunk.kind = "args" -> remember(t, <<"index", chunk.index>>, chunk.args, TRUE)
      [] OTHER -> t

\* observeResponsesItem: a function_call item with its identifiers.
ObserveItem(t, c, id, args) ==
    remember(moveAlias(t, <<"item", id>>, <<"call", c>>), <<"call", c>>, args, FALSE)

\* observeResponsesOutput: the items of the final event, one after another; none touches
\* what is kept of another call.
Own(c) == {<<"call", c>>, <<"item", <<c, "final">>>>}

ObserveOutput(t) ==
    LET told == {c \in Calls : item[c].announced > 0}
        after(c) == ObserveItem(t, c, <<c, "final">>, FirstTokens(item[c].sent))
        of(k) == IF \E c \in told : k \in Own(c) THEN after(CHOOSE c \in told : k \in Own(c)) ELSE t
    IN  [keys  |-> {k \in Keys : k \in of(k).keys},
         alias |-> [k \in Keys |-> of(k).alias[k]],
         args  |-> [k \in Keys |-> of(k).args[k]]]

\* ObserveResponsesSSELine.  The final event carries the whole output.
ObserveResponses(t, e) ==
    CASE e.type \in {"added", "item_done"} -> ObserveItem(t, e.call, e.id, e.args)
      [] e.type = "delta"     -> remember(t, <<"item", e.id>>, e.args, TRUE)
      [] e.type = "args_done" -> remember(t, <<"item", e.id>>, e.args, FALSE)
      [] e.type \in {"completed", "incomplete"} ->
           ObserveOutput(t)
      [] OTHER -> t

-----------------------------------------------------------------------------
(* The translator: what one event makes it write and keep.                 *)

StartChunk(c, i)   == [kind |-> "start", call |-> c, index |-> i]
ArgsChunk(i, args) == [kind |-> "args", index |-> i, args |-> args]
Finish == [kind |-> "finish"]
Usage  == [kind |-> "usage"]
DoneChunk   == [kind |-> "done"]

ArgsChunks(i, args) == IF args = <<>> THEN <<>> ELSE <<ArgsChunk(i, args)>>

\* streamedToolCallByCallID and the lookups by item.
Seen(c) == \E id \in known : id[1] = c

\* Mutant: what the client was sent already is not subtracted.
MissingAll(args, full) == full

\* writeMissingToolArguments: the part of full the client has not been sent, or all
\* of it when what it was sent is no prefix.
Missing(args, full) ==
    IF IsPrefix(args, full) THEN SubSeq(full, Len(args) + 1, Len(full)) ELSE full

\* Mutant: the finish reason is left out.
CallFinishNever == <<>>

CallFinish == IF known # {} THEN <<Finish>> ELSE <<>>

\* Index and arguments of a call not seen before; at the end of an item the index is
\* given as 0.
Fresh(e) ==
    [index |-> IF e.type = "item_done" THEN 0
               ELSE IF style.indexed THEN e.call ELSE Cardinality(known),
     args  |-> e.args]

\* An update of a call that is held: the missing arguments are written.
CompleteCall(e) ==
    /\ held' = IF e.args = <<>> THEN held ELSE [held EXCEPT ![e.call].args = e.args]
    /\ out'  = IF e.args = <<>> THEN <<>>
               ELSE ArgsChunks(held[e.call].index, Missing(held[e.call].args, e.args))

Translate(e) ==
    CASE e.type \in {"added", "item_done"} ->
           /\ known' = known \cup {e.id}
           /\ IF Seen(e.call) THEN CompleteCall(e)
              ELSE /\ held' = [held EXCEPT ![e.call] = Fresh(e)]
                   /\ out' = <<StartChunk(e.call, Fresh(e).index)>> \o
                             (IF e.type = "added" THEN ArgsChunks(Fresh(e).index, e.args) ELSE <<>>)
      [] e.type = "delta" ->
           /\ UNCHANGED known
           /\ IF e.id \in known
              THEN /\ held' = [held EXCEPT ![e.call].args = @ \o e.args]
                   /\ out' = ArgsChunks(held[e.call].index, e.args)
              ELSE UNCHANGED <<held, out>>
      [] e.type = "args_done" ->
           /\ UNCHANGED known
           /\ IF e.id \in known THEN CompleteCall(e) ELSE UNCHANGED <<held, out>>
      [] e.type \in {"completed", "incomplete"} ->
           out' = CallFinish \o <<Usage, DoneChunk>> /\ UNCHANGED <<known, held>>
      [] e.type = "[DONE]" -> out' = CallFinish \o <<DoneChunk>> /\ UNCHANGED <<known, held>>
      [] OTHER -> out' = <<[kind |-> "text"]>> /\ UNCHANGED <<known, held>>

-----------------------------------------------------------------------------
(* The client, the pipe and the handler.                                   *)

\* A chat client gathers the chunks of a tool call by their index.
Receive(cl, chunk) ==
    [started |-> IF chunk.kind = "start" THEN Append(cl.started, <<chunk.call, chunk.index>>)
                                        ELSE cl.started,
     args    |-> IF chunk.kind = "args" THEN [cl.args EXCEPT ![chunk.index] = @ \o chunk.args]
                                       ELSE cl.args,
     finish  |-> IF chunk.kind = "finish" THEN cl.finish + 1 ELSE cl.finish,
     late    |-> cl.late \/ (chunk.kind \in {"start", "args"} /\ cl.finish > 0),
     done    |-> cl.done \/ chunk.kind = "done"]

\* Mutant: the handler does not close its reader.
LeaveOpen(outcome) == handler' = outcome /\ gone' = TRUE /\ pipe' = pipe

\* The handler returns with an outcome: it closes its reader, and the request's
\* context ends with it.
LeaveBridge(outcome) ==
    /\ handler' = outcome
    /\ gone' = TRUE
    /\ pipe' = IF mode = "bridge" /\ pipe = "open" THEN "closed_by_reader" ELSE pipe

\* handleStream takes the chunk the translator is writing; a cancelled request is
\* noticed here, between two lines.
Forward ==
    /\ mode = "bridge" /\ handler = "reading" /\ out # <<>> /\ pipe = "open"
    /\ IF gone
       THEN LeaveBridge("failed") /\ UNCHANGED <<out, tracker, client>>
       ELSE /\ tracker' = ObserveChat(tracker, Head(out))
            /\ client' = Receive(client, Head(out))
            /\ out' = Tail(out)
            /\ UNCHANGED <<handler, pipe, gone>>
    /\ UNCHANGED <<mode, provider, known, held>>

\* The translator closes the pipe after its last chunk: at the end of the answer or of
\* the provider's stream, with an error when that broke.
CloseWriter ==
    /\ mode = "bridge" /\ out = <<>> /\ pipe = "open"
    /\ ended # "no"
    /\ pipe' = IF ended = "broken" THEN "error" ELSE "closed"
    /\ UNCHANGED <<mode, provider, known, held, out, handler, tracker, client, gone>>

\* A write to a pipe whose reader is closed fails, and so does the close at the end of
\* the provider's stream: the translator returns.
WriteFails ==
    /\ mode = "bridge" /\ pipe = "closed_by_reader" /\ (out # <<>> \/ ended # "no")
    /\ pipe' = "abandoned" /\ out' = <<>>
    /\ UNCHANGED <<mode, provider, known, held, handler, tracker, client, gone>>

\* The end of the pipe reaches the handler.
ReadEnd ==
    /\ mode = "bridge" /\ handler = "reading" /\ pipe \in {"closed", "error"}
    /\ handler' = IF pipe = "closed" /\ client.done THEN "completed" ELSE "failed"
    /\ gone' = TRUE
    /\ UNCHANGED <<mode, provider, known, held, out, pipe, tracker, client>>

\* handleResponsesStream: the provider's event goes to the client as it is.
Pass(e) ==
    /\ IF gone
       THEN handler' = "failed" /\ UNCHANGED <<tracker, client>>
       ELSE /\ tracker' = ObserveResponses(tracker, e)
            /\ client' = IF e.type = "completed" THEN [client EXCEPT !.done = TRUE] ELSE client
            /\ UNCHANGED handler
    /\ UNCHANGED <<known, held, out, pipe, gone>>

\* How handleResponsesStream classifies the end of the stream.
Outcome(how) ==
    CASE how = "incomplete" -> "incomplete"
      [] how \in {"completed", "[DONE]"} -> "completed"
      [] OTHER -> "failed"

\* The connection may still break after the last event.
PassEnd ==
    /\ mode = "responses" /\ handler = "reading" /\ ended # "no"
    /\ handler' \in {Outcome(ended), "failed"} /\ gone' = TRUE
    /\ UNCHANGED <<mode, provider, known, held, out, pipe, tracker, client>>

-----------------------------------------------------------------------------
(* The provider, one event at a time when the reader asks for it.          *)

Deliver(e) ==
    /\ ended = "no"
    /\ \/ /\ mode = "bridge" /\ out = <<>> /\ pipe = "open" /\ ~gone
          /\ Translate(e)
          /\ UNCHANGED <<handler, pipe, tracker, client, gone>>
       \/ /\ mode = "responses" /\ handler = "reading"
          /\ Pass(e)
    /\ UNCHANGED <<mode, style>>

Event(type, c, args) == [type |-> type, call |-> c, id |-> Id(c, type), args |-> args]

\* A call is announced, without arguments or with all of them; a provider that renames
\* may announce it again under its final identifier.
Added(c) ==
    /\ \E whole \in BOOLEAN :
          /\ item[c].announced = 0
          /\ item' = [item EXCEPT ![c].announced = 1, ![c].sent = IF whole THEN Tokens ELSE 0]
          /\ Deliver(Event("added", c, IF whole THEN AllTokens ELSE <<>>))
    /\ UNCHANGED ended

AddedAgain(c) ==
    /\ style.renames /\ item[c].announced = 1 /\ item[c].sent = 0 /\ ~item[c].done
    /\ item' = [item EXCEPT ![c].announced = 2]
    /\ Deliver([Event("added", c, <<>>) EXCEPT !.id = <<c, "final">>])
    /\ UNCHANGED ended

Delta(c) ==
    /\ item[c].announced > 0 /\ item[c].sent < Tokens /\ ~item[c].told /\ ~item[c].done
    /\ item' = [item EXCEPT ![c].sent = @ + 1]
    /\ Deliver(Event("delta", c, <<item[c].sent + 1>>))
    /\ UNCHANGED ended

ArgsDone(c) ==
    /\ item[c].announced > 0 /\ ~item[c].told /\ ~item[c].done
    /\ item' = [item EXCEPT ![c].told = TRUE, ![c].sent = Tokens]
    /\ Deliver(Event("args_done", c, AllTokens))
    /\ UNCHANGED ended

ItemDone(c) ==
    /\ item[c].announced > 0 /\ ~item[c].done
    /\ item' = [item EXCEPT ![c].done = TRUE, ![c].sent = Tokens]
    /\ Deliver(Event("item_done", c, AllTokens))
    /\ UNCHANGED ended

\* The answer ends: whole, when every announced item is done, or truncated.
Ends(how) ==
    /\ ended = "no" /\ ended' = how
    /\ how \in {"completed", "[DONE]"} => \A c \in Calls : item[c].announced > 0 => item[c].done
    /\ Deliver([type |-> how])
    /\ UNCHANGED item

Text ==
    /\ Deliver([type |-> "text"]) /\ UNCHANGED <<item, ended>>

\* The connection to the provider ends without an end of the answer; a cancelled
\* request cancels the provider's stream as well.
Breaks ==
    /\ ended = "no" /\ mode \in {"bridge", "responses"} /\ out = <<>>
    /\ ended' \in IF gone THEN {"broken"} ELSE {"eof", "broken"}
    /\ UNCHANGED <<mode, style, item, known, held, out, pipe, handler, tracker, client, gone>>

ClientLeaves ==
    /\ mode # "start" /\ handler = "reading" /\ ~gone
    /\ gone' = TRUE
    /\ UNCHANGED <<mode, provider, known, held, out, pipe, handler, tracker, client>>

\* The goroutine and the handler, once the provider has written.
Passes == Forward \/ CloseWriter \/ WriteFails \/ ReadEnd \/ PassEnd

BridgeNext ==
    \/ Start
    \/ \E c \in Calls : Added(c) \/ AddedAgain(c) \/ Delta(c) \/ ArgsDone(c) \/ ItemDone(c)
    \/ \E how \in {"completed", "incomplete", "[DONE]"} : Ends(how)
    \/ Text \/ Breaks \/ ClientLeaves
    \/ Passes

\* The goroutine and the handler keep running, and cancelling a request ends the
\* exchange with the provider.
BridgeSpec == BridgeInit /\ [][BridgeNext]_bridgeVars
        /\ WF_bridgeVars(Passes)
        /\ WF_bridgeVars(gone /\ Breaks)

-----------------------------------------------------------------------------
(* Properties.                                                             *)

Started(c) == {i \in DOMAIN client.started : client.started[i][1] = c}

\* When the chat client has been sent the end of a whole answer it holds every tool
\* call of the provider exactly once, each under an index of its own and with exactly
\* its arguments, however the provider has split, repeated or renamed them.
ToolCallsWhole ==
    mode = "bridge" /\ client.done /\ ended # "incomplete" =>
        \A c \in Calls :
            /\ Cardinality(Started(c)) = IF item[c].announced > 0 THEN 1 ELSE 0
            /\ \A i \in Started(c) :
                  /\ client.args[client.started[i][2]] = AllTokens
                  /\ \A j \in DOMAIN client.started :
                        client.started[j][2] = client.started[i][2] => j = i

\* The client is told once that the turn ends in tool calls, if and only if it does,
\* after the last chunk of every call and before the end of the stream.
FinishTold ==
    mode = "bridge" =>
        /\ ~client.late
        /\ client.done => client.finish = IF client.started = <<>> THEN 0 ELSE 1

\* The chat client holds every tool call once and whole, and is told once, and in time,
\* that the turn ends in tool calls (gateway_stream_util.go:378-529, 591-618).
ToolCallsReachTheClient == ToolCallsWhole /\ FinishTold

\* A completed stream is recorded only when the client was sent its end, and the tool
\* calls recorded with it are the provider's, each once and with its arguments.
RecordTellsTheCalls ==
    handler = "completed" =>
        /\ client.done \/ ended = "[DONE]"
        /\ ended # "incomplete" =>
              /\ tracker.keys = {<<"call", c>> : c \in {d \in Calls : item[d].announced > 0}}
              /\ \A k \in tracker.keys : tracker.args[k] = AllTokens

\* When the handler has returned the translator does too: no goroutine stays blocked on
\* the pipe or on the provider.
TranslatorEnds == (mode = "bridge" /\ handler # "reading") ~> pipe \in {"closed", "error", "abandoned"}

=============================================================================
