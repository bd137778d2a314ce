------------------------------ MODULE MCStreams -------------------------------
(***************************************************************************)
(* The two streams behind a prompt side by side, for TLC: the answer of a  *)
(* provider through the model gateway, and the events of a runtime at the  *)
(* Orchestrator.  They share no state the models keep; each behaviour      *)
(* exercises the one chosen at its start, under that one's fairness.       *)
(***************************************************************************)
EXTENDS Dispatch, StreamBridge

CONSTANTS p, text, unseen    \* a file, what it may hold, and what no capture has

VARIABLE flow    \* the stream this behaviour exercises

\* Deleted, or too large to be captured: the captures do not tell the two apart.
NotCaptured == {<<p, unseen>>}

allVars == <<flow, vars, bridgeVars>>

-----------------------------------------------------------------------------
\* The bridge at rest: in one of its initial states.
BridgeRests == style = [indexed |-> TRUE, renames |-> FALSE] /\ BridgeInit

\* The workspace begins as text; a write before the first capture makes it anything.
RuntimeBegins == files = [q \in Paths |-> text] /\ Init

StreamsInit ==
    /\ flow \in {"answer", "runtime"}
    /\ RuntimeBegins
    /\ IF flow = "answer" THEN BridgeInit ELSE BridgeRests

Answering == flow = "answer"  /\ UNCHANGED <<flow, vars>>
Running   == flow = "runtime" /\ UNCHANGED <<flow, bridgeVars>>

\* Bound: the agent changes files by itself only between the two captures, when the first
\* has been taken and the prompt is unanswered.  Nothing reads the workspace after the
\* second one, and before the first a write stands for an edit.
EditsThatShow == Edits => snapshot # <<>> /\ runner = "prompt"

StreamsNext ==
    \/ BridgeNext /\ Answering
    \/ Next /\ Running /\ EditsThatShow

\* The fairness of StreamBridge and of Dispatch.
StreamsFairness ==
    /\ WF_allVars(Passes /\ Answering)
    /\ WF_allVars(gone /\ Breaks /\ Answering)
    /\ WF_allVars(Runner /\ Running)
    /\ WF_allVars(Reader /\ Running)
    /\ WF_allVars(Handler /\ Running)
    /\ WF_allVars(Unanswered /\ Running)
    /\ WF_allVars(stopped /\ Dies /\ Running)

StreamsSpec == StreamsInit /\ [][StreamsNext]_allVars /\ StreamsFairness

-----------------------------------------------------------------------------
(* The property of Dispatch, for the behaviours that exercise it.          *)

\* Dispatch: every dispatch is answered and leaves nothing running behind (DispatchEnds).
RuntimeEnds == flow = "runtime" => DispatchEnds

===============================================================================
