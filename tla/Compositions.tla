------------------------------ MODULE Compositions ------------------------------
(***************************************************************************)
(* Compositions: the agents of a session work one stage after another, a   *)
(* user approves each stage before the next may start, and a stage's       *)
(* output becomes the next one's input.  CompositionHandler answers the    *)
(* requests; CompositionStore keeps one composition for each session, in   *)
(* memory, and changes it under its lock, so that a request takes effect   *)
(* in one step once the session has been seen to belong to the user.       *)
(***************************************************************************)
EXTENDS Naturals, Sequences

CONSTANTS
    Sessions, Users,
    Owner,          \* the session rows: [Sessions -> Users]
    Outputs,        \* what stages may write
    Bodies,         \* the stages a client posts: sequences of stages
    Blank,          \* the empty string
    None            \* no composition

VARIABLES
    compositions,   \* CompositionStore: None or [stages, current]
    posted,         \* history: the stages each composition was created with
    answer          \* the last answer each user had

compositionVars == <<compositions, posted, answer>>

MaxDepth == 2

Stage == [input : Outputs \cup {Blank}, output : Outputs \cup {Blank},
          approved : BOOLEAN, completed : BOOLEAN]

CompositionsInit ==
    /\ compositions = [s \in Sessions |-> None]
    /\ posted = [s \in Sessions |-> <<>>]
    /\ answer = [u \in Users |-> "none"]

Tell(u, code) == answer' = [answer EXCEPT ![u] = code]

\* The session's owner finds a composition.
Found(u, s) == Owner[s] = u /\ compositions[s] # None

Refuse(u, s) ==
    /\ ~ Found(u, s)
    /\ Tell(u, IF Owner[s] # u THEN "forbidden" ELSE "not found")
    /\ UNCHANGED <<compositions, posted>>

-----------------------------------------------------------------------------
\* ValidateStages, for stages that name an agent and themselves.
Valid(stages) == Len(stages) \in 1 .. MaxDepth

\* createComposition replaces whatever the session had.  The body may set every field of a
\* stage, the flags among them.
Create(u, s, stages) ==
    /\ Owner[s] = u /\ Valid(stages)
    /\ compositions' = [compositions EXCEPT ![s] = [stages |-> stages, current |-> 1]]
    /\ posted' = [posted EXCEPT ![s] = stages]
    /\ Tell(u, "created")

Reject(u, stages) ==
    /\ ~ Valid(stages)
    /\ Tell(u, "bad request")
    /\ UNCHANGED <<compositions, posted>>

Over(c) == c.current > Len(c.stages)

\* CompositionStore.Update, for a change of the current stage, which has to be there.
Update(u, s, stage, code) ==
    /\ IF Over(compositions[s])
       THEN Tell(u, "conflict") /\ UNCHANGED compositions
       ELSE /\ compositions' =
                 [compositions EXCEPT ![s].stages[compositions[s].current] = stage]
            /\ Tell(u, code)
    /\ UNCHANGED posted

Current(s) == compositions[s].stages[compositions[s].current]

\* approveStage approves whatever stage is current when it arrives.
ApproveStage(u, s) ==
    /\ Found(u, s)
    /\ Update(u, s, [Current(s) EXCEPT !.approved = TRUE], "approved")

\* completeStage may be repeated, and follow the approval.
CompleteStage(u, s, output) ==
    /\ Found(u, s)
    /\ Update(u, s, [Current(s) EXCEPT !.output = output, !.completed = TRUE], "completed")

\* Mutant: the human gate alone.
CanProceedWhenApproved(c) ==
    IF Over(c) THEN "conflict"
    ELSE IF ~ c.stages[c.current].approved THEN "locked"
    ELSE IF c.current + 1 > MaxDepth THEN "max depth"
    ELSE "advanced"

CanProceed(c) ==
    IF Over(c) \/ ~ c.stages[c.current].completed THEN "conflict"
    ELSE IF ~ c.stages[c.current].approved THEN "locked"
    ELSE IF c.current + 1 > MaxDepth THEN "max depth"
    ELSE "advanced"

\* Composition.Advance: the next stage starts with the output of the one that is left.
Advanced(c) ==
    LET next == c.current + 1 IN
    [current |-> next,
     stages |-> IF next \in DOMAIN c.stages
                THEN [c.stages EXCEPT ![next].input = c.stages[c.current].output]
                ELSE c.stages]

\* advanceComposition reads the stage it has moved to for its answer: past the last stage
\* the index is out of range, the handler panics and the connection is closed, after the
\* store was changed.
Advance(u, s) ==
    LET c == compositions[s] IN
    /\ Found(u, s)
    /\ IF CanProceed(c) = "advanced"
       THEN /\ compositions' = [compositions EXCEPT ![s] = Advanced(c)]
            /\ Tell(u, IF Over(Advanced(c)) THEN "aborted" ELSE "advanced")
       ELSE /\ Tell(u, CanProceed(c))
            /\ UNCHANGED compositions
    /\ UNCHANGED posted

IsComplete(c) == Over(c)

GetComposition(u, s) ==
    /\ Found(u, s)
    /\ Tell(u, IF IsComplete(compositions[s]) THEN "complete" ELSE "incomplete")
    /\ UNCHANGED <<compositions, posted>>

\* The store is in memory only.
LoseStore ==
    /\ compositions' = [s \in Sessions |-> None]
    /\ posted' = [s \in Sessions |-> <<>>]
    /\ UNCHANGED answer

CompositionsNext ==
    \/ \E u \in Users, s \in Sessions :
          \/ Refuse(u, s)
          \/ \E stages \in Bodies : Create(u, s, stages) \/ Reject(u, stages)
          \/ ApproveStage(u, s)
          \/ \E output \in Outputs : CompleteStage(u, s, output)
          \/ Advance(u, s)
          \/ GetComposition(u, s)
    \/ LoseStore

CompositionsSpec == CompositionsInit /\ [][CompositionsNext]_compositionVars

-----------------------------------------------------------------------------
\* What a stage that was left has written is what the next one was given.
HandedOn(c) ==
    \A i \in 1 .. c.current - 1 :
       i + 1 \in DOMAIN c.stages => c.stages[i + 1].input = c.stages[i].output

\* Stages are left completed and approved, and none is touched before its turn.
InTurn(c, stages) ==
    /\ \A i \in 1 .. c.current - 1 : c.stages[i].completed /\ c.stages[i].approved
    /\ \A i \in DOMAIN c.stages : i > c.current => c.stages[i] = stages[i]

\* However the requests of a session's user cross (approvals repeated or sent early,
\* results sent again, a composition posted anew), a stage is worked on only in its turn,
\* from the output of the stage before it as that stage was when it was left, and no
\* composition goes past its depth (composition.go:61-119).
StagesInOrder ==
    \A s \in Sessions : compositions[s] # None =>
       LET c == compositions[s] IN
       /\ Len(c.stages) \in 1 .. MaxDepth /\ Len(c.stages) = Len(posted[s])
       /\ c.current \in 1 .. MaxDepth /\ c.current <= Len(c.stages) + 1
       /\ InTurn(c, posted[s])
       /\ HandedOn(c)

\* "IsComplete reports whether all stages are completed." (composition.go:116): so it does
\* when every stage is completed and approved and the composition goes no further.
CompleteWhenCompleted ==
    \A s \in Sessions : compositions[s] # None =>
       LET c == compositions[s] IN
       ((\A i \in DOMAIN c.stages : c.stages[i].completed /\ c.stages[i].approved)
          /\ CanProceed(c) # "advanced")
       => IsComplete(c)

================================================================================
