------------------------------- MODULE Routing -------------------------------
(***************************************************************************)
(* From the alias a runtime asks for to the model it is answered by: the   *)
(* governance router over the catalogue's model registry, the lookup of    *)
(* aliases in the actor's own Copilot catalogue when the router refuses,   *)
(* the chain of fallbacks reported with a decision, and the reasoning      *)
(* effort a call is let to spend.  The registry is whatever the catalogue  *)
(* holds: fallbacks may form a cycle or name an alias that does not exist. *)
(***************************************************************************)
EXTENDS Naturals, Sequences, SequencesExt

CONSTANTS
    Aliases,       \* the aliases of the registry
    CopilotAlias,  \* one of them whose name begins with copilot-
    PickerAlias,   \* such a name that is not in the registry
    NoAlias        \* no alias

ASSUME RoutingConstants ==
    CopilotAlias \in Aliases /\ PickerAlias \notin Aliases /\ NoAlias \notin Aliases

VARIABLES
    route,     \* where the decision is made: its step
    permits,   \* the aliases whose allowed classifications include that of the session
    nextOf,    \* fallback_alias of each alias; PickerAlias stands for one that does not exist
    routable,  \* the aliases with a route that is available to the actor
    query,     \* the request: alias asked for, whether the session's classification is public
               \* or internal, whether there is an actor
    effort,    \* the efforts: asked, of the agent's policy, of the route; 0 is none
    decision,  \* [alias, by, effort]
    chain, link \* the fallback chain, and the alias to follow next

routingVars == <<route, permits, nextOf, routable, query, effort, decision, chain, link>>
queryVars == <<permits, nextOf, routable, query, effort>>

Efforts == 0..3  \* none, low, medium, high: reasoningRank

\* agentReasoningPolicy: the default and the maximum of the roles; others have neither.
AgentPolicies == {<<0, 0>>, <<1, 2>>, <<2, 3>>}

AnyEffort == [asked : Efforts, agent : AgentPolicies, default : Efforts, max : Efforts,
              supported : BOOLEAN]
PlainEffort == [asked |-> 0, agent |-> <<0, 0>>, default |-> 0, max |-> 0, supported |-> TRUE]

Queries == [alias : Aliases \cup {PickerAlias, NoAlias}, open : BOOLEAN, actor : BOOLEAN]

RoutingInit ==
    /\ route = "choose" /\ chain = <<>> /\ link = NoAlias
    /\ decision = [alias |-> NoAlias, by |-> "nobody", effort |-> 0]
    /\ \/ /\ effort = PlainEffort
          /\ permits \in SUBSET Aliases /\ routable \in SUBSET Aliases
          /\ nextOf \in [Aliases -> Aliases \cup {PickerAlias, NoAlias}]
          /\ query \in Queries
       \/ /\ effort \in AnyEffort
          /\ permits = Aliases /\ routable = Aliases
          /\ nextOf = [a \in Aliases |-> NoAlias]
          /\ query = [alias |-> CopilotAlias, open |-> TRUE, actor |-> TRUE]

-----------------------------------------------------------------------------
(* Router.Route.                                                           *)

\* The router's choice among the permitted aliases: the one asked for, or the one with the
\* best score, which may be any.  With nothing permitted, nothing suitable or no
\* available route it refuses.
Candidates ==
    {a \in permits : query.alias \in {a, NoAlias}}

Choose ==
    /\ route = "choose"
    /\ \E a \in Candidates :
          /\ a \in routable
          /\ decision' = [alias |-> a, by |-> "router", effort |-> 0]
          /\ route' = "chain" /\ link' = nextOf[a]
    /\ UNCHANGED <<queryVars, chain>>

RouterRefuses ==
    /\ route = "choose"
    /\ Candidates = {} \/ \E a \in Candidates : a \notin routable
    /\ route' = "picker"
    /\ UNCHANGED <<queryVars, decision, chain, link>>

\* dynamicCopilotDecision: an alias of the right form, for public or internal work, that the
\* actor's own catalogue lists.  It may not list the alias, or not answer.
LookUpAlias ==
    /\ route = "picker"
    /\ \/ /\ query.alias \in {CopilotAlias, PickerAlias} /\ query.open /\ query.actor
          /\ decision' = [alias |-> query.alias, by |-> "picker", effort |-> 0]
          /\ route' = "effort"
       \/ route' = "refused" /\ UNCHANGED decision
    /\ UNCHANGED <<queryVars, chain, link>>

\* Mutant: the classification is checked for the chosen alias alone.
FollowUnchecked ==
    /\ route = "chain"
    /\ IF link \in {NoAlias, decision.alias} \cup ToSet(chain) \/ link \notin Aliases
       THEN route' = "effort" /\ UNCHANGED <<chain, link>>
       ELSE chain' = Append(chain, link) /\ link' = nextOf[link] /\ UNCHANGED route
    /\ UNCHANGED <<queryVars, decision>>

\* buildFallbackChain, one link at a time: it ends where there is none, at an alias seen
\* before, at one the registry does not have and at one that is not permitted.
Follow ==
    /\ route = "chain"
    /\ IF link \in {NoAlias, decision.alias} \cup ToSet(chain) \/ link \notin Aliases \cap permits
       THEN route' = "effort" /\ UNCHANGED <<chain, link>>
       ELSE chain' = Append(chain, link) /\ link' = nextOf[link] /\ UNCHANGED route
    /\ UNCHANGED <<queryVars, decision>>

-----------------------------------------------------------------------------
(* chooseReasoningEffort.                                                  *)

\* Mutant: the agent's maximum replaces the route's.
StricterAgentWins(routeMax, agentMax) == IF agentMax = 0 THEN routeMax ELSE agentMax

Stricter(routeMax, agentMax) ==
    IF routeMax = 0 THEN agentMax
    ELSE IF agentMax = 0 \/ routeMax <= agentMax THEN routeMax ELSE agentMax

Wanted ==
    IF effort.asked # 0 THEN effort.asked
    ELSE IF effort.agent[1] # 0 THEN effort.agent[1] ELSE effort.default

\* A route of the picker is not known to support efforts: none is sent.
ApplyEffort ==
    /\ route = "effort"
    /\ LET max == Stricter(effort.max, effort.agent[2])
           applied == IF decision.by = "picker" \/ ~effort.supported THEN 0
                      ELSE IF max # 0 /\ Wanted > max THEN max ELSE Wanted
       IN decision' = [decision EXCEPT !.effort = applied]
    /\ route' = "routed"
    /\ UNCHANGED <<queryVars, chain, link>>

\* AvailableAliases: what the model list offers for this session.
Offered == permits \cap routable

RoutingNext == Choose \/ RouterRefuses \/ LookUpAlias \/ Follow \/ ApplyEffort

RoutingSpec == RoutingInit /\ [][RoutingNext]_routingVars

-----------------------------------------------------------------------------
(* Properties.                                                             *)

\* However the registry's fallbacks are wired, a decision of the router and each alias of
\* its chain accept the session's classification, no alias comes twice, each follows from the
\* one before, and the chain is as long as it can be; a model outside the registry serves
\* public and internal work only (router.go:61-132, 347-376).  The effort sent to the
\* provider exceeds neither the maximum of the route nor that of the agent, whoever asked
\* for it (gateway_reasoning.go:75-107).
RoutedWithinPolicy ==
    route = "routed" =>
        /\ LET line == <<decision.alias>> \o chain
               last == nextOf[line[Len(line)]]
           IN IF decision.by = "picker" THEN query.open /\ query.actor
              ELSE /\ decision.alias \in Offered
                   /\ ToSet(line) \subseteq permits /\ IsInjective(line)
                   /\ \A i \in DOMAIN chain : chain[i] = nextOf[line[i]]
                   /\ last \in permits => last \in ToSet(line)
        /\ \A max \in {effort.max, effort.agent[2]} : max # 0 => decision.effort <= max
=============================================================================
