------------------------------ MODULE MCServices ------------------------------
(***************************************************************************)
(* The services of the Governance Shell side by side, for TLC: the model   *)
(* gateway and its proxies, patch review, admission and the kill switch,   *)
(* the registry, the Copilot enrollments, the key cache of the identity    *)
(* provider, model routing, compositions, the Orchestrator's routing to    *)
(* specialists and the ledger of costs.  They share no state the models    *)
(* keep, so nothing is lost by letting each behaviour exercise one of      *)
(* them: interleaving all ten would only multiply their states.            *)
(* Which one is chosen at the start, and the others stay as they are.      *)
(***************************************************************************)
EXTENDS ModelGateway, PatchReview, Admission, KeyCache, CopilotTokens, Compositions, Registry,
        Routing, SpecialistRouting, Ledger, TLC

CONSTANTS
    first, second,
    ann, bob,
    one, two

\* ModelGateway.  The first call is one of the gateway or of a tool; responses without
\* streaming take the path of chat without streaming.  The second, of the Orchestrator's
\* model proxy, may act on the session the first has opened for itself.
MCRequests == (first  :> {<<"chat", TRUE>>, <<"chat", FALSE>>, <<"responses", TRUE>>, <<"mcp", FALSE>>})
              @@ (second :> {<<"proxy", FALSE>>})

\* Admission.  What a request may lack or carry, so that each check decides once; the
\* configurations in which the switch and the authorization differ.
MCAsks == [kind : {"session"},
           flaws : {{}, {"token"}, {"label", "work_item"}, {"body"}, {"secret", "cost"}}]
          \cup [kind : {"auto"}, flaws : {{}, {"label"}, {"cost"}}]

MCSetups == {[auth |-> "oidc", static |-> FALSE, durable |-> d] : d \in BOOLEAN}
            \cup {[auth |-> a, static |-> a = "oidc", durable |-> TRUE] : a \in {"oidc", "dev", "unset"}}

MCTargets == {<<"global", "sessions">>, <<"agent", "reviewer">>, <<"client", "opencode">>}

\* Registry
MCOwnedBy == ("s1" :> ann) @@ ("s2" :> bob)

MCOwner == "s1" :> ann

\* Compositions: stages as a client posts them, the last with a stage that says it is done.
Fresh == [input |-> Blank, output |-> Blank, approved |-> FALSE, completed |-> FALSE]
Filled == [Fresh EXCEPT !.output = one, !.approved = TRUE, !.completed = TRUE]
MCBodies == {<<>>, <<Fresh>>, <<Fresh, Fresh>>, <<Fresh, Fresh, Fresh>>,
             <<Filled, Fresh>>, <<Fresh, Filled>>}

\* SpecialistRouting: two agents, one of which only one of the catalogs has.
MCCatalogs == {{"code-review"}, {"code-review", "refactor"}}
MCPrompts == {<<"refactor", "code-review">>, <<"refactor">>}

\* Ledger: a call of either API on a model with two lookups, or on a Copilot model, whose
\* equivalent is looked up second; prices that differ, and one that is nothing.
MCEvent(type, usage, reported, estimate, model) ==
    [type |-> type, usage |-> usage, reported |-> reported, estimate |-> estimate, model |-> model]
MCEvents == {MCEvent("call", "chat", 4, 2, "direct"), MCEvent("call", "chat", 0, 2, "direct"),
             MCEvent("call", "chat", 0, 0, "copilot"), MCEvent("call", "responses", 0, 0, "copilot"),
             MCEvent("call", "none", 0, 0, "direct"),
             MCEvent("created", "none", 0, 2, "direct"), MCEvent("turn", "none", 0, 0, "direct")}
MCCandidates == ("direct" :> << <<"exact", "openrouter">> >>)
                @@ ("copilot" :> << <<"copilot-user">>, <<"openrouter">> >>)
MCBooks == {"openrouter" :> 1, ("openrouter" :> 3) @@ ("exact" :> 0)}

\* The members of each of these sets are alike.  Only one service leaves its initial state, so
\* exchanging the two of every set at once is a symmetry as good as exchanging those of one.
Pairs == {Executions, Admins, Handlers, ModelCalls, Bearers, Intakes, Aliases \ {CopilotAlias}}
Other(x) == CHOOSE y \in UNION Pairs : y # x /\ \E pair \in Pairs : {x, y} = pair
Swaps == {[x \in UNION Pairs |-> IF exchanged THEN Other(x) ELSE x] : exchanged \in BOOLEAN}

VARIABLE service     \* the service this behaviour exercises

\* Routing: only the route of the chosen alias is looked at, and only a Copilot alias has the
\* classification and the actor looked at again.
RoutesAtStake ==
    /\ \E a \in Aliases : Aliases \ {a} \subseteq routable
    /\ query.alias \in {CopilotAlias, PickerAlias} \/ (query.open /\ query.actor)

\* SpecialistRouting: a catalog that is broken at first defines the agent they all have, so
\* that the edit may mend it, or mend it and add the other agent.
MendedByOneEdit == files.valid \/ \A catalog \in Catalogs : files.agents \subseteq catalog

-----------------------------------------------------------------------------
(* The services at rest: one of their initial states.                      *)

GatewayRests == raw = TRUE /\ GatewayInit

PatchesRest ==
    /\ executing = [x \in Executions |-> Ready(CHOOSE s \in PatchSessions : TRUE)]
    /\ PatchesInit

AdmissionRests == setup = [auth |-> "oidc", static |-> FALSE, durable |-> TRUE] /\ Init

RegistryRests == kept = TRUE /\ named = {} /\ RegistryInit

TokensRest == rotates = TRUE /\ issued = 0 /\ TokensInit

KeysRest == published = {CHOOSE k \in Kids : TRUE} /\ KeysInit

RoutesRest ==
    /\ permits = Aliases /\ routable = Aliases /\ nextOf = [a \in Aliases |-> NoAlias]
    /\ query = [alias |-> CopilotAlias, open |-> TRUE, actor |-> TRUE]
    /\ effort = PlainEffort
    /\ RoutingInit

IntakeRests ==
    /\ files = [agents |-> CHOOSE catalog \in Catalogs : TRUE, valid |-> TRUE, edition |-> 0]
    /\ IntakeInit

ServicesInit ==
    /\ service \in {"gateway", "patches", "admission", "registry", "tokens", "keys", "routes",
                   "compositions", "intake", "ledger"}
    /\ CompositionsInit /\ LedgerInit
    /\ IF service = "intake"    THEN IntakeInit /\ MendedByOneEdit ELSE IntakeRests
    /\ IF service = "gateway"   THEN GatewayInit ELSE GatewayRests
    /\ IF service = "patches"   THEN PatchesInit ELSE PatchesRest
    /\ IF service = "admission" THEN Init /\ setup \in MCSetups ELSE AdmissionRests
    /\ IF service = "registry"  THEN RegistryInit ELSE RegistryRests
    /\ IF service = "tokens"    THEN TokensInit ELSE TokensRest
    /\ IF service = "keys"      THEN KeysInit ELSE KeysRest
    /\ IF service = "routes"    THEN RoutingInit /\ RoutesAtStake ELSE RoutesRest

-----------------------------------------------------------------------------
ServicesNext ==
    \/ /\ service = "gateway" /\ GatewayNext
       /\ UNCHANGED <<service, reviewVars, admitVars, registryVars, tokenVars, keyVars,
                      routingVars, compositionVars, routerVars, ledgerVars>>
    \/ /\ service = "patches" /\ PatchesNext
       /\ UNCHANGED <<service, gatewayVars, admitVars, registryVars, tokenVars, keyVars,
                      routingVars, compositionVars, routerVars, ledgerVars>>
    \/ /\ service = "admission" /\ Next
       /\ UNCHANGED <<service, gatewayVars, reviewVars, registryVars, tokenVars, keyVars,
                      routingVars, compositionVars, routerVars, ledgerVars>>
    \/ /\ service = "registry" /\ RegistryNext
       /\ UNCHANGED <<service, gatewayVars, reviewVars, admitVars, tokenVars, keyVars,
                      routingVars, compositionVars, routerVars, ledgerVars>>
    \/ /\ service = "tokens" /\ TokensNext
       /\ UNCHANGED <<service, gatewayVars, reviewVars, admitVars, registryVars, keyVars,
                      routingVars, compositionVars, routerVars, ledgerVars>>
    \/ /\ service = "keys" /\ KeysNext
       /\ UNCHANGED <<service, gatewayVars, reviewVars, admitVars, registryVars, tokenVars,
                      routingVars, compositionVars, routerVars, ledgerVars>>
    \/ /\ service = "routes" /\ RoutingNext
       /\ UNCHANGED <<service, gatewayVars, reviewVars, admitVars, registryVars, tokenVars,
                      keyVars, compositionVars, routerVars, ledgerVars>>
    \/ /\ service = "compositions" /\ CompositionsNext
       /\ UNCHANGED <<service, gatewayVars, reviewVars, admitVars, registryVars, tokenVars,
                      keyVars, routingVars, routerVars, ledgerVars>>
    \/ /\ service = "intake" /\ IntakeNext
       /\ UNCHANGED <<service, gatewayVars, reviewVars, admitVars, registryVars, tokenVars,
                      keyVars, routingVars, compositionVars, ledgerVars>>
    \/ /\ service = "ledger" /\ LedgerNext
       /\ UNCHANGED <<service, gatewayVars, reviewVars, admitVars, registryVars, tokenVars,
                      keyVars, routingVars, compositionVars, routerVars>>

ServicesSpec ==
    /\ ServicesInit
    /\ [][ServicesNext]_<<service, gatewayVars, reviewVars, admitVars,
                          registryVars, tokenVars, keyVars,
                          routingVars, compositionVars, routerVars, ledgerVars>>

===============================================================================
