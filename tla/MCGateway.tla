-------------------------------- MODULE MCGateway --------------------------------
(***************************************************************************)
(* The security middleware for TLC, one address and two concurrent requests, *)
(* and two of the components behind it: the templates and the accounts.       *)
(* They share no state; a behaviour exercises one of the three.               *)
(***************************************************************************)
EXTENDS Gateway, Templates, Accounts, TLC

Ask(r, k, f) == [route |-> r, key |-> k, flag |-> f]
MCClients == {Ask("protected", "good", "clean"), Ask("protected", "k1", "clean"),
              Ask("protected", "k2", "agent"), Ask("notify", "missing", "clean"),
              Ask("notify", "good", "clean"), Ask("auth", "missing", "pattern"),
              Ask("authprobe", "missing", "clean"), Ask("probe", "missing", "clean")}
MCMax == [l \in {"global", "auth", "notify"} |-> IF l = "global" THEN 2 ELSE 1]
MCPoints == [k \in {"pattern", "agent", "failed_auth", "suspicious", "probe"} |->
               IF k = "agent" THEN 0 ELSE 2]

\* Requests differ in nothing but their names.
Interchangeable == Permutations(Requests)

\* Of a failure, an expiry and the end of a window at most one happens, and a
\* third request comes only where none does.
OneTrouble == faults + expiries + window["global"] + window["auth"] + window["notify"]
                <= IF arrivals > 2 THEN 0 ELSE 1

MCConditions == {[key |-> "k", value |-> "A"], [key |-> "k", value |-> "a"]}
MCLower == [v \in {"A", "a"} |-> "a"]

-----------------------------------------------------------------------------

VARIABLE part

RequestsInit ==
    /\ part \in {"gateway", "templates", "accounts"}
    /\ GatewayInit /\ TemplateInit /\ AccountsInit
    /\ \/ part = "templates"
       \/ made = 0   \* the stored templates are another part's business

RequestsNext ==
    \/ /\ part = "gateway" /\ GatewayNext
       /\ UNCHANGED <<part, templateVars, accountsVars>>
    \/ /\ part = "templates" /\ TemplateNext
       /\ UNCHANGED <<part, gatewayVars, accountsVars>>
    \/ /\ part = "accounts" /\ AccountsNext
       /\ UNCHANGED <<part, gatewayVars, templateVars>>

RequestsSpec == RequestsInit /\ [][RequestsNext]_<<part, gatewayVars, templateVars, accountsVars>>
=============================================================================
