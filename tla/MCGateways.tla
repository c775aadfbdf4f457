------------------------------- MODULE MCGateways -------------------------------
(***************************************************************************)
(* Small instances of the parts that must answer whatever comes: the MCP   *)
(* session registry, the request pipeline and the HTTP client.  They share *)
(* no state, so each is explored with the others at rest, under the        *)
(* fairness of the registry and of the client.                             *)
(***************************************************************************)
EXTENDS SessionProperties, ApiRequests, HttpClient

CONSTANTS s1, s2, ada, eve

AnyCall == CHOOSE c \in Requests : Relevant(c)

\* No request.
ApiRests ==
    /\ signedIn = {} /\ call = AnyCall /\ handling = "done"
    /\ stamp = [metrics |-> NoCode, header |-> NoCode, handler |-> NoCode]
    /\ author = Nothing /\ ran = {} /\ touched = {} /\ sent = {} /\ answers = {}

VARIABLE gateway

gatewayVars == <<gateway, registryVars, apiVars, httpVars>>

GatewayInit ==
    /\ gateway \in {"mcp", "api", "http"}
    /\ RegistryInit /\ HttpInit
    /\ gateway # "http" => \A r \in Request : method[r] = "GET"
    /\ IF gateway = "api" THEN ApiInit ELSE ApiRests

GatewayNext ==
    /\ UNCHANGED gateway
    /\ \/ gateway = "mcp" /\ RegistryNext /\ UNCHANGED <<apiVars, httpVars>>
       \/ gateway = "api" /\ ApiNext /\ UNCHANGED <<registryVars, httpVars>>
       \/ gateway = "http" /\ HttpNext /\ UNCHANGED <<registryVars, apiVars>>

GatewaySpec ==
    GatewayInit /\ [][GatewayNext]_gatewayVars /\ RegistryFairness /\ HttpFairness

\* The one type invariant: that of every part.
GatewaysTypeOK == RegistryTypeOK /\ ApiTypeOK /\ HttpTypeOK

Halves == {Absent, Junk, -2, 0, 2, 3, 200, 202, 2000, 2002}
Tops == {Absent, Junk, -2, 3, 14}
Paths == {<<"ada", "post">>, <<"", "ada", "post">>, <<"ada">>, <<"..", "post">>,
          <<"ada", "post", "edit">>, <<"", "", "post">>}

=============================================================================
