------------------------------- MODULE Server -------------------------------
(***************************************************************************)
(* How a server process is set up from its command line and environment,   *)
(* and what it builds of that: the layers a request passes and the health  *)
(* it reports.  Nothing here changes while the process lives.              *)
(***************************************************************************)
EXTENDS Integers, Sequences, SequencesExt

CONSTANTS
    PublicHost,   \* the Host header that clients send
    Bare          \* the name of a session id that names no machine

Loopbacks == {"127.0.0.1", "::1", "localhost"}

(***************************************************************************)
(* cli        --transport, "" when absent                                  *)
(* transport  CAD_MCP_TRANSPORT, in lower case                             *)
(* host       CAD_MCP_HOST, the address that is bound                      *)
(* hosts      CAD_MCP_ALLOWED_HOSTS                                        *)
(* url        whether CAD_MCP_PUBLIC_URL says anything                     *)
(* token      CAD_MCP_AUTH_TOKEN: "" is as good as absent                  *)
(* origin     whether CAD_MCP_CORS_ORIGIN says anything                    *)
(* stateless  CAD_MCP_STATELESS                                            *)
(* machine    whether FLY_MACHINE_ID says anything                         *)
(* isolate    whether geometry runs in a process of its own                *)
(***************************************************************************)
Environ ==
    [cli: {"", "stdio", "http"}, transport: {"", "stdio", "http", "sse"},
     host: Loopbacks \union {"0.0.0.0"}, hosts: SUBSET {PublicHost},
     url: BOOLEAN, token: {"", "secret"}, origin: BOOLEAN,
     stateless: {"", "1", "true"}, machine: BOOLEAN, isolate: BOOLEAN]

-----------------------------------------------------------------------------
(* transport.py                                                            *)

\* The command line goes before the environment, and every word but "http"
\* means stdio, the words the SDK itself would take included.
Transport(e) ==
    LET chosen == IF e.cli # "" THEN e.cli ELSE e.transport
    IN IF chosen = "http" THEN "streamable-http" ELSE "stdio"

Stateless(e) == e.stateless = "1"

IsLoopback(e) == e.host \in Loopbacks

\* Off loopback nobody is let in who is not listed.
AllowedHosts(e) ==
    CASE e.hosts # {} -> e.hosts
      [] e.hosts = {} /\ IsLoopback(e) -> Loopbacks
      [] OTHER -> {}

\* The origin that the OAuth metadata names.
BaseUrl(e) == IF e.url THEN PublicHost ELSE e.host

\* What warnings() finds to say; main asks for none of it.
Warnings(e) ==
    IF IsLoopback(e) THEN {}
    ELSE {w \in {"hosts", "url", "token"} :
             \/ w = "hosts" /\ e.hosts = {}
             \/ w = "url" /\ ~ e.url
             \/ w = "token" /\ e.token = ""}

-----------------------------------------------------------------------------
(* server.py: the layers around the tools, outermost first.                *)

Layers(e) ==
    (IF e.machine THEN <<"fly">> ELSE <<>>)
      \o (IF e.origin THEN <<"cors">> ELSE <<>>)
      \o (IF e.token # "" THEN <<"auth">> ELSE <<>>)
      \o <<"hosts", "tools">>

\* The replies of the affinity layer can be replies to a session's request
\* only where there is one.
Affine(e) == Contains(Layers(e), "fly")

\* A browser shows a reply to the page of another origin only when the CORS
\* layer has seen the reply on its way out, so not what an outer layer says.
ShownToPage(e, layer) ==
    \E i, j \in DOMAIN Layers(e) :
        Layers(e)[i] = "cors" /\ Layers(e)[j] = layer /\ i < j

\* health_payload, of a kernel worker that is or is not standing by.
Health(e, standing) ==
    IF ~ e.isolate \/ standing THEN 200 ELSE 503

=============================================================================
