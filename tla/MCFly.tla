------------------------------- MODULE MCFly --------------------------------
(* Instances of Fly for TLC.                                               *)
EXTENDS Fly, TLC

\* fly.toml, with its secrets set.
Deployed ==
    [cli |-> "", transport |-> "http", host |-> "0.0.0.0",
     hosts |-> {PublicHost}, url |-> TRUE, token |-> "secret",
     origin |-> FALSE, stateless |-> "", machine |-> TRUE, isolate |-> TRUE]

\* And without CAD_MCP_ALLOWED_HOSTS.
MCEnvirons == {Deployed, [Deployed EXCEPT !.hosts = {}]}

MCStateless == {[Deployed EXCEPT !.stateless = "1"]}

MCBrowser == {[Deployed EXCEPT !.origin = TRUE]}

MCNoUrl == {[Deployed EXCEPT !.url = FALSE]}

Symmetry == Permutations(Machines) \union Permutations(Clients)

=============================================================================
