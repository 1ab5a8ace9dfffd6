-------------------------------- MODULE Fly ---------------------------------
(***************************************************************************)
(* Several machines behind one proxy, and the clients whose sessions each  *)
(* live in the memory and on the disk of one of them.                      *)
(*                                                                         *)
(* The proxy and the platform are not the program's: the proxy sends a     *)
(* request to any machine that takes requests, marks the ones it replays,  *)
(* and replays to the named machine as long as there is one of that name.  *)
(***************************************************************************)
EXTENDS Server, FiniteSets

CONSTANTS
    Machines,
    Clients,
    NoClient,
    Environs,      \* the environments a deployment may have
    ByHealth,      \* does the proxy ask /health before it sends a request?
    MaxRequests,   \* bound: requests the clients make
    MaxLosses,     \* bound: machines that stop or are taken away
    MaxCrashes     \* bound: geometry workers that die

\* Session ids as the SDK issues them.  0 is the session of a stateless
\* server, which is everybody's.
Raws == 0 .. MaxRequests

ASSUME FlyAssumption ==
    /\ Bare \notin Machines /\ NoClient \notin Clients
    /\ Environs \subseteq Environ
    /\ \A e \in Environs : Transport(e) = "streamable-http"
    /\ ByHealth \in BOOLEAN
    /\ {MaxRequests, MaxLosses, MaxCrashes} \subseteq Nat

VARIABLES
    env,       \* of all the machines
    power,     \* machine -> what the platform has made of it
    kernel,    \* machine -> the geometry worker of its server
    live,      \* machine -> session ids its SDK knows
    model,     \* machine -> session -> the client whose model it holds
    held,      \* client -> the id it was given; <<>> before it initializes
    wrote,     \* clients that have run execute_cad in the session they hold,
               \* when its model has not been swept since
    req,       \* client -> its request, and after that the answer to it
    issued, requests, losses, crashes,
    forgotten  \* the sessions whose machine lost its memory

machineVars == <<power, kernel, live, model>>
counters == <<issued, requests, losses, crashes>>
vars == <<env, machineVars, held, wrote, req, counters, forgotten>>

-----------------------------------------------------------------------------

\* <<owner, raw>>; a bare id has no owner.
Ids == (Machines \union {Bare}) \X Raws

Answers == {"none", "issued", "written", "model", "empty", "crashed",
            "gone", "unknown", "refused", "broken"}

Request == [pc: {"idle", "proxy", "bounced", "machine"},
            kind: {"initialize", "execute_cad", "render_views"},
            at: Machines \union {Bare}, src: BOOLEAN, answer: Answers,
            by: Clients \union {NoClient}]

Idle == [pc |-> "idle", kind |-> "initialize", at |-> Bare, src |-> FALSE,
         answer |-> "none", by |-> NoClient]

TypeOK ==
    /\ env \in Environs
    /\ power \in [Machines -> {"up", "suspended", "stopped", "destroyed"}]
    /\ kernel \in [Machines -> {"none", "starting", "ready", "dead"}]
    /\ live \in [Machines -> SUBSET Raws]
    /\ model \in [Machines -> [Raws -> Clients \union {NoClient}]]
    /\ held \in [Clients -> Ids \union {<<>>}]
    /\ wrote \subseteq Clients
    /\ req \in [Clients -> Request]
    /\ {issued, requests, losses, crashes} \subseteq Nat
    /\ forgotten \subseteq Raws

NoModels == [r \in Raws |-> NoClient]

Init ==
    /\ env \in Environs
    /\ power = [m \in Machines |-> "up"]
    /\ kernel = [m \in Machines |-> "starting"]
    /\ live = [m \in Machines |-> {}]
    /\ model = [m \in Machines |-> NoModels]
    /\ held = [c \in Clients |-> <<>>]
    /\ wrote = {}
    /\ req = [c \in Clients |-> Idle]
    /\ issued = 0 /\ requests = 0 /\ losses = 0 /\ crashes = 0
    /\ forgotten = {}

-----------------------------------------------------------------------------
(* The clients.                                                            *)

Send(c, kind) ==
    /\ req[c].pc = "idle"
    /\ requests < MaxRequests
    /\ (kind = "initialize") <=> (held[c] = <<>>)
    /\ req' = [req EXCEPT ![c] = [Idle EXCEPT !.pc = "proxy", !.kind = kind]]
    /\ requests' = requests + 1
    /\ UNCHANGED <<env, machineVars, held, wrote, issued, losses, crashes,
                   forgotten>>

-----------------------------------------------------------------------------
(* The proxy.                                                              *)

HealthOf(m) == Health(env, kernel[m] = "ready")

Takes(m) == power[m] = "up" /\ (ByHealth => HealthOf(m) = 200)

Arrives(c, m, src) ==
    /\ req' = [req EXCEPT ![c].pc = "machine", ![c].at = m, ![c].src = src]
    /\ UNCHANGED <<env, machineVars, held, wrote, counters, forgotten>>

Route(c, m) ==
    req[c].pc = "proxy" /\ Takes(m) /\ Arrives(c, m, FALSE)

\* To the machine that was named, or when there is none of that name any
\* more to whichever there is.
RouteBack(c, m) ==
    LET owner == held[c][1]
    IN /\ req[c].pc = "bounced"
       /\ power[m] = "up"
       /\ m = owner \/ power[owner] = "destroyed"
       /\ Arrives(c, m, TRUE)

\* auto_start_machines: a machine is started for a request it is to take.
Wanted(m) ==
    \E c \in Clients :
        \/ req[c].pc = "proxy" /\ \A n \in Machines : ~ Takes(n)
        \/ req[c].pc = "bounced" /\ held[c][1] = m
        \/ /\ req[c].pc = "bounced" /\ power[held[c][1]] = "destroyed"
           /\ \A n \in Machines : power[n] # "up"

\* A resumed machine goes on where it was; one that was stopped runs main()
\* from the beginning.
Start(m) ==
    /\ power[m] \in {"suspended", "stopped"}
    /\ Wanted(m)
    /\ power' = [power EXCEPT ![m] = "up"]
    /\ kernel' = IF power[m] = "stopped"
                 THEN [kernel EXCEPT ![m] = "starting"] ELSE kernel
    /\ UNCHANGED <<env, live, model, held, wrote, req, counters, forgotten>>

-----------------------------------------------------------------------------
(* The platform takes machines down.                                       *)

\* After minutes without traffic; a request is on its way for less.
Suspend(m) ==
    /\ power[m] = "up"
    /\ \A c \in Clients : req[c].pc = "idle"
    /\ power' = [power EXCEPT ![m] = "suspended"]
    /\ UNCHANGED <<env, kernel, live, model, held, wrote, req, counters,
                   forgotten>>

\* The memory and the disk go with it, and the requests it was at work on.
Lose(m, state) ==
    /\ power[m] \in {"up", "suspended"}
    /\ losses < MaxLosses
    /\ losses' = losses + 1
    /\ power' = [power EXCEPT ![m] = state]
    /\ kernel' = [kernel EXCEPT ![m] = "none"]
    /\ forgotten' = forgotten \union live[m]
    /\ live' = [live EXCEPT ![m] = {}]
    /\ model' = [model EXCEPT ![m] = NoModels]
    /\ req' = [c \in Clients |->
                  IF req[c].pc = "machine" /\ req[c].at = m
                  THEN [Idle EXCEPT !.kind = req[c].kind, !.answer = "broken"]
                  ELSE req[c]]
    /\ UNCHANGED <<env, held, wrote, issued, requests, crashes>>

Stop(m) == Lose(m, "stopped")

\* A machine that is replaced; the platform does not take the last one.
Destroy(m) ==
    /\ \E n \in Machines \ {m} : power[n] # "destroyed"
    /\ Lose(m, "destroyed")

-----------------------------------------------------------------------------
(* A machine's server.                                                     *)

\* prewarm() is over.
KernelImports(m) ==
    /\ power[m] = "up" /\ kernel[m] = "starting"
    /\ kernel' = [kernel EXCEPT ![m] = "ready"]
    /\ UNCHANGED <<env, power, live, model, held, wrote, req, counters,
                   forgotten>>

KernelDies(m) ==
    /\ power[m] = "up" /\ kernel[m] = "ready"
    /\ crashes < MaxCrashes
    /\ crashes' = crashes + 1
    /\ kernel' = [kernel EXCEPT ![m] = "dead"]
    /\ UNCHANGED <<env, power, live, model, held, wrote, req, issued,
                   requests, losses, forgotten>>

AtWork(c) == req[c].pc = "machine"

\* The affinity layer reads the owner off the id; a bare id is nobody's.
Foreign(c) ==
    /\ AtWork(c) /\ Affine(env) /\ held[c] # <<>>
    /\ held[c][1] \notin {Bare, req[c].at}

Answer(c, a, by) ==
    req' = [req EXCEPT ![c] = [Idle EXCEPT !.kind = req[c].kind,
                                           !.answer = a, !.by = by]]

\* A refusal of the session id makes the client initialize again.
ForgetsSession(c, a) ==
    /\ Answer(c, a, NoClient)
    /\ held' = [held EXCEPT ![c] = <<>>]
    /\ wrote' = wrote \ {c}
    /\ UNCHANGED <<env, machineVars, counters, forgotten>>

\* Mutant: a request is replayed however often it was.
BounceableAlways(c) == TRUE

\* Once; a replayed request that arrives at the wrong machine again has no
\* owner any more.
Bounceable(c) == ~ req[c].src

Replay(c) ==
    /\ Foreign(c) /\ Bounceable(c)
    /\ req' = [req EXCEPT ![c].pc = "bounced"]
    /\ UNCHANGED <<env, machineVars, held, wrote, counters, forgotten>>

SessionGone(c) ==
    /\ Foreign(c) /\ ~ Bounceable(c)
    /\ ForgetsSession(c, "gone")

Mine(c) == AtWork(c) /\ ~ Foreign(c)

\* The SDK refuses a Host that is not listed.
HostRefused(c) ==
    /\ Mine(c)
    /\ PublicHost \notin AllowedHosts(env)
    /\ Answer(c, "refused", NoClient)
    /\ UNCHANGED <<env, machineVars, held, wrote, counters, forgotten>>

Admitted(c) == Mine(c) /\ PublicHost \in AllowedHosts(env)

\* Mutant: the id goes out as the SDK made it.
WrapNot(m, raw) == <<Bare, raw>>

\* The id that the SDK issued, as it leaves the affinity layer.
Wrap(m, raw) == IF Affine(env) THEN <<m, raw>> ELSE <<Bare, raw>>

Initialize(c) ==
    LET m == req[c].at
        raw == issued + 1
    IN /\ Admitted(c)
       /\ req[c].kind = "initialize"
       /\ \/ /\ Stateless(env)
             /\ held' = [held EXCEPT ![c] = <<Bare, 0>>]
             /\ UNCHANGED <<live, issued>>
          \/ /\ ~ Stateless(env)
             /\ issued' = raw
             /\ live' = [live EXCEPT ![m] = @ \union {raw}]
             /\ held' = [held EXCEPT ![c] = Wrap(m, raw)]
       /\ Answer(c, "issued", NoClient)
       /\ UNCHANGED <<env, power, kernel, model, wrote, requests, losses,
                      crashes, forgotten>>

Known(c) == Stateless(env) \/ held[c][2] \in live[req[c].at]

UnknownSession(c) ==
    /\ Admitted(c)
    /\ req[c].kind # "initialize" /\ ~ Known(c)
    /\ ForgetsSession(c, "unknown")

\* Mutant: one session for everyone.
CadSessionDefault(c) == 0

\* resolve_id: the session that a tool works on, by the id the SDK knows.
CadSession(c) == held[c][2]

\* get_or_create sweeps the sessions that have been idle for too long, but for
\* the one it is asked for and the one of the stdio client.  Which are idle is
\* open: the SDK keeps a session whose model has gone.
Sweepable(c) ==
    {r \in Raws \ {0, CadSession(c)} : model[req[c].at][r] # NoClient}

Swept(m, S) == [r \in Raws |-> IF r \in S THEN NoClient ELSE model[m][r]]

Losers(S) == {d \in Clients : held[d] # <<>> /\ held[d][2] \in S}

Execute(c) ==
    LET m == req[c].at
    IN /\ Admitted(c)
       /\ req[c].kind = "execute_cad" /\ Known(c)
       /\ \E S \in SUBSET Sweepable(c) :
             /\ model' = [model EXCEPT
                            ![m] = [Swept(m, S) EXCEPT ![CadSession(c)] = c]]
             /\ wrote' = (wrote \ Losers(S)) \union {c}
       /\ Answer(c, "written", NoClient)
       /\ UNCHANGED <<env, power, kernel, live, held, counters, forgotten>>

\* A render asks the geometry worker, waits for one that is starting and
\* starts one for want of it.  One that dies under it costs this call.
Render(c) ==
    LET m == req[c].at
        by == model[m][CadSession(c)]
    IN /\ Admitted(c)
       /\ req[c].kind = "render_views" /\ Known(c)
       /\ \E S \in SUBSET Sweepable(c) :
             /\ model' = [model EXCEPT ![m] = Swept(m, S)]
             /\ wrote' = wrote \ Losers(S)
       /\ \/ /\ by = NoClient
             /\ Answer(c, "empty", by)
             /\ UNCHANGED <<kernel, crashes>>
          \/ /\ by # NoClient /\ kernel[m] \in {"ready", "dead"}
             /\ Answer(c, "model", by)
             /\ kernel' = [kernel EXCEPT ![m] = "ready"]
             /\ UNCHANGED crashes
          \/ /\ by # NoClient /\ kernel[m] \in {"ready", "dead"}
             /\ crashes < MaxCrashes
             /\ crashes' = crashes + 1
             /\ Answer(c, "crashed", by)
             /\ kernel' = [kernel EXCEPT ![m] = "dead"]
       /\ UNCHANGED <<env, power, live, held, issued, requests, losses,
                      forgotten>>

-----------------------------------------------------------------------------

\* What the proxy and a server do with a request.
Handle(c) ==
    \/ \E m \in Machines : Route(c, m) \/ RouteBack(c, m)
    \/ Replay(c) \/ SessionGone(c) \/ HostRefused(c)
    \/ Initialize(c) \/ UnknownSession(c) \/ Execute(c) \/ Render(c)

Next ==
    \/ \E c \in Clients, kind \in {"initialize", "execute_cad",
                                   "render_views"} : Send(c, kind)
    \/ \E c \in Clients : Handle(c)
    \/ \E m \in Machines :
          \/ Start(m) \/ Suspend(m) \/ Stop(m) \/ Destroy(m)
          \/ KernelImports(m) \/ KernelDies(m)

Spec == Init /\ [][Next]_vars

\* Servers and proxy go on with what they have begun.  Nobody has to send a
\* request, and no machine has to be stopped.
FairSpec ==
    /\ Spec
    /\ \A c \in Clients : WF_vars(Handle(c))
    /\ \A m \in Machines : WF_vars(Start(m)) /\ WF_vars(KernelImports(m))

-----------------------------------------------------------------------------
(* Properties.                                                             *)

\* A client is never told that its session is over while the machine that
\* holds it still remembers it, whichever machine its requests arrive at.
LiveSessionsAreReached ==
    [][\A c \in Clients :
          /\ req[c].pc # "idle"
          /\ req'[c].answer \in {"gone", "unknown"}
          => held[c][2] \in forgotten]_vars

\* A render shows the model its own client has built in the session it holds:
\* not somebody else's, and nothing only if nothing was built or the server has
\* swept it as idle.
ReadsSeeTheirWrites ==
    \A c \in Clients :
        /\ req[c].answer = "model" => req[c].by = c
        /\ req[c].answer = "empty" => c \notin wrote

\* No request goes to and fro between the machines for ever.
EveryRequestIsAnswered ==
    \A c \in Clients : (req[c].pc # "idle") ~> (req[c].pc = "idle")

\* 503 is for the seconds that the kernel takes to start.
HealthRecovers ==
    \A m \in Machines :
        (power[m] = "up" /\ HealthOf(m) = 503)
            ~> (power[m] # "up" \/ HealthOf(m) = 200)

\* A page in a browser can read that its session is gone.
GoneIsShown ==
    \A c \in Clients :
        req[c].answer = "gone" /\ env.origin => ShownToPage(env, "fly")

\* An operator who binds a public address without a public URL hears of it.
OperatorIsWarned == Warnings(env) = {}

=============================================================================
