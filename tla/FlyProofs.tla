------------------------------ MODULE FlyProofs -----------------------------
(***************************************************************************)
(* Theorems about Fly, for any number of machines, clients, requests and   *)
(* losses.                                                                 *)
(***************************************************************************)
EXTENDS Fly, FiniteSetTheorems, TLAPS

\* The calls that the proxy or a server is at work on.
Pending == {c \in Clients : req[c].pc # "idle"}

\* A session id is paid for with a request, so the ids never run out.
CountInv ==
    /\ IsFiniteSet(Pending)
    /\ issued + Cardinality(Pending) <= requests
    /\ requests <= MaxRequests

\* A request that is on its way has no answer yet, and initializes when its
\* client has no session, and only then.
RequestInv ==
    /\ \A c \in Pending :
         /\ req[c].answer = "none"
         /\ req[c].kind = "initialize" <=> held[c] = <<>>
         /\ req[c].pc = "machine" => req[c].at \in Machines
    /\ \A c \in wrote : held[c] # <<>>

BaseInv == TypeOK /\ CountInv /\ RequestInv

\* An id is issued once, by one machine and to one client.
IdInv ==
    /\ \A m \in Machines : live[m] \subseteq 1 .. issued
    /\ \A m, n \in Machines : live[m] \intersect live[n] # {} => m = n
    /\ \A c \in Clients : held[c] # <<>> => held[c][2] \in 1 .. issued
    /\ \A c, d \in Clients :
         (held[c] # <<>> /\ held[d] # <<>> /\ held[c][2] = held[d][2]) => c = d

\* A model is where its client's session is, and nobody else's.
ModelInv ==
    /\ \A m \in Machines, r \in Raws :
         model[m][r] # NoClient => r \in 1 .. issued
    /\ \A m \in Machines, c \in Clients :
         held[c] # <<>> => model[m][held[c][2]] \in {c, NoClient}
    /\ \A m \in Machines, c \in wrote :
         held[c][2] \in live[m] => model[m][held[c][2]] = c

SessionInv == BaseInv /\ IdInv /\ ModelInv /\ ReadsSeeTheirWrites

\* An id names the machine that issued it, which remembers the session until
\* it loses its memory.
OwnerInv ==
    \A c \in Clients : held[c] # <<>> =>
        /\ held[c][1] \in Machines
        /\ held[c][2] \in live[held[c][1]] \union forgotten

\* A request that was replayed is at the machine that was named, unless that
\* one is gone for good.  No machine that is gone is at work or remembers
\* anything.
ReplayInv ==
    /\ \A m \in Machines : power[m] = "destroyed" => live[m] = {}
    /\ \A c \in Clients :
         req[c].pc = "machine" => power[req[c].at] # "destroyed"
    /\ \A c \in Clients :
         (req[c].pc = "machine" /\ req[c].src /\ held[c] # <<>>) =>
             req[c].at = held[c][1] \/ power[held[c][1]] = "destroyed"

AffineInv == BaseInv /\ OwnerInv /\ ReplayInv

-----------------------------------------------------------------------------
(* Requests.                                                               *)

\* The client whose request a step is about, and the others.
Others(c) == \A d \in Clients \ {c} : req'[d] = req[d]

LEMMA IdleRequest ==
    Idle \in Request /\ Idle.pc = "idle" /\ Idle.answer = "none"
BY DEF Idle, Request, Answers

LEMMA SendMoves ==
    ASSUME TypeOK, NEW c \in Clients,
           NEW kind \in {"initialize", "execute_cad", "render_views"},
           Send(c, kind)
    PROVE  /\ req' \in [Clients -> Request] /\ Others(c)
           /\ req[c].pc = "idle" /\ req'[c].pc = "proxy"
           /\ req'[c].kind = kind /\ req'[c].answer = "none"
<1> DEFINE f == [Idle EXCEPT !.pc = "proxy", !.kind = kind]
<1>1. f \in Request /\ f.pc = "proxy" /\ f.kind = kind /\ f.answer = "none"
  BY DEF Idle, Request, Answers
<1>2. req' = [req EXCEPT ![c] = f]
  BY DEF Send
<1>3. req'[c] = f
  BY <1>2 DEF TypeOK
<1> QED
  BY <1>1, <1>2, <1>3 DEF TypeOK, Others, Send

LEMMA ArrivesMoves ==
    ASSUME TypeOK, NEW c \in Clients, NEW m \in Machines, NEW src \in BOOLEAN,
           Arrives(c, m, src)
    PROVE  /\ req' \in [Clients -> Request] /\ Others(c)
           /\ req'[c].pc = "machine" /\ req'[c].at = m /\ req'[c].src = src
           /\ req'[c].kind = req[c].kind /\ req'[c].answer = req[c].answer
<1> DEFINE f == [req[c] EXCEPT !.pc = "machine", !.at = m, !.src = src]
<1>1. req[c] \in Request
  BY DEF TypeOK
<1>2. /\ f \in Request /\ f.pc = "machine" /\ f.at = m /\ f.src = src
      /\ f.kind = req[c].kind /\ f.answer = req[c].answer
  BY <1>1 DEF Request
<1>3. req' = [req EXCEPT ![c] = f]
  BY DEF Arrives, TypeOK
<1>4. req'[c] = f
  BY <1>3 DEF TypeOK
<1> QED
  BY <1>2, <1>3, <1>4 DEF TypeOK, Others

LEMMA ReplayMoves ==
    ASSUME TypeOK, NEW c \in Clients, Replay(c)
    PROVE  /\ req' \in [Clients -> Request] /\ Others(c)
           /\ req'[c].pc = "bounced"
           /\ req'[c].kind = req[c].kind /\ req'[c].answer = req[c].answer
<1> DEFINE f == [req[c] EXCEPT !.pc = "bounced"]
<1>1. req[c] \in Request
  BY DEF TypeOK
<1>2. /\ f \in Request /\ f.pc = "bounced"
      /\ f.kind = req[c].kind /\ f.answer = req[c].answer
  BY <1>1 DEF Request
<1>3. req' = [req EXCEPT ![c] = f]
  BY DEF Replay, TypeOK
<1>4. req'[c] = f
  BY <1>3 DEF TypeOK
<1> QED
  BY <1>2, <1>3, <1>4 DEF TypeOK, Others

LEMMA AnswerMoves ==
    ASSUME TypeOK, NEW c \in Clients, NEW a \in Answers,
           NEW by \in Clients \union {NoClient}, Answer(c, a, by)
    PROVE  /\ req' \in [Clients -> Request] /\ Others(c)
           /\ req'[c].pc = "idle" /\ req'[c].answer = a /\ req'[c].by = by
<1> DEFINE f == [Idle EXCEPT !.kind = req[c].kind, !.answer = a, !.by = by]
<1>1. req[c] \in Request
  BY DEF TypeOK
<1>2. f \in Request /\ f.pc = "idle" /\ f.answer = a /\ f.by = by
  BY <1>1 DEF Idle, Request
<1>3. req' = [req EXCEPT ![c] = f]
  BY DEF Answer
<1>4. req'[c] = f
  BY <1>3 DEF TypeOK
<1> QED
  BY <1>2, <1>3, <1>4 DEF TypeOK, Others

\* The requests that a lost machine was at work on break off.
LEMMA LoseMoves ==
    ASSUME TypeOK, NEW m \in Machines, NEW state, Lose(m, state)
    PROVE  /\ req' \in [Clients -> Request]
           /\ \A c \in Clients :
                \/ req'[c] = req[c] /\ ~ (req[c].pc = "machine" /\ req[c].at = m)
                \/ /\ req[c].pc = "machine" /\ req[c].at = m
                   /\ req'[c].pc = "idle" /\ req'[c].answer = "broken"
<1> DEFINE f(c) == [Idle EXCEPT !.kind = req[c].kind, !.answer = "broken"]
<1>1. \A c \in Clients :
        f(c) \in Request /\ f(c).pc = "idle" /\ f(c).answer = "broken"
  BY DEF TypeOK, Idle, Request, Answers
<1>2. req' = [c \in Clients |-> IF req[c].pc = "machine" /\ req[c].at = m
                                THEN f(c) ELSE req[c]]
  BY DEF Lose
<1> HIDE DEF f
<1> QED
  BY <1>1, <1>2 DEF TypeOK

-----------------------------------------------------------------------------
(* The part that no environment matters to.                                *)

LEMMA CountFacts ==
    ASSUME TypeOK, CountInv
    PROVE  /\ issued \in Nat /\ requests \in Nat /\ Cardinality(Pending) \in Nat
           /\ MaxRequests \in Nat
           /\ Pending # {} => issued + 1 <= MaxRequests
<1>1. /\ issued \in Nat /\ requests \in Nat /\ MaxRequests \in Nat
      /\ IsFiniteSet(Pending)
  BY FlyAssumption DEF TypeOK, CountInv
<1>2. Cardinality(Pending) \in Nat
  BY <1>1, FS_CardinalityType
<1>3. Pending # {} => Cardinality(Pending) # 0
  BY <1>1, FS_EmptySet
<1> QED
  BY <1>1, <1>2, <1>3 DEF CountInv

\* Nothing happens to the clients.
LEMMA ClientsStay ==
    ASSUME BaseInv, TypeOK',
           UNCHANGED <<held, wrote, req, issued, requests>>
    PROVE  BaseInv'
<1>1. Pending' = Pending
  BY DEF Pending
<1>2. CountInv'
  BY <1>1 DEF BaseInv, CountInv
<1>3. RequestInv'
  BY <1>1 DEF BaseInv, RequestInv
<1> QED
  BY <1>2, <1>3 DEF BaseInv

\* A request goes on.
LEMMA GoesOn ==
    ASSUME BaseInv, TypeOK', NEW c \in Pending, Others(c),
           req'[c].pc # "idle", req'[c].kind = req[c].kind,
           req'[c].answer = req[c].answer,
           req'[c].pc = "machine" => req'[c].at \in Machines,
           UNCHANGED <<held, wrote, issued, requests>>
    PROVE  BaseInv'
<1>1. Pending' = Pending
  BY DEF Pending, Others
<1>2. CountInv'
  BY <1>1 DEF BaseInv, CountInv
<1>3. RequestInv'
  BY <1>1 DEF BaseInv, RequestInv, Others, Pending
<1> QED
  BY <1>2, <1>3 DEF BaseInv

\* A request is answered, and with it may come a session id or go one.
LEMMA IsAnswered ==
    ASSUME BaseInv, TypeOK', NEW c \in Pending, Others(c),
           req'[c].pc = "idle",
           \A d \in Clients \ {c} : held'[d] = held[d],
           \A d \in Clients \ {c} : d \in wrote' => d \in wrote,
           c \in wrote' => held'[c] # <<>>,
           issued' \in {issued, issued + 1}, requests' = requests
    PROVE  BaseInv'
<1>1. c \in Clients /\ Pending' = Pending \ {c}
  BY DEF Pending, Others
<1>2. /\ TypeOK /\ IsFiniteSet(Pending) /\ issued \in Nat /\ requests \in Nat
      /\ issued + Cardinality(Pending) <= requests /\ requests <= MaxRequests
  BY CountFacts DEF BaseInv, CountInv
<1>3. /\ IsFiniteSet(Pending')
      /\ Cardinality(Pending') = Cardinality(Pending) - 1
  BY <1>1, <1>2, FS_RemoveElement
<1>4. Cardinality(Pending) \in Nat
  BY <1>2, FS_CardinalityType
<1>5. CountInv'
  BY <1>2, <1>3, <1>4 DEF CountInv
<1>6. wrote' \subseteq Clients
  BY DEF TypeOK
<1>7. RequestInv'
  BY <1>1, <1>6 DEF BaseInv, RequestInv, Others, Pending
<1> QED
  BY <1>5, <1>7 DEF BaseInv

LEMMA BaseInit == Init => BaseInv
<1> SUFFICES ASSUME Init PROVE BaseInv
  OBVIOUS
<1>1. TypeOK
  BY IdleRequest, FlyAssumption
     DEF Init, TypeOK, NoModels, Raws, Ids
<1>2. Pending = {}
  BY IdleRequest DEF Init, Pending
<1>3. CountInv
  BY <1>2, FS_EmptySet, FlyAssumption DEF Init, CountInv
<1>4. RequestInv
  BY <1>2 DEF Init, RequestInv
<1> QED
  BY <1>1, <1>3, <1>4 DEF BaseInv

LEMMA SendBase ==
    ASSUME BaseInv, NEW c \in Clients,
           NEW kind \in {"initialize", "execute_cad", "render_views"},
           Send(c, kind)
    PROVE  BaseInv'
<1>1. /\ TypeOK /\ requests < MaxRequests /\ requests' = requests + 1
      /\ kind = "initialize" <=> held[c] = <<>>
      /\ UNCHANGED <<env, machineVars, held, wrote, issued, losses, crashes,
                     forgotten>>
  BY DEF BaseInv, Send
<1>2. /\ req' \in [Clients -> Request] /\ Others(c)
      /\ req[c].pc = "idle" /\ req'[c].pc = "proxy"
      /\ req'[c].kind = kind /\ req'[c].answer = "none"
  BY <1>1, SendMoves
<1>3. TypeOK'
  BY <1>1, <1>2 DEF TypeOK, machineVars
<1>4. Pending' = Pending \union {c} /\ c \notin Pending
  BY <1>2 DEF Pending, Others
<1>5. CountInv'
  <2>1. /\ issued \in Nat /\ requests \in Nat /\ Cardinality(Pending) \in Nat
        /\ IsFiniteSet(Pending) /\ issued + Cardinality(Pending) <= requests
    BY <1>1, CountFacts DEF BaseInv, CountInv
  <2>2. IsFiniteSet(Pending') /\ Cardinality(Pending') = Cardinality(Pending) + 1
    BY <1>4, <2>1, FS_AddElement
  <2> QED
    BY <1>1, <2>1, <2>2, CountFacts DEF CountInv, BaseInv
<1>6. RequestInv'
  BY <1>1, <1>2, <1>4 DEF BaseInv, RequestInv, Others, Pending
<1> QED
  BY <1>3, <1>5, <1>6 DEF BaseInv

LEMMA RouteBase ==
    ASSUME BaseInv, NEW c \in Clients, NEW m \in Machines,
           Route(c, m) \/ RouteBack(c, m)
    PROVE  BaseInv'
<1>1. PICK src \in BOOLEAN : Arrives(c, m, src)
  BY DEF Route, RouteBack
<1>2. TypeOK /\ c \in Pending
  BY DEF BaseInv, Pending, Route, RouteBack
<1>3. /\ req' \in [Clients -> Request] /\ Others(c)
      /\ req'[c].pc = "machine" /\ req'[c].at = m
      /\ req'[c].kind = req[c].kind /\ req'[c].answer = req[c].answer
  BY <1>1, <1>2, ArrivesMoves
<1>4. TypeOK'
  BY <1>1, <1>2, <1>3 DEF TypeOK, Arrives, machineVars, counters
<1> QED
  BY <1>1, <1>2, <1>3, <1>4, GoesOn DEF Arrives, counters

LEMMA ReplayBase ==
    ASSUME BaseInv, NEW c \in Clients, Replay(c)
    PROVE  BaseInv'
<1>1. TypeOK /\ c \in Pending
  BY DEF BaseInv, Pending, Replay, Foreign, AtWork
<1>2. /\ req' \in [Clients -> Request] /\ Others(c)
      /\ req'[c].pc = "bounced"
      /\ req'[c].kind = req[c].kind /\ req'[c].answer = req[c].answer
  BY <1>1, ReplayMoves
<1>3. TypeOK'
  BY <1>1, <1>2 DEF TypeOK, Replay, machineVars, counters
<1> QED
  BY <1>1, <1>2, <1>3, GoesOn DEF Replay, counters

\* The platform and the kernel, where the memory of a machine stays.
LEMMA PlatformBase ==
    ASSUME BaseInv, NEW m \in Machines,
           Start(m) \/ Suspend(m) \/ KernelImports(m) \/ KernelDies(m)
    PROVE  /\ BaseInv'
           /\ UNCHANGED <<env, live, model, held, wrote, req, issued, forgotten>>
           /\ \A n \in Machines :
                power'[n] = "destroyed" <=> power[n] = "destroyed"
<1>1. TypeOK
  BY DEF BaseInv
<1>2. /\ TypeOK'
      /\ UNCHANGED <<env, live, model, held, wrote, req, issued, requests,
                     forgotten>>
      /\ \A n \in Machines : power'[n] = "destroyed" <=> power[n] = "destroyed"
  <2>1. CASE Start(m)
    BY <1>1, <2>1 DEF TypeOK, Start, counters
  <2>2. CASE Suspend(m)
    BY <1>1, <2>2 DEF TypeOK, Suspend, counters
  <2>3. CASE KernelImports(m)
    BY <1>1, <2>3 DEF TypeOK, KernelImports, counters
  <2>4. CASE KernelDies(m)
    BY <1>1, <2>4 DEF TypeOK, KernelDies, counters
  <2> QED  BY <2>1, <2>2, <2>3, <2>4
<1> QED
  BY <1>2, ClientsStay

LEMMA LoseBase ==
    ASSUME BaseInv, NEW m \in Machines, NEW state \in {"stopped", "destroyed"},
           Lose(m, state)
    PROVE  BaseInv'
<1>1. TypeOK
  BY DEF BaseInv
<1>2. /\ req' \in [Clients -> Request]
      /\ \A c \in Clients :
           \/ req'[c] = req[c]
           \/ req[c].pc = "machine" /\ req'[c].pc = "idle"
  BY <1>1, LoseMoves
<1>3. /\ forgotten' = forgotten \union live[m] /\ losses' = losses + 1
      /\ power' = [power EXCEPT ![m] = state]
      /\ kernel' = [kernel EXCEPT ![m] = "none"]
      /\ live' = [live EXCEPT ![m] = {}]
      /\ model' = [model EXCEPT ![m] = NoModels]
      /\ UNCHANGED <<env, held, wrote, issued, requests, crashes>>
  BY DEF Lose
<1>4. TypeOK'
  <2>1. /\ power' \in [Machines -> {"up", "suspended", "stopped", "destroyed"}]
        /\ kernel' \in [Machines -> {"none", "starting", "ready", "dead"}]
        /\ live' \in [Machines -> SUBSET Raws] /\ forgotten' \subseteq Raws
    BY <1>1, <1>3 DEF TypeOK
  <2>2. model' \in [Machines -> [Raws -> Clients \union {NoClient}]]
    BY <1>1, <1>3 DEF TypeOK, NoModels
  <2>3. {issued, requests, losses, crashes}' \subseteq Nat
    BY <1>1, <1>3 DEF TypeOK
  <2> QED
    BY <1>1, <1>2, <1>3, <2>1, <2>2, <2>3 DEF TypeOK
<1>5. Pending' \subseteq Pending
  BY <1>2 DEF Pending
<1>6. CountInv'
  <2>1. /\ IsFiniteSet(Pending') /\ Cardinality(Pending') \in Nat
        /\ Cardinality(Pending') <= Cardinality(Pending)
    BY <1>5, FS_Subset, FS_CardinalityType DEF BaseInv, CountInv
  <2>2. /\ issued \in Nat /\ requests \in Nat /\ Cardinality(Pending) \in Nat
        /\ issued + Cardinality(Pending) <= requests /\ requests <= MaxRequests
    BY CountFacts DEF BaseInv, CountInv
  <2> QED
    BY <1>3, <2>1, <2>2 DEF CountInv
<1>7. RequestInv'
  BY <1>2, <1>3, <1>5 DEF BaseInv, RequestInv, Pending
<1> QED
  BY <1>4, <1>6, <1>7 DEF BaseInv

\* What a machine at work on a request can rely on.
LEMMA AtWorkFacts ==
    ASSUME BaseInv, NEW c \in Clients, AtWork(c)
    PROVE  /\ TypeOK /\ c \in Pending /\ req[c].at \in Machines
           /\ req[c].answer = "none"
           /\ req[c].kind = "initialize" <=> held[c] = <<>>
           /\ held[c] # <<>> => held[c][1] \in Machines \union {Bare}
                                /\ held[c][2] \in Raws
<1>1. /\ TypeOK /\ c \in Pending /\ req[c].at \in Machines
      /\ req[c].answer = "none"
      /\ req[c].kind = "initialize" <=> held[c] = <<>>
  BY DEF BaseInv, Pending, AtWork, RequestInv
<1>2. held[c] # <<>> => held[c] \in Ids
  BY <1>1 DEF TypeOK
<1> QED
  BY <1>1, <1>2 DEF Ids

LEMMA HostRefusedBase ==
    ASSUME BaseInv, NEW c \in Clients, HostRefused(c)
    PROVE  BaseInv' /\ Others(c) /\ req'[c].pc = "idle"
           /\ req'[c].answer = "refused"
<1>1. TypeOK /\ c \in Pending
  BY AtWorkFacts DEF HostRefused, Mine
<1>2. /\ req' \in [Clients -> Request] /\ Others(c)
      /\ req'[c].pc = "idle" /\ req'[c].answer = "refused"
  BY <1>1, AnswerMoves DEF HostRefused, Answers
<1>3. TypeOK'
  BY <1>1, <1>2 DEF TypeOK, HostRefused, machineVars, counters
<1> QED
  BY <1>1, <1>2, <1>3, IsAnswered DEF HostRefused, counters, BaseInv, RequestInv

LEMMA ForgetsBase ==
    ASSUME BaseInv, NEW c \in Clients, AtWork(c), NEW a \in {"gone", "unknown"},
           ForgetsSession(c, a)
    PROVE  BaseInv' /\ Others(c) /\ req'[c].pc = "idle" /\ req'[c].answer = a
<1>1. TypeOK /\ c \in Pending
  BY AtWorkFacts
<1>2. /\ req' \in [Clients -> Request] /\ Others(c)
      /\ req'[c].pc = "idle" /\ req'[c].answer = a
  BY <1>1, AnswerMoves DEF ForgetsSession, Answers
<1>3. TypeOK'
  BY <1>1, <1>2 DEF TypeOK, ForgetsSession, machineVars, counters
<1>4. /\ \A d \in Clients \ {c} : held'[d] = held[d]
      /\ wrote' = wrote \ {c} /\ UNCHANGED <<issued, requests>>
  BY <1>1 DEF ForgetsSession, TypeOK, counters
<1> QED
  BY <1>1, <1>2, <1>3, <1>4, IsAnswered

LEMMA InitializeBase ==
    ASSUME BaseInv, NEW c \in Clients, Initialize(c)
    PROVE  BaseInv' /\ Others(c) /\ req'[c].pc = "idle"
           /\ req'[c].answer = "issued"
<1> DEFINE m == req[c].at
           raw == issued + 1
<1>1. /\ TypeOK /\ c \in Pending /\ m \in Machines /\ held[c] = <<>>
      /\ req[c].kind = "initialize"
  BY AtWorkFacts DEF Initialize, Admitted, Mine
<1>2. raw \in Raws /\ issued \in Nat /\ 0 \in Raws
  BY <1>1, CountFacts DEF BaseInv, Raws
<1>3. /\ req' \in [Clients -> Request] /\ Others(c)
      /\ req'[c].pc = "idle" /\ req'[c].answer = "issued"
  BY <1>1, AnswerMoves DEF Initialize, Answers
<1>4. /\ issued' \in {issued, raw}
      /\ live' = live \/ live' = [live EXCEPT ![m] = @ \union {raw}]
      /\ \E id \in Ids : held' = [held EXCEPT ![c] = id]
      /\ UNCHANGED <<env, power, kernel, model, wrote, requests, losses,
                     crashes, forgotten>>
  <2>1. <<Bare, 0>> \in Ids /\ Wrap(m, raw) \in Ids
    BY <1>1, <1>2 DEF Ids, Wrap
  <2> QED  BY <2>1 DEF Initialize
<1>5. TypeOK'
  BY <1>1, <1>2, <1>3, <1>4 DEF TypeOK
<1>6. /\ \A d \in Clients \ {c} : held'[d] = held[d]
      /\ c \notin wrote
  BY <1>1, <1>4 DEF TypeOK, BaseInv, RequestInv
<1> QED
  BY <1>1, <1>3, <1>4, <1>5, <1>6, IsAnswered

\* A sweep leaves the models it does not take, and no client that has lost its
\* model counts as having written.
LEMMA Sweeps ==
    ASSUME TypeOK, NEW m \in Machines, NEW S \in SUBSET Raws
    PROVE  /\ Swept(m, S) \in [Raws -> Clients \union {NoClient}]
           /\ \A r \in Raws : Swept(m, S)[r] =
                               IF r \in S THEN NoClient ELSE model[m][r]
           /\ \A d \in Clients : (held[d] # <<>> /\ held[d][2] \in S)
                                    => d \in Losers(S)
<1>1. \A r \in Raws : model[m][r] \in Clients \union {NoClient}
  BY DEF TypeOK
<1> QED
  BY <1>1 DEF Swept, Losers

LEMMA ExecuteBase ==
    ASSUME BaseInv, NEW c \in Clients, Execute(c)
    PROVE  BaseInv' /\ Others(c) /\ req'[c].pc = "idle"
           /\ req'[c].answer = "written"
<1>1. /\ TypeOK /\ c \in Pending /\ req[c].at \in Machines
      /\ held[c] # <<>> /\ held[c][2] \in Raws
  BY AtWorkFacts DEF Execute, Admitted, Mine
<1>2. /\ req' \in [Clients -> Request] /\ Others(c)
      /\ req'[c].pc = "idle" /\ req'[c].answer = "written"
  BY <1>1, AnswerMoves DEF Execute, Answers
<1>3. PICK S \in SUBSET Sweepable(c) :
        /\ model' = [model EXCEPT ![req[c].at] =
                                     [Swept(req[c].at, S) EXCEPT ![held[c][2]] = c]]
        /\ wrote' = (wrote \ Losers(S)) \union {c}
  BY DEF Execute, CadSession
<1>4. S \in SUBSET Raws
  BY DEF Sweepable
<1>5. [Swept(req[c].at, S) EXCEPT ![held[c][2]] = c]
         \in [Raws -> Clients \union {NoClient}]
  BY <1>1, <1>4, Sweeps
<1>6. model' \in [Machines -> [Raws -> Clients \union {NoClient}]]
  BY <1>1, <1>3, <1>5 DEF TypeOK
<1>7. TypeOK'
  BY <1>1, <1>2, <1>3, <1>6 DEF TypeOK, Execute, counters
<1>8. UNCHANGED <<held, issued, requests>>
  BY DEF Execute, counters
<1> QED
  BY <1>1, <1>2, <1>3, <1>7, <1>8, IsAnswered

LEMMA RenderBase ==
    ASSUME BaseInv, NEW c \in Clients, Render(c)
    PROVE  /\ BaseInv' /\ Others(c) /\ req'[c].pc = "idle"
           /\ req'[c].answer \in {"empty", "model", "crashed"}
           /\ req'[c].by = model[req[c].at][held[c][2]]
           /\ req'[c].answer = "empty" <=> req'[c].by = NoClient
<1> DEFINE by == model[req[c].at][held[c][2]]
<1>1. /\ TypeOK /\ c \in Pending /\ req[c].at \in Machines
      /\ held[c] # <<>> /\ held[c][2] \in Raws
  BY AtWorkFacts DEF Render, Admitted, Mine
<1>2. by \in Clients \union {NoClient}
  BY <1>1 DEF TypeOK
<1>3. /\ \E a \in {"empty", "model", "crashed"} :
                     Answer(c, a, by) /\ (a = "empty" <=> by = NoClient)
      /\ kernel' \in [Machines -> {"none", "starting", "ready", "dead"}]
      /\ crashes' \in Nat
      /\ UNCHANGED <<env, power, live, held, issued, requests, losses,
                     forgotten>>
  BY <1>1 DEF Render, CadSession, TypeOK
<1>4. PICK a \in {"empty", "model", "crashed"} :
        Answer(c, a, by) /\ (a = "empty" <=> by = NoClient)
  BY <1>3
<1>5. /\ req' \in [Clients -> Request] /\ Others(c)
      /\ req'[c].pc = "idle" /\ req'[c].answer = a /\ req'[c].by = by
  BY <1>1, <1>2, <1>4, AnswerMoves DEF Answers
<1>6. PICK S \in SUBSET Sweepable(c) :
        /\ model' = [model EXCEPT ![req[c].at] = Swept(req[c].at, S)]
        /\ wrote' = wrote \ Losers(S)
  BY DEF Render
<1>7. model' \in [Machines -> [Raws -> Clients \union {NoClient}]]
  <2>1. Swept(req[c].at, S) \in [Raws -> Clients \union {NoClient}]
    BY <1>1, Sweeps DEF Sweepable
  <2> QED
    BY <1>1, <1>6, <2>1 DEF TypeOK
<1>8. TypeOK'
  BY <1>1, <1>3, <1>5, <1>6, <1>7 DEF TypeOK
<1>9. BaseInv'
  BY <1>1, <1>3, <1>5, <1>6, <1>8, IsAnswered DEF BaseInv, RequestInv
<1> QED
  BY <1>4, <1>5, <1>9

LEMMA BaseStep == BaseInv /\ [Next]_vars => BaseInv'
<1> SUFFICES ASSUME BaseInv, [Next]_vars PROVE BaseInv'
  OBVIOUS
<1>1. CASE UNCHANGED vars
  <2>1. TypeOK'
    BY <1>1 DEF vars, machineVars, counters, BaseInv, TypeOK
  <2> QED  BY <1>1, <2>1, ClientsStay DEF vars, counters
<1>2. ASSUME NEW c \in Clients,
             NEW kind \in {"initialize", "execute_cad", "render_views"},
             Send(c, kind)
      PROVE  BaseInv'
  BY <1>2, SendBase
<1>3. ASSUME NEW c \in Clients, Handle(c) PROVE BaseInv'
  <2>1. CASE SessionGone(c) \/ UnknownSession(c)
    BY <2>1, ForgetsBase DEF SessionGone, UnknownSession, Foreign, Admitted, Mine
  <2> QED
    BY <1>3, <2>1, RouteBase, ReplayBase, HostRefusedBase, InitializeBase,
       ExecuteBase, RenderBase DEF Handle
<1>4. ASSUME NEW m \in Machines, Stop(m) \/ Destroy(m) PROVE BaseInv'
  BY <1>4, LoseBase DEF Stop, Destroy
<1>5. ASSUME NEW m \in Machines,
             Start(m) \/ Suspend(m) \/ KernelImports(m) \/ KernelDies(m)
      PROVE  BaseInv'
  BY <1>5, PlatformBase
<1> QED
  BY <1>1, <1>2, <1>3, <1>4, <1>5 DEF Next

LEMMA Base == Spec => []BaseInv
BY BaseInit, BaseStep, PTL DEF Spec

\* Every reachable state is well typed, whatever the environment: the ids the
\* SDK issues do not run out before the requests do.
THEOREM TypeCorrect == Spec => []TypeOK
<1>1. BaseInv => TypeOK
  BY DEF BaseInv
<1> QED
  BY <1>1, Base, PTL

-----------------------------------------------------------------------------
(* Sessions.                                                               *)

\* A server that keeps sessions: CAD_MCP_STATELESS is not set.
SessionsAreKept == \A e \in Environs : ~ Stateless(e)

\* The memory of the machines and the ids of the clients stay, and nobody is
\* shown a model.
LEMMA SessionsStay ==
    ASSUME SessionInv, BaseInv',
           UNCHANGED <<held, live, model, wrote, issued>>,
           \A c \in Clients : req'[c] = req[c]
                              \/ req'[c].answer \notin {"model", "empty"}
    PROVE  SessionInv'
<1>1. IdInv'
  BY DEF SessionInv, IdInv
<1>2. ModelInv'
  BY DEF SessionInv, ModelInv
<1>3. ReadsSeeTheirWrites'
  BY DEF SessionInv, ReadsSeeTheirWrites
<1> QED
  BY <1>1, <1>2, <1>3 DEF SessionInv

\* What the invariant says of the ids, by their types.
LEMMA SessionTypes ==
    ASSUME SessionInv
    PROVE  /\ TypeOK /\ issued \in Nat
           /\ wrote \subseteq Clients
           /\ \A c \in Clients : held[c] # <<>> => held[c][2] \in Raws
           /\ \A c \in wrote : held[c] # <<>>
BY AtWorkFacts, CountFacts DEF SessionInv, BaseInv, TypeOK, Ids, RequestInv

\* A new id is one that nobody has had and no model is kept under.
LEMMA InitializeSession ==
    ASSUME SessionInv, SessionsAreKept, NEW c \in Clients, Initialize(c)
    PROVE  SessionInv'
<1> DEFINE m == req[c].at
           raw == issued + 1
<1>1. /\ BaseInv' /\ Others(c) /\ req'[c].answer = "issued"
  BY InitializeBase DEF SessionInv
<1>2. /\ TypeOK /\ issued \in Nat /\ m \in Machines /\ held[c] = <<>>
      /\ ~ Stateless(env) /\ c \in Pending
  BY SessionTypes, AtWorkFacts
     DEF SessionInv, Initialize, Admitted, Mine, SessionsAreKept, TypeOK
<1>3. /\ issued' = raw /\ live' = [live EXCEPT ![m] = @ \union {raw}]
      /\ UNCHANGED <<model, wrote>>
      /\ held' = [held EXCEPT ![c] = Wrap(m, raw)]
  BY <1>2 DEF Initialize
<1>4. Wrap(m, raw)[2] = raw /\ Wrap(m, raw) # <<>>
  BY DEF Wrap
<1>5. /\ held'[c] # <<>> /\ held'[c][2] = raw
      /\ \A d \in Clients \ {c} : held'[d] = held[d]
  BY <1>2, <1>3, <1>4 DEF TypeOK
<1>6. raw \in Raws /\ \A i \in 1 .. issued : i # raw /\ i \in 1 .. raw
  BY <1>2, CountFacts DEF SessionInv, BaseInv, Raws
<1>7. \A n \in Machines : live'[n] = IF n = m THEN live[m] \union {raw} ELSE live[n]
  BY <1>2, <1>3 DEF TypeOK
<1>8. IdInv'
  <2>1. \A n \in Machines : live'[n] \subseteq 1 .. issued'
    BY <1>2, <1>3, <1>6, <1>7 DEF SessionInv, IdInv
  <2>2. ASSUME NEW n \in Machines, NEW p \in Machines,
               live'[n] \intersect live'[p] # {}
        PROVE  n = p
    <3>1. live[n] \subseteq 1 .. issued /\ live[p] \subseteq 1 .. issued
      BY DEF SessionInv, IdInv
    <3>2. n = p \/ live[n] \intersect live[p] # {}
      BY <1>6, <1>7, <2>2, <3>1
    <3> QED
      BY <3>2 DEF SessionInv, IdInv
  <2>3. \A d \in Clients : held'[d] # <<>> => held'[d][2] \in 1 .. issued'
    BY <1>2, <1>3, <1>5, <1>6 DEF SessionInv, IdInv
  <2>4. \A d, e \in Clients :
          (held'[d] # <<>> /\ held'[e] # <<>> /\ held'[d][2] = held'[e][2])
             => d = e
    BY <1>5, <1>6 DEF SessionInv, IdInv
  <2> QED  BY <2>1, <2>2, <2>3, <2>4 DEF IdInv
<1>9. ModelInv'
  <2>1. \A n \in Machines, r \in Raws :
          model'[n][r] # NoClient => r \in 1 .. issued'
    BY <1>3, <1>6 DEF SessionInv, ModelInv
  <2>2. ASSUME NEW n \in Machines, NEW d \in Clients, held'[d] # <<>>
        PROVE  model'[n][held'[d][2]] \in {d, NoClient}
    <3>1. CASE d = c
      BY <1>3, <1>5, <1>6, <3>1 DEF SessionInv, ModelInv
    <3>2. CASE d # c
      BY <1>3, <1>5, <2>2, <3>2 DEF SessionInv, ModelInv
    <3> QED  BY <3>1, <3>2
  <2>3. ASSUME NEW n \in Machines, NEW d \in wrote',
               held'[d][2] \in live'[n]
        PROVE  model'[n][held'[d][2]] = d
    <3>1. d \in wrote /\ d \in Clients /\ held[d] # <<>>
      BY <1>3, <2>3, SessionTypes
    <3>2. d # c /\ held'[d] = held[d] /\ held[d][2] \in 1 .. issued
      BY <1>2, <1>5, <3>1 DEF SessionInv, IdInv
    <3>3. held[d][2] \in live[n]
      BY <1>6, <1>7, <2>3, <3>2
    <3> QED
      BY <1>3, <3>1, <3>2, <3>3 DEF SessionInv, ModelInv
  <2> QED  BY <2>1, <2>2, <2>3 DEF ModelInv
<1>10. ReadsSeeTheirWrites'
  BY <1>1, <1>3 DEF SessionInv, ReadsSeeTheirWrites, Others
<1> QED
  BY <1>1, <1>8, <1>9, <1>10 DEF SessionInv

LEMMA ForgetsSessionInv ==
    ASSUME SessionInv, NEW c \in Clients, AtWork(c),
           NEW a \in {"gone", "unknown"}, ForgetsSession(c, a)
    PROVE  SessionInv'
<1>1. BaseInv' /\ Others(c) /\ req'[c].answer = a
  BY ForgetsBase DEF SessionInv
<1>2. /\ held'[c] = <<>> /\ \A d \in Clients \ {c} : held'[d] = held[d]
      /\ wrote' = wrote \ {c} /\ wrote \subseteq Clients
      /\ UNCHANGED <<live, model, issued>>
  BY SessionTypes DEF ForgetsSession, machineVars, counters, TypeOK
<1>3. IdInv'
  BY <1>2 DEF SessionInv, IdInv
<1>4. ModelInv'
  BY <1>2 DEF SessionInv, ModelInv
<1>5. ReadsSeeTheirWrites'
  BY <1>1, <1>2 DEF SessionInv, ReadsSeeTheirWrites, Others
<1> QED
  BY <1>1, <1>3, <1>4, <1>5 DEF SessionInv

\* A machine builds a model only for a client whose session it has, so in one
\* that no other machine has and no other client.
LEMMA ExecuteSession ==
    ASSUME SessionInv, SessionsAreKept, NEW c \in Clients, Execute(c)
    PROVE  SessionInv'
<1> DEFINE m == req[c].at
           r == held[c][2]
<1>1. BaseInv' /\ Others(c) /\ req'[c].answer = "written"
  BY ExecuteBase DEF SessionInv
<1>2. /\ TypeOK /\ m \in Machines /\ held[c] # <<>> /\ r \in Raws
      /\ r \in live[m] /\ r \in 1 .. issued
  <2>1. /\ TypeOK /\ m \in Machines /\ held[c] # <<>> /\ r \in Raws
    BY AtWorkFacts DEF SessionInv, Execute, Admitted, Mine
  <2>2. r \in live[m]
    BY <2>1 DEF Execute, Known, SessionsAreKept, TypeOK
  <2> QED  BY <2>1, <2>2 DEF SessionInv, IdInv
<1>3. PICK S \in SUBSET Sweepable(c) :
        /\ model' = [model EXCEPT ![m] = [Swept(m, S) EXCEPT ![r] = c]]
        /\ wrote' = (wrote \ Losers(S)) \union {c}
  BY DEF Execute, CadSession
<1>4. UNCHANGED <<held, live, issued>>
  BY DEF Execute, counters
<1>5. \A n \in Machines, q \in Raws :
        model'[n][q] = IF n = m /\ q = r THEN c
                       ELSE IF n = m /\ q \in S THEN NoClient ELSE model[n][q]
  <2>1. S \in SUBSET Raws
    BY DEF Sweepable
  <2>2. /\ Swept(m, S) \in [Raws -> Clients \union {NoClient}]
        /\ \A q \in Raws : Swept(m, S)[q] =
                              IF q \in S THEN NoClient ELSE model[m][q]
    BY <1>2, <2>1, Sweeps
  <2>3. /\ model'[m] = [Swept(m, S) EXCEPT ![r] = c]
        /\ \A n \in Machines \ {m} : model'[n] = model[n]
    BY <1>2, <1>3 DEF TypeOK
  <2> QED  BY <1>2, <2>2, <2>3
<1>6. (wrote \ Losers(S)) \ {c} \subseteq
         {d \in wrote : held[d] # <<>> /\ held[d][2] \notin S}
  BY <1>2, SessionTypes, Sweeps DEF Sweepable
<1>7. IdInv'
  BY <1>4 DEF SessionInv, IdInv
<1>8. ModelInv'
  <2>1. \A n \in Machines, q \in Raws :
          model'[n][q] # NoClient => q \in 1 .. issued'
    BY <1>2, <1>4, <1>5 DEF SessionInv, ModelInv
  <2>2. ASSUME NEW n \in Machines, NEW d \in Clients, held'[d] # <<>>
        PROVE  model'[n][held'[d][2]] \in {d, NoClient}
    <3>1. held[d] # <<>> /\ held[d][2] \in Raws
      BY <1>4, <2>2, SessionTypes
    <3>2. held[d][2] = r => d = c
      BY <1>2, <3>1 DEF SessionInv, IdInv
    <3>3. model[n][held[d][2]] \in {d, NoClient}
      BY <3>1 DEF SessionInv, ModelInv
    <3> QED
      BY <1>4, <1>5, <3>1, <3>2, <3>3
  <2>3. ASSUME NEW n \in Machines, NEW d \in wrote', held'[d][2] \in live'[n]
        PROVE  model'[n][held'[d][2]] = d
    <3>1. CASE d = c
      <4>1. n = m
        BY <1>2, <1>4, <2>3, <3>1 DEF SessionInv, IdInv
      <4> QED  BY <1>2, <1>4, <1>5, <3>1, <4>1
    <3>2. CASE d # c
      <4>1. /\ d \in wrote /\ d \in Clients /\ held[d] # <<>>
            /\ held[d][2] \in Raws /\ held[d][2] \notin S
        BY <1>3, <1>6, <2>3, <3>2, SessionTypes
      <4>2. held[d][2] # r
        BY <1>2, <3>2, <4>1 DEF SessionInv, IdInv
      <4>3. model[n][held[d][2]] = d
        BY <1>4, <2>3, <4>1 DEF SessionInv, ModelInv
      <4> QED
        BY <1>4, <1>5, <4>1, <4>2, <4>3
    <3> QED  BY <3>1, <3>2
  <2> QED  BY <2>1, <2>2, <2>3 DEF ModelInv
<1>9. ReadsSeeTheirWrites'
  BY <1>1, <1>3 DEF SessionInv, ReadsSeeTheirWrites, Others
<1> QED
  BY <1>1, <1>7, <1>8, <1>9 DEF SessionInv

\* What a machine that knows a session shows of it is its client's.
LEMMA RenderSession ==
    ASSUME SessionInv, SessionsAreKept, NEW c \in Clients, Render(c)
    PROVE  SessionInv'
<1> DEFINE m == req[c].at
           r == held[c][2]
<1>1. /\ BaseInv' /\ Others(c)
      /\ req'[c].by = model[m][r]
      /\ req'[c].answer = "empty" <=> req'[c].by = NoClient
  BY RenderBase DEF SessionInv
<1>2. /\ TypeOK /\ m \in Machines /\ held[c] # <<>> /\ r \in live[m]
  <2>1. /\ TypeOK /\ m \in Machines /\ held[c] # <<>>
    BY AtWorkFacts DEF SessionInv, Render, Admitted, Mine
  <2> QED  BY <2>1 DEF Render, Known, SessionsAreKept, TypeOK
<1>3. PICK S \in SUBSET Sweepable(c) :
        /\ model' = [model EXCEPT ![m] = Swept(m, S)]
        /\ wrote' = wrote \ Losers(S)
  BY DEF Render
<1>4. UNCHANGED <<held, live, issued>>
  BY DEF Render
<1>5. \A n \in Machines, q \in Raws :
        model'[n][q] = IF n = m /\ q \in S THEN NoClient ELSE model[n][q]
  BY <1>2, <1>3, Sweeps DEF Sweepable, TypeOK
<1>6. wrote' \subseteq
         {d \in wrote : held[d] # <<>> /\ held[d][2] \notin S}
  BY <1>2, <1>3, SessionTypes, Sweeps DEF Sweepable
<1>7. IdInv'
  BY <1>4 DEF SessionInv, IdInv
<1>8. ModelInv'
  <2>1. \A n \in Machines, q \in Raws :
          model'[n][q] # NoClient => q \in 1 .. issued'
    BY <1>4, <1>5 DEF SessionInv, ModelInv
  <2>2. ASSUME NEW n \in Machines, NEW d \in Clients, held'[d] # <<>>
        PROVE  model'[n][held'[d][2]] \in {d, NoClient}
    BY <1>4, <1>5, <2>2, SessionTypes DEF SessionInv, ModelInv
  <2>3. ASSUME NEW n \in Machines, NEW d \in wrote', held'[d][2] \in live'[n]
        PROVE  model'[n][held'[d][2]] = d
    BY <1>4, <1>5, <1>6, <2>3, SessionTypes DEF SessionInv, ModelInv
  <2> QED  BY <2>1, <2>2, <2>3 DEF ModelInv
<1>9. /\ req'[c].answer = "model" => req'[c].by = c
      /\ req'[c].answer = "empty" => c \notin wrote
  BY <1>1, <1>2, FlyAssumption DEF SessionInv, ModelInv
<1>10. ReadsSeeTheirWrites'
  BY <1>1, <1>6, <1>9 DEF SessionInv, ReadsSeeTheirWrites, Others
<1> QED
  BY <1>1, <1>7, <1>8, <1>10 DEF SessionInv

LEMMA LoseSession ==
    ASSUME SessionInv, NEW m \in Machines, NEW state \in {"stopped", "destroyed"},
           Lose(m, state)
    PROVE  SessionInv'
<1>1. BaseInv' /\ TypeOK
  BY LoseBase DEF SessionInv, BaseInv
<1>2. \A c \in Clients : req'[c] = req[c] \/ req'[c].answer = "broken"
  BY <1>1, LoseMoves
<1>3. UNCHANGED <<held, wrote, issued>>
  BY DEF Lose
<1>4. /\ \A n \in Machines : live'[n] = IF n = m THEN {} ELSE live[n]
      /\ \A n \in Machines, r \in Raws :
           model'[n][r] = IF n = m THEN NoClient ELSE model[n][r]
  BY <1>1 DEF Lose, TypeOK, NoModels
<1>5. IdInv'
  BY <1>3, <1>4 DEF SessionInv, IdInv
<1>6. ModelInv'
  BY <1>3, <1>4, SessionTypes DEF SessionInv, ModelInv
<1>7. ReadsSeeTheirWrites'
  BY <1>2, <1>3 DEF SessionInv, ReadsSeeTheirWrites
<1> QED
  BY <1>1, <1>5, <1>6, <1>7 DEF SessionInv

LEMMA SessionInit == Init => SessionInv
<1> SUFFICES ASSUME Init PROVE SessionInv
  OBVIOUS
<1>1. BaseInv
  BY BaseInit
<1>2. IdInv
  BY DEF Init, IdInv
<1>3. ModelInv
  BY DEF Init, ModelInv, NoModels
<1>4. ReadsSeeTheirWrites
  BY IdleRequest DEF Init, ReadsSeeTheirWrites
<1> QED
  BY <1>1, <1>2, <1>3, <1>4 DEF SessionInv

LEMMA SessionStep ==
    SessionsAreKept /\ SessionInv /\ [Next]_vars => SessionInv'
<1> SUFFICES ASSUME SessionsAreKept, SessionInv, [Next]_vars PROVE SessionInv'
  OBVIOUS
<1>1. BaseInv /\ BaseInv' /\ TypeOK
  BY BaseStep DEF SessionInv, BaseInv
<1>2. CASE UNCHANGED vars
  BY <1>1, <1>2, SessionsStay DEF vars, machineVars, counters
<1>3. ASSUME NEW c \in Clients,
             NEW kind \in {"initialize", "execute_cad", "render_views"},
             Send(c, kind)
      PROVE  SessionInv'
  <2>1. Others(c) /\ req'[c].answer = "none"
    BY <1>1, <1>3, SendMoves
  <2> QED
    BY <1>1, <1>3, <2>1, SessionsStay DEF Send, Others, machineVars
<1>4. ASSUME NEW c \in Clients, NEW m \in Machines, Route(c, m) \/ RouteBack(c, m)
      PROVE  SessionInv'
  <2>1. PICK src \in BOOLEAN : Arrives(c, m, src)
    BY <1>4 DEF Route, RouteBack
  <2>2. c \in Pending
    BY <1>4 DEF Route, RouteBack, Pending
  <2>3. Others(c) /\ req'[c].answer = "none"
    BY <1>1, <2>1, <2>2, ArrivesMoves DEF BaseInv, RequestInv
  <2> QED
    BY <1>1, <2>1, <2>3, SessionsStay
       DEF Arrives, Others, machineVars, counters
<1>5. ASSUME NEW c \in Clients, Replay(c) PROVE SessionInv'
  <2>1. c \in Pending
    BY <1>5 DEF Replay, Foreign, AtWork, Pending
  <2>2. Others(c) /\ req'[c].answer = "none"
    BY <1>1, <1>5, <2>1, ReplayMoves DEF BaseInv, RequestInv
  <2> QED
    BY <1>1, <1>5, <2>2, SessionsStay DEF Replay, Others, machineVars, counters
<1>6. ASSUME NEW c \in Clients, HostRefused(c) PROVE SessionInv'
  <2>1. Others(c) /\ req'[c].answer = "refused"
    BY <1>1, <1>6, HostRefusedBase
  <2> QED
    BY <1>1, <1>6, <2>1, SessionsStay
       DEF HostRefused, Others, machineVars, counters
<1>7. ASSUME NEW c \in Clients, SessionGone(c) \/ UnknownSession(c)
      PROVE  SessionInv'
  BY <1>7, ForgetsSessionInv
     DEF SessionGone, UnknownSession, Foreign, Admitted, Mine
<1>8. ASSUME NEW c \in Clients, Handle(c) PROVE SessionInv'
  BY <1>4, <1>5, <1>6, <1>7, <1>8, InitializeSession, ExecuteSession,
     RenderSession DEF Handle
<1>9. ASSUME NEW m \in Machines, Stop(m) \/ Destroy(m) PROVE SessionInv'
  BY <1>9, LoseSession DEF Stop, Destroy
<1>10. ASSUME NEW m \in Machines,
              Start(m) \/ Suspend(m) \/ KernelImports(m) \/ KernelDies(m)
       PROVE  SessionInv'
  BY <1>1, <1>10, PlatformBase, SessionsStay
<1> QED
  BY <1>2, <1>3, <1>8, <1>9, <1>10 DEF Next

\* A render shows its own client's model, and none only where none was built or
\* the server has swept it as idle,
\* however requests are sent to and fro and machines lost, as long as the
\* servers keep sessions; whether the ids name a machine does not matter.
THEOREM OwnModelIsShown == SessionsAreKept => (Spec => []ReadsSeeTheirWrites)
<1> SUFFICES ASSUME SessionsAreKept PROVE Spec => []ReadsSeeTheirWrites
  OBVIOUS
<1>1. SessionInv /\ [Next]_vars => SessionInv'
  BY SessionStep
<1>2. SessionInv => ReadsSeeTheirWrites
  BY DEF SessionInv
<1> QED
  BY <1>1, <1>2, SessionInit, PTL DEF Spec

-----------------------------------------------------------------------------
(* Affinity.                                                               *)

\* Every machine has the affinity layer, and keeps sessions.
AffinityIsOn == \A e \in Environs : Affine(e) /\ ~ Stateless(e)

\* No id, no machine and no memory changes.
LEMMA AffineStays ==
    ASSUME AffineInv, BaseInv', UNCHANGED <<held, live, forgotten>>,
           \A m \in Machines : power'[m] = "destroyed" <=> power[m] = "destroyed",
           \A c \in Clients :
             \/ req'[c] = req[c]
             \/ req'[c].pc # "machine"
             \/ ~ req'[c].src /\ power'[req'[c].at] # "destroyed"
    PROVE  AffineInv'
<1>1. OwnerInv'
  BY DEF AffineInv, OwnerInv
<1>2. /\ TypeOK /\ \A c \in Clients : held[c] # <<>> => held[c][1] \in Machines
      /\ \A c \in Clients : req[c].pc = "machine" => req[c].at \in Machines
  BY DEF AffineInv, OwnerInv, BaseInv, RequestInv, Pending
<1>3. ReplayInv'
  BY <1>2 DEF AffineInv, ReplayInv
<1> QED
  BY <1>1, <1>3 DEF AffineInv

LEMMA AffineAnswered ==
    ASSUME AffineInv, BaseInv', NEW c \in Clients, Others(c),
           req'[c].pc = "idle", UNCHANGED <<power, forgotten>>,
           \A d \in Clients \ {c} : held'[d] = held[d],
           \A m \in Machines : live[m] \subseteq live'[m],
           \A m \in Machines : power[m] = "destroyed" => live'[m] = {},
           held'[c] # <<>> => held'[c][1] \in Machines
                              /\ held'[c][2] \in live'[held'[c][1]]
                                                  \union forgotten
    PROVE  AffineInv'
<1>1. OwnerInv'
  <2>1. ASSUME NEW d \in Clients \ {c}, held'[d] # <<>>
        PROVE  /\ held'[d][1] \in Machines
               /\ held'[d][2] \in live'[held'[d][1]] \union forgotten
    <3>1. /\ held'[d] = held[d] /\ held[d][1] \in Machines
          /\ held[d][2] \in live[held[d][1]] \union forgotten
      BY <2>1 DEF AffineInv, OwnerInv
    <3> QED  BY <3>1
  <2> QED  BY <2>1 DEF OwnerInv
<1>2. ReplayInv'
  BY DEF AffineInv, ReplayInv, Others
<1> QED
  BY <1>1, <1>2 DEF AffineInv

\* The first request on a session may arrive anywhere; once it is replayed it
\* is where its session is, or that machine is gone.
LEMMA RouteBackAffine ==
    ASSUME AffineInv, NEW c \in Clients, NEW m \in Machines, RouteBack(c, m)
    PROVE  AffineInv'
<1>1. BaseInv' /\ TypeOK
  BY RouteBase DEF AffineInv, BaseInv
<1>2. /\ req' \in [Clients -> Request] /\ Others(c)
      /\ req'[c].pc = "machine" /\ req'[c].at = m
  BY <1>1, ArrivesMoves DEF RouteBack
<1>3. UNCHANGED <<held, live, forgotten, power>>
  BY DEF RouteBack, Arrives, machineVars
<1>4. OwnerInv'
  BY <1>3 DEF AffineInv, OwnerInv
<1>5. m = held[c][1] \/ power[held[c][1]] = "destroyed"
  BY DEF RouteBack
<1>6. ReplayInv'
  <2>1. power[m] # "destroyed"
    BY DEF RouteBack
  <2> QED
    BY <1>2, <1>3, <1>5, <2>1 DEF AffineInv, ReplayInv, Others
<1> QED
  BY <1>1, <1>4, <1>6 DEF AffineInv

LEMMA InitializeAffine ==
    ASSUME AffineInv, AffinityIsOn, NEW c \in Clients, Initialize(c)
    PROVE  AffineInv'
<1> DEFINE m == req[c].at
           raw == issued + 1
<1>1. BaseInv' /\ Others(c) /\ req'[c].pc = "idle"
  BY InitializeBase DEF AffineInv
<1>2. /\ TypeOK /\ m \in Machines /\ Affine(env) /\ ~ Stateless(env)
  BY AtWorkFacts
     DEF AffineInv, Initialize, Admitted, Mine, AffinityIsOn, TypeOK
<1>3. /\ live' = [live EXCEPT ![m] = @ \union {raw}]
      /\ UNCHANGED <<power, forgotten>>
      /\ held' = [held EXCEPT ![c] = <<m, raw>>]
  BY <1>2 DEF Initialize, Wrap
<1>4. /\ held'[c] = <<m, raw>> /\ raw \in live'[m]
      /\ \A d \in Clients \ {c} : held'[d] = held[d]
      /\ \A n \in Machines : live[n] \subseteq live'[n]
      /\ \A n \in Machines \ {m} : live'[n] = live[n]
  BY <1>2, <1>3 DEF TypeOK
<1>5. power[m] # "destroyed"
  BY DEF AffineInv, ReplayInv, Initialize, Admitted, Mine, AtWork
<1> QED
  BY <1>1, <1>2, <1>3, <1>4, <1>5, AffineAnswered DEF AffineInv, ReplayInv

\* A client forgets its session: there is nothing left to be said of it.
LEMMA ForgetsAffine ==
    ASSUME AffineInv, NEW c \in Clients, AtWork(c),
           NEW a \in {"gone", "unknown"}, ForgetsSession(c, a)
    PROVE  AffineInv'
<1>1. BaseInv' /\ Others(c) /\ req'[c].pc = "idle"
  BY ForgetsBase DEF AffineInv
<1>2. /\ held'[c] = <<>> /\ \A d \in Clients \ {c} : held'[d] = held[d]
      /\ UNCHANGED <<live, power, forgotten>>
  BY DEF AffineInv, BaseInv, ForgetsSession, machineVars, TypeOK
<1> QED
  BY <1>1, <1>2, AffineAnswered DEF AffineInv, ReplayInv

\* A session whose machine is lost is one of the forgotten.
LEMMA LoseAffine ==
    ASSUME AffineInv, NEW m \in Machines, NEW state \in {"stopped", "destroyed"},
           Lose(m, state)
    PROVE  AffineInv'
<1>1. BaseInv' /\ TypeOK
  BY LoseBase DEF AffineInv, BaseInv
<1>2. \A c \in Clients :
        \/ req'[c] = req[c] /\ ~ (req[c].pc = "machine" /\ req[c].at = m)
        \/ req'[c].pc = "idle"
  BY <1>1, LoseMoves
<1>3. /\ forgotten' = forgotten \union live[m] /\ held' = held
      /\ power[m] # "destroyed"
      /\ \A n \in Machines : live'[n] = IF n = m THEN {} ELSE live[n]
      /\ \A n \in Machines : power'[n] = IF n = m THEN state ELSE power[n]
  BY <1>1 DEF Lose, TypeOK
<1>4. OwnerInv'
  BY <1>3 DEF AffineInv, OwnerInv
<1>5. \A c \in Clients :
        /\ held[c] # <<>> => held[c][1] \in Machines
        /\ req[c].pc = "machine" => req[c].at \in Machines
  BY DEF AffineInv, OwnerInv, BaseInv, RequestInv, Pending
<1>6. ReplayInv'
  <2>1. \A n \in Machines : power'[n] = "destroyed" => live'[n] = {}
    BY <1>3 DEF AffineInv, ReplayInv
  <2>2. ASSUME NEW c \in Clients, req'[c].pc = "machine"
        PROVE  /\ power'[req'[c].at] # "destroyed"
               /\ req'[c].src /\ held'[c] # <<>> =>
                    \/ req'[c].at = held'[c][1]
                    \/ power'[held'[c][1]] = "destroyed"
    <3>1. req'[c] = req[c] /\ req[c].pc = "machine" /\ req[c].at # m
      BY <1>2, <2>2
    <3>2. power'[req'[c].at] # "destroyed"
      BY <1>3, <1>5, <3>1 DEF AffineInv, ReplayInv
    <3>3. ASSUME req[c].src, held[c] # <<>>, req[c].at # held[c][1]
          PROVE  power'[held[c][1]] = "destroyed"
      <4>1. held[c][1] \in Machines /\ power[held[c][1]] = "destroyed"
        BY <1>5, <3>1, <3>3 DEF AffineInv, ReplayInv
      <4> QED  BY <1>3, <4>1
    <3> QED
      BY <1>3, <3>1, <3>2, <3>3
  <2> QED  BY <2>1, <2>2 DEF ReplayInv
<1> QED
  BY <1>1, <1>4, <1>6 DEF AffineInv

LEMMA AffineInit == Init => AffineInv
<1> SUFFICES ASSUME Init PROVE AffineInv
  OBVIOUS
<1>1. BaseInv
  BY BaseInit
<1>2. OwnerInv /\ ReplayInv
  BY IdleRequest DEF Init, OwnerInv, ReplayInv
<1> QED
  BY <1>1, <1>2 DEF AffineInv

LEMMA AffineStep == AffinityIsOn /\ AffineInv /\ [Next]_vars => AffineInv'
<1> SUFFICES ASSUME AffinityIsOn, AffineInv, [Next]_vars PROVE AffineInv'
  OBVIOUS
<1>1. BaseInv /\ BaseInv' /\ TypeOK
  BY BaseStep DEF AffineInv, BaseInv
<1>2. CASE UNCHANGED vars
  BY <1>1, <1>2, AffineStays DEF vars, machineVars, counters
<1>3. ASSUME NEW c \in Clients,
             NEW kind \in {"initialize", "execute_cad", "render_views"},
             Send(c, kind)
      PROVE  AffineInv'
  <2>1. Others(c) /\ req'[c].pc = "proxy"
    BY <1>1, <1>3, SendMoves
  <2> QED
    BY <1>1, <1>3, <2>1, AffineStays DEF Send, Others, machineVars
<1>4. ASSUME NEW c \in Clients, NEW m \in Machines, Route(c, m)
      PROVE  AffineInv'
  <2>1. Others(c) /\ ~ req'[c].src /\ req'[c].at = m
    BY <1>1, <1>4, ArrivesMoves DEF Route
  <2>2. UNCHANGED <<held, live, forgotten, power>> /\ power[m] # "destroyed"
    BY <1>4 DEF Route, Arrives, Takes, machineVars
  <2> QED
    BY <1>1, <2>1, <2>2, AffineStays DEF Others
<1>5. ASSUME NEW c \in Clients, Replay(c) PROVE AffineInv'
  <2>1. Others(c) /\ req'[c].pc = "bounced"
    BY <1>1, <1>5, ReplayMoves
  <2> QED
    BY <1>1, <1>5, <2>1, AffineStays DEF Replay, Others, machineVars, counters
<1>6. ASSUME NEW c \in Clients, HostRefused(c) \/ Execute(c) \/ Render(c)
      PROVE  AffineInv'
  <2>1. Others(c) /\ req'[c].pc = "idle"
    BY <1>1, <1>6, HostRefusedBase, ExecuteBase, RenderBase
  <2>2. UNCHANGED <<held, live, forgotten, power>>
    BY <1>6 DEF HostRefused, Execute, Render, machineVars
  <2> QED
    BY <1>1, <2>1, <2>2, AffineStays DEF Others
<1>7. ASSUME NEW c \in Clients, SessionGone(c) \/ UnknownSession(c)
      PROVE  AffineInv'
  BY <1>7, ForgetsAffine
     DEF SessionGone, UnknownSession, Foreign, Admitted, Mine
<1>8. ASSUME NEW c \in Clients, Handle(c) PROVE AffineInv'
  BY <1>4, <1>5, <1>6, <1>7, <1>8, RouteBackAffine, InitializeAffine DEF Handle
<1>9. ASSUME NEW m \in Machines, Stop(m) \/ Destroy(m) PROVE AffineInv'
  BY <1>9, LoseAffine DEF Stop, Destroy
<1>10. ASSUME NEW m \in Machines,
              Start(m) \/ Suspend(m) \/ KernelImports(m) \/ KernelDies(m)
       PROVE  AffineInv'
  BY <1>1, <1>10, PlatformBase, AffineStays
<1> QED
  BY <1>2, <1>3, <1>8, <1>9, <1>10 DEF Next

\* A client hears that its session is over only when the machine that held it
\* has lost its memory, whichever machines its requests arrive at, with the
\* affinity layer on every machine: a request is replayed to the machine that
\* its id names, and the one replay is enough.
THEOREM LiveSessionsReached == AffinityIsOn => (Spec => LiveSessionsAreReached)
<1> SUFFICES ASSUME AffinityIsOn PROVE Spec => LiveSessionsAreReached
  OBVIOUS
<1> DEFINE Reached == \A c \in Clients :
                        /\ req[c].pc # "idle"
                        /\ req'[c].answer \in {"gone", "unknown"}
                        => held[c][2] \in forgotten
<1>1. ASSUME AffineInv, Next PROVE Reached
  <2> SUFFICES ASSUME NEW c \in Clients, req[c].pc # "idle",
                      req'[c].answer \in {"gone", "unknown"}
               PROVE  held[c][2] \in forgotten
    OBVIOUS
  <2>1. /\ BaseInv /\ TypeOK /\ c \in Pending
        /\ req[c].answer = "none" /\ req'[c] # req[c]
    BY <1>1 DEF AffineInv, BaseInv, RequestInv, Pending
  <2>2. SessionGone(c) \/ UnknownSession(c)
    <3>1. ASSUME NEW d \in Clients,
                 NEW kind \in {"initialize", "execute_cad", "render_views"},
                 Send(d, kind)
          PROVE  FALSE
      BY <2>1, <3>1, SendMoves DEF Others
    <3>2. ASSUME NEW d \in Clients, NEW m \in Machines,
                 Route(d, m) \/ RouteBack(d, m)
          PROVE  FALSE
      <4>1. PICK src \in BOOLEAN : Arrives(d, m, src)
        BY <3>2 DEF Route, RouteBack
      <4> QED
        BY <2>1, <4>1, ArrivesMoves DEF Others
    <3>3. ASSUME NEW d \in Clients, Replay(d) PROVE FALSE
      BY <2>1, <3>3, ReplayMoves DEF Others
    <3>4. ASSUME NEW d \in Clients,
                 HostRefused(d) \/ Initialize(d) \/ Execute(d) \/ Render(d)
          PROVE  FALSE
      BY <2>1, <3>4, HostRefusedBase, InitializeBase, ExecuteBase, RenderBase
         DEF Others
    <3>5. ASSUME NEW m \in Machines, Stop(m) \/ Destroy(m) PROVE FALSE
      BY <2>1, <3>5, LoseMoves DEF Stop, Destroy
    <3>6. ASSUME NEW m \in Machines,
                 Start(m) \/ Suspend(m) \/ KernelImports(m) \/ KernelDies(m)
          PROVE  FALSE
      BY <2>1, <3>6, PlatformBase
    <3>7. ASSUME NEW d \in Clients, SessionGone(d) \/ UnknownSession(d)
          PROVE  d = c
      BY <2>1, <3>7, ForgetsBase
         DEF Others, SessionGone, UnknownSession, Foreign, Admitted, Mine
    <3> QED
      BY <1>1, <3>1, <3>2, <3>3, <3>4, <3>5, <3>6, <3>7 DEF Next, Handle
  <2>3. AtWork(c) /\ held[c] # <<>>
    BY <2>1, <2>2, AtWorkFacts
       DEF SessionGone, UnknownSession, Foreign, Admitted, Mine
  <2> DEFINE owner == held[c][1]
  <2>4. /\ owner \in Machines /\ owner # Bare
        /\ held[c][2] \in live[owner] \union forgotten
    BY <1>1, <2>3, FlyAssumption DEF AffineInv, OwnerInv
  <2>5. CASE SessionGone(c)
    <3>1. power[owner] = "destroyed"
      BY <1>1, <2>3, <2>4, <2>5
         DEF AffineInv, ReplayInv, SessionGone, Bounceable, Foreign, AtWork
    <3> QED
      BY <1>1, <2>4, <3>1 DEF AffineInv, ReplayInv
  <2>6. CASE UnknownSession(c)
    <3>1. owner = req[c].at
      BY <2>1, <2>3, <2>4, <2>6
         DEF UnknownSession, Admitted, Mine, Foreign, AffinityIsOn, TypeOK
    <3> QED
      BY <2>4, <2>6, <3>1 DEF UnknownSession, Known
  <2> QED
    BY <2>2, <2>5, <2>6
<1>2. AffineInv /\ [Next]_vars => AffineInv'
  BY AffineStep
<1>3. AffineInv /\ [Next]_vars => [Reached]_vars
  BY <1>1
<1> QED
  BY <1>2, <1>3, AffineInit, PTL DEF Spec, LiveSessionsAreReached

=============================================================================
