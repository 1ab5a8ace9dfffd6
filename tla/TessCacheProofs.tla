--------------------------- MODULE TessCacheProofs ---------------------------
(***************************************************************************)
(* Proofs about TessCache and the Readers that call it, for any threads,   *)
(* files, tolerances and interleaving.  The cache: its type, its bound,    *)
(* and that it serves no stale mesh.  The readers: that they are callers   *)
(* of the cache like any other, and that their replies are whole.          *)
(***************************************************************************)
EXTENDS Readers, FiniteSetTheorems, WellFoundedInduction, TLAPS

-----------------------------------------------------------------------------
(* What the two operators on the cache return.                             *)

\* Room leaves a cache that has room for one more entry, and takes from it.
LEMMA RoomFacts ==
    ASSUME cache \in Seq(Item), Len(cache) <= CacheMax
    PROVE  /\ Room \in Seq(Item)
           /\ Len(Room) < CacheMax
           /\ \A i \in DOMAIN Room :
                 \E d \in {0, 1} : i + d \in DOMAIN cache
                                   /\ Room[i] = cache[i + d]
           /\ \E d \in {0, 1} : \A i \in DOMAIN Room :
                 i + d \in DOMAIN cache /\ Room[i] = cache[i + d]
<1>1. CASE Len(cache) >= CacheMax
  <2>1. cache # <<>> /\ Room = Tail(cache)
    BY <1>1, TessAssumption DEF Room
  <2>2. /\ Tail(cache) \in Seq(Item)
        /\ Len(Tail(cache)) = Len(cache) - 1
        /\ \A i \in DOMAIN Tail(cache) :
              i + 1 \in DOMAIN cache /\ Tail(cache)[i] = cache[i + 1]
    BY <2>1
  <2>3. QED
    BY <1>1, <2>1, <2>2, TessAssumption
<1>2. CASE ~ (Len(cache) >= CacheMax)
  <2>1. Room = cache
    BY <1>2 DEF Room
  <2>2. \A i \in DOMAIN cache : i + 0 = i
    BY DEF Item
  <2>3. QED
    BY <1>2, <2>1, <2>2, TessAssumption
<1>3. QED
  BY <1>1, <1>2

\* Put adds at most one entry, and every entry of the result is the new one
\* or an old one with another key.
LEMMA PutFacts ==
    ASSUME NEW s \in Seq(Item), NEW e \in Item,
           \A i, j \in DOMAIN s : s[i].key = s[j].key => i = j
    PROVE  /\ Put(s, e) \in Seq(Item)
           /\ Len(Put(s, e)) <= Len(s) + 1
           /\ \A i \in DOMAIN Put(s, e) :
                 Put(s, e)[i] = e \/ \E j \in DOMAIN s : Put(s, e)[i] = s[j]
           /\ \A i, j \in DOMAIN Put(s, e) :
                 Put(s, e)[i].key = Put(s, e)[j].key => i = j
<1> DEFINE old == \E i \in DOMAIN s : s[i].key = e.key
           r == [i \in DOMAIN s |-> IF s[i].key = e.key THEN e ELSE s[i]]
<1>1. CASE old
  <2>1. Put(s, e) = r
    BY <1>1 DEF Put
  <2>2. r \in Seq(Item) /\ Len(r) = Len(s) /\ DOMAIN r = DOMAIN s
    OBVIOUS
  <2>3. \A i \in DOMAIN s : r[i].key = s[i].key
    OBVIOUS
  <2>4. QED
    BY <2>1, <2>2, <2>3
<1>2. CASE ~ old
  <2>1. Put(s, e) = Append(s, e)
    BY <1>2 DEF Put
  <2>2. /\ Append(s, e) \in Seq(Item)
        /\ Len(Append(s, e)) = Len(s) + 1
        /\ DOMAIN Append(s, e) = DOMAIN s \union {Len(s) + 1}
        /\ \A i \in DOMAIN s : Append(s, e)[i] = s[i]
        /\ Append(s, e)[Len(s) + 1] = e
    OBVIOUS
  <2>3. QED
    BY <1>2, <2>1, <2>2
<1>3. QED
  BY <1>1, <1>2

-----------------------------------------------------------------------------
(* The type, and the bound.                                                *)

LEMMA IdleIsFrame == Idle \in Frame /\ Idle.pc = "idle"
<1>1. Request # {}
  <2>1. PICK p \in Paths, d \in Tols : TRUE
    BY TessAssumption
  <2>2. [path |-> p, tol |-> d] \in Request
    BY DEF Request
  <2>3. QED
    BY <2>2
<1>2. Nothing \in Request
  BY <1>1 DEF Nothing
<1>3. QED
  BY <1>2 DEF Idle, Frame, PC, Stamped, Stamp, Request

\* The type and the bound of the cache are inductive together: Room needs a
\* cache that is not over its bound.
Sound == TypeOK /\ CacheBounded

LEMMA SoundInit == Init => Sound
  BY IdleIsFrame, TessAssumption DEF Init, Sound, TypeOK, CacheBounded

LEMMA SoundStep == Sound /\ [Next]_vars => Sound'
<1> SUFFICES ASSUME Sound, [Next]_vars
             PROVE  Sound'
  OBVIOUS
<1> USE DEF Sound
<1>1. ASSUME NEW p \in Paths, Write(p)
      PROVE  Sound'
  BY <1>1 DEF Write, TypeOK, CacheBounded
<1>2. ASSUME NEW p \in Paths, Unlink(p)
      PROVE  Sound'
  BY <1>2 DEF Unlink, TypeOK, CacheBounded
<1>3. ASSUME NEW t \in Threads, NEW r \in Request, Call(t, r)
      PROVE  Sound'
  <2>1. r.path \in Paths
    BY DEF Request
  <2>2. CacheBounded' /\ cache' \in Seq(Item)
    BY <1>3 DEF Call, TypeOK, CacheBounded
  <2> DEFINE f == [Idle EXCEPT !.pc = "stat", !.req = r,
                               !.since = file[r.path]]
  <2>3. f \in Frame /\ f.pc = "stat"
    BY <2>1, IdleIsFrame DEF Frame, PC, TypeOK
  <2>4. thr' = [thr EXCEPT ![t] = f]
    BY <1>3 DEF Call
  <2>5. QED
    BY <1>3, <2>2, <2>3, <2>4 DEF Call, TypeOK
<1>4. ASSUME NEW t \in Threads, Stat(t)
      PROVE  Sound'
  <2>1. thr[t] \in Frame /\ thr[t].req \in Request /\ thr[t].req.path \in Paths
    BY DEF TypeOK, Frame, Request
  <2> DEFINE v == file[thr[t].req.path]
             k == TessKey(thr[t].req, v)
  <2>2. v \in Nat /\ k \in Stamped /\ (v # 0 => k \in Built)
    BY <2>1 DEF TypeOK, TessKey, Stamp, Stamped, Built, Request
  <2> HIDE DEF v, k
  <2>3. thr' = [thr EXCEPT ![t].key = k,
                           ![t].pc = IF v = 0 THEN "compute" ELSE "lookup"]
    BY <1>4 DEF Stat, v, k
  <2>4. CacheBounded' /\ cache' \in Seq(Item)
    BY <1>4 DEF Stat, TypeOK, CacheBounded
  <2>5. thr' \in [Threads -> Frame]
    BY <2>1, <2>2, <2>3 DEF TypeOK, Frame, PC
  <2>6. /\ thr'[t].key = k
        /\ thr'[t].pc \in {"compute", "lookup"}
        /\ thr'[t].pc = "lookup" => v # 0
        /\ \A u \in Threads \ {t} : thr'[u] = thr[u]
    BY <2>1, <2>3 DEF TypeOK, Frame
  <2>7. TypeOK'
    BY <1>4, <2>2, <2>4, <2>5, <2>6 DEF Stat, TypeOK
  <2>8. QED
    BY <2>4, <2>7
<1>5. ASSUME NEW t \in Threads, Hit(t)
      PROVE  Sound'
  <2>1. PICK i \in Hits(thr[t].key) :
           thr' = [thr EXCEPT ![t].mesh = cache[i].mesh, ![t].pc = "return"]
    BY <1>5 DEF Hit
  <2>2. cache[i].mesh \in Built /\ cache[i].mesh \in Stamped
    <3>1. i \in DOMAIN cache
      BY DEF Hits
    <3>2. cache[i] \in Item
      BY <3>1 DEF TypeOK
    <3>3. QED
      BY <3>2 DEF Item, Built, Stamped
  <2>3. CacheBounded' /\ cache' \in Seq(Item)
    BY <1>5 DEF Hit, TypeOK, CacheBounded
  <2>4. thr' \in [Threads -> Frame]
    BY <2>1, <2>2 DEF TypeOK, Frame, PC
  <2>5. /\ thr'[t].mesh = cache[i].mesh
        /\ thr'[t].pc = "return"
        /\ \A u \in Threads \ {t} : thr'[u] = thr[u]
    BY <2>1 DEF TypeOK, Frame
  <2>6. TypeOK'
    BY <1>5, <2>2, <2>3, <2>4, <2>5 DEF Hit, TypeOK
  <2>7. QED
    BY <2>3, <2>6
<1>6. ASSUME NEW t \in Threads, Miss(t)
      PROVE  Sound'
  BY <1>6 DEF Miss, TypeOK, CacheBounded, Frame, PC
<1>7. ASSUME NEW t \in Threads, Compute(t)
      PROVE  Sound'
  <2>1. thr[t] \in Frame /\ thr[t].req \in Request /\ thr[t].req.path \in Paths
    BY DEF TypeOK, Frame, Request
  <2> DEFINE m == Stamp(thr[t].req, file[thr[t].req.path])
  <2>2. m \in Stamped /\ m \in Built
    BY <1>7, <2>1 DEF Compute, TypeOK, Stamp, Stamped, Built, Request
  <2> HIDE DEF m
  <2>3. thr' = [thr EXCEPT ![t].mesh = m,
                           ![t].pc = IF thr[t].key.ver # 0 THEN "insert"
                                     ELSE "return"]
    BY <1>7 DEF Compute, m
  <2>4. CacheBounded' /\ cache' \in Seq(Item)
    BY <1>7 DEF Compute, TypeOK, CacheBounded
  <2>5. thr' \in [Threads -> Frame]
    BY <2>1, <2>2, <2>3 DEF TypeOK, Frame, PC
  <2>6. /\ thr'[t].mesh = m /\ thr'[t].key = thr[t].key
        /\ thr'[t].pc \in {"insert", "return"}
        /\ thr'[t].pc = "insert" => thr[t].key.ver # 0
        /\ \A u \in Threads \ {t} : thr'[u] = thr[u]
    BY <2>1, <2>3 DEF TypeOK, Frame
  <2>7. thr[t].key.ver # 0 => thr[t].key \in Built
    BY <2>1 DEF Frame, Stamped, Built
  <2>8. TypeOK'
    BY <1>7, <2>2, <2>4, <2>5, <2>6, <2>7 DEF Compute, TypeOK
  <2>9. QED
    BY <2>4, <2>8
<1>8. ASSUME NEW t \in Threads, ComputeFails(t) \/ Return(t)
      PROVE  Sound'
  BY <1>8, IdleIsFrame DEF ComputeFails, Return, TypeOK, CacheBounded
<1>9. ASSUME NEW t \in Threads, Insert(t)
      PROVE  Sound'
  <2> DEFINE e == [key |-> thr[t].key, mesh |-> thr[t].mesh]
  <2>1. e \in Item
    BY <1>9 DEF Insert, TypeOK, Item
  <2>2. /\ Room \in Seq(Item) /\ Len(Room) < CacheMax
        /\ \E d \in {0, 1} : \A i \in DOMAIN Room :
              i + d \in DOMAIN cache /\ Room[i] = cache[i + d]
    BY RoomFacts DEF TypeOK, CacheBounded
  <2>3. \A i, j \in DOMAIN Room : Room[i].key = Room[j].key => i = j
    BY <2>2 DEF CacheBounded
  <2> HIDE DEF e
  <2>4. /\ Put(Room, e) \in Seq(Item) /\ Len(Put(Room, e)) <= Len(Room) + 1
        /\ \A i, j \in DOMAIN Put(Room, e) :
              Put(Room, e)[i].key = Put(Room, e)[j].key => i = j
    BY <2>1, <2>2, <2>3, PutFacts
  <2>5. cache' = Put(Room, e)
    BY <1>9 DEF Insert, e
  <2>6. CacheBounded' /\ cache' \in Seq(Item)
    BY <2>2, <2>4, <2>5, TessAssumption DEF CacheBounded
  <2>7. QED
    BY <1>9, <2>6 DEF Insert, TypeOK, Frame, PC
<1>10. CASE Clear
  BY <1>10, TessAssumption DEF Clear, TypeOK, CacheBounded
<1>11. CASE UNCHANGED vars
  BY <1>11 DEF vars, TypeOK, CacheBounded
<1>12. QED
  BY <1>1, <1>2, <1>3, <1>4, <1>5, <1>6, <1>7, <1>8, <1>9, <1>10, <1>11
  DEF Next, Step

\* The state of the cache stays of its type: a key that is looked up or
\* inserted is that of a file that was there, and so is a mesh that is
\* returned.
THEOREM TypeCorrect == Spec => []TypeOK
<1>1. Sound => TypeOK
  BY DEF Sound
<1>2. QED
  BY SoundInit, SoundStep, <1>1, PTL DEF Spec

\* The cache is never larger than _TESS_CACHE_MAX and holds one entry for a
\* key, whichever calls miss and insert at the same time.
THEOREM Bounded == Spec => []CacheBounded
<1>1. Sound => CacheBounded
  BY DEF Sound
<1>2. QED
  BY SoundInit, SoundStep, <1>1, PTL DEF Spec

-----------------------------------------------------------------------------
(* No stale mesh.                                                          *)

\* A version of the file at p that is known to have been written: the file has
\* been deleted since, or it is that version or a later one.
Past(p, v) == v <= clock /\ (file[p] = 0 \/ file[p] >= v)

\* The mesh m may be served for the key k.
Serves(k, m) ==
    /\ m.path = k.path /\ m.tol = k.tol
    /\ m.ver >= k.ver
    /\ Past(m.path, m.ver)

\* What holds of a call between its steps.
FrameInv(f) ==
    /\ f.pc # "idle" => Past(f.req.path, f.since)
    /\ (f.pc \in {"lookup", "compute", "insert"} /\ f.key.ver # 0) =>
          /\ f.key.path = f.req.path /\ f.key.tol = f.req.tol
          /\ f.key.ver >= f.since
          /\ Past(f.req.path, f.key.ver)
    /\ f.pc \in {"insert", "return"} =>
          /\ f.mesh.path = f.req.path /\ f.mesh.tol = f.req.tol
          /\ f.mesh.ver >= f.since
          /\ Past(f.req.path, f.mesh.ver)
    /\ f.pc = "insert" => Serves(f.key, f.mesh)

\* The invariant: every entry of the cache and every call is in order with
\* the history of the files.
FreshInv ==
    /\ \A p \in Paths : file[p] <= clock
    /\ \A i \in DOMAIN cache : Serves(cache[i].key, cache[i].mesh)
    /\ \A t \in Threads : FrameInv(thr[t])

\* Time does not go back: what is past stays past.
LEMMA PastStaysPast ==
    ASSUME TypeOK, FreshInv, [Next]_vars,
           NEW p \in Paths, NEW v \in Nat, Past(p, v)
    PROVE  Past(p, v)'
<1>1. CASE \E q \in Paths : Write(q)
  BY <1>1 DEF Write, TypeOK, FreshInv, Past
<1>2. CASE \E q \in Paths : Unlink(q)
  BY <1>2 DEF Unlink, TypeOK, FreshInv, Past
<1>3. CASE UNCHANGED <<file, clock>>
  BY <1>3 DEF Past
<1>4. QED
  BY <1>1, <1>2, <1>3
  DEF Next, vars, Step, Call, Stat, Hit, Miss, Compute, ComputeFails, Insert,
      Return, Clear

\* So do the entries, and the calls that the step does not move.
LEMMA ServesStays ==
    ASSUME TypeOK, FreshInv, [Next]_vars,
           NEW k \in Stamped, NEW m \in Stamped, Serves(k, m)
    PROVE  Serves(k, m)'
  BY PastStaysPast DEF Serves, Stamped

LEMMA FrameStays ==
    ASSUME TypeOK, FreshInv, [Next]_vars,
           NEW f \in Frame, FrameInv(f)
    PROVE  FrameInv(f)'
<1>1. /\ f.req.path \in Paths /\ f.since \in Nat
      /\ f.key \in Stamped /\ f.key.ver \in Nat /\ f.mesh \in Stamped
      /\ f.mesh.ver \in Nat
  BY DEF Frame, Request, Stamped
<1>2. \A v \in Nat : Past(f.req.path, v) => Past(f.req.path, v)'
  BY <1>1, PastStaysPast
<1>3. Serves(f.key, f.mesh) => Serves(f.key, f.mesh)'
  BY <1>1, ServesStays
<1>4. QED
  BY <1>1, <1>2, <1>3 DEF FrameInv

LEMMA FreshInit == Init => FreshInv
  BY IdleIsFrame, TessAssumption DEF Init, FreshInv, FrameInv

LEMMA FreshStep == Sound /\ FreshInv /\ [Next]_vars => FreshInv'
<1> SUFFICES ASSUME Sound, FreshInv, [Next]_vars
             PROVE  FreshInv'
  OBVIOUS
<1> USE DEF Sound
\* What a step does not touch stays in order.
<1>1. \A p \in Paths : (file[p] <= clock)'
  <2>1. CASE \E q \in Paths : Write(q)
    BY <2>1 DEF Write, TypeOK, FreshInv
  <2>2. CASE \E q \in Paths : Unlink(q)
    BY <2>2 DEF Unlink, TypeOK, FreshInv
  <2>3. CASE UNCHANGED <<file, clock>>
    BY <2>3 DEF FreshInv
  <2>4. QED
    BY <2>1, <2>2, <2>3
    DEF Next, vars, Step, Call, Stat, Hit, Miss, Compute, ComputeFails,
        Insert, Return, Clear
<1>2. \A i \in DOMAIN cache : Serves(cache[i].key, cache[i].mesh)
                              /\ cache[i].key \in Stamped
                              /\ cache[i].mesh \in Stamped
  <2>1. \A i \in DOMAIN cache : cache[i] \in Item
    BY DEF TypeOK
  <2>2. QED
    BY <2>1 DEF FreshInv, Item, Built, Stamped
<1>3. cache' = cache =>
        \A i \in DOMAIN cache' : Serves(cache[i].key, cache[i].mesh)'
  BY <1>2, ServesStays DEF Serves, Past
<1>4. ASSUME NEW u \in Threads, thr'[u] = thr[u]
      PROVE  FrameInv(thr[u])'
  <2>1. thr[u] \in Frame /\ FrameInv(thr[u])
    BY DEF TypeOK, FreshInv
  <2>2. QED
    BY <1>4, <2>1, FrameStays DEF FrameInv, Serves, Past
\* The call that a step moves.
<1>5. ASSUME NEW t \in Threads, NEW r \in Request, Call(t, r)
      PROVE  FrameInv(thr[t])'
  <2> DEFINE f == [Idle EXCEPT !.pc = "stat", !.req = r,
                               !.since = file[r.path]]
  <2>1. thr'[t] = f /\ file' = file /\ clock' = clock
    BY <1>5 DEF Call, TypeOK
  <2>2. /\ f.pc = "stat" /\ f.req = r /\ f.since = file[r.path]
        /\ r.path \in Paths
    BY IdleIsFrame DEF Frame, Request
  <2>3. file[r.path] \in Nat /\ file[r.path] <= clock
    BY <2>2 DEF FreshInv, TypeOK
  <2> HIDE DEF f
  <2>4. QED
    BY <2>1, <2>2, <2>3 DEF FrameInv, Past
<1>6. ASSUME NEW t \in Threads, Stat(t)
      PROVE  FrameInv(thr[t])'
  <2>1. /\ thr[t] \in Frame /\ FrameInv(thr[t])
        /\ thr[t].req.path \in Paths /\ thr[t].since \in Nat
    BY DEF TypeOK, FreshInv, Frame, Request
  <2> DEFINE v == file[thr[t].req.path]
  <2>2. v \in Nat /\ v <= clock /\ (v # 0 => v >= thr[t].since)
    BY <1>6, <2>1 DEF Stat, TypeOK, FreshInv, FrameInv, Past
  <2>3. /\ thr'[t].req = thr[t].req /\ thr'[t].since = thr[t].since
        /\ thr'[t].key = Stamp(thr[t].req, v)
        /\ thr'[t].pc \in {"compute", "lookup"}
        /\ file' = file /\ clock' = clock
    BY <1>6, <2>1 DEF Stat, TypeOK, Frame, TessKey
  <2>4. QED
    BY <1>6, <2>1, <2>2, <2>3 DEF Stat, FrameInv, Past, Stamp
<1>7. ASSUME NEW t \in Threads, Hit(t)
      PROVE  FrameInv(thr[t])'
  <2>1. PICK i \in Hits(thr[t].key) :
           thr' = [thr EXCEPT ![t].mesh = cache[i].mesh, ![t].pc = "return"]
    BY <1>7 DEF Hit
  <2>2. /\ thr[t] \in Frame /\ FrameInv(thr[t]) /\ thr[t].pc = "lookup"
        /\ thr[t].key \in Built
    BY <1>7 DEF Hit, TypeOK, FreshInv
  <2>3. Serves(thr[t].key, cache[i].mesh) /\ cache[i].mesh \in Stamped
    BY <1>2 DEF Hits
  <2>4. /\ thr'[t].req = thr[t].req /\ thr'[t].since = thr[t].since
        /\ thr'[t].pc = "return" /\ thr'[t].mesh = cache[i].mesh
        /\ file' = file /\ clock' = clock
    BY <1>7, <2>1, <2>2 DEF Hit, TypeOK, Frame
  <2>5. thr[t].key.ver # 0 /\ thr[t].key.ver \in Nat
        /\ thr[t].since \in Nat /\ cache[i].mesh.ver \in Nat
    BY <2>2, <2>3 DEF Built, Frame, Stamped
  <2>6. QED
    BY <2>2, <2>3, <2>4, <2>5 DEF FrameInv, Serves, Past
<1>8. ASSUME NEW t \in Threads, Miss(t)
      PROVE  FrameInv(thr[t])'
  <2>1. thr[t] \in Frame /\ FrameInv(thr[t])
    BY DEF TypeOK, FreshInv
  <2>2. /\ thr'[t].req = thr[t].req /\ thr'[t].since = thr[t].since
        /\ thr'[t].key = thr[t].key /\ thr'[t].pc = "compute"
        /\ file' = file /\ clock' = clock
    BY <1>8, <2>1 DEF Miss, TypeOK, Frame
  <2>3. QED
    BY <1>8, <2>1, <2>2 DEF Miss, FrameInv, Past
<1>9. ASSUME NEW t \in Threads, Compute(t)
      PROVE  FrameInv(thr[t])'
  <2>1. /\ thr[t] \in Frame /\ FrameInv(thr[t]) /\ thr[t].pc = "compute"
        /\ thr[t].req.path \in Paths
        /\ thr[t].since \in Nat /\ thr[t].key.ver \in Nat
    BY <1>9 DEF Compute, TypeOK, FreshInv, Frame, Request, Stamped
  <2> DEFINE v == file[thr[t].req.path]
  <2>2. v \in Nat /\ v # 0 /\ v <= clock /\ v >= thr[t].since
    BY <1>9, <2>1 DEF Compute, TypeOK, FreshInv, FrameInv, Past
  <2>3. thr[t].key.ver # 0 => v >= thr[t].key.ver
    BY <2>1, <2>2 DEF FrameInv, Past
  <2>4. /\ thr'[t].req = thr[t].req /\ thr'[t].since = thr[t].since
        /\ thr'[t].key = thr[t].key
        /\ thr'[t].mesh = Stamp(thr[t].req, v)
        /\ thr'[t].pc = IF thr[t].key.ver # 0 THEN "insert" ELSE "return"
        /\ file' = file /\ clock' = clock
    BY <1>9, <2>1 DEF Compute, TypeOK, Frame
  <2>5. QED
    BY <2>1, <2>2, <2>3, <2>4 DEF FrameInv, Serves, Past, Stamp
<1>10. ASSUME NEW t \in Threads, ComputeFails(t) \/ Return(t)
       PROVE  FrameInv(thr[t])'
  <2>1. thr'[t] = Idle
    BY <1>10 DEF ComputeFails, Return, TypeOK
  <2>2. QED
    BY <2>1, IdleIsFrame DEF FrameInv
<1>11. ASSUME NEW t \in Threads, Insert(t)
       PROVE  /\ FrameInv(thr[t])'
              /\ \A i \in DOMAIN cache' :
                    Serves(cache[i].key, cache[i].mesh)'
  <2>1. thr[t] \in Frame /\ FrameInv(thr[t]) /\ thr[t].pc = "insert"
    BY <1>11 DEF Insert, TypeOK, FreshInv
  <2>2. /\ thr'[t].req = thr[t].req /\ thr'[t].since = thr[t].since
        /\ thr'[t].mesh = thr[t].mesh /\ thr'[t].pc = "return"
        /\ file' = file /\ clock' = clock
    BY <1>11, <2>1 DEF Insert, TypeOK, Frame
  <2>3. FrameInv(thr[t])'
    BY <2>1, <2>2 DEF FrameInv, Past
  <2> DEFINE e == [key |-> thr[t].key, mesh |-> thr[t].mesh]
  <2>4. e \in Item /\ Serves(e.key, e.mesh)
    BY <1>11, <2>1 DEF Insert, TypeOK, Item, FrameInv
  <2>5. /\ Room \in Seq(Item)
        /\ \E d \in {0, 1} : \A i \in DOMAIN Room :
              i + d \in DOMAIN cache /\ Room[i] = cache[i + d]
    BY RoomFacts DEF TypeOK, CacheBounded
  <2>6. \A i, j \in DOMAIN Room : Room[i].key = Room[j].key => i = j
    BY <2>5 DEF CacheBounded
  <2>7. \A i \in DOMAIN Room : Serves(Room[i].key, Room[i].mesh)
    BY <2>5, <1>2
  <2> HIDE DEF e
  <2>8. \A i \in DOMAIN Put(Room, e) :
           \/ Put(Room, e)[i] = e
           \/ \E j \in DOMAIN Room : Put(Room, e)[i] = Room[j]
    BY <2>4, <2>5, <2>6, PutFacts
  <2>9. cache' = Put(Room, e)
    BY <1>11 DEF Insert, e
  <2>10. \A i \in DOMAIN cache' : Serves(cache'[i].key, cache'[i].mesh)
    BY <2>4, <2>7, <2>8, <2>9
  <2>11. QED
    BY <2>2, <2>3, <2>10 DEF Serves, Past
\* Every step is one of these.
<1>12. \A i \in DOMAIN cache' : Serves(cache[i].key, cache[i].mesh)'
  <2>1. CASE \E t \in Threads : Insert(t)
    BY <2>1, <1>11
  <2>2. CASE Clear
    BY <2>2 DEF Clear
  <2>3. CASE cache' = cache
    BY <2>3, <1>3
  <2>4. QED
    BY <2>1, <2>2, <2>3
    DEF Next, vars, Step, Write, Unlink, Call, Stat, Hit, Miss, Compute,
        ComputeFails, Return
<1>13. ASSUME NEW u \in Threads
       PROVE  FrameInv(thr[u])'
  <2>1. CASE thr'[u] = thr[u]
    BY <2>1, <1>4
  <2>2. ASSUME NEW t \in Threads, NEW r \in Request, Call(t, r)
        PROVE  t = u \/ thr'[u] = thr[u]
    BY <2>2 DEF Call, TypeOK
  <2>3. ASSUME NEW t \in Threads, Step(t)
        PROVE  t = u \/ thr'[u] = thr[u]
    BY <2>3 DEF Step, Stat, Hit, Miss, Compute, ComputeFails, Insert, Return,
                TypeOK
  <2>4. ASSUME Step(u)
        PROVE  FrameInv(thr[u])'
    BY <2>4, <1>6, <1>7, <1>8, <1>9, <1>10, <1>11 DEF Step
  <2>5. CASE \E t \in Threads, r \in Request : Call(t, r)
    BY <2>5, <2>2, <2>1, <1>5
  <2>6. CASE \E t \in Threads : Step(t)
    BY <2>6, <2>3, <2>4, <2>1
  <2>7. CASE thr' = thr
    BY <2>7, <2>1
  <2>8. QED
    BY <2>5, <2>6, <2>7 DEF Next, vars, Write, Unlink, Clear
<1>14. QED
  BY <1>1, <1>12, <1>13 DEF FreshInv

LEMMA FreshAlways == Spec => [](Sound /\ FreshInv)
  BY SoundInit, SoundStep, FreshInit, FreshStep, PTL DEF Spec

\* geometry.py: "a rebuilt part is never served a stale mesh".  Whatever
\* happens to the file and to the cache during a call, the mesh it returns
\* was asked for and is not older than the file was when the call began.
THEOREM NeverServesStale == Spec => []NeverStale
<1>1. FreshInv => NeverStale
  BY DEF FreshInv, FrameInv, NeverStale
<1>2. QED
  BY FreshAlways, <1>1, PTL

\* A late insertion never shadows the file that is there now.
THEOREM HitsAreCurrent == Spec => []HitIsCurrent
<1>1. ASSUME Sound, FreshInv
      PROVE  HitIsCurrent
  <2> SUFFICES ASSUME NEW i \in DOMAIN cache,
                      cache[i].key.ver # 0,
                      cache[i].key.ver = file[cache[i].key.path]
               PROVE  cache[i].mesh
                        = Stamp(cache[i].key, file[cache[i].key.path])
    BY DEF HitIsCurrent
  <2>1. /\ cache[i] \in Item
        /\ Serves(cache[i].key, cache[i].mesh)
    BY <1>1 DEF Sound, TypeOK, FreshInv
  <2>2. cache[i].mesh \in Built /\ cache[i].key \in Built
    BY <2>1 DEF Item
  <2>3. cache[i].mesh.ver = file[cache[i].key.path]
    BY <2>1, <2>2 DEF Serves, Past, Built
  <2>4. QED
    BY <2>1, <2>2, <2>3 DEF Serves, Built, Stamp
<1>2. QED
  BY FreshAlways, <1>1, PTL

-----------------------------------------------------------------------------
(* Induction, for the equation of Kept.                                    *)

\* Every non-empty set of naturals has a least element: the initial segments
\* below its members are finite sets, and strict inclusion is well founded.
LEMMA LeastNatural ==
    ASSUME NEW S \in SUBSET Nat, S # {}
    PROVE  \E x \in S : \A y \in S : x <= y
<1> DEFINE Below(x) == 0 .. (x - 1)
           T == {Below(x) : x \in S}
<1>1. T \subseteq FiniteSubsetsOf(Nat) /\ T # {}
  <2>1. \A x \in S : Below(x) \subseteq Nat /\ IsFiniteSet(Below(x))
    BY FS_Interval
  <2>. QED  BY <2>1 DEF FiniteSubsetsOf
<1>2. PICK b \in T : \A c \in T : ~ (<<c, b>> \in StrictSubsetOrdering(Nat))
  <2>1. IsWellFoundedOn(StrictSubsetOrdering(Nat), FiniteSubsetsOf(Nat))
    BY FS_StrictSubsetOrderingWellFounded
  <2>. HIDE DEF T
  <2>. QED  BY <1>1, <2>1, WFMin
<1>3. PICK x \in S : b = Below(x)
  OBVIOUS
<1>4. ASSUME NEW y \in S, y < x
      PROVE  FALSE
  <2>1. Below(y) \subseteq Below(x) /\ y \in Below(x) /\ y \notin Below(y)
    BY <1>4
  <2>2. <<Below(y), Below(x)>> \in StrictSubsetOrdering(Nat)
    BY <2>1 DEF StrictSubsetOrdering
  <2>. QED  BY <1>2, <1>3, <2>2
<1>. QED  BY <1>4

\* Induction up to a number, over a set in the place of a predicate.
LEMMA Induction ==
    ASSUME NEW n \in Nat, NEW S, 0 \in S,
           \A k \in 1 .. n : k - 1 \in S => k \in S
    PROVE  \A k \in 0 .. n : k \in S
<1> DEFINE T == {k \in 0 .. n : k \notin S}
<1>1. SUFFICES ASSUME T # {}
               PROVE  FALSE
  OBVIOUS
<1>2. PICK k \in T : \A m \in T : k <= m
  <2>1. T \in SUBSET Nat
    OBVIOUS
  <2> HIDE DEF T
  <2> QED
    BY <1>1, <2>1, LeastNatural
<1>3. k # 0 /\ k \in 1 .. n /\ k - 1 \in 0 .. n
  OBVIOUS
<1>4. k - 1 \notin T
  BY <1>2, <1>3
<1> QED
  BY <1>3, <1>4

-----------------------------------------------------------------------------
(* What Kept computes.                                                     *)

\* The equation of its definition, up to n.
Keeps(g, S, n) ==
    g = [k \in 0 .. n |->
            IF k = 0 THEN <<>>
            ELSE IF Order[k] \in S THEN Append(g[k - 1], Order[k])
            ELSE g[k - 1]]

\* One function satisfies it: a step of the recursion extends the function of
\* the step before.
LEMMA KeptExists ==
    ASSUME NEW S, NEW n \in Nat
    PROVE  \E g : Keeps(g, S, n)
<1> DEFINE Defined == {k \in 0 .. n : \E g : Keeps(g, S, k)}
<1>1. 0 \in Defined
  <2>1. Keeps([k \in 0 .. 0 |-> <<>>], S, 0)
    BY DEF Keeps
  <2> QED
    BY <2>1
<1>2. ASSUME NEW k \in 1 .. n, k - 1 \in Defined
      PROVE  k \in Defined
  <2>1. PICK g : Keeps(g, S, k - 1)
    BY <1>2
  <2> DEFINE last == IF Order[k] \in S THEN Append(g[k - 1], Order[k])
                     ELSE g[k - 1]
             h == [j \in 0 .. k |-> IF j = k THEN last ELSE g[j]]
  <2>2. \A j \in 0 .. k - 1 : h[j] = g[j]
    OBVIOUS
  <2>3. h[k] = last /\ k \in Nat /\ k # 0
    OBVIOUS
  <2>4. \A j \in 0 .. k - 1 :
           g[j] = IF j = 0 THEN <<>>
                  ELSE IF Order[j] \in S THEN Append(g[j - 1], Order[j])
                  ELSE g[j - 1]
    BY <2>1 DEF Keeps
  <2> DEFINE r == [j \in 0 .. k |->
                     IF j = 0 THEN <<>>
                     ELSE IF Order[j] \in S THEN Append(h[j - 1], Order[j])
                     ELSE h[j - 1]]
  <2>5. ASSUME NEW j \in 0 .. k - 1
        PROVE  h[j] = r[j]
    <3>1. j = 0 \/ (j # 0 /\ j - 1 \in 0 .. k - 1)
      OBVIOUS
    <3>2. j # 0 => h[j - 1] = g[j - 1]
      BY <3>1, <2>2
    <3>3. h[j] = g[j] /\ j \in 0 .. k
      BY <2>2
    <3>4. r[j] = IF j = 0 THEN <<>>
                 ELSE IF Order[j] \in S THEN Append(h[j - 1], Order[j])
                 ELSE h[j - 1]
      BY <3>3
    <3> HIDE DEF h, r
    <3> QED
      BY <3>2, <3>3, <3>4, <2>4
  <2>6. h[k] = r[k]
    <3>1. h[k - 1] = g[k - 1]
      BY <2>2
    <3>2. r[k] = IF Order[k] \in S THEN Append(h[k - 1], Order[k])
                 ELSE h[k - 1]
      BY <2>3
    <3> QED
      BY <2>3, <3>1, <3>2
  <2>7. h = r
    <3>1. \A j \in 0 .. k : h[j] = r[j]
      <4>1. \A j \in 0 .. k : j = k \/ j \in 0 .. k - 1
        OBVIOUS
      <4> HIDE DEF h, r
      <4> QED
        BY <4>1, <2>5, <2>6
    <3> QED
      BY <3>1
  <2>8. Keeps(h, S, k)
    BY <2>7 DEF Keeps
  <2> QED
    BY <2>8, <2>3
<1> HIDE DEF Defined
<1>3. \A k \in 0 .. n : k \in Defined
  BY <1>1, <1>2, Induction
<1> QED
  BY <1>3 DEF Defined

\* Kept goes through the parts and appends those that are in S.
LEMMA KeptEquation ==
    ASSUME NEW S
    PROVE  /\ Kept(S)[0] = <<>>
           /\ \A n \in 1 .. Len(Order) :
                 Kept(S)[n] = IF Order[n] \in S
                              THEN Append(Kept(S)[n - 1], Order[n])
                              ELSE Kept(S)[n - 1]
<1>1. Len(Order) \in Nat
  BY ReadersAssumption
<1>2. Kept(S) = CHOOSE g : Keeps(g, S, Len(Order))
  BY DEF Kept, Keeps
<1>3. Keeps(Kept(S), S, Len(Order))
  BY <1>1, <1>2, KeptExists
<1> DEFINE g == Kept(S)
<1> HIDE DEF g
<1>4. g = [k \in 0 .. Len(Order) |->
            IF k = 0 THEN <<>>
            ELSE IF Order[k] \in S THEN Append(g[k - 1], Order[k])
            ELSE g[k - 1]]
  BY <1>3 DEF Keeps, g
<1>5. \A n \in 0 .. Len(Order) :
         g[n] = IF n = 0 THEN <<>>
                ELSE IF Order[n] \in S THEN Append(g[n - 1], Order[n])
                ELSE g[n - 1]
  BY <1>4, Zenon
<1>6. /\ 0 \in 0 .. Len(Order)
      /\ \A n \in 1 .. Len(Order) : n \in 0 .. Len(Order) /\ n # 0
  BY <1>1
<1> QED
  BY <1>5, <1>6 DEF g

\* What it has kept of the first n parts are those of them that are in S.
LEMMA KeptFacts ==
    ASSUME NEW S, NEW n \in 0 .. Len(Order)
    PROVE  /\ Kept(S)[n] \in Seq(Paths)
           /\ ToSet(Kept(S)[n]) = {Order[i] : i \in 1 .. n} \intersect S
<1> DEFINE N == Len(Order)
           First(k) == {Order[i] : i \in 1 .. k}
           Right == {k \in 0 .. N :
                        /\ Kept(S)[k] \in Seq(Paths)
                        /\ ToSet(Kept(S)[k]) = First(k) \intersect S}
<1>1. /\ N \in Nat /\ DOMAIN Order = 1 .. N
      /\ \A i \in 1 .. N : Order[i] \in Paths
  BY ReadersAssumption
<1>2. 0 \in Right
  <2>1. Kept(S)[0] = <<>> /\ 0 \in 0 .. N
    BY <1>1, KeptEquation
  <2>2. <<>> \in Seq(Paths) /\ ToSet(<<>>) = {} /\ First(0) = {}
    BY DEF ToSet
  <2> HIDE DEF First
  <2> QED
    BY <2>1, <2>2
<1>3. ASSUME NEW k \in 1 .. N, k - 1 \in Right
      PROVE  k \in Right
  <2> DEFINE q == Kept(S)[k - 1]
  <2>1. q \in Seq(Paths) /\ ToSet(q) = First(k - 1) \intersect S
    BY <1>3
  <2>2. First(k) = First(k - 1) \union {Order[k]}
    BY <1>1
  <2>3. CASE Order[k] \in S
    <3>1. Kept(S)[k] = Append(q, Order[k])
      BY <2>3, KeptEquation
    <3>2. Append(q, Order[k]) \in Seq(Paths)
      BY <1>1, <2>1
    <3>3. ToSet(Append(q, Order[k])) = ToSet(q) \union {Order[k]}
      BY <1>1, <2>1 DEF ToSet
    <3>4. ToSet(Kept(S)[k]) = First(k) \intersect S
      <4> HIDE DEF q, First
      <4> QED
        BY <2>1, <2>2, <2>3, <3>1, <3>3
    <3>5. k \in 0 .. N /\ Kept(S)[k] \in Seq(Paths)
      BY <1>1, <3>1, <3>2
    <3> HIDE DEF First, N
    <3> QED
      BY <3>4, <3>5
  <2>4. CASE Order[k] \notin S
    <3>1. Kept(S)[k] = q
      BY <2>4, KeptEquation
    <3> HIDE DEF q, First
    <3> QED
      BY <2>1, <2>2, <2>4, <3>1
  <2> QED
    BY <2>3, <2>4
<1> HIDE DEF Right
<1>4. \A k \in 0 .. N : k \in Right
  BY <1>1, <1>2, <1>3, Induction
<1> QED
  BY <1>4 DEF Right

-----------------------------------------------------------------------------
(* What a tool that nothing disturbs has done.                             *)

\* What a reply has of the part p.
Shown(tool, p) ==
    [part |-> p, ver |-> file[p],
     pose |-> IF tool = "validate_mesh" THEN Origin ELSE pose[p]]

\* The parts with geometry among those that the tool has been through.
DoneParts(f) ==
    IF f.tool = "render_views"
    THEN Kept(Modelled)[Len(Order) - Len(f.todo)]
    ELSE SubSeq(WithGeometry, 1, Len(WithGeometry) - Len(f.todo))

\* What is left to do is the rest of the list.
RestInv(f) ==
    LET list == Listed(f.tool)
    IN /\ Len(f.todo) <= Len(list)
       /\ \A i \in 1 .. Len(f.todo) :
             f.todo[i] = list[Len(list) - Len(f.todo) + i]

\* The reply has what has been gone through, as it is.
OutInv(f) ==
    /\ Len(f.out) = Len(DoneParts(f))
    /\ \A i \in 1 .. Len(f.out) : f.out[i] = Shown(f.tool, DoneParts(f)[i])

WholeInv(f) ==
    f.pc # "idle" /\ f.quiet =>
       /\ f.errors = {} /\ f.pairs # "failed"
       /\ f.tool = "export_model" => f.poses = pose
       /\ RestInv(f)
       /\ OutInv(f)
       /\ f.pc = "reply" /\ f.tool = "render_views" => f.names = Modelled

\* Each part that a validation or an export set out with has come to
\* something, or is still to come.
PartsInv(f) ==
    f.pc # "idle" /\ f.tool # "render_views" /\ ~ f.failed =>
        f.asked = DrawnParts(f) \union f.errors \union ToSet(f.todo)

\* A tool has a call of tessellate exactly while it waits for one, about the
\* part that is next; the file is what it was when that call began, unless
\* something was disturbed.
CallInv(f, h) ==
    /\ f.pc \in {"idle", "next", "tess", "reply"}
    /\ (f.pc = "tess") <=> (h.pc # "idle")
    /\ f.pc = "tess" =>
          /\ f.todo # <<>> /\ h.req.path = Head(f.todo)
          /\ f.quiet => h.since = file[Head(f.todo)] /\ h.since # 0
    /\ f.pc = "reply" => f.todo = <<>>
    /\ f.pc \in {"next", "tess"} => ~ f.failed

ToolInv(f, h) == CallInv(f, h) /\ PartsInv(f) /\ WholeInv(f)

ReadersInv ==
    /\ ReadersTypeOK /\ Sound /\ FreshInv
    /\ \A t \in Threads : ToolInv(rd[t], thr[t])

-----------------------------------------------------------------------------

\* The values that stand for none are of their types.
LEMMA NothingIsRequest == Nothing \in Request
<1>1. PICK p \in Paths, d \in Tols : TRUE
  BY TessAssumption
<1>2. [path |-> p, tol |-> d] \in Request
  BY DEF Request
<1> QED
  BY <1>2 DEF Nothing

LEMMA OriginIsPose == Origin \in Pose
  BY DEF Origin, Pose

LEMMA NoReadIsFrame ==
    /\ NoRead \in ReadFrame
    /\ NoRead.pc = "idle" /\ NoRead.out = <<>> /\ NoRead.errors = {}
    /\ NoRead.pairs = "none" /\ ~ NoRead.failed
  BY OriginIsPose DEF NoRead, ReadFrame, Tools

\* The fields of a frame.
LEMMA FrameFields ==
    ASSUME NEW f \in ReadFrame
    PROVE  /\ f.pc \in {"idle", "next", "tess", "pairs", "reply"}
           /\ f.tool \in Tools /\ f.asked \subseteq Paths
           /\ f.poses \in [Paths -> Pose] /\ f.todo \in Seq(Paths)
           /\ f.out \in Seq(Drawn) /\ f.errors \subseteq Paths
           /\ f.pairs \in {"none", "checked", "failed"}
           /\ f.names \subseteq Paths
           /\ f.failed \in BOOLEAN /\ f.quiet \in BOOLEAN
  BY DEF ReadFrame

\* The list of a tool.
LEMMA ListedFacts ==
    ASSUME NEW tool \in Tools
    PROVE  /\ Listed(tool) \in Seq(Paths)
           /\ WithGeometry \in Seq(Paths)
           /\ ToSet(WithGeometry) = Modelled
           /\ Modelled \subseteq Paths
<1>1. /\ Len(Order) \in Nat /\ Len(Order) \in 0 .. Len(Order)
      /\ Order \in Seq(Paths) /\ ToSet(Order) = Paths
  BY ReadersAssumption
<1>2. /\ WithGeometry \in Seq(Paths)
      /\ ToSet(WithGeometry)
           = {Order[i] : i \in 1 .. Len(Order)} \intersect Modelled
  BY <1>1, KeptFacts DEF WithGeometry
<1>3. {Order[i] : i \in 1 .. Len(Order)} = Paths
  BY <1>1 DEF ToSet
<1>4. Modelled \subseteq Paths
  BY DEF Modelled
<1> QED
  BY <1>1, <1>2, <1>3, <1>4 DEF Listed

\* Going through one more part: it is added to what is done, unless it is one
\* that a picture leaves out.
LEMMA DoneNext ==
    ASSUME NEW f \in ReadFrame, NEW g \in ReadFrame, RestInv(f),
           f.todo # <<>>, g.tool = f.tool, g.todo = Tail(f.todo)
    PROVE  /\ RestInv(g)
           /\ DoneParts(f) \in Seq(Paths)
           /\ Head(f.todo) \in Paths
           /\ f.tool # "render_views" => Head(f.todo) \in Modelled
           /\ DoneParts(g) = IF Head(f.todo) \in Modelled
                             THEN Append(DoneParts(f), Head(f.todo))
                             ELSE DoneParts(f)
<1> DEFINE L == Listed(f.tool)
           n == Len(L)
           m == Len(f.todo)
           p == Head(f.todo)
           k == n - m
<1>1. f.tool \in Tools /\ f.todo \in Seq(Paths)
  BY DEF ReadFrame
<1>2. L \in Seq(Paths) /\ n \in Nat /\ m \in Nat /\ m # 0
  BY <1>1, ListedFacts
<1>3. m <= n /\ \A i \in 1 .. m : f.todo[i] = L[n - m + i]
  BY DEF RestInv
<1>4. /\ Len(g.todo) = m - 1
      /\ \A i \in 1 .. m - 1 : g.todo[i] = f.todo[i + 1]
      /\ p = f.todo[1] /\ p \in Paths
  BY <1>1, <1>2
<1> HIDE DEF L, m, p
<1>5. /\ k \in Nat /\ k \in 0 .. n /\ k + 1 \in 1 .. n
      /\ 1 \in 1 .. m /\ n - m + 1 = k + 1
  BY <1>2, <1>3
<1>6. p = L[k + 1]
  BY <1>3, <1>4, <1>5
<1>7. RestInv(g)
  <2>1. \A i \in 1 .. m - 1 : g.todo[i] = L[n - (m - 1) + i]
    <3>1. ASSUME NEW i \in 1 .. m - 1
          PROVE  g.todo[i] = L[n - (m - 1) + i]
      <4>1. i + 1 \in 1 .. m /\ n - m + (i + 1) = n - (m - 1) + i
        BY <1>2
      <4>2. g.todo[i] = L[n - m + (i + 1)]
        BY <4>1, <1>4, <1>3
      <4> QED
        BY <4>1, <4>2
    <3> QED
      BY <3>1
  <2>2. m - 1 <= n
    BY <1>2, <1>3
  <2> QED
    BY <2>1, <2>2, <1>4 DEF RestInv, L
<1>8. n - Len(g.todo) = k + 1
  <2>1. \A a, b \in Nat : a - (b - 1) = (a - b) + 1
    OBVIOUS
  <2>2. n - (m - 1) = k + 1
    BY <1>2, <2>1
  <2> QED
    BY <2>2, <1>4
<1>9. CASE f.tool = "render_views"
  <2>1. L = Order /\ n = Len(Order)
    BY <1>9 DEF Listed, L
  <2>2. /\ DoneParts(f) = Kept(Modelled)[k]
        /\ DoneParts(g) = Kept(Modelled)[k + 1]
    BY <1>8, <1>9, <2>1 DEF DoneParts, m
  <2>3. Kept(Modelled)[k] \in Seq(Paths)
    BY <1>5, <2>1, KeptFacts
  <2>4. k + 1 - 1 = k
    BY <1>5
  <2>5. Kept(Modelled)[k + 1]
          = IF Order[k + 1] \in Modelled
            THEN Append(Kept(Modelled)[k], Order[k + 1])
            ELSE Kept(Modelled)[k]
    <3> HIDE DEF k
    <3> QED
      BY <1>5, <2>1, <2>4, KeptEquation
  <2> QED
    BY <1>4, <1>6, <1>7, <1>9, <2>1, <2>2, <2>3, <2>5 DEF p
<1>10. CASE f.tool # "render_views"
  <2>1. L = WithGeometry
    BY <1>10 DEF Listed, L
  <2>2. p \in Modelled
    <3>1. ToSet(L) = Modelled
      BY <1>1, <2>1, ListedFacts
    <3>2. L[k + 1] \in ToSet(L)
      BY <1>2, <1>5 DEF ToSet
    <3> QED
      BY <3>1, <3>2, <1>6
  <2>3. /\ DoneParts(f) = SubSeq(L, 1, k)
        /\ DoneParts(g) = SubSeq(L, 1, k + 1)
    BY <1>8, <1>10, <2>1 DEF DoneParts, m
  <2> HIDE DEF k
  <2>4. SubSeq(L, 1, k) \in Seq(Paths)
    BY <1>2, <1>5
  <2>5. SubSeq(L, 1, k + 1) = Append(SubSeq(L, 1, k), L[k + 1])
    BY <1>2, <1>5
  <2> QED
    BY <1>4, <1>6, <1>7, <1>10, <2>2, <2>3, <2>4, <2>5 DEF p
<1> QED
  BY <1>9, <1>10

\* The head of a list and what is in its tail.
LEMMA ToSetTail ==
    ASSUME NEW s \in Seq(Paths), s # <<>>
    PROVE  /\ Head(s) \in Paths /\ Tail(s) \in Seq(Paths)
           /\ ToSet(s) = {Head(s)} \union ToSet(Tail(s))
<1>1. /\ Len(s) \in Nat /\ Len(s) # 0 /\ Head(s) = s[1] /\ s[1] \in Paths
      /\ Tail(s) \in Seq(Paths) /\ Len(Tail(s)) = Len(s) - 1
      /\ \A i \in 1 .. Len(s) - 1 : Tail(s)[i] = s[i + 1]
      /\ DOMAIN s = 1 .. Len(s) /\ DOMAIN Tail(s) = 1 .. Len(s) - 1
  OBVIOUS
<1>2. ASSUME NEW x \in ToSet(s)
      PROVE  x = Head(s) \/ x \in ToSet(Tail(s))
  <2>1. PICK i \in 1 .. Len(s) : x = s[i]
    BY <1>1 DEF ToSet
  <2>2. CASE i = 1
    BY <2>1, <2>2, <1>1
  <2>3. CASE i # 1
    <3>1. i - 1 \in 1 .. Len(s) - 1 /\ (i - 1) + 1 = i
      BY <1>1, <2>3
    <3>2. Tail(s)[i - 1] = x
      BY <1>1, <2>1, <3>1
    <3> QED
      BY <1>1, <3>1, <3>2 DEF ToSet
  <2> QED
    BY <2>2, <2>3
<1>3. ASSUME NEW x \in ToSet(Tail(s))
      PROVE  x \in ToSet(s)
  <2>1. PICK i \in 1 .. Len(s) - 1 : x = Tail(s)[i]
    BY <1>1 DEF ToSet
  <2>2. i + 1 \in 1 .. Len(s) /\ x = s[i + 1]
    BY <1>1, <2>1
  <2> QED
    BY <1>1, <2>2 DEF ToSet
<1>4. Head(s) \in ToSet(s)
  <2>1. 1 \in 1 .. Len(s)
    BY <1>1
  <2> QED
    BY <1>1, <2>1 DEF ToSet
<1> QED
  BY <1>1, <1>2, <1>3, <1>4

\* Another part in the reply.
LEMMA DrawnAppend ==
    ASSUME NEW f \in ReadFrame, NEW g \in ReadFrame, NEW d \in Drawn,
           g.out = Append(f.out, d)
    PROVE  DrawnParts(g) = DrawnParts(f) \union {d.part}
<1>1. /\ f.out \in Seq(Drawn) /\ Len(f.out) \in Nat
      /\ DOMAIN f.out = 1 .. Len(f.out)
      /\ DOMAIN g.out = 1 .. Len(f.out) + 1
      /\ \A i \in 1 .. Len(f.out) : g.out[i] = f.out[i]
      /\ g.out[Len(f.out) + 1] = d
  BY DEF ReadFrame
<1>2. 1 .. Len(f.out) + 1 = (1 .. Len(f.out)) \union {Len(f.out) + 1}
  BY <1>1
<1> QED
  BY <1>1, <1>2 DEF DrawnParts

\* A tool that begins has the whole of its list to do.
LEMMA BeginTool ==
    ASSUME ReadersTypeOK, NEW g \in ReadFrame, NEW h,
           h.pc = "idle",
           g.pc = "next", g.asked = ToSet(Listed(g.tool)),
           g.tool = "export_model" => g.poses = pose,
           g.todo = Listed(g.tool), g.out = <<>>, g.errors = {},
           g.pairs = "none", ~ g.failed
    PROVE  ToolInv(g, h)
<1>1. CallInv(g, h)
  BY DEF CallInv
<1>2. DrawnParts(g) = {}
  BY DEF DrawnParts
<1>3. PartsInv(g)
  BY <1>2 DEF PartsInv
<1>4. Listed(g.tool) \in Seq(Paths) /\ WithGeometry \in Seq(Paths)
      /\ g.tool \in Tools
  BY FrameFields, ListedFacts
<1>5. RestInv(g)
  BY <1>4 DEF RestInv
<1>6. DoneParts(g) = <<>>
  <2>1. CASE g.tool = "render_views"
    <3>1. Len(Order) - Len(g.todo) = 0
      BY <2>1, ReadersAssumption DEF Listed
    <3> QED
      BY <2>1, <3>1, KeptEquation DEF DoneParts
  <2>2. CASE g.tool # "render_views"
    <3>1. Len(WithGeometry) - Len(g.todo) = 0
      BY <2>2, <1>4 DEF Listed
    <3>2. SubSeq(WithGeometry, 1, 0) = <<>>
      BY <1>4
    <3> QED
      BY <2>2, <3>1, <3>2 DEF DoneParts
  <2> QED
    BY <2>1, <2>2
<1>7. OutInv(g)
  BY <1>6 DEF OutInv
<1> QED
  BY <1>1, <1>3, <1>5, <1>7 DEF ToolInv, WholeInv

\* A part that is left out.
LEMMA SkipTool ==
    ASSUME NEW f \in ReadFrame, NEW g \in ReadFrame, NEW h,
           ToolInv(f, h),
           f.pc = "next", f.todo # <<>>, Head(f.todo) \notin Modelled,
           f.tool # "export_model",
           g.pc = "next", g.tool = f.tool, g.asked = f.asked,
           g.poses = f.poses, g.todo = Tail(f.todo), g.out = f.out,
           g.errors = IF f.tool = "validate_mesh"
                      THEN f.errors \union {Head(f.todo)} ELSE f.errors,
           g.pairs = f.pairs, g.failed = f.failed, g.quiet = f.quiet
    PROVE  ToolInv(g, h)
<1>1. CallInv(g, h)
  BY DEF ToolInv, CallInv
<1>2. f.tool \in Tools /\ f.todo \in Seq(Paths)
  BY FrameFields
<1>3. ToSet(f.todo) = {Head(f.todo)} \union ToSet(g.todo)
  BY <1>2, ToSetTail
<1>4. DrawnParts(g) = DrawnParts(f)
  BY DEF DrawnParts
<1>5. PartsInv(g)
  BY <1>2, <1>3, <1>4 DEF ToolInv, PartsInv, Tools
<1>6. WholeInv(g)
  <2> SUFFICES ASSUME g.quiet
               PROVE  WholeInv(g)
    BY DEF WholeInv
  <2>1. /\ f.errors = {} /\ f.pairs # "failed" /\ RestInv(f) /\ OutInv(f)
    BY DEF ToolInv, WholeInv
  <2>2. /\ RestInv(g) /\ f.tool = "render_views"
        /\ DoneParts(g) = DoneParts(f)
    BY <2>1, DoneNext
  <2>3. OutInv(g)
    BY <2>1, <2>2 DEF OutInv
  <2> QED
    BY <2>1, <2>2, <2>3 DEF WholeInv
<1> QED
  BY <1>1, <1>5, <1>6 DEF ToolInv

\* A call of tessellate begins: the part is one with a file, or an export asks.
LEMMA AskTool ==
    ASSUME NEW f \in ReadFrame, NEW g \in ReadFrame, NEW h, NEW k,
           ToolInv(f, h),
           f.pc = "next", f.todo # <<>>,
           Head(f.todo) \in Modelled \/ f.tool = "export_model",
           g = [f EXCEPT !.pc = "tess"],
           k.pc # "idle", k.req.path = Head(f.todo),
           k.since = file[Head(f.todo)]
    PROVE  ToolInv(g, k)
<1>1. /\ g.pc = "tess" /\ g.tool = f.tool /\ g.asked = f.asked
      /\ g.poses = f.poses /\ g.todo = f.todo /\ g.out = f.out
      /\ g.errors = f.errors /\ g.pairs = f.pairs
      /\ g.failed = f.failed /\ g.quiet = f.quiet
  BY DEF ReadFrame
<1>2. ASSUME f.quiet
      PROVE  Head(f.todo) \in Modelled /\ RestInv(g) /\ OutInv(g)
  <2>1. RestInv(f) /\ OutInv(f)
    BY <1>2 DEF ToolInv, WholeInv
  <2>2. DoneParts(g) = DoneParts(f)
    BY <1>1 DEF DoneParts
  <2>3. RestInv(g) /\ OutInv(g)
    BY <1>1, <2>1, <2>2 DEF RestInv, OutInv
  <2>4. Head(f.todo) \in Modelled
    <3>1. /\ f.todo \in Seq(Paths) /\ f.tool \in Tools
      BY FrameFields
    <3> DEFINE e == [f EXCEPT !.todo = Tail(f.todo)]
    <3>2. Tail(f.todo) \in Seq(Paths)
      BY <3>1
    <3>3. e \in ReadFrame /\ e.tool = f.tool /\ e.todo = Tail(f.todo)
      BY <3>2 DEF ReadFrame
    <3> HIDE DEF e
    <3>4. f.tool # "render_views" => Head(f.todo) \in Modelled
      BY <2>1, <3>3, DoneNext
    <3> QED
      BY <3>4
  <2> QED
    BY <2>3, <2>4
<1>3. CallInv(g, k)
  BY <1>1, <1>2 DEF ToolInv, CallInv, Modelled
<1>4. PartsInv(g)
  BY <1>1 DEF ToolInv, PartsInv, DrawnParts
<1>5. WholeInv(g)
  BY <1>1, <1>2 DEF ToolInv, WholeInv
<1> QED
  BY <1>3, <1>4, <1>5 DEF ToolInv

\* A call of tessellate goes on.
LEMMA WaitTool ==
    ASSUME NEW f, NEW h, NEW k,
           ToolInv(f, h), f.pc = "tess",
           k.pc # "idle", k.req = h.req, k.since = h.since
    PROVE  ToolInv(f, k)
  BY DEF ToolInv, CallInv

\* A mesh has come: of the present file, when nothing was disturbed.
LEMMA GotTool ==
    ASSUME ReadersTypeOK, NEW f \in ReadFrame, NEW g \in ReadFrame,
           NEW h \in Frame, NEW k, NEW d \in Drawn,
           ToolInv(f, h), FrameInv(h),
           f.pc = "tess", h.pc = "return", k.pc = "idle",
           d.part = Head(f.todo), d.ver = h.mesh.ver,
           d.pose = PoseRead(f, Head(f.todo)),
           g.pc = "next", g.tool = f.tool, g.asked = f.asked,
           g.poses = f.poses, g.todo = Tail(f.todo),
           g.out = Append(f.out, d), g.errors = f.errors,
           g.pairs = f.pairs, g.failed = f.failed, g.quiet = f.quiet
    PROVE  ToolInv(g, k)
<1> DEFINE p == Head(f.todo)
<1>1. CallInv(g, k)
  BY DEF ToolInv, CallInv
<1>2. /\ f.tool \in Tools /\ f.todo \in Seq(Paths) /\ f.todo # <<>>
      /\ f.out \in Seq(Drawn)
  BY FrameFields DEF ToolInv, CallInv
<1>3. ToSet(f.todo) = {p} \union ToSet(g.todo) /\ p \in Paths
  BY <1>2, ToSetTail
<1>4. DrawnParts(g) = DrawnParts(f) \union {p}
  BY DrawnAppend
<1>5. PartsInv(g)
  BY <1>3, <1>4 DEF ToolInv, PartsInv
<1>6. WholeInv(g)
  <2> SUFFICES ASSUME g.quiet
               PROVE  WholeInv(g)
    BY DEF WholeInv
  <2>1. /\ f.errors = {} /\ f.pairs # "failed" /\ RestInv(f) /\ OutInv(f)
        /\ f.tool = "export_model" => f.poses = pose
    BY DEF ToolInv, WholeInv
  <2>2. h.req.path = p /\ h.since = file[p] /\ h.since # 0
    BY DEF ToolInv, CallInv
  <2>3. file[p] \in Nat /\ h.mesh.ver \in Nat
    BY <1>3 DEF ReadersTypeOK, TypeOK, Frame, Stamped
  <2>4. h.mesh.ver >= h.since /\ (file[p] = 0 \/ file[p] >= h.mesh.ver)
    BY <2>2 DEF FrameInv, Past
  <2>5. h.mesh.ver = file[p] /\ p \in Modelled
    BY <1>3, <2>2, <2>3, <2>4 DEF Modelled
  <2>6. /\ RestInv(g) /\ DoneParts(f) \in Seq(Paths)
        /\ DoneParts(g) = Append(DoneParts(f), p)
    BY <1>2, <2>1, <2>5, DoneNext
  <2>7. d = Shown(f.tool, p)
    <3>1. d.pose = IF f.tool = "validate_mesh" THEN Origin ELSE pose[p]
      BY <1>2, <2>1 DEF PoseRead, Tools
    <3>2. d = [part |-> d.part, ver |-> d.ver, pose |-> d.pose]
      BY DEF Drawn
    <3> QED
      BY <3>1, <3>2, <2>5 DEF Shown
  <2>8. OutInv(g)
    <3> DEFINE n == Len(f.out)
               D == DoneParts(f)
               E == DoneParts(g)
    <3>1. /\ n \in Nat /\ n = Len(D)
          /\ \A i \in 1 .. n : f.out[i] = Shown(f.tool, D[i])
      BY <1>2, <2>1 DEF OutInv
    <3>2. /\ Len(g.out) = n + 1
          /\ \A i \in 1 .. n : g.out[i] = f.out[i]
          /\ g.out[n + 1] = d
      BY <1>2
    <3>3. /\ Len(E) = n + 1
          /\ \A i \in 1 .. n : E[i] = D[i]
          /\ E[n + 1] = p
      <4> HIDE DEF p
      <4>1. D \in Seq(Paths) /\ E = Append(D, p)
        BY <2>6
      <4> HIDE DEF D, E
      <4> QED
        BY <3>1, <4>1
    <3>4. \A i \in 1 .. n + 1 : i \in 1 .. n \/ i = n + 1
      BY <3>1
    <3> HIDE DEF n, D
    <3>5. \A i \in 1 .. n + 1 : g.out[i] = Shown(f.tool, E[i])
      BY <3>1, <3>2, <3>3, <3>4, <2>7
    <3> QED
      BY <3>2, <3>3, <3>5 DEF OutInv
  <2> QED
    BY <2>1, <2>6, <2>8 DEF WholeInv
<1> QED
  BY <1>1, <1>5, <1>6 DEF ToolInv

\* A call of tessellate has failed.
LEMMA FailTool ==
    ASSUME NEW f \in ReadFrame, NEW g \in ReadFrame, NEW h, NEW k,
           ToolInv(f, h),
           f.pc = "tess", k.pc = "idle",
           g.tool = f.tool, g.asked = f.asked, g.out = f.out, ~ g.quiet,
           f.tool = "export_model" =>
              g.pc = "reply" /\ g.todo = <<>> /\ g.failed,
           f.tool # "export_model" =>
              /\ g.pc = "next" /\ g.todo = Tail(f.todo)
              /\ g.failed = f.failed
              /\ g.errors = IF f.tool = "validate_mesh"
                            THEN f.errors \union {Head(f.todo)} ELSE f.errors
    PROVE  ToolInv(g, k)
<1>1. /\ f.tool \in Tools /\ f.todo \in Seq(Paths) /\ f.todo # <<>>
  BY FrameFields DEF ToolInv, CallInv
<1>2. ToSet(f.todo) = {Head(f.todo)} \union ToSet(Tail(f.todo))
  BY <1>1, ToSetTail
<1>3. CallInv(g, k)
  BY DEF ToolInv, CallInv
<1>4. DrawnParts(g) = DrawnParts(f)
  BY DEF DrawnParts
<1>5. PartsInv(g)
  BY <1>1, <1>2, <1>4 DEF ToolInv, PartsInv, Tools
<1>6. WholeInv(g)
  BY DEF WholeInv
<1> QED
  BY <1>3, <1>5, <1>6 DEF ToolInv

\* Everything has been gone through.
LEMMA EndTool ==
    ASSUME NEW f \in ReadFrame, NEW g \in ReadFrame, NEW h,
           ToolInv(f, h),
           f.pc = "next", f.todo = <<>>,
           g.pc = "reply", g.tool = f.tool, g.asked = f.asked,
           g.poses = f.poses, g.todo = <<>>, g.out = f.out,
           g.errors = f.errors, g.failed \/ g.failed = f.failed,
           g.quiet => f.quiet /\ g.pairs # "failed",
           g.tool = "render_views" => g.names = Modelled
    PROVE  ToolInv(g, h)
<1>1. CallInv(g, h)
  BY DEF ToolInv, CallInv
<1>2. PartsInv(g)
  BY DEF ToolInv, PartsInv, DrawnParts
<1>3. DoneParts(g) = DoneParts(f)
  BY DEF DoneParts
<1>4. WholeInv(g)
  BY <1>3 DEF ToolInv, WholeInv, RestInv, OutInv
<1> QED
  BY <1>1, <1>2, <1>4 DEF ToolInv

\* Nothing is said of a thread that runs no tool.
LEMMA IdleTool ==
    ASSUME NEW f, NEW h, f.pc = "idle", h.pc = "idle"
    PROVE  ToolInv(f, h)
  BY DEF ToolInv, CallInv, PartsInv, WholeInv

-----------------------------------------------------------------------------
(* The steps.                                                              *)

\* Readers use the cache as calls of tessellate do: a step of theirs is a step
\* of the cache, or none.
LEMMA StepIsCacheStep == ReadersTypeOK /\ [ReadersNext]_allVars => [Next]_vars
<1> SUFFICES ASSUME ReadersTypeOK, [ReadersNext]_allVars
             PROVE  [Next]_vars
  OBVIOUS
<1>1. ASSUME NEW p \in Paths, WritePart(p) \/ UnlinkPart(p)
      PROVE  Next
  BY <1>1 DEF WritePart, UnlinkPart, Next
<1>2. ASSUME NEW t \in Threads, AskMesh(t)
      PROVE  Next
  <2> DEFINE r == [path |-> Head(rd[t].todo), tol |-> TolOf[rd[t].tool]]
  <2>1. rd[t].todo \in Seq(Paths) /\ rd[t].todo # <<>> /\ rd[t].tool \in Tools
    BY <1>2, FrameFields DEF ReadersTypeOK, AskMesh
  <2>2. r \in Request
    BY <2>1, ReadersAssumption DEF Request
  <2>3. Call(t, r)
    BY <1>2 DEF AskMesh
  <2> QED
    BY <2>2, <2>3 DEF Next
<1>3. ASSUME NEW t \in Threads, Tessellating(t) \/ GotMesh(t) \/ NoMesh(t)
      PROVE  Next
  BY <1>3 DEF Tessellating, GotMesh, NoMesh, Next, Step
<1>4. ASSUME NEW t \in Threads, ReadStep(t)
      PROVE  Next \/ UNCHANGED vars
  BY <1>2, <1>3, <1>4
  DEF ReadStep, SkipPart, Compose, Reply, CheckPairs
<1>5. CASE \E p \in Paths : MoveTranslate(p)
  BY <1>5 DEF MoveTranslate
<1>6. CASE MoveRotate \/ MoveRefused
  BY <1>6 DEF MoveRotate, MoveRefused
<1>7. CASE \E t \in Threads, tool \in Tools : ReadBegin(t, tool)
  BY <1>7 DEF ReadBegin
<1>8. CASE UNCHANGED allVars
  BY <1>8 DEF allVars
<1> QED
  BY <1>1, <1>4, <1>5, <1>6, <1>7, <1>8 DEF ReadersNext

\* While the files and the parts stay, so does what is true of a tool.
LEMMA StillTrue ==
    ASSUME NEW t, file' = file, pose' = pose, ToolInv(rd'[t], thr'[t])
    PROVE  ToolInv(rd[t], thr[t])'
<1>1. Modelled' = Modelled
  BY DEF Modelled
<1>2. WithGeometry' = WithGeometry /\ Kept(Modelled)' = Kept(Modelled)
  BY <1>1 DEF WithGeometry
<1> DEFINE f == rd'[t]
<1>3. Listed(rd[t].tool)' = Listed(f.tool) /\ DoneParts(rd[t])' = DoneParts(f)
  BY <1>1, <1>2 DEF Listed, DoneParts
<1>4. CallInv(rd[t], thr[t])'
  BY DEF ToolInv, CallInv
<1>5. PartsInv(rd[t])'
  BY DEF ToolInv, PartsInv, DrawnParts
<1>6. RestInv(f) => RestInv(rd[t])'
  BY <1>3 DEF RestInv
<1>7. OutInv(f) => OutInv(rd[t])'
  BY <1>3 DEF OutInv, Shown
<1>8. WholeInv(rd[t])'
  BY <1>1, <1>6, <1>7 DEF ToolInv, WholeInv
<1> QED
  BY <1>4, <1>5, <1>8 DEF ToolInv

\* A step of one reader.
Goes(t) ==
    /\ rd' \in [Threads -> ReadFrame]
    /\ \A u \in Threads \ {t} : rd'[u] = rd[u] /\ thr'[u] = thr[u]
    /\ ToolInv(rd'[t], thr'[t])
    /\ UNCHANGED <<file, pose>>

\* The frame of one reader is replaced.
LEMMA Update ==
    ASSUME rd \in [Threads -> ReadFrame], NEW t \in Threads,
           NEW g \in ReadFrame, rd' = [rd EXCEPT ![t] = g]
    PROVE  /\ rd' \in [Threads -> ReadFrame] /\ rd'[t] = g
           /\ \A u \in Threads \ {t} : rd'[u] = rd[u]
  OBVIOUS

\* Each step of a reader is one.
LEMMA BeginGoes ==
    ASSUME ReadersInv, NEW t \in Threads, NEW tool \in Tools,
           ReadBegin(t, tool)
    PROVE  Goes(t)
<1> DEFINE g == [NoRead EXCEPT
                    !.pc = "next", !.tool = tool,
                    !.asked = ToSet(Listed(tool)),
                    !.poses = IF tool = "export_model" THEN pose ELSE @,
                    !.todo = Listed(tool)]
<1>1. rd' = [rd EXCEPT ![t] = g] /\ UNCHANGED <<file, pose, thr>>
  BY DEF ReadBegin, vars, moverVars
<1>2. Listed(tool) \in Seq(Paths) /\ ToSet(Listed(tool)) \subseteq Paths
  <2>1. Listed(tool) \in Seq(Paths)
    BY ListedFacts
  <2> QED
    BY <2>1 DEF ToSet
<1>3. pose \in [Paths -> Pose]
  BY DEF ReadersInv, ReadersTypeOK
<1>4. /\ g \in ReadFrame
      /\ g.pc = "next" /\ g.tool = tool /\ g.asked = ToSet(Listed(tool))
      /\ tool = "export_model" => g.poses = pose
      /\ g.todo = Listed(tool) /\ g.out = <<>> /\ g.errors = {}
      /\ g.pairs = "none" /\ ~ g.failed
  <2> DEFINE L == Listed(tool)
             A == ToSet(L)
  <2> HIDE DEF L, A
  <2>1. L \in Seq(Paths) /\ A \subseteq Paths
    BY <1>2 DEF L, A
  <2> DEFINE e == [NoRead EXCEPT
                    !.pc = "next", !.tool = tool, !.asked = A,
                    !.poses = IF tool = "export_model" THEN pose ELSE @,
                    !.todo = L]
  <2>2. /\ e \in ReadFrame
        /\ e.pc = "next" /\ e.tool = tool /\ e.asked = A
        /\ tool = "export_model" => e.poses = pose
        /\ e.todo = L /\ e.out = <<>> /\ e.errors = {}
        /\ e.pairs = "none" /\ ~ e.failed
    BY <2>1, <1>3, NoReadIsFrame DEF ReadFrame
  <2>3. e = g
    BY DEF L, A
  <2> QED
    BY <2>2, <2>3 DEF L, A
<1>5. thr[t].pc = "idle"
  BY DEF ReadersInv, ToolInv, CallInv, ReadBegin
<1> HIDE DEF g
<1>6. ToolInv(g, thr[t])
  BY <1>4, <1>5, BeginTool DEF ReadersInv
<1> QED
  BY <1>1, <1>4, <1>6, Update DEF Goes, ReadersInv, ReadersTypeOK

LEMMA SkipGoes ==
    ASSUME ReadersInv, NEW t \in Threads, SkipPart(t)
    PROVE  Goes(t)
<1> DEFINE f == rd[t]
           E == IF f.tool = "validate_mesh"
                THEN f.errors \union {Head(f.todo)} ELSE f.errors
           g == [Dropped(f) EXCEPT !.errors = E]
<1>1. rd' = [rd EXCEPT ![t] = g] /\ UNCHANGED <<file, pose, thr>>
  BY DEF SkipPart, Dropped, vars, moverVars
<1>2. f \in ReadFrame /\ f.todo # <<>> /\ f.pc = "next"
      /\ Head(f.todo) \notin Modelled /\ f.tool # "export_model"
  BY DEF SkipPart, ReadersInv, ReadersTypeOK
<1>3. Head(f.todo) \in Paths /\ Tail(f.todo) \in Seq(Paths)
  BY <1>2, FrameFields, ToSetTail
<1> HIDE DEF f
<1>4. /\ g \in ReadFrame
      /\ g.pc = "next" /\ g.tool = f.tool /\ g.asked = f.asked
      /\ g.poses = f.poses /\ g.todo = Tail(f.todo) /\ g.out = f.out
      /\ g.errors = E /\ g.pairs = f.pairs /\ g.failed = f.failed
      /\ g.quiet = f.quiet
  <2>1. E \subseteq Paths
    BY <1>2, <1>3, FrameFields
  <2> HIDE DEF E
  <2> QED
    BY <1>2, <1>3, <2>1 DEF ReadFrame, Dropped
<1>5. ToolInv(f, thr[t])
  BY DEF f, ReadersInv
<1> HIDE DEF g
<1>6. ToolInv(g, thr[t])
  BY <1>2, <1>4, <1>5, SkipTool
<1> QED
  BY <1>1, <1>4, <1>6, Update DEF Goes, ReadersInv, ReadersTypeOK

LEMMA AskGoes ==
    ASSUME ReadersInv, NEW t \in Threads, AskMesh(t)
    PROVE  Goes(t)
<1> DEFINE f == rd[t]
           g == [f EXCEPT !.pc = "tess"]
           p == Head(f.todo)
           k == thr'[t]
<1>1. rd' = [rd EXCEPT ![t] = g] /\ UNCHANGED <<file, pose>>
  BY DEF AskMesh, Call, moverVars
<1>2. /\ f \in ReadFrame /\ f.todo # <<>> /\ f.pc = "next"
      /\ p \in Modelled \/ f.tool = "export_model"
  BY DEF AskMesh, ReadersInv, ReadersTypeOK
<1>3. thr \in [Threads -> Frame]
  BY DEF ReadersInv, ReadersTypeOK, TypeOK
<1>4. /\ k.pc = "stat" /\ k.req.path = p /\ k.since = file[p]
      /\ \A u \in Threads \ {t} : thr'[u] = thr[u]
  BY <1>3 DEF AskMesh, Call, Idle
<1>5. ToolInv(f, thr[t])
  BY DEF ReadersInv
<1>6. g \in ReadFrame
  BY <1>2 DEF ReadFrame
<1> HIDE DEF f, k
<1>7. ToolInv(g, k)
  BY <1>2, <1>4, <1>5, <1>6, AskTool
<1> QED
  BY <1>1, <1>4, <1>6, <1>7, Update DEF Goes, ReadersInv, ReadersTypeOK, k

LEMMA TessellatingGoes ==
    ASSUME ReadersInv, NEW t \in Threads, Tessellating(t)
    PROVE  Goes(t)
<1>1. thr \in [Threads -> Frame] /\ thr[t] \in Frame
  BY DEF ReadersInv, ReadersTypeOK, TypeOK
<1>2. UNCHANGED <<file, rd, pose>>
  BY DEF Tessellating, Stat, Hit, Miss, Compute, Insert, readerVars, moverVars
<1>3. /\ thr[t].pc # "idle" /\ thr'[t].pc # "idle"
      /\ thr'[t].req = thr[t].req /\ thr'[t].since = thr[t].since
      /\ \A u \in Threads \ {t} : thr'[u] = thr[u]
  <2>1. CASE Stat(t)
    BY <2>1, <1>1 DEF Stat, Frame
  <2>2. CASE Hit(t)
    BY <2>2, <1>1 DEF Hit, Frame
  <2>3. CASE Miss(t)
    BY <2>3, <1>1 DEF Miss, Frame
  <2>4. CASE Compute(t)
    BY <2>4, <1>1 DEF Compute, Frame
  <2>5. CASE Insert(t)
    BY <2>5, <1>1 DEF Insert, Frame
  <2> QED
    BY <2>1, <2>2, <2>3, <2>4, <2>5 DEF Tessellating
<1>4. ToolInv(rd[t], thr[t]) /\ rd[t].pc = "tess"
  BY <1>3 DEF ReadersInv, ToolInv, CallInv
<1>5. ToolInv(rd[t], thr'[t])
  BY <1>3, <1>4, WaitTool
<1> QED
  BY <1>2, <1>3, <1>5 DEF Goes, ReadersInv, ReadersTypeOK

LEMMA GotGoes ==
    ASSUME ReadersInv, NEW t \in Threads, GotMesh(t)
    PROVE  Goes(t)
<1> DEFINE f == rd[t]
           h == thr[t]
           p == Head(f.todo)
           d == [part |-> p, ver |-> h.mesh.ver, pose |-> PoseRead(f, p)]
           g == [Dropped(f) EXCEPT !.out = Append(f.out, d)]
<1>1. rd' = [rd EXCEPT ![t] = g] /\ UNCHANGED <<file, pose>> /\ f.pc = "tess"
  BY DEF GotMesh, Return, Dropped, moverVars
<1>2. f \in ReadFrame /\ h \in Frame /\ ToolInv(f, h) /\ FrameInv(h)
  BY DEF ReadersInv, ReadersTypeOK, TypeOK, FreshInv
<1>3. /\ h.pc = "return" /\ thr'[t].pc = "idle"
      /\ \A u \in Threads \ {t} : thr'[u] = thr[u]
  BY IdleIsFrame DEF GotMesh, Return, ReadersInv, ReadersTypeOK, TypeOK
<1>4. /\ f.todo \in Seq(Paths) /\ f.todo # <<>> /\ f.tool \in Tools
      /\ f.out \in Seq(Drawn) /\ f.poses \in [Paths -> Pose]
  BY <1>1, <1>2, FrameFields DEF ToolInv, CallInv
<1>5. p \in Paths /\ Tail(f.todo) \in Seq(Paths)
  BY <1>4, ToSetTail
<1>6. d \in Drawn
  <2>1. h.mesh.ver \in Nat
    BY <1>2 DEF Frame, Stamped
  <2>2. pose \in [Paths -> Pose]
    BY DEF ReadersInv, ReadersTypeOK
  <2>3. PoseRead(f, p) \in Pose
    BY <1>4, <1>5, <2>2, OriginIsPose DEF PoseRead, Tools
  <2> QED
    BY <1>5, <2>1, <2>3 DEF Drawn
<1>7. /\ d.part = p /\ d.ver = h.mesh.ver /\ d.pose = PoseRead(f, p)
  OBVIOUS
<1> HIDE DEF f, h, d
<1>8. /\ g \in ReadFrame
      /\ g.pc = "next" /\ g.tool = f.tool /\ g.asked = f.asked
      /\ g.poses = f.poses /\ g.todo = Tail(f.todo)
      /\ g.out = Append(f.out, d) /\ g.errors = f.errors
      /\ g.pairs = f.pairs /\ g.failed = f.failed /\ g.quiet = f.quiet
  <2>1. Append(f.out, d) \in Seq(Drawn)
    BY <1>4, <1>6
  <2> QED
    BY <1>2, <1>5, <2>1 DEF ReadFrame, Dropped
<1> DEFINE k == thr'[t]
<1> HIDE DEF g, k
<1>9. ToolInv(g, k)
  BY <1>1, <1>2, <1>3, <1>6, <1>7, <1>8, GotTool DEF ReadersInv, k
<1> QED
  BY <1>1, <1>3, <1>8, <1>9, Update DEF Goes, ReadersInv, ReadersTypeOK, k

LEMMA FailGoes ==
    ASSUME ReadersInv, NEW t \in Threads, NoMesh(t)
    PROVE  Goes(t)
<1> DEFINE f == rd[t]
           h == thr[t]
           p == Head(f.todo)
           q == [f EXCEPT !.quiet = FALSE]
           g == CASE f.tool = "render_views" -> Dropped(q)
                  [] f.tool = "validate_mesh" ->
                        [Dropped(q) EXCEPT !.errors = @ \union {p}]
                  [] f.tool = "export_model" ->
                        [q EXCEPT !.pc = "reply", !.todo = <<>>,
                                  !.failed = TRUE]
<1>1. rd' = [rd EXCEPT ![t] = g] /\ UNCHANGED <<file, pose>> /\ f.pc = "tess"
  BY DEF NoMesh, ComputeFails, moverVars
<1>2. f \in ReadFrame /\ h \in Frame /\ ToolInv(f, h)
  BY DEF ReadersInv, ReadersTypeOK, TypeOK
<1>3. /\ thr'[t].pc = "idle"
      /\ \A u \in Threads \ {t} : thr'[u] = thr[u]
  BY IdleIsFrame DEF NoMesh, ComputeFails, ReadersInv, ReadersTypeOK, TypeOK
<1>4. /\ f.todo \in Seq(Paths) /\ f.todo # <<>> /\ f.tool \in Tools
      /\ f.errors \subseteq Paths
  BY <1>1, <1>2, FrameFields DEF ToolInv, CallInv
<1>5. p \in Paths /\ Tail(f.todo) \in Seq(Paths)
  BY <1>4, ToSetTail
<1> HIDE DEF f, h, p
<1>6. /\ q \in ReadFrame /\ q.pc = f.pc /\ q.tool = f.tool
      /\ q.asked = f.asked /\ q.todo = f.todo /\ q.out = f.out
      /\ q.errors = f.errors /\ q.failed = f.failed /\ ~ q.quiet
  BY <1>2 DEF ReadFrame
<1> HIDE DEF q
<1>7. /\ g \in ReadFrame
      /\ g.tool = f.tool /\ g.asked = f.asked /\ g.out = f.out /\ ~ g.quiet
      /\ f.tool = "export_model" =>
            g.pc = "reply" /\ g.todo = <<>> /\ g.failed
      /\ f.tool # "export_model" =>
            /\ g.pc = "next" /\ g.todo = Tail(f.todo)
            /\ g.failed = f.failed
            /\ g.errors = IF f.tool = "validate_mesh"
                          THEN f.errors \union {p} ELSE f.errors
  <2>1. CASE f.tool = "render_views"
    <3>1. g = Dropped(q)
      BY <2>1
    <3> QED
      BY <2>1, <3>1, <1>5, <1>6 DEF ReadFrame, Dropped
  <2>2. CASE f.tool = "validate_mesh"
    <3> DEFINE e == f.errors \union {p}
    <3>1. g = [Dropped(q) EXCEPT !.errors = e]
      BY <2>2, <1>6 DEF Dropped, ReadFrame
    <3>2. e \subseteq Paths
      BY <1>4, <1>5
    <3> HIDE DEF g, e
    <3>3. /\ g \in ReadFrame
          /\ g.tool = f.tool /\ g.asked = f.asked /\ g.out = f.out
          /\ ~ g.quiet /\ g.pc = "next" /\ g.todo = Tail(f.todo)
          /\ g.failed = f.failed /\ g.errors = e
      BY <3>1, <3>2, <1>5, <1>6 DEF ReadFrame, Dropped
    <3> QED
      BY <2>2, <3>3 DEF e
  <2>3. CASE f.tool = "export_model"
    <3>1. g = [q EXCEPT !.pc = "reply", !.todo = <<>>, !.failed = TRUE]
      BY <2>3
    <3>2. <<>> \in Seq(Paths)
      OBVIOUS
    <3> HIDE DEF g
    <3> QED
      BY <2>3, <3>1, <3>2, <1>6 DEF ReadFrame
  <2> QED
    BY <2>1, <2>2, <2>3, <1>4 DEF Tools
<1> DEFINE k == thr'[t]
<1> HIDE DEF g, k
<1>8. k.pc = "idle"
  BY <1>3 DEF k
<1>9. ToolInv(g, k)
  <2>1. /\ f.tool # "export_model" =>
            g.errors = IF f.tool = "validate_mesh"
                       THEN f.errors \union {Head(f.todo)} ELSE f.errors
    BY <1>7 DEF p
  <2> QED
    BY <1>1, <1>2, <1>7, <1>8, <2>1, FailTool
<1> QED
  BY <1>1, <1>3, <1>7, <1>9, Update DEF Goes, ReadersInv, ReadersTypeOK, k

LEMMA PairsGoes ==
    ASSUME ReadersInv, NEW t \in Threads,
           NEW result \in {"none", "checked", "failed"},
           CheckPairs(t, result)
    PROVE  Goes(t)
<1> DEFINE f == rd[t]
           g == [f EXCEPT !.pc = "reply", !.pairs = result,
                          !.quiet = f.quiet /\ result # "failed"]
<1>1. /\ UNCHANGED <<file, pose, thr>>
      /\ f.pc = "next" /\ f.todo = <<>> /\ f.tool = "validate_mesh"
  BY DEF CheckPairs, vars, moverVars
<1>2. f \in ReadFrame /\ ToolInv(f, thr[t])
  BY DEF ReadersInv, ReadersTypeOK
<1>3. rd' = [rd EXCEPT ![t] = g]
  BY <1>2 DEF CheckPairs, ReadersInv, ReadersTypeOK, ReadFrame
<1> HIDE DEF f
<1>4. /\ g \in ReadFrame
      /\ g.pc = "reply" /\ g.tool = f.tool /\ g.asked = f.asked
      /\ g.poses = f.poses /\ g.todo = f.todo /\ g.out = f.out
      /\ g.errors = f.errors /\ g.failed = f.failed
      /\ g.pairs = result /\ g.quiet = (f.quiet /\ result # "failed")
  <2> DEFINE b == f.quiet /\ result # "failed"
  <2>1. b \in BOOLEAN
    OBVIOUS
  <2> HIDE DEF b
  <2> QED
    BY <1>2, <2>1 DEF ReadFrame
<1> HIDE DEF g
<1>5. ToolInv(g, thr[t])
  BY <1>1, <1>2, <1>4, EndTool
<1> QED
  BY <1>1, <1>3, <1>4, <1>5, Update DEF Goes, ReadersInv, ReadersTypeOK

LEMMA ComposeGoes ==
    ASSUME ReadersInv, NEW t \in Threads, Compose(t)
    PROVE  Goes(t)
<1> DEFINE f == rd[t]
           N == IF f.tool = "render_views" THEN Modelled ELSE {}
           b == f.out = <<>>
           g == [f EXCEPT !.pc = "reply", !.failed = b, !.names = N]
<1>1. /\ UNCHANGED <<file, pose, thr>> /\ rd' = [rd EXCEPT ![t] = g]
      /\ f.pc = "next" /\ f.todo = <<>> /\ f.tool # "validate_mesh"
  BY DEF Compose, vars, moverVars
<1>2. f \in ReadFrame /\ ToolInv(f, thr[t])
  BY DEF ReadersInv, ReadersTypeOK
<1>3. N \subseteq Paths /\ b \in BOOLEAN
  BY DEF Modelled
<1>4. f.tool = "render_views" => N = Modelled
  OBVIOUS
<1> HIDE DEF f, N, b
<1>5. /\ g \in ReadFrame
      /\ g.pc = "reply" /\ g.tool = f.tool /\ g.asked = f.asked
      /\ g.poses = f.poses /\ g.todo = f.todo /\ g.out = f.out
      /\ g.errors = f.errors /\ g.pairs = f.pairs
      /\ g.failed = b /\ g.quiet = f.quiet /\ g.names = N
  BY <1>2, <1>3 DEF ReadFrame
<1> HIDE DEF g
<1>6. g.quiet => f.pairs # "failed"
  BY <1>1, <1>2, <1>5 DEF ToolInv, WholeInv
<1>7. ~ f.failed /\ f.failed \in BOOLEAN
  BY <1>1, <1>2, FrameFields DEF ToolInv, CallInv
<1>8. ToolInv(g, thr[t])
  <2>1. g.failed \/ g.failed = f.failed
    BY <1>3, <1>5, <1>7
  <2> QED
    BY <1>1, <1>2, <1>4, <1>5, <1>6, <2>1, EndTool
<1> QED
  BY <1>1, <1>5, <1>8, Update DEF Goes, ReadersInv, ReadersTypeOK

LEMMA ReplyGoes ==
    ASSUME ReadersInv, NEW t \in Threads, Reply(t)
    PROVE  Goes(t)
<1>1. /\ UNCHANGED <<file, pose, thr>> /\ rd' = [rd EXCEPT ![t] = NoRead]
  BY DEF Reply, vars, moverVars
<1>2. thr[t].pc = "idle"
  BY DEF Reply, ReadersInv, ToolInv, CallInv
<1>3. ToolInv(NoRead, thr[t])
  BY <1>2, NoReadIsFrame, IdleTool
<1> QED
  BY <1>1, <1>3, NoReadIsFrame, Update DEF Goes, ReadersInv, ReadersTypeOK

\* What another actor does to the files or to a part: no tool that has begun
\* is undisturbed.
LEMMA DisturbedTool ==
    ASSUME ReadersInv, NEW u \in Threads, Disturb, thr' = thr
    PROVE  ToolInv(rd[u], thr[u])'
<1>1. rd[u] \in ReadFrame /\ ToolInv(rd[u], thr[u])
  BY DEF ReadersInv, ReadersTypeOK
<1>2. CASE rd[u].pc = "idle"
  <2>1. rd'[u] = rd[u] /\ thr'[u] = thr[u] /\ thr[u].pc = "idle"
    BY <1>1, <1>2 DEF Disturb, ToolInv, CallInv
  <2> QED
    BY <1>2, <2>1 DEF ToolInv, CallInv, PartsInv, WholeInv
<1>3. CASE rd[u].pc # "idle"
  <2>1. rd'[u] = [rd[u] EXCEPT !.quiet = FALSE]
    BY <1>3 DEF Disturb
  <2> DEFINE f == rd[u]
             g == rd'[u]
  <2> HIDE DEF f
  <2>2. f \in ReadFrame /\ g = [f EXCEPT !.quiet = FALSE]
    BY <1>1, <2>1 DEF f
  <2> HIDE DEF g
  <2>3. /\ g.pc = f.pc /\ g.tool = f.tool /\ g.asked = f.asked
        /\ g.todo = f.todo /\ g.out = f.out /\ g.errors = f.errors
        /\ g.failed = f.failed /\ ~ g.quiet
    BY <2>2 DEF ReadFrame
  <2>4. CallInv(f, thr[u]) /\ PartsInv(f)
    BY <1>1 DEF ToolInv, f
  <2>5. CallInv(rd[u], thr[u])'
    BY <2>3, <2>4 DEF CallInv, g
  <2>6. PartsInv(rd[u])'
    BY <2>3, <2>4 DEF PartsInv, DrawnParts, g
  <2>7. WholeInv(rd[u])'
    BY <2>3 DEF WholeInv, g
  <2> QED
    BY <2>5, <2>6, <2>7 DEF ToolInv
<1> QED
  BY <1>2, <1>3

\* It leaves the frames of their type.
LEMMA DisturbType ==
    ASSUME rd \in [Threads -> ReadFrame], Disturb
    PROVE  rd' \in [Threads -> ReadFrame]
<1>1. ASSUME NEW f \in ReadFrame
      PROVE  [f EXCEPT !.quiet = FALSE] \in ReadFrame
  BY DEF ReadFrame
<1> QED
  BY <1>1 DEF Disturb

\* A step of one reader leaves what is true of all.
LEMMA GoesKeeps ==
    ASSUME ReadersInv, NEW t \in Threads, Goes(t)
    PROVE  /\ rd' \in [Threads -> ReadFrame]
           /\ \A u \in Threads : ToolInv(rd[u], thr[u])'
           /\ pose' = pose
<1>1. ASSUME NEW u \in Threads
      PROVE  ToolInv(rd[u], thr[u])'
  <2>1. ToolInv(rd'[u], thr'[u])
    <3>1. u = t \/ (rd'[u] = rd[u] /\ thr'[u] = thr[u])
      BY DEF Goes
    <3>2. ToolInv(rd[u], thr[u])
      BY DEF ReadersInv
    <3>3. ToolInv(rd'[t], thr'[t])
      BY DEF Goes
    <3> QED
      BY <3>1, <3>2, <3>3
  <2> QED
    BY <2>1, StillTrue DEF Goes
<1> QED
  BY <1>1 DEF Goes

LEMMA ReadersInvInit == ReadersInit => ReadersInv
<1> SUFFICES ASSUME ReadersInit
             PROVE  ReadersInv
  OBVIOUS
<1>1. Sound /\ FreshInv
  BY SoundInit, FreshInit DEF ReadersInit
<1>2. NoMove \in Move
  BY NothingIsRequest, OriginIsPose DEF NoMove, Move, Request
<1>3. ReadersTypeOK
  BY <1>1, <1>2, NoReadIsFrame, OriginIsPose
  DEF ReadersInit, ReadersTypeOK, Sound
<1>4. ASSUME NEW t \in Threads
      PROVE  ToolInv(rd[t], thr[t])
  <2>1. rd[t].pc = "idle" /\ thr[t].pc = "idle"
    BY NoReadIsFrame, IdleIsFrame DEF ReadersInit, Init
  <2> QED
    BY <2>1, IdleTool
<1> QED
  BY <1>1, <1>3, <1>4 DEF ReadersInv

\* The type, and what is true of each tool, one action at a time.
LEMMA ReadersStep ==
    ASSUME ReadersInv, ReadersNext
    PROVE  /\ rd' \in [Threads -> ReadFrame] /\ reads' \in Nat
           /\ pose' \in [Paths -> Pose] /\ mover' \in Move /\ moves' \in Nat
           /\ \A u \in Threads : ToolInv(rd[u], thr[u])'
<1>1. /\ rd \in [Threads -> ReadFrame] /\ reads \in Nat
      /\ pose \in [Paths -> Pose] /\ mover \in Move /\ moves \in Nat
      /\ \A u \in Threads : ToolInv(rd[u], thr[u])
  BY DEF ReadersInv, ReadersTypeOK
<1>2. NoMove \in Move
  BY NothingIsRequest, OriginIsPose DEF NoMove, Move, Request
<1> DEFINE Stays == /\ rd' \in [Threads -> ReadFrame]
                    /\ reads' \in Nat
                    /\ pose' \in [Paths -> Pose] /\ mover' \in Move
                    /\ moves' \in Nat
                    /\ \A u \in Threads : ToolInv(rd[u], thr[u])'
<1>3. ASSUME Disturb, thr' = thr, pose' \in [Paths -> Pose],
             mover' \in Move, moves' \in Nat
      PROVE  Stays
  <2>1. \A u \in Threads : ToolInv(rd[u], thr[u])'
    BY <1>3, DisturbedTool
  <2>2. rd' \in [Threads -> ReadFrame] /\ reads' \in Nat
    BY <1>1, <1>3, DisturbType DEF Disturb
  <2> QED
    BY <1>3, <2>1, <2>2
<1>4. ASSUME NEW t \in Threads, Goes(t), reads' \in Nat, UNCHANGED moverVars
      PROVE  Stays
  <2>1. /\ rd' \in [Threads -> ReadFrame]
        /\ \A u \in Threads : ToolInv(rd[u], thr[u])'
    BY <1>4, GoesKeeps
  <2> QED
    BY <1>1, <1>4, <2>1 DEF moverVars
<1>5. ASSUME UNCHANGED <<file, thr, rd, pose>>, reads' \in Nat,
             mover' \in Move, moves' \in Nat
      PROVE  Stays
  <2>1. ASSUME NEW u \in Threads
        PROVE  ToolInv(rd[u], thr[u])'
    BY <1>1, <1>5, StillTrue
  <2> QED
    BY <1>1, <1>5, <2>1
<1> HIDE DEF Stays
<1>6. ASSUME NEW p \in Paths, WritePart(p) \/ UnlinkPart(p)
      PROVE  Stays
  <2>1. Disturb /\ thr' = thr /\ UNCHANGED <<pose, mover, moves>>
    BY <1>6 DEF WritePart, UnlinkPart, Write, Unlink, moverVars
  <2> QED
    BY <1>1, <1>3, <2>1
<1>7. ASSUME NEW p \in Paths, MoveTranslate(p)
      PROVE  Stays
  <2>1. moves' = moves + 1 /\ moves' \in Nat /\ UNCHANGED <<file, thr>>
    BY <1>1, <1>7 DEF MoveTranslate, vars
  <2>2. mover' \in Move
    <3>1. PICK pc \in {"idle", "rotate", "refuse"} :
             mover' = IF pc = "idle" THEN NoMove
                      ELSE [pc |-> pc, part |-> p, was |-> pose[p]]
      BY <1>7 DEF MoveTranslate
    <3> QED
      BY <1>1, <1>2, <3>1 DEF Move
  <2>3. CASE pose' = [pose EXCEPT ![p].t = moves + 1] /\ Disturb
    <3>1. pose' \in [Paths -> Pose]
      BY <1>1, <2>3 DEF Pose
    <3> QED
      BY <1>3, <2>1, <2>2, <2>3, <3>1
  <2>4. CASE UNCHANGED <<pose, readerVars>>
    BY <1>1, <1>5, <2>1, <2>2, <2>4 DEF readerVars
  <2> QED
    BY <1>7, <2>3, <2>4 DEF MoveTranslate
<1>8. ASSUME MoveRotate
      PROVE  Stays
  <2>1. /\ Disturb /\ thr' = thr /\ moves' = moves /\ mover' = NoMove
        /\ pose' = [pose EXCEPT ![mover.part].r = moves]
    BY <1>8 DEF MoveRotate, vars
  <2>2. pose' \in [Paths -> Pose]
    BY <1>1, <2>1 DEF Pose
  <2>3. mover' \in Move /\ moves' \in Nat
    BY <1>1, <1>2, <2>1
  <2> QED
    BY <1>3, <2>1, <2>2, <2>3
<1>9. ASSUME MoveRefused
      PROVE  Stays
  <2>1. /\ UNCHANGED <<file, thr, rd, pose>> /\ reads' = reads
        /\ mover' = NoMove /\ moves' = moves
    BY <1>9 DEF MoveRefused, vars, readerVars
  <2>2. reads' \in Nat /\ mover' \in Move /\ moves' \in Nat
    BY <1>1, <1>2, <2>1
  <2> QED
    BY <1>5, <2>1, <2>2
<1>10. ASSUME NEW t \in Threads, NEW tool \in Tools, ReadBegin(t, tool)
       PROVE  Stays
  <2>1. Goes(t)
    BY <1>10, BeginGoes
  <2>2. reads' \in Nat /\ UNCHANGED moverVars
    BY <1>1, <1>10 DEF ReadBegin
  <2> QED
    BY <1>4, <2>1, <2>2
<1>11. ASSUME NEW t \in Threads, ReadStep(t)
       PROVE  Stays
  <2>1. Goes(t)
    BY <1>11, SkipGoes, AskGoes, TessellatingGoes, GotGoes, FailGoes,
       ComposeGoes, ReplyGoes, PairsGoes DEF ReadStep
  <2>2. reads' = reads /\ UNCHANGED moverVars
    BY <1>11 DEF ReadStep, SkipPart, AskMesh, Tessellating, GotMesh, NoMesh,
                 Compose, Reply, CheckPairs, readerVars
  <2> QED
    BY <1>1, <1>4, <2>1, <2>2
<1>12. Stays
  <2>1. CASE \E p \in Paths : WritePart(p) \/ UnlinkPart(p)
    BY <2>1, <1>6
  <2>2. CASE \E p \in Paths : MoveTranslate(p)
    BY <2>2, <1>7
  <2>3. CASE \E t \in Threads, tool \in Tools : ReadBegin(t, tool)
    BY <2>3, <1>10
  <2>4. CASE \E t \in Threads : ReadStep(t)
    BY <2>4, <1>11
  <2> QED
    BY <1>8, <1>9, <2>1, <2>2, <2>3, <2>4 DEF ReadersNext
<1> QED
  BY <1>12 DEF Stays

\* The invariant is inductive, on top of the cache's own.
LEMMA ReadersInvStep == ReadersInv /\ [ReadersNext]_allVars => ReadersInv'
<1> SUFFICES ASSUME ReadersInv, [ReadersNext]_allVars
             PROVE  ReadersInv'
  OBVIOUS
<1>1. [Next]_vars
  BY StepIsCacheStep DEF ReadersInv
<1>2. Sound' /\ FreshInv'
  BY <1>1, SoundStep, FreshStep DEF ReadersInv
<1>3. CASE ReadersNext
  <2>1. /\ rd' \in [Threads -> ReadFrame] /\ reads' \in Nat
        /\ pose' \in [Paths -> Pose] /\ mover' \in Move /\ moves' \in Nat
        /\ \A u \in Threads : ToolInv(rd[u], thr[u])'
    BY <1>3, ReadersStep
  <2> QED
    BY <1>2, <2>1 DEF ReadersInv, ReadersTypeOK, Sound
<1>4. CASE UNCHANGED allVars
  <2>1. UNCHANGED <<file, thr, rd, reads, pose, mover, moves>>
    BY <1>4 DEF allVars, vars, readerVars, moverVars
  <2>2. ASSUME NEW u \in Threads
        PROVE  ToolInv(rd[u], thr[u])'
    BY <2>1, StillTrue DEF ReadersInv
  <2> QED
    BY <1>2, <2>1, <2>2 DEF ReadersInv, ReadersTypeOK, Sound
<1> QED
  BY <1>3, <1>4

LEMMA ReadersInvAlways == ReadersSpec => []ReadersInv
  BY ReadersInvInit, ReadersInvStep, PTL DEF ReadersSpec

\* The readers are callers of tessellate like any other: what is proved of the
\* cache holds beneath them.
THEOREM ReadersUseTheCache == ReadersSpec => Spec
<1>1. ReadersInit => Init
  BY DEF ReadersInit
<1>2. ReadersInv => ReadersTypeOK
  BY DEF ReadersInv
<1> QED
  BY <1>1, <1>2, ReadersInvAlways, StepIsCacheStep, PTL
  DEF ReadersSpec, Spec

\* A tool that nothing disturbed replies with the whole assembly as it is, and
\* a validation or an assembly file accounts for every part it set out with,
\* for any number of parts, any order and any tools beside it.
THEOREM RepliesWhole == ReadersSpec => []RepliesAreWhole
<1>1. ASSUME ReadersInv
      PROVE  RepliesAreWhole
  <2> SUFFICES ASSUME NEW t \in Threads, rd[t].pc = "reply"
               PROVE  /\ rd[t].quiet =>
                            /\ rd[t].out = Assembly(rd[t].tool)
                            /\ rd[t].tool = "render_views" =>
                                  rd[t].names = DrawnParts(rd[t])
                            /\ rd[t].tool = "validate_mesh" => Checked(rd[t])
                      /\ rd[t].tool # "render_views" =>
                            \/ rd[t].failed
                            \/ rd[t].asked
                                 = DrawnParts(rd[t]) \union rd[t].errors
    BY DEF RepliesAreWhole
  <2> DEFINE f == rd[t]
             W == WithGeometry
  <2>1. f \in ReadFrame /\ ToolInv(f, thr[t]) /\ f.todo = <<>>
    BY <1>1 DEF ReadersInv, ReadersTypeOK, ToolInv, CallInv
  <2>2. W \in Seq(Paths) /\ ToSet(W) = Modelled /\ f.tool \in Tools
    BY <2>1, FrameFields, ListedFacts
  <2>3. f.tool # "render_views" =>
           f.failed \/ f.asked = DrawnParts(f) \union f.errors
    <3>1. ToSet(f.todo) = {}
      BY <2>1 DEF ToSet
    <3> QED
      BY <2>1, <3>1 DEF ToolInv, PartsInv
  <2>4. ASSUME f.quiet
        PROVE  /\ f.out = Assembly(f.tool)
               /\ f.tool = "render_views" => f.names = DrawnParts(f)
               /\ f.tool = "validate_mesh" => Checked(f)
    <3>1. /\ f.errors = {} /\ f.pairs # "failed" /\ OutInv(f)
          /\ f.tool = "render_views" => f.names = Modelled
      BY <2>1, <2>4 DEF ToolInv, WholeInv
    <3>2. DoneParts(f) = W
      <4>1. Len(f.todo) = 0 /\ Len(Order) \in Nat /\ Len(W) \in Nat
        BY <2>1, <2>2, ReadersAssumption
      <4>2. Len(Order) - Len(f.todo) = Len(Order)
            /\ Len(W) - Len(f.todo) = Len(W)
        BY <4>1
      <4>3. SubSeq(W, 1, Len(W)) = W
        <5> HIDE DEF W
        <5> QED
          BY <2>2
      <4> QED
        BY <4>2, <4>3 DEF DoneParts, WithGeometry
    <3>3. /\ f.out \in Seq(Drawn) /\ Len(f.out) = Len(W)
          /\ \A i \in 1 .. Len(f.out) : f.out[i] = Shown(f.tool, W[i])
      BY <2>1, <3>1, <3>2, FrameFields DEF OutInv
    <3>4. DOMAIN f.out = 1 .. Len(f.out) /\ DOMAIN W = 1 .. Len(f.out)
      <4> HIDE DEF W
      <4> QED
        BY <2>2, <3>3
    <3>5. f.out = Assembly(f.tool)
      <4>1. f.out = [i \in DOMAIN W |-> Shown(f.tool, W[i])]
        BY <3>3, <3>4
      <4> QED
        BY <4>1 DEF Assembly, Shown
    <3>6. DrawnParts(f) = ToSet(W)
      <4>1. \A i \in DOMAIN W : f.out[i].part = W[i]
        <5> HIDE DEF W, f
        <5>1. \A p : Shown(f.tool, p).part = p
          BY DEF Shown
        <5> QED
          BY <3>3, <3>4, <5>1
      <4> HIDE DEF W, f
      <4> QED
        BY <4>1, <3>4 DEF DrawnParts, ToSet
    <3> QED
      BY <2>2, <3>1, <3>5, <3>6 DEF Checked
  <2> QED
    BY <2>3, <2>4
<1> QED
  BY <1>1, ReadersInvAlways, PTL

==============================================================================
