------------------------------ MODULE TessCache ------------------------------
(***************************************************************************)
(* The cache of tessellations that render, validate and export share.      *)
(*                                                                         *)
(* tessellate makes a key from what stat says of the part file, looks it   *)
(* up under the cache's lock, has the kernel tessellate the file when it   *)
(* is not there, and inserts the result under the lock, under the key it   *)
(* made at first.  No lock is held from one of these steps to the next, so *)
(* the file may be rewritten, deleted or made again in between.            *)
(*                                                                         *)
(* A write of a part file is a version: its content and its mtime.  Every  *)
(* write gets a later mtime than the writes before it, as a run of the     *)
(* sandbox takes longer than the file system's clock takes to advance.     *)
(***************************************************************************)
EXTENDS Integers, Sequences

CONSTANTS
    Threads,
    Paths,       \* part files
    Tols,        \* pairs of a linear and an angular tolerance
    CacheMax,    \* _TESS_CACHE_MAX
    MaxWrites,   \* bound: writes of part files
    MaxCalls     \* bound: calls of tessellate

ASSUME TessAssumption ==
    /\ Paths # {} /\ Tols # {}
    /\ CacheMax \in Nat \ {0}
    /\ MaxWrites \in Nat /\ MaxCalls \in Nat

VARIABLES
    file,     \* path -> the version that is there, 0 when there is no file
    clock,    \* the version of the latest write
    cache,    \* _tess_cache: its entries in the order of insertion
    thr,      \* thread -> frame of its call
    calls

vars == <<file, clock, cache, thr, calls>>

-----------------------------------------------------------------------------

Request == [path: Paths, tol: Tols]

\* What a key holds, with ver for mtime and size, and what a mesh was made
\* from.
Stamped == [path: Paths, tol: Tols, ver: Nat]
Stamp(r, v) == [path |-> r.path, tol |-> r.tol, ver |-> v]

\* Of a file that was there.
Built == [path: Paths, tol: Tols, ver: Nat \ {0}]

Item == [key: Built, mesh: Built]

PC == {"idle", "stat", "lookup", "compute", "insert", "return"}

\* since: the version that was there when the call began.  key: None when stat
\* found no file, which here is a key with version 0.  mesh: the result.
Frame == [pc: PC, req: Request, since: Nat, key: Stamped, mesh: Stamped]

Nothing == CHOOSE r \in Request : TRUE
Idle == [pc |-> "idle", req |-> Nothing, since |-> 0,
         key |-> Stamp(Nothing, 0), mesh |-> Stamp(Nothing, 0)]

\* One type invariant.
TypeOK ==
    /\ file \in [Paths -> Nat]
    /\ clock \in Nat
    /\ cache \in Seq(Item)
    /\ thr \in [Threads -> Frame]
    /\ \A t \in Threads :
         /\ thr[t].pc \in {"lookup", "insert"} => thr[t].key \in Built
         /\ thr[t].pc \in {"insert", "return"} => thr[t].mesh \in Built
    /\ calls \in Nat

Init ==
    /\ file = [p \in Paths |-> 0]
    /\ clock = 0
    /\ cache = <<>>
    /\ thr = [t \in Threads |-> Idle]
    /\ calls = 0

-----------------------------------------------------------------------------
(* The part files: runs, imports, and deletions of parts.                  *)

Write(p) ==
    /\ clock < MaxWrites
    /\ clock' = clock + 1
    /\ file' = [file EXCEPT ![p] = clock + 1]
    /\ UNCHANGED <<cache, thr, calls>>

Unlink(p) ==
    /\ file[p] # 0
    /\ file' = [file EXCEPT ![p] = 0]
    /\ UNCHANGED <<clock, cache, thr, calls>>

-----------------------------------------------------------------------------
(* tessellate.                                                             *)

Call(t, r) ==
    /\ thr[t].pc = "idle"
    /\ calls < MaxCalls
    /\ calls' = calls + 1
    /\ thr' = [thr EXCEPT ![t] = [Idle EXCEPT !.pc = "stat", !.req = r,
                                             !.since = file[r.path]]]
    /\ UNCHANGED <<file, clock, cache>>

\* Mutant: the key forgets the tolerances.
TessKeyNoTol(r, v) == [Stamp(r, v) EXCEPT !.tol = Nothing.tol]

TessKey(r, v) == Stamp(r, v)

\* stat fails when there is no file: no key, no lookup, no insertion.
Stat(t) ==
    LET r == thr[t].req
        v == file[r.path]
    IN /\ thr[t].pc = "stat"
       /\ thr' = [thr EXCEPT ![t].key = TessKey(r, v),
                             ![t].pc = IF v = 0 THEN "compute" ELSE "lookup"]
       /\ UNCHANGED <<file, clock, cache, calls>>

Hits(k) == {i \in DOMAIN cache : cache[i].key = k}

Hit(t) ==
    /\ thr[t].pc = "lookup"
    /\ \E i \in Hits(thr[t].key) :
         thr' = [thr EXCEPT ![t].mesh = cache[i].mesh, ![t].pc = "return"]
    /\ UNCHANGED <<file, clock, cache, calls>>

Miss(t) ==
    /\ thr[t].pc = "lookup"
    /\ Hits(thr[t].key) = {}
    /\ thr' = [thr EXCEPT ![t].pc = "compute"]
    /\ UNCHANGED <<file, clock, cache, calls>>

\* Mutant: a file that is not there has an empty mesh.
ComputeAbsent(t) ==
    LET r == thr[t].req
    IN /\ thr[t].pc = "compute"
       /\ thr' = [thr EXCEPT ![t].mesh = Stamp(r, file[r.path]),
                             ![t].pc = IF thr[t].key.ver # 0 THEN "insert"
                                       ELSE "return"]
       /\ UNCHANGED <<file, clock, cache, calls>>

\* The kernel reads the file that is there by now.
Compute(t) ==
    LET r == thr[t].req
    IN /\ thr[t].pc = "compute"
       /\ file[r.path] # 0
       /\ thr' = [thr EXCEPT ![t].mesh = Stamp(r, file[r.path]),
                             ![t].pc = IF thr[t].key.ver # 0 THEN "insert"
                                       ELSE "return"]
       /\ UNCHANGED <<file, clock, cache, calls>>

\* There is none, or the kernel fails: the call raises.
ComputeFails(t) ==
    /\ thr[t].pc = "compute"
    /\ thr' = [thr EXCEPT ![t] = Idle]
    /\ UNCHANGED <<file, clock, cache, calls>>

\* Mutant: off by one.
RoomOffByOne == IF Len(cache) > CacheMax THEN Tail(cache) ELSE cache

\* Room for one more entry: the oldest goes, whichever it is.
Room == IF Len(cache) >= CacheMax THEN Tail(cache) ELSE cache

\* A key that is there already keeps its place.
Put(s, e) ==
    IF \E i \in DOMAIN s : s[i].key = e.key
    THEN [i \in DOMAIN s |-> IF s[i].key = e.key THEN e ELSE s[i]]
    ELSE Append(s, e)

\* Mutant: the key is made again from the file that is there by now.
InsertRestat(t) ==
    /\ thr[t].pc = "insert"
    /\ file[thr[t].req.path] # 0
    /\ cache' = Put(Room, [key |-> Stamp(thr[t].req, file[thr[t].req.path]),
                           mesh |-> thr[t].mesh])
    /\ thr' = [thr EXCEPT ![t].pc = "return"]
    /\ UNCHANGED <<file, clock, calls>>

Insert(t) ==
    /\ thr[t].pc = "insert"
    /\ cache' = Put(Room, [key |-> thr[t].key, mesh |-> thr[t].mesh])
    /\ thr' = [thr EXCEPT ![t].pc = "return"]
    /\ UNCHANGED <<file, clock, calls>>

Return(t) ==
    /\ thr[t].pc = "return"
    /\ thr' = [thr EXCEPT ![t] = Idle]
    /\ UNCHANGED <<file, clock, cache, calls>>

Clear ==
    /\ cache # <<>>
    /\ cache' = <<>>
    /\ UNCHANGED <<file, clock, thr, calls>>

-----------------------------------------------------------------------------

Step(t) ==
    \/ Stat(t) \/ Hit(t) \/ Miss(t) \/ Compute(t) \/ ComputeFails(t)
    \/ Insert(t) \/ Return(t)

Next ==
    \/ \E p \in Paths : Write(p) \/ Unlink(p)
    \/ \E t \in Threads, r \in Request : Call(t, r)
    \/ \E t \in Threads : Step(t)
    \/ Clear

Spec == Init /\ [][Next]_vars

-----------------------------------------------------------------------------
(* Properties.                                                             *)

\* "A rebuilt part is never served a stale mesh": a call returns a mesh of
\* the file and the tolerances it was asked for, and never one that is older
\* than the file was when the call began.
NeverStale ==
    \A t \in Threads : thr[t].pc = "return" =>
        /\ thr[t].mesh.path = thr[t].req.path
        /\ thr[t].mesh.tol = thr[t].req.tol
        /\ thr[t].mesh.ver >= thr[t].since

\* The cache is bounded by count, and a key has one entry, whatever calls
\* that missed on the same key do to it afterwards.
CacheBounded ==
    /\ Len(cache) <= CacheMax
    /\ \A i, j \in DOMAIN cache : cache[i].key = cache[j].key => i = j

\* A late insertion never shadows the file that is there now: what a lookup
\* can find for the present file is the mesh of the present file.
HitIsCurrent ==
    \A i \in DOMAIN cache :
        LET k == cache[i].key
        IN (k.ver # 0 /\ k.ver = file[k.path]) =>
              cache[i].mesh = Stamp(k, file[k.path])

=============================================================================
