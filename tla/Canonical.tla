----------------------------- MODULE Canonical ------------------------------
(***************************************************************************)
(* canonicalise_3mf: a 3MF is a container of named members, and its writer *)
(* puts a random UUID on every object, item and build in them.  They are   *)
(* replaced by numbers, in the order in which the members, sorted by name, *)
(* first mention them; uuid5 of a number is as good as the number.         *)
(***************************************************************************)
EXTENDS Integers, Sequences, SequencesExt

CONSTANTS
    Uuids,       \* the UUIDs that the writer draws
    NumMembers,  \* members of the container that are text, sorted by name
    MaxUuids     \* bound: the UUIDs mentioned in a member

ASSUME CanonicalAssumption == NumMembers \in Nat \ {0} /\ MaxUuids \in Nat

\* A document, by the UUIDs its members mention.
Documents == [1 .. NumMembers -> BoundedSeq(Uuids, MaxUuids)]

\* mapping after each of the mentions, as the sequence of the UUIDs met so far.
Met(mentions) ==
    LET met[k \in 0 .. Len(mentions)] ==
          IF k = 0 THEN <<>>
          ELSE IF Contains(met[k - 1], mentions[k]) THEN met[k - 1]
          ELSE Append(met[k - 1], mentions[k])
    IN met

Mapping(mentions) == Met(mentions)[Len(mentions)]

Number(seen, u) == CHOOSE i \in DOMAIN seen : seen[i] = u

\* Mutant: every member is numbered afresh.
CanonicaliseByMember(doc) ==
    [m \in DOMAIN doc |->
        [i \in DOMAIN doc[m] |-> Number(Mapping(doc[m]), doc[m][i])]]

Canonicalise(doc) ==
    LET seen == Mapping(FlattenSeq(doc))
    IN [m \in DOMAIN doc |-> [i \in DOMAIN doc[m] |-> Number(seen, doc[m][i])]]

\* Two runs of the writer on the same geometry.
Redrawn(doc, rho) ==
    [m \in DOMAIN doc |-> [i \in DOMAIN doc[m] |-> rho[doc[m][i]]]]

=============================================================================
