------------------------------ MODULE Measures ------------------------------
(***************************************************************************)
(* What `measure` answers about two selectors on one part.  A shape is     *)
(* given by where its entities are on a line, in the order in which the    *)
(* kernel lists them; a selector picks some of them, of one kind.          *)
(***************************************************************************)
EXTENDS Integers, Sequences, FiniteSetsExt, SequencesExt

\* SELECTOR_KINDS, in the order in which they are tried.
Kinds == <<"faces", "edges", "vertices">>

\* resolve_selector: of the kind that is asked for, else of the first kind of
\* which there is a match.  matches: kind -> the entities that match, as
\* their positions.
ResolveSelector(matches, kind) ==
    LET usable == {i \in DOMAIN Kinds :
                      /\ kind \in {"", Kinds[i]}
                      /\ matches[Kinds[i]] # <<>>}
    IN IF usable = {} THEN [kind |-> "", found |-> <<>>]
       ELSE [kind |-> Kinds[Min(usable)],
             found |-> matches[Kinds[Min(usable)]]]

Gap(x, y) == IF x < y THEN y - x ELSE x - y

\* measure_distance: val() is the first of a selection, whatever it found.
MeasureDistance(from, to) ==
    IF from.found = <<>> \/ to.found = <<>>
    THEN [error |-> TRUE, distance |-> 0, note |-> FALSE]
    ELSE [error |-> FALSE,
          distance |-> Gap(from.found[1], to.found[1]),
          note |-> Len(from.found) > 1 \/ Len(to.found) > 1]

\* The distance between the nearest of what the two selectors found.
Nearest(from, to) ==
    Min({Gap(x, y) : x \in ToSet(from.found), y \in ToSet(to.found)})

=============================================================================
