--------------------------- MODULE SerialAssembly ---------------------------
(***************************************************************************)
(* What the tools of one session promise together: every call takes effect *)
(* at one instant or not at all, whatever else is running.  A part is its  *)
(* history, the geometry built from it, a source and a colour.  There is   *)
(* no lock, no staged file and no thread here.                             *)
(***************************************************************************)
EXTENDS Integers, Sequences, FiniteSets

CONSTANTS Names, Main, Codes, Colours, MaxParts, Absent

VARIABLES
    model,   \* name -> part, or Absent
    target   \* the part that execute_cad works on

svars == <<model, target>>

Present == {n \in Names : model[n] # Absent}

EmptyPart(c) == [history |-> <<>>, geometry |-> <<>>, source |-> "cadquery",
                 colour |-> c]

SInit ==
    /\ \E c \in Colours :
         model = [n \in Names |-> IF n = Main THEN EmptyPart(c) ELSE Absent]
    /\ target = Main

\* A successful execute_cad: history and geometry change together.
Execute ==
    \E c \in Codes : \E h \in {<<c>>, Append(model[target].history, c)} :
        /\ target \in Present
        /\ model' = [model EXCEPT ![target].history = h,
                                  ![target].geometry = h,
                                  ![target].source = "cadquery"]
        /\ UNCHANGED target

Create(n, c) ==
    /\ n \notin Present
    /\ Cardinality(Present) < MaxParts
    /\ model' = [model EXCEPT ![n] = EmptyPart(c)]
    /\ target' = n

SNext ==
    \/ Execute
    \/ \E n \in Names, c \in Colours : Create(n, c)

SSpec == SInit /\ [][SNext]_svars

=============================================================================
