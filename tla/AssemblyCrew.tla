---------------------------- MODULE AssemblyCrew ----------------------------
(***************************************************************************)
(* Disciplined uses of a session.                                          *)
(*                                                                         *)
(* Two ways of using a session keep it coherent.  The crew is chosen at    *)
(* the start: "one" makes its calls one after another, of any tool;        *)
(* "locked" makes them at once, of the two tools that take the session's   *)
(* lock.  Calls of a locked crew that overlap look, to whoever inspects    *)
(* the session, as if they had been made one after another: they implement *)
(* SerialAssembly.                                                         *)
(***************************************************************************)
EXTENDS Assembly

CONSTANT Absent     \* SerialAssembly's mark of a name that is no part

\* The parts of SerialAssembly.
SerialParts == [history: History, geometry: History, source: Source,
                colour: Colours]

ASSUME AbsentAssumption == Absent \notin SerialParts

VARIABLE crew

crewVars == <<vars, crew>>

Busy == {t \in Threads : thr[t].pc # "idle"}

\* Where a call of a tool that takes the session's lock can be.
LockPC == {"exec_wait", "run", "create_wait"}

Disciplined ==
    /\ crew = "one" => \A t, u \in Busy : t = u
    /\ crew = "locked" => \A t \in Busy : thr[t].pc \in LockPC

CrewInit == Init /\ crew \in {"one", "locked"}
CrewNext == Next /\ UNCHANGED crew /\ Disciplined'
CrewSpec == CrewInit /\ [][CrewNext]_crewVars

-----------------------------------------------------------------------------
(* The refinement.                                                         *)

\* A part as SerialAssembly sees it: the tentative history of a run in
\* progress is not part of it until the run succeeds.
SerialPart(n) ==
    [history |-> Settled(parts[n]), geometry |-> brep[n].code,
     source |-> heap[parts[n]].source, colour |-> heap[parts[n]].colour]

SerialModel == [n \in Names |-> IF n \in Live THEN SerialPart(n) ELSE Absent]

Serial == INSTANCE SerialAssembly WITH model <- SerialModel, target <- active

\* The session lock makes the calls of execute_cad and create_part atomic: a
\* crew that makes no others implements SerialAssembly.
LockedCallsAreAtomic ==
    /\ Serial!SInit
    /\ [][crew = "locked" => Serial!SNext]_(Serial!svars)

\* SPEC A4, "Each part gets a distinct color", of parts that are created one
\* after another.
ColourIsFreshInTurn ==
    [][\A t \in Threads :
        (crew = "one" /\ CreateInsert(t) /\ thr[t].auto /\ FreeColours # {})
            => thr[t].colour \in FreeColours]_vars

=============================================================================
