------------------------------- MODULE Exports -------------------------------
(***************************************************************************)
(* export_model: file names, files and the session's list of exports.      *)
(*                                                                         *)
(* One part is exported to one file; several parts to a file each and one  *)
(* of the whole assembly.  Every file gets a name that no file has:        *)
(* unique_output_path looks for it, and the exporter writes it later.  The *)
(* tool takes no lock.                                                     *)
(*                                                                         *)
(* A file name is made of a base, a label and a number; different ones may *)
(* make the same name ("model-1.stl" is also the second "model.stl").  Its *)
(* length matters only against the 64 characters of validate_filename.     *)
(***************************************************************************)
EXTENDS Integers, Sequences, SequencesExt

CONSTANTS
    Threads,
    Parts,        \* part names
    Lists,        \* the lists of parts that clients ask for
    Bases,        \* the file names that clients ask for
    Single,       \* the label of a part exported alone: none
    Assembly,     \* the label "_assembly"; a part may have that name too
    Paths,        \* the files of the session's output directory
    PathOf,       \* <<base, label, number>> -> the file of that name
    BaseLen,      \* base -> its length
    LabelLen,     \* label -> its length, with the underscore
    ExtLen,       \* the length of ".stl"
    MaxName,      \* 64: SAFE_FILENAME_RE
    MaxSuffix,    \* 999: the last number that unique_output_path tries
    Faults,       \* what may go wrong
    MaxCalls      \* bound: calls of export_model

Labels == Parts \union {Single, Assembly}

\* "kernel"  an exporter fails, with or without a torso of the file
\* "delete"  other calls delete and build parts meanwhile
AllFaults == {"kernel", "delete"}

ASSUME ExportsAssumption ==
    /\ Single \notin Parts
    /\ \A l \in Lists : l \in Seq(Parts)
    /\ PathOf \in [Bases \X Labels \X (0 .. MaxSuffix) -> Paths]
    /\ BaseLen \in [Bases -> Nat \ {0}]
    /\ LabelLen \in [Labels -> Nat]
    /\ ExtLen \in Nat /\ MaxName \in Nat /\ MaxSuffix \in Nat
    /\ Faults \subseteq AllFaults
    /\ MaxCalls \in Nat

VARIABLES
    model,     \* the parts that have geometry
    disk,      \* file -> what is in it
    exports,   \* Session.exports, as a set
    thr,       \* thread -> frame of its call
    calls

exportsVars == <<model, disk, exports, thr, calls>>

-----------------------------------------------------------------------------

\* by: the number of the call that wrote it.  whole: to the end.
Content == [by: 1 .. MaxCalls, whole: BOOLEAN]
NoFile == [by |-> 0, whole |-> FALSE]

Exists(f) == disk[f] # NoFile

\* A file that a call has to write.
Job == [kind: {"single", "part"}, parts: {{p} : p \in Parts}, label: Labels]
       \union [kind: {"assembly"}, parts: SUBSET Parts, label: {Assembly}]

\* todo: the jobs of the call, the one in hand first.  good: its exports.
Work == [num: 1 .. MaxCalls, base: Bases, todo: Seq(Job), good: SUBSET Paths]

Frame ==
    [pc: {"idle"}]
    \union [pc: {"name", "return", "raise"}, work: Work]
    \union [pc: {"write"}, work: Work, file: Paths]

Idle == [pc |-> "idle"]

\* One type invariant.
ExportsTypeOK ==
    /\ model \subseteq Parts
    /\ disk \in [Paths -> Content \union {NoFile}]
    /\ exports \subseteq [file: Paths, by: 1 .. MaxCalls]
    /\ thr \in [Threads -> Frame]
    /\ \A t \in Threads :
         thr[t].pc \in {"name", "write"} => thr[t].work.todo # <<>>
    /\ calls \in 0 .. MaxCalls

ExportsInit ==
    /\ model = Parts
    /\ disk = [f \in Paths |-> NoFile]
    /\ exports = {}
    /\ thr = [t \in Threads |-> Idle]
    /\ calls = 0

-----------------------------------------------------------------------------
(* Names.                                                                  *)

\* validate_filename, on the base alone and on a whole file name.
Valid(b) == BaseLen[b] <= MaxName
Fits(b, l) == BaseLen[b] + LabelLen[l] + ExtLen <= MaxName

Candidate(b, l, n) == PathOf[<<b, l, n>>]

\* Mutant: safe_output_path, which does not look at what is there.
SafeOutputPath(b, l) == {f \in {Candidate(b, l, 0)} : Fits(b, l)}

\* The file that unique_output_path returns, if any: the first that is not
\* there.
UniqueOutputPath(b, l) ==
    {f \in Paths :
        /\ Fits(b, l)
        /\ ~ Exists(f)
        /\ \E n \in 0 .. MaxSuffix :
              /\ f = Candidate(b, l, n)
              /\ \A m \in 0 .. n - 1 : Exists(Candidate(b, l, m))}

-----------------------------------------------------------------------------
(* The tool.                                                               *)

\* The parts of a list that have geometry, after each of its names.
WithModel(list) ==
    LET kept[k \in 0 .. Len(list)] ==
          IF k = 0 THEN <<>>
          ELSE IF list[k] \in model THEN Append(kept[k - 1], list[k])
          ELSE kept[k - 1]
    IN kept

\* Of one name the active part's, for which the tool does not ask.
Chosen(list) ==
    IF Len(list) = 1 THEN list ELSE WithModel(list)[Len(list)]

Jobs(parts) ==
    IF Len(parts) = 1
    THEN <<[kind |-> "single", parts |-> {parts[1]}, label |-> Single]>>
    ELSE [i \in DOMAIN parts |->
             [kind |-> "part", parts |-> {parts[i]}, label |-> parts[i]]]
         \o <<[kind |-> "assembly", parts |-> ToSet(parts),
               label |-> Assembly]>>

ExportCall(t, b, list) ==
    /\ thr[t] = Idle
    /\ calls < MaxCalls
    /\ Valid(b)
    /\ Chosen(list) # <<>>
    /\ calls' = calls + 1
    /\ thr' = [thr EXCEPT ![t] =
                 [pc |-> "name",
                  work |-> [num |-> calls + 1, base |-> b,
                            todo |-> Jobs(Chosen(list)), good |-> {}]]]
    /\ UNCHANGED <<model, disk, exports>>

\* Mutant: the last file is not looked out for.
ProceedOn(t, w) == thr' = [thr EXCEPT ![t] = [pc |-> "name", work |-> w]]

\* On to the next file of the call, or to its reply.
Proceed(t, w) ==
    thr' = [thr EXCEPT ![t] =
              [pc |-> IF w.todo = <<>> THEN "return" ELSE "name", work |-> w]]

Dropped(w) == [w EXCEPT !.todo = Tail(@)]

Name(t) ==
    LET w == thr[t].work
    IN /\ thr[t].pc = "name"
       /\ \E f \in UniqueOutputPath(w.base, Head(w.todo).label) :
            thr' = [thr EXCEPT ![t] = [pc |-> "write", work |-> w, file |-> f]]
       /\ UNCHANGED <<model, disk, exports, calls>>

\* UnsafeFilename: an error of that file, except for the assembly's, whose
\* name is not made inside the try.
NoName(t) ==
    LET w == thr[t].work
    IN /\ thr[t].pc = "name"
       /\ UniqueOutputPath(w.base, Head(w.todo).label) = {}
       /\ IF Head(w.todo).kind = "assembly"
          THEN thr' = [thr EXCEPT ![t] = [pc |-> "raise", work |-> w]]
          ELSE Proceed(t, Dropped(w))
       /\ UNCHANGED <<model, disk, exports, calls>>

\* Mutant: the export is listed before it is known to have gone well.
WriteFailsListed(t) ==
    LET w == thr[t].work
        f == thr[t].file
    IN /\ thr[t].pc = "write"
       /\ "kernel" \in Faults \/ ~ (Head(w.todo).parts \subseteq model)
       /\ disk' = disk
       /\ exports' = exports \union {[file |-> f, by |-> w.num]}
       /\ Proceed(t, Dropped(w))
       /\ UNCHANGED <<model, calls>>

\* The exporter writes the file, and the session lists it.
Write(t) ==
    LET w == thr[t].work
        f == thr[t].file
    IN /\ thr[t].pc = "write"
       /\ Head(w.todo).parts \subseteq model
       /\ disk' = [disk EXCEPT ![f] = [by |-> w.num, whole |-> TRUE]]
       /\ exports' = exports \union {[file |-> f, by |-> w.num]}
       /\ Proceed(t, [Dropped(w) EXCEPT !.good = @ \union {f}])
       /\ UNCHANGED <<model, calls>>

\* A part that is gone stops the exporter before it opens the file.
WriteFails(t) ==
    LET w == thr[t].work
        torso == [by |-> w.num, whole |-> FALSE]
    IN /\ thr[t].pc = "write"
       /\ \/ ~ (Head(w.todo).parts \subseteq model) /\ UNCHANGED disk
          \/ /\ "kernel" \in Faults
             /\ \/ UNCHANGED disk
                \/ disk' = [disk EXCEPT ![thr[t].file] = torso]
       /\ Proceed(t, Dropped(w))
       /\ UNCHANGED <<model, exports, calls>>

\* The reply names the files in good; an exception names none.
Return(t) ==
    /\ thr[t].pc \in {"return", "raise"}
    /\ thr' = [thr EXCEPT ![t] = Idle]
    /\ UNCHANGED <<model, disk, exports, calls>>

\* The other tools.
Change(p) ==
    /\ "delete" \in Faults
    /\ model' = IF p \in model THEN model \ {p} ELSE model \union {p}
    /\ UNCHANGED <<disk, exports, thr, calls>>

-----------------------------------------------------------------------------

Step(t) == Name(t) \/ NoName(t) \/ Write(t) \/ WriteFails(t) \/ Return(t)

ExportsNext ==
    \/ \E t \in Threads, b \in Bases, l \in Lists : ExportCall(t, b, l)
    \/ \E t \in Threads : Step(t)
    \/ \E p \in Parts : Change(p)

ExportsSpec == ExportsInit /\ [][ExportsNext]_exportsVars

-----------------------------------------------------------------------------
(* Properties.                                                             *)

\* unique_output_path "never overwrites": a file that is there stays as it is
\* for ever, exports that follow and exports that fail included.
NeverOverwrites ==
    [][\A f \in Paths : Exists(f) => disk'[f] = disk[f]]_exportsVars

\* Every export the session lists is on disk, whole, and the work of the call
\* that listed it: a later export has neither replaced nor truncated it.
ListedIsThere ==
    \A e \in exports : disk[e.file] = [by |-> e.by, whole |-> TRUE]

\* "JSON with path, size_bytes, and format for each exported file": a call
\* that has exported files does not end without naming them.
EveryFileIsReported ==
    \A t \in Threads : thr[t].pc = "raise" => thr[t].work.good = {}

\* SPEC: a filename "must match [A-Za-z0-9][A-Za-z0-9._-]{0,63}", and one that
\* does is used: a part exported alone is never refused for its name's length.
ValidNamesFit ==
    \A t \in Threads :
        (thr[t].pc = "name" /\ Head(thr[t].work.todo).kind = "single") =>
            Fits(thr[t].work.base, Single)

=============================================================================
