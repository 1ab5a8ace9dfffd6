----------------------------- MODULE MCExports ------------------------------
(* Instances of Exports for TLC.                                           *)
EXTENDS Exports, TLC

CONSTANTS box, model_, dashed, bracket

\* "all" of two parts, a list with a part twice, the active part.
MCLists == {<<box, Assembly>>, <<box, box>>, <<box>>}

\* With a limit of 8, "model" leaves room for every label and "bracket" for
\* that of a part, but not for that of the assembly; with a limit of 4,
\* "bracket" is the longest valid name.
MCBaseLen == [b \in Bases |-> IF b = bracket THEN 4 ELSE 1]
MCLabelLen == [l \in Labels |-> IF l = Single THEN 0
                                ELSE IF l = Assembly THEN 5 ELSE 2]

\* "dashed" is "model-1": its files are also the second ones of "model".
MCPaths == Bases \X Labels \X (0 .. MaxSuffix)
MCPathOf == [k \in MCPaths |-> IF k = <<dashed, Single, 0>>
                               THEN <<model_, Single, 1>> ELSE k]

=============================================================================
