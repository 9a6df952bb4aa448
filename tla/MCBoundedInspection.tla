------------------------- MODULE MCBoundedInspection -------------------------
(***************************************************************************)
(* A small instance of BoundedInspection.  A budget of a few bytes and     *)
(* requests per dimension lets every limit be reached, met exactly and     *)
(* missed by one.  The version of no byte has no window, that of two fits  *)
(* every window, that of five exceeds the pending bytes, and that of ten   *)
(* the payload as well.                                                    *)
(***************************************************************************)
EXTENDS BoundedInspection, TLC

CONSTANTS v0, v2, v5, v10

MCVersions == {v0, v2, v5, v10}
MCSize == v0 :> 0 @@ v2 :> 2 @@ v5 :> 5 @@ v10 :> 10

MCCap == [payload |-> 12, requests |-> 6, output |-> 4, pending |-> 5,
          lines |-> 2, chunk |-> 3, probe |-> 3, wall |-> 1]

\* Like the real defaults, these let the probe, the byte before a tail window
\* and the pending window be read one after the other.
MCDefault == [payload |-> 9, requests |-> 5, output |-> 2, pending |-> 4,
              lines |-> 2, chunk |-> 2, probe |-> 2, wall |-> 1]

\* A preview's own budgets: exactly enough for two bytes, one byte short of
\* proving their end, one request short of each phase, four invalid ones, and a
\* wall time past what the clock can represent.
Enough == [MCDefault EXCEPT !.payload = 3, !.requests = 3, !.chunk = 1]

PreviewBudgets ==
    {Enough, [Enough EXCEPT !.payload = 2], [Enough EXCEPT !.output = 1],
     [Enough EXCEPT !.requests = 2], [Enough EXCEPT !.requests = 1],
     [Enough EXCEPT !.requests = 7], [Enough EXCEPT !.payload = 0],
     [Enough EXCEPT !.wall = 0], [Enough EXCEPT !.wall = 2],
     [Enough EXCEPT !.probe = 4]}

PreviewCalls ==
    {[op |-> o, length |-> n, force |-> FALSE, compressed |-> FALSE,
      guarded |-> g, budget |-> b] :
        o \in PreviewOps, n \in 0 .. 3, g \in BOOLEAN, b \in PreviewBudgets}

\* Line helpers take only lines, chunk and probe from their caller.  Only a
\* backward scan looks at the key's suffix.
LineCalls ==
    {c \in {[op |-> o, length |-> 0, force |-> f, compressed |-> z, guarded |-> g,
             budget |-> [MCDefault EXCEPT !.lines = n, !.probe = p, !.chunk = 3]] :
               o \in LineOps, f \in BOOLEAN, z \in BOOLEAN, g \in BOOLEAN,
               n \in {0, 2}, p \in 1 .. 2} :
        c.compressed => c.op \in {"tail_lines", "mid_lines"} /\ ~c.force}

MCCalls == PreviewCalls \cup LineCalls
=============================================================================
