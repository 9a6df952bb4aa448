---------------------------- MODULE MCLineFraming ----------------------------
(***************************************************************************)
(* LineFraming on every small object over two alphabets: text with every   *)
(* terminator, and multi-byte characters and NULs.  The probe and pending  *)
(* windows end before, inside and after every terminator and character.    *)
(***************************************************************************)
EXTENDS LineFraming

Objects(alphabet, size) == UNION {[1 .. k -> alphabet] : k \in 0 .. size}

\* Only the scans that can start inside an object know force_stream.
Cases(contents, lines, pending) ==
    {i \in [op : Ops, content : contents, n : 1 .. lines,
            probe : 1 .. 2, pending : 1 .. pending, force : BOOLEAN] :
        i.force => i.op \in {"tail_lines", "mid_lines"}}

MCInputs == Cases(Objects({"text", "lf", "cr"}, 6), 3, 6)
            \cup Cases(Objects({"text", "lf", "lead", "cont", "nul"}, 4), 2, 4)
=============================================================================
