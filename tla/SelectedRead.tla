---------------------------- MODULE SelectedRead ----------------------------
(***************************************************************************)
(* What a guarded read promises (docs/decisions/DDR-0008): one source is   *)
(* selected, every byte handed out is the next byte of that source's       *)
(* window, and success after the last one is reported only when the window *)
(* is complete; a read may fail at any moment, but never falls back to     *)
(* another source.                                                         *)
(***************************************************************************)
EXTENDS Integers

CONSTANTS Sources, SizeOf(_), NoSource

VARIABLES
    read,     \* what is asked for: [op, offset, length]
    source,   \* the selected source
    got,      \* bytes handed out
    outcome   \* pending, whole, unproven or failed

Clip(n, low, high) == IF n < low THEN low ELSE IF n > high THEN high ELSE n

\* Bytes of the window of a source.
WindowOf(s) ==
    IF read.op = "range" THEN Clip(SizeOf(s) - read.offset, 0, read.length)
    ELSE SizeOf(s)

Init == source = NoSource /\ got = 0 /\ outcome = "pending"

Select ==
    /\ source = NoSource /\ outcome = "pending"
    /\ source' \in Sources
    /\ UNCHANGED <<read, got, outcome>>

Yield ==
    /\ source # NoSource /\ outcome = "pending"
    /\ got < WindowOf(source)
    /\ got' = got + 1
    /\ UNCHANGED <<read, source, outcome>>

\* "unproven" ends a read that proves no size: a head, or a whole-object read
\* whose response never told its length.
End ==
    /\ outcome = "pending"
    /\ \/ outcome' = "whole" /\ source # NoSource /\ got = WindowOf(source)
       \/ outcome' = "unproven" /\ read.op # "range"
       \/ outcome' = "failed"
    /\ UNCHANGED <<read, source, got>>

Next == Select \/ Yield \/ End

Spec == Init /\ [][Next]_<<read, source, got, outcome>>
=============================================================================
