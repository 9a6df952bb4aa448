----------------------------- MODULE LineFraming -----------------------------
(***************************************************************************)
(* How head_lines, tail_lines, mid_lines and count_lines frame the lines   *)
(* of an object from the one or two byte windows they read of it           *)
(* (crates/storageprims-ops/src/lib.rs).  The awaits, the ledger and the   *)
(* refusals that do not depend on content are in BoundedInspection; here a *)
(* window is read at once and the bytes decide.                            *)
(*                                                                         *)
(* A byte is one of a few classes.  "lead" begins and "cont" ends the only *)
(* multi-byte character; "bad" is a byte UTF-8 never contains, the bytes   *)
(* of a UTF-16 mark among them.  The UTF-8 mark is itself valid text, so   *)
(* stripping it before validation changes nothing and is left out.         *)
(***************************************************************************)
EXTENDS Integers, Sequences, FiniteSetsExt, SequencesExt

CONSTANTS
    Inputs          \* calls: [op, content, n, probe, pending, force]

Bytes == {"text", "lf", "cr", "lead", "cont", "nul", "bad"}
Ops   == {"head_lines", "tail_lines", "mid_lines", "count_lines"}

\* validate_budget() refuses a line count, a probe or a pending limit of zero
\* before anything is read.
ASSUME InputsAssumption ==
    Inputs \subseteq [op : Ops, content : Seq(Bytes), n : Nat \ {0},
                      probe : Nat \ {0}, pending : Nat \ {0}, force : BOOLEAN]

VARIABLES
    input,   \* the call and the object it is made on
    answer   \* what the helper returned

vars == <<input, answer>>

-----------------------------------------------------------------------------
(* Text validation. *)

\* An error str::from_utf8 locates inside the slice; a character cut off by
\* the slice's end is not one (error_len is None).
Malformed(b) ==
    \E i \in DOMAIN b :
        \/ b[i] = "bad"
        \/ b[i] = "cont" /\ (i = 1 \/ b[i - 1] # "lead")
        \/ b[i] = "lead" /\ i < Len(b) /\ b[i + 1] # "cont"

ValidText(b) == ~Malformed(b) /\ (b = <<>> \/ b[Len(b)] # "lead")

\* Mutant: text cut off at the window's edge counts as binary.
BinaryEdge(b) == ~ValidText(b) \/ \E i \in DOMAIN b : b[i] = "nul"

BinaryPrefix(b) == Malformed(b) \/ \E i \in DOMAIN b : b[i] = "nul"

-----------------------------------------------------------------------------
(* Splitting a window.  Positions are 1-based in the window; the offsets of *)
(* a parsed line are those of the object, its end exclusive.                *)

\* The bytes of the terminator at i: a CR at the end of a window may be half
\* of a CRLF and ends no line until the window is known to reach EOF.
Terminator(b, i, eof) ==
    CASE b[i] = "lf" -> 1
      [] b[i] = "cr" /\ i < Len(b) /\ b[i + 1] = "lf" -> 2
      [] b[i] = "cr" /\ (IF i < Len(b) THEN b[i + 1] # "lf" ELSE eof) -> 1
      [] OTHER -> 0

Breaks(b, from) == {i \in from .. Len(b) : b[i] \in {"lf", "cr"}}

\* Where the line at cursor c has its terminator, if it is complete.
Complete(b, c, eof) ==
    {i \in Breaks(b, c) : i = Min(Breaks(b, c)) /\ Terminator(b, i, eof) > 0}

Ending(b, i, width) ==
    IF width = 2 THEN "crlf" ELSE IF b[i] = "lf" THEN "lf" ELSE "cr"

\* A line whose text is SubSeq(b, c, stop); text that is not valid UTF-8 fails
\* the whole parse, which the marker records.
LineAt(b, base, c, stop, width, ending) ==
    [start  |-> base + c - 1,
     end    |-> base + stop + width,
     ending |-> IF ValidText(SubSeq(b, c, stop)) THEN ending ELSE "malformed"]

\* What is left when no complete line is: the last line of the object if the
\* window reaches its end, nothing otherwise.
Trailing(b, base, c, eof) ==
    IF ~eof \/ c > Len(b) THEN <<>>
    ELSE LET i == Complete(b, c, TRUE)
         IN  IF i = {} THEN <<LineAt(b, base, c, Len(b), 0, "none")>>
             ELSE <<LineAt(b, base, c, Len(b) - 1, 1, "cr")>>

Fails(lines) == \E i \in DOMAIN lines : lines[i].ending = "malformed"

\* One round of the loop over complete lines: the cursor passes the line it
\* pushes; without a complete line, or after one that failed, nothing moves.
PushLine(b, base, at) ==
    LET complete == Complete(b, at.cursor, FALSE)
        i        == Min(complete)
        width    == Terminator(b, i, FALSE)
        line     == LineAt(b, base, at.cursor, i - 1, width, Ending(b, i, width))
    IN  IF complete = {} \/ Fails(at.lines) THEN at
        ELSE [cursor |-> i + width, lines |-> Append(at.lines, line)]

\* The loop's cursor and lines after each of at most max rounds.
Rounds(b, base, max) ==
    LET round[k \in 0 .. max] ==
            IF k = 0 THEN [cursor |-> 1, lines |-> <<>>]
            ELSE PushLine(b, base, round[k - 1])
    IN  round

\* At most max lines, the trailing one last, and nothing after a line that
\* fails.
ParseUpTo(b, base, eof, max) ==
    LET at == Rounds(b, base, max)[max]
    IN  IF Fails(at.lines) \/ Len(at.lines) = max THEN at.lines
        ELSE at.lines \o Trailing(b, base, at.cursor, eof)

LastLines(lines, n) ==
    SubSeq(lines, IF Len(lines) > n THEN Len(lines) - n + 1 ELSE 1, Len(lines))

\* The tail parser walks the whole window and keeps its last lines; a failure
\* anywhere is a failure.
ParseTail(b, base, eof, max) ==
    LET lines == ParseUpTo(b, base, eof, Len(b) + 1)
    IN  IF Fails(lines) THEN lines ELSE LastLines(lines, max)

CountParsed(b) == Len(ParseUpTo(b, 0, TRUE, Len(b) + 1))

-----------------------------------------------------------------------------
(* Aligning a window that starts inside the object. *)

FollowedByLf(b, i) == i < Len(b) /\ b[i + 1] = "lf"

\* The position after the first terminator at or after from, if there is one.
NextBoundary(b, from) ==
    {i + (IF b[i] = "cr" /\ FollowedByLf(b, i) THEN 2 ELSE 1) :
        i \in {j \in Breaks(b, from) : j = Min(Breaks(b, from))}}

\* Mutant: a CR before the window always ends a line.
StartsLineAfterCr(previous, b) == previous \in {"lf", "cr"}

StartsLine(previous, b) ==
    \/ previous = "lf"
    \/ previous = "cr" /\ b[1] # "lf"

\* The position a tail window is parsed from.
TailAlignment(start, previous, b) ==
    IF start = 0 \/ StartsLine(previous, b) THEN 1
    ELSE IF NextBoundary(b, 1) = {} THEN Len(b) + 1
    ELSE Min(NextBoundary(b, 1))

\* Mutant: the search begins after the middle byte.
MidAlignmentLate(start, middle, b, eof) ==
    IF NextBoundary(b, middle - start + 2) # {}
    THEN Min(NextBoundary(b, middle - start + 2))
    ELSE IF eof /\ start = 0 THEN 1 ELSE Len(b) + 1

\* The position a mid window is parsed from: after the terminator at or after
\* the object's middle byte, or everything when the whole object has none
\* there.
MidAlignment(start, middle, b, eof) ==
    IF NextBoundary(b, middle - start + 1) # {}
    THEN Min(NextBoundary(b, middle - start + 1))
    ELSE IF eof /\ start = 0 THEN 1 ELSE Len(b) + 1

-----------------------------------------------------------------------------
(* The four helpers. *)

Least(a, b)  == IF a <= b THEN a ELSE b
Refused(why) == [kind |-> why, lines |-> <<>>, count |-> 0]
Lines(ls)    == IF Fails(ls) THEN Refused("encoding")
                ELSE [kind |-> "ok", lines |-> ls, count |-> Len(ls)]

Size(in)                 == Len(in.content)
Window(in, start, length) == SubSeq(in.content, start + 1, start + length)
From(b, c)               == SubSeq(b, c, Len(b))

BodyLength(in)           == Least(Size(in), in.pending)
ProbeWindow(in)          == Window(in, 0, Least(Size(in), in.probe))

\* Mutant: a window with too few lines answers even when it is cut off.
HeadPartial(in) ==
    LET body == Window(in, 0, BodyLength(in))
        eof  == Len(body) = Size(in)
    IN  Lines(ParseUpTo(body, 0, eof, in.n))

\* The second window of head_lines starts over at the first byte.
HeadBody(in) ==
    LET body == Window(in, 0, BodyLength(in))
        eof  == Len(body) = Size(in)
        ls   == ParseUpTo(body, 0, eof, in.n)
    IN  IF BinaryPrefix(body) THEN Refused("encoding")
        ELSE IF ~Fails(ls) /\ Len(ls) < in.n /\ ~eof THEN Refused("pending")
        ELSE Lines(ls)

HeadLines(in) ==
    LET eof == Len(ProbeWindow(in)) = Size(in)
        ls  == ParseUpTo(ProbeWindow(in), 0, eof, in.n)
    IN  IF Fails(ls) \/ Len(ls) = in.n \/ eof THEN Lines(ls) ELSE HeadBody(in)

TailLines(in) ==
    LET start    == IF in.force THEN 0 ELSE Size(in) - BodyLength(in)
        body     == Window(in, start, BodyLength(in))
        eof      == start + Len(body) = Size(in)
        aligned  == TailAlignment(start, IF start = 0 THEN "none"
                                         ELSE in.content[start], body)
        ls       == ParseTail(From(body, aligned), start + aligned - 1, eof, in.n)
    IN  IF BinaryPrefix(From(body, aligned)) THEN Refused("encoding")
        ELSE IF in.force /\ ~eof THEN Refused("pending")
        ELSE IF ~Fails(ls) /\ Len(ls) < in.n /\ start # 0 THEN Refused("pending")
        ELSE Lines(ls)

MidLines(in) ==
    LET middle  == Size(in) \div 2
        half    == BodyLength(in) \div 2
        start   == IF in.force \/ middle < half THEN 0 ELSE middle - half
        length  == IF in.force THEN BodyLength(in)
                   ELSE Least(BodyLength(in), Size(in) - start)
        body    == Window(in, start, length)
        eof     == start + Len(body) = Size(in)
        aligned == MidAlignment(start, middle, body, eof)
        ls      == ParseUpTo(From(body, aligned), start + aligned - 1, eof, in.n)
    IN  IF in.force /\ ~eof THEN Refused("pending")
        ELSE IF BinaryPrefix(From(body, aligned)) THEN Refused("encoding")
        ELSE IF ~Fails(ls) /\ Len(ls) < in.n /\ ~eof THEN Refused("pending")
        ELSE Lines(ls)

\* count_lines_bounded() walks the object with complete_line_consumed().
CountLines(in) ==
    LET ls == ParseUpTo(in.content, 0, TRUE, Size(in) + 1)
    IN  IF BinaryPrefix(in.content) \/ Fails(ls) THEN Refused("encoding")
        ELSE [kind |-> "ok", lines |-> <<>>, count |-> CountParsed(in.content)]

\* An empty object is answered before any window is read, an object a count
\* cannot hold is refused, and the probe must look like text.
Result(in) ==
    IF Size(in) = 0 THEN Lines(<<>>)
    ELSE IF in.op = "count_lines" /\ Size(in) > in.pending THEN Refused("pending")
    ELSE IF BinaryPrefix(ProbeWindow(in)) THEN Refused("encoding")
    ELSE CASE in.op = "head_lines"  -> HeadLines(in)
           [] in.op = "tail_lines"  -> TailLines(in)
           [] in.op = "mid_lines"   -> MidLines(in)
           [] in.op = "count_lines" -> CountLines(in)

Init == input \in Inputs /\ answer = Refused("running")

Call ==
    /\ answer.kind = "running"
    /\ answer' = Result(input)
    /\ UNCHANGED input

Next == Call

Spec == Init /\ [][Next]_vars

-----------------------------------------------------------------------------
(* The reference: the lines of an object, defined on the whole of it.      *)

\* A line ends after every LF and after every CR that no LF follows.
LineEnds(b) == {i \in DOMAIN b : \/ b[i] = "lf"
                                 \/ b[i] = "cr" /\ ~FollowedByLf(b, i)}
LineStarts(b) == {s \in 0 .. Len(b) - 1 : s = 0 \/ s \in LineEnds(b)}

LineFrom(b, s) ==
    LET end == Min({e \in LineEnds(b) : e > s} \cup {Len(b)})
    IN  [start |-> s, end |-> end,
         ending |-> IF b[end] = "cr" THEN "cr"
                    ELSE IF b[end] # "lf" THEN "none"
                    ELSE IF end - 1 > s /\ b[end - 1] = "cr" THEN "crlf"
                    ELSE "lf"]

LinesFrom(b, starts) ==
    [i \in 1 .. Cardinality(starts) |->
        LineFrom(b, CHOOSE s \in starts :
                        Cardinality({t \in starts : t <= s}) = i)]

ObjectLines(b) == LinesFrom(b, LineStarts(b))
Upto(n, ls)    == SubSeq(ls, 1, Least(n, Len(ls)))

Answered(op) == input.op = op /\ answer.kind = "ok"
IsText(b)    == ValidText(b) /\ \A i \in DOMAIN b : b[i] # "nul"

LastOf(n, ls) == SubSeq(ls, Len(ls) - Least(n, Len(ls)) + 1, Len(ls))

\* head_lines returns the object's first n lines, tail_lines its last n, with
\* their true offsets and terminators, and count_lines the number of all, the
\* unterminated last one included: whichever window they were framed in, and
\* although a tail window never sees where its first line began.
LinesAgree ==
    LET all == ObjectLines(input.content)
    IN  /\ Answered("head_lines")  => answer.lines = Upto(input.n, all)
        /\ Answered("tail_lines")  => answer.lines = LastOf(input.n, all)
        /\ Answered("count_lines") => answer.count = Len(all)

\* mid_lines returns the first n lines that start after the object's middle
\* byte, when there is one.
MidIsAligned ==
    LET starts == {s \in LineStarts(input.content) : s > Size(input) \div 2}
    IN  (Answered("mid_lines") /\ starts # {})
            => answer.lines = Upto(input.n, LinesFrom(input.content, starts))

\* Text is never refused as binary because a window cut a character or began
\* inside one, and an object of text that fits the pending bytes is always
\* answered.
TextIsAnswered ==
    IsText(input.content) =>
        /\ answer.kind # "encoding"
        /\ Size(input) <= input.pending => answer.kind \in {"ok", "running"}

\* No returned line holds a NUL or malformed text, wherever it was framed.
BinaryIsWithheld ==
    \A i \in DOMAIN answer.lines :
        IsText(SubSeq(input.content, answer.lines[i].start + 1, answer.lines[i].end))

\* What storageprims.h says of mid_lines: the first n logical lines after
\* midpoint alignment, a single unterminated line excepted.
MidFollowsMidpoint ==
    (Answered("mid_lines") /\ Cardinality(LineStarts(input.content)) > 1)
        => \A i \in DOMAIN answer.lines : answer.lines[i].end > Size(input) \div 2
=============================================================================
