--------------------------- MODULE LineFramingProofs ---------------------------
(***************************************************************************)
(* Proofs about LineFraming, for objects of any length and any line count, *)
(* probe and pending limit.  The answer is a function of the call, so that *)
(* everything is about what the parser computes: first the loop, round by  *)
(* round, on a window alone; then windows of an object and where they are  *)
(* aligned; then the object's lines, with which the loop is compared.      *)
(***************************************************************************)
EXTENDS LineFraming, SequenceTheorems, FiniteSetTheorems, WellFoundedInduction, TLAPS

-----------------------------------------------------------------------------
(* Least positions. *)

LEMMA LeastNatural ==
    ASSUME NEW T \in SUBSET Nat, T # {}
    PROVE  \E n \in T : \A m \in T : n <= m
<1> DEFINE R == OpToRel(<, Nat)
<1>1. IsWellFoundedOn(R, Nat)
  BY NatLessThanWellFounded
<1>2. \A m, n \in Nat : m < n => <<m, n>> \in R
  BY DEF OpToRel
<1> HIDE DEF R
<1>3. PICK n \in T : \A m \in T : ~(<<m, n>> \in R)
  BY <1>1, WFMin
<1>4. ASSUME NEW m \in T PROVE n <= m
  <2>1. m \in Nat /\ n \in Nat  OBVIOUS
  <2>2. ~(m < n)  BY <1>2, <1>3, <2>1
  <2> QED BY <2>1, <2>2
<1> QED BY <1>4

LEMMA LeastPosition ==
    ASSUME NEW T \in SUBSET Nat, T # {}
    PROVE  Min(T) \in T /\ \A n \in T : Min(T) <= n
BY LeastNatural DEF Min

LEMMA InWindow ==
    ASSUME NEW m \in Nat, NEW c \in 1 .. m + 1
    PROVE  /\ c \in Nat \ {0}
           /\ c <= m => c \in 1 .. m
           /\ c <= m <=> ~(c > m)
OBVIOUS

LEMMA Shifted ==
    ASSUME NEW p \in Nat, NEW q \in Nat, NEW k \in 1 .. q - p + 1
    PROVE  p + k - 1 \in p .. q
OBVIOUS

\* A set of naturals that holds 0 and every successor of a member up to m
\* holds all naturals up to m.
LEMMA Counting ==
    ASSUME NEW m \in Nat, NEW T, 0 \in T,
           \A k \in 0 .. m : (k < m /\ k \in T) => k + 1 \in T
    PROVE  \A k \in 0 .. m : k \in T
<1> SUFFICES ASSUME NEW j \in 0 .. m, j \notin T PROVE FALSE
  OBVIOUS
<1> DEFINE Missed == {k \in 0 .. m : k \notin T}
<1>1. Missed \in SUBSET Nat /\ Missed # {}  OBVIOUS
<1>2. PICK k \in Missed : \A i \in Missed : k <= i  BY <1>1, LeastNatural
<1>3. k # 0  OBVIOUS
<1>4. k - 1 \in 0 .. m /\ k - 1 < m /\ k - 1 \notin Missed  BY <1>2, <1>3
<1>5. k - 1 \in T  BY <1>4
<1>6. (k - 1) + 1 \in T  BY <1>4, <1>5
<1> QED BY <1>6, <1>4

-----------------------------------------------------------------------------
(* The loop of ParseUpTo. *)

Start == [cursor |-> 1, lines |-> <<>>]

\* f records the rounds up to m.
RoundsTo(b, base, f, m) ==
    f = [k \in 0 .. m |-> IF k = 0 THEN Start ELSE PushLine(b, base, f[k - 1])]

\* The function Rounds describes exists: were there a least bound without one,
\* the function for the bound before it could be extended.
LEMMA RoundsExist ==
    ASSUME NEW b, NEW base, NEW max \in Nat
    PROVE  \E f : RoundsTo(b, base, f, max)
<1> DEFINE T == {m \in Nat : \E f : RoundsTo(b, base, f, m)}
<1>1. 0 \in T
  <2> DEFINE f == [k \in 0 .. 0 |-> Start]
  <2>1. f = [k \in 0 .. 0 |-> IF k = 0 THEN Start ELSE PushLine(b, base, f[k - 1])]
    OBVIOUS
  <2> QED BY <2>1 DEF RoundsTo
<1>2. ASSUME NEW m \in 0 .. max, m < max, m \in T PROVE m + 1 \in T
  <2>1. PICK f : RoundsTo(b, base, f, m)  BY <1>2
  <2> DEFINE g == [k \in 0 .. m + 1 |-> IF k <= m THEN f[k] ELSE PushLine(b, base, f[m])]
  <2>2. \A k \in 0 .. m : f[k] = IF k = 0 THEN Start ELSE PushLine(b, base, f[k - 1])
    BY <2>1 DEF RoundsTo
  <2>3. \A k \in 0 .. m + 1 :
           (IF k <= m THEN f[k] ELSE PushLine(b, base, f[m]))
             = IF k = 0 THEN Start ELSE PushLine(b, base, g[k - 1])
    <3> TAKE k \in 0 .. m + 1
    <3>1. CASE k = 0  BY <3>1, <2>2
    <3>2. CASE k \in 1 .. m
      <4>1. k - 1 \in 0 .. m + 1 /\ k - 1 <= m  BY <3>2
      <4>2. g[k - 1] = f[k - 1]  BY <4>1
      <4> QED BY <4>2, <3>2, <2>2
    <3>3. CASE k = m + 1
      <4>1. k - 1 = m /\ m \in 0 .. m + 1 /\ ~(k <= m) /\ k # 0  BY <3>3
      <4>2. g[m] = f[m]  BY <4>1
      <4> QED BY <4>1, <4>2
    <3> QED BY <3>1, <3>2, <3>3
  <2>4. g = [k \in 0 .. m + 1 |-> IF k = 0 THEN Start ELSE PushLine(b, base, g[k - 1])]
    BY <2>3
  <2>5. m + 1 \in Nat  OBVIOUS
  <2> QED BY <2>4, <2>5 DEF RoundsTo
<1> HIDE DEF T
<1>3. \A k \in 0 .. max : k \in T  BY <1>1, <1>2, Counting
<1>4. max \in T  BY <1>3
<1> QED BY <1>4 DEF T

\* Each round applies PushLine to the one before it.
LEMMA RoundByRound ==
    ASSUME NEW b, NEW base, NEW max \in Nat
    PROVE  /\ Rounds(b, base, max)[0] = Start
           /\ \A k \in 1 .. max :
                 Rounds(b, base, max)[k] = PushLine(b, base, Rounds(b, base, max)[k - 1])
<1>1. Rounds(b, base, max) = CHOOSE f : RoundsTo(b, base, f, max)
  BY DEF Rounds, RoundsTo, Start
<1>2. RoundsTo(b, base, Rounds(b, base, max), max)
  BY <1>1, RoundsExist
<1> DEFINE f == Rounds(b, base, max)
<1>3. f = [k \in 0 .. max |-> IF k = 0 THEN Start ELSE PushLine(b, base, f[k - 1])]
  BY <1>2 DEF RoundsTo
<1> HIDE DEF f
<1>4. \A k \in 0 .. max : f[k] = IF k = 0 THEN Start ELSE PushLine(b, base, f[k - 1])
  BY <1>3
<1>5. f[0] = Start  BY <1>4
<1>6. \A k \in 1 .. max : f[k] = PushLine(b, base, f[k - 1])  BY <1>4
<1> QED BY <1>5, <1>6 DEF f

-----------------------------------------------------------------------------
(* Complete lines of a window. *)

Break == {"lf", "cr"}

LEMMA WindowBytes ==
    ASSUME NEW b \in Seq(Bytes)
    PROVE  Len(b) \in Nat /\ DOMAIN b = 1 .. Len(b) /\ \A i \in 1 .. Len(b) : b[i] \in Bytes
BY ElementOfSeq

\* What the first break at or after the cursor is.
FirstBreak(b, c, i) ==
    /\ i \in c .. Len(b)
    /\ b[i] \in Break
    /\ \A j \in c .. i - 1 : b[j] \notin Break

\* A complete line ends at the first break from the cursor on.
LEMMA CompleteLine ==
    ASSUME NEW b \in Seq(Bytes), NEW c \in Nat \ {0}, NEW eof \in BOOLEAN,
           Complete(b, c, eof) # {}
    PROVE  /\ FirstBreak(b, c, Min(Complete(b, c, eof)))
           /\ Terminator(b, Min(Complete(b, c, eof)), eof) > 0
<1>1. Len(b) \in Nat  BY WindowBytes
<1>2. PICK i \in Complete(b, c, eof) : TRUE  OBVIOUS
<1>3. /\ i \in Breaks(b, c)
      /\ i = Min(Breaks(b, c))
      /\ Terminator(b, i, eof) > 0
      /\ Complete(b, c, eof) = {i}
  BY <1>2 DEF Complete
<1>4. Min({i}) = i
  <2>1. i \in Nat  BY <1>1, <1>3 DEF Breaks
  <2>2. {i} \in SUBSET Nat /\ {i} # {}  BY <2>1
  <2> QED BY <2>2, LeastPosition
<1>5. Breaks(b, c) \in SUBSET Nat /\ Breaks(b, c) # {}
  BY <1>1, <1>3 DEF Breaks
<1>6. \A j \in Breaks(b, c) : i <= j
  BY <1>3, <1>5, LeastPosition
<1>7. FirstBreak(b, c, i)
  <2>1. i \in c .. Len(b) /\ b[i] \in Break  BY <1>3 DEF Breaks, Break
  <2>2. ASSUME NEW j \in c .. i - 1, b[j] \in Break PROVE FALSE
    <3>1. j \in c .. Len(b) /\ j < i  BY <1>1, <2>1
    <3>2. j \in Breaks(b, c)  BY <2>2, <3>1 DEF Breaks, Break
    <3>3. i <= j  BY <1>6, <3>2
    <3> QED BY <1>1, <2>1, <3>1, <3>3
  <2> QED BY <2>1, <2>2 DEF FirstBreak
<1> QED BY <1>3, <1>4, <1>7

\* Without a complete line, a break can only be a CR that ends the window
\* before the end of the object.
LEMMA NoCompleteLine ==
    ASSUME NEW b \in Seq(Bytes), NEW c \in Nat \ {0}, NEW eof \in BOOLEAN,
           Complete(b, c, eof) = {}, NEW j \in c .. Len(b), b[j] \in Break
    PROVE  j = Len(b) /\ b[j] = "cr" /\ ~eof
<1>1. Len(b) \in Nat  BY WindowBytes
<1>2. Breaks(b, c) \in SUBSET Nat /\ j \in Breaks(b, c)
  BY <1>1 DEF Breaks, Break
<1>3. PICK i \in Breaks(b, c) : i = Min(Breaks(b, c)) /\ i <= j
  BY <1>2, LeastPosition
<1>4. ~(Terminator(b, i, eof) > 0)
  BY <1>3 DEF Complete
<1>5. i \in c .. Len(b) /\ b[i] \in Break
  BY <1>3 DEF Breaks, Break
<1>6. b[i] = "cr" /\ i = Len(b) /\ ~eof
  BY <1>1, <1>4, <1>5 DEF Terminator, Break
<1> QED BY <1>1, <1>3, <1>5, <1>6

\* A terminator lies in the window, and is a pair exactly if it is CR LF.
LEMMA TerminatorWidth ==
    ASSUME NEW b \in Seq(Bytes), NEW i \in 1 .. Len(b), NEW eof \in BOOLEAN,
           Terminator(b, i, eof) > 0
    PROVE  /\ Terminator(b, i, eof) \in 1 .. 2
           /\ i + Terminator(b, i, eof) <= Len(b) + 1
           /\ \A j \in i .. i + Terminator(b, i, eof) - 1 : b[j] \in Break
           /\ Terminator(b, i, eof) = 2 => b[i] = "cr" /\ b[i + 1] = "lf"
           /\ Terminator(b, i, eof) = 1 /\ b[i] = "cr"
                => IF i < Len(b) THEN b[i + 1] # "lf" ELSE eof
<1>1. Len(b) \in Nat  BY WindowBytes
<1>2. CASE b[i] = "lf"
  <2>1. Terminator(b, i, eof) = 1  BY <1>2 DEF Terminator
  <2> QED BY <1>1, <1>2, <2>1 DEF Break
<1>3. CASE b[i] = "cr" /\ i < Len(b) /\ b[i + 1] = "lf"
  <2>1. Terminator(b, i, eof) = 2  BY <1>3 DEF Terminator
  <2>2. \A j \in i .. i + 1 : j = i \/ j = i + 1  OBVIOUS
  <2> QED BY <1>1, <1>3, <2>1, <2>2 DEF Break
<1>4. CASE b[i] = "cr" /\ (IF i < Len(b) THEN b[i + 1] # "lf" ELSE eof)
  <2>1. Terminator(b, i, eof) = 1  BY <1>4 DEF Terminator
  <2> QED BY <1>1, <1>4, <2>1 DEF Break
<1> QED BY <1>2, <1>3, <1>4 DEF Terminator

-----------------------------------------------------------------------------
(* Valid slices of a window. *)

LEMMA Slice ==
    ASSUME NEW b \in Seq(Bytes), NEW p \in 1 .. Len(b) + 1, NEW q \in p - 1 .. Len(b)
    PROVE  /\ SubSeq(b, p, q) \in Seq(Bytes)
           /\ Len(SubSeq(b, p, q)) = q - p + 1
           /\ \A k \in 1 .. q - p + 1 : SubSeq(b, p, q)[k] = b[p + k - 1]
<1>1. Len(b) \in Nat  BY WindowBytes
<1>2. p \in Int /\ q \in Int  BY <1>1
<1>3. \A k \in p .. q : b[k] \in Bytes
  BY <1>1, <1>2, WindowBytes
<1> QED BY <1>1, <1>2, <1>3, SubSeqProperties

\* Valid text in the terms of the positions of the window it is cut from.
TextSlice(b, p, q) ==
    \A i \in p .. q :
        /\ b[i] # "bad"
        /\ b[i] = "cont" => i > p /\ b[i - 1] = "lead"
        /\ b[i] = "lead" => i < q /\ b[i + 1] = "cont"

LEMMA ValidSlice ==
    ASSUME NEW b \in Seq(Bytes), NEW p \in 1 .. Len(b) + 1, NEW q \in p - 1 .. Len(b)
    PROVE  ValidText(SubSeq(b, p, q)) <=> TextSlice(b, p, q)
<1>1. Len(b) \in Nat  BY WindowBytes
<1> PICK s : s = SubSeq(b, p, q)  OBVIOUS
<1> PICK n : n = q - p + 1  OBVIOUS
<1>2. /\ n \in Nat
      /\ s \in Seq(Bytes)
      /\ Len(s) = n
      /\ \A k \in 1 .. n : s[k] = b[p + k - 1]
  BY <1>1, Slice
<1>3. p \in Nat /\ q \in Int /\ q = p + n - 1  BY <1>1
<1>4. DOMAIN s = 1 .. n  BY <1>2
<1>5. ASSUME ValidText(s), NEW i \in p .. q
      PROVE  /\ b[i] # "bad"
             /\ b[i] = "cont" => i > p /\ b[i - 1] = "lead"
             /\ b[i] = "lead" => i < q /\ b[i + 1] = "cont"
  <2> PICK k : k = i - p + 1  OBVIOUS
  <2>1. k \in 1 .. n /\ i = p + k - 1 /\ i \in Int  BY <1>2, <1>3
  <2>2. s[k] = b[i]  BY <1>2, <2>1
  <2>3. /\ s[k] # "bad"
        /\ s[k] = "cont" => k # 1 /\ s[k - 1] = "lead"
        /\ s[k] = "lead" /\ k < n => s[k + 1] = "cont"
        /\ s[n] # "lead"
    <3>1. ~Malformed(s) /\ k \in DOMAIN s  BY <1>4, <1>5, <2>1 DEF ValidText
    <3>2. Len(s) # 0  BY <1>2, <2>1
    <3>3. s # <<>>  BY <3>2
    <3>4. s[n] # "lead"  BY <1>2, <1>5, <3>3 DEF ValidText
    <3> QED BY <1>2, <3>1, <3>4 DEF Malformed
  <2>4. b[i] = "cont" => i > p /\ b[i - 1] = "lead"
    <3>1. ASSUME k # 1 PROVE s[k - 1] = b[i - 1] /\ i > p
      <4>1. k - 1 \in 1 .. n  BY <1>2, <2>1, <3>1
      <4>2. s[k - 1] = b[p + (k - 1) - 1]  BY <1>2, <4>1
      <4>3. p + (k - 1) - 1 = i - 1  BY <1>3, <2>1
      <4> QED BY <1>3, <2>1, <3>1, <4>2, <4>3
    <3> QED BY <2>2, <2>3, <3>1
  <2>5. b[i] = "lead" => i < q /\ b[i + 1] = "cont"
    <3>1. ASSUME k < n PROVE s[k + 1] = b[i + 1] /\ i < q
      <4>1. k + 1 \in 1 .. n  BY <1>2, <2>1, <3>1
      <4>2. s[k + 1] = b[p + (k + 1) - 1]  BY <1>2, <4>1
      <4>3. p + (k + 1) - 1 = i + 1  BY <1>3, <2>1
      <4> QED BY <1>3, <2>1, <3>1, <4>2, <4>3
    <3>2. k = n \/ k < n  BY <1>2, <2>1
    <3> QED BY <2>2, <2>3, <3>1, <3>2
  <2> QED BY <2>2, <2>3, <2>4, <2>5
<1>6. ASSUME TextSlice(b, p, q) PROVE ValidText(s)
  <2>1. ASSUME NEW k \in 1 .. n
        PROVE  /\ s[k] # "bad"
               /\ s[k] = "cont" => k # 1 /\ s[k - 1] = "lead"
               /\ s[k] = "lead" => k < n /\ s[k + 1] = "cont"
    <3> PICK i : i = p + k - 1  OBVIOUS
    <3>1. i \in p .. q  BY <1>2, <1>3
    <3>2. s[k] = b[i]  BY <1>2
    <3>3. /\ b[i] # "bad"
          /\ b[i] = "cont" => i > p /\ b[i - 1] = "lead"
          /\ b[i] = "lead" => i < q /\ b[i + 1] = "cont"
      BY <1>6, <3>1 DEF TextSlice
    <3>4. ASSUME i > p PROVE k # 1 /\ s[k - 1] = b[i - 1]
      <4>1. k - 1 \in 1 .. n  BY <1>2, <1>3, <3>4
      <4>2. s[k - 1] = b[p + (k - 1) - 1]  BY <1>2, <4>1
      <4>3. p + (k - 1) - 1 = i - 1  BY <1>3
      <4> QED BY <4>1, <4>2, <4>3
    <3>5. ASSUME i < q PROVE k < n /\ s[k + 1] = b[i + 1]
      <4>1. k + 1 \in 1 .. n  BY <1>2, <1>3, <3>5
      <4>2. s[k + 1] = b[p + (k + 1) - 1]  BY <1>2, <4>1
      <4>3. p + (k + 1) - 1 = i + 1  BY <1>3
      <4> QED BY <1>2, <4>1, <4>2, <4>3
    <3> QED BY <3>2, <3>3, <3>4, <3>5
  <2>2. ~Malformed(s)  BY <1>2, <1>4, <2>1 DEF Malformed
  <2>3. s = <<>> \/ s[n] # "lead"
    <3>1. CASE n = 0  BY <1>2, <3>1, EmptySeq
    <3>2. CASE n # 0
      <4>1. n \in 1 .. n /\ ~(n < n)  BY <1>2, <3>2
      <4>2. s[n] = "lead" => n < n  BY <2>1, <4>1
      <4> QED BY <4>1, <4>2
    <3> QED BY <3>1, <3>2
  <2> QED BY <1>2, <2>2, <2>3 DEF ValidText
<1>7. ValidText(s) => TextSlice(b, p, q)
  BY <1>5 DEF TextSlice
<1> QED BY <1>6, <1>7

\* A terminator after valid text leaves it valid.
LEMMA TextAndTerminator ==
    ASSUME NEW b \in Seq(Bytes), NEW p \in 1 .. Len(b), NEW s \in p - 1 .. Len(b),
           NEW q \in s .. Len(b),
           TextSlice(b, p, s), \A j \in s + 1 .. q : b[j] \in Break
    PROVE  TextSlice(b, p, q)
<1>1. Len(b) \in Nat  BY WindowBytes
<1> SUFFICES ASSUME NEW i \in p .. q
             PROVE  /\ b[i] # "bad"
                    /\ b[i] = "cont" => i > p /\ b[i - 1] = "lead"
                    /\ b[i] = "lead" => i < q /\ b[i + 1] = "cont"
  BY DEF TextSlice
<1>2. CASE i <= s
  <2>1. i \in p .. s  BY <1>1, <1>2
  <2> QED BY <1>1, <2>1 DEF TextSlice
<1>3. CASE i > s
  <2>1. i \in s + 1 .. q  BY <1>1, <1>3
  <2> QED BY <2>1 DEF Break
<1> QED BY <1>1, <1>2, <1>3

\* The cursor is at the first byte of a line.
AtStart(b, c) == c = 1 \/ b[c - 1] \in Break

\* Between two line boundaries, a window without malformed text holds text.
LEMMA TextBetweenBreaks ==
    ASSUME NEW b \in Seq(Bytes), NEW p \in 1 .. Len(b) + 1, NEW q \in p - 1 .. Len(b),
           ~Malformed(b), AtStart(b, p),
           IF q < Len(b) THEN b[q + 1] \in Break ELSE ValidText(b)
    PROVE  TextSlice(b, p, q)
<1>1. Len(b) \in Nat /\ DOMAIN b = 1 .. Len(b)  BY WindowBytes
<1>0. p \in Nat /\ q \in Int /\ q <= Len(b)  BY <1>1
<1> SUFFICES ASSUME NEW i \in p .. q
             PROVE  /\ b[i] # "bad"
                    /\ b[i] = "cont" => i > p /\ b[i - 1] = "lead"
                    /\ b[i] = "lead" => i < q /\ b[i + 1] = "cont"
  BY DEF TextSlice
<1>2. i \in 1 .. Len(b)  BY <1>1
<1>3. /\ b[i] # "bad"
      /\ b[i] = "cont" => i # 1 /\ b[i - 1] = "lead"
      /\ b[i] = "lead" /\ i < Len(b) => b[i + 1] = "cont"
  BY <1>1, <1>2 DEF Malformed
<1>4. b[i] = "cont" => i > p
  <2>1. CASE i = p
    <3>1. i = 1 \/ b[i - 1] \in Break  BY <2>1 DEF AtStart
    <3> QED BY <1>3, <3>1 DEF Break
  <2> QED BY <1>1, <2>1
<1>5. b[i] = "lead" => i < q
  <2>1. CASE i = q /\ q < Len(b)
    BY <1>3, <2>1 DEF Break
  <2>2. CASE i = q /\ q = Len(b)
    <3>1. ValidText(b)  BY <1>1, <2>2
    <3>2. b # <<>>  BY <1>1, <1>2
    <3> QED BY <2>2, <3>1, <3>2 DEF ValidText
  <2>3. i < q \/ i = q  BY <1>0
  <2>4. q < Len(b) \/ q = Len(b)
    <3> PICK m \in Nat : m = Len(b)  BY <1>1
    <3>1. q \in Int /\ q <= m  BY <1>0
    <3>2. q < m \/ q = m  BY <3>1
    <3> QED BY <3>2
  <2> QED BY <2>1, <2>2, <2>3, <2>4
<1>6. i < q => i < Len(b)  BY <1>1
<1> QED BY <1>3, <1>4, <1>5, <1>6

-----------------------------------------------------------------------------
(* The lines a window is split into. *)

Endings     == {"lf", "cr", "crlf", "none"}
LineRecords == [start : Nat, end : Nat, ending : Endings \cup {"malformed"}]

\* The line is a slice of the window and, unless it failed, text.
Framed(b, base, line) ==
    \E p \in 1 .. Len(b) : \E q \in p .. Len(b) :
        /\ line.start = base + p - 1
        /\ line.end = base + q
        /\ line.ending # "malformed" => TextSlice(b, p, q)

\* What LineAt returns.
FramedLine(b, base, c, stop, width, ending, line) ==
    /\ line \in LineRecords
    /\ Framed(b, base, line)
    /\ TextSlice(b, c, stop) <=> line.ending # "malformed"
    /\ line.ending \in {ending, "malformed"}
    /\ line.start = base + c - 1
    /\ line.end = base + stop + width

\* A line cut at the right positions is a slice, and text unless it is marked.
LEMMA LineIsFramed ==
    ASSUME NEW b \in Seq(Bytes), NEW base \in Nat, NEW c \in 1 .. Len(b),
           NEW stop \in c - 1 .. Len(b), NEW width \in 0 .. 2,
           stop + width \in c .. Len(b),
           \A j \in stop + 1 .. stop + width : b[j] \in Break,
           NEW ending \in Endings
    PROVE  FramedLine(b, base, c, stop, width, ending,
                      LineAt(b, base, c, stop, width, ending))
<1>1. Len(b) \in Nat  BY WindowBytes
<1> PICK line : line = LineAt(b, base, c, stop, width, ending)  OBVIOUS
<1>2. c \in 1 .. Len(b) + 1  BY <1>1
<1>3. ValidText(SubSeq(b, c, stop)) <=> TextSlice(b, c, stop)  BY <1>2, ValidSlice
<1>4. /\ line.start = base + c - 1
      /\ line.end = base + stop + width
      /\ line.ending = IF TextSlice(b, c, stop) THEN ending ELSE "malformed"
      /\ line = [start |-> line.start, end |-> line.end, ending |-> line.ending]
  BY <1>3 DEF LineAt
<1>5. "malformed" \notin Endings  BY DEF Endings
<1>6. c \in Nat /\ stop \in Nat /\ width \in Nat  BY <1>1
<1>7. base + c - 1 \in Nat /\ base + stop + width \in Nat  BY <1>6
<1>8. line \in LineRecords  BY <1>4, <1>7 DEF LineRecords
<1>9. Framed(b, base, line)
  <2> PICK q : q = stop + width  OBVIOUS
  <2>1. q \in c .. Len(b) /\ q \in stop .. Len(b)  BY <1>1, <1>6
  <2>2. line.ending # "malformed" => TextSlice(b, c, stop)  BY <1>4
  <2>3. \A j \in stop + 1 .. q : b[j] \in Break  OBVIOUS
  <2>4. line.ending # "malformed" => TextSlice(b, c, q)
    BY <2>1, <2>2, <2>3, TextAndTerminator
  <2>5. line.end = base + q  BY <1>4, <1>6
  <2> QED BY <1>4, <2>1, <2>4, <2>5 DEF Framed
<1> QED BY <1>4, <1>5, <1>8, <1>9 DEF FramedLine

\* The next complete line ends before the terminator of width w at i.
EndsAt(b, c, i, w) == FirstBreak(b, c, i) /\ w = Terminator(b, i, FALSE)

\* What PushLine does when a complete line is there.
Pushed(b, base, at, next) ==
    \E i \in at.cursor .. Len(b), w \in 1 .. 2 :
        /\ EndsAt(b, at.cursor, i, w)
        /\ next = [cursor |-> i + w,
                   lines  |-> Append(at.lines,
                                     LineAt(b, base, at.cursor, i - 1, w, Ending(b, i, w)))]

\* A round pushes a line or changes nothing.
LEMMA PushOrStay ==
    ASSUME NEW b \in Seq(Bytes), NEW base, NEW at, at.cursor \in Nat \ {0}
    PROVE  \/ /\ PushLine(b, base, at) = at
              /\ Complete(b, at.cursor, FALSE) = {} \/ Fails(at.lines)
           \/ /\ ~Fails(at.lines)
              /\ Pushed(b, base, at, PushLine(b, base, at))
<1>1. Len(b) \in Nat  BY WindowBytes
<1>2. CASE Complete(b, at.cursor, FALSE) = {} \/ Fails(at.lines)
  BY <1>2 DEF PushLine
<1>3. CASE Complete(b, at.cursor, FALSE) # {} /\ ~Fails(at.lines)
  <2> PICK c : c = at.cursor  OBVIOUS
  <2> PICK i : i = Min(Complete(b, c, FALSE))  OBVIOUS
  <2> PICK w : w = Terminator(b, i, FALSE)  OBVIOUS
  <2>1. FirstBreak(b, c, i) /\ w > 0
    BY <1>3, CompleteLine
  <2>2. i \in c .. Len(b)  BY <2>1 DEF FirstBreak
  <2>3. i \in 1 .. Len(b)
    <3>1. ASSUME NEW d \in Nat \ {0}, NEW m \in Nat, NEW k \in d .. m PROVE k \in 1 .. m
      OBVIOUS
    <3> QED BY <1>1, <2>2, <3>1, Zenon
  <2>4. w \in 1 .. 2
    <3>1. FALSE \in BOOLEAN /\ Terminator(b, i, FALSE) > 0  BY <2>1, Zenon
    <3>2. Terminator(b, i, FALSE) \in 1 .. 2  BY <2>3, <3>1, TerminatorWidth
    <3> QED BY <3>2, Zenon
  <2>5. PushLine(b, base, at) =
           [cursor |-> i + w,
            lines  |-> Append(at.lines, LineAt(b, base, c, i - 1, w, Ending(b, i, w)))]
    BY <1>3 DEF PushLine
  <2> QED BY <1>3, <2>1, <2>2, <2>4, <2>5 DEF Pushed, EndsAt
<1> QED BY <1>2, <1>3

\* What the pushed line is.
LEMMA PushedLine ==
    ASSUME NEW b \in Seq(Bytes), NEW base \in Nat, NEW c \in 1 .. Len(b) + 1,
           AtStart(b, c), NEW i \in c .. Len(b), NEW w \in 1 .. 2,
           EndsAt(b, c, i, w)
    PROVE  /\ i + w \in 1 .. Len(b) + 1
           /\ AtStart(b, i + w)
           /\ c \in 1 .. Len(b)
           /\ LineAt(b, base, c, i - 1, w, Ending(b, i, w)) \in LineRecords
           /\ Framed(b, base, LineAt(b, base, c, i - 1, w, Ending(b, i, w)))
           /\ ~Malformed(b)
                => LineAt(b, base, c, i - 1, w, Ending(b, i, w)).ending # "malformed"
<1>1. Len(b) \in Nat  BY WindowBytes
<1>2. i \in 1 .. Len(b) /\ c \in Nat /\ w \in Nat /\ i \in Nat /\ i >= c  BY <1>1
<1>3. /\ i + w <= Len(b) + 1
      /\ \A j \in i .. i + w - 1 : b[j] \in Break
  <2>1. w = Terminator(b, i, FALSE)  BY DEF EndsAt
  <2>2. w > 0  OBVIOUS
  <2>4. FALSE \in BOOLEAN /\ Terminator(b, i, FALSE) > 0  BY <2>1, <2>2, Zenon
  <2>3. /\ i + Terminator(b, i, FALSE) <= Len(b) + 1
        /\ \A j \in i .. i + Terminator(b, i, FALSE) - 1 : b[j] \in Break
    BY <1>2, <2>4, TerminatorWidth
  <2> QED BY <2>1, <2>3
<1>4. i + w \in 1 .. Len(b) + 1  BY <1>1, <1>2, <1>3
<1>5. AtStart(b, i + w)
  <2>1. i + w - 1 \in i .. i + w - 1  BY <1>2
  <2> QED BY <1>3, <2>1 DEF AtStart
<1>6. c \in 1 .. Len(b)  BY <1>1, <1>2
<1> PICK stop : stop = i - 1  OBVIOUS
<1> PICK ending : ending = Ending(b, i, w)  OBVIOUS
<1>7. ending \in Endings  BY DEF Ending, Endings
<1>8. /\ stop \in c - 1 .. Len(b)
      /\ stop + w \in c .. Len(b)
      /\ w \in 0 .. 2
      /\ stop + 1 = i
      /\ stop + w = i + w - 1
      /\ stop < Len(b)
  BY <1>1, <1>2, <1>3
<1>9. \A j \in stop + 1 .. stop + w : b[j] \in Break  BY <1>3, <1>8
<1>10. FramedLine(b, base, c, stop, w, ending, LineAt(b, base, c, stop, w, ending))
  BY <1>6, <1>7, <1>8, <1>9, LineIsFramed
<1>11. ~Malformed(b) => TextSlice(b, c, stop)
  <2>1. b[stop + 1] \in Break  BY <1>8 DEF EndsAt, FirstBreak
  <2> QED BY <1>8, <2>1, TextBetweenBreaks
<1> QED BY <1>4, <1>5, <1>6, <1>10, <1>11 DEF FramedLine

-----------------------------------------------------------------------------
(* What holds after every round, of the window alone. *)

\* After k rounds the cursor is at the start of a line, fewer than k lines mean
\* that the loop has stopped, and a window of text has not failed.
LoopShape(b, base, k, at) ==
    /\ at.cursor \in 1 .. Len(b) + 1
    /\ AtStart(b, at.cursor)
    /\ at.lines \in Seq(LineRecords)
    /\ Len(at.lines) <= k
    /\ Len(at.lines) < k => Complete(b, at.cursor, FALSE) = {} \/ Fails(at.lines)
    /\ \A i \in 1 .. Len(at.lines) : Framed(b, base, at.lines[i])
    /\ ~Malformed(b) => ~Fails(at.lines)

\* A line that can be pushed is complete.
LEMMA CompleteIsThere ==
    ASSUME NEW b \in Seq(Bytes), NEW c \in Nat \ {0}, NEW i \in c .. Len(b), NEW w \in 1 .. 2,
           EndsAt(b, c, i, w)
    PROVE  Complete(b, c, FALSE) # {}
<1>1. Len(b) \in Nat  BY WindowBytes
<1>2. i \in Breaks(b, c) /\ \A j \in Breaks(b, c) : i <= j
  BY <1>1 DEF EndsAt, FirstBreak, Breaks, Break
<1>3. Breaks(b, c) \in SUBSET Nat  BY <1>1 DEF Breaks
<1>4. Min(Breaks(b, c)) \in Breaks(b, c) /\ Min(Breaks(b, c)) <= i
  BY <1>2, <1>3, LeastPosition
<1>5. i = Min(Breaks(b, c))  BY <1>2, <1>3, <1>4
<1>6. w > 0 /\ w = Terminator(b, i, FALSE)
  <2>1. w > 0  OBVIOUS
  <2> QED BY <2>1, Zenon DEF EndsAt
<1>7. Terminator(b, i, FALSE) > 0  BY <1>6, Zenon
<1> QED BY <1>2, <1>5, <1>7 DEF Complete

LEMMA Appended ==
    ASSUME NEW ls \in Seq(LineRecords), NEW line \in LineRecords
    PROVE  /\ Append(ls, line) \in Seq(LineRecords)
           /\ Len(ls) \in Nat
           /\ Len(Append(ls, line)) = Len(ls) + 1
           /\ \A i \in 1 .. Len(ls) : Append(ls, line)[i] = ls[i]
           /\ Append(ls, line)[Len(ls) + 1] = line
           /\ Fails(Append(ls, line)) <=> Fails(ls) \/ line.ending = "malformed"
<1> PICK a : a = Append(ls, line)  OBVIOUS
<1> PICK n : n = Len(ls)  OBVIOUS
<1>1. /\ a \in Seq(LineRecords)
      /\ n \in Nat
      /\ Len(a) = n + 1
      /\ \A i \in 1 .. n : a[i] = ls[i]
      /\ a[n + 1] = line
  OBVIOUS
<1>2. DOMAIN ls = 1 .. n /\ DOMAIN a = 1 .. n + 1  BY <1>1
<1>3. \A i \in 1 .. n + 1 : i \in 1 .. n \/ i = n + 1  BY <1>1
<1>4. \A i \in 1 .. n : i \in 1 .. n + 1  BY <1>1
<1>5. n + 1 \in 1 .. n + 1  BY <1>1
<1>6. Fails(a) => Fails(ls) \/ line.ending = "malformed"
  BY <1>1, <1>2, <1>3 DEF Fails
<1>7. Fails(ls) => Fails(a)
  BY <1>1, <1>2, <1>4 DEF Fails
<1>8. line.ending = "malformed" => Fails(a)
  BY <1>1, <1>2, <1>5 DEF Fails
<1> QED BY <1>1, <1>6, <1>7, <1>8

LEMMA LoopShapeStarts ==
    ASSUME NEW b \in Seq(Bytes), NEW base \in Nat
    PROVE  LoopShape(b, base, 0, Start)
<1>1. Len(b) \in Nat  BY WindowBytes
<1>2. Start.cursor = 1 /\ Start.lines = <<>>  BY DEF Start
<1>3. 1 \in 1 .. Len(b) + 1  BY <1>1
<1>4. /\ <<>> \in Seq(LineRecords)
      /\ Len(<<>>) = 0
      /\ DOMAIN <<>> = {}
  OBVIOUS
<1>5. ~Fails(<<>>)  BY <1>4 DEF Fails
<1>6. \A i \in 1 .. 0 : FALSE  OBVIOUS
<1> QED BY <1>2, <1>3, <1>4, <1>5, <1>6 DEF LoopShape, AtStart

LEMMA LoopShapeStep ==
    ASSUME NEW b \in Seq(Bytes), NEW base \in Nat, NEW k \in Nat, NEW at,
           LoopShape(b, base, k, at)
    PROVE  LoopShape(b, base, k + 1, PushLine(b, base, at))
<1>1. Len(b) \in Nat  BY WindowBytes
<1>2. /\ at.cursor \in 1 .. Len(b) + 1
      /\ AtStart(b, at.cursor)
      /\ at.lines \in Seq(LineRecords)
      /\ Len(at.lines) <= k
      /\ Len(at.lines) < k => Complete(b, at.cursor, FALSE) = {} \/ Fails(at.lines)
      /\ \A i \in 1 .. Len(at.lines) : Framed(b, base, at.lines[i])
      /\ ~Malformed(b) => ~Fails(at.lines)
  BY DEF LoopShape
<1>3. at.cursor \in Nat \ {0} /\ Len(at.lines) \in Nat  BY <1>1, <1>2
<1>4. Len(at.lines) <= k + 1  BY <1>2, <1>3
<1>5. CASE /\ PushLine(b, base, at) = at
           /\ Complete(b, at.cursor, FALSE) = {} \/ Fails(at.lines)
  BY <1>2, <1>4, <1>5 DEF LoopShape
<1>6. CASE ~Fails(at.lines) /\ Pushed(b, base, at, PushLine(b, base, at))
  <2> PICK next : next = PushLine(b, base, at)  OBVIOUS
  <2>1. PICK i \in at.cursor .. Len(b), w \in 1 .. 2 :
            /\ EndsAt(b, at.cursor, i, w)
            /\ next = [cursor |-> i + w,
                       lines  |-> Append(at.lines,
                             LineAt(b, base, at.cursor, i - 1, w, Ending(b, i, w)))]
    BY <1>6 DEF Pushed
  <2> PICK line : line = LineAt(b, base, at.cursor, i - 1, w, Ending(b, i, w))
    OBVIOUS
  <2>2. /\ i + w \in 1 .. Len(b) + 1
        /\ AtStart(b, i + w)
        /\ line \in LineRecords
        /\ Framed(b, base, line)
        /\ ~Malformed(b) => line.ending # "malformed"
    BY <1>2, <2>1, PushedLine
  <2>3. /\ next.cursor = i + w
        /\ next.lines = Append(at.lines, line)
    BY <2>1
  <2>4. Len(at.lines) = k
    <3>1. Complete(b, at.cursor, FALSE) # {}  BY <1>3, <2>1, CompleteIsThere
    <3>2. ~(Len(at.lines) < k)  BY <1>2, <1>6, <3>1
    <3> QED BY <1>2, <1>3, <3>2
  <2>5. /\ next.lines \in Seq(LineRecords)
        /\ Len(next.lines) = k + 1
        /\ \A j \in 1 .. k : next.lines[j] = at.lines[j]
        /\ next.lines[k + 1] = line
        /\ Fails(next.lines) <=> Fails(at.lines) \/ line.ending = "malformed"
    <3>1. at.lines \in Seq(LineRecords) /\ line \in LineRecords  BY <1>2, <2>2
    <3>2. /\ Append(at.lines, line) \in Seq(LineRecords)
          /\ Len(Append(at.lines, line)) = Len(at.lines) + 1
          /\ \A j \in 1 .. Len(at.lines) : Append(at.lines, line)[j] = at.lines[j]
          /\ Append(at.lines, line)[Len(at.lines) + 1] = line
          /\ Fails(Append(at.lines, line))
               <=> (Fails(at.lines) \/ line.ending = "malformed")
      BY <3>1, Appended
    <3> QED BY <2>3, <2>4, <3>2
  <2>6. ASSUME NEW j \in 1 .. k + 1 PROVE Framed(b, base, next.lines[j])
    <3>1. j \in 1 .. k \/ j = k + 1  OBVIOUS
    <3> QED BY <1>2, <2>2, <2>4, <2>5, <3>1
  <2>7. k + 1 <= k + 1 /\ ~(k + 1 < k + 1)  OBVIOUS
  <2> QED BY <1>2, <1>6, <2>2, <2>3, <2>5, <2>6, <2>7 DEF LoopShape
<1> QED BY <1>3, <1>5, <1>6, PushOrStay

-----------------------------------------------------------------------------
(* The last line of a window that reaches the end of the object. *)

\* From c on there is no break but a CR that is the window's last byte.
LastLine(b, c, width, ending) ==
    /\ \A j \in c .. Len(b) - width : b[j] \notin Break
    /\ \/ width = 0 /\ ending = "none"
       \/ width = 1 /\ ending = "cr" /\ b[Len(b)] = "cr"

\* lines is that last line alone.
TrailingLine(b, base, c, lines) ==
    \E width \in 0 .. 1, ending \in Endings :
        /\ LastLine(b, c, width, ending)
        /\ lines = <<LineAt(b, base, c, Len(b) - width, width, ending)>>

\* Trailing is empty, or the last line of a window that has bytes left.
LEMMA TrailingOrNothing ==
    ASSUME NEW b \in Seq(Bytes), NEW base \in Nat, NEW c \in 1 .. Len(b) + 1,
           NEW eof \in BOOLEAN, Complete(b, c, FALSE) = {}
    PROVE  IF ~eof \/ c > Len(b) THEN Trailing(b, base, c, eof) = <<>>
           ELSE TrailingLine(b, base, c, Trailing(b, base, c, eof))
<1>1. Len(b) \in Nat  BY WindowBytes
<1>2. CASE ~eof \/ c > Len(b)
  BY <1>2 DEF Trailing
<1>3. CASE ~(~eof \/ c > Len(b))
  <2>1. c \in Nat \ {0} /\ TRUE \in BOOLEAN /\ FALSE \in BOOLEAN  BY <1>1
  <2>2. CASE Complete(b, c, TRUE) = {}
    <3>1. ASSUME NEW j \in c .. Len(b), b[j] \in Break PROVE FALSE
      BY <2>1, <2>2, <3>1, NoCompleteLine
    <3>2. LastLine(b, c, 0, "none")
      <4>1. Len(b) - 0 = Len(b)  BY <1>1
      <4> QED BY <3>1, <4>1 DEF LastLine
    <3>3. Trailing(b, base, c, eof) = <<LineAt(b, base, c, Len(b) - 0, 0, "none")>>
      <4>1. Len(b) - 0 = Len(b)  BY <1>1
      <4>2. Trailing(b, base, c, eof) = <<LineAt(b, base, c, Len(b), 0, "none")>>
        BY <1>3, <2>2 DEF Trailing
      <4> QED BY <4>1, <4>2
    <3>4. "none" \in Endings /\ 0 \in 0 .. 1  BY DEF Endings
    <3>5. CASE ~eof \/ c > Len(b)  BY <1>3, <3>5
    <3> QED BY <1>3, <3>2, <3>3, <3>4 DEF TrailingLine
  <2>3. CASE Complete(b, c, TRUE) # {}
    <3> PICK i : i = Min(Complete(b, c, TRUE))  OBVIOUS
    <3>1. FirstBreak(b, c, i)  BY <2>1, <2>3, CompleteLine
    <3>2. i \in c .. Len(b) /\ b[i] \in Break  BY <3>1 DEF FirstBreak
    <3>3. i = Len(b) /\ b[i] = "cr"  BY <2>1, <3>2, NoCompleteLine
    <3>4. LastLine(b, c, 1, "cr")
      BY <3>1, <3>3 DEF LastLine, FirstBreak
    <3>5. Trailing(b, base, c, eof) = <<LineAt(b, base, c, Len(b) - 1, 1, "cr")>>
      BY <1>3, <2>3 DEF Trailing
    <3>6. "cr" \in Endings /\ 1 \in 0 .. 1  BY DEF Endings
    <3> QED BY <1>3, <3>4, <3>5, <3>6 DEF TrailingLine
  <2> QED BY <2>2, <2>3
<1> QED BY <1>2, <1>3

\* What is known of that line whatever the window holds.
LEMMA TrailingIsFramed ==
    ASSUME NEW b \in Seq(Bytes), NEW base \in Nat, NEW c \in 1 .. Len(b),
           AtStart(b, c), NEW width \in 0 .. 1, NEW ending \in Endings,
           LastLine(b, c, width, ending)
    PROVE  /\ FramedLine(b, base, c, Len(b) - width, width, ending,
                         LineAt(b, base, c, Len(b) - width, width, ending))
           /\ ValidText(b) => TextSlice(b, c, Len(b) - width)
<1>1. Len(b) \in Nat  BY WindowBytes
<1> PICK stop : stop = Len(b) - width  OBVIOUS
<1>2. /\ stop \in c - 1 .. Len(b)
      /\ stop + width = Len(b)
      /\ stop + width \in c .. Len(b)
      /\ width \in 0 .. 2
      /\ c \in 1 .. Len(b) + 1
  BY <1>1
<1>3. \A j \in stop + 1 .. stop + width : b[j] \in Break
  <2>1. CASE width = 0  BY <1>1, <1>2, <2>1
  <2>2. CASE width = 1
    <3>1. b[Len(b)] \in Break  BY <2>2 DEF LastLine, Break
    <3>2. \A j \in stop + 1 .. stop + width : j = Len(b)  BY <1>1, <1>2, <2>2
    <3> QED BY <3>1, <3>2
  <2> QED BY <2>1, <2>2
<1>4. FramedLine(b, base, c, stop, width, ending, LineAt(b, base, c, stop, width, ending))
  BY <1>2, <1>3, LineIsFramed
<1>5. ASSUME ValidText(b) PROVE TextSlice(b, c, stop)
  <2>1. ~Malformed(b)  BY <1>5 DEF ValidText
  <2>2. stop < Len(b) => stop + 1 \in stop + 1 .. stop + width  BY <1>1, <1>2
  <2>3. IF stop < Len(b) THEN b[stop + 1] \in Break ELSE ValidText(b)
    BY <1>3, <1>5, <2>2
  <2> QED BY <1>2, <2>1, <2>3, TextBetweenBreaks
<1> QED BY <1>4, <1>5

-----------------------------------------------------------------------------
(* What ParseUpTo returns, of the window alone. *)

\* LoopShape holds after every round, hence after the last.
LEMMA LoopEnds ==
    ASSUME NEW b \in Seq(Bytes), NEW base \in Nat, NEW max \in Nat
    PROVE  LoopShape(b, base, max, Rounds(b, base, max)[max])
<1> DEFINE T == {k \in 0 .. max : LoopShape(b, base, k, Rounds(b, base, max)[k])}
<1>1. 0 \in T
  BY RoundByRound, LoopShapeStarts
<1>2. ASSUME NEW k \in 0 .. max, k < max, k \in T PROVE k + 1 \in T
  <2>1. k \in Nat /\ k + 1 \in 1 .. max /\ (k + 1) - 1 = k  BY <1>2
  <2>2. LoopShape(b, base, k, Rounds(b, base, max)[k])  BY <1>2
  <2>3. Rounds(b, base, max)[k + 1] = PushLine(b, base, Rounds(b, base, max)[k])
    BY <2>1, RoundByRound
  <2>4. LoopShape(b, base, k + 1, Rounds(b, base, max)[k + 1])
    BY <2>1, <2>2, <2>3, LoopShapeStep
  <2> QED BY <2>1, <2>4
<1> HIDE DEF T
<1>3. \A k \in 0 .. max : k \in T  BY <1>1, <1>2, Counting
<1>4. max \in T  BY <1>3
<1> QED BY <1>4 DEF T

\* What a parse returns: slices of its window, marked only if they are not text.
ParsedShape(b, base, eof, max, lines) ==
    /\ lines \in Seq(LineRecords)
    /\ Len(lines) <= max
    /\ \A i \in 1 .. Len(lines) : Framed(b, base, lines[i])
    /\ (~Malformed(b) /\ (eof => ValidText(b))) => ~Fails(lines)

LEMMA OneMore ==
    ASSUME NEW ls \in Seq(LineRecords), NEW line
    PROVE  ls \o <<line>> = Append(ls, line)
OBVIOUS

\* ParseUpTo from the end of its loop.
ParseEnds(b, eof, max, at, line, lines) ==
    \/ /\ lines = at.lines
       /\ \/ Fails(at.lines)
          \/ Len(at.lines) = max
          \/ ~eof \/ at.cursor > Len(b)
    \/ /\ ~Fails(at.lines) /\ Len(at.lines) < max
       /\ eof /\ at.cursor <= Len(b)
       /\ lines = Append(at.lines, line)

\* What the trailing line is.
LastOfWindow(b, base, c, line) ==
    \E width \in 0 .. 1, ending \in Endings :
        /\ LastLine(b, c, width, ending)
        /\ line = LineAt(b, base, c, Len(b) - width, width, ending)

\* The trailing line is pushed like the others.
LEMMA ParseIsLoopAndLast ==
    ASSUME NEW b \in Seq(Bytes), NEW base \in Nat, NEW eof \in BOOLEAN, NEW max \in Nat,
           NEW at, LoopShape(b, base, max, at), at = Rounds(b, base, max)[max]
    PROVE  \E line :
              /\ ParseEnds(b, eof, max, at, line, ParseUpTo(b, base, eof, max))
              /\ (~Fails(at.lines) /\ Len(at.lines) < max /\ eof /\ at.cursor <= Len(b))
                   => LastOfWindow(b, base, at.cursor, line)
<1>1. Len(b) \in Nat  BY WindowBytes
<1>3. /\ at.cursor \in 1 .. Len(b) + 1
      /\ at.lines \in Seq(LineRecords)
      /\ Len(at.lines) <= max
      /\ Len(at.lines) < max => Complete(b, at.cursor, FALSE) = {} \/ Fails(at.lines)
  BY DEF LoopShape
<1>4. CASE Fails(at.lines) \/ Len(at.lines) = max
  <2>1. ParseUpTo(b, base, eof, max) = at.lines  BY <1>4 DEF ParseUpTo
  <2> QED BY <1>4, <2>1 DEF ParseEnds
<1>5. CASE ~(Fails(at.lines) \/ Len(at.lines) = max)
  <2>1. ParseUpTo(b, base, eof, max) = at.lines \o Trailing(b, base, at.cursor, eof)
    BY <1>5 DEF ParseUpTo
  <2>2. Len(at.lines) \in Nat  BY <1>3
  <2>3. Len(at.lines) < max  BY <1>3, <1>5, <2>2
  <2>4. Complete(b, at.cursor, FALSE) = {}  BY <1>3, <1>5, <2>3
  <2>5. CASE ~eof \/ at.cursor > Len(b)
    <3>1. Trailing(b, base, at.cursor, eof) = <<>>
      BY <1>3, <2>4, <2>5, TrailingOrNothing
    <3>2. at.lines \o <<>> = at.lines  BY <1>3, ConcatEmptySeq
    <3>3. ~(eof /\ at.cursor <= Len(b))  BY <1>1, <1>3, <2>5, InWindow
    <3>4. ParseUpTo(b, base, eof, max) = at.lines  BY <2>1, <3>1, <3>2
    <3> QED BY <2>5, <3>3, <3>4 DEF ParseEnds
  <2>6. CASE ~(~eof \/ at.cursor > Len(b))
    <3>1. TrailingLine(b, base, at.cursor, Trailing(b, base, at.cursor, eof))
      BY <1>3, <2>4, <2>6, TrailingOrNothing
    <3>2. PICK line :
             /\ LastOfWindow(b, base, at.cursor, line)
             /\ Trailing(b, base, at.cursor, eof) = <<line>>
      BY <3>1 DEF TrailingLine, LastOfWindow
    <3>3. ParseUpTo(b, base, eof, max) = Append(at.lines, line)
      BY <1>3, <2>1, <3>2, OneMore
    <3>4. at.cursor <= Len(b)
      BY <1>1, <1>3, <2>6, InWindow
    <3>5. ~Fails(at.lines) /\ eof  BY <1>5, <2>6
    <3> QED BY <2>3, <3>2, <3>3, <3>4, <3>5 DEF ParseEnds
  <2> QED BY <2>5, <2>6
<1> QED BY <1>4, <1>5

LEMMA ShapeWithLast ==
    ASSUME NEW b \in Seq(Bytes), NEW base \in Nat, NEW c \in 1 .. Len(b) + 1,
           AtStart(b, c), c <= Len(b), NEW before \in Seq(LineRecords),
           ~Fails(before), \A i \in 1 .. Len(before) : Framed(b, base, before[i]),
           NEW line, LastOfWindow(b, base, c, line),
           NEW max \in Nat, Len(before) < max
    PROVE  ParsedShape(b, base, TRUE, max, Append(before, line))
<1>1. Len(b) \in Nat  BY WindowBytes
<1>2. PICK width \in 0 .. 1, ending \in Endings :
         /\ LastLine(b, c, width, ending)
         /\ line = LineAt(b, base, c, Len(b) - width, width, ending)
  BY DEF LastOfWindow
<1>3. c \in 1 .. Len(b)
  BY <1>1, InWindow
<1>4. /\ FramedLine(b, base, c, Len(b) - width, width, ending, line)
      /\ ValidText(b) => TextSlice(b, c, Len(b) - width)
  BY <1>2, <1>3, TrailingIsFramed
<1>5. /\ line \in LineRecords
      /\ Framed(b, base, line)
      /\ ValidText(b) => line.ending # "malformed"
  BY <1>4, Zenon DEF FramedLine
<1> PICK ls : ls = Append(before, line)  OBVIOUS
<1> PICK n : n = Len(before)  OBVIOUS
<1>6. /\ ls \in Seq(LineRecords)
      /\ n \in Nat
      /\ Len(ls) = n + 1
      /\ \A i \in 1 .. n : ls[i] = before[i]
      /\ ls[n + 1] = line
      /\ Fails(ls) <=> Fails(before) \/ line.ending = "malformed"
  BY <1>5, Appended
<1>7. Len(ls) <= max  BY <1>6
<1>8. ASSUME NEW i \in 1 .. Len(ls) PROVE Framed(b, base, ls[i])
  <2>1. i \in 1 .. n \/ i = n + 1  BY <1>6
  <2>2. CASE i \in 1 .. n  BY <1>6, <2>2
  <2>3. CASE i = n + 1  BY <1>5, <1>6, <2>3
  <2> QED BY <2>1, <2>2, <2>3
<1>9. ValidText(b) => ~Fails(ls)  BY <1>5, <1>6
<1> QED BY <1>6, <1>7, <1>8, <1>9 DEF ParsedShape

LEMMA ParseShape ==
    ASSUME NEW b \in Seq(Bytes), NEW base \in Nat, NEW eof \in BOOLEAN, NEW max \in Nat
    PROVE  ParsedShape(b, base, eof, max, ParseUpTo(b, base, eof, max))
<1> PICK at : at = Rounds(b, base, max)[max]  OBVIOUS
<1>1. LoopShape(b, base, max, at)  BY LoopEnds
<1>2. /\ at.cursor \in 1 .. Len(b) + 1
      /\ AtStart(b, at.cursor)
      /\ at.lines \in Seq(LineRecords)
      /\ Len(at.lines) <= max
      /\ \A i \in 1 .. Len(at.lines) : Framed(b, base, at.lines[i])
      /\ ~Malformed(b) => ~Fails(at.lines)
  BY <1>1 DEF LoopShape
<1>3. PICK line :
         /\ ParseEnds(b, eof, max, at, line, ParseUpTo(b, base, eof, max))
         /\ (~Fails(at.lines) /\ Len(at.lines) < max /\ eof /\ at.cursor <= Len(b))
              => LastOfWindow(b, base, at.cursor, line)
  BY <1>1, ParseIsLoopAndLast
<1> PICK ls : ls = ParseUpTo(b, base, eof, max)  OBVIOUS
<1>4. CASE ls = at.lines
  BY <1>2, <1>4 DEF ParsedShape
<1>5. CASE /\ ~Fails(at.lines) /\ Len(at.lines) < max
           /\ eof /\ at.cursor <= Len(b)
           /\ ls = Append(at.lines, line)
  <2>1. ParsedShape(b, base, TRUE, max, Append(at.lines, line))
    BY <1>2, <1>3, <1>5, ShapeWithLast
  <2>2. eof = TRUE  BY <1>5
  <2>3. ls = Append(at.lines, line)  BY <1>5
  <2> QED BY <2>1, <2>2, <2>3, Zenon
<1> QED BY <1>3, <1>4, <1>5 DEF ParseEnds


-----------------------------------------------------------------------------
(* Windows of an object. *)

\* b holds the object's bytes after the first base ones.
IsWindow(T, b, base) ==
    /\ b \in Seq(Bytes)
    /\ base \in Nat
    /\ base + Len(b) <= Len(T)
    /\ \A j \in 1 .. Len(b) : b[j] = T[base + j]

\* A read of the object is a window of it.
LEMMA WindowOf ==
    ASSUME NEW T \in Seq(Bytes), NEW start \in Nat, NEW length \in Nat,
           start + length <= Len(T)
    PROVE  /\ IsWindow(T, SubSeq(T, start + 1, start + length), start)
           /\ Len(SubSeq(T, start + 1, start + length)) = length
<1>1. Len(T) \in Nat  BY WindowBytes
<1>2. /\ start + 1 \in 1 .. Len(T) + 1
      /\ start + length \in (start + 1) - 1 .. Len(T)
      /\ (start + length) - (start + 1) + 1 = length
      /\ start + 1 \in Nat /\ start + length \in Nat
  BY <1>1
<1> PICK p : p = start + 1  OBVIOUS
<1> PICK q : q = start + length  OBVIOUS
<1> PICK s : s = SubSeq(T, p, q)  OBVIOUS
<1>3. /\ s \in Seq(Bytes)
      /\ Len(s) = q - p + 1
      /\ \A k \in 1 .. q - p + 1 : s[k] = T[p + k - 1]
  BY <1>1, <1>2, Slice
<1>4. q - p + 1 = length  BY <1>2
<1>5. \A k \in 1 .. length : s[k] = T[start + k]
  <2> TAKE k \in 1 .. length
  <2>1. p + k - 1 = start + k  OBVIOUS
  <2> QED BY <1>3, <1>4, <2>1
<1> QED BY <1>3, <1>4, <1>5 DEF IsWindow

\* What follows a position of a window is a window.
LEMMA WindowFrom ==
    ASSUME NEW T \in Seq(Bytes), NEW b, NEW start, IsWindow(T, b, start),
           NEW a \in 1 .. Len(b) + 1
    PROVE  /\ IsWindow(T, From(b, a), start + a - 1)
           /\ Len(From(b, a)) = Len(b) + 1 - a
<1>1. /\ b \in Seq(Bytes)
      /\ start \in Nat
      /\ start + Len(b) <= Len(T)
      /\ \A j \in 1 .. Len(b) : b[j] = T[start + j]
  BY DEF IsWindow
<1>2. Len(b) \in Nat /\ Len(T) \in Nat  BY <1>1, WindowBytes
<1> PICK n : n = Len(b)  OBVIOUS
<1> PICK s : s = From(b, a)  OBVIOUS
<1>3. a \in 1 .. n + 1 /\ n \in Nat /\ a \in Nat /\ n \in a - 1 .. n  BY <1>2
<1>4. /\ s \in Seq(Bytes)
      /\ Len(s) = n - a + 1
      /\ \A k \in 1 .. n - a + 1 : s[k] = b[a + k - 1]
  BY <1>1, <1>3, Slice DEF From
<1>5. start + a - 1 \in Nat /\ (start + a - 1) + (n - a + 1) = start + n  BY <1>1, <1>3
<1>6. \A k \in 1 .. n - a + 1 : s[k] = T[(start + a - 1) + k]
  <2> TAKE k \in 1 .. n - a + 1
  <2>1. a + k - 1 \in 1 .. n  BY <1>3
  <2>2. start + (a + k - 1) = (start + a - 1) + k  BY <1>1, <1>3
  <2> QED BY <1>1, <1>4, <2>1, <2>2
<1>7. (start + a - 1) + Len(s) <= Len(T)  BY <1>1, <1>2, <1>4, <1>5
<1>8. Len(s) = n + 1 - a  BY <1>3, <1>4
<1> QED BY <1>4, <1>5, <1>6, <1>7, <1>8 DEF IsWindow

\* A slice of a window is a slice of the object.
LEMMA SliceOfObject ==
    ASSUME NEW T \in Seq(Bytes), NEW b, NEW base, IsWindow(T, b, base),
           NEW p \in 1 .. Len(b), NEW q \in p .. Len(b),
           TextSlice(b, p, q), ~BinaryPrefix(b)
    PROVE  IsText(SubSeq(T, base + p, base + q))
<1>1. /\ b \in Seq(Bytes)
      /\ base \in Nat
      /\ base + Len(b) <= Len(T)
      /\ \A j \in 1 .. Len(b) : b[j] = T[base + j]
  BY DEF IsWindow
<1>2. Len(b) \in Nat /\ Len(T) \in Nat /\ DOMAIN b = 1 .. Len(b)  BY <1>1, WindowBytes
<1>3. p \in Nat /\ q \in Nat /\ p >= 1 /\ p <= q /\ q <= Len(b)  BY <1>2
<1> PICK P : P = base + p  OBVIOUS
<1> PICK Q : Q = base + q  OBVIOUS
<1>4. /\ P \in 1 .. Len(T) + 1
      /\ Q \in P - 1 .. Len(T)
      /\ P \in Nat /\ Q \in Nat
  BY <1>1, <1>2, <1>3
<1>5. ASSUME NEW i \in P .. Q
      PROVE  /\ i - base \in p .. q /\ i - base \in 1 .. Len(b)
             /\ i \in Nat
             /\ T[i] = b[i - base]
             /\ i > P => T[i - 1] = b[(i - base) - 1] /\ i - base > p
             /\ i < Q => T[i + 1] = b[(i - base) + 1] /\ i - base < q
             /\ i - base > p => i > P
             /\ i - base < q => i < Q
  <2>1. i - base \in p .. q /\ i - base \in 1 .. Len(b) /\ i \in Nat
    BY <1>1, <1>2, <1>3, <1>4
  <2>2. base + (i - base) = i  BY <1>1, <2>1
  <2>3. T[i] = b[i - base]  BY <1>1, <2>1, <2>2
  <2>4. ASSUME i > P PROVE T[i - 1] = b[(i - base) - 1]
    <3>1. (i - base) - 1 \in 1 .. Len(b)  BY <1>1, <1>2, <1>3, <2>1, <2>4
    <3>2. base + ((i - base) - 1) = i - 1  BY <1>1, <2>1
    <3> QED BY <1>1, <3>1, <3>2
  <2>5. ASSUME i < Q PROVE T[i + 1] = b[(i - base) + 1]
    <3>1. (i - base) + 1 \in 1 .. Len(b)  BY <1>1, <1>2, <1>3, <2>1, <2>5
    <3>2. base + ((i - base) + 1) = i + 1  BY <1>1, <2>1
    <3> QED BY <1>1, <3>1, <3>2
  <2>6. /\ i > P <=> i - base > p
        /\ i < Q <=> i - base < q
    BY <1>1, <1>3, <1>4, <2>1
  <2> QED BY <2>1, <2>3, <2>4, <2>5, <2>6
<1>6. TextSlice(T, P, Q)
  <2> SUFFICES ASSUME NEW i \in P .. Q
               PROVE  /\ T[i] # "bad"
                      /\ T[i] = "cont" => i > P /\ T[i - 1] = "lead"
                      /\ T[i] = "lead" => i < Q /\ T[i + 1] = "cont"
    BY DEF TextSlice
  <2>0. i - base \in p .. q  BY <1>5
  <2> PICK j : j = i - base  OBVIOUS
  <2>1. j \in p .. q  BY <2>0
  <2>2. /\ b[j] # "bad"
        /\ b[j] = "cont" => j > p /\ b[j - 1] = "lead"
        /\ b[j] = "lead" => j < q /\ b[j + 1] = "cont"
    BY <2>1 DEF TextSlice
  <2>3. /\ T[i] = b[j]
        /\ j > p => i > P /\ T[i - 1] = b[j - 1]
        /\ j < q => i < Q /\ T[i + 1] = b[j + 1]
    BY <1>5
  <2> QED BY <2>2, <2>3
<1>7. ValidText(SubSeq(T, P, Q))  BY <1>4, <1>6, ValidSlice
<1>8. ASSUME NEW k \in DOMAIN SubSeq(T, P, Q) PROVE SubSeq(T, P, Q)[k] # "nul"
  <2>1. /\ SubSeq(T, P, Q) \in Seq(Bytes)
        /\ Len(SubSeq(T, P, Q)) = Q - P + 1
        /\ \A m \in 1 .. Q - P + 1 : SubSeq(T, P, Q)[m] = T[P + m - 1]
    BY <1>4, Slice
  <2>2. k \in 1 .. Q - P + 1  BY <2>1
  <2>3. P + k - 1 \in P .. Q  BY <1>4, <2>2, Shifted
  <2>4. T[P + k - 1] = b[(P + k - 1) - base] /\ (P + k - 1) - base \in 1 .. Len(b)
    BY <1>5, <2>3
  <2>5. b[(P + k - 1) - base] # "nul"  BY <1>2, <2>4 DEF BinaryPrefix
  <2> QED BY <2>1, <2>2, <2>4, <2>5
<1> QED BY <1>7, <1>8 DEF IsText

\* Every line of the list is text of the object.
AllText(T, lines) ==
    \A i \in DOMAIN lines : IsText(SubSeq(T, lines[i].start + 1, lines[i].end))

\* Lines parsed from a window that does not look binary are text.
LEMMA ParsedIsText ==
    ASSUME NEW T \in Seq(Bytes), NEW b, NEW base, IsWindow(T, b, base),
           ~BinaryPrefix(b), NEW eof \in BOOLEAN, NEW max \in Nat,
           NEW lines, ParsedShape(b, base, eof, max, lines), ~Fails(lines)
    PROVE  AllText(T, lines)
<1>1. b \in Seq(Bytes) /\ base \in Nat  BY DEF IsWindow
<1>2. Len(b) \in Nat  BY <1>1, WindowBytes
<1> SUFFICES ASSUME NEW i \in DOMAIN lines
             PROVE  IsText(SubSeq(T, lines[i].start + 1, lines[i].end))
  BY DEF AllText
<1>3. i \in 1 .. Len(lines) /\ lines[i].ending # "malformed"
  BY DEF ParsedShape, Fails
<1>4. Framed(b, base, lines[i])  BY <1>3 DEF ParsedShape
<1>5. PICK p \in 1 .. Len(b) : \E q \in p .. Len(b) :
          /\ lines[i].start = base + p - 1
          /\ lines[i].end = base + q
          /\ lines[i].ending # "malformed" => TextSlice(b, p, q)
  BY <1>4 DEF Framed
<1>6. PICK q \in p .. Len(b) :
          /\ lines[i].start = base + p - 1
          /\ lines[i].end = base + q
          /\ TextSlice(b, p, q)
  BY <1>3, <1>5
<1>7. IsText(SubSeq(T, base + p, base + q))  BY <1>6, SliceOfObject
<1>8. (base + p - 1) + 1 = base + p  BY <1>1, <1>2
<1> QED BY <1>6, <1>7, <1>8

-----------------------------------------------------------------------------
(* Windows that begin at a line. *)

\* A line of the object begins after its first base bytes, or none is left.
Aligned(T, base) == base = Len(T) \/ base \in LineStarts(T)

\* An aligned window has a line boundary before its first byte.
LEMMA AlignedWindow ==
    ASSUME NEW T \in Seq(Bytes), NEW b, NEW base, IsWindow(T, b, base),
           Aligned(T, base) \/ Len(b) = 0
    PROVE  Len(b) = 0 \/ base = 0 \/ (base \in 1 .. Len(T) /\ T[base] \in Break)
<1>1. Len(T) \in Nat /\ DOMAIN T = 1 .. Len(T)  BY WindowBytes
<1>2. b \in Seq(Bytes) /\ base \in Nat /\ base + Len(b) <= Len(T)  BY DEF IsWindow
<1>3. Len(b) \in Nat  BY <1>2, WindowBytes
<1>4. CASE base = Len(T)
  <2>1. Len(b) = 0  BY <1>1, <1>2, <1>3, <1>4
  <2> QED BY <2>1
<1>5. CASE base \in LineStarts(T) /\ base # 0
  <2>1. base \in LineEnds(T)  BY <1>5 DEF LineStarts
  <2> QED BY <1>1, <2>1 DEF LineEnds, Break
<1> QED BY <1>4, <1>5 DEF Aligned

\* An aligned window of text does not look binary and holds no half character
\* but one that its end cuts.
LEMMA TextWindow ==
    ASSUME NEW T \in Seq(Bytes), IsText(T), NEW b, NEW base, IsWindow(T, b, base),
           Aligned(T, base) \/ Len(b) = 0
    PROVE  /\ ~BinaryPrefix(b)
           /\ ~Malformed(b)
           /\ base + Len(b) = Len(T) => ValidText(b)
<1>1. Len(T) \in Nat /\ DOMAIN T = 1 .. Len(T)  BY WindowBytes
<1>2. /\ b \in Seq(Bytes) /\ base \in Nat /\ base + Len(b) <= Len(T)
      /\ \A j \in 1 .. Len(b) : b[j] = T[base + j]
  BY DEF IsWindow
<1>3. Len(b) \in Nat /\ DOMAIN b = 1 .. Len(b)  BY <1>2, WindowBytes
<1>4. Len(b) = 0 \/ base = 0 \/ (base \in 1 .. Len(T) /\ T[base] \in Break)
  BY AlignedWindow
<1>5. \A i \in 1 .. Len(T) :
         /\ T[i] # "bad" /\ T[i] # "nul"
         /\ T[i] = "cont" => i # 1 /\ T[i - 1] = "lead"
         /\ T[i] = "lead" /\ i < Len(T) => T[i + 1] = "cont"
  BY <1>1 DEF IsText, ValidText, Malformed
<1>6. ASSUME NEW j \in 1 .. Len(b)
      PROVE  /\ b[j] # "bad" /\ b[j] # "nul"
             /\ b[j] = "cont" => j # 1 /\ b[j - 1] = "lead"
             /\ b[j] = "lead" /\ j < Len(b) => b[j + 1] = "cont"
  <2> PICK i : i = base + j  OBVIOUS
  <2>1. i \in 1 .. Len(T) /\ b[j] = T[i]  BY <1>1, <1>2, <1>3
  <2>2. ASSUME b[j] = "cont" PROVE j # 1 /\ b[j - 1] = "lead"
    <3>1. i # 1 /\ T[i - 1] = "lead"  BY <1>5, <2>1, <2>2
    <3>2. CASE j = 1
      <4>1. base = i - 1 /\ base # 0 /\ Len(b) # 0  BY <1>2, <1>3, <3>1, <3>2
      <4>2. T[base] = "lead"  BY <3>1, <4>1
      <4> QED BY <1>4, <4>1, <4>2 DEF Break
    <3>3. CASE j # 1
      <4>1. j - 1 \in 1 .. Len(b) /\ base + (j - 1) = i - 1  BY <1>2, <1>3, <3>3
      <4> QED BY <1>2, <3>1, <3>3, <4>1
    <3> QED BY <3>2, <3>3
  <2>3. ASSUME b[j] = "lead", j < Len(b) PROVE b[j + 1] = "cont"
    <3>1. j + 1 \in 1 .. Len(b) /\ base + (j + 1) = i + 1 /\ i < Len(T)
      BY <1>1, <1>2, <1>3, <2>3
    <3>2. b[j + 1] = T[i + 1]  BY <1>2, <3>1
    <3> QED BY <1>5, <2>1, <2>3, <3>1, <3>2
  <2> QED BY <1>5, <2>1, <2>2, <2>3
<1>7. ~Malformed(b) /\ ~BinaryPrefix(b)
  BY <1>3, <1>6 DEF Malformed, BinaryPrefix
<1>8. ASSUME base + Len(b) = Len(T) PROVE b = <<>> \/ b[Len(b)] # "lead"
  <2>1. CASE Len(b) = 0  BY <1>2, <2>1, EmptySeq
  <2>2. CASE Len(b) # 0
    <3>1. Len(b) \in 1 .. Len(b) /\ Len(T) # 0  BY <1>2, <1>3, <1>8, <2>2
    <3>2. b[Len(b)] = T[Len(T)]  BY <1>2, <1>8, <3>1
    <3>3. T # <<>>  BY <3>1
    <3> QED BY <3>2, <3>3 DEF IsText, ValidText
  <2> QED BY <2>1, <2>2
<1> QED BY <1>7, <1>8 DEF ValidText

-----------------------------------------------------------------------------
(* Alignment. *)

\* Where the search from a position of a window at start ends.
BoundaryFound(T, b, start, from, a) ==
    /\ a \in from + 1 .. Len(b) + 1
    /\ a <= Len(b) => start + a - 1 \in LineEnds(T)
    /\ \A e \in LineEnds(T) : e >= start + from => e >= start + a - 1

\* A search that fails has passed no line end of the object in its window.
LEMMA NoBoundary ==
    ASSUME NEW T \in Seq(Bytes), NEW b, NEW start, IsWindow(T, b, start),
           NEW from \in Nat \ {0}, NextBoundary(b, from) = {}
    PROVE  \A e \in LineEnds(T) : e >= start + from => e > start + Len(b)
<1>1. Len(T) \in Nat /\ DOMAIN T = 1 .. Len(T)  BY WindowBytes
<1>2. /\ b \in Seq(Bytes) /\ start \in Nat
      /\ \A j \in 1 .. Len(b) : b[j] = T[start + j]
  BY DEF IsWindow
<1>3. Len(b) \in Nat  BY <1>2, WindowBytes
<1>4. Breaks(b, from) = {}
  <2> SUFFICES ASSUME Breaks(b, from) # {} PROVE FALSE  OBVIOUS
  <2>1. Breaks(b, from) \in SUBSET Nat  BY <1>3 DEF Breaks
  <2>2. Min(Breaks(b, from)) \in Breaks(b, from)  BY <2>1, LeastPosition
  <2> QED BY <2>2 DEF NextBoundary
<1> SUFFICES ASSUME NEW e \in LineEnds(T), e >= start + from, ~(e > start + Len(b))
             PROVE  FALSE
  OBVIOUS
<1>5. e \in 1 .. Len(T) /\ T[e] \in Break  BY <1>1 DEF LineEnds, Break
<1>6. e - start \in from .. Len(b) /\ e - start \in 1 .. Len(b) /\ start + (e - start) = e
  BY <1>1, <1>2, <1>3, <1>5
<1>7. b[e - start] = T[e]  BY <1>2, <1>6
<1>8. e - start \in Breaks(b, from)  BY <1>5, <1>6, <1>7 DEF Breaks, Break
<1> QED BY <1>4, <1>8

\* A search that succeeds is at the next line of the object.
LEMMA BoundaryIsFound ==
    ASSUME NEW T \in Seq(Bytes), NEW b, NEW start, IsWindow(T, b, start),
           NEW from \in Nat \ {0}, NextBoundary(b, from) # {}
    PROVE  BoundaryFound(T, b, start, from, Min(NextBoundary(b, from)))
<1>1. Len(T) \in Nat /\ DOMAIN T = 1 .. Len(T)  BY WindowBytes
<1>2. /\ b \in Seq(Bytes) /\ start \in Nat /\ start + Len(b) <= Len(T)
      /\ \A j \in 1 .. Len(b) : b[j] = T[start + j]
  BY DEF IsWindow
<1>3. Len(b) \in Nat  BY <1>2, WindowBytes
<1>4. PICK i \in Breaks(b, from) :
         /\ i = Min(Breaks(b, from))
         /\ NextBoundary(b, from)
              = {i + (IF b[i] = "cr" /\ FollowedByLf(b, i) THEN 2 ELSE 1)}
  <2>1. PICK i \in Breaks(b, from) : i = Min(Breaks(b, from))
    BY DEF NextBoundary
  <2>2. {j \in Breaks(b, from) : j = Min(Breaks(b, from))} = {i}  BY <2>1
  <2> QED BY <2>1, <2>2 DEF NextBoundary
<1>5. Breaks(b, from) \in SUBSET Nat  BY <1>3 DEF Breaks
<1>6. \A j \in Breaks(b, from) : i <= j  BY <1>4, <1>5, LeastPosition
<1>7. i \in from .. Len(b) /\ b[i] \in {"lf", "cr"}  BY <1>4 DEF Breaks
<1>8. i \in 1 .. Len(b) /\ i \in Nat  BY <1>3, <1>7
<1> PICK a : a = i + (IF b[i] = "cr" /\ FollowedByLf(b, i) THEN 2 ELSE 1)  OBVIOUS
<1>9. a \in {i + 1, i + 2} /\ NextBoundary(b, from) = {a}  BY <1>4
<1>10. Min(NextBoundary(b, from)) = a
  <2>1. {a} \in SUBSET Nat /\ {a} # {}  BY <1>8, <1>9
  <2> QED BY <1>9, <2>1, LeastPosition
<1>11. CASE b[i] = "cr" /\ FollowedByLf(b, i)
  <2>1. a = i + 2 /\ i + 1 \in 1 .. Len(b) /\ b[i + 1] = "lf"
    BY <1>3, <1>8, <1>11 DEF FollowedByLf
  <2>2. a \in from + 1 .. Len(b) + 1  BY <1>3, <1>7, <1>8, <2>1
  <2>3. start + a - 1 \in LineEnds(T)
    <3>1. start + (i + 1) = start + a - 1  BY <1>2, <1>8, <2>1
    <3>2. T[start + a - 1] = "lf"  BY <1>2, <2>1, <3>1
    <3>3. start + a - 1 \in 1 .. Len(T)  BY <1>1, <1>2, <1>3, <1>8, <2>1
    <3> QED BY <1>1, <3>2, <3>3 DEF LineEnds
  <2>4. ASSUME NEW e \in LineEnds(T), e >= start + from PROVE e >= start + a - 1
    <3> SUFFICES ASSUME e < start + i + 1 PROVE FALSE
      BY <1>1, <1>2, <1>8, <2>1 DEF LineEnds
    <3>1. e \in 1 .. Len(T) /\ T[e] \in {"lf", "cr"}
          /\ (T[e] = "cr" => ~FollowedByLf(T, e))
      BY <1>1 DEF LineEnds
    <3>2. e - start \in from .. Len(b) /\ e - start \in 1 .. Len(b) /\ start + (e - start) = e
      BY <1>1, <1>2, <1>3, <1>8, <2>4, <3>1
    <3>3. b[e - start] = T[e]  BY <1>2, <3>2
    <3>4. e - start \in Breaks(b, from)  BY <3>1, <3>2, <3>3 DEF Breaks
    <3>5. i <= e - start  BY <1>6, <3>4
    <3>6. e = start + i  BY <1>1, <1>2, <1>8, <3>1, <3>5
    <3>7. T[e] = "cr"  BY <1>2, <1>8, <1>11, <3>6
    <3>8. T[e + 1] = "lf" /\ e < Len(T)
      <4>1. start + (i + 1) = e + 1  BY <1>2, <1>8, <3>6
      <4>2. T[e + 1] = "lf"  BY <1>2, <2>1, <4>1
      <4>3. e < Len(T)  BY <1>1, <1>2, <1>3, <1>8, <2>1, <3>6
      <4> QED BY <4>2, <4>3
    <3> QED BY <3>1, <3>7, <3>8 DEF FollowedByLf
  <2> QED BY <1>10, <2>2, <2>3, <2>4 DEF BoundaryFound
<1>12. CASE ~(b[i] = "cr" /\ FollowedByLf(b, i))
  <2>1. a = i + 1  BY <1>12
  <2>2. a \in from + 1 .. Len(b) + 1  BY <1>3, <1>7, <1>8, <2>1
  <2>3. start + a - 1 = start + i  BY <1>2, <1>8, <2>1
  <2>4. ASSUME a <= Len(b) PROVE start + a - 1 \in LineEnds(T)
    <3>1. start + i \in 1 .. Len(T) /\ T[start + i] = b[i]  BY <1>1, <1>2, <1>3, <1>8
    <3>2. i + 1 \in 1 .. Len(b) /\ start + (i + 1) = (start + i) + 1 /\ i < Len(b)
      BY <1>2, <1>3, <1>8, <2>1, <2>4
    <3>3. T[(start + i) + 1] = b[i + 1]  BY <1>2, <3>2
    <3>4. b[i] = "cr" => b[i + 1] # "lf"  BY <1>12, <3>2 DEF FollowedByLf
    <3>5. T[start + i] = "cr" => ~FollowedByLf(T, start + i)
      BY <3>1, <3>3, <3>4 DEF FollowedByLf
    <3>6. start + i \in LineEnds(T)  BY <1>1, <1>7, <3>1, <3>5 DEF LineEnds
    <3> QED BY <2>3, <3>6
  <2>5. ASSUME NEW e \in LineEnds(T), e >= start + from PROVE e >= start + a - 1
    <3> SUFFICES ASSUME e < start + i PROVE FALSE
      BY <1>1, <1>2, <1>8, <2>3 DEF LineEnds
    <3>1. e \in 1 .. Len(T) /\ T[e] \in {"lf", "cr"}  BY <1>1 DEF LineEnds
    <3>2. e - start \in from .. Len(b) /\ e - start \in 1 .. Len(b) /\ start + (e - start) = e
      BY <1>1, <1>2, <1>3, <1>8, <2>5, <3>1
    <3>3. b[e - start] = T[e]  BY <1>2, <3>2
    <3>4. e - start \in Breaks(b, from)  BY <3>1, <3>2, <3>3 DEF Breaks
    <3>5. i <= e - start  BY <1>6, <3>4
    <3> QED BY <1>1, <1>2, <1>8, <3>1, <3>5
  <2> QED BY <1>10, <2>2, <2>4, <2>5 DEF BoundaryFound
<1> QED BY <1>11, <1>12

-----------------------------------------------------------------------------
(* The windows the helpers read. *)

LEMMA InputShape ==
    ASSUME NEW in \in Inputs
    PROVE  /\ in.content \in Seq(Bytes)
           /\ in.op \in Ops
           /\ in.n \in Nat \ {0}
           /\ in.probe \in Nat \ {0}
           /\ in.pending \in Nat \ {0}
           /\ in.force \in BOOLEAN
           /\ Size(in) = Len(in.content)
           /\ Size(in) \in Nat
<1>1. in \in [op : Ops, content : Seq(Bytes), n : Nat \ {0},
              probe : Nat \ {0}, pending : Nat \ {0}, force : BOOLEAN]
  BY InputsAssumption
<1>2. in.content \in Seq(Bytes)  BY <1>1
<1>3. Len(in.content) \in Nat  BY <1>2, WindowBytes
<1> QED BY <1>1, <1>3 DEF Size

LEMMA BodySize ==
    ASSUME NEW in \in Inputs
    PROVE  /\ BodyLength(in) \in 0 .. Size(in)
           /\ BodyLength(in) \in Nat
           /\ Size(in) > 0 => BodyLength(in) > 0
           /\ Size(in) <= in.pending => BodyLength(in) = Size(in)
           /\ Least(Size(in), in.probe) \in 0 .. Size(in)
           /\ Least(Size(in), in.probe) \in Nat
<1>1. Size(in) \in Nat /\ in.pending \in Nat \ {0} /\ in.probe \in Nat \ {0}
  BY InputShape
<1>2. ASSUME NEW s \in Nat, NEW p \in Nat \ {0}
      PROVE  /\ Least(s, p) \in 0 .. s
             /\ Least(s, p) \in Nat
             /\ s > 0 => Least(s, p) > 0
             /\ s <= p => Least(s, p) = s
  BY DEF Least
<1> QED BY <1>1, <1>2 DEF BodyLength

\* A window that stays inside the object holds the bytes asked for.
LEMMA WindowInside ==
    ASSUME NEW in \in Inputs, NEW start \in Nat, NEW length \in Nat,
           start + length <= Size(in)
    PROVE  /\ IsWindow(in.content, Window(in, start, length), start)
           /\ Len(Window(in, start, length)) = length
BY InputShape, WindowOf DEF Window

\* What the parse of a window rests on: an aligned base, the end of the object
\* known for what it is.
Parts(in, b, base, eof) ==
    /\ IsWindow(in.content, b, base)
    /\ eof \in BOOLEAN
    /\ eof => base + Len(b) = Size(in)
    /\ Len(b) > 0 \/ eof => Aligned(in.content, base)

\* head_lines: the probe, then the body, both from the first byte.
LEMMA ProbeParts ==
    ASSUME NEW in \in Inputs, Size(in) > 0
    PROVE  Parts(in, ProbeWindow(in), 0, Len(ProbeWindow(in)) = Size(in))
<1>1. /\ in.content \in Seq(Bytes) /\ Size(in) = Len(in.content) /\ Size(in) \in Nat
      /\ Least(Size(in), in.probe) \in 0 .. Size(in)
      /\ Least(Size(in), in.probe) \in Nat
  BY InputShape, BodySize
<1>2. IsWindow(in.content, ProbeWindow(in), 0)
  BY <1>1, WindowInside DEF ProbeWindow
<1>3. Aligned(in.content, 0)  BY <1>1 DEF Aligned, LineStarts
<1>4. (Len(ProbeWindow(in)) = Size(in)) \in BOOLEAN  OBVIOUS
<1>5. ASSUME Len(ProbeWindow(in)) = Size(in) PROVE 0 + Len(ProbeWindow(in)) = Size(in)
  BY <1>1, <1>5
<1> QED BY <1>2, <1>3, <1>4, <1>5 DEF Parts

LEMMA BodyParts ==
    ASSUME NEW in \in Inputs, Size(in) > 0
    PROVE  /\ Parts(in, Window(in, 0, BodyLength(in)), 0,
                    Len(Window(in, 0, BodyLength(in))) = Size(in))
           /\ Size(in) <= in.pending => Len(Window(in, 0, BodyLength(in))) = Size(in)
<1>1. /\ in.content \in Seq(Bytes) /\ Size(in) = Len(in.content) /\ Size(in) \in Nat
      /\ BodyLength(in) \in 0 .. Size(in)
      /\ BodyLength(in) \in Nat
      /\ Size(in) <= in.pending => BodyLength(in) = Size(in)
  BY InputShape, BodySize
<1>0. 0 + BodyLength(in) <= Size(in)  BY <1>1
<1> PICK b : b = Window(in, 0, BodyLength(in))  OBVIOUS
<1>2. IsWindow(in.content, b, 0) /\ Len(b) = BodyLength(in)
  BY <1>0, <1>1, WindowInside
<1>3. Aligned(in.content, 0)  BY <1>1 DEF Aligned, LineStarts
<1>4. (Len(b) = Size(in)) \in BOOLEAN  OBVIOUS
<1>5. ASSUME Len(b) = Size(in) PROVE 0 + Len(b) = Size(in)
  BY <1>1, <1>5
<1>6. Parts(in, b, 0, Len(b) = Size(in))
  BY <1>2, <1>3, <1>4, <1>5 DEF Parts
<1> QED BY <1>1, <1>2, <1>6

\* tail_lines answers from an aligned window that, unless it was forced and
\* cut off, ends with the object.
TailAnswer(in, b, base, eof, start) ==
    LET ls == ParseTail(b, base, eof, in.n)
    IN  IF BinaryPrefix(b) THEN Refused("encoding")
        ELSE IF in.force /\ ~eof THEN Refused("pending")
        ELSE IF ~Fails(ls) /\ Len(ls) < in.n /\ start # 0 THEN Refused("pending")
        ELSE Lines(ls)

TailParts(in, b, base, eof, start) ==
    /\ Parts(in, b, base, eof)
    /\ start = 0 => base = 0
    /\ ~eof => in.force
    /\ Size(in) <= in.pending => start = 0 /\ eof

TailAlignedAt(T, b, start, a) ==
    a = TailAlignment(start, IF start = 0 THEN "none" ELSE T[start], b)

\* The tail window is aligned at a line of the object.
LEMMA TailIsAligned ==
    ASSUME NEW T \in Seq(Bytes), NEW b, NEW start, IsWindow(T, b, start), Len(b) > 0,
           start = 0 \/ start + Len(b) = Len(T),
           NEW a, TailAlignedAt(T, b, start, a)
    PROVE  /\ a \in 1 .. Len(b) + 1
           /\ start = 0 => a = 1
           /\ Aligned(T, start + a - 1)
<1>1. Len(T) \in Nat /\ DOMAIN T = 1 .. Len(T)  BY WindowBytes
<1>2. /\ b \in Seq(Bytes) /\ start \in Nat /\ start + Len(b) <= Len(T)
      /\ \A j \in 1 .. Len(b) : b[j] = T[start + j]
  BY DEF IsWindow
<1>3. Len(b) \in Nat  BY <1>2, WindowBytes
<1> PICK n \in Nat : n = Len(T)  BY <1>1
<1> PICK m \in Nat : m = Len(b)  BY <1>3
<1>8. start \in Nat /\ start + m <= n /\ m > 0 /\ (start # 0 => start + m = n)
  BY <1>2
<1>4. CASE start = 0
  <2>1. a = 1  BY <1>4 DEF TailAlignment, TailAlignedAt
  <2>2. start + a - 1 = 0 /\ Len(T) > 0  BY <1>1, <1>2, <1>3, <1>4, <2>1
  <2>3. 0 \in LineStarts(T)  BY <1>1, <2>2 DEF LineStarts
  <2> QED BY <1>3, <2>1, <2>2, <2>3 DEF Aligned
<1>5. CASE start # 0 /\ StartsLine(T[start], b)
  <2>1. a = 1  BY <1>5 DEF TailAlignment, TailAlignedAt
  <2>2. start + a - 1 = start /\ start \in 1 .. Len(T) /\ start < Len(T)
    BY <1>5, <1>8, <2>1
  <2>3. b[1] = T[start + 1]  BY <1>2, <1>3
  <2>4. start \in LineEnds(T)
    BY <1>1, <1>5, <2>2, <2>3 DEF StartsLine, LineEnds, FollowedByLf
  <2>5. start \in LineStarts(T)
    <3>1. start \in 0 .. Len(T) - 1  BY <1>1, <1>8, <2>2
    <3> QED BY <2>4, <3>1 DEF LineStarts
  <2> QED BY <1>3, <1>5, <2>1, <2>2, <2>5 DEF Aligned
<1>6. CASE start # 0 /\ ~StartsLine(T[start], b) /\ NextBoundary(b, 1) = {}
  <2>1. a = Len(b) + 1  BY <1>6 DEF TailAlignment, TailAlignedAt
  <2>2. start + a - 1 = Len(T)  BY <1>6, <1>8, <2>1
  <2> QED BY <1>3, <1>6, <2>1, <2>2 DEF Aligned
<1>7. CASE start # 0 /\ ~StartsLine(T[start], b) /\ NextBoundary(b, 1) # {}
  <2>1. a = Min(NextBoundary(b, 1))  BY <1>7 DEF TailAlignment, TailAlignedAt
  <2>2. BoundaryFound(T, b, start, 1, a)  BY <1>7, <2>1, BoundaryIsFound
  <2>3. a \in 2 .. Len(b) + 1 /\ (a <= Len(b) => start + a - 1 \in LineEnds(T))
    BY <2>2 DEF BoundaryFound
  <2>4. CASE a = Len(b) + 1
    <3>1. start + a - 1 = Len(T)  BY <1>7, <1>8, <2>4
    <3> QED BY <1>3, <1>7, <2>4, <3>1 DEF Aligned
  <2>5. CASE a <= Len(b)
    <3>1. start + a - 1 \in LineEnds(T)  BY <2>3, <2>5
    <3>2. start + a - 1 \in 0 .. Len(T) - 1  BY <1>8, <2>3, <2>5
    <3>3. start + a - 1 \in LineStarts(T)  BY <3>1, <3>2 DEF LineStarts
    <3> QED BY <1>3, <1>7, <2>3, <3>3 DEF Aligned
  <2> QED BY <1>3, <2>3, <2>4, <2>5
<1> QED BY <1>4, <1>5, <1>6, <1>7

LEMMA TailIs ==
    ASSUME NEW in \in Inputs, Size(in) > 0
    PROVE  \E b, base, eof, start :
              /\ TailParts(in, b, base, eof, start)
              /\ TailLines(in) = TailAnswer(in, b, base, eof, start)
<1>1. /\ in.content \in Seq(Bytes) /\ Size(in) = Len(in.content) /\ Size(in) \in Nat
      /\ BodyLength(in) \in 0 .. Size(in)
      /\ BodyLength(in) \in Nat
      /\ BodyLength(in) > 0
      /\ Size(in) <= in.pending => BodyLength(in) = Size(in)
  BY InputShape, BodySize
<1> DEFINE start   == IF in.force THEN 0 ELSE Size(in) - BodyLength(in)
           body    == Window(in, start, BodyLength(in))
           eof     == start + Len(body) = Size(in)
           a       == TailAlignment(start, IF start = 0 THEN "none"
                                           ELSE in.content[start], body)
           b       == From(body, a)
           base    == start + a - 1
<1>2. TailLines(in) = TailAnswer(in, b, base, eof, start)
  BY DEF TailLines, TailAnswer
<1>3. /\ start \in Nat
      /\ start + BodyLength(in) <= Size(in)
      /\ ~in.force => start + BodyLength(in) = Size(in)
      /\ in.force => start = 0
      /\ BodyLength(in) = Size(in) => start = 0
  BY <1>1
<1> HIDE DEF start
<1>4. IsWindow(in.content, body, start) /\ Len(body) = BodyLength(in)
  BY <1>1, <1>3, WindowInside
<1> HIDE DEF body
<1>5. start = 0 \/ start + Len(body) = Len(in.content)  BY <1>1, <1>3, <1>4
<1>61. TailAlignedAt(in.content, body, start, a)
  BY DEF TailAlignedAt
<1>62. in.content \in Seq(Bytes) /\ Len(body) > 0  BY <1>1, <1>4
<1> HIDE DEF a, eof
<1>6. /\ a \in 1 .. Len(body) + 1
      /\ start = 0 => a = 1
      /\ Aligned(in.content, start + a - 1)
  BY <1>4, <1>5, <1>61, <1>62, TailIsAligned
<1>7. /\ IsWindow(in.content, b, base)
      /\ Len(b) = Len(body) + 1 - a
  BY <1>1, <1>4, <1>6, WindowFrom
<1> HIDE DEF b
<1>8. Len(body) \in Nat /\ a \in Nat  BY <1>1, <1>4, <1>6
<1>9. base + Len(b) = start + Len(body)  BY <1>3, <1>7, <1>8
<1>10. start = 0 => base = 0  BY <1>6
<1>11. ~eof => in.force  BY <1>3, <1>4 DEF eof
<1>12. Size(in) <= in.pending => start = 0 /\ eof  BY <1>1, <1>3, <1>4 DEF eof
<1>13. eof \in BOOLEAN /\ (eof => base + Len(b) = Size(in))  BY <1>9 DEF eof
<1>14. Aligned(in.content, base)  BY <1>6
<1> HIDE DEF base
<1>15. TailParts(in, b, base, eof, start)
  BY <1>7, <1>10, <1>11, <1>12, <1>13, <1>14 DEF TailParts, Parts
<1> QED BY <1>2, <1>15

\* The lines that start after the middle byte are those from base on, if there
\* are any.
AfterMiddle(T, middle, base) ==
    (\E s \in LineStarts(T) : s > middle)
        => \A s \in LineStarts(T) : s > middle <=> s >= base

MidAlignedAt(start, middle, b, eof, a) == a = MidAlignment(start, middle, b, eof)

\* Unless the mid window is cut off before it finds a boundary, it is aligned
\* at the first line that starts after the middle.
LEMMA MidIsAlignedAfterMiddle ==
    ASSUME NEW T \in Seq(Bytes), NEW b, NEW start, IsWindow(T, b, start),
           Len(T) > 0, NEW eof \in BOOLEAN, eof => start + Len(b) = Len(T),
           NEW middle \in Nat, start <= middle,
           NEW a, MidAlignedAt(start, middle, b, eof, a)
    PROVE  /\ a \in 1 .. Len(b) + 1
           /\ (a <= Len(b) \/ eof) => Aligned(T, start + a - 1)
           /\ (a <= Len(b) \/ eof) => AfterMiddle(T, middle, start + a - 1)
<1>1. Len(T) \in Nat /\ DOMAIN T = 1 .. Len(T)  BY WindowBytes
<1>2. b \in Seq(Bytes) /\ start \in Nat /\ start + Len(b) <= Len(T)
  BY DEF IsWindow
<1>3. Len(b) \in Nat  BY <1>2, WindowBytes
<1> PICK n \in Nat : n = Len(T)  BY <1>1
<1> PICK m \in Nat : m = Len(b)  BY <1>3
<1> PICK from : from = middle - start + 1  OBVIOUS
<1>4. /\ start \in Nat /\ start + m <= n /\ n > 0 /\ (eof => start + m = n)
      /\ from \in Nat \ {0} /\ start + from = middle + 1
  BY <1>2
<1>5. ASSUME NEW s \in LineStarts(T), s > middle
      PROVE  s \in LineEnds(T) /\ s >= start + from /\ s \in Nat /\ s < n
  <2>1. s \in 0 .. n - 1 /\ (s = 0 \/ s \in LineEnds(T))  BY DEF LineStarts
  <2> QED BY <1>4, <1>5, <2>1
<1>6. CASE NextBoundary(b, from) # {}
  <2>1. a = Min(NextBoundary(b, from))
    BY <1>6 DEF MidAlignedAt, MidAlignment
  <2>2. BoundaryFound(T, b, start, from, a)
    BY <1>4, <1>6, <2>1, BoundaryIsFound
  <2>3. /\ a \in from + 1 .. m + 1
        /\ a <= m => start + a - 1 \in LineEnds(T)
        /\ \A e \in LineEnds(T) : e >= start + from => e >= start + a - 1
    BY <2>2 DEF BoundaryFound
  <2>4. a \in 1 .. m + 1 /\ a \in Nat /\ start + a - 1 \in Nat /\ start + a - 1 > middle
    BY <1>4, <2>3
  <2>5. ASSUME a <= m \/ eof PROVE Aligned(T, start + a - 1)
    <3>1. CASE a <= m
      <4>1. start + a - 1 \in 0 .. n - 1  BY <1>4, <2>4, <3>1
      <4>2. start + a - 1 \in LineEnds(T)  BY <2>3, <3>1
      <4> QED BY <4>1, <4>2 DEF Aligned, LineStarts
    <3>2. CASE a = m + 1 /\ eof
      <4>1. start + a - 1 = n  BY <1>4, <3>2
      <4> QED BY <4>1 DEF Aligned
    <3> QED BY <2>4, <2>5, <3>1, <3>2
  <2>6. ASSUME NEW s \in LineStarts(T) PROVE s > middle <=> s >= start + a - 1
    <3>1. s \in Nat  BY <1>1 DEF LineStarts
    <3>2. s > middle => s >= start + a - 1  BY <1>5, <2>3
    <3>3. s >= start + a - 1 => s > middle  BY <2>4, <3>1
    <3> QED BY <3>2, <3>3
  <2> QED BY <2>4, <2>5, <2>6 DEF AfterMiddle
<1>7. CASE NextBoundary(b, from) = {}
  <2>1. \A e \in LineEnds(T) : e >= start + from => e > start + m
    BY <1>4, <1>7, NoBoundary
  <2>2. ASSUME eof, NEW s \in LineStarts(T), s > middle PROVE FALSE
    <3>1. s > start + m /\ s \in Nat /\ s < n  BY <1>5, <2>1, <2>2
    <3> QED BY <1>4, <2>2, <3>1
  <2>3. eof => AfterMiddle(T, middle, start + a - 1)  BY <2>2 DEF AfterMiddle
  <2>4. CASE eof /\ start = 0
    <3>1. a = 1  BY <1>7, <2>4 DEF MidAlignedAt, MidAlignment
    <3>2. start + a - 1 = 0 /\ a \in 1 .. m + 1  BY <2>4, <3>1
    <3>3. 0 \in 0 .. n - 1  BY <1>4
    <3>4. Aligned(T, start + a - 1)  BY <3>2, <3>3 DEF Aligned, LineStarts
    <3> QED BY <2>3, <2>4, <3>2, <3>4
  <2>5. CASE ~(eof /\ start = 0)
    <3>1. a = m + 1  BY <1>7, <2>5 DEF MidAlignedAt, MidAlignment
    <3>2. a \in 1 .. m + 1 /\ ~(a <= m)  BY <3>1
    <3>3. eof => start + a - 1 = n  BY <1>4, <3>1
    <3>4. eof => Aligned(T, start + a - 1)  BY <3>3 DEF Aligned
    <3> QED BY <2>3, <3>2, <3>4
  <2> QED BY <2>4, <2>5
<1> QED BY <1>6, <1>7

MidAnswer(in, b, base, eof) ==
    LET ls == ParseUpTo(b, base, eof, in.n)
    IN  IF in.force /\ ~eof THEN Refused("pending")
        ELSE IF BinaryPrefix(b) THEN Refused("encoding")
        ELSE IF ~Fails(ls) /\ Len(ls) < in.n /\ ~eof THEN Refused("pending")
        ELSE Lines(ls)

MidParts(in, b, base, eof) ==
    /\ Parts(in, b, base, eof)
    /\ Size(in) <= in.pending => eof
    /\ Len(b) > 0 \/ eof => AfterMiddle(in.content, Size(in) \div 2, base)

LEMMA Halves ==
    ASSUME NEW s \in Nat, NEW l \in 0 .. s
    PROVE  /\ s \div 2 \in Nat
           /\ s \div 2 <= s
           /\ l \div 2 \in Nat
           /\ l = s => l \div 2 = s \div 2
OBVIOUS

MidWindow(s, l, force, middle, half, start, length) ==
    /\ start = IF force \/ middle < half THEN 0 ELSE middle - half
    /\ length = IF force THEN l ELSE Least(l, s - start)

InsideObject(s, l, middle, half, start, length) ==
    /\ start \in Nat /\ length \in Nat
    /\ start <= middle
    /\ start + length <= s
    /\ l = s /\ half = middle => start = 0 /\ length = s

\* The mid window stays inside the object and starts no later than its middle.
LEMMA MidWindowInside ==
    ASSUME NEW s \in Nat, NEW l \in 0 .. s, NEW force \in BOOLEAN,
           NEW middle \in Nat, middle <= s, NEW half \in Nat,
           NEW start, NEW length, MidWindow(s, l, force, middle, half, start, length)
    PROVE  InsideObject(s, l, middle, half, start, length)
<1>1. start \in Nat /\ start <= middle /\ (force => start = 0)  BY DEF MidWindow
<1>2. s - start \in Nat  BY <1>1
<1>3. length \in Nat /\ start + length <= s  BY <1>1, <1>2 DEF MidWindow, Least
<1>4. ASSUME l = s, half = middle PROVE start = 0 /\ length = s
  <2>1. start = 0  BY <1>4 DEF MidWindow
  <2> QED BY <1>4, <2>1 DEF MidWindow, Least
<1> QED BY <1>1, <1>3, <1>4 DEF InsideObject

LEMMA MidIs ==
    ASSUME NEW in \in Inputs, Size(in) > 0
    PROVE  \E b, base, eof :
              /\ MidParts(in, b, base, eof)
              /\ MidLines(in) = MidAnswer(in, b, base, eof)
<1>1. /\ in.content \in Seq(Bytes) /\ Size(in) = Len(in.content) /\ Size(in) \in Nat
      /\ in.force \in BOOLEAN
      /\ BodyLength(in) \in 0 .. Size(in)
      /\ BodyLength(in) \in Nat
      /\ Size(in) <= in.pending => BodyLength(in) = Size(in)
  BY InputShape, BodySize
<1> DEFINE middle == Size(in) \div 2
           half   == BodyLength(in) \div 2
           start  == IF in.force \/ middle < half THEN 0 ELSE middle - half
           length == IF in.force THEN BodyLength(in)
                     ELSE Least(BodyLength(in), Size(in) - start)
           body   == Window(in, start, length)
           eof    == start + Len(body) = Size(in)
           a      == MidAlignment(start, middle, body, eof)
           b      == From(body, a)
           base   == start + a - 1
<1>2. MidLines(in) = MidAnswer(in, b, base, eof)
  BY DEF MidLines, MidAnswer
<1>3. /\ middle \in Nat /\ half \in Nat
      /\ middle <= Size(in)
      /\ BodyLength(in) = Size(in) => half = middle
  BY <1>1, Halves
<1>4. start = IF in.force \/ middle < half THEN 0 ELSE middle - half
  OBVIOUS
<1>5. length = IF in.force THEN BodyLength(in) ELSE Least(BodyLength(in), Size(in) - start)
  OBVIOUS
<1> HIDE DEF middle, half, start, length
<1>6. /\ start \in Nat /\ length \in Nat
      /\ start <= middle
      /\ start + length <= Size(in)
      /\ BodyLength(in) = Size(in) /\ half = middle => start = 0 /\ length = Size(in)
  <2>1. MidWindow(Size(in), BodyLength(in), in.force, middle, half, start, length)
    BY <1>4, <1>5 DEF MidWindow
  <2>2. InsideObject(Size(in), BodyLength(in), middle, half, start, length)
    BY <1>1, <1>3, <2>1, MidWindowInside
  <2> QED BY <2>2 DEF InsideObject
<1>7. IsWindow(in.content, body, start) /\ Len(body) = length
  BY <1>6, WindowInside
<1>8. eof \in BOOLEAN /\ (eof => start + Len(body) = Len(in.content))
  BY <1>1
<1>9. Size(in) <= in.pending => eof
  <2>1. ASSUME Size(in) <= in.pending PROVE start = 0 /\ length = Size(in)
    BY <1>1, <1>3, <1>6, <2>1
  <2> QED BY <1>1, <1>7, <2>1
<1> HIDE DEF body, eof
<1>10. MidAlignedAt(start, middle, body, eof, a)  BY DEF MidAlignedAt
<1> HIDE DEF a
<1>11. Len(in.content) > 0  BY <1>1
<1>12. /\ a \in 1 .. Len(body) + 1
       /\ (a <= Len(body) \/ eof) => Aligned(in.content, start + a - 1)
       /\ (a <= Len(body) \/ eof) => AfterMiddle(in.content, middle, start + a - 1)
  BY <1>1, <1>3, <1>6, <1>7, <1>8, <1>10, <1>11, MidIsAlignedAfterMiddle
<1>13. /\ IsWindow(in.content, b, base)
       /\ Len(b) = Len(body) + 1 - a
  BY <1>1, <1>7, <1>12, WindowFrom
<1> HIDE DEF b
<1>14. Len(body) \in Nat /\ a \in Nat  BY <1>6, <1>7, <1>12
<1>15. base + Len(b) = start + Len(body)  BY <1>6, <1>13, <1>14
<1>16. Len(b) > 0 => a <= Len(body)  BY <1>13, <1>14
<1>17. eof => base + Len(b) = Size(in)  BY <1>1, <1>8, <1>15
<1>18. (Len(b) > 0 \/ eof) => Aligned(in.content, base)  BY <1>12, <1>16
<1>19. (Len(b) > 0 \/ eof) => AfterMiddle(in.content, Size(in) \div 2, base)
  BY <1>12, <1>16 DEF middle
<1> HIDE DEF base
<1>20. MidParts(in, b, base, eof)
  BY <1>8, <1>9, <1>13, <1>17, <1>18, <1>19 DEF MidParts, Parts
<1> QED BY <1>2, <1>20

-----------------------------------------------------------------------------
(* The last lines of a parse. *)

\* t holds the last of the lines ls.
IsEnd(ls, t, max) ==
    /\ t \in Seq(LineRecords)
    /\ Len(t) = Least(max, Len(ls))
    /\ \A i \in 1 .. Len(t) : t[i] = ls[Len(ls) - Len(t) + i]

LEMMA FirstKept ==
    ASSUME NEW n \in Nat, NEW max \in Nat \ {0}
    PROVE  \E p \in Nat :
              /\ p = IF n > max THEN n - max + 1 ELSE 1
              /\ p >= 1 /\ p <= n + 1
              /\ n - p + 1 = Least(max, n) /\ n - p + 1 \in Nat
<1>1. CASE n > max
  <2>1. n - max + 1 \in Nat /\ n - (n - max + 1) + 1 = Least(max, n)  BY <1>1 DEF Least
  <2> QED BY <1>1, <2>1
<1>2. CASE ~(n > max)
  <2>1. n - 1 + 1 = Least(max, n) /\ n - 1 + 1 \in Nat  BY <1>2 DEF Least
  <2> QED BY <1>2, <2>1
<1> QED BY <1>1, <1>2

\* LastLines keeps the last lines.
LEMMA LastLinesAre ==
    ASSUME NEW ls \in Seq(LineRecords), NEW max \in Nat \ {0}
    PROVE  IsEnd(ls, LastLines(ls, max), max)
<1> PICK n \in Nat : n = Len(ls)  OBVIOUS
<1>2. PICK p \in Nat :
         /\ p = IF n > max THEN n - max + 1 ELSE 1
         /\ p >= 1 /\ p <= n + 1
         /\ n - p + 1 = Least(max, n) /\ n - p + 1 \in Nat
  BY FirstKept
<1>21. p >= 1 /\ p <= n + 1 /\ n - p + 1 \in Nat /\ n - p + 1 = Least(max, n)
  BY <1>2
<1>0. PICK t : t = SubSeq(ls, p, n)  OBVIOUS
<1>1. LastLines(ls, max) = t  BY <1>0, <1>2 DEF LastLines
<1>3. \A i \in p .. n : ls[i] \in LineRecords
  <2> TAKE i \in p .. n
  <2>1. i \in 1 .. n  BY <1>21
  <2> QED BY <2>1, ElementOfSeq
<1>4. /\ SubSeq(ls, p, n) \in Seq(LineRecords)
      /\ Len(SubSeq(ls, p, n)) = n - p + 1
      /\ \A i \in 1 .. n - p + 1 : SubSeq(ls, p, n)[i] = ls[p + i - 1]
  BY <1>21, <1>3, SubSeqProperties
<1>6. /\ t \in Seq(LineRecords)
      /\ Len(t) = n - p + 1
      /\ \A i \in 1 .. n - p + 1 : t[i] = ls[p + i - 1]
  BY <1>0, <1>4
<1>5. ASSUME NEW i \in 1 .. Len(t) PROVE t[i] = ls[n - Len(t) + i]
  <2>1. p + i - 1 = n - Len(t) + i  BY <1>21, <1>6
  <2>2. i \in 1 .. n - p + 1  BY <1>6
  <2> QED BY <1>6, <2>1, <2>2
<1>7. Len(t) = Least(max, n)  BY <1>21, <1>6
<1> QED BY <1>1, <1>5, <1>6, <1>7 DEF IsEnd

LEMMA EndOfLines ==
    ASSUME NEW ls \in Seq(LineRecords), NEW max \in Nat, NEW t, IsEnd(ls, t, max)
    PROVE  /\ \A i \in DOMAIN t : \E j \in DOMAIN ls : t[i] = ls[j]
           /\ Len(t) \in Nat
<1> PICK n \in Nat : n = Len(ls)  OBVIOUS
<1>1. Len(t) = Least(max, n) /\ t \in Seq(LineRecords)  BY DEF IsEnd
<1>2. Len(t) \in Nat /\ Len(t) <= n  BY <1>1 DEF Least
<1>3. ASSUME NEW i \in DOMAIN t PROVE \E j \in DOMAIN ls : t[i] = ls[j]
  <2>1. i \in 1 .. Len(t)  BY <1>1
  <2>2. n - Len(t) + i \in 1 .. n  BY <1>2, <2>1
  <2>3. n - Len(t) + i \in DOMAIN ls  BY <2>2
  <2>4. t[i] = ls[n - Len(t) + i]  BY <2>1 DEF IsEnd
  <2> QED BY <2>3, <2>4
<1> QED BY <1>2, <1>3

\* ParseTail keeps the last lines of a parse of the whole window, or its
\* failure.
LEMMA TailOfParse ==
    ASSUME NEW b \in Seq(Bytes), NEW base \in Nat, NEW eof \in BOOLEAN,
           NEW max \in Nat \ {0}
    PROVE  \E ls :
              /\ ls = ParseUpTo(b, base, eof, Len(b) + 1)
              /\ ParsedShape(b, base, eof, Len(b) + 1, ls)
              /\ Fails(ls) => ParseTail(b, base, eof, max) = ls
              /\ ~Fails(ls) => /\ IsEnd(ls, ParseTail(b, base, eof, max), max)
                               /\ ~Fails(ParseTail(b, base, eof, max))
<1>1. Len(b) + 1 \in Nat  BY WindowBytes
<1> PICK ls : ls = ParseUpTo(b, base, eof, Len(b) + 1)  OBVIOUS
<1>2. ParsedShape(b, base, eof, Len(b) + 1, ls)  BY <1>1, ParseShape
<1>3. ls \in Seq(LineRecords)  BY <1>2 DEF ParsedShape
<1>4. Fails(ls) => ParseTail(b, base, eof, max) = ls  BY DEF ParseTail
<1>5. ASSUME ~Fails(ls)
      PROVE  /\ IsEnd(ls, ParseTail(b, base, eof, max), max)
             /\ ~Fails(ParseTail(b, base, eof, max))
  <2>1. ParseTail(b, base, eof, max) = LastLines(ls, max)  BY <1>5 DEF ParseTail
  <2>2. IsEnd(ls, LastLines(ls, max), max)  BY <1>3, LastLinesAre
  <2>3. \A i \in DOMAIN LastLines(ls, max) : \E j \in DOMAIN ls : LastLines(ls, max)[i] = ls[j]
    BY <1>3, <2>2, EndOfLines
  <2>4. ~Fails(LastLines(ls, max))  BY <1>5, <2>3 DEF Fails
  <2> QED BY <2>1, <2>2, <2>4
<1> QED BY <1>2, <1>4, <1>5

-----------------------------------------------------------------------------
(* Returned lines are text. *)

LEMMA RefusedLines ==
    ASSUME NEW why
    PROVE  /\ Refused(why).lines = <<>>
           /\ Refused(why).kind = why
           /\ \A T : AllText(T, Refused(why).lines)
<1>1. DOMAIN <<>> = {}  OBVIOUS
<1> QED BY <1>1 DEF Refused, AllText

LEMMA AnsweredLines ==
    ASSUME NEW ls
    PROVE  /\ Fails(ls) => Lines(ls) = Refused("encoding")
           /\ ~Fails(ls) => Lines(ls).kind = "ok" /\ Lines(ls).lines = ls
BY DEF Lines

\* Answers made of parsed lines are text.
LEMMA ParsedAnswerIsText ==
    ASSUME NEW T \in Seq(Bytes), NEW b, NEW base, IsWindow(T, b, base),
           ~BinaryPrefix(b), NEW eof \in BOOLEAN, NEW max \in Nat
    PROVE  AllText(T, Lines(ParseUpTo(b, base, eof, max)).lines)
<1>1. b \in Seq(Bytes) /\ base \in Nat  BY DEF IsWindow
<1> PICK ls : ls = ParseUpTo(b, base, eof, max)  OBVIOUS
<1>2. ParsedShape(b, base, eof, max, ls)  BY <1>1, ParseShape
<1>3. CASE Fails(ls)  BY <1>3, AnsweredLines, RefusedLines
<1>4. CASE ~Fails(ls)
  <2>1. AllText(T, ls)  BY <1>2, <1>4, ParsedIsText
  <2> QED BY <1>4, <2>1, AnsweredLines
<1> QED BY <1>3, <1>4

LEMMA TailAnswerIsText ==
    ASSUME NEW T \in Seq(Bytes), NEW b, NEW base, IsWindow(T, b, base),
           ~BinaryPrefix(b), NEW eof \in BOOLEAN, NEW max \in Nat \ {0}
    PROVE  AllText(T, Lines(ParseTail(b, base, eof, max)).lines)
<1>1. b \in Seq(Bytes) /\ base \in Nat  BY DEF IsWindow
<1>2. PICK ls :
         /\ ls = ParseUpTo(b, base, eof, Len(b) + 1)
         /\ ParsedShape(b, base, eof, Len(b) + 1, ls)
         /\ Fails(ls) => ParseTail(b, base, eof, max) = ls
         /\ ~Fails(ls) => /\ IsEnd(ls, ParseTail(b, base, eof, max), max)
                          /\ ~Fails(ParseTail(b, base, eof, max))
  BY <1>1, TailOfParse
<1> PICK t : t = ParseTail(b, base, eof, max)  OBVIOUS
<1>3. CASE Fails(ls)
  <2>1. Fails(t)  BY <1>2, <1>3
  <2> QED BY <2>1, AnsweredLines, RefusedLines
<1>4. CASE ~Fails(ls)
  <2>1. Len(b) + 1 \in Nat  BY <1>1, WindowBytes
  <2>2. AllText(T, ls)  BY <1>2, <1>4, <2>1, ParsedIsText
  <2>3. ls \in Seq(LineRecords)  BY <1>2 DEF ParsedShape
  <2>4. IsEnd(ls, t, max) /\ ~Fails(t)  BY <1>2, <1>4
  <2>5. \A i \in DOMAIN t : \E j \in DOMAIN ls : t[i] = ls[j]
    BY <2>3, <2>4, EndOfLines
  <2>6. AllText(T, t)  BY <2>2, <2>5 DEF AllText
  <2> QED BY <2>4, <2>6, AnsweredLines
<1> QED BY <1>3, <1>4

LEMMA HeadIsText ==
    ASSUME NEW in \in Inputs, Size(in) > 0, ~BinaryPrefix(ProbeWindow(in))
    PROVE  AllText(in.content, HeadLines(in).lines)
<1>1. in.content \in Seq(Bytes) /\ in.n \in Nat  BY InputShape
<1> DEFINE probe == ProbeWindow(in)
           eof   == Len(probe) = Size(in)
           body  == Window(in, 0, BodyLength(in))
           whole == Len(body) = Size(in)
<1>2. IsWindow(in.content, probe, 0) /\ eof \in BOOLEAN  BY ProbeParts DEF Parts
<1>3. IsWindow(in.content, body, 0) /\ whole \in BOOLEAN  BY BodyParts DEF Parts
<1>4. /\ HeadLines(in) = Lines(ParseUpTo(probe, 0, eof, in.n))
         \/ HeadLines(in) = HeadBody(in)
  BY DEF HeadLines
<1>5. AllText(in.content, Lines(ParseUpTo(probe, 0, eof, in.n)).lines)
  BY <1>1, <1>2, ParsedAnswerIsText
<1>6. AllText(in.content, HeadBody(in).lines)
  <2>1. CASE BinaryPrefix(body)
    <3>1. HeadBody(in) = Refused("encoding")  BY <2>1 DEF HeadBody
    <3> QED BY <3>1, RefusedLines
  <2>2. CASE ~BinaryPrefix(body)
    <3>1. HeadBody(in) \in {Refused("pending"), Lines(ParseUpTo(body, 0, whole, in.n))}
      BY <2>2 DEF HeadBody
    <3>2. AllText(in.content, Lines(ParseUpTo(body, 0, whole, in.n)).lines)
      BY <1>1, <1>3, <2>2, ParsedAnswerIsText
    <3> QED BY <3>1, <3>2, RefusedLines
  <2> QED BY <2>1, <2>2
<1> QED BY <1>4, <1>5, <1>6

\* What BinaryIsWithheld says of one call.
LEMMA ResultIsText ==
    ASSUME NEW in \in Inputs
    PROVE  AllText(in.content, Result(in).lines)
<1>1. /\ in.content \in Seq(Bytes) /\ in.n \in Nat \ {0} /\ in.op \in Ops
      /\ Size(in) \in Nat
  BY InputShape
<1>2. CASE Size(in) = 0
  <2>1. Result(in) = Lines(<<>>)  BY <1>2 DEF Result
  <2>2. DOMAIN <<>> = {}  OBVIOUS
  <2>3. ~Fails(<<>>)  BY <2>2 DEF Fails
  <2>4. Result(in).lines = <<>>  BY <2>1, <2>3, AnsweredLines
  <2> QED BY <2>2, <2>4 DEF AllText
<1>3. CASE /\ Size(in) # 0
           /\ in.op = "count_lines" /\ Size(in) > in.pending
  <2>1. Result(in) = Refused("pending")  BY <1>3 DEF Result
  <2> QED BY <2>1, RefusedLines
<1>4. CASE /\ Size(in) # 0
           /\ ~(in.op = "count_lines" /\ Size(in) > in.pending)
           /\ BinaryPrefix(ProbeWindow(in))
  <2>1. Result(in) = Refused("encoding")  BY <1>4 DEF Result
  <2> QED BY <2>1, RefusedLines
<1>5. CASE /\ Size(in) # 0
           /\ ~(in.op = "count_lines" /\ Size(in) > in.pending)
           /\ ~BinaryPrefix(ProbeWindow(in))
  <2>1. Size(in) > 0  BY <1>1, <1>5
  <2>2. CASE in.op = "head_lines"
    <3>1. Result(in) = HeadLines(in)  BY <1>5, <2>2 DEF Result
    <3> QED BY <1>5, <2>1, <3>1, HeadIsText
  <2>3. CASE in.op = "tail_lines"
    <3>1. Result(in) = TailLines(in)  BY <1>5, <2>3 DEF Result
    <3>2. PICK b, base, eof, start :
             /\ TailParts(in, b, base, eof, start)
             /\ TailLines(in) = TailAnswer(in, b, base, eof, start)
      BY <2>1, TailIs
    <3>3. IsWindow(in.content, b, base) /\ eof \in BOOLEAN
      BY <3>2 DEF TailParts, Parts
    <3>4. CASE BinaryPrefix(b)
      <4>1. Result(in) = Refused("encoding")  BY <3>1, <3>2, <3>4 DEF TailAnswer
      <4> QED BY <4>1, RefusedLines
    <3>5. CASE ~BinaryPrefix(b)
      <4>1. Result(in) \in {Refused("pending"), Lines(ParseTail(b, base, eof, in.n))}
        BY <3>1, <3>2, <3>5 DEF TailAnswer
      <4>2. AllText(in.content, Lines(ParseTail(b, base, eof, in.n)).lines)
        BY <1>1, <3>3, <3>5, TailAnswerIsText
      <4> QED BY <4>1, <4>2, RefusedLines
    <3> QED BY <3>4, <3>5
  <2>4. CASE in.op = "mid_lines"
    <3>1. Result(in) = MidLines(in)  BY <1>5, <2>4 DEF Result
    <3>2. PICK b, base, eof :
             /\ MidParts(in, b, base, eof)
             /\ MidLines(in) = MidAnswer(in, b, base, eof)
      BY <2>1, MidIs
    <3>3. IsWindow(in.content, b, base) /\ eof \in BOOLEAN
      BY <3>2 DEF MidParts, Parts
    <3>4. CASE BinaryPrefix(b)
      <4>1. Result(in) \in {Refused("pending"), Refused("encoding")}
        BY <3>1, <3>2, <3>4 DEF MidAnswer
      <4> QED BY <4>1, RefusedLines
    <3>5. CASE ~BinaryPrefix(b)
      <4>1. Result(in) \in {Refused("pending"), Lines(ParseUpTo(b, base, eof, in.n))}
        BY <3>1, <3>2, <3>5 DEF MidAnswer
      <4>2. AllText(in.content, Lines(ParseUpTo(b, base, eof, in.n)).lines)
        BY <1>1, <3>3, <3>5, ParsedAnswerIsText
      <4> QED BY <4>1, <4>2, RefusedLines
    <3> QED BY <3>4, <3>5
  <2>5. CASE in.op = "count_lines"
    <3>1. Result(in) = CountLines(in)  BY <1>5, <2>5 DEF Result
    <3>2. Result(in).lines = <<>>  BY <3>1 DEF CountLines, Refused
    <3>3. DOMAIN <<>> = {}  OBVIOUS
    <3> QED BY <3>2, <3>3 DEF AllText
  <2> QED BY <1>1, <2>2, <2>3, <2>4, <2>5 DEF Ops
<1> QED BY <1>2, <1>3, <1>4, <1>5

-----------------------------------------------------------------------------
(* Text is answered. *)

LEMMA PartsOfText ==
    ASSUME NEW in \in Inputs, IsText(in.content),
           NEW b, NEW base, NEW eof, Parts(in, b, base, eof)
    PROVE  /\ ~BinaryPrefix(b)
           /\ \A max \in Nat : ~Fails(ParseUpTo(b, base, eof, max))
           /\ \A max \in Nat \ {0} : ~Fails(ParseTail(b, base, eof, max))
<1>1. in.content \in Seq(Bytes) /\ Size(in) = Len(in.content)  BY InputShape
<1>2. /\ IsWindow(in.content, b, base)
      /\ eof \in BOOLEAN
      /\ eof => base + Len(b) = Size(in)
      /\ Len(b) > 0 \/ eof => Aligned(in.content, base)
  BY DEF Parts
<1>3. b \in Seq(Bytes) /\ base \in Nat  BY <1>2 DEF IsWindow
<1>4. Len(b) \in Nat  BY <1>3, WindowBytes
<1>5. Aligned(in.content, base) \/ Len(b) = 0  BY <1>2, <1>4
<1>6. /\ ~BinaryPrefix(b)
      /\ ~Malformed(b)
      /\ eof => ValidText(b)
  BY <1>1, <1>2, <1>5, TextWindow
<1>7. ASSUME NEW max \in Nat PROVE ~Fails(ParseUpTo(b, base, eof, max))
  BY <1>2, <1>3, <1>6, ParseShape DEF ParsedShape
<1>8. ASSUME NEW max \in Nat \ {0} PROVE ~Fails(ParseTail(b, base, eof, max))
  <2>1. ~Fails(ParseUpTo(b, base, eof, Len(b) + 1))  BY <1>4, <1>7
  <2> QED BY <1>2, <1>3, <2>1, TailOfParse
<1> QED BY <1>6, <1>7, <1>8

LEMMA LinesKind ==
    ASSUME NEW ls, ~Fails(ls)
    PROVE  Lines(ls).kind = "ok"
BY AnsweredLines

LEMMA TextHead ==
    ASSUME NEW in \in Inputs, Size(in) > 0, IsText(in.content)
    PROVE  /\ HeadLines(in).kind \in {"ok", "pending"}
           /\ Size(in) <= in.pending => HeadLines(in).kind = "ok"
<1>1. in.n \in Nat  BY InputShape
<1> DEFINE probe == ProbeWindow(in)
           eof   == Len(probe) = Size(in)
           body  == Window(in, 0, BodyLength(in))
           whole == Len(body) = Size(in)
<1>2. ~Fails(ParseUpTo(probe, 0, eof, in.n))
  BY <1>1, ProbeParts, PartsOfText
<1>3. ~BinaryPrefix(body) /\ ~Fails(ParseUpTo(body, 0, whole, in.n))
  BY <1>1, BodyParts, PartsOfText
<1>4. Size(in) <= in.pending => whole  BY BodyParts
<1>5. HeadLines(in) \in {Lines(ParseUpTo(probe, 0, eof, in.n)), HeadBody(in)}
  BY DEF HeadLines
<1>6. /\ HeadBody(in) \in {Refused("pending"), Lines(ParseUpTo(body, 0, whole, in.n))}
      /\ whole => HeadBody(in) = Lines(ParseUpTo(body, 0, whole, in.n))
  BY <1>3 DEF HeadBody
<1> QED BY <1>2, <1>3, <1>4, <1>5, <1>6, LinesKind, RefusedLines

LEMMA TextTail ==
    ASSUME NEW in \in Inputs, Size(in) > 0, IsText(in.content)
    PROVE  /\ TailLines(in).kind \in {"ok", "pending"}
           /\ Size(in) <= in.pending => TailLines(in).kind = "ok"
<1>1. in.n \in Nat \ {0}  BY InputShape
<1>2. PICK b, base, eof, start :
         /\ TailParts(in, b, base, eof, start)
         /\ TailLines(in) = TailAnswer(in, b, base, eof, start)
  BY TailIs
<1>3. ~BinaryPrefix(b) /\ ~Fails(ParseTail(b, base, eof, in.n))
  BY <1>1, <1>2, PartsOfText DEF TailParts
<1>4. Size(in) <= in.pending => start = 0 /\ eof  BY <1>2 DEF TailParts
<1>5. /\ TailLines(in) \in {Refused("pending"), Lines(ParseTail(b, base, eof, in.n))}
      /\ start = 0 /\ eof => TailLines(in) = Lines(ParseTail(b, base, eof, in.n))
  BY <1>2, <1>3 DEF TailAnswer
<1> QED BY <1>3, <1>4, <1>5, LinesKind, RefusedLines

LEMMA TextMid ==
    ASSUME NEW in \in Inputs, Size(in) > 0, IsText(in.content)
    PROVE  /\ MidLines(in).kind \in {"ok", "pending"}
           /\ Size(in) <= in.pending => MidLines(in).kind = "ok"
<1>1. in.n \in Nat  BY InputShape
<1>2. PICK b, base, eof :
         /\ MidParts(in, b, base, eof)
         /\ MidLines(in) = MidAnswer(in, b, base, eof)
  BY MidIs
<1>3. ~BinaryPrefix(b) /\ ~Fails(ParseUpTo(b, base, eof, in.n))
  BY <1>1, <1>2, PartsOfText DEF MidParts
<1>4. Size(in) <= in.pending => eof  BY <1>2 DEF MidParts
<1>5. /\ MidLines(in) \in {Refused("pending"), Lines(ParseUpTo(b, base, eof, in.n))}
      /\ eof => MidLines(in) = Lines(ParseUpTo(b, base, eof, in.n))
  BY <1>2, <1>3 DEF MidAnswer
<1> QED BY <1>3, <1>4, <1>5, LinesKind, RefusedLines

\* count_lines parses the whole object.
LEMMA WholeParts ==
    ASSUME NEW in \in Inputs, Size(in) > 0
    PROVE  Parts(in, in.content, 0, TRUE)
<1>1. /\ in.content \in Seq(Bytes) /\ Size(in) = Len(in.content) /\ Size(in) \in Nat
  BY InputShape
<1>2. IsWindow(in.content, in.content, 0)  BY <1>1 DEF IsWindow
<1>3. Aligned(in.content, 0)  BY <1>1 DEF Aligned, LineStarts
<1>4. 0 + Len(in.content) = Size(in)  BY <1>1
<1> QED BY <1>2, <1>3, <1>4 DEF Parts

\* What TextIsAnswered says of one call.
LEMMA ResultOfText ==
    ASSUME NEW in \in Inputs, IsText(in.content)
    PROVE  /\ Result(in).kind \in {"ok", "pending"}
           /\ Size(in) <= in.pending => Result(in).kind = "ok"
<1>1. /\ in.op \in Ops /\ Size(in) \in Nat /\ in.pending \in Nat  BY InputShape
<1>2. CASE Size(in) = 0
  <2>1. Result(in) = Lines(<<>>)  BY <1>2 DEF Result
  <2>2. DOMAIN <<>> = {}  OBVIOUS
  <2>3. ~Fails(<<>>)  BY <2>2 DEF Fails
  <2> QED BY <2>1, <2>3, LinesKind
<1>3. CASE Size(in) # 0 /\ in.op = "count_lines" /\ Size(in) > in.pending
  <2>1. Result(in) = Refused("pending")  BY <1>3 DEF Result
  <2>2. ~(Size(in) <= in.pending)  BY <1>1, <1>3
  <2> QED BY <2>1, <2>2, RefusedLines
<1>4. CASE Size(in) # 0 /\ ~(in.op = "count_lines" /\ Size(in) > in.pending)
  <2>1. Size(in) > 0  BY <1>1, <1>4
  <2>2. ~BinaryPrefix(ProbeWindow(in))  BY <2>1, ProbeParts, PartsOfText
  <2>3. CASE in.op = "head_lines"
    <3>1. Result(in) = HeadLines(in)  BY <1>4, <2>2, <2>3 DEF Result
    <3> QED BY <2>1, <3>1, TextHead
  <2>4. CASE in.op = "tail_lines"
    <3>1. Result(in) = TailLines(in)  BY <1>4, <2>2, <2>4 DEF Result
    <3> QED BY <2>1, <3>1, TextTail
  <2>5. CASE in.op = "mid_lines"
    <3>1. Result(in) = MidLines(in)  BY <1>4, <2>2, <2>5 DEF Result
    <3> QED BY <2>1, <3>1, TextMid
  <2>6. CASE in.op = "count_lines"
    <3>1. Result(in) = CountLines(in)  BY <1>4, <2>2, <2>6 DEF Result
    <3>2. Size(in) + 1 \in Nat  BY <1>1
    <3>3. /\ ~BinaryPrefix(in.content)
          /\ ~Fails(ParseUpTo(in.content, 0, TRUE, Size(in) + 1))
      BY <2>1, <3>2, WholeParts, PartsOfText
    <3>4. CountLines(in).kind = "ok"  BY <3>3 DEF CountLines
    <3> QED BY <3>1, <3>4
  <2> QED BY <1>1, <2>3, <2>4, <2>5, <2>6 DEF Ops
<1> QED BY <1>2, <1>3, <1>4

-----------------------------------------------------------------------------
(* The members of a finite set of naturals in their order. *)

Rank(S, s) == Cardinality({t \in S : t <= s})
Nth(S, i)  == CHOOSE s \in S : Rank(S, s) = i

LEMMA RankIsCount ==
    ASSUME NEW S \in SUBSET Nat, IsFiniteSet(S), NEW s \in S
    PROVE  /\ Cardinality(S) \in Nat
           /\ IsFiniteSet({t \in S : t <= s})
           /\ Rank(S, s) \in Nat
           /\ Rank(S, s) \in 1 .. Cardinality(S)
<1>3. Cardinality(S) \in Nat  BY FS_CardinalityType
<1>4. {t \in S : t <= s} \in SUBSET S  OBVIOUS
<1>5. IsFiniteSet({t \in S : t <= s}) /\ Rank(S, s) <= Cardinality(S)
  BY <1>4, FS_Subset DEF Rank
<1>6. Rank(S, s) \in Nat  BY <1>5, FS_CardinalityType DEF Rank
<1>7. s \in {t \in S : t <= s}
  <2>1. s \in Nat  OBVIOUS
  <2> QED BY <2>1
<1>8. Rank(S, s) # 0  BY <1>5, <1>7, FS_EmptySet DEF Rank
<1> QED BY <1>3, <1>5, <1>6, <1>8

\* Ranks grow with the members, by one to the next.
LEMMA RankGrows ==
    ASSUME NEW S \in SUBSET Nat, IsFiniteSet(S), NEW s \in S, NEW u \in S, s < u
    PROVE  /\ Rank(S, s) < Rank(S, u)
           /\ (\A t \in S : t > s => t >= u) => Rank(S, u) = Rank(S, s) + 1
<1> DEFINE A == {t \in S : t <= s}
           B == {t \in S : t <= u}
<1>1. /\ IsFiniteSet(A) /\ IsFiniteSet(B)
      /\ Rank(S, s) = Cardinality(A) /\ Rank(S, u) = Cardinality(B)
  BY RankIsCount DEF Rank
<1>0. Rank(S, s) \in Nat /\ Rank(S, u) \in Nat
  BY RankIsCount
<1>2. s \in Nat /\ u \in Nat /\ \A t \in S : t \in Nat  OBVIOUS
<1>3. u \notin A  BY <1>2
<1>4. Cardinality(A \cup {u}) = Cardinality(A) + 1
  BY <1>1, <1>3, FS_AddElement
<1>5. A \cup {u} \subseteq B
  <2>1. ASSUME NEW t \in A PROVE t \in B
    <3>1. t \in S /\ t <= s /\ t \in Nat  BY <1>2
    <3>2. t <= u  BY <1>2, <3>1
    <3> QED BY <3>1, <3>2
  <2>2. u \in B  BY <1>2
  <2> QED BY <2>1, <2>2
<1>6. Cardinality(A \cup {u}) <= Cardinality(B)  BY <1>1, <1>5, FS_Subset
<1>7. ASSUME \A t \in S : t > s => t >= u PROVE B = A \cup {u}
  <2>1. ASSUME NEW t \in B PROVE t \in A \cup {u}
    <3>1. t \in Nat /\ t <= u /\ t \in S  BY <1>2
    <3>2. CASE t > s
      <4>1. t >= u  BY <1>7, <3>1, <3>2
      <4>2. t = u  BY <1>2, <3>1, <4>1
      <4> QED BY <4>2
    <3>3. CASE t <= s  BY <3>1, <3>3
    <3> QED BY <1>2, <3>1, <3>2, <3>3
  <2> QED BY <1>5, <2>1
<1> HIDE DEF A, B
<1>8. ASSUME \A t \in S : t > s => t >= u PROVE Rank(S, u) = Rank(S, s) + 1
  BY <1>1, <1>4, <1>7, <1>8
<1>9. Rank(S, s) < Rank(S, u)  BY <1>0, <1>1, <1>4, <1>6
<1> QED BY <1>8, <1>9

\* The least member has rank 1, the greatest the rank of them all.
LEMMA RankEnds ==
    ASSUME NEW S \in SUBSET Nat, IsFiniteSet(S), NEW s \in S
    PROVE  /\ (\A t \in S : t >= s) => Rank(S, s) = 1
           /\ (\A t \in S : t <= s) => Rank(S, s) = Cardinality(S)
           /\ Rank(S, s) < Cardinality(S) => \E t \in S : t > s
<1>1. \A t \in S : t \in Nat  OBVIOUS
<1>2. ASSUME \A t \in S : t >= s PROVE Rank(S, s) = 1
  <2>1. ASSUME NEW t \in S PROVE t <= s <=> t = s
    <3>1. t >= s /\ t \in Nat /\ s \in Nat  BY <1>1, <1>2
    <3> QED BY <3>1
  <2>2. {t \in S : t <= s} = {} \cup {s}  BY <2>1
  <2>3. IsFiniteSet({}) /\ Cardinality({}) = 0 /\ s \notin {}  BY FS_EmptySet
  <2>4. Cardinality({} \cup {s}) = 0 + 1  BY <2>3, FS_AddElement
  <2> QED BY <2>2, <2>4 DEF Rank
<1>3. ASSUME \A t \in S : t <= s PROVE Rank(S, s) = Cardinality(S)
  <2>1. {t \in S : t <= s} = S  BY <1>3
  <2> QED BY <2>1 DEF Rank
<1>4. ASSUME Rank(S, s) < Cardinality(S), ~\E t \in S : t > s PROVE FALSE
  <2>1. \A t \in S : t <= s  BY <1>1, <1>4
  <2>2. Rank(S, s) \in Nat /\ Rank(S, s) = Cardinality(S)  BY <1>3, <2>1, RankIsCount
  <2> QED BY <1>4, <2>2
<1> QED BY <1>2, <1>3, <1>4

\* Ranks and members determine each other.
LEMMA NthOfRank ==
    ASSUME NEW S \in SUBSET Nat, IsFiniteSet(S), NEW s \in S
    PROVE  Nth(S, Rank(S, s)) = s
<1>1. PICK u : u = Nth(S, Rank(S, s))  OBVIOUS
<1>2. u \in S /\ Rank(S, u) = Rank(S, s)  BY <1>1 DEF Nth
<1>3. u \in Nat /\ s \in Nat  BY <1>2
<1>0. Rank(S, s) \in Nat  BY RankIsCount
<1>4. ~(u < s)
  <2> SUFFICES ASSUME u < s PROVE FALSE  OBVIOUS
  <2>1. Rank(S, u) < Rank(S, s)  BY <1>2, RankGrows
  <2> QED BY <1>2, <1>0, <2>1
<1>5. ~(s < u)
  <2> SUFFICES ASSUME s < u PROVE FALSE  OBVIOUS
  <2>1. Rank(S, s) < Rank(S, u)  BY <1>2, RankGrows
  <2> QED BY <1>2, <1>0, <2>1
<1>6. u = s  BY <1>3, <1>4, <1>5
<1> QED BY <1>1, <1>6

LEMMA NthHasRank ==
    ASSUME NEW S \in SUBSET Nat, IsFiniteSet(S)
    PROVE  \A i \in 1 .. Cardinality(S) : Nth(S, i) \in S /\ Rank(S, Nth(S, i)) = i
<1>3. PICK m \in Nat : m = Cardinality(S)  BY FS_CardinalityType
<1> DEFINE H == {0} \cup {i \in 1 .. m : \E s \in S : Rank(S, s) = i}
<1>4. ASSUME NEW k \in 0 .. m, k < m, k \in H PROVE k + 1 \in H
  <2>1. k + 1 \in 1 .. m  BY <1>4
  <2>2. \E s \in S : Rank(S, s) = k + 1
    <3>1. CASE k = 0
      <4>1. S # {}  BY <1>3, <1>4, <3>1, FS_EmptySet
      <4>3. PICK s \in S : \A t \in S : s <= t  BY <4>1, LeastNatural
      <4>4. \A t \in S : t >= s  BY <4>3
      <4>5. Rank(S, s) = 1  BY <4>4, RankEnds
      <4> QED BY <3>1, <4>5
    <3>2. CASE k # 0
      <4>1. PICK s \in S : Rank(S, s) = k  BY <1>4, <3>2
      <4>2. \E t \in S : t > s  BY <1>3, <1>4, <4>1, RankEnds
      <4> DEFINE U == {t \in S : t > s}
      <4>3. U \in SUBSET Nat /\ U # {}  BY <4>2, Zenon
      <4>4. PICK u \in U : \A t \in U : u <= t  BY <4>3, LeastNatural
      <4>5. u \in S /\ s < u /\ \A t \in S : t > s => t >= u  BY <4>4
      <4>6. Rank(S, u) = Rank(S, s) + 1  BY <4>5, RankGrows
      <4> QED BY <4>1, <4>5, <4>6
    <3> QED BY <3>1, <3>2
  <2> QED BY <2>1, <2>2
<1>5. 0 \in H  OBVIOUS
<1> HIDE DEF H
<1>6. \A k \in 0 .. m : k \in H  BY <1>4, <1>5, Counting
<1>7. ASSUME NEW i \in 1 .. Cardinality(S)
      PROVE  Nth(S, i) \in S /\ Rank(S, Nth(S, i)) = i
  <2>1. i \in 0 .. m /\ i # 0  BY <1>3
  <2>2. i \in H  BY <1>6, <2>1
  <2>3. \E s \in S : Rank(S, s) = i  BY <2>1, <2>2 DEF H
  <2> QED BY <2>3 DEF Nth
<1> QED BY <1>7

-----------------------------------------------------------------------------
(* The lines of an object. *)

\* e ends the line of T that starts at s.
EndOf(T, s, e) ==
    /\ e \in s + 1 .. Len(T)
    /\ e = Len(T) \/ e \in LineEnds(T)
    /\ \A x \in LineEnds(T) : x > s => x >= e

EndingAt(T, s, e) ==
    IF T[e] = "cr" THEN "cr"
    ELSE IF T[e] # "lf" THEN "none"
    ELSE IF e - 1 > s /\ T[e - 1] = "cr" THEN "crlf"
    ELSE "lf"

LEMMA LineFromIs ==
    ASSUME NEW T \in Seq(Bytes), NEW s \in Nat, NEW e, EndOf(T, s, e)
    PROVE  LineFrom(T, s) = [start |-> s, end |-> e, ending |-> EndingAt(T, s, e)]
<1>1. Len(T) \in Nat /\ DOMAIN T = 1 .. Len(T)  BY WindowBytes
<1> DEFINE R == {x \in LineEnds(T) : x > s} \cup {Len(T)}
<1>21. e \in s + 1 .. Len(T)  BY DEF EndOf
<1>22. e = Len(T) \/ e \in LineEnds(T)  BY DEF EndOf
<1>23. \A x \in LineEnds(T) : x > s => x >= e  BY DEF EndOf
<1>3. e \in Nat /\ e > s /\ e <= Len(T)
  <2> PICK n \in Nat : n = Len(T)  BY <1>1
  <2>1. e \in s + 1 .. n  BY <1>21
  <2>2. e \in Nat /\ e > s /\ e <= n  BY <2>1
  <2> QED BY <2>2
<1>2. /\ e = Len(T) \/ e \in LineEnds(T)
      /\ \A x \in LineEnds(T) : x > s => x >= e
  BY <1>22, <1>23
<1>4. R \in SUBSET Nat  BY <1>1 DEF LineEnds
<1>5. e \in R  BY <1>2, <1>3
<1>6. \A x \in R : x >= e  BY <1>2, <1>3
<1> HIDE DEF R
<1>7. Min(R) \in R /\ Min(R) <= e  BY <1>4, <1>5, LeastPosition
<1>8. Min(R) \in Nat /\ Min(R) >= e  BY <1>4, <1>6, <1>7
<1>9. Min(R) = e  BY <1>3, <1>7, <1>8
<1> QED BY <1>9 DEF R, LineFrom, EndingAt

\* Each line of the object has an end and is what lies up to it.
LEMMA LineHasEnd ==
    ASSUME NEW T \in Seq(Bytes), NEW s \in 0 .. Len(T) - 1
    PROVE  /\ EndOf(T, s, LineFrom(T, s).end)
           /\ LineFrom(T, s).start = s
           /\ LineFrom(T, s) \in LineRecords
<1>1. Len(T) \in Nat /\ DOMAIN T = 1 .. Len(T)  BY WindowBytes
<1> DEFINE R == {x \in LineEnds(T) : x > s} \cup {Len(T)}
<1>2. R \in SUBSET Nat /\ R # {}  BY <1>1 DEF LineEnds
<1>3. PICK e : e = Min(R)  OBVIOUS
<1>4. e \in R /\ \A x \in R : e <= x  BY <1>2, <1>3, LeastPosition
<1>0. s \in Nat /\ s < Len(T)  BY <1>1
<1>5. e \in s + 1 .. Len(T)
  <2>1. \A x \in R : x > s /\ x \in Nat  BY <1>0, <1>1, <1>2
  <2>2. e <= Len(T)  BY <1>4
  <2> QED BY <1>0, <1>1, <1>4, <2>1, <2>2
<1>6. \A x \in LineEnds(T) : x > s => x >= e
  <2>1. ASSUME NEW x \in LineEnds(T), x > s PROVE x >= e
    <3>1. x \in R  BY <2>1
    <3>2. e <= x /\ x \in Nat /\ e \in Nat  BY <1>2, <1>4, <3>1
    <3> QED BY <3>2
  <2> QED BY <2>1
<1>7. EndOf(T, s, e)  BY <1>4, <1>5, <1>6 DEF EndOf
<1>8. LineFrom(T, s) = [start |-> s, end |-> e, ending |-> EndingAt(T, s, e)]
  BY <1>0, <1>7, LineFromIs
<1>9. EndingAt(T, s, e) \in Endings  BY DEF EndingAt, Endings
<1>10. e \in Nat  BY <1>0, <1>5
<1> QED BY <1>0, <1>7, <1>8, <1>9, <1>10 DEF LineRecords

\* The starts of lines from base on.
StartsFrom(T, base) == {s \in LineStarts(T) : s >= base}

LEMMA StartsAreFinite ==
    ASSUME NEW T \in Seq(Bytes), NEW base \in 0 .. Len(T)
    PROVE  /\ StartsFrom(T, base) \in SUBSET Nat
           /\ IsFiniteSet(StartsFrom(T, base))
           /\ Cardinality(StartsFrom(T, base)) \in Nat
           /\ Cardinality(StartsFrom(T, base)) <= Len(T) - base
           /\ \A s \in StartsFrom(T, base) : s \in 0 .. Len(T) - 1 /\ s >= base
<1>1. Len(T) \in Nat  BY WindowBytes
<1> PICK n \in Nat : n = Len(T)  BY <1>1
<1>0. base \in 0 .. n /\ base \in Nat  OBVIOUS
<1> PICK S : S = StartsFrom(T, base)  OBVIOUS
<1>2. \A s \in S : s \in 0 .. n - 1 /\ s \in Nat /\ s >= base
  BY DEF StartsFrom, LineStarts
<1>3. S \subseteq base .. n - 1
  <2>1. ASSUME NEW s \in S PROVE s \in base .. n - 1
    <3>1. s \in 0 .. n - 1 /\ s >= base /\ s \in Nat  BY <1>2
    <3> QED BY <1>0, <3>1
  <2> QED BY <2>1
<1>4. base \in Int /\ n - 1 \in Int  BY <1>0
<1>5. IsFiniteSet(base .. n - 1)
      /\ Cardinality(base .. n - 1) = IF base > n - 1 THEN 0 ELSE (n - 1) - base + 1
  BY <1>4, FS_Interval
<1>6. Cardinality(base .. n - 1) = n - base  BY <1>0, <1>5
<1>7. IsFiniteSet(S) /\ Cardinality(S) <= n - base  BY <1>3, <1>5, <1>6, FS_Subset
<1>8. Cardinality(S) \in Nat  BY <1>7, FS_CardinalityType
<1>9. S \in SUBSET Nat  BY <1>2
<1> QED BY <1>2, <1>7, <1>8, <1>9

\* The next line starts where a line ends.
LEMMA NextStart ==
    ASSUME NEW T \in Seq(Bytes), NEW base \in 0 .. Len(T),
           NEW s \in StartsFrom(T, base), NEW e, EndOf(T, s, e)
    PROVE  /\ e < Len(T) => /\ e \in StartsFrom(T, base) /\ s < e
                            /\ \A t \in StartsFrom(T, base) : t > s => t >= e
           /\ e = Len(T) => \A t \in StartsFrom(T, base) : t <= s
<1>1. Len(T) \in Nat  BY WindowBytes
<1> PICK n \in Nat : n = Len(T)  BY <1>1
<1>2. \A t \in StartsFrom(T, base) :
         /\ t \in Nat /\ t < n /\ t >= base
         /\ t = 0 \/ t \in LineEnds(T)
  BY DEF StartsFrom, LineStarts
<1>0. base \in Nat /\ s \in Nat /\ s >= base  BY <1>2
<1>3. /\ e \in s + 1 .. n
      /\ e = n \/ e \in LineEnds(T)
      /\ \A x \in LineEnds(T) : x > s => x >= e
  BY DEF EndOf
<1>4. \A t \in StartsFrom(T, base) : t > s => t >= e
  <2>1. ASSUME NEW t \in StartsFrom(T, base), t > s PROVE t >= e
    <3>1. t # 0  BY <1>0, <2>1
    <3> QED BY <1>2, <1>3, <2>1, <3>1
  <2> QED BY <2>1
<1>5. ASSUME e < n PROVE e \in StartsFrom(T, base) /\ s < e
  <2>1. e \in LineEnds(T) /\ e \in 0 .. n - 1 /\ e >= base /\ s < e
    BY <1>0, <1>3, <1>5
  <2> QED BY <2>1 DEF StartsFrom, LineStarts
<1>6. ASSUME e = n, NEW t \in StartsFrom(T, base) PROVE t <= s
  <2>1. t \in Nat /\ t < n  BY <1>2
  <2>2. ~(t > s)  BY <1>4, <1>6, <2>1
  <2> QED BY <1>0, <2>1, <2>2
<1> QED BY <1>4, <1>5, <1>6

\* ref lists the lines of T from base on, one after the other to the end.
LinesOf(T, base, ref) ==
    /\ ref \in Seq(LineRecords)
    /\ Len(ref) <= Len(T) - base
    /\ Len(ref) = 0 => base = Len(T)
    /\ Len(ref) > 0 => ref[1].start = base
    /\ \A i \in 1 .. Len(ref) :
          /\ ref[i].start \in 0 .. Len(T) - 1
          /\ ref[i] = LineFrom(T, ref[i].start)
          /\ ref[i].end = IF i < Len(ref) THEN ref[i + 1].start ELSE Len(T)

LEMMA LinesInOrder ==
    ASSUME NEW T, NEW S
    PROVE  LinesFrom(T, S) = [i \in 1 .. Cardinality(S) |-> LineFrom(T, Nth(S, i))]
BY DEF LinesFrom, Nth, Rank

\* From the start of a line on, LinesFrom lists the lines of the object, each
\* starting where the one before it ends.
LEMMA Reference ==
    ASSUME NEW T \in Seq(Bytes), NEW base \in 0 .. Len(T), Aligned(T, base)
    PROVE  LinesOf(T, base, LinesFrom(T, StartsFrom(T, base)))
<1>1. Len(T) \in Nat  BY WindowBytes
<1> PICK n \in Nat : n = Len(T)  BY <1>1
<1> PICK S : S = StartsFrom(T, base)  OBVIOUS
<1>2. /\ S \in SUBSET Nat
      /\ IsFiniteSet(S)
      /\ Cardinality(S) \in Nat
      /\ Cardinality(S) <= n - base
      /\ \A s \in S : s \in 0 .. n - 1 /\ s >= base
  BY StartsAreFinite
<1> PICK m \in Nat : m = Cardinality(S)  BY <1>2
<1> PICK ref : ref = LinesFrom(T, S)  OBVIOUS
<1>3. ref = [i \in 1 .. m |-> LineFrom(T, Nth(S, i))]  BY LinesInOrder
<1>4. \A i \in 1 .. m : Nth(S, i) \in S /\ Rank(S, Nth(S, i)) = i
  BY <1>2, NthHasRank
<1>5. \A i \in 1 .. m :
         /\ ref[i] = LineFrom(T, Nth(S, i))
         /\ ref[i].start = Nth(S, i)
         /\ ref[i] \in LineRecords
         /\ EndOf(T, Nth(S, i), ref[i].end)
  <2> TAKE i \in 1 .. m
  <2>1. ref[i] = LineFrom(T, Nth(S, i))  BY <1>3
  <2>2. Nth(S, i) \in 0 .. Len(T) - 1  BY <1>2, <1>4
  <2> QED BY <2>1, <2>2, LineHasEnd
<1>6. ref \in Seq(LineRecords) /\ Len(ref) = m
  BY <1>3, <1>5
<1>7. ASSUME NEW i \in 1 .. m
      PROVE  ref[i].end = IF i < m THEN ref[i + 1].start ELSE n
  <2> PICK s : s = Nth(S, i)  OBVIOUS
  <2> PICK e : e = ref[i].end  OBVIOUS
  <2>1. s \in S /\ Rank(S, s) = i /\ EndOf(T, s, e)  BY <1>4, <1>5
  <2>2. /\ e < n => /\ e \in S /\ s < e
                    /\ \A t \in S : t > s => t >= e
        /\ e = n => \A t \in S : t <= s
    BY <2>1, NextStart
  <2>3. e \in s + 1 .. n  BY <2>1 DEF EndOf
  <2>4. s \in Nat  BY <1>2, <2>1
  <2>5. e < n \/ e = n  BY <2>3, <2>4
  <2>6. CASE e < n
    <3>0. e \in S /\ s < e /\ \A t \in S : t > s => t >= e  BY <2>2, <2>6
    <3>1. Rank(S, e) = i + 1
      <4>1. S \in SUBSET Nat /\ IsFiniteSet(S) /\ s \in S /\ e \in S /\ s < e
        BY <1>2, <2>1, <3>0
      <4>2. Rank(S, e) = Rank(S, s) + 1  BY <3>0, <4>1, RankGrows
      <4> QED BY <2>1, <4>2
    <3>2. Rank(S, e) \in 1 .. m  BY <1>2, <2>2, <2>6, RankIsCount
    <3>3. i + 1 \in 1 .. m /\ i < m  BY <3>1, <3>2
    <3>4. Nth(S, i + 1) = e  BY <1>2, <2>2, <2>6, <3>1, NthOfRank
    <3>5. ref[i + 1].start = e  BY <1>5, <3>3, <3>4
    <3> QED BY <3>3, <3>5
  <2>7. CASE e = n
    <3>1. Rank(S, s) = m  BY <1>2, <2>1, <2>2, <2>7, RankEnds
    <3>2. ~(i < m)  BY <2>1, <3>1
    <3> QED BY <2>7, <3>2
  <2> QED BY <2>5, <2>6, <2>7
<1>8. base \in LineStarts(T) => base \in S
  <2>1. base >= base  BY <1>1
  <2> QED BY <2>1 DEF StartsFrom
<1>9. m = 0 => base = n
  <2>1. ASSUME m = 0 PROVE S = {}  BY <1>2, <2>1, FS_EmptySet
  <2> QED BY <1>8, <2>1 DEF Aligned
<1>10. ASSUME m > 0 PROVE ref[1].start = base
  <2>1. S # {}  BY <1>2, <1>10, FS_EmptySet
  <2>2. PICK s \in S : TRUE  BY <2>1
  <2>3. base # n
    <3>1. s \in 0 .. n - 1 /\ s >= base  BY <1>2
    <3> QED BY <3>1
  <2>4. base \in S  BY <1>8, <2>3 DEF Aligned
  <2>5. Rank(S, base) = 1  BY <1>2, <2>4, RankEnds
  <2>6. Nth(S, 1) = base  BY <1>2, <2>4, <2>5, NthOfRank
  <2>7. 1 \in 1 .. m  BY <1>10
  <2> QED BY <1>5, <2>6, <2>7
<1>11. \A i \in 1 .. m : /\ ref[i].start \in 0 .. n - 1
                         /\ ref[i] = LineFrom(T, ref[i].start)
  BY <1>2, <1>4, <1>5
<1> QED BY <1>2, <1>6, <1>7, <1>9, <1>10, <1>11 DEF LinesOf

-----------------------------------------------------------------------------
(* The lines a window is split into are lines of the object. *)

\* A position of the object and the same position of the window.
SameBytes(T, b, base) ==
    \A x \in Nat : (x > base /\ x <= base + Len(b))
        => x - base \in 1 .. Len(b) /\ T[x] = b[x - base]

LEMMA InObject ==
    ASSUME NEW T \in Seq(Bytes), NEW b, NEW base, IsWindow(T, b, base)
    PROVE  /\ b \in Seq(Bytes) /\ base \in Nat
           /\ Len(b) \in Nat /\ Len(T) \in Nat
           /\ base + Len(b) <= Len(T)
           /\ DOMAIN T = 1 .. Len(T)
           /\ SameBytes(T, b, base)
<1>1. b \in Seq(Bytes) /\ base \in Nat /\ base + Len(b) <= Len(T)  BY DEF IsWindow
<1>2. Len(b) \in Nat /\ Len(T) \in Nat /\ DOMAIN T = 1 .. Len(T)  BY <1>1, WindowBytes
<1>3. ASSUME NEW x \in Nat, x > base, x <= base + Len(b)
      PROVE  x - base \in 1 .. Len(b) /\ T[x] = b[x - base]
  <2>1. x - base \in 1 .. Len(b) /\ base + (x - base) = x  BY <1>1, <1>2, <1>3
  <2> QED BY <2>1 DEF IsWindow
<1>4. SameBytes(T, b, base)  BY <1>3 DEF SameBytes
<1> QED BY <1>1, <1>2, <1>4

\* What ends at i and how wide it is, in the object's bytes.
LEMMA TerminatorOf ==
    ASSUME NEW b \in Seq(Bytes), NEW c \in 1 .. Len(b), NEW i \in c .. Len(b),
           NEW w \in 1 .. 2, EndsAt(b, c, i, w)
    PROVE  /\ i + w - 1 \in 1 .. Len(b)
           /\ \A j \in c .. i - 1 : b[j] \notin Break
           /\ \/ w = 1 /\ b[i] = "lf"
              \/ w = 1 /\ b[i] = "cr" /\ i < Len(b) /\ b[i + 1] # "lf"
              \/ w = 2 /\ b[i] = "cr" /\ b[i + 1] = "lf"
<1>1. Len(b) \in Nat  BY WindowBytes
<1>2. i \in 1 .. Len(b) /\ w > 0  BY <1>1
<1>3. w = Terminator(b, i, FALSE) /\ FALSE \in BOOLEAN  BY DEF EndsAt
<1>4. Terminator(b, i, FALSE) > 0  BY <1>2, <1>3, Zenon
<1>5. /\ i + Terminator(b, i, FALSE) <= Len(b) + 1
      /\ Terminator(b, i, FALSE) = 2 => b[i] = "cr" /\ b[i + 1] = "lf"
      /\ Terminator(b, i, FALSE) = 1 /\ b[i] = "cr"
           => IF i < Len(b) THEN b[i + 1] # "lf" ELSE FALSE
  BY <1>2, <1>3, <1>4, TerminatorWidth
<1>6. /\ i + w <= Len(b) + 1
      /\ w = 2 => b[i] = "cr" /\ b[i + 1] = "lf"
      /\ w = 1 /\ b[i] = "cr" => IF i < Len(b) THEN b[i + 1] # "lf" ELSE FALSE
  BY <1>3, <1>5, Zenon
<1>7. b[i] \in Break /\ \A j \in c .. i - 1 : b[j] \notin Break
  BY DEF EndsAt, FirstBreak
<1>8. i + w - 1 \in 1 .. Len(b)  BY <1>1, <1>2, <1>6
<1>9. w = 1 \/ w = 2  OBVIOUS
<1> QED BY <1>6, <1>7, <1>8, <1>9 DEF Break

\* The line before a terminator ends, in the object, with that terminator.
LEMMA EndOfComplete ==
    ASSUME NEW T \in Seq(Bytes), NEW b, NEW base, IsWindow(T, b, base),
           NEW c \in 1 .. Len(b), NEW i \in c .. Len(b), NEW w \in 1 .. 2,
           EndsAt(b, c, i, w)
    PROVE  /\ EndOf(T, base + c - 1, base + i - 1 + w)
           /\ EndingAt(T, base + c - 1, base + i - 1 + w) = Ending(b, i, w)
<1> PICK s : s = base + c - 1  OBVIOUS
<1> PICK e : e = base + i - 1 + w  OBVIOUS
<1>1. /\ b \in Seq(Bytes) /\ base \in Nat
      /\ Len(b) \in Nat /\ Len(T) \in Nat
      /\ base + Len(b) <= Len(T)
      /\ DOMAIN T = 1 .. Len(T)
      /\ SameBytes(T, b, base)
  BY InObject
<1> PICK n \in Nat : n = Len(T)  BY <1>1
<1> PICK m \in Nat : m = Len(b)  BY <1>1
<1>2. /\ i + w - 1 \in 1 .. m
      /\ \A j \in c .. i - 1 : b[j] \notin Break
      /\ \/ w = 1 /\ b[i] = "lf"
         \/ w = 1 /\ b[i] = "cr" /\ i < m /\ b[i + 1] # "lf"
         \/ w = 2 /\ b[i] = "cr" /\ b[i + 1] = "lf"
  BY <1>1, TerminatorOf
<1>3. /\ c \in Nat /\ i \in Nat /\ c >= 1 /\ i >= c /\ i <= m
      /\ base \in Nat /\ s \in Nat /\ e \in Nat /\ base + m <= n
      /\ s = base + c - 1 /\ e = base + i - 1 + w
      /\ i + w - 1 <= m
  BY <1>1, <1>2
<1>4. \A x \in Nat : (x > base /\ x <= base + m) => T[x] = b[x - base]
  BY <1>1 DEF SameBytes
<1>5. e \in s + 1 .. n  BY <1>3
\* Nothing ends a line before e.
<1>6. ASSUME NEW x \in LineEnds(T), x > s, x < e, ~(w = 2 /\ x = base + i) PROVE FALSE
  <2>1. x \in 1 .. n /\ T[x] \in Break  BY <1>1 DEF LineEnds, Break
  <2>2. x \in Nat /\ x > base /\ x <= base + m /\ x - base \in c .. i - 1
    <3>1. x \in Nat /\ x > base /\ x <= base + m  BY <1>3, <1>6, <2>1
    <3>2. w = 1 \/ w = 2  OBVIOUS
    <3>3. x - base >= c /\ x - base <= i - 1  BY <1>3, <1>6, <3>1, <3>2
    <3> QED BY <1>1, <1>3, <3>1, <3>3
  <2>3. b[x - base] \in Break  BY <1>4, <2>1, <2>2
  <2> QED BY <1>2, <2>2, <2>3
<1>7. CASE w = 2
  <2>1. e = base + i + 1 /\ b[i] = "cr" /\ b[i + 1] = "lf"  BY <1>1, <1>2, <1>3, <1>7
  <2>2. /\ e - base = i + 1 /\ (e - 1) - base = i
        /\ e > base /\ e <= base + m
        /\ e - 1 \in Nat /\ e - 1 > base /\ e - 1 <= base + m
        /\ e - 1 > s /\ e - 1 < n
    BY <1>1, <1>3, <1>7, <2>1
  <2>3. T[e] = "lf" /\ T[e - 1] = "cr"  BY <1>3, <1>4, <2>1, <2>2
  <2>4. e \in LineEnds(T)  BY <1>1, <1>3, <1>5, <2>3 DEF LineEnds
  <2>5. ASSUME NEW x \in LineEnds(T), x > s PROVE x >= e
    <3> SUFFICES ASSUME x < e PROVE FALSE
      BY <1>1, <1>3 DEF LineEnds
    <3>1. x = base + i  BY <1>6, <2>5
    <3>2. x = e - 1 /\ x + 1 = e  BY <1>1, <1>3, <2>1, <3>1
    <3>3. T[x] = "cr" /\ T[x + 1] = "lf" /\ x < Len(T)  BY <2>2, <2>3, <3>2
    <3> QED BY <3>3 DEF LineEnds, FollowedByLf
  <2>6. EndOf(T, s, e)  BY <1>5, <2>4, <2>5 DEF EndOf
  <2>7. EndingAt(T, s, e) = "crlf"  BY <2>2, <2>3 DEF EndingAt
  <2>8. Ending(b, i, w) = "crlf"  BY <1>7 DEF Ending
  <2> QED BY <2>6, <2>7, <2>8
<1>8. CASE w = 1
  <2>1. e = base + i /\ e - base = i /\ e > base /\ e <= base + m  BY <1>1, <1>3, <1>8
  <2>2. T[e] = b[i]  BY <1>3, <1>4, <2>1
  <2>3. b[i] = "cr" => ~FollowedByLf(T, e)
    <3>1. ASSUME b[i] = "cr" PROVE T[e + 1] # "lf"
      <4>1. i < m /\ b[i + 1] # "lf"  BY <1>2, <1>8, <3>1
      <4>2. e + 1 \in Nat /\ e + 1 > base /\ e + 1 <= base + m /\ (e + 1) - base = i + 1
        BY <1>1, <1>3, <2>1, <4>1
      <4> QED BY <1>4, <4>1, <4>2
    <3> QED BY <3>1 DEF FollowedByLf
  <2>4. e \in LineEnds(T)
    <3>1. e \in 1 .. n  BY <1>3, <1>5
    <3>2. b[i] = "lf" \/ b[i] = "cr"  BY <1>2
    <3> QED BY <1>1, <2>2, <2>3, <3>1, <3>2 DEF LineEnds
  <2>5. ASSUME NEW x \in LineEnds(T), x > s PROVE x >= e
    <3> SUFFICES ASSUME x < e PROVE FALSE
      BY <1>1, <1>3 DEF LineEnds
    <3> QED BY <1>6, <1>8, <2>5
  <2>6. EndOf(T, s, e)  BY <1>5, <2>4, <2>5 DEF EndOf
  <2>7. EndingAt(T, s, e) = Ending(b, i, w)
    <3>1. CASE b[i] = "cr"
      <4>1. EndingAt(T, s, e) = "cr"  BY <2>2, <3>1 DEF EndingAt
      <4>2. Ending(b, i, w) = "cr"  BY <1>8, <3>1 DEF Ending
      <4> QED BY <4>1, <4>2
    <3>2. CASE b[i] = "lf"
      <4>1. ASSUME e - 1 > s PROVE T[e - 1] # "cr"
        <5>1. /\ e - 1 \in Nat /\ e - 1 > base /\ e - 1 <= base + m
              /\ (e - 1) - base = i - 1 /\ i - 1 \in c .. i - 1
          BY <1>1, <1>3, <2>1, <4>1
        <5>2. b[i - 1] \notin Break  BY <1>2, <5>1
        <5> QED BY <1>4, <5>1, <5>2 DEF Break
      <4>2. EndingAt(T, s, e) = "lf"  BY <2>2, <3>2, <4>1 DEF EndingAt
      <4>3. Ending(b, i, w) = "lf"  BY <1>8, <3>2 DEF Ending
      <4> QED BY <4>2, <4>3
    <3> QED BY <1>2, <3>1, <3>2
  <2> QED BY <2>6, <2>7
<1>9. w = 1 \/ w = 2  OBVIOUS
<1> QED BY <1>7, <1>8, <1>9

\* The window ends with the object.
ReachesEnd(T, b, base) == base + Len(b) = Len(T)

\* The object's line at the cursor is its last, and ends as said.
LastEnds(T, base, c, ending) ==
    /\ EndOf(T, base + c - 1, Len(T))
    /\ EndingAt(T, base + c - 1, Len(T)) = ending

\* The last line of a window that ends with the object ends there too.
LEMMA EndOfLast ==
    ASSUME NEW T \in Seq(Bytes), NEW b, NEW base, IsWindow(T, b, base),
           ReachesEnd(T, b, base), NEW c \in 1 .. Len(b),
           NEW width \in 0 .. 1, NEW ending, LastLine(b, c, width, ending)
    PROVE  LastEnds(T, base, c, ending)
<1> SUFFICES EndOf(T, base + c - 1, Len(T)) /\ EndingAt(T, base + c - 1, Len(T)) = ending
  BY DEF LastEnds
<1> PICK s : s = base + c - 1  OBVIOUS
<1>0. base + Len(b) = Len(T)  BY DEF ReachesEnd
<1>1. /\ b \in Seq(Bytes) /\ base \in Nat
      /\ Len(b) \in Nat /\ Len(T) \in Nat
      /\ DOMAIN T = 1 .. Len(T)
      /\ SameBytes(T, b, base)
  BY InObject
<1> PICK n \in Nat : n = Len(T)  BY <1>1
<1> PICK m \in Nat : m = Len(b)  BY <1>1
<1>2. /\ c \in Nat /\ c >= 1 /\ c <= m
      /\ s \in Nat /\ s = base + c - 1 /\ base + m = n
      /\ n > base /\ n - base = m
  BY <1>0, <1>1
<1>3. \A x \in Nat : (x > base /\ x <= n) => T[x] = b[x - base]
  <2>1. base + m = n  BY <1>0
  <2> QED BY <1>1, <2>1 DEF SameBytes
<1>4. T[n] = b[m]  BY <1>2, <1>3
<1>5. /\ \A j \in c .. m - width : b[j] \notin Break
      /\ \/ width = 0 /\ ending = "none"
         \/ width = 1 /\ ending = "cr" /\ b[m] = "cr"
  BY DEF LastLine
<1>6. ASSUME NEW x \in LineEnds(T), x > s PROVE x >= n
  <2>1. x \in 1 .. n /\ T[x] \in Break  BY <1>1 DEF LineEnds, Break
  <2> SUFFICES ASSUME x < n PROVE FALSE
    BY <2>1
  <2>2. x \in Nat /\ x > base /\ x <= n  BY <1>1, <1>2, <1>6, <2>1
  <2>3. x - base \in c .. m - width  BY <1>1, <1>2, <1>6, <2>2
  <2>4. b[x - base] \in Break  BY <1>3, <2>1, <2>2
  <2> QED BY <1>5, <2>3, <2>4
<1>7. n \in s + 1 .. n  BY <1>1, <1>2
<1>8. EndOf(T, s, n)  BY <1>6, <1>7 DEF EndOf
<1>9. CASE width = 1
  <2>1. T[n] = "cr" /\ ending = "cr"  BY <1>4, <1>5, <1>9
  <2> QED BY <1>8, <2>1 DEF EndingAt
<1>10. CASE width = 0
  <2>1. m \in c .. m - width  BY <1>2, <1>10
  <2>2. T[n] \notin Break /\ ending = "none"  BY <1>4, <1>5, <1>10, <2>1
  <2> QED BY <1>8, <2>2 DEF EndingAt, Break
<1>11. width = 0 \/ width = 1  OBVIOUS
<1> QED BY <1>9, <1>10, <1>11

\* line is what the loop pushes before the terminator of width w at i.
PushedBy(b, base, c, i, w, line) ==
    line = LineAt(b, base, c, i - 1, w, Ending(b, i, w))

\* line is the object's line at the cursor, and ends after that terminator.
TruePushed(T, base, c, i, w, line) ==
    line = LineFrom(T, base + c - 1) /\ line.end = base + i - 1 + w

LEMMA LineIsTrue ==
    ASSUME NEW T \in Seq(Bytes), NEW b, NEW base, IsWindow(T, b, base),
           NEW c \in 1 .. Len(b), NEW i \in c .. Len(b), NEW w \in 1 .. 2,
           EndsAt(b, c, i, w),
           NEW line, PushedBy(b, base, c, i, w, line), line.ending # "malformed"
    PROVE  TruePushed(T, base, c, i, w, line)
<1>1. /\ EndOf(T, base + c - 1, base + i - 1 + w)
      /\ EndingAt(T, base + c - 1, base + i - 1 + w) = Ending(b, i, w)
  BY EndOfComplete
<1>2. base \in Nat /\ Len(b) \in Nat  BY InObject
<1>3. base + c - 1 \in Nat /\ base + (i - 1) + w = base + i - 1 + w  BY <1>2
<1> PICK s : s = base + c - 1  OBVIOUS
<1> PICK e : e = base + i - 1 + w  OBVIOUS
<1>4. LineFrom(T, s) = [start |-> s, end |-> e, ending |-> EndingAt(T, s, e)]
  BY <1>1, <1>3, LineFromIs
<1>5. line.ending = Ending(b, i, w)  BY DEF LineAt, PushedBy
<1>6. line = [start |-> s, end |-> e, ending |-> line.ending]
  BY <1>3 DEF LineAt, PushedBy
<1>7. EndingAt(T, s, e) = Ending(b, i, w)  BY <1>1
<1>8. line = LineFrom(T, s)  BY <1>4, <1>5, <1>6, <1>7, Zenon
<1>9. line.end = e  BY <1>6
<1> QED BY <1>8, <1>9 DEF TruePushed

LEMMA LastIsTrue ==
    ASSUME NEW T \in Seq(Bytes), NEW b, NEW base, IsWindow(T, b, base),
           ReachesEnd(T, b, base), NEW c \in 1 .. Len(b),
           NEW line, LastOfWindow(b, base, c, line), line.ending # "malformed"
    PROVE  line = LineFrom(T, base + c - 1) /\ line.end = Len(T)
<1>1. PICK width \in 0 .. 1, ending \in Endings :
         /\ LastLine(b, c, width, ending)
         /\ line = LineAt(b, base, c, Len(b) - width, width, ending)
  BY DEF LastOfWindow
<1>2. /\ EndOf(T, base + c - 1, Len(T))
      /\ EndingAt(T, base + c - 1, Len(T)) = ending
  <2>1. LastLine(b, c, width, ending)  BY <1>1
  <2>2. LastEnds(T, base, c, ending)  BY <2>1, EndOfLast
  <2> QED BY <2>2 DEF LastEnds
<1>3. base \in Nat /\ Len(b) \in Nat  BY InObject
<1>4. base + c - 1 \in Nat /\ base + (Len(b) - width) + width = Len(T)
  BY <1>3 DEF ReachesEnd
<1> PICK s : s = base + c - 1  OBVIOUS
<1>5. LineFrom(T, s) = [start |-> s, end |-> Len(T), ending |-> EndingAt(T, s, Len(T))]
  BY <1>2, <1>4, LineFromIs
<1>6. line.ending = ending  BY <1>1 DEF LineAt
<1>7. line = [start |-> s, end |-> Len(T), ending |-> line.ending]
  BY <1>1, <1>4 DEF LineAt
<1>8. EndingAt(T, s, Len(T)) = ending  BY <1>2
<1>9. line = LineFrom(T, s)  BY <1>5, <1>6, <1>7, <1>8, Zenon
<1>10. line.end = Len(T)  BY <1>7
<1> QED BY <1>9, <1>10

\* lines are the first of ref.
FirstOf(lines, ref) ==
    /\ lines \in Seq(LineRecords)
    /\ Len(lines) <= Len(ref)
    /\ \A i \in 1 .. Len(lines) : lines[i] = ref[i]

\* The object's byte the next line of ref starts at, if any is left after k.
NextOf(T, ref, k) == IF k < Len(ref) THEN ref[k + 1].start ELSE Len(T)

\* Unless it failed, the loop has the first lines of ref and is at the next.
LoopAgrees(T, base, ref, at) ==
    ~Fails(at.lines) =>
        /\ FirstOf(at.lines, ref)
        /\ base + at.cursor - 1 = NextOf(T, ref, Len(at.lines))

\* A line that starts where the next one does is the next one.
LEMMA OneLineMore ==
    ASSUME NEW T \in Seq(Bytes), NEW base \in Nat, NEW ref, LinesOf(T, base, ref),
           NEW ls, FirstOf(ls, ref), NEW s \in Nat, s < Len(T),
           s = NextOf(T, ref, Len(ls)),
           NEW line, line = LineFrom(T, s)
    PROVE  /\ FirstOf(Append(ls, line), ref)
           /\ line.end = NextOf(T, ref, Len(ls) + 1)
<1>1. Len(T) \in Nat  BY WindowBytes
<1> PICK k : k = Len(ls)  OBVIOUS
<1> PICK m : m = Len(ref)  OBVIOUS
<1>2. /\ ls \in Seq(LineRecords) /\ k <= m
      /\ \A i \in 1 .. k : ls[i] = ref[i]
  BY DEF FirstOf
<1>3. /\ ref \in Seq(LineRecords)
      /\ \A i \in 1 .. m :
            /\ ref[i].start \in 0 .. Len(T) - 1
            /\ ref[i] = LineFrom(T, ref[i].start)
            /\ ref[i].end = IF i < m THEN ref[i + 1].start ELSE Len(T)
  BY DEF LinesOf
<1>4. k \in Nat /\ m \in Nat  BY <1>2, <1>3
<1>5. k < m
  <2>1. ~(k < m) => s = Len(T)  BY DEF NextOf
  <2> QED BY <1>1, <2>1
<1>6. s = ref[k + 1].start  BY <1>5 DEF NextOf
<1>7. k + 1 \in 1 .. m  BY <1>4, <1>5
<1>8. line = ref[k + 1]  BY <1>3, <1>6, <1>7
<1>9. line \in LineRecords  BY <1>3, <1>7, <1>8, ElementOfSeq
<1>10. line.end = NextOf(T, ref, k + 1)
  BY <1>3, <1>7, <1>8 DEF NextOf
<1> PICK a : a = Append(ls, line)  OBVIOUS
<1>11. /\ a \in Seq(LineRecords) /\ Len(a) = k + 1
       /\ \A i \in 1 .. k : a[i] = ls[i]
       /\ a[k + 1] = line
  BY <1>2, <1>9, Appended
<1>12. ASSUME NEW i \in 1 .. k + 1 PROVE a[i] = ref[i]
  <2>1. i \in 1 .. k \/ i = k + 1  BY <1>4
  <2> QED BY <1>2, <1>8, <1>11, <2>1
<1>13. k + 1 <= m  BY <1>7
<1>14. FirstOf(a, ref)  BY <1>11, <1>12, <1>13 DEF FirstOf
<1> QED BY <1>10, <1>14

\* A round keeps the agreement: the line it pushes is the object's next.
LEMMA LoopAgreesStep ==
    ASSUME NEW T \in Seq(Bytes), NEW b, NEW base, IsWindow(T, b, base),
           NEW ref, LinesOf(T, base, ref), NEW k \in Nat, NEW at,
           LoopShape(b, base, k, at), LoopAgrees(T, base, ref, at)
    PROVE  LoopAgrees(T, base, ref, PushLine(b, base, at))
<1>1. /\ b \in Seq(Bytes) /\ base \in Nat
      /\ Len(b) \in Nat /\ Len(T) \in Nat
      /\ base + Len(b) <= Len(T)
  BY InObject
<1>2. /\ at.cursor \in 1 .. Len(b) + 1
      /\ AtStart(b, at.cursor)
      /\ at.lines \in Seq(LineRecords)
  BY DEF LoopShape
<1>3. at.cursor \in Nat \ {0}  BY <1>1, <1>2
<1>4. CASE PushLine(b, base, at) = at
  BY <1>4
<1>5. CASE ~Fails(at.lines) /\ Pushed(b, base, at, PushLine(b, base, at))
  <2> PICK next : next = PushLine(b, base, at)  OBVIOUS
  <2>1. PICK i \in at.cursor .. Len(b), w \in 1 .. 2 :
            /\ EndsAt(b, at.cursor, i, w)
            /\ next = [cursor |-> i + w,
                       lines  |-> Append(at.lines,
                             LineAt(b, base, at.cursor, i - 1, w, Ending(b, i, w)))]
    BY <1>5 DEF Pushed
  <2> PICK line : line = LineAt(b, base, at.cursor, i - 1, w, Ending(b, i, w))
    OBVIOUS
  <2>2. at.cursor \in 1 .. Len(b) /\ line \in LineRecords
    BY <1>1, <1>2, <2>1, PushedLine
  <2>3. next.cursor = i + w /\ next.lines = Append(at.lines, line)
    BY <2>1
  <2>4. /\ FirstOf(at.lines, ref)
        /\ base + at.cursor - 1 = NextOf(T, ref, Len(at.lines))
    BY <1>5 DEF LoopAgrees
  <2>5. Fails(next.lines) <=> Fails(at.lines) \/ line.ending = "malformed"
    BY <1>2, <2>2, <2>3, Appended
  <2>6. ASSUME ~Fails(next.lines)
        PROVE  /\ FirstOf(next.lines, ref)
               /\ base + next.cursor - 1 = NextOf(T, ref, Len(next.lines))
    <3>1. line.ending # "malformed"  BY <2>5, <2>6
    <3>2. EndsAt(b, at.cursor, i, w)  BY <2>1
    <3>3. line = LineFrom(T, base + at.cursor - 1) /\ line.end = base + i - 1 + w
      <4>1. PushedBy(b, base, at.cursor, i, w, line)  BY DEF PushedBy
      <4>2. TruePushed(T, base, at.cursor, i, w, line)
        BY <2>2, <3>1, <3>2, <4>1, LineIsTrue
      <4> QED BY <4>2 DEF TruePushed
    <3> PICK s : s = base + at.cursor - 1  OBVIOUS
    <3>4. s \in Nat /\ s < Len(T)  BY <1>1, <2>2
    <3>5. line = LineFrom(T, s) /\ s = NextOf(T, ref, Len(at.lines))  BY <2>4, <3>3
    <3>6. /\ FirstOf(Append(at.lines, line), ref)
          /\ line.end = NextOf(T, ref, Len(at.lines) + 1)
      BY <1>1, <2>4, <3>4, <3>5, OneLineMore
    <3>7. Len(next.lines) = Len(at.lines) + 1  BY <1>2, <2>2, <2>3, Appended
    <3>8. base + (i + w) - 1 = base + i - 1 + w  BY <1>1
    <3> QED BY <2>3, <3>3, <3>6, <3>7, <3>8
  <2> QED BY <2>6 DEF LoopAgrees
<1> QED BY <1>1, <1>3, <1>4, <1>5, PushOrStay

LEMMA LoopAgreesStarts ==
    ASSUME NEW T \in Seq(Bytes), NEW base \in Nat, NEW ref, LinesOf(T, base, ref)
    PROVE  LoopAgrees(T, base, ref, Start)
<1>1. Start.cursor = 1 /\ Start.lines = <<>>  BY DEF Start
<1>2. <<>> \in Seq(LineRecords) /\ Len(<<>>) = 0  OBVIOUS
<1>3. ref \in Seq(LineRecords)  BY DEF LinesOf
<1>4. Len(ref) \in Nat  BY <1>3
<1>5. FirstOf(<<>>, ref)
  <2>1. \A i \in 1 .. 0 : FALSE  OBVIOUS
  <2>2. 0 <= Len(ref)  BY <1>4
  <2> QED BY <1>2, <2>1, <2>2 DEF FirstOf
<1>6. base = NextOf(T, ref, 0)
  <2>1. Len(ref) = 0 => base = Len(T)  BY DEF LinesOf
  <2>2. Len(ref) > 0 => ref[1].start = base  BY DEF LinesOf
  <2>3. ~(0 < Len(ref)) => Len(ref) = 0  BY <1>4
  <2>4. 0 + 1 = 1 /\ (0 < Len(ref) => Len(ref) > 0)  BY <1>4
  <2> QED BY <2>1, <2>2, <2>3, <2>4 DEF NextOf
<1>7. base + 1 - 1 = base  OBVIOUS
<1> QED BY <1>1, <1>2, <1>5, <1>6, <1>7 DEF LoopAgrees

\* The agreement holds after every round, hence after the last.
LEMMA LoopEndsAgreed ==
    ASSUME NEW T \in Seq(Bytes), NEW b, NEW base, IsWindow(T, b, base),
           NEW ref, LinesOf(T, base, ref), NEW max \in Nat
    PROVE  /\ LoopShape(b, base, max, Rounds(b, base, max)[max])
           /\ LoopAgrees(T, base, ref, Rounds(b, base, max)[max])
<1>1. b \in Seq(Bytes) /\ base \in Nat  BY InObject
<1> DEFINE G == {k \in 0 .. max : /\ LoopShape(b, base, k, Rounds(b, base, max)[k])
                                  /\ LoopAgrees(T, base, ref, Rounds(b, base, max)[k])}
<1>2. 0 \in G
  BY <1>1, RoundByRound, LoopShapeStarts, LoopAgreesStarts
<1>3. ASSUME NEW k \in 0 .. max, k < max, k \in G PROVE k + 1 \in G
  <2>1. k \in Nat /\ k + 1 \in 1 .. max /\ (k + 1) - 1 = k  BY <1>3
  <2>2. /\ LoopShape(b, base, k, Rounds(b, base, max)[k])
        /\ LoopAgrees(T, base, ref, Rounds(b, base, max)[k])
    BY <1>3
  <2>3. Rounds(b, base, max)[k + 1] = PushLine(b, base, Rounds(b, base, max)[k])
    BY <2>1, RoundByRound
  <2>4. LoopShape(b, base, k + 1, Rounds(b, base, max)[k + 1])
    BY <1>1, <2>1, <2>2, <2>3, LoopShapeStep
  <2>5. LoopAgrees(T, base, ref, Rounds(b, base, max)[k + 1])
    BY <2>1, <2>2, <2>3, LoopAgreesStep
  <2> QED BY <2>1, <2>4, <2>5
<1> HIDE DEF G
<1>4. \A k \in 0 .. max : k \in G  BY <1>2, <1>3, Counting
<1>5. max \in G  BY <1>4
<1> QED BY <1>5 DEF G

\* A line starts before the end of the object.
LEMMA NextIsBeforeEnd ==
    ASSUME NEW T \in Seq(Bytes), NEW base \in Nat, NEW ref, LinesOf(T, base, ref),
           NEW ls, FirstOf(ls, ref), NextOf(T, ref, Len(ls)) = Len(T)
    PROVE  Len(ls) = Len(ref)
<1>1. Len(T) \in Nat  BY WindowBytes
<1>2. /\ ref \in Seq(LineRecords)
      /\ \A i \in 1 .. Len(ref) : ref[i].start \in 0 .. Len(T) - 1
  BY DEF LinesOf
<1>3. ls \in Seq(LineRecords) /\ Len(ls) <= Len(ref)  BY DEF FirstOf
<1> PICK k \in Nat : k = Len(ls)  BY <1>3
<1> PICK m \in Nat : m = Len(ref)  BY <1>2
<1> SUFFICES ASSUME k < m PROVE FALSE
  BY <1>3
<1>4. k + 1 \in 1 .. m  OBVIOUS
<1>5. ref[k + 1].start = Len(T)  BY DEF NextOf
<1>6. ref[k + 1].start \in 0 .. Len(T) - 1  BY <1>2, <1>4
<1> QED BY <1>1, <1>5, <1>6

\* A loop that passed the whole window has every line up to the object's end.
LEMMA LoopPassedAll ==
    ASSUME NEW T \in Seq(Bytes), NEW b, NEW base, IsWindow(T, b, base),
           NEW ref, LinesOf(T, base, ref), NEW k, NEW at,
           LoopShape(b, base, k, at), LoopAgrees(T, base, ref, at),
           ReachesEnd(T, b, base), ~Fails(at.lines), at.cursor > Len(b)
    PROVE  Len(at.lines) = Len(ref)
<1>1. base \in Nat /\ Len(b) \in Nat  BY InObject
<1>2. at.cursor \in 1 .. Len(b) + 1  BY DEF LoopShape
<1>3. /\ FirstOf(at.lines, ref)
      /\ base + at.cursor - 1 = NextOf(T, ref, Len(at.lines))
  BY DEF LoopAgrees
<1>4. base + at.cursor - 1 = base + Len(b)  BY <1>1, <1>2
<1>5. NextOf(T, ref, Len(at.lines)) = Len(T)  BY <1>3, <1>4 DEF ReachesEnd
<1> QED BY <1>1, <1>3, <1>5, NextIsBeforeEnd

\* With the last line, it has every one as well.
LEMMA LastCompletesAll ==
    ASSUME NEW T \in Seq(Bytes), NEW b, NEW base, IsWindow(T, b, base),
           NEW ref, LinesOf(T, base, ref), NEW k, NEW at,
           LoopShape(b, base, k, at), LoopAgrees(T, base, ref, at),
           ReachesEnd(T, b, base), ~Fails(at.lines), at.cursor <= Len(b),
           NEW line, LastOfWindow(b, base, at.cursor, line),
           ~Fails(Append(at.lines, line))
    PROVE  /\ FirstOf(Append(at.lines, line), ref)
           /\ Len(Append(at.lines, line)) = Len(ref)
<1>1. /\ b \in Seq(Bytes) /\ base \in Nat
      /\ Len(b) \in Nat /\ Len(T) \in Nat
      /\ base + Len(b) <= Len(T)
  BY InObject
<1>2. /\ at.cursor \in 1 .. Len(b) + 1
      /\ AtStart(b, at.cursor)
      /\ at.lines \in Seq(LineRecords)
  BY DEF LoopShape
<1>3. /\ FirstOf(at.lines, ref)
      /\ base + at.cursor - 1 = NextOf(T, ref, Len(at.lines))
  BY DEF LoopAgrees
<1>4. at.cursor \in 1 .. Len(b)  BY <1>1, <1>2
<1>5. line \in LineRecords
  <2>1. PICK width \in 0 .. 1, ending \in Endings :
           /\ LastLine(b, at.cursor, width, ending)
           /\ line = LineAt(b, base, at.cursor, Len(b) - width, width, ending)
    BY DEF LastOfWindow
  <2>2. FramedLine(b, base, at.cursor, Len(b) - width, width, ending, line)
    BY <1>1, <1>2, <1>4, <2>1, TrailingIsFramed
  <2> QED BY <2>2 DEF FramedLine
<1>6. line.ending # "malformed" /\ Len(Append(at.lines, line)) = Len(at.lines) + 1
  BY <1>2, <1>5, Appended
<1>7. line = LineFrom(T, base + at.cursor - 1) /\ line.end = Len(T)
  BY <1>4, <1>6, LastIsTrue
<1> PICK s : s = base + at.cursor - 1  OBVIOUS
<1>8. s \in Nat /\ s < Len(T)  BY <1>1, <1>4
<1>9. line = LineFrom(T, s) /\ s = NextOf(T, ref, Len(at.lines))  BY <1>3, <1>7
<1>10. /\ FirstOf(Append(at.lines, line), ref)
       /\ line.end = NextOf(T, ref, Len(at.lines) + 1)
  BY <1>1, <1>3, <1>8, <1>9, OneLineMore
<1>11. NextOf(T, ref, Len(Append(at.lines, line))) = Len(T)  BY <1>6, <1>7, <1>10
<1> QED BY <1>1, <1>10, <1>11, NextIsBeforeEnd

\* What an unfailed parse returns of the object.
ParseAgrees(eof, max, ref, lines) ==
    /\ FirstOf(lines, ref)
    /\ eof /\ Len(lines) < max => Len(lines) = Len(ref)

\* lines were parsed from a window of T that ends as eof says.
ParsedFrom(T, b, base, eof, max, lines) ==
    /\ lines = ParseUpTo(b, base, eof, max)
    /\ ~Fails(lines)
    /\ eof => ReachesEnd(T, b, base)

\* An unfailed parse from the start of a line returns the object's lines.
LEMMA ParsedLines ==
    ASSUME NEW T \in Seq(Bytes), NEW b, NEW base, IsWindow(T, b, base),
           NEW ref, LinesOf(T, base, ref), NEW eof \in BOOLEAN, NEW max \in Nat,
           NEW ls, ParsedFrom(T, b, base, eof, max, ls)
    PROVE  ParseAgrees(eof, max, ref, ls)
<1>1. b \in Seq(Bytes) /\ base \in Nat  BY InObject
<1>2. ls = ParseUpTo(b, base, eof, max)  BY DEF ParsedFrom
<1>3. ~Fails(ls)  BY DEF ParsedFrom
<1>4. eof => ReachesEnd(T, b, base)  BY DEF ParsedFrom
<1>0. PICK at : at = Rounds(b, base, max)[max]  OBVIOUS
<1>5. LoopShape(b, base, max, at) /\ LoopAgrees(T, base, ref, at)
  BY <1>0, LoopEndsAgreed
<1>6. PICK line :
         /\ ParseEnds(b, eof, max, at, line, ParseUpTo(b, base, eof, max))
         /\ (~Fails(at.lines) /\ Len(at.lines) < max /\ eof /\ at.cursor <= Len(b))
              => LastOfWindow(b, base, at.cursor, line)
  BY <1>0, <1>1, <1>5, ParseIsLoopAndLast
<1>7. ParseEnds(b, eof, max, at, line, ls)  BY <1>2, <1>6, Zenon
<1>8. CASE /\ ls = at.lines
           /\ \/ Fails(at.lines)
              \/ Len(at.lines) = max
              \/ ~eof \/ at.cursor > Len(b)
  <2>1. FirstOf(ls, ref)  BY <1>3, <1>5, <1>8 DEF LoopAgrees
  <2>2. ASSUME eof, Len(ls) < max PROVE Len(ls) = Len(ref)
    <3>1. Len(ls) # max
      <4>1. Len(ls) \in Nat  BY <2>1 DEF FirstOf
      <4>2. \A k \in Nat : k < max => k # max  OBVIOUS
      <4> QED BY <2>2, <4>1, <4>2, Zenon
    <3>2. at.cursor > Len(b) /\ ~Fails(at.lines) /\ ReachesEnd(T, b, base)
      BY <1>3, <1>4, <1>8, <2>2, <3>1, Zenon
    <3>3. Len(at.lines) = Len(ref)  BY <1>5, <3>2, LoopPassedAll
    <3> QED BY <1>8, <3>3
  <2> QED BY <2>1, <2>2 DEF ParseAgrees
<1>9. CASE /\ ~Fails(at.lines) /\ Len(at.lines) < max
           /\ eof /\ at.cursor <= Len(b)
           /\ ls = Append(at.lines, line)
  <2>1. LastOfWindow(b, base, at.cursor, line)  BY <1>6, <1>9, Zenon
  <2>2. ReachesEnd(T, b, base) /\ ~Fails(Append(at.lines, line))  BY <1>3, <1>4, <1>9, Zenon
  <2>3. ~Fails(at.lines) /\ at.cursor <= Len(b)  BY <1>9
  <2>4. FirstOf(Append(at.lines, line), ref) /\ Len(Append(at.lines, line)) = Len(ref)
    BY <1>5, <2>1, <2>2, <2>3, LastCompletesAll
  <2>5. FirstOf(ls, ref) /\ Len(ls) = Len(ref)  BY <1>9, <2>4, Zenon
  <2> QED BY <2>5 DEF ParseAgrees
<1> QED BY <1>7, <1>8, <1>9, Zenon DEF ParseEnds

-----------------------------------------------------------------------------
(* What the helpers return of the object's lines. *)

LEMMA FirstLines ==
    ASSUME NEW ref \in Seq(LineRecords), NEW m \in Nat, m <= Len(ref)
    PROVE  /\ SubSeq(ref, 1, m) \in Seq(LineRecords)
           /\ Len(SubSeq(ref, 1, m)) = m
           /\ \A i \in 1 .. m : SubSeq(ref, 1, m)[i] = ref[i]
<1> PICK n \in Nat : n = Len(ref)  OBVIOUS
<1>1. \A i \in 1 .. m : ref[i] \in LineRecords
  <2> TAKE i \in 1 .. m
  <2>1. i \in 1 .. n  OBVIOUS
  <2> QED BY <2>1, ElementOfSeq
<1>2. 1 \in Int /\ m \in Int  OBVIOUS
<1>3. /\ SubSeq(ref, 1, m) \in Seq(LineRecords)
      /\ Len(SubSeq(ref, 1, m)) = IF 1 <= m THEN m - 1 + 1 ELSE 0
      /\ \A i \in 1 .. m - 1 + 1 : SubSeq(ref, 1, m)[i] = ref[1 + i - 1]
  BY <1>1, <1>2, SubSeqProperties
<1>4. Len(SubSeq(ref, 1, m)) = m  BY <1>3
<1>5. ASSUME NEW i \in 1 .. m PROVE SubSeq(ref, 1, m)[i] = ref[i]
  <2>1. i \in 1 .. m - 1 + 1 /\ 1 + i - 1 = i  OBVIOUS
  <2> QED BY <1>3, <2>1
<1> QED BY <1>3, <1>4, <1>5

\* The first lines of ref, as many as asked for, are Upto.
LEMMA FirstAreUpto ==
    ASSUME NEW ref \in Seq(LineRecords), NEW n \in Nat, NEW ls, FirstOf(ls, ref),
           Len(ls) = Least(n, Len(ref))
    PROVE  ls = Upto(n, ref)
<1> PICK k : k = Least(n, Len(ref))  OBVIOUS
<1>1. Len(ref) \in Nat  OBVIOUS
<1>2. k \in Nat /\ k <= Len(ref)  BY <1>1 DEF Least
<1> PICK t : t = SubSeq(ref, 1, k)  OBVIOUS
<1>3. /\ t \in Seq(LineRecords)
      /\ Len(t) = k
      /\ \A i \in 1 .. k : t[i] = ref[i]
  BY <1>2, FirstLines
<1>4. ls \in Seq(LineRecords) /\ Len(ls) = k /\ \A i \in 1 .. k : ls[i] = ref[i]
  BY DEF FirstOf
<1>5. Len(ls) = Len(t) /\ \A i \in 1 .. Len(ls) : ls[i] = t[i]  BY <1>3, <1>4
<1>6. ls = t  BY <1>3, <1>4, <1>5, SeqEqual
<1> QED BY <1>6 DEF Upto

\* A parse that has n lines, or all of a window that ends with the object, has
\* the first n of the lines from its base on.
LEMMA ParsedUpto ==
    ASSUME NEW T \in Seq(Bytes), NEW b, NEW base, IsWindow(T, b, base),
           NEW ref, LinesOf(T, base, ref), NEW eof \in BOOLEAN, NEW n \in Nat,
           NEW ls, ParsedFrom(T, b, base, eof, n, ls), Len(ls) = n \/ eof
    PROVE  ls = Upto(n, ref)
<1>1. b \in Seq(Bytes) /\ base \in Nat  BY InObject
<1>2. ParseAgrees(eof, n, ref, ls)  BY ParsedLines
<1>3. FirstOf(ls, ref)  BY <1>2 DEF ParseAgrees
<1>4. Len(ls) < n => Len(ls) = Len(ref)
  <2>1. ASSUME Len(ls) < n, ~eof PROVE FALSE
    <3>1. Len(ls) = n  BY <2>1
    <3> QED BY <2>1, <3>1
  <2> QED BY <1>2, <2>1 DEF ParseAgrees
<1>5. Len(ls) <= n
  <2>1. ParsedShape(b, base, eof, n, ParseUpTo(b, base, eof, n))  BY <1>1, ParseShape
  <2>2. ls = ParseUpTo(b, base, eof, n)  BY DEF ParsedFrom
  <2>3. ParsedShape(b, base, eof, n, ls)  BY <2>1, <2>2, Zenon
  <2> QED BY <2>3 DEF ParsedShape
<1>6. ref \in Seq(LineRecords)  BY DEF LinesOf
<1>7. ls \in Seq(LineRecords) /\ Len(ls) <= Len(ref)  BY <1>3 DEF FirstOf
<1>8. Len(ls) = Least(n, Len(ref))
  <2>1. ASSUME NEW k \in Nat, NEW m \in Nat, k <= n, k <= m, k < n => k = m
        PROVE  k = Least(n, m)
    BY <2>1 DEF Least
  <2>2. Len(ls) \in Nat /\ Len(ref) \in Nat  BY <1>6, <1>7
  <2> QED BY <1>4, <1>5, <1>7, <2>1, <2>2
<1> QED BY <1>3, <1>6, <1>8, FirstAreUpto

\* ObjectLines is the reference from the first byte on.
LEMMA AllLines ==
    ASSUME NEW T \in Seq(Bytes)
    PROVE  /\ LinesOf(T, 0, ObjectLines(T))
           /\ ObjectLines(T) = LinesFrom(T, StartsFrom(T, 0))
<1>1. Len(T) \in Nat  BY WindowBytes
<1>2. StartsFrom(T, 0) = LineStarts(T)
  <2>1. \A s \in LineStarts(T) : s >= 0  BY <1>1 DEF LineStarts
  <2> QED BY <2>1 DEF StartsFrom
<1>3. Aligned(T, 0)  BY <1>1 DEF Aligned, LineStarts
<1>4. 0 \in 0 .. Len(T)  BY <1>1
<1>5. LinesOf(T, 0, LinesFrom(T, StartsFrom(T, 0)))  BY <1>3, <1>4, Reference
<1> QED BY <1>2, <1>5 DEF ObjectLines

\* all ends with ref.
EndsWith(all, ref) ==
    /\ Len(ref) <= Len(all)
    /\ \A i \in 1 .. Len(ref) : ref[i] = all[Len(all) - Len(ref) + i]

\* S is R without its d least members.
Shift(R, S, d) ==
    /\ Cardinality(R) = d + Cardinality(S)
    /\ \A s \in S : Rank(R, s) = d + Rank(S, s)

MembersFrom(R, base) == {s \in R : s >= base}

LEMMA RankFrom ==
    ASSUME NEW R \in SUBSET Nat, IsFiniteSet(R), NEW base \in Nat
    PROVE  \E d \in Nat : Shift(R, MembersFrom(R, base), d)
<1> DEFINE S == {s \in R : s >= base}
           D == {s \in R : s < base}
<1>0. MembersFrom(R, base) = S  BY DEF MembersFrom
<1>1. \A s \in R : s \in Nat  OBVIOUS
<1>2. IsFiniteSet(S) /\ IsFiniteSet(D) /\ S \in SUBSET Nat
  <2>1. S \in SUBSET R /\ D \in SUBSET R  OBVIOUS
  <2> QED BY <2>1, FS_Subset
<1>3. Cardinality(D) \in Nat /\ Cardinality(S) \in Nat
  BY <1>2, FS_CardinalityType
<1>4. Cardinality(R) = Cardinality(D) + Cardinality(S)
  <2>1. R = D \cup S /\ D \cap S = {}
    <3>1. \A s \in R : s < base <=> ~(s >= base)  BY <1>1
    <3> QED BY <3>1
  <2> HIDE DEF D, S
  <2>2. Cardinality(R) = Cardinality(D) + Cardinality(S) - Cardinality({})
    BY <1>2, <2>1, FS_Union
  <2> QED BY <1>3, <2>2, FS_EmptySet
<1>5. ASSUME NEW s \in S PROVE Rank(R, s) = Cardinality(D) + Rank(S, s)
  <2> DEFINE A == {t \in R : t <= s}
             B == {t \in S : t <= s}
  <2>1. s \in Nat /\ s >= base /\ s \in R  BY <1>1
  <2>2. A = D \cup B /\ D \cap B = {}
    <3>1. \A t \in R : /\ t < base => t <= s
                       /\ t < base <=> ~(t >= base)
      BY <1>1, <2>1
    <3> QED BY <3>1
  <2>3. IsFiniteSet(B) /\ Rank(S, s) \in Nat  BY <1>2, RankIsCount
  <2>4. Rank(R, s) = Cardinality(A) /\ Rank(S, s) = Cardinality(B)  BY DEF Rank
  <2> HIDE DEF A, B, D, S
  <2>5. Cardinality(A) = Cardinality(D) + Cardinality(B) - Cardinality({})
    BY <1>2, <2>2, <2>3, FS_Union
  <2> QED BY <1>3, <2>3, <2>4, <2>5, FS_EmptySet
<1> HIDE DEF D, S
<1>6. Shift(R, S, Cardinality(D))  BY <1>4, <1>5 DEF Shift
<1> QED BY <1>0, <1>3, <1>6

\* The lines from base on are the last of the object's lines.
LEMMA TailOfAll ==
    ASSUME NEW T \in Seq(Bytes), NEW base \in 0 .. Len(T)
    PROVE  EndsWith(ObjectLines(T), LinesFrom(T, StartsFrom(T, base)))
<1>1. Len(T) \in Nat /\ base \in Nat /\ 0 \in 0 .. Len(T)  BY WindowBytes
<1> PICK R : R = StartsFrom(T, 0)  OBVIOUS
<1> PICK S : S = StartsFrom(T, base)  OBVIOUS
<1>2. /\ R \in SUBSET Nat /\ IsFiniteSet(R) /\ Cardinality(R) \in Nat
      /\ S \in SUBSET Nat /\ IsFiniteSet(S) /\ Cardinality(S) \in Nat
  BY <1>1, StartsAreFinite
<1>3. S = {s \in R : s >= base}
  <2>1. \A s \in LineStarts(T) : s \in Nat  BY <1>1 DEF LineStarts
  <2>2. \A s \in LineStarts(T) : s >= 0  BY <2>1
  <2> QED BY <2>2 DEF StartsFrom
<1>4. PICK d \in Nat :
         /\ Cardinality(R) = d + Cardinality(S)
         /\ \A s \in S : Rank(R, s) = d + Rank(S, s)
  <2>1. S = MembersFrom(R, base)  BY <1>3 DEF MembersFrom
  <2>2. \E d \in Nat : Shift(R, S, d)  BY <1>1, <1>2, <2>1, RankFrom
  <2> QED BY <2>2 DEF Shift
<1> PICK all : all = ObjectLines(T)  OBVIOUS
<1> PICK ref : ref = LinesFrom(T, S)  OBVIOUS
<1> PICK n \in Nat : n = Cardinality(R)  BY <1>2
<1> PICK m \in Nat : m = Cardinality(S)  BY <1>2
<1>5. all = [i \in 1 .. n |-> LineFrom(T, Nth(R, i))]
  <2>1. all = LinesFrom(T, R)  BY AllLines
  <2> QED BY <2>1, LinesInOrder
<1>6. ref = [i \in 1 .. m |-> LineFrom(T, Nth(S, i))]  BY LinesInOrder
<1>7. ASSUME NEW i \in 1 .. m PROVE ref[i] = all[d + i]
  <2> PICK s : s = Nth(S, i)  OBVIOUS
  <2>1. s \in S /\ Rank(S, s) = i  BY <1>2, NthHasRank
  <2>2. s \in R /\ Rank(R, s) = d + i  BY <1>3, <1>4, <2>1
  <2>3. Nth(R, d + i) = s  BY <1>2, <2>2, NthOfRank
  <2>4. d + i \in 1 .. n  BY <1>4
  <2> QED BY <1>5, <1>6, <2>3, <2>4
<1>8. LinesOf(T, 0, all)  BY AllLines
<1>9. Len(all) = n
  <2>1. all \in Seq(LineRecords)  BY <1>8 DEF LinesOf
  <2> QED BY <1>5, <2>1
<1>10. Len(ref) = m
  <2>1. \A i \in 1 .. m : ref[i] \in LineRecords
    <3> TAKE i \in 1 .. m
    <3>1. d + i \in 1 .. Len(all) /\ ref[i] = all[d + i]  BY <1>4, <1>7, <1>9
    <3>2. all \in Seq(LineRecords)  BY <1>8 DEF LinesOf
    <3> QED BY <3>1, <3>2, ElementOfSeq
  <2>2. ref \in Seq(LineRecords)  BY <1>6, <2>1
  <2> QED BY <1>6, <2>2
<1>11. n - m = d /\ m <= n  BY <1>4
<1> QED BY <1>7, <1>9, <1>10, <1>11 DEF EndsWith

\* The last lines of the object's last lines are LastOf.
LEMMA EndAreLast ==
    ASSUME NEW all \in Seq(LineRecords), NEW ref \in Seq(LineRecords), EndsWith(all, ref),
           NEW n \in Nat, NEW t, IsEnd(ref, t, n), Len(t) = n \/ ref = all
    PROVE  t = LastOf(n, all)
<1> PICK N \in Nat : N = Len(all)  OBVIOUS
<1> PICK m \in Nat : m = Len(ref)  OBVIOUS
<1>1. /\ t \in Seq(LineRecords)
      /\ Len(t) = Least(n, m)
      /\ \A i \in 1 .. Len(t) : t[i] = ref[m - Len(t) + i]
  BY DEF IsEnd
<1> PICK k \in Nat : k = Len(t)  BY <1>1
<1>2. m <= N /\ \A i \in 1 .. m : ref[i] = all[N - m + i]  BY DEF EndsWith
<1>3. k <= m /\ k <= N /\ k = Least(n, N)
  <2>1. k = Least(n, m) /\ (k = n \/ m = N)  BY <1>1
  <2> QED BY <1>2, <2>1 DEF Least
<1>4. ASSUME NEW i \in 1 .. k PROVE t[i] = all[N - k + i]
  <2>1. m - k + i \in 1 .. m /\ N - m + (m - k + i) = N - k + i  BY <1>3
  <2> QED BY <1>1, <1>2, <2>1
<1> PICK p : p = N - k + 1  OBVIOUS
<1>5. p \in Nat /\ p >= 1 /\ N - p + 1 = k  BY <1>3
<1>6. \A i \in p .. N : all[i] \in LineRecords
  <2> TAKE i \in p .. N
  <2>1. i \in 1 .. N  BY <1>5
  <2> QED BY <2>1, ElementOfSeq
<1> PICK u : u = SubSeq(all, p, N)  OBVIOUS
<1>7. /\ u \in Seq(LineRecords)
      /\ Len(u) = IF p <= N THEN N - p + 1 ELSE 0
      /\ \A i \in 1 .. N - p + 1 : u[i] = all[p + i - 1]
  BY <1>5, <1>6, SubSeqProperties
<1>8. Len(u) = k  BY <1>5, <1>7
<1>9. \A i \in 1 .. k : u[i] = all[N - k + i]
  <2> TAKE i \in 1 .. k
  <2>1. i \in 1 .. N - p + 1 /\ p + i - 1 = N - k + i  BY <1>5
  <2> QED BY <1>7, <2>1
<1>10. t = u
  <2>1. Len(t) = Len(u) /\ \A i \in 1 .. Len(t) : t[i] = u[i]  BY <1>4, <1>8, <1>9
  <2> QED BY <1>1, <1>7, <2>1, SeqEqual
<1>11. LastOf(n, all) = SubSeq(all, p, N)  BY <1>3 DEF LastOf
<1> QED BY <1>10, <1>11

-----------------------------------------------------------------------------
(* The answers of the helpers are lines of the object. *)

\* What the lemmas on parses ask of the parts of a call.
LEMMA PartsOf ==
    ASSUME NEW in \in Inputs, NEW b, NEW base, NEW eof, Parts(in, b, base, eof)
    PROVE  /\ in.content \in Seq(Bytes)
           /\ in.n \in Nat \ {0}
           /\ IsWindow(in.content, b, base)
           /\ b \in Seq(Bytes) /\ base \in Nat /\ Len(b) \in Nat
           /\ base \in 0 .. Len(in.content)
           /\ eof \in BOOLEAN
           /\ eof => ReachesEnd(in.content, b, base)
           /\ Len(b) > 0 \/ eof => Aligned(in.content, base)
<1>1. /\ in.content \in Seq(Bytes) /\ in.n \in Nat \ {0}
      /\ Size(in) = Len(in.content)
  BY InputShape
<1>2. /\ IsWindow(in.content, b, base)
      /\ eof \in BOOLEAN
      /\ eof => base + Len(b) = Size(in)
      /\ Len(b) > 0 \/ eof => Aligned(in.content, base)
  BY DEF Parts
<1>3. /\ b \in Seq(Bytes) /\ base \in Nat
      /\ Len(b) \in Nat /\ Len(in.content) \in Nat
      /\ base + Len(b) <= Len(in.content)
  BY <1>1, <1>2, InObject
<1>4. base \in 0 .. Len(in.content)  BY <1>3
<1>5. eof => ReachesEnd(in.content, b, base)  BY <1>1, <1>2 DEF ReachesEnd
<1> QED BY <1>1, <1>2, <1>3, <1>4, <1>5

\* An answered call has the first n lines from the base of its window on.
AnswersUpto(in, answered, base) ==
    answered.kind = "ok"
        => answered.lines = Upto(in.n, LinesFrom(in.content, StartsFrom(in.content, base)))

LEMMA AnsweredUpto ==
    ASSUME NEW in \in Inputs, NEW b, NEW base, NEW eof, Parts(in, b, base, eof),
           NEW ls, ls = ParseUpTo(b, base, eof, in.n), Len(ls) = in.n \/ eof
    PROVE  AnswersUpto(in, Lines(ls), base)
<1>1. CASE Fails(ls)
  <2>1. Lines(ls).kind = "encoding"  BY <1>1, AnsweredLines, RefusedLines
  <2> QED BY <2>1 DEF AnswersUpto
<1>2. CASE ~Fails(ls)
  <2>1. /\ in.content \in Seq(Bytes)
        /\ in.n \in Nat \ {0}
        /\ IsWindow(in.content, b, base)
        /\ b \in Seq(Bytes) /\ base \in Nat /\ Len(b) \in Nat
        /\ base \in 0 .. Len(in.content)
        /\ eof \in BOOLEAN
        /\ eof => ReachesEnd(in.content, b, base)
        /\ Len(b) > 0 \/ eof => Aligned(in.content, base)
    BY PartsOf
  <2>2. ParsedFrom(in.content, b, base, eof, in.n, ls)  BY <1>2, <2>1 DEF ParsedFrom
  <2>3. ParsedShape(b, base, eof, in.n, ls)  BY <2>1, ParseShape
  <2>4. Len(b) > 0 \/ eof
    <3> SUFFICES ASSUME ~eof PROVE Len(b) > 0  OBVIOUS
    <3>1. Len(ls) = in.n  OBVIOUS
    <3>2. 1 \in 1 .. Len(ls)  BY <2>1, <3>1
    <3>3. Framed(b, base, ls[1])  BY <2>3, <3>2 DEF ParsedShape
    <3>4. \E p \in 1 .. Len(b) : TRUE  BY <3>3 DEF Framed
    <3> QED BY <2>1, <3>4
  <2>5. LinesOf(in.content, base, LinesFrom(in.content, StartsFrom(in.content, base)))
    BY <2>1, <2>4, Reference
  <2>6. ls = Upto(in.n, LinesFrom(in.content, StartsFrom(in.content, base)))
    BY <2>1, <2>2, <2>5, ParsedUpto
  <2> QED BY <1>2, <2>6, AnsweredLines DEF AnswersUpto
<1> QED BY <1>1, <1>2

LEMMA RefusedNothing ==
    ASSUME NEW in, NEW base, NEW why \in {"pending", "encoding"}
    PROVE  AnswersUpto(in, Refused(why), base)
BY RefusedLines DEF AnswersUpto

\* head_lines answers with the first lines, from either window.
LEMMA HeadIsTrue ==
    ASSUME NEW in \in Inputs, Size(in) > 0
    PROVE  AnswersUpto(in, HeadLines(in), 0)
<1> DEFINE probe == ProbeWindow(in)
           eof   == Len(probe) = Size(in)
           ls    == ParseUpTo(probe, 0, eof, in.n)
           body  == Window(in, 0, BodyLength(in))
           whole == Len(body) = Size(in)
           more  == ParseUpTo(body, 0, whole, in.n)
<1>1. HeadLines(in) = IF Fails(ls) \/ Len(ls) = in.n \/ eof THEN Lines(ls) ELSE HeadBody(in)
  BY DEF HeadLines
<1>2. HeadBody(in) = IF BinaryPrefix(body) THEN Refused("encoding")
                     ELSE IF ~Fails(more) /\ Len(more) < in.n /\ ~whole THEN Refused("pending")
                     ELSE Lines(more)
  BY DEF HeadBody
<1>3. Parts(in, probe, 0, eof)  BY ProbeParts
<1>4. Parts(in, body, 0, whole)  BY BodyParts
<1>5. ASSUME Fails(ls) \/ Len(ls) = in.n \/ eof PROVE AnswersUpto(in, Lines(ls), 0)
  <2>1. CASE Fails(ls)
    <3>1. Lines(ls) = Refused("encoding")  BY <2>1, AnsweredLines
    <3> QED BY <3>1, RefusedNothing
  <2>2. CASE Len(ls) = in.n \/ eof
    <3> HIDE DEF probe, eof
    <3> QED BY <1>3, <2>2, AnsweredUpto
  <2> QED BY <1>5, <2>1, <2>2
<1>6. ASSUME ~(~Fails(more) /\ Len(more) < in.n /\ ~whole)
      PROVE  AnswersUpto(in, Lines(more), 0)
  <2>1. CASE Fails(more)
    <3>1. Lines(more) = Refused("encoding")  BY <2>1, AnsweredLines
    <3> QED BY <3>1, RefusedNothing
  <2>2. CASE ~Fails(more)
    <3>1. body \in Seq(Bytes) /\ in.n \in Nat /\ whole \in BOOLEAN /\ 0 \in Nat
      BY <1>4, PartsOf
    <3> HIDE DEF body, whole
    <3>2. ParsedShape(body, 0, whole, in.n, more)  BY <3>1, ParseShape
    <3>3. Len(more) \in Nat /\ Len(more) <= in.n  BY <3>2 DEF ParsedShape
    <3>4. Len(more) < in.n \/ Len(more) = in.n  BY <3>1, <3>3
    <3>5. Len(more) = in.n \/ whole  BY <1>6, <2>2, <3>4
    <3> QED BY <1>4, <3>5, AnsweredUpto
  <2> QED BY <2>1, <2>2
<1> HIDE DEF probe, eof, ls, body, whole, more
<1> QED BY <1>1, <1>2, <1>5, <1>6, RefusedNothing

\* An unfailed parse of a whole window that ends with the object has all lines
\* from its base on.
LEMMA ParsedAll ==
    ASSUME NEW T \in Seq(Bytes), NEW b, NEW base, IsWindow(T, b, base),
           NEW ref, LinesOf(T, base, ref), ReachesEnd(T, b, base),
           NEW ls, ParsedFrom(T, b, base, TRUE, Len(b) + 1, ls)
    PROVE  ls = ref
<1>1. base \in Nat /\ Len(b) \in Nat /\ Len(T) \in Nat  BY InObject
<1>2. Len(b) + 1 \in Nat /\ TRUE \in BOOLEAN  BY <1>1
<1>3. ParseAgrees(TRUE, Len(b) + 1, ref, ls)  BY <1>2, ParsedLines
<1>4. FirstOf(ls, ref) /\ (Len(ls) < Len(b) + 1 => Len(ls) = Len(ref))
  BY <1>3 DEF ParseAgrees
<1>5. /\ ls \in Seq(LineRecords) /\ Len(ls) <= Len(ref)
      /\ \A i \in 1 .. Len(ls) : ls[i] = ref[i]
  BY <1>4 DEF FirstOf
<1>6. ref \in Seq(LineRecords) /\ Len(ref) <= Len(T) - base  BY DEF LinesOf
<1>7. Len(T) - base = Len(b)  BY <1>1 DEF ReachesEnd
<1>8. Len(ls) < Len(b) + 1
  <2>1. ASSUME NEW k \in Nat, NEW m \in Nat, NEW n \in Nat, k <= m, m <= n PROVE k < n + 1
    BY <2>1
  <2>2. Len(ls) \in Nat /\ Len(ref) \in Nat  BY <1>5, <1>6
  <2>3. Len(ref) <= Len(b)  BY <1>6, <1>7
  <2> QED BY <1>1, <1>5, <2>1, <2>2, <2>3
<1>9. Len(ls) = Len(ref)  BY <1>4, <1>8
<1> QED BY <1>5, <1>6, <1>9, SeqEqual

AnswersLast(in, answered) ==
    answered.kind = "ok" => answered.lines = LastOf(in.n, ObjectLines(in.content))

\* tail_lines answers with the last lines.
LEMMA TailIsTrue ==
    ASSUME NEW in \in Inputs, Size(in) > 0
    PROVE  AnswersLast(in, TailLines(in))
<1>1. PICK b, base, eof, start :
         /\ TailParts(in, b, base, eof, start)
         /\ TailLines(in) = TailAnswer(in, b, base, eof, start)
  BY TailIs
<1> PICK T : T = in.content  OBVIOUS
<1> PICK n : n = in.n  OBVIOUS
<1>2. /\ Parts(in, b, base, eof)
      /\ start = 0 => base = 0
      /\ ~eof => in.force
  BY <1>1 DEF TailParts
<1>3. /\ T \in Seq(Bytes)
      /\ n \in Nat \ {0}
      /\ IsWindow(T, b, base)
      /\ b \in Seq(Bytes) /\ base \in Nat /\ Len(b) \in Nat
      /\ base \in 0 .. Len(T)
      /\ eof \in BOOLEAN
      /\ eof => ReachesEnd(T, b, base)
      /\ Len(b) > 0 \/ eof => Aligned(T, base)
  BY <1>2, PartsOf
<1> PICK t : t = ParseTail(b, base, eof, n)  OBVIOUS
<1>4. TailLines(in) = IF BinaryPrefix(b) THEN Refused("encoding")
                      ELSE IF in.force /\ ~eof THEN Refused("pending")
                      ELSE IF ~Fails(t) /\ Len(t) < n /\ start # 0 THEN Refused("pending")
                      ELSE Lines(t)
  BY <1>1 DEF TailAnswer
<1> SUFFICES ASSUME TailLines(in).kind = "ok"
             PROVE  TailLines(in).lines = LastOf(n, ObjectLines(T))
  BY DEF AnswersLast
<1>5. /\ eof /\ ~Fails(t)
      /\ ~(Len(t) < n /\ start # 0)
      /\ TailLines(in).lines = t
  BY <1>2, <1>4, AnsweredLines, RefusedLines
<1>6. ReachesEnd(T, b, base) /\ Aligned(T, base) /\ eof = TRUE  BY <1>3, <1>5
<1>7. PICK ls :
         /\ ls = ParseUpTo(b, base, eof, Len(b) + 1)
         /\ Fails(ls) => ParseTail(b, base, eof, n) = ls
         /\ ~Fails(ls) => /\ IsEnd(ls, ParseTail(b, base, eof, n), n)
                          /\ ~Fails(ParseTail(b, base, eof, n))
  BY <1>3, TailOfParse
<1>8. ~Fails(ls) /\ IsEnd(ls, t, n)  BY <1>5, <1>7
<1>9. ParsedFrom(T, b, base, TRUE, Len(b) + 1, ls)
  <2>1. ls = ParseUpTo(b, base, TRUE, Len(b) + 1)  BY <1>6, <1>7, Zenon
  <2> QED BY <1>6, <1>8, <2>1 DEF ParsedFrom
<1> PICK ref : ref = LinesFrom(T, StartsFrom(T, base))  OBVIOUS
<1>10. LinesOf(T, base, ref)  BY <1>3, <1>6, Reference
<1>11. ls = ref  BY <1>3, <1>6, <1>9, <1>10, ParsedAll
<1>12. ref \in Seq(LineRecords)  BY <1>10 DEF LinesOf
<1>13. ObjectLines(T) \in Seq(LineRecords)  BY <1>3, AllLines DEF LinesOf
<1>14. EndsWith(ObjectLines(T), ref)  BY <1>3, TailOfAll
<1>15. Len(t) = n \/ ref = ObjectLines(T)
  <2>1. CASE start = 0
    <3>1. ref = ObjectLines(T)  BY <1>2, <1>3, <2>1, AllLines
    <3> QED BY <3>1
  <2>2. CASE start # 0
    <3>1. Len(t) = Least(n, Len(ref))  BY <1>8, <1>11 DEF IsEnd
    <3>2. Len(ref) \in Nat  BY <1>12
    <3>3. ~(Len(t) < n)  BY <1>5, <2>2
    <3>4. ASSUME NEW k \in Nat, NEW m \in Nat, ~(Least(k, m) < k) PROVE Least(k, m) = k
      BY <3>4 DEF Least
    <3> QED BY <1>3, <3>1, <3>2, <3>3, <3>4
  <2> QED BY <2>1, <2>2
<1>16. t = LastOf(n, ObjectLines(T))
  <2>1. IsEnd(ref, t, n)  BY <1>8, <1>11
  <2> QED BY <1>3, <1>12, <1>13, <1>14, <1>15, <2>1, EndAreLast
<1> QED BY <1>5, <1>16

\* count_lines answers with the number of lines.
LEMMA CountIsTrue ==
    ASSUME NEW in \in Inputs, Size(in) > 0, CountLines(in).kind = "ok"
    PROVE  CountLines(in).count = Len(ObjectLines(in.content))
<1>1. in.content \in Seq(Bytes) /\ Size(in) = Len(in.content) /\ Size(in) \in Nat
  BY InputShape
<1>2. PICK ls : ls = ParseUpTo(in.content, 0, TRUE, Size(in) + 1)  OBVIOUS
<1>3. CountLines(in) = IF BinaryPrefix(in.content) \/ Fails(ls) THEN Refused("encoding")
                       ELSE [kind |-> "ok", lines |-> <<>>,
                             count |-> CountParsed(in.content)]
  BY <1>2, Zenon DEF CountLines
<1>4. Refused("encoding").kind # "ok"  BY RefusedLines
<1>5. ~Fails(ls)
  <2> SUFFICES ASSUME Fails(ls) PROVE FALSE  OBVIOUS
  <2>1. CountLines(in) = Refused("encoding")  BY <1>3, Zenon
  <2> QED BY <1>4, <2>1
<1>6. CountLines(in).count = CountParsed(in.content)
  <2>1. ~(BinaryPrefix(in.content) \/ Fails(ls))
    <3> SUFFICES ASSUME BinaryPrefix(in.content) \/ Fails(ls) PROVE FALSE  OBVIOUS
    <3>1. CountLines(in) = Refused("encoding")  BY <1>3, Zenon
    <3> QED BY <1>4, <3>1
  <2>2. CountLines(in) = [kind |-> "ok", lines |-> <<>>, count |-> CountParsed(in.content)]
    BY <1>3, <2>1, Zenon
  <2> QED BY <2>2
<1>7. CountParsed(in.content) = Len(ls)
  <2>1. CountParsed(in.content)
          = Len(ParseUpTo(in.content, 0, TRUE, Len(in.content) + 1))
    BY Zenon DEF CountParsed
  <2> QED BY <1>1, <1>2, <2>1, Zenon
<1>8. IsWindow(in.content, in.content, 0)  BY <1>1 DEF IsWindow
<1>9. ReachesEnd(in.content, in.content, 0)  BY <1>1 DEF ReachesEnd
<1>10. ParsedFrom(in.content, in.content, 0, TRUE, Len(in.content) + 1, ls)
  <2>1. ls = ParseUpTo(in.content, 0, TRUE, Len(in.content) + 1)
    BY <1>1, <1>2, Zenon
  <2> QED BY <1>5, <1>9, <2>1, Zenon DEF ParsedFrom
<1>11. LinesOf(in.content, 0, ObjectLines(in.content))  BY <1>1, AllLines
<1>12. ls = ObjectLines(in.content)
  BY <1>1, <1>8, <1>9, <1>10, <1>11, ParsedAll
<1> QED BY <1>6, <1>7, <1>12

\* mid_lines answers from the first line that starts after the middle.
LEMMA MidIsTrue ==
    ASSUME NEW in \in Inputs, Size(in) > 0,
           \E s \in LineStarts(in.content) : s > Size(in) \div 2,
           MidLines(in).kind = "ok"
    PROVE  MidLines(in).lines
             = Upto(in.n, LinesFrom(in.content,
                                    {s \in LineStarts(in.content) : s > Size(in) \div 2}))
<1>1. PICK b, base, eof :
         /\ MidParts(in, b, base, eof)
         /\ MidLines(in) = MidAnswer(in, b, base, eof)
  BY MidIs
<1>2. /\ Parts(in, b, base, eof)
      /\ Len(b) > 0 \/ eof => AfterMiddle(in.content, Size(in) \div 2, base)
  BY <1>1 DEF MidParts
<1>3. /\ in.n \in Nat \ {0}
      /\ b \in Seq(Bytes) /\ base \in Nat /\ Len(b) \in Nat
      /\ eof \in BOOLEAN
  BY <1>2, PartsOf
<1> PICK ls : ls = ParseUpTo(b, base, eof, in.n)  OBVIOUS
<1>4. MidLines(in) = IF in.force /\ ~eof THEN Refused("pending")
                     ELSE IF BinaryPrefix(b) THEN Refused("encoding")
                     ELSE IF ~Fails(ls) /\ Len(ls) < in.n /\ ~eof THEN Refused("pending")
                     ELSE Lines(ls)
  BY <1>1 DEF MidAnswer
<1>5. ~(Len(ls) < in.n /\ ~eof) /\ ~Fails(ls) /\ MidLines(in) = Lines(ls)
  BY <1>4, AnsweredLines, RefusedLines
<1>6. ParsedShape(b, base, eof, in.n, ls)  BY <1>3, ParseShape
<1>7. Len(ls) = in.n \/ eof
  <2>1. Len(ls) \in Nat /\ Len(ls) <= in.n  BY <1>6 DEF ParsedShape
  <2>2. Len(ls) < in.n \/ Len(ls) = in.n  BY <1>3, <2>1
  <2> QED BY <1>5, <2>2
<1>8. Len(b) > 0 \/ eof
  <2> SUFFICES ASSUME ~eof PROVE Len(b) > 0  OBVIOUS
  <2>1. 1 \in 1 .. Len(ls)  BY <1>3, <1>7
  <2>2. Framed(b, base, ls[1])  BY <1>6, <2>1 DEF ParsedShape
  <2>3. \E p \in 1 .. Len(b) : TRUE  BY <2>2 DEF Framed
  <2> QED BY <1>3, <2>3
<1>9. AnswersUpto(in, Lines(ls), base)  BY <1>2, <1>7, AnsweredUpto
<1>10. Lines(ls).lines = Upto(in.n, LinesFrom(in.content, StartsFrom(in.content, base)))
  <2>1. Lines(ls).kind = "ok"  BY <1>5
  <2> QED BY <1>9, <2>1 DEF AnswersUpto
<1>11. \A s \in LineStarts(in.content) : s > Size(in) \div 2 <=> s >= base
  BY <1>2, <1>8 DEF AfterMiddle
<1>12. {s \in LineStarts(in.content) : s > Size(in) \div 2} = StartsFrom(in.content, base)
  BY <1>11 DEF StartsFrom
<1> QED BY <1>5, <1>10, <1>12

\* An empty object has no lines.
LEMMA NoLines ==
    ASSUME NEW in \in Inputs, Size(in) = 0
    PROVE  /\ LineStarts(in.content) = {}
           /\ ObjectLines(in.content) = <<>>
           /\ Result(in) = [kind |-> "ok", lines |-> <<>>, count |-> 0]
           /\ Upto(in.n, <<>>) = <<>> /\ LastOf(in.n, <<>>) = <<>>
<1> PICK T : T = in.content  OBVIOUS
<1>1. T \in Seq(Bytes) /\ Len(T) = 0 /\ in.n \in Nat  BY InputShape
<1>2. LineStarts(T) = {}  BY <1>1 DEF LineStarts
<1>3. LinesOf(T, 0, ObjectLines(T))  BY <1>1, AllLines
<1>4. ObjectLines(T) \in Seq(LineRecords) /\ Len(ObjectLines(T)) <= 0 - 0
  BY <1>1, <1>3 DEF LinesOf
<1>5. ObjectLines(T) = <<>>
  <2>1. Len(ObjectLines(T)) = 0  BY <1>4
  <2> QED BY <1>4, <2>1, EmptySeq
<1>6. Result(in) = [kind |-> "ok", lines |-> <<>>, count |-> 0]
  <2>1. Result(in) = Lines(<<>>)  BY DEF Result
  <2>2. DOMAIN <<>> = {} /\ Len(<<>>) = 0  OBVIOUS
  <2>3. ~Fails(<<>>)  BY <2>2 DEF Fails
  <2> QED BY <2>1, <2>2, <2>3 DEF Lines
<1>7. <<>> \in Seq(LineRecords) /\ Len(<<>>) = 0  OBVIOUS
<1>8. Least(in.n, 0) = 0  BY <1>1 DEF Least
<1>9. Upto(in.n, <<>>) = <<>>
  <2>1. FirstOf(<<>>, <<>>)  BY <1>7 DEF FirstOf
  <2> QED BY <1>1, <1>7, <1>8, <2>1, FirstAreUpto
<1>10. LastOf(in.n, <<>>) = <<>>
  <2>1. EndsWith(<<>>, <<>>) /\ IsEnd(<<>>, <<>>, in.n)
    BY <1>7, <1>8 DEF EndsWith, IsEnd
  <2> QED BY <1>1, <1>7, <2>1, EndAreLast
<1> QED BY <1>2, <1>5, <1>6, <1>9, <1>10

\* An answer with lines, and the count of an object that was counted, are
\* those of the helper that was called.
LEMMA ResultOfHelper ==
    ASSUME NEW in \in Inputs, Size(in) # 0, Result(in).kind = "ok"
    PROVE  /\ in.op = "head_lines"  => Result(in) = HeadLines(in)
           /\ in.op = "tail_lines"  => Result(in) = TailLines(in)
           /\ in.op = "mid_lines"   => Result(in) = MidLines(in)
           /\ in.op = "count_lines" => Result(in) = CountLines(in)
<1>1. ~(in.op = "count_lines" /\ Size(in) > in.pending)
  <2> SUFFICES ASSUME in.op = "count_lines" /\ Size(in) > in.pending PROVE FALSE
    OBVIOUS
  <2>1. Result(in) = Refused("pending")  BY DEF Result
  <2> QED BY <2>1, RefusedLines
<1>2. ~BinaryPrefix(ProbeWindow(in))
  <2> SUFFICES ASSUME BinaryPrefix(ProbeWindow(in)) PROVE FALSE  OBVIOUS
  <2>1. Result(in) = Refused("encoding")  BY <1>1 DEF Result
  <2> QED BY <2>1, RefusedLines
<1>3. Result(in) = CASE in.op = "head_lines"  -> HeadLines(in)
                     [] in.op = "tail_lines"  -> TailLines(in)
                     [] in.op = "mid_lines"   -> MidLines(in)
                     [] in.op = "count_lines" -> CountLines(in)
  BY <1>1, <1>2 DEF Result
<1> QED BY <1>3

\* What LinesAgree says of one call, its answer being the result.
LEMMA ResultAgrees ==
    ASSUME NEW in \in Inputs, Result(in).kind = "ok"
    PROVE  /\ in.op = "head_lines"  => Result(in).lines = Upto(in.n, ObjectLines(in.content))
           /\ in.op = "tail_lines"  => Result(in).lines = LastOf(in.n, ObjectLines(in.content))
           /\ in.op = "count_lines" => Result(in).count = Len(ObjectLines(in.content))
<1>1. in.content \in Seq(Bytes) /\ Size(in) \in Nat  BY InputShape
<1>2. CASE Size(in) = 0
  <2>1. Len(<<>>) = 0  OBVIOUS
  <2>2. Result(in).lines = <<>> /\ Result(in).count = 0  BY <1>2, NoLines
  <2> QED BY <1>2, <2>1, <2>2, NoLines
<1>3. CASE Size(in) # 0
  <2>1. Size(in) > 0  BY <1>1, <1>3
  <2>2. ASSUME in.op = "head_lines"
        PROVE  Result(in).lines = Upto(in.n, ObjectLines(in.content))
    <3>1. Result(in) = HeadLines(in)  BY <1>3, <2>2, ResultOfHelper
    <3>2. AnswersUpto(in, HeadLines(in), 0)  BY <2>1, HeadIsTrue
    <3>3. ObjectLines(in.content) = LinesFrom(in.content, StartsFrom(in.content, 0))
      BY <1>1, AllLines
    <3> QED BY <3>1, <3>2, <3>3 DEF AnswersUpto
  <2>3. ASSUME in.op = "tail_lines"
        PROVE  Result(in).lines = LastOf(in.n, ObjectLines(in.content))
    <3>1. Result(in) = TailLines(in)  BY <1>3, <2>3, ResultOfHelper
    <3>2. AnswersLast(in, TailLines(in))  BY <2>1, TailIsTrue
    <3> QED BY <3>1, <3>2 DEF AnswersLast
  <2>4. ASSUME in.op = "count_lines"
        PROVE  Result(in).count = Len(ObjectLines(in.content))
    <3>1. Result(in) = CountLines(in)  BY <1>3, <2>4, ResultOfHelper
    <3> QED BY <2>1, <3>1, CountIsTrue
  <2> QED BY <2>2, <2>3, <2>4
<1> QED BY <1>2, <1>3

-----------------------------------------------------------------------------
(* The specification. *)

\* A call is running or has the answer of its input.
AnswerIsResult ==
    /\ input \in Inputs
    /\ answer = Refused("running") \/ answer = Result(input)

\* Whatever the calls, an answer is the one Result computes from the object.
THEOREM Answers == Spec => []AnswerIsResult
<1>1. Init => AnswerIsResult
  BY DEF Init, AnswerIsResult
<1>2. AnswerIsResult /\ [Next]_vars => AnswerIsResult'
  BY DEF AnswerIsResult, Next, Call, vars
<1> QED BY <1>1, <1>2, PTL DEF Spec

\* No line that head_lines, tail_lines or mid_lines returns holds a NUL or
\* malformed text, for every object and whatever the windows.
THEOREM BinaryKept == Spec => []BinaryIsWithheld
<1>1. AnswerIsResult => BinaryIsWithheld
  <2> SUFFICES ASSUME AnswerIsResult PROVE BinaryIsWithheld  OBVIOUS
  <2>1. AllText(input.content, answer.lines)
    BY RefusedLines, ResultIsText DEF AnswerIsResult
  <2> QED BY <2>1 DEF AllText, BinaryIsWithheld
<1> QED BY <1>1, Answers, PTL

\* An object of text is never refused as binary, wherever its windows cut it,
\* and is answered whenever the pending bytes can hold it.
THEOREM TextAnswered == Spec => []TextIsAnswered
<1>1. AnswerIsResult => TextIsAnswered
  <2> SUFFICES ASSUME AnswerIsResult, IsText(input.content)
               PROVE  /\ answer.kind # "encoding"
                      /\ Size(input) <= input.pending => answer.kind \in {"ok", "running"}
    BY DEF TextIsAnswered
  <2>1. CASE answer = Refused("running")  BY <2>1, RefusedLines
  <2>2. CASE answer = Result(input)
    BY <2>2, ResultOfText DEF AnswerIsResult
  <2> QED BY <2>1, <2>2 DEF AnswerIsResult
<1> QED BY <1>1, Answers, PTL

\* The lines head_lines and tail_lines answer with, and the number count_lines
\* answers with, are those of the whole object, for every object, line count,
\* probe and pending limit: no window and no alignment shows through.
THEOREM LinesTrue == Spec => []LinesAgree
<1>1. AnswerIsResult => LinesAgree
  <2> SUFFICES ASSUME AnswerIsResult, answer.kind = "ok"
               PROVE  /\ input.op = "head_lines"
                           => answer.lines = Upto(input.n, ObjectLines(input.content))
                      /\ input.op = "tail_lines"
                           => answer.lines = LastOf(input.n, ObjectLines(input.content))
                      /\ input.op = "count_lines"
                           => answer.count = Len(ObjectLines(input.content))
    BY DEF LinesAgree, Answered
  <2>1. input \in Inputs /\ answer = Result(input)
    BY RefusedLines DEF AnswerIsResult
  <2> QED BY <2>1, ResultAgrees
<1> QED BY <1>1, Answers, PTL

\* The lines mid_lines answers with are the first that start after the
\* object's middle byte, whenever a line does.
THEOREM MidAligned == Spec => []MidIsAligned
<1>1. AnswerIsResult => MidIsAligned
  <2> DEFINE starts == {s \in LineStarts(input.content) : s > Size(input) \div 2}
  <2> SUFFICES ASSUME AnswerIsResult, answer.kind = "ok", input.op = "mid_lines",
                      starts # {}
               PROVE  answer.lines = Upto(input.n, LinesFrom(input.content, starts))
    BY DEF MidIsAligned, Answered
  <2>1. input \in Inputs /\ answer = Result(input)
    BY RefusedLines DEF AnswerIsResult
  <2>2. \E s \in LineStarts(input.content) : s > Size(input) \div 2  OBVIOUS
  <2>3. Size(input) # 0  BY <2>1, <2>2, NoLines
  <2>4. Size(input) > 0  BY <2>1, <2>3, InputShape
  <2>5. answer = MidLines(input)  BY <2>1, <2>3, ResultOfHelper
  <2> QED BY <2>1, <2>2, <2>4, <2>5, MidIsTrue
<1> QED BY <1>1, Answers, PTL
=============================================================================
