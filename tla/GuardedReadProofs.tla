--------------------------- MODULE GuardedReadProofs ---------------------------
(***************************************************************************)
(* The safety of guarded reads for any contents, sizes, reads and number   *)
(* of versions, and their refinement of SelectedRead.                      *)
(*                                                                         *)
(* The invariant has a part for each party.  Recorded: what the bucket's   *)
(* history always looks like.  Selecting: the selector names the target,   *)
(* whatever was written since.  Accepting: an answer that was accepted is  *)
(* the target's window, and the declared length accounts for every byte.   *)
(***************************************************************************)
EXTENDS GuardedRead, WellFoundedInduction, SequenceTheorems, TLAPS

\* Markers have no content; only versions without an id are replaced, and
\* never the last one.
Recorded ==
    /\ Len(history) > 0
    /\ \A i \in DOMAIN history :
          /\ history[i].marker <=> history[i].content = 0
          /\ history[i].state = "replaced" => ~history[i].native
    /\ history[Len(history)].state # "replaced"

Phased ==
    /\ pc = "ended" <=> answer # "none"
    /\ pc = "observe" => target = 0
    /\ pc \in {"read", "stream"} =>
          target # 0 /\ bound # 0 /\ selection.kind # "none"
    /\ answer = "conflict" => bound # 0
    /\ pc \in {"observe", "read"} => body = NoBody /\ got = 0
    /\ body.content = 0 => body = NoBody
    /\ pc = "stream" => body.content # 0 /\ read.op # "head"
    /\ got > 0 => body.content # 0 /\ read.op # "head"

\* Nothing was written since the selector was bound, nor its version purged.
Untouched == Len(history) = seen /\ history[bound].state # "purged"

\* The version a selector names keeps its id and content; a tag is current
\* until the key is written or the bound version purged.
Selecting ==
    /\ selection.kind = "version" =>
          /\ selection.token \in DOMAIN history
          /\ history[selection.token].native
          /\ history[selection.token].content = target
    /\ selection.kind = "validator" => selection.token = target
    /\ (selection.kind = "validator" /\ pc = "read" /\ Untouched) =>
          /\ bound \in Kept /\ Max(Kept) = bound
          /\ ~history[bound].weak /\ history[bound].content = target

FirstByte == IF read.op = "range" THEN read.offset ELSE 0

Accepting ==
    body.content # 0 =>
        /\ body.content = target
        /\ body.total \in {Unknown, SizeOf(target)}
        /\ read.op # "head" =>
              /\ body.first = FirstByte
              /\ FirstByte <= WindowEnd(SizeOf(target))
              /\ body.remaining = Unknown =>
                    /\ read.op = "get" /\ body.total = Unknown
                    /\ body.sent <= SizeOf(target)
              /\ body.remaining # Unknown =>
                    body.remaining + got = WindowEnd(SizeOf(target)) - FirstByte
              /\ (read.op = "get" /\ body.remaining # Unknown) => body.total # Unknown

Inv == /\ TypeOK /\ Recorded /\ Phased /\ Selecting /\ Accepting
       /\ ConflictIsReal /\ MissIsReal

-----------------------------------------------------------------------------
(* Least and greatest elements. *)

LEMMA LeastNatural ==
    ASSUME NEW T \in SUBSET Nat, T # {}
    PROVE  \E n \in T : \A m \in T : n <= m
<1> DEFINE R == OpToRel(<, Nat)
<1>1. IsWellFoundedOn(R, Nat)
  BY NatLessThanWellFounded
<1>2. \A m, n \in Nat : m < n => <<m, n>> \in R
  BY DEF OpToRel
<1> HIDE DEF R
<1>3. PICK n \in T : \A m \in T : ~(<<m, n>> \in R)
  BY <1>1, WFMin
<1>4. ASSUME NEW m \in T PROVE n <= m
  <2>1. m \in Nat /\ n \in Nat  OBVIOUS
  <2>2. ~(m < n)  BY <1>2, <1>3, <2>1
  <2> QED BY <2>1, <2>2
<1> QED BY <1>4

LEMMA MaxOf ==
    ASSUME NEW n \in Nat, NEW S \in SUBSET (0 .. n), S # {}
    PROVE  Max(S) \in S /\ \A y \in S : y <= Max(S)
<1> DEFINE T == {n - x : x \in S}
<1>0. \A x \in S : x \in Nat /\ n - x \in Nat  OBVIOUS
<1>1. T \in SUBSET Nat /\ T # {}  BY <1>0
<1>2. PICK t \in T : \A u \in T : t <= u  BY <1>1, LeastNatural
<1>3. PICK x \in S : t = n - x  BY <1>2
<1>4. ASSUME NEW y \in S PROVE x >= y
  <2>1. t <= n - y  BY <1>2
  <2> QED BY <1>0, <1>3, <2>1
<1>5. \E m \in S : \A y \in S : m >= y  BY <1>4
<1>6. Max(S) \in S /\ \A y \in S : Max(S) >= y  BY <1>5 DEF Max
<1> QED BY <1>6

\* A part that holds the greatest element has the same one.
LEMMA MaxOfPart ==
    ASSUME TypeOK, NEW S \in SUBSET Kept, Max(Kept) \in S
    PROVE  Max(S) = Max(Kept)
<1>1. Len(history) \in Nat /\ DOMAIN history = 1 .. Len(history)  BY DEF TypeOK
<1>2. Kept \in SUBSET (0 .. Len(history))  BY <1>1 DEF Kept
<1>3. S \in SUBSET (0 .. Len(history))  BY <1>2
<1>4. Max(S) \in S /\ \A y \in S : y <= Max(S)
  <2>1. S # {}  OBVIOUS
  <2> QED BY <1>1, <1>3, <2>1, MaxOf
<1>5. Max(Kept) \in Kept /\ \A y \in Kept : y <= Max(Kept)  BY <1>1, <1>2, MaxOf
<1>6. Max(S) \in 0 .. Len(history) /\ Max(Kept) \in 0 .. Len(history)
  BY <1>2, <1>3, <1>4, <1>5
<1>7. Max(S) <= Max(Kept) /\ Max(Kept) <= Max(S)  BY <1>4, <1>5
<1> QED BY <1>1, <1>6, <1>7

LEMMA KeptMax ==
    ASSUME TypeOK, Kept # {}
    PROVE  /\ Max(Kept) \in Kept /\ Max(Kept) \in DOMAIN history
           /\ Max(Kept) \in Nat \ {0}
<1>1. Len(history) \in Nat /\ DOMAIN history = 1 .. Len(history)  BY DEF TypeOK
<1>2. Kept \in SUBSET (0 .. Len(history))  BY <1>1 DEF Kept
<1>3. Max(Kept) \in Kept  BY <1>1, <1>2, MaxOf
<1> QED BY <1>1, <1>3 DEF Kept

\* Nothing but a purge leaves the bucket without a kept version.
LEMMA KeptUnlessPurged ==
    ASSUME TypeOK, Recorded, ~Purged
    PROVE  Kept # {}
<1>1. Len(history) \in DOMAIN history  BY DEF TypeOK, Recorded
<1>2. history[Len(history)] \in Versions  BY <1>1, ElementOfSeq DEF TypeOK
<1>3. history[Len(history)].state = "kept"  BY <1>1, <1>2 DEF Recorded, Purged, Versions
<1> QED BY <1>1, <1>3 DEF Kept

-----------------------------------------------------------------------------
(* The other writers. *)

\* What any writer's step is to a reader: contents and ids stay, and without
\* a new version all that happens to one is its purge.
Grown ==
    /\ history' \in Seq(Versions)
    /\ Len(history) <= Len(history')
    /\ \A i \in DOMAIN history :
          /\ i \in DOMAIN history'
          /\ history'[i].content = history[i].content
          /\ history'[i].native = history[i].native
          /\ history'[i].weak = history[i].weak
          /\ history'[i].marker = history[i].marker
          /\ history[i].state = "purged" => history'[i].state = "purged"
    /\ Len(history') = Len(history) =>
          \A i \in DOMAIN history : history'[i].state \in {history[i].state, "purged"}
    /\ Recorded'

LEMMA WrittenGrows ==
    ASSUME TypeOK, Recorded, NEW v \in Versions, v.state = "kept",
           v.marker <=> v.content = 0, history' = Written(v)
    PROVE  Grown
<1> DEFINE Old == [i \in DOMAIN history |->
              IF i \in Kept /\ ~versioned /\ ~history[i].native
              THEN [history[i] EXCEPT !.state = "replaced"] ELSE history[i]]
           n == Len(history)
<1>1. n \in Nat /\ DOMAIN history = 1 .. n /\ n > 0
  BY DEF TypeOK, Recorded
<1>2. \A i \in 1 .. n : history[i] \in Versions
  BY <1>1, ElementOfSeq DEF TypeOK
<1>3. \A i \in 1 .. n : [history[i] EXCEPT !.state = "replaced"] \in Versions
  BY <1>2 DEF Versions
<1>4. Old \in [1 .. n -> Versions]
  BY <1>1, <1>2, <1>3
<1>5. Old \in Seq(Versions) /\ Len(Old) = n
  BY <1>1, <1>4, SeqDef, LenProperties
<1>6. history' = Append(Old, v)
  BY DEF Written
<1> HIDE DEF Old
<1>7. /\ history' \in Seq(Versions) /\ Len(history') = n + 1
      /\ DOMAIN history' = 1 .. n + 1
      /\ \A i \in 1 .. n : history'[i] = Old[i]
      /\ history'[n + 1] = v
  BY <1>1, <1>5, <1>6, AppendProperties, LenProperties
<1>8. ASSUME NEW i \in 1 .. n
      PROVE  /\ Old[i].content = history[i].content
             /\ Old[i].native = history[i].native
             /\ Old[i].weak = history[i].weak
             /\ Old[i].marker = history[i].marker
             /\ \/ Old[i].state = history[i].state
                \/ /\ Old[i].state = "replaced" /\ ~history[i].native
                   /\ history[i].state = "kept"
  BY <1>1, <1>2 DEF Old, Kept, Versions
<1>9. Recorded'
  BY <1>1, <1>7, <1>8 DEF Recorded
<1>10. ASSUME NEW i \in DOMAIN history
       PROVE  /\ i \in DOMAIN history'
              /\ history'[i].content = history[i].content
              /\ history'[i].native = history[i].native
              /\ history'[i].weak = history[i].weak
              /\ history'[i].marker = history[i].marker
              /\ history[i].state = "purged" => history'[i].state = "purged"
  <2>1. i \in 1 .. n /\ i \in 1 .. n + 1  BY <1>1
  <2>2. history'[i] = Old[i]  BY <1>7, <2>1
  <2> QED BY <1>7, <1>8, <2>1, <2>2
<1>11. Len(history) <= Len(history') /\ Len(history') # Len(history)
  <2>1. n \in Nat /\ Len(history') = n + 1  BY <1>1, <1>7
  <2> HIDE DEF n
  <2>2. n <= Len(history') /\ Len(history') # n  BY <2>1
  <2> QED BY <2>2 DEF n
<1> QED BY <1>7, <1>9, <1>10, <1>11 DEF Grown

LEMMA PurgeGrows ==
    ASSUME TypeOK, Recorded, NEW i \in Kept,
           history' = [history EXCEPT ![i].state = "purged"]
    PROVE  Grown
<1>1. Len(history) \in Nat /\ DOMAIN history = 1 .. Len(history) /\ i \in 1 .. Len(history)
  BY DEF TypeOK, Kept
<1>2. \A j \in 1 .. Len(history) : history[j] \in Versions
  BY <1>1, ElementOfSeq DEF TypeOK
<1>3. [history[i] EXCEPT !.state = "purged"] \in Versions
  BY <1>1, <1>2 DEF Versions
<1>4. history' = [history EXCEPT ![i] = [history[i] EXCEPT !.state = "purged"]]
  OBVIOUS
<1>5. /\ history' \in Seq(Versions) /\ Len(history') = Len(history)
      /\ DOMAIN history' = 1 .. Len(history)
      /\ \A j \in 1 .. Len(history) :
            history'[j] = IF j = i THEN [history[i] EXCEPT !.state = "purged"] ELSE history[j]
  BY <1>1, <1>3, <1>4, ExceptSeq, LenProperties DEF TypeOK
<1>7. ASSUME NEW j \in 1 .. Len(history)
      PROVE  /\ history'[j].content = history[j].content
             /\ history'[j].native = history[j].native
             /\ history'[j].weak = history[j].weak
             /\ history'[j].marker = history[j].marker
             /\ history'[j].state \in {history[j].state, "purged"}
  BY <1>1, <1>2, <1>5, <1>7 DEF Versions
<1>8. Recorded'
  BY <1>1, <1>5, <1>7 DEF Recorded
<1>9. ASSUME NEW j \in 1 .. Len(history), history[j].state = "purged"
      PROVE  history'[j].state = "purged"
  BY <1>7, <1>9
<1> QED BY <1>1, <1>5, <1>7, <1>8, <1>9 DEF Grown

others == <<read, pc, selection, target, bound, seen, body, got, answer>>

LEMMA GrownInv ==
    ASSUME Inv, Grown, versioned' \in BOOLEAN, UNCHANGED others
    PROVE  Inv'
<1> USE DEF Inv
<1>1. TypeOK'
  BY DEF Grown, TypeOK, others
<1>2. Phased'
  BY DEF Phased, others
<1>3. Purged => Purged'
  BY DEF Purged, Grown
<1>4. Selecting'
  <2>1. (selection.kind = "version") =>
           /\ selection.token \in DOMAIN history'
           /\ history'[selection.token].native
           /\ history'[selection.token].content = target
    BY DEF Selecting, Grown
  <2>2. ASSUME selection.kind = "validator", pc = "read", Untouched'
        PROVE  /\ bound \in Kept' /\ Max(Kept') = bound
               /\ ~history'[bound].weak /\ history'[bound].content = target
    <3>1. Len(history') = Len(history) /\ Len(history) = seen
      BY <2>2 DEF Untouched, Grown, TypeOK, others
    <3>2. bound \in DOMAIN history
      BY <2>2 DEF Phased, TypeOK
    <3>3. history[bound].state # "purged" /\ history'[bound].state = history[bound].state
      BY <2>2, <3>1, <3>2 DEF Untouched, Grown, others
    <3>4. /\ bound \in Kept /\ Max(Kept) = bound
          /\ ~history[bound].weak /\ history[bound].content = target
      BY <2>2, <3>1, <3>3 DEF Untouched, Selecting
    <3>5. bound \in Kept' /\ Kept' \subseteq Kept
      <4>1. DOMAIN history' = DOMAIN history
        BY <3>1, LenProperties DEF Grown, TypeOK
      <4>2. bound \in Kept'
        BY <3>2, <3>3, <3>4, <4>1 DEF Kept
      <4>3. ASSUME NEW i \in DOMAIN history', history'[i].state = "kept"
            PROVE  history[i].state = "kept"
        BY <3>1, <4>1, <4>3 DEF Grown
      <4> QED BY <4>1, <4>2, <4>3 DEF Kept
    <3>6. Max(Kept') = bound
      BY <3>4, <3>5, MaxOfPart
    <3> QED BY <3>2, <3>4, <3>5, <3>6 DEF Grown
  <2> QED BY <2>1, <2>2 DEF Selecting, others
<1>5. Accepting'
  BY DEF Accepting, FirstByte, WindowEnd, others
<1>6. ConflictIsReal'
  <2>1. answer = "conflict" => bound \in DOMAIN history
    BY DEF Phased, TypeOK
  <2> QED BY <2>1 DEF ConflictIsReal, Grown, TypeOK, others
<1>7. MissIsReal'
  BY <1>3 DEF MissIsReal, Grown, others
<1> QED BY <1>1, <1>2, <1>4, <1>5, <1>6, <1>7 DEF Grown

LEMMA WriterInv ==
    ASSUME Inv, Writer
    PROVE  Inv'
<1>1. CASE Write
  <2>1. PICK c \in Contents, weak \in BOOLEAN : history' = Written(Object(c, weak))
    BY <1>1 DEF Write
  <2>2. /\ Object(c, weak) \in Versions /\ Object(c, weak).state = "kept"
        /\ Object(c, weak).marker <=> Object(c, weak).content = 0
    BY ContentsAssumption DEF Object, Versions, Inv, TypeOK
  <2> QED BY <1>1, <2>1, <2>2, WrittenGrows, GrownInv DEF Write, Inv, TypeOK, others
<1>2. CASE Remove
  <2> DEFINE v == [content |-> 0, weak |-> FALSE, native |-> versioned, marker |-> TRUE,
                   state |-> "kept"]
  <2>1. v \in Versions /\ v.state = "kept" /\ (v.marker <=> v.content = 0)
    BY DEF Versions, Inv, TypeOK
  <2>2. history' = Written(v)
    BY <1>2 DEF Remove
  <2> QED BY <1>2, <2>1, <2>2, WrittenGrows, GrownInv DEF Remove, Inv, TypeOK, others
<1>3. CASE Purge
  BY <1>3, PurgeGrows, GrownInv DEF Purge, Inv, TypeOK, others
<1>4. CASE SetVersioning
  BY <1>4 DEF SetVersioning, Inv, TypeOK, Recorded, Phased, Selecting, Accepting, FirstByte,
     WindowEnd, Untouched, ConflictIsReal, MissIsReal, Purged, Kept
<1> QED BY <1>1, <1>2, <1>3, <1>4 DEF Writer

-----------------------------------------------------------------------------
(* Observing. *)

LEMMA SelectorKinds ==
    ASSUME TypeOK
    PROVE  /\ history \in Seq(Versions) /\ Len(history) \in Nat
           /\ DOMAIN history = 1 .. Len(history)
           /\ \A i \in DOMAIN history : history[i] \in Versions
BY ElementOfSeq, LenProperties DEF TypeOK

\* The current object has a content.
LEMMA CurrentObject ==
    ASSUME TypeOK, Recorded, Exists
    PROVE  /\ Max(Kept) \in DOMAIN history /\ Max(Kept) \in Nat \ {0}
           /\ Current \in Versions /\ Current.content \in Contents
           /\ Current.content # 0
<1>1. Max(Kept) \in DOMAIN history /\ Max(Kept) \in Nat \ {0}
  BY KeptMax DEF Exists
<1>2. Current \in Versions
  BY <1>1, SelectorKinds DEF Current
<1>3. ~Current.marker /\ Current.content # 0
  BY <1>1 DEF Exists, Current, Recorded
<1> QED BY <1>1, <1>2, <1>3 DEF Versions

\* A miss while observing or reading under a tag is a delete or a purge.
LEMMA NotThere ==
    ASSUME TypeOK, Recorded, ~Exists
    PROVE  Purged \/ \E i \in DOMAIN history : history[i].marker
<1>1. CASE Kept = {}
  BY <1>1, KeptUnlessPurged
<1>2. CASE Kept # {}
  BY <1>2, KeptMax DEF Exists
<1> QED BY <1>1, <1>2

LEMMA BoundInv ==
    ASSUME Inv, pc = "observe", Exists, UNCHANGED <<bucket, read, body, got>>,
           NEW kind, NEW token, Bound(kind, token),
           \/ kind = "version" /\ IdOf(Max(Kept)) # 0 /\ token = Max(Kept)
           \/ kind = "validator" /\ ~Current.weak /\ token = Current.content
    PROVE  Inv'
<1> USE DEF Inv
<1>1. /\ Max(Kept) \in DOMAIN history /\ Max(Kept) \in Nat \ {0}
      /\ Current.content \in Contents /\ Current.content # 0
  BY CurrentObject
<1>2. /\ pc' = "read" /\ target' = Current.content /\ seen' = Len(history) /\ answer' = answer
      /\ bound' = Max(Kept)
      /\ selection' = [kind |-> kind, token |-> token]
      /\ history' = history /\ versioned' = versioned /\ read' = read /\ body' = body
      /\ got' = got
  BY DEF Bound, bucket
<1>3. selection'.kind = kind /\ selection'.token = token
  BY <1>2
<1>4. TypeOK'
  BY <1>1, <1>2 DEF TypeOK
<1>5. Recorded'
  BY <1>2 DEF Recorded
<1>6. Phased'
  BY <1>1, <1>2, <1>3 DEF Phased, NoBody
<1>7. Kept' = Kept /\ Max(Kept) \in Kept
  BY <1>2, KeptMax DEF Exists, Kept
<1>8. Selecting'
  <2>1. CASE kind = "version"
    <3>1. history[Max(Kept)].native
      BY <2>1 DEF IdOf
    <3> QED BY <1>1, <1>2, <1>3, <2>1, <3>1 DEF Selecting, Current
  <2>2. CASE kind = "validator"
    BY <1>1, <1>2, <1>3, <1>7, <2>2 DEF Selecting, Current
  <2> QED BY <2>1, <2>2
<1>9. Accepting'
  BY <1>2 DEF Accepting, Phased, NoBody
<1>10. ConflictIsReal' /\ MissIsReal'
  BY <1>2 DEF ConflictIsReal, MissIsReal, Phased
<1> QED BY <1>4, <1>5, <1>6, <1>8, <1>9, <1>10

\* An ending that hands out nothing more.
LEMMA EndInv ==
    ASSUME Inv, pc # "ended", NEW why, End(why),
           UNCHANGED <<bucket, read, selection, target, bound, seen, body, got>>,
           why \in {"ok", "not_found", "unsupported", "invalid_argument", "invalid_data",
                    "conflict", "denied", "unavailable", "io", "other"},
           why = "conflict" => (Len(history) > seen \/ history[bound].state = "purged"),
           why = "conflict" => pc = "read",
           why = "not_found" => Purged \/ \E i \in DOMAIN history : history[i].marker
    PROVE  Inv'
<1> USE DEF Inv
<1>1. /\ pc' = "ended" /\ answer' = why /\ history' = history /\ versioned' = versioned
      /\ read' = read /\ selection' = selection /\ target' = target /\ bound' = bound /\ seen' = seen
      /\ body' = body /\ got' = got
  BY DEF End, bucket
<1>2. TypeOK'
  BY <1>1 DEF TypeOK
<1>3. Recorded' /\ Phased' /\ Selecting'
  BY <1>1 DEF Recorded, Phased, Selecting, Untouched, Kept
<1>4. Accepting'
  BY <1>1 DEF Accepting, FirstByte, WindowEnd
<1>5. ConflictIsReal' /\ MissIsReal'
  BY <1>1 DEF ConflictIsReal, MissIsReal, Purged
<1> QED BY <1>2, <1>3, <1>4, <1>5

LEMMA ObserveInv ==
    ASSUME Inv, Observe
    PROVE  Inv'
<1>1. pc = "observe" /\ UNCHANGED <<bucket, read, body, got>>
  BY DEF Observe
<1>2. CASE ~Exists /\ Refuse("not_found")
  BY <1>1, <1>2, NotThere, EndInv DEF Refuse, Inv, bucket
<1>3. CASE Exists /\ IdOf(Max(Kept)) # 0 /\ Bound("version", Max(Kept))
  BY <1>1, <1>3, BoundInv
<1>4. CASE Exists /\ BindValidator(Current.weak)
  <2>1. CASE Current.weak
    BY <1>1, <1>4, <2>1, EndInv DEF BindValidator, Refuse, bucket
  <2>2. CASE ~Current.weak
    BY <1>1, <1>4, <2>2, BoundInv DEF BindValidator
  <2> QED BY <2>1, <2>2
<1>5. CASE Exists /\ Refuse("unsupported")
  BY <1>1, <1>5, EndInv DEF Refuse, bucket
<1> QED BY <1>2, <1>3, <1>4, <1>5 DEF Observe
-----------------------------------------------------------------------------
(* Answers. *)

LEMMA AnswerFields ==
    ASSUME NEW i, NEW a \in Answers(i)
    PROVE  /\ a.id \in {0, IdOf(i)} /\ a.tag \in {0, history[i].content}
           /\ a.weak = history[i].weak /\ a.marker = history[i].marker
           /\ a.content = history[i].content /\ a.cut \in BOOLEAN
           /\ a.status \in {200, 206} /\ a.ranged \in BOOLEAN
           /\ a.total \in {Unknown, Size(i)}
           /\ a.window.first \in 0 .. Size(i) /\ a.window.end \in 0 .. Size(i)
           /\ a.sent \in 0 .. Size(i) + 1
BY DEF Answers, Windows

LEMMA AnswerLengths ==
    ASSUME NEW i, NEW a \in Answers(i)
    PROVE  LET count == a.window.end - a.window.first
           IN  /\ a.length \in {Unknown, count}
               /\ a.sent <= (IF a.length = Unknown THEN count ELSE count + 1)
               /\ a.ranged => count > 0
               /\ (a.status = 200 /\ ~a.ranged) => count = Size(i)
               /\ (read.op = "head") => (count = Size(i) /\ a.sent = 0)
BY DEF Answers

\* Evidence of the selector is evidence of the target.
LEMMA EvidenceNames ==
    ASSUME TypeOK, Selecting, Phased, pc = "read", NEW i \in DOMAIN history,
           NEW a \in Answers(i), Evidence(a)
    PROVE  a.content = target
<1>1. DOMAIN history = 1 .. Len(history) /\ Len(history) \in Nat /\ target # 0
  BY SelectorKinds DEF Phased
<1>2. /\ a.id \in {0, IdOf(i)} /\ a.tag \in {0, history[i].content}
      /\ a.content = history[i].content
  BY AnswerFields
<1>3. CASE selection.kind = "version"
  <2>1. selection.token \in 1 .. Len(history) /\ a.id = selection.token
    BY <1>1, <1>3 DEF Selecting, Evidence
  <2>2. a.id = i
    BY <1>1, <1>2, <2>1 DEF IdOf
  <2> QED BY <1>2, <1>3, <2>1, <2>2 DEF Selecting
<1>4. CASE selection.kind = "validator"
  BY <1>1, <1>2, <1>4 DEF Selecting, Evidence
<1> QED BY <1>3, <1>4 DEF TypeOK, Phased

\* What the client accepts of a target is the window it asked for.
LEMMA AcceptedWindow ==
    ASSUME TypeOK, Recorded, NEW i \in DOMAIN history, NEW a \in Answers(i), ~a.marker,
           a.content = target, ~BeyondEnd(a), Fits(a)
    PROVE  /\ SizeOf(target) \in Nat /\ target \in Contents
           /\ a.window.first \in Nat /\ a.sent \in Nat /\ a.length \in Nat \cup {Unknown}
           /\ TotalOf(a) \in {Unknown, SizeOf(target)}
           /\ read.op # "head" =>
                 /\ a.window.first = FirstByte
                 /\ FirstByte <= WindowEnd(SizeOf(target))
                 /\ a.length = Unknown =>
                       /\ read.op = "get" /\ TotalOf(a) = Unknown
                       /\ a.sent <= SizeOf(target)
                 /\ a.length # Unknown => a.length = WindowEnd(SizeOf(target)) - FirstByte
                 /\ (read.op = "get" /\ a.length # Unknown) => TotalOf(a) # Unknown
           /\ read.op = "head" => a.sent = 0
<1> DEFINE size == SizeOf(target)
           first == a.window.first
           end == a.window.end
<1>1. /\ history[i] \in Versions /\ a.content = history[i].content
      /\ a.marker = history[i].marker
  BY SelectorKinds, AnswerFields
<1>2. target \in Contents /\ Size(i) = size /\ size \in Nat
  BY <1>1, ContentsAssumption DEF Size, Versions, Recorded
<1>3. read.op \in {"head", "get", "range"} /\ read.offset \in Nat /\ read.length \in Nat
  BY ReadsAssumption DEF TypeOK
<1>4. /\ a.total \in {Unknown, size} /\ first \in 0 .. size /\ end \in 0 .. size
      /\ a.sent \in 0 .. size + 1 /\ a.status \in {200, 206} /\ a.ranged \in BOOLEAN
  BY <1>2, AnswerFields
<1>5. /\ a.length \in {Unknown, end - first}
      /\ a.sent <= (IF a.length = Unknown THEN end - first ELSE end - first + 1)
      /\ a.ranged => end - first > 0
      /\ (a.status = 200 /\ ~a.ranged) => end - first = size
      /\ (read.op = "head") => (end - first = size /\ a.sent = 0)
  BY <1>2, AnswerLengths
<1> HIDE DEF size, first, end
<1>6. CASE read.op = "head"
  BY <1>2, <1>3, <1>4, <1>5, <1>6 DEF TotalOf, Unknown, size, first
<1>7. CASE read.op = "get"
  <2>1. a.status = 200 /\ (a.ranged => first = 0 /\ a.total = end /\ a.length = end)
    BY <1>7 DEF Fits, Whole, first, end
  <2>2. first = 0 /\ end = size
    BY <1>2, <1>4, <1>5, <2>1 DEF Unknown
  <2>3. WindowEnd(size) = size /\ FirstByte = 0 /\ TotalOf(a) = a.length
    BY <1>7 DEF WindowEnd, FirstByte, TotalOf
  <2> QED BY <1>2, <1>4, <1>5, <1>7, <2>2, <2>3 DEF Unknown, size, first
<1>8. CASE read.op = "range"
  <2>1. /\ a.ranged /\ first = read.offset
        /\ end = IF a.total = Unknown THEN read.offset + read.length
                 ELSE Least(read.offset + read.length, a.total)
        /\ a.length = end - first
    BY <1>8 DEF Fits, InWindow, first, end
  <2>2. WindowEnd(size) = Least(read.offset + read.length, size) /\ FirstByte = read.offset
        /\ TotalOf(a) = a.total
    BY <1>8 DEF WindowEnd, FirstByte, TotalOf
  <2>3. end = WindowEnd(size) /\ first < end
    BY <1>2, <1>3, <1>4, <1>5, <2>1, <2>2 DEF Least, Unknown
  <2> QED BY <1>2, <1>3, <1>4, <1>8, <2>1, <2>2, <2>3 DEF Unknown, size, first
<1> QED BY <1>3, <1>6, <1>7, <1>8

LEMMA AcceptInv ==
    ASSUME Inv, pc = "read", NEW i \in DOMAIN history, NEW a \in Answers(i), ~a.marker,
           ~BeyondEnd(a), Fits(a), Evidence(a), Accept(a),
           UNCHANGED <<bucket, read, selection, target, bound, seen, got>>
    PROVE  Inv'
<1> USE DEF Inv
<1>1. a.content = target /\ target # 0
  BY EvidenceNames DEF Phased
<1> DEFINE b == [content |-> a.content, first |-> a.window.first, sent |-> a.sent,
                cut |-> a.cut, remaining |-> a.length, total |-> TotalOf(a)]
<1>2. /\ body' = b /\ history' = history /\ versioned' = versioned /\ read' = read
      /\ selection' = selection /\ target' = target /\ bound' = bound /\ seen' = seen /\ got' = got
      /\ got = 0 /\ answer = "none"
  BY DEF Accept, bucket, Phased
<1>3. /\ b.content = target /\ b.first = a.window.first /\ b.sent = a.sent
      /\ b.remaining = a.length /\ b.total = TotalOf(a)
  BY <1>1
<1>4. b \in Bodies
  BY <1>1, AcceptedWindow, AnswerFields DEF Bodies
<1>5. CASE read.op = "head" /\ End("ok")
  <2>1. pc' = "ended" /\ answer' = "ok"
    BY <1>5 DEF End
  <2>2. TypeOK'
    BY <1>2, <1>4, <2>1 DEF TypeOK, Bodies
  <2>3. Phased' /\ Selecting' /\ Recorded' /\ ConflictIsReal' /\ MissIsReal'
    BY <1>1, <1>2, <1>3, <2>1
    DEF Phased, Selecting, Recorded, ConflictIsReal, MissIsReal
  <2>4. Accepting'
    BY <1>1, <1>2, <1>3, <1>5, AcceptedWindow DEF Accepting
  <2> QED BY <2>2, <2>3, <2>4
<1>6. CASE read.op # "head" /\ pc' = "stream" /\ UNCHANGED answer
  <2>1. TypeOK'
    BY <1>2, <1>4, <1>6 DEF TypeOK, Bodies
  <2>2. Phased' /\ Selecting' /\ Recorded' /\ ConflictIsReal' /\ MissIsReal'
    BY <1>1, <1>2, <1>3, <1>6 DEF Phased, Selecting, Recorded, ConflictIsReal, MissIsReal
  <2>3. Accepting'
    <3> HIDE DEF b
    <3>1. FirstByte' = FirstByte /\ WindowEnd(SizeOf(target))' = WindowEnd(SizeOf(target))
      BY <1>2 DEF FirstByte, WindowEnd
    <3>2. \A x \in Nat \cup {Unknown} : x # Unknown => x + 0 = x
      BY DEF Unknown
    <3> QED BY <1>1, <1>2, <1>3, <1>6, <3>1, <3>2, AcceptedWindow DEF Accepting
  <2> QED BY <2>1, <2>2, <2>3
<1> QED BY <1>5, <1>6 DEF Accept

LEMMA RespondInv ==
    ASSUME Inv, Respond
    PROVE  Inv'
<1>1. pc = "read" /\ UNCHANGED <<bucket, read, selection, target, bound, seen, got>>
  BY DEF Respond
<1>2. PICK i \in Served : \E a \in Answers(i) :
          \/ a.marker /\ End("not_found") /\ UNCHANGED body
          \/ ~a.marker /\ BeyondEnd(a) /\ End("invalid_argument") /\ UNCHANGED body
          \/ /\ ~a.marker /\ ~BeyondEnd(a) /\ ~(Fits(a) /\ Evidence(a))
             /\ End("invalid_data") /\ UNCHANGED body
          \/ ~a.marker /\ ~BeyondEnd(a) /\ Fits(a) /\ Evidence(a) /\ Accept(a)
  BY DEF Respond
<1>3. PICK a \in Answers(i) :
          \/ a.marker /\ End("not_found") /\ UNCHANGED body
          \/ ~a.marker /\ BeyondEnd(a) /\ End("invalid_argument") /\ UNCHANGED body
          \/ /\ ~a.marker /\ ~BeyondEnd(a) /\ ~(Fits(a) /\ Evidence(a))
             /\ End("invalid_data") /\ UNCHANGED body
          \/ ~a.marker /\ ~BeyondEnd(a) /\ Fits(a) /\ Evidence(a) /\ Accept(a)
  BY <1>2
<1>4. i \in DOMAIN history
  BY KeptMax DEF Served, Kept, Inv
<1>5. CASE a.marker /\ End("not_found") /\ UNCHANGED body
  <2>1. history[i].marker
    BY <1>5, AnswerFields
  <2> QED BY <1>1, <1>4, <1>5, <2>1, EndInv
<1>6. CASE UNCHANGED body /\ (End("invalid_argument") \/ End("invalid_data"))
  BY <1>1, <1>6, EndInv
<1>7. CASE ~a.marker /\ ~BeyondEnd(a) /\ Fits(a) /\ Evidence(a) /\ Accept(a)
  BY <1>1, <1>4, <1>7, AcceptInv
<1> QED BY <1>3, <1>5, <1>6, <1>7

\* Errors are about what happened to the key since the selector was bound.
LEMMA RejectInv ==
    ASSUME Inv, Reject
    PROVE  Inv'
<1> USE DEF Inv
<1>1. /\ pc = "read" /\ UNCHANGED <<bucket, read, selection, target, bound, seen, body, got>>
      /\ selection.kind \in {"version", "validator"}
  BY DEF Reject, Phased, TypeOK
<1>2. PICK e \in Errors : End(Failure(e))
  BY DEF Reject
<1>3. CASE e.status = 304 \/ e.status = 416
  BY <1>1, <1>2, <1>3, EndInv DEF Failure
<1>4. CASE e.status = 412
  <2>1. selection.kind = "validator" /\ Exists /\ ~Selected(Max(Kept))
    BY <1>4 DEF Errors, Statuses
  <2>2. history[Max(Kept)].weak \/ history[Max(Kept)].content # selection.token
    BY <2>1 DEF Selected
  <2>3. ~Untouched
    BY <1>1, <2>1, <2>2 DEF Selecting
  <2>4. Len(history) > seen \/ history[bound].state = "purged"
    BY <1>1, <2>3 DEF Untouched, TypeOK
  <2> QED BY <1>1, <1>2, <1>4, <2>4, EndInv DEF Failure
<1>5. CASE e.status \in {404, 405}
  <2>0. Failure(e) \in {"not_found", "other"}
    BY <1>5 DEF Failure
  <2>1. CASE selection.kind = "validator"
    <3>1. ~Exists
      BY <1>5, <2>1 DEF Errors, Statuses
    <3> QED BY <1>1, <1>2, <2>0, <3>1, NotThere, EndInv
  <2>2. CASE selection.kind = "version"
    <3>1. selection.token \in DOMAIN history /\ history[selection.token].native
      BY <2>2 DEF Selecting
    <3>2. CASE selection.token \notin Kept
      <4>1. history[selection.token].state \notin {"kept", "replaced"}
        BY <3>1, <3>2 DEF Kept, Recorded
      <4>2. Purged
        BY <3>1, <4>1, SelectorKinds DEF Versions, Purged
      <4> QED BY <1>1, <1>2, <2>0, <4>2, EndInv
    <3>3. CASE selection.token \in Kept
      <4>1. history[selection.token].marker
        BY <1>5, <2>2, <3>3 DEF Errors, Statuses
      <4> QED BY <1>1, <1>2, <2>0, <3>1, <4>1, EndInv
    <3> QED BY <3>2, <3>3
  <2> QED BY <1>1, <2>1, <2>2
<1>6. e.status \in {304, 412, 404, 405, 416}
  BY DEF Errors, Statuses
<1> QED BY <1>3, <1>4, <1>5, <1>6

LEMMA YieldInv ==
    ASSUME Inv, Yield
    PROVE  Inv'
<1> USE DEF Inv
<1>1. /\ pc = "stream" /\ body.remaining # 0 /\ got < body.sent /\ got' = got + 1
      /\ body' = IF body.remaining = Unknown THEN body
                 ELSE [body EXCEPT !.remaining = Max({body.remaining - 1, 0})]
      /\ history' = history /\ versioned' = versioned /\ read' = read /\ pc' = pc
      /\ selection' = selection /\ target' = target /\ bound' = bound /\ seen' = seen /\ answer' = answer
  BY DEF Yield, Room, bucket
<1>2. body \in Bodies /\ got \in Nat /\ body.sent \in Nat
      /\ body.remaining \in Nat \cup {Unknown}
  BY DEF TypeOK, Bodies
<1>3. ASSUME body.remaining # Unknown
      PROVE  Max({body.remaining - 1, 0}) = body.remaining - 1
  <2> DEFINE r == body.remaining - 1
  <2>1. r \in Nat /\ {r, 0} \in SUBSET (0 .. r)
    BY <1>1, <1>2, <1>3
  <2>2. Max({r, 0}) \in {r, 0} /\ \A y \in {r, 0} : y <= Max({r, 0})
    BY <2>1, MaxOf
  <2> HIDE DEF r
  <2>3. Max({r, 0}) = r
    BY <2>1, <2>2
  <2> QED BY <2>3 DEF r
<1>4. /\ body' \in Bodies
      /\ body'.content = body.content /\ body'.first = body.first
      /\ body'.sent = body.sent /\ body'.total = body.total
      /\ body.remaining = Unknown => body'.remaining = Unknown
      /\ body.remaining # Unknown => body'.remaining = body.remaining - 1 /\ body'.remaining \in Nat
  BY <1>1, <1>2, <1>3 DEF Bodies
<1>5. got' \in 0 .. body'.sent
  BY <1>1, <1>2, <1>4
<1>6. TypeOK'
  BY <1>1, <1>4, <1>5 DEF TypeOK
<1>7. Recorded' /\ Phased' /\ Selecting'
  BY <1>1, <1>4 DEF Recorded, Phased, Selecting
<1>8. Accepting'
  <2>1. body.remaining # Unknown => body'.remaining + got' = body.remaining + got
    BY <1>1, <1>2, <1>4
  <2>2. body'.remaining = Unknown <=> body.remaining = Unknown
    BY <1>4 DEF Unknown
  <2>3. FirstByte' = FirstByte /\ WindowEnd(SizeOf(target))' = WindowEnd(SizeOf(target))
    BY <1>1 DEF FirstByte, WindowEnd
  <2> QED BY <1>1, <1>4, <2>1, <2>2, <2>3 DEF Accepting
<1>9. ConflictIsReal' /\ MissIsReal'
  BY <1>1 DEF ConflictIsReal, MissIsReal, Purged
<1> QED BY <1>6, <1>7, <1>8, <1>9

LEMMA FinishInv ==
    ASSUME Inv, Finish
    PROVE  Inv'
<1>1. pc = "stream" /\ UNCHANGED <<bucket, read, selection, target, bound, seen, body, got>>
  BY DEF Finish
<1>2. End("ok") \/ End("io")
  BY DEF Finish, AtEnd
<1> QED BY <1>1, <1>2, EndInv

LEMMA ReaderInv ==
    ASSUME Inv, Reader
    PROVE  Inv'
<1>1. CASE Unanswered
  BY <1>1, EndInv DEF Unanswered
<1>2. CASE ReadElsewhere
  BY <1>2, EndInv DEF ReadElsewhere, Refuse
<1> QED
  BY <1>1, <1>2, ObserveInv, RespondInv, RejectInv, YieldInv, FinishInv DEF Reader

LEMMA InitInv ==
    ASSUME Init
    PROVE  Inv
<1>1. PICK c \in Contents, weak \in BOOLEAN : history = <<Object(c, weak)>>
  BY DEF Init
<1> DEFINE o == Object(c, weak)
<1>2. o \in Versions /\ o.content = c /\ c # 0 /\ ~o.marker /\ o.state = "kept"
  BY ContentsAssumption DEF Init, Object, Versions
<1> HIDE DEF o
<1>3. history \in Seq(Versions) /\ Len(history) = 1 /\ DOMAIN history = {1} /\ history[1] = o
  BY <1>1, <1>2 DEF o
<1>4. TypeOK
  BY <1>3, ReadsAssumption DEF Init, TypeOK, NoSelection, NoBody, Bodies, Unknown
<1>5. Recorded
  BY <1>2, <1>3 DEF Recorded
<1>6. Phased /\ Selecting /\ Accepting /\ ConflictIsReal /\ MissIsReal
  BY DEF Init, Phased, Selecting, Accepting, ConflictIsReal, MissIsReal, NoSelection, NoBody
<1> QED BY <1>4, <1>5, <1>6 DEF Inv

\* The invariant holds in every behaviour.
THEOREM Invariance == Spec => []Inv
<1>1. Init => Inv
  BY InitInv
<1>2. Inv /\ [Next]_vars => Inv'
  <2> SUFFICES ASSUME Inv, [Next]_vars PROVE Inv'
    OBVIOUS
  <2>1. CASE Writer
    BY <2>1, WriterInv
  <2>2. CASE Reader
    BY <2>2, ReaderInv
  <2>3. CASE UNCHANGED vars
    BY <2>3 DEF vars, Inv, TypeOK, Recorded, Phased, Selecting, Accepting, FirstByte,
       WindowEnd, Untouched, ConflictIsReal, MissIsReal, Purged, Kept
  <2> QED BY <2>1, <2>2, <2>3 DEF Next
<1> QED BY <1>1, <1>2, PTL DEF Spec

-----------------------------------------------------------------------------
(* What follows from it. *)

\* Type correctness.
THEOREM TypeCorrect == Spec => []TypeOK
BY Invariance, PTL DEF Inv

\* The bytes handed out are in the window of the target.
LEMMA WindowKept ==
    ASSUME Inv
    PROVE  OnlySelected
<1> SUFFICES ASSUME got > 0
             PROVE  /\ body.content = target
                    /\ body.first = FirstByte
                    /\ body.first + got <= WindowEnd(SizeOf(target))
  BY DEF OnlySelected, FirstByte
<1>1. /\ body.content # 0 /\ body.content = target /\ read.op # "head"
      /\ got \in 0 .. body.sent /\ body.sent \in Nat /\ got \in Nat
      /\ body.remaining \in Nat \cup {Unknown}
  BY DEF Inv, Phased, Accepting, TypeOK, Bodies
<1>2. SizeOf(target) \in Nat
  BY <1>1, ContentsAssumption DEF Inv, TypeOK
<1>3. FirstByte \in Nat /\ WindowEnd(SizeOf(target)) \in Nat
  BY <1>2, ReadsAssumption DEF FirstByte, WindowEnd, Least, Inv, TypeOK
<1>4. CASE body.remaining = Unknown
  BY <1>1, <1>2, <1>4 DEF Inv, Accepting, FirstByte, WindowEnd
<1>5. CASE body.remaining # Unknown
  <2>1. body.remaining + got = WindowEnd(SizeOf(target)) - FirstByte /\ body.first = FirstByte
    BY <1>1, <1>5 DEF Inv, Accepting
  <2>2. body.remaining \in Nat
    BY <1>1, <1>5
  <2>3. FirstByte + got <= WindowEnd(SizeOf(target))
    BY <1>1, <1>3, <2>1, <2>2
  <2> QED BY <1>1, <2>1, <2>3
<1> QED BY <1>4, <1>5

\* No byte of another version, and none outside the window, is handed out
\* (send_guarded_get and DeclaredLengthRead).
THEOREM SelectedOnly == Spec => []OnlySelected
BY Invariance, WindowKept, PTL

LEMMA ReceiptsKept ==
    ASSUME Inv
    PROVE  ReceiptIsTrue
<1> SUFFICES ASSUME answer = "ok", body.total # Unknown
             PROVE  body.total = SizeOf(target)
  BY DEF ReceiptIsTrue
<1>1. CASE body.content # 0
  BY <1>1 DEF Inv, Accepting
<1>2. CASE body.content = 0
  BY <1>2 DEF Inv, Phased, NoBody, Unknown
<1> QED BY <1>1, <1>2

\* A receipt never reports a wrong size (checked_receipt).
THEOREM ReceiptsTrue == Spec => []ReceiptIsTrue
BY Invariance, ReceiptsKept, PTL

\* A conflict is only reported when the key was written or deleted, or the bound
\* version purged, since the
\* selector was bound (map_guarded_sdk_error).
THEOREM ConflictsReal == Spec => []ConflictIsReal
BY Invariance, PTL DEF Inv

\* A miss is only reported when a version was deleted or purged.
THEOREM MissesReal == Spec => []MissIsReal
BY Invariance, PTL DEF Inv

-----------------------------------------------------------------------------
(* The refinement of SelectedRead. *)

LEMMA MappedSource ==
    ASSUME Inv
    PROVE  SelectedSource = target
BY DEF Inv, Phased, Accepting, SelectedSource

\* The two ways the window is counted agree once the read fits the target.
LEMMA WindowsAgree ==
    ASSUME Inv, body.content # 0, read.op # "head"
    PROVE  Promise!WindowOf(target) = WindowEnd(SizeOf(target)) - FirstByte
<1>1. FirstByte <= WindowEnd(SizeOf(target)) /\ body.content = target
  BY DEF Inv, Accepting
<1>2. SizeOf(target) \in Nat /\ read.offset \in Nat /\ read.length \in Nat
  BY <1>1, ContentsAssumption, ReadsAssumption DEF Inv, TypeOK
<1> QED
  BY <1>1, <1>2 DEF Promise!WindowOf, Promise!Clip, FirstByte, WindowEnd, Least

\* Every step is a step of the promise, or none.
\* An ending of the read is an ending of the promise.
LEMMA PromiseEnd ==
    ASSUME Inv, pc # "ended", NEW why, End(why), UNCHANGED <<read, target, got, body>>,
           why # "none",
           why = "ok" =>
              \/ Outcome' = "unproven" /\ read.op # "range"
              \/ Outcome' = "whole" /\ target # 0 /\ got = Promise!WindowOf(target)
    PROVE  Promise!End
<1>1. answer = "none" /\ answer' = why
  BY DEF Inv, Phased, End
<1>2. Outcome = "pending"
  BY <1>1 DEF Outcome
<1>3. why # "ok" => Outcome' = "failed"
  BY <1>1 DEF Outcome
<1>4. SelectedSource = target /\ SelectedSource' = SelectedSource
  BY MappedSource DEF SelectedSource
<1> QED BY <1>1, <1>2, <1>3, <1>4 DEF Promise!End

\* A source that is bound is selected.
LEMMA PromiseSelect ==
    ASSUME Inv, pc = "observe", Exists, NEW kind, NEW token, Bound(kind, token),
           UNCHANGED <<read, body, got>>
    PROVE  Promise!Select
<1>1. target = 0 /\ got = 0 /\ answer = "none" /\ answer' = answer
      /\ target' = Current.content /\ got' = got /\ read' = read
  BY DEF Inv, Phased, Bound
<1>2. Current.content \in Contents
  BY CurrentObject DEF Inv
<1>3. SelectedSource = 0 /\ SelectedSource' = Current.content
  BY <1>1 DEF SelectedSource
<1>4. Outcome = "pending" /\ Outcome' = "pending"
  BY <1>1 DEF Outcome
<1> QED BY <1>1, <1>2, <1>3, <1>4 DEF Promise!Select

\* A stream that ended well has handed out its window, or proves nothing.
LEMMA PromiseFinish ==
    ASSUME Inv, Finish
    PROVE  Promise!End
<1>1. pc = "stream" /\ UNCHANGED <<read, target, got, body>>
  BY DEF Finish
<1>2. CASE End("io")
  BY <1>1, <1>2, PromiseEnd
<1>3. CASE got = body.sent /\ End(AtEnd) /\ AtEnd = "ok"
  <2>1. /\ body.content # 0 /\ read.op # "head" /\ target # 0 /\ answer' = "ok"
        /\ body.remaining \in Nat \cup {Unknown} /\ ~(body.remaining > 0)
    BY <1>1, <1>3 DEF Inv, Phased, TypeOK, Bodies, AtEnd, End
  <2>2. CASE body.remaining = Unknown
    <3>1. read.op = "get" /\ body.total = Unknown
      BY <2>1, <2>2 DEF Inv, Accepting
    <3>2. Outcome' = "unproven"
      BY <1>1, <2>1, <3>1 DEF Outcome
    <3> QED BY <1>1, <1>3, <3>1, <3>2, PromiseEnd
  <2>3. CASE body.remaining # Unknown
    <3>1. body.remaining = 0 /\ got \in Nat
      BY <2>1, <2>3 DEF Inv, TypeOK, Bodies
    <3>2. got = Promise!WindowOf(target)
      BY <2>1, <2>3, <3>1, WindowsAgree DEF Inv, Accepting
    <3>3. ~(read.op = "get" /\ body.total = Unknown)
      BY <2>1, <2>3 DEF Inv, Accepting
    <3>4. Outcome' = "whole"
      BY <1>1, <2>1, <3>3 DEF Outcome
    <3> QED BY <1>1, <1>3, <2>1, <3>2, <3>4, PromiseEnd
  <2> QED BY <2>2, <2>3
<1> QED BY <1>2, <1>3 DEF Finish, AtEnd

LEMMA PromiseYield ==
    ASSUME Inv, Inv', Yield
    PROVE  Promise!Yield
<1>1. /\ got' = got + 1 /\ read' = read /\ target' = target /\ answer' = answer
      /\ pc = "stream" /\ got \in Nat
  BY DEF Yield, Inv, TypeOK, Bodies
<1>2. /\ body.content # 0 /\ read.op # "head" /\ target # 0 /\ answer = "none"
  BY <1>1 DEF Inv, Phased
<1>3. SelectedSource = target /\ SelectedSource' = target
  BY <1>1, <1>2 DEF SelectedSource, Inv, Phased, Accepting
<1>4. Outcome = "pending" /\ Outcome' = "pending"
  BY <1>1, <1>2 DEF Outcome
<1>5. got < WindowEnd(SizeOf(target)) - FirstByte
  <2>1. body.remaining # 0 /\ got < body.sent /\ body.sent \in Nat
        /\ body.remaining \in Nat \cup {Unknown}
    BY DEF Yield, Room, Inv, TypeOK, Bodies
  <2>2. CASE body.remaining = Unknown
    <3>1. read.op = "get" /\ body.sent <= SizeOf(target)
      BY <1>2, <2>2 DEF Inv, Accepting
    <3>2. SizeOf(target) \in Nat
      BY <1>2, ContentsAssumption DEF Inv, TypeOK
    <3> QED BY <1>1, <2>1, <3>1, <3>2 DEF WindowEnd, FirstByte
  <2>3. CASE body.remaining # Unknown
    <3>1. body.remaining + got = WindowEnd(SizeOf(target)) - FirstByte
      BY <1>2, <2>3 DEF Inv, Accepting
    <3>2. body.remaining \in Nat /\ body.remaining > 0
      BY <2>1, <2>3
    <3> QED BY <1>1, <3>1, <3>2
  <2> QED BY <2>2, <2>3
<1>6. got < Promise!WindowOf(target)
  BY <1>2, <1>5, WindowsAgree
<1> QED BY <1>1, <1>2, <1>3, <1>4, <1>6 DEF Promise!Yield

\* Every step of the guarded read is a step of the promise, or none.
LEMMA PromiseStep ==
    ASSUME Inv, Inv', [Next]_vars
    PROVE  [Promise!Next]_<<read, SelectedSource, got, Outcome>>
<1>1. CASE UNCHANGED others
  BY <1>1 DEF SelectedSource, Outcome, others
<1>2. CASE Writer \/ UNCHANGED vars
  BY <1>1, <1>2 DEF Writer, Write, Remove, Purge, SetVersioning, vars, others
<1>3. CASE Observe
  <2>1. pc = "observe" /\ UNCHANGED <<read, body, got>>
    BY <1>3 DEF Observe
  <2>2. CASE Refuse("not_found") \/ Refuse("unsupported") \/ Refuse("invalid_argument")
    BY <2>1, <2>2, PromiseEnd DEF Refuse, Promise!Next
  <2>3. CASE Exists /\ (Bound("version", Max(Kept)) \/ Bound("validator", Current.content))
    BY <2>1, <2>3, PromiseSelect DEF Promise!Next
  <2> QED BY <1>3, <2>2, <2>3 DEF Observe, BindValidator
<1>4. CASE Unanswered
  BY <1>4, PromiseEnd DEF Unanswered, Promise!Next
<1>5. CASE ReadElsewhere
  BY <1>5, PromiseEnd DEF ReadElsewhere, Refuse, Promise!Next
<1>6. CASE Reject
  <2>1. \E e \in Errors : End(Failure(e)) /\ e.status \in {304, 404, 405, 412, 416}
    BY <1>6 DEF Reject, Errors, Statuses
  <2>2. \E why \in {"not_found", "conflict", "invalid_argument", "invalid_data", "other"} :
           End(why)
    BY <2>1 DEF Failure
  <2> QED BY <1>6, <2>2, PromiseEnd DEF Reject, Promise!Next
<1>7. CASE Respond
  <2>1. pc = "read" /\ UNCHANGED <<read, target, got>>
    BY <1>7 DEF Respond
  <2>2. CASE UNCHANGED body
             /\ (End("not_found") \/ End("invalid_argument") \/ End("invalid_data"))
    BY <2>1, <2>2, PromiseEnd DEF Promise!Next
  <2>3. CASE \E a : Accept(a)
    <3>1. CASE read.op = "head" /\ End("ok")
      <4>1. answer = "none" /\ got = 0 /\ answer' = "ok"
        BY <2>1, <3>1 DEF Inv, Phased, End
      <4>2. Outcome = "pending" /\ Outcome' = "unproven"
        BY <2>1, <3>1, <4>1 DEF Outcome
      <4>3. SelectedSource' = SelectedSource
        BY <2>1, <4>1 DEF SelectedSource
      <4> QED BY <2>1, <3>1, <4>2, <4>3 DEF Promise!Next, Promise!End
    <3>2. CASE UNCHANGED answer
      <4>1. got = 0 /\ answer = "none"
        BY <2>1 DEF Inv, Phased
      <4> QED BY <2>1, <3>2, <4>1 DEF SelectedSource, Outcome
    <3> QED BY <2>3, <3>1, <3>2 DEF Accept
  <2> QED BY <1>7, <2>2, <2>3 DEF Respond
<1>8. CASE Yield
  BY <1>8, PromiseYield DEF Promise!Next
<1>9. CASE Finish
  BY <1>9, PromiseFinish DEF Promise!Next
<1> QED
  BY <1>2, <1>3, <1>4, <1>5, <1>6, <1>7, <1>8, <1>9 DEF Next, Reader

\* A guarded read implements SelectedRead (DDR-0008).
THEOREM Refinement == Spec => KeepsPromise
<1>1. Init => Promise!Init
  BY DEF Init, Promise!Init, SelectedSource, Outcome
<1>2. Inv /\ Inv' /\ [Next]_vars => [Promise!Next]_<<read, SelectedSource, got, Outcome>>
  BY PromiseStep
<1> QED BY <1>1, <1>2, Invariance, PTL DEF Spec, KeepsPromise, Promise!Spec
=============================================================================
