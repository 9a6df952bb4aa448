----------------------------- MODULE GuardedRead -----------------------------
(***************************************************************************)
(* Source-guarded reads of the S3 provider (crates/storageprims-s3): an    *)
(* observation of the current object, the selector bound from it, and one  *)
(* guarded head, get or range get under that selector, against a bucket    *)
(* other writers change and a server, or a proxy before it, that may       *)
(* ignore the selector or the range, drop headers, and cut or pad a body.  *)
(*                                                                         *)
(* What a response says is true: its headers describe the version and the  *)
(* window whose bytes follow, and a 200 without Content-Range carries the  *)
(* whole object.  A strong entity tag identifies a content.  0 stands for  *)
(* an absent version id, tag or total; a version's id is its position.     *)
(***************************************************************************)
EXTENDS Integers, Sequences, FiniteSetsExt

CONSTANTS
    Contents,     \* what objects may contain; content c > 0 is tagged "c"
    SizeOf(_),    \* bytes of a content
    Reads,        \* the reads: [op, offset, length]
    MaxVersions   \* bound: writes and deletes of the key

ASSUME ContentsAssumption ==
    /\ 0 \notin Contents
    /\ \A c \in Contents : SizeOf(c) \in Nat

ASSUME ReadsAssumption ==
    \A r \in Reads : /\ r.op \in {"head", "get", "range"}
                     /\ r.offset \in Nat /\ r.length \in Nat

NoSelection == [kind |-> "none", token |-> 0]
NoBody == [content |-> 0, first |-> 0, sent |-> 0, cut |-> FALSE, remaining |-> -1,
           total |-> -1]
Unknown == -1

VARIABLES
    history,     \* every version of the key, [content, weak, native, marker, state]
    versioned,   \* the bucket assigns version ids to new versions
    read,        \* the read the caller asks for
    pc,          \* observe, read, stream, ended
    selection,   \* the bound selector
    target,      \* the content it selects (a history variable)
    bound,       \* the version it was bound from (a history variable)
    seen,        \* versions written when it was bound (a history variable)
    body,        \* the accepted response: content, window, bytes, evidence
    got,         \* bytes the reader handed to the caller
    answer       \* how the call ended

vars == <<history, versioned, read, pc, selection, target, bound, seen, body, got, answer>>

bucket == <<history, versioned>>

-----------------------------------------------------------------------------
(* The bucket and its other writers. *)

\* A version is kept until it is replaced or purged.
Kept    == {i \in DOMAIN history : history[i].state = "kept"}
Exists  == Kept # {} /\ ~history[Max(Kept)].marker
Current == history[Max(Kept)]

\* A version without an id of its own replaces the one before it.
Written(v) ==
    Append([i \in DOMAIN history |->
              IF i \in Kept /\ ~versioned /\ ~history[i].native
              THEN [history[i] EXCEPT !.state = "replaced"] ELSE history[i]], v)

Object(c, weak) ==
    [content |-> c, weak |-> weak, native |-> versioned, marker |-> FALSE,
     state |-> "kept"]

Write ==
    /\ Len(history) < MaxVersions
    /\ \E c \in Contents, weak \in BOOLEAN :
          history' = Written(Object(c, weak))
    /\ UNCHANGED <<versioned, read, pc, selection, target, bound, seen, body, got, answer>>

\* A delete leaves a marker.
Remove ==
    /\ Len(history) < MaxVersions
    /\ history' = Written([content |-> 0, weak |-> FALSE, native |-> versioned,
                           marker |-> TRUE, state |-> "kept"])
    /\ UNCHANGED <<versioned, read, pc, selection, target, bound, seen, body, got, answer>>

Purge ==
    /\ \E i \in Kept : history' = [history EXCEPT ![i].state = "purged"]
    /\ UNCHANGED <<versioned, read, pc, selection, target, bound, seen, body, got, answer>>

SetVersioning ==
    /\ versioned' = ~versioned
    /\ UNCHANGED <<history, read, pc, selection, target, bound, seen, body, got, answer>>

-----------------------------------------------------------------------------
(* Observing and binding. *)

IdOf(i)  == IF history[i].native THEN i ELSE 0

End(why) == pc' = "ended" /\ answer' = why

Refuse(why) == End(why) /\ UNCHANGED <<selection, target, bound, seen>>

Bound(kind, token) ==
    /\ pc' = "read"
    /\ selection' = [kind |-> kind, token |-> token]
    /\ target' = Current.content
    /\ bound' = Max(Kept)
    /\ seen' = Len(history)
    /\ UNCHANGED answer

\* Mutant: a weak tag is bound like a strong one.
BindValidatorAny(weak) == Bound("validator", Current.content)

\* A weak tag is no selector.
BindValidator(weak) ==
    IF weak THEN Refuse("invalid_argument") ELSE Bound("validator", Current.content)

\* observe_source(), then the selector its callers bind: the version id the
\* response carries, "null" never, else the tag, which may be missing too.
Observe ==
    /\ pc = "observe"
    /\ \/ ~Exists /\ Refuse("not_found")
       \/ Exists /\ IdOf(Max(Kept)) # 0 /\ Bound("version", Max(Kept))
       \/ Exists /\ BindValidator(Current.weak)
       \/ Exists /\ Refuse("unsupported")
    /\ UNCHANGED <<bucket, read, body, got>>

\* No answer comes, or access is denied: nothing is retried.
Unanswered ==
    /\ pc \in {"observe", "read"}
    /\ End("unavailable") \/ End("denied")
    /\ UNCHANGED <<bucket, read, selection, target, bound, seen, body, got>>

\* A selection bound by another provider or for another key is refused before
\* any request, and so is an empty range.
ReadElsewhere ==
    /\ pc = "read"
    /\ Refuse("invalid_argument")
    /\ UNCHANGED <<bucket, read, body, got>>

-----------------------------------------------------------------------------
(* What the server answers. *)

Least(a, b) == IF a <= b THEN a ELSE b

Selected(i) ==
    IF selection.kind = "version" THEN IdOf(i) = selection.token
    ELSE i = Max(Kept) /\ ~history[i].weak /\ history[i].content = selection.token

Size(i) == IF history[i].marker THEN 0 ELSE SizeOf(history[i].content)

\* The bytes of an object of this size the read asks for.
WindowEnd(size) == IF read.op = "range" THEN Least(read.offset + read.length, size)
                   ELSE size

\* The windows a server may send: the one asked for, or everything, or one
\* that begins or ends elsewhere.
Windows(size) ==
    {w \in [first : 0 .. size, end : 0 .. size] : w.first < w.end \/ size = 0}

\* A successful answer that carries version i: its status, the headers that
\* survive, and how many bytes come before the body ends or breaks.
Answers(i) ==
    {a \in [status : {200, 206}, id : {0, IdOf(i)},
            tag : {0, history[i].content}, weak : {history[i].weak},
            marker : {history[i].marker}, content : {history[i].content},
            window : Windows(Size(i)), ranged : BOOLEAN,
            total : {Unknown, Size(i)}, length : {Unknown} \cup 0 .. Size(i),
            sent : 0 .. Size(i) + 1, cut : BOOLEAN] :
        LET count == a.window.end - a.window.first
        IN  /\ a.length \in {Unknown, count}
            /\ a.sent <= (IF a.length = Unknown THEN count ELSE count + 1)
            /\ a.ranged => count > 0
            /\ (a.status = 200 /\ ~a.ranged) => count = Size(i)
            /\ (read.op = "head") => (count = Size(i) /\ a.sent = 0)}

\* Only a server at fault answers with another version than the selected.
Served == {i \in Kept : Selected(i)} \cup (IF Kept = {} THEN {} ELSE {Max(Kept)})

-----------------------------------------------------------------------------
(* What the provider accepts. *)

\* Mutant: the identity of the answer is not looked at.
EvidenceMissing(a) == TRUE

\* checked_receipt(): the answer itself names the selected source.
Evidence(a) ==
    CASE selection.kind = "version"   -> a.id = selection.token
      [] selection.kind = "validator" -> ~a.weak /\ a.tag = selection.token

\* validate_full_get_response().
Whole(a) ==
    /\ a.status = 200
    /\ a.ranged => /\ a.window.first = 0
                   /\ a.total = a.window.end
                   /\ a.length = a.window.end

\* The window of the answer is the one asked for, clipped only at a proven
\* end; a full-status answer must prove that it is the whole object.
InWindow(a) ==
    /\ a.ranged
    /\ a.window.first = read.offset
    /\ a.window.end = IF a.total = Unknown THEN read.offset + read.length
                      ELSE Least(read.offset + read.length, a.total)
    /\ a.status = 200 => (a.window.first = 0 /\ a.total = a.window.end)
    /\ a.length = a.window.end - a.window.first

BeyondEnd(a) ==
    read.op = "range" /\ a.ranged /\ a.total # Unknown /\ read.offset >= a.total

Fits(a) ==
    CASE read.op = "head"  -> TRUE
      [] read.op = "get"   -> Whole(a)
      [] read.op = "range" -> InWindow(a)

\* Mutant: the receipt of a range keeps the length of its body as the total.
TotalOfBody(a) == a.length

\* The total a receipt reports: a range replaces the body's length by the
\* total of its Content-Range.
TotalOf(a) == IF read.op = "range" THEN a.total ELSE a.length

Accept(a) ==
    /\ body' = [content |-> a.content, first |-> a.window.first, sent |-> a.sent,
                cut |-> a.cut, remaining |-> a.length, total |-> TotalOf(a)]
    /\ IF read.op = "head" THEN End("ok") ELSE pc' = "stream" /\ UNCHANGED answer

\* A success: delete markers are misses, and what does not prove the selected
\* source and window is refused before a reader exists.
Respond ==
    /\ pc = "read"
    /\ \E i \in Served : \E a \in Answers(i) :
          \/ a.marker /\ End("not_found") /\ UNCHANGED body
          \/ ~a.marker /\ BeyondEnd(a) /\ End("invalid_argument") /\ UNCHANGED body
          \/ /\ ~a.marker /\ ~BeyondEnd(a) /\ ~(Fits(a) /\ Evidence(a))
             /\ End("invalid_data") /\ UNCHANGED body
          \/ ~a.marker /\ ~BeyondEnd(a) /\ Fits(a) /\ Evidence(a) /\ Accept(a)
    /\ UNCHANGED <<bucket, read, selection, target, bound, seen, got>>

\* Mutant: a precondition that failed reads as a miss.
FailureMiss(e) == IF e.status \in {404, 405, 412} THEN "not_found"
                  ELSE IF e.status = 416 THEN "invalid_argument"
                  ELSE "invalid_data"

\* map_guarded_sdk_error().  A 405 is a miss only when its headers tell of a
\* delete marker; otherwise it is one of the errors without a kind.
Failure(e) ==
    CASE e.status = 404 -> "not_found"
      [] e.status = 405 -> IF e.marker THEN "not_found" ELSE "other"
      [] e.status = 412 -> "conflict"
      [] e.status = 416 -> "invalid_argument"
      [] e.status = 304 -> "invalid_data"

\* The status of an error is honest: 404 for what is gone, 405 for a selected
\* marker, 412 for a tag that is not the current one, 416 for a window past
\* the end; a cache may answer 304.
Statuses ==
    {304} \cup
    (IF selection.kind = "validator"
     THEN IF ~Exists THEN {404} ELSE IF Selected(Max(Kept)) THEN {} ELSE {412}
     ELSE IF selection.token \notin Kept THEN {404}
          ELSE IF history[selection.token].marker THEN {405} ELSE {}) \cup
    (IF \E i \in Kept : /\ Selected(i) /\ read.op = "range" /\ read.offset >= Size(i)
     THEN {416} ELSE {})

\* Its x-amz-delete-marker header may be dropped on the way.
Errors == [status : Statuses, marker : BOOLEAN]

Reject ==
    /\ pc = "read"
    /\ \E e \in Errors : End(Failure(e))
    /\ UNCHANGED <<bucket, read, selection, target, bound, seen, body, got>>

-----------------------------------------------------------------------------
(* The reader, DeclaredLengthRead. *)

\* Mutant: the declared length does not bound the reader.
RoomAlways == TRUE

Room == body.remaining # 0

Yield ==
    /\ pc = "stream"
    /\ Room /\ got < body.sent
    /\ got' = got + 1
    /\ body' = IF body.remaining = Unknown THEN body
               ELSE [body EXCEPT !.remaining = Max({@ - 1, 0})]
    /\ UNCHANGED <<bucket, read, pc, selection, target, bound, seen, answer>>

\* The body is over: broken off, too short for its declared length, or done.
AtEnd == IF body.cut \/ body.remaining > 0 THEN "io" ELSE "ok"

\* With nothing left to hand out one more byte is asked for: there must be none.
Finish ==
    /\ pc = "stream"
    /\ \/ got = body.sent /\ End(AtEnd)
       \/ got < body.sent /\ body.remaining = 0 /\ End("io")
    /\ UNCHANGED <<bucket, read, selection, target, bound, seen, body, got>>

-----------------------------------------------------------------------------
Init ==
    /\ versioned \in BOOLEAN
    /\ \E c \in Contents, weak \in BOOLEAN : history = <<Object(c, weak)>>
    /\ read \in Reads
    /\ pc = "observe"
    /\ selection = NoSelection
    /\ target = 0
    /\ bound = 0
    /\ seen = 0
    /\ body = NoBody
    /\ got = 0
    /\ answer = "none"

Writer == Write \/ Remove \/ Purge \/ SetVersioning
Reader == Observe \/ Unanswered \/ ReadElsewhere \/ Respond \/ Reject \/ Yield \/ Finish

Next == Writer \/ Reader

Spec == Init /\ [][Next]_vars

-----------------------------------------------------------------------------
(* Properties. *)

Versions == [content : Contents \cup {0}, weak : BOOLEAN, native : BOOLEAN,
             marker : BOOLEAN, state : {"kept", "replaced", "purged"}]

Bodies == [content : Contents \cup {0}, first : Nat, sent : Nat, cut : BOOLEAN,
           remaining : Nat \cup {Unknown}, total : Nat \cup {Unknown}]

TypeOK ==
    /\ history \in Seq(Versions)
    /\ versioned \in BOOLEAN
    /\ read \in Reads
    /\ pc \in {"observe", "read", "stream", "ended"}
    /\ selection \in [kind : {"none", "version", "validator"}, token : Nat \cup Contents]
    /\ target \in Contents \cup {0}
    /\ bound \in 0 .. Len(history)
    /\ seen \in 0 .. Len(history)
    /\ body \in Bodies
    /\ got \in 0 .. body.sent
    /\ answer \in {"none", "ok", "not_found", "unsupported", "invalid_argument",
                   "invalid_data", "conflict", "denied", "unavailable", "io",
                   "other"}

\* No byte of another version, and none outside the window, is ever handed
\* out, even by a read that fails later (DDR-0008: it must never silently fall
\* back to current-object bytes).
OnlySelected ==
    got > 0 => /\ body.content = target
               /\ body.first = IF read.op = "range" THEN read.offset ELSE 0
               /\ body.first + got <= WindowEnd(SizeOf(target))

\* A receipt never reports a wrong size of the object it was bound to.
ReceiptIsTrue ==
    (answer = "ok" /\ body.total # Unknown) => body.total = SizeOf(target)

Purged == \E i \in DOMAIN history : history[i].state = "purged"

\* A token mismatch is only reported when the key was written or deleted, or
\* the bound version purged, after the selection was bound.
ConflictIsReal ==
    answer = "conflict"
        => Len(history) > seen \/ history[bound].state = "purged"

\* An object that was only overwritten is never reported missing.
MissIsReal ==
    answer = "not_found"
        => Purged \/ \E i \in DOMAIN history : history[i].marker

\* What the promise sees of a state.  A head proves no size, nor does a get
\* whose length was never told.
SelectedSource == IF got > 0 THEN body.content ELSE target

Outcome ==
    IF answer = "none" THEN "pending"
    ELSE IF answer # "ok" THEN "failed"
    ELSE IF read.op = "head" \/ (read.op = "get" /\ body.total = Unknown) THEN "unproven"
    ELSE "whole"

Promise == INSTANCE SelectedRead WITH Sources <- Contents, NoSource <- 0,
                                      source <- SelectedSource, outcome <- Outcome

\* The guarded read is a selected read, byte by byte; and one that ended well
\* is complete: a truncated or padded body, an ignored range or a clip that is
\* not at the end never looks like success.
KeepsPromise == Promise!Spec
=============================================================================
