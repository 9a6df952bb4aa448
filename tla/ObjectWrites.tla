----------------------------- MODULE ObjectWrites -----------------------------
(***************************************************************************)
(* Writes of the S3 provider (crates/storageprims-s3): put with its        *)
(* precondition, delete, and copy, native within a bucket or relayed as a  *)
(* get streamed into a put.  Clients share the keys.  A request may be     *)
(* delayed, lost, or processed after its sender gave up on it, and so may  *)
(* its answer; the SDK sends a request again only if it can clone the body.*)
(* The body of a put or of a relay may break off, or end early.            *)
(*                                                                         *)
(* What an object contains is the set of clients whose updates it carries: *)
(* a put adds its own to what it read.  An entity tag identifies an object.*)
(***************************************************************************)
EXTENDS Integers, FiniteSets

CONSTANTS
    Clients,      \* callers of the provider, one call at a time each
    Keys,         \* where objects live
    Bucket,       \* the bucket of each key
    Stored,       \* the keys that hold an object at the start
    Plans,        \* the calls each client may make: [op, key, from, intent]
    MaxAttempts,  \* how often the SDK sends a request it can clone
    Rounds        \* bound: calls per client

Ops     == {"put", "delete", "copy"}
Intents == {"none", "must_not_exist", "match"}
Nobody  == "nobody"   \* no key

\* Only a put has a precondition.
ASSUME WritesAssumption ==
    /\ Plans \in [Clients -> SUBSET [op : Ops, key : Keys, from : Keys, intent : Intents]]
    /\ \A c \in Clients : \A plan \in Plans[c] : plan.op # "put" => plan.intent = "none"
    /\ Stored \subseteq Keys
    /\ DOMAIN Bucket = Keys
    /\ MaxAttempts \in Nat \ {0}
    /\ Rounds \in Nat \ {0}
    /\ Nobody \notin Keys

\* A torn object is a part of one of known length; a short one is the first part
\* of an object whose length its server never told.
Objects == [carries : SUBSET Clients, state : {"absent", "whole", "torn", "short"}]
Absent  == [carries |-> {}, state |-> "absent"]
Whole(carries) == [carries |-> carries, state |-> "whole"]
Cut(object, length) == [object EXCEPT !.state = IF length = "told" THEN "torn" ELSE "short"]

Lengths == {"told", "untold"}            \* of the body a request is given
Ends    == {"whole", "broken", "short"}  \* how that body ended

Refusals == {"already_exists", "token_mismatch", "conflict", "not_found", "refused"}
Kinds    == Refusals \cup {"none", "ok", "unavailable", "other"}
NoPlan   == [op |-> "none", key |-> Nobody, from |-> Nobody, intent |-> "none"]

Answer(kind, object) == [kind |-> kind, object |-> object]
Failed(kind) == Answer(kind, Absent)
NoAnswer == Failed("none")

Codes    == {"none", "ok", "403", "404", "409", "412", "500", "503"}
NoReply  == [code |-> "none", object |-> Absent]

VARIABLES
    store,    \* the object at each key
    calls,    \* each client's call: [round, phase, plan, base, length,
              \* try, reply]
    wire,     \* requests a server has not processed yet
    answers,  \* what each call of each client asked for and returned
    effects,  \* the objects each call has stored, and how often (history)
    seen,     \* what the keys held while the current call ran (history)
    released  \* clients whose update was overwritten or deleted blindly (history)

vars == <<store, calls, wire, answers, effects, seen, released>>

-----------------------------------------------------------------------------
(* The call a client makes. *)

Native(plan) == plan.op = "copy" /\ Bucket[plan.from] = Bucket[plan.key]
Relayed(plan) == plan.op = "copy" /\ ~Native(plan)

Current(c) == <<c, calls[c].round>>

SetCall(c, call) == calls' = [calls EXCEPT ![c] = call]

Return(c, answer) ==
    /\ answers' = [answers EXCEPT ![Current(c)] =
                     [plan |-> calls[c].plan, returned |-> answer]]
    /\ SetCall(c, [calls[c] EXCEPT !.phase = "done", !.reply = NoReply])

\* What a call looks at before it sends its request: the relay's get, or the
\* head that gave the caller the token it matches.
Reads(plan) == Relayed(plan) \/ plan.intent = "match"

\* A put declares the length of its body; a relay's get need not bring one.
Begin(c) ==
    /\ calls[c].phase = "done" /\ calls[c].round < Rounds
    /\ \E plan \in Plans[c], length \in Lengths :
          /\ length = "told" \/ Relayed(plan)
          /\ plan.intent = "match" => store[plan.from] # Absent
          /\ seen' = [seen EXCEPT ![c] = {<<k, store[k]>> : k \in {plan.key, plan.from}}]
          /\ SetCall(c, [round |-> calls[c].round + 1, phase |-> "ready", plan |-> plan,
                         base |-> IF Reads(plan) THEN store[plan.from] ELSE Absent,
                         length |-> length, try |-> 0, reply |-> NoReply])
    /\ UNCHANGED <<store, wire, answers, effects, released>>

\* Arguments, tokens and lengths are refused before anything is sent, a body of
\* untold length by the SDK if it cannot send it; the relay's get may find
\* nothing, or fail like any request.
Refuse(c) ==
    LET plan == calls[c].plan
    IN  /\ calls[c].phase = "ready"
        /\ \/ Return(c, Failed("refused"))
           \/ Relayed(plan) /\ calls[c].base = Absent /\ Return(c, Failed("not_found"))
           \/ Relayed(plan) /\ Return(c, Failed("unavailable"))
        /\ UNCHANGED <<store, wire, effects, seen, released>>

-----------------------------------------------------------------------------
(* Its request. *)

\* Mutant: the put's condition does not reach the request.
ConditionDropped(call) == [intent |-> "none", token |-> Absent]

\* set_if_match and set_if_none_match.
Condition(call) ==
    [intent |-> call.plan.intent,
     token  |-> IF call.plan.intent = "match" THEN call.base ELSE Absent]

\* Mutant: a native copy names its destination as the source.
CopySourceSwapped(call) == call.plan.key

CopySource(call) == call.plan.from

\* The object a put stores.  A native copy's is chosen by the server.
Payload(c) ==
    LET call == calls[c]
    IN  IF call.plan.op = "put" THEN Whole(call.base.carries \cup {c})
        ELSE IF Relayed(call.plan) THEN call.base
        ELSE Absent

\* How its body can end: HTTP reports an early end of a body of told length.
EndsOf(call) ==
    CASE call.plan.op = "put"                            -> Ends
      [] Relayed(call.plan) /\ call.length = "told"      -> {"whole", "broken"}
      [] Relayed(call.plan) /\ call.length = "untold"    -> Ends
      [] call.plan.op # "put" /\ ~Relayed(call.plan)     -> {"whole"}

\* Mutant: no length is declared, and an early end is taken for the end.
FramingLax(call, end) ==
    [length |-> "untold", finish |-> IF end = "broken" THEN "failed" ELSE "ended"]

\* set_content_length, and AsyncReadBody or the relayed body handed on: a body
\* that ends before its length ends with an error.
Framing(call, end) ==
    [length |-> call.length,
     finish |-> IF end = "whole" \/ (end = "short" /\ call.length = "untold")
                THEN "ended" ELSE "failed"]

Request(c, end) ==
    [by |-> c, round |-> calls[c].round, try |-> calls[c].try + 1,
     op |-> IF Relayed(calls[c].plan) THEN "put" ELSE calls[c].plan.op,
     key |-> calls[c].plan.key, from |-> CopySource(calls[c]),
     condition |-> Condition(calls[c]), object |-> Payload(c),
     end |-> end, length |-> calls[c].length, framing |-> Framing(calls[c], end),
     blind |-> calls[c].plan.intent = "none"]

\* Mutant: the SDK keeps a copy of every body.
AttemptsAlways(plan) == MaxAttempts

\* The bodies of a put and of a relay are streams: they cannot be sent twice.
Attempts(plan) == IF plan.op = "put" \/ Relayed(plan) THEN 1 ELSE MaxAttempts

Transmit(c) ==
    /\ \E end \in EndsOf(calls[c]) : wire' = wire \cup {Request(c, end)}
    /\ SetCall(c, [calls[c] EXCEPT !.phase = "sent", !.try = @ + 1, !.reply = NoReply])
    /\ UNCHANGED answers

Send(c) ==
    /\ calls[c].phase = "ready"
    /\ Relayed(calls[c].plan) => calls[c].base # Absent
    /\ Transmit(c)
    /\ UNCHANGED <<store, effects, seen, released>>

-----------------------------------------------------------------------------
(* The server. *)

Holds(condition, key) ==
    CASE condition.intent = "none"           -> TRUE
      [] condition.intent = "must_not_exist" -> store[key] = Absent
      [] condition.intent = "match"          -> store[key] = condition.token

Contended(r) == \E other \in wire \ {r} : other.key = r.key

\* What an honest server may answer to a request it does not carry out.
Denials(r) ==
    {"403", "500", "503"} \cup
    (IF r.op = "copy" /\ store[r.from] = Absent THEN {"404"} ELSE {}) \cup
    (IF r.condition.intent = "match" /\ store[r.key] = Absent THEN {"404"} ELSE {}) \cup
    (IF ~Holds(r.condition, r.key) THEN {"412"} ELSE {}) \cup
    (IF r.condition.intent # "none" /\ Contended(r) THEN {"409"} ELSE {})

\* The reply reaches the call only if it still waits for this attempt.
Reply(r, reply) ==
    LET call == calls[r.by]
    IN  calls' = IF call.phase = "sent" /\ call.round = r.round /\ call.try = r.try
                 THEN [calls EXCEPT ![r.by].reply = reply] ELSE calls

\* A body is complete at its declared length, without one when it ends.
Complete(r) == IF r.framing.length = "told" THEN r.end = "whole" ELSE r.framing.finish = "ended"

Arrived(r) == IF r.end = "whole" THEN r.object ELSE Cut(r.object, r.length)

Written(r) == CASE r.op = "put"    -> Arrived(r)
                [] r.op = "delete" -> Absent
                [] r.op = "copy"   -> store[r.from]

Process(r) ==
    /\ r \in wire
    /\ wire' = wire \ {r}
    /\ \E code \in {"ok", "500", "none"} :
          Reply(r, [code |-> code, object |-> IF code = "ok" THEN Written(r) ELSE Absent])
    /\ Holds(r.condition, r.key) /\ Complete(r)
    /\ r.op = "copy" => store[r.from] # Absent
    /\ store' = [store EXCEPT ![r.key] = Written(r)]
    /\ effects' = [effects EXCEPT ![<<r.by, r.round>>] =
                     [objects |-> @.objects \cup {Written(r)}, count |-> @.count + 1]]
    /\ seen' = [c \in Clients |-> IF calls[c].phase \in {"ready", "sent"}
                                  THEN seen[c] \cup {<<r.key, Written(r)>>} ELSE seen[c]]
    /\ released' = IF r.blind THEN released \cup store[r.key].carries ELSE released
    /\ UNCHANGED answers

Deny(r) ==
    /\ r \in wire
    /\ wire' = wire \ {r}
    /\ \E code \in Denials(r) \cup {"none"} : Reply(r, [NoReply EXCEPT !.code = code])
    /\ UNCHANGED <<store, answers, effects, seen, released>>

-----------------------------------------------------------------------------
(* What the provider makes of the answer. *)

\* map_put_error(): a failed condition is reported as what the caller asked.
PutKind(plan, code) ==
    CASE code = "412" -> (CASE plan.intent = "must_not_exist" -> "already_exists"
                             [] plan.intent = "match" -> "token_mismatch"
                             [] plan.intent = "none" -> "conflict")
      [] code = "409" -> "conflict"
      [] code = "404" -> "not_found"
      [] code \in {"403", "503"} -> "refused"
      [] code = "500" -> "other"

\* map_sdk_error(), of every other operation.
SdkKind(code) ==
    CASE code \in {"409", "412"} -> "conflict"
      [] code = "404" -> "not_found"
      [] code \in {"403", "503"} -> "refused"
      [] code = "500" -> "other"

Outcome(plan, reply) ==
    CASE reply.code = "ok" -> Answer("ok", reply.object)
      [] reply.code # "ok" /\ plan.op = "put" -> Failed(PutKind(plan, reply.code))
      [] reply.code # "ok" /\ plan.op # "put" -> Failed(SdkKind(reply.code))

\* Transport failures, server errors and throttling are worth another attempt.
Transient == {"500", "503"}

Again(c) == calls[c].try < Attempts(calls[c].plan)

Receive(c) ==
    /\ calls[c].phase = "sent" /\ calls[c].reply # NoReply
    /\ IF calls[c].reply.code \in Transient /\ Again(c)
       THEN Transmit(c)
       ELSE Return(c, Outcome(calls[c].plan, calls[c].reply)) /\ UNCHANGED wire
    /\ UNCHANGED <<store, effects, seen, released>>

\* Mutant: nothing to do is what a delete was for.
LostAnswerAbsent(c) ==
    IF calls[c].plan.op = "delete"
    THEN Answer("ok", Absent)
    ELSE Failed("unavailable")

\* The outcome of the request is unknown.
LostAnswer(c) == Failed("unavailable")

\* The attempt fails in transport, whatever becomes of its request.
GiveUp(c) ==
    /\ calls[c].phase = "sent" /\ calls[c].reply = NoReply
    /\ IF Again(c) THEN Transmit(c) ELSE Return(c, LostAnswer(c)) /\ UNCHANGED wire
    /\ UNCHANGED <<store, effects, seen, released>>

-----------------------------------------------------------------------------
Init ==
    /\ store = [k \in Keys |-> IF k \in Stored THEN Whole({}) ELSE Absent]
    /\ calls = [c \in Clients |-> [round |-> 0, phase |-> "done", plan |-> NoPlan,
                                   base |-> Absent, length |-> "told", try |-> 0,
                                   reply |-> NoReply]]
    /\ wire = {}
    /\ answers = [x \in Clients \X (1 .. Rounds) |-> [plan |-> NoPlan, returned |-> NoAnswer]]
    /\ effects = [x \in Clients \X (1 .. Rounds) |-> [objects |-> {}, count |-> 0]]
    /\ seen = [c \in Clients |-> {}]
    /\ released = {}

Client(c) == \/ Begin(c) \/ Refuse(c) \/ Send(c) \/ Receive(c) \/ GiveUp(c)

Next == \/ \E c \in Clients : Client(c)
        \/ \E r \in wire : Process(r) \/ Deny(r)

Spec == Init /\ [][Next]_vars
-----------------------------------------------------------------------------
(* Properties. *)

Once(plan) == plan.op = "put" \/ Relayed(plan)

\* A put, the caller's or a relay's, takes effect at most once; when it is
\* reported done it did, and when it is refused it did not and never will,
\* however late its request is processed (map_put_error() keeps "outcome is
\* unknown" for the rest).
TakesEffectAsAnswered ==
    \A x \in DOMAIN answers :
        LET plan == answers[x].plan
            kind == answers[x].returned.kind
        IN  (plan # NoPlan /\ Once(plan)) =>
                /\ effects[x].count <= 1
                /\ kind = "ok" => effects[x].count = 1
                /\ kind \in Refusals => effects[x].count = 0

Ended(c, op, kind) ==
    /\ calls[c].phase = "done" /\ calls[c].plan.op = op
    /\ answers[Current(c)].returned.kind = kind

\* already_exists and token_mismatch are only reported when the key did hold
\* an object, or another object than the token's, while the call ran.
ConflictIsReal ==
    \A c \in Clients :
        LET key == calls[c].plan.key
        IN  /\ Ended(c, "put", "already_exists")
                   => \E o \in Objects \ {Absent} : <<key, o>> \in seen[c]
            /\ Ended(c, "put", "token_mismatch")
                   => \E o \in Objects \ {calls[c].base} : <<key, o>> \in seen[c]

\* What a put answers is what happened to the object.
PutAnswerIsTrue == TakesEffectAsAnswered /\ ConflictIsReal

\* An acknowledged update stays in the object until a call without a
\* condition overwrites or deletes it: conditional writers never undo one
\* another (release notes v0.1.0: provider-enforced conditional writes).
NoLostUpdate ==
    \A x \in DOMAIN answers :
        (answers[x].plan.op = "put" /\ answers[x].returned.kind = "ok")
            => x[1] \in store[answers[x].plan.key].carries \cup released

\* A version of its source that was current while the copy ran; of a source whose
\* length was never told, it may be what arrived before its server fell silent.
FromSource(c, object) ==
    \/ <<calls[c].plan.from, object>> \in seen[c]
    \/ /\ calls[c].length = "untold"
       /\ \E o \in Objects : <<calls[c].plan.from, o>> \in seen[c] /\ object = Cut(o, "untold")

\* A copy that succeeded stored one version of its source, current while the
\* copy ran, and reports that version's tag, native or relayed, retried or not;
\* only a relay whose get brings no Content-Length may miss its end.
CopyIsOneVersion ==
    \A c \in Clients :
        Ended(c, "copy", "ok") =>
            LET object == answers[Current(c)].returned.object
            IN  object \in effects[Current(c)].objects /\ FromSource(c, object)

\* No put and no copy, not even one that failed or gave up, leaves a part of an
\* object of known length: its body breaks off on the wire, and is not taken for
\* the object (set_content_length, AsyncReadBody).
NoTornObject == \A k \in Keys : store[k].state # "torn"

\* A delete that succeeded left the key without an object at some moment.
DeleteIsSeen ==
    \A c \in Clients :
        Ended(c, "delete", "ok") => <<calls[c].plan.key, Absent>> \in seen[c]
=============================================================================
