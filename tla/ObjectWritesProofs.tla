-------------------------- MODULE ObjectWritesProofs --------------------------
(***************************************************************************)
(* The safety of writes for any clients, keys, buckets, plans, attempts    *)
(* and rounds.                                                             *)
(*                                                                         *)
(* A request outlives the attempt, and the call, that sent it, so the      *)
(* invariant speaks of every call ever begun.  Requested: what a request   *)
(* on the wire is, whoever still waits for it.  OnceInv: a request that is *)
(* not sent again is on the wire, or has had its effect, or was refused.   *)
(* Watching: a running call has seen what its keys hold.  Replied: what a  *)
(* reply that has reached a call is evidence of.  Kept: an update that has *)
(* taken effect is carried on.                                             *)
(***************************************************************************)
EXTENDS ObjectWrites, TLAPS

Calls == Clients \X (1 .. Rounds)

PlanType  == [op : Ops, key : Keys, from : Keys, intent : Intents]
Sound     == [carries : SUBSET Clients, state : {"absent", "whole", "short"}]
ReplyType == [code : Codes, object : Sound]

CallType ==
    [round : 0 .. Rounds, phase : {"done", "ready", "sent"}, plan : PlanType \cup {NoPlan},
     base : Sound, length : Lengths, try : 0 .. MaxAttempts, reply : ReplyType]

RequestType ==
    [by : Clients, round : 1 .. Rounds, try : 1 .. MaxAttempts, op : Ops, key : Keys,
     from : Keys, condition : [intent : Intents, token : Sound], object : Sound,
     end : Ends, length : Lengths,
     framing : [length : Lengths, finish : {"ended", "failed"}], blind : BOOLEAN]

AnswerType ==
    [plan : PlanType \cup {NoPlan}, returned : [kind : Kinds, object : Sound]]

TypeOK ==
    /\ store \in [Keys -> Sound]
    /\ calls \in [Clients -> CallType]
    /\ wire \in SUBSET RequestType
    /\ answers \in [Calls -> AnswerType]
    /\ effects \in [Calls -> [objects : SUBSET Sound, count : Nat]]
    /\ seen \in [Clients -> SUBSET (Keys \X Sound)]
    /\ released \in SUBSET Clients

\* What a call was asked for, running or answered.
Plan(c, n) == IF n = calls[c].round THEN calls[c].plan ELSE answers[<<c, n>>].plan

Sent(c, n) == {r \in wire : r.by = c /\ r.round = n}

Unanswered == [plan |-> NoPlan, returned |-> NoAnswer]

\* Calls begin one after the other; a finished one is recorded with its plan.
RoundedAt(c) ==
    /\ calls[c].phase # "done" => calls[c].round # 0
    /\ calls[c].round = 0 => calls[c].plan = NoPlan
    /\ calls[c].phase # "sent" \/ calls[c].reply.code = "none" => calls[c].reply = NoReply
    /\ \A n \in 1 .. Rounds :
          /\ n <= calls[c].round => Plan(c, n) \in Plans[c]
          /\ n > calls[c].round =>
                /\ answers[<<c, n>>] = Unanswered
                /\ effects[<<c, n>>].count = 0
                /\ Sent(c, n) = {}
          /\ n = calls[c].round =>
                IF calls[c].phase = "done" THEN answers[<<c, n>>].plan = calls[c].plan
                ELSE answers[<<c, n>>] = Unanswered

Rounded == \A c \in Clients : RoundedAt(c)

\* What a request says of its body is what the body does.
Framed(r) ==
    /\ r.framing.length = r.length
    /\ r.framing.finish = "ended" => r.end = "whole" \/ (r.end = "short" /\ r.length = "untold")

\* A request is the one its call would send again.
RequestInv(r) ==
    LET plan == Plan(r.by, r.round)
    IN  /\ r.round <= calls[r.by].round
        /\ r.key = plan.key /\ r.from = plan.from
        /\ r.op = IF Relayed(plan) THEN "put" ELSE plan.op
        /\ r.condition.intent = plan.intent /\ (r.blind <=> plan.intent = "none")
        /\ plan.op = "put" => r.by \in r.object.carries
        /\ plan.intent = "match" => r.condition.token.carries \subseteq r.object.carries
        /\ Framed(r)
        /\ r.round = calls[r.by].round =>
              /\ r.length = calls[r.by].length
              /\ calls[r.by].phase # "ready" /\ r.try <= calls[r.by].try
              /\ plan.intent = "match" => r.condition.token = calls[r.by].base
              /\ Relayed(plan) => r.object = calls[r.by].base

Requested == \A r \in wire : RequestInv(r)

Denied == {"403", "404", "409", "412", "503"}

\* A put is sent once: while its request is on the wire it has had no effect,
\* and afterwards it has none to come.
SentOnce(c, n) ==
    /\ effects[<<c, n>>].count <= 1
    /\ Sent(c, n) # {} => effects[<<c, n>>].count = 0
    /\ \A r, s \in Sent(c, n) : r = s
    /\ n = calls[c].round /\ calls[c].phase = "sent" =>
          /\ calls[c].try = 1
          /\ calls[c].reply # NoReply => Sent(c, n) = {}
          /\ calls[c].reply.code = "ok" => effects[<<c, n>>].count = 1
          /\ calls[c].reply.code \in Denied => effects[<<c, n>>].count = 0
    /\ answers[<<c, n>>].returned.kind \in Refusals \cup {"ok"} =>
          /\ Sent(c, n) = {}
          /\ effects[<<c, n>>].count = IF answers[<<c, n>>].returned.kind = "ok" THEN 1 ELSE 0

OnceAt(c, n) ==
    /\ n = calls[c].round /\ calls[c].phase = "ready" =>
          Sent(c, n) = {} /\ effects[<<c, n>>].count = 0 /\ calls[c].try = 0
    /\ n <= calls[c].round /\ Once(Plan(c, n)) => SentOnce(c, n)

OnceInv == \A c \in Clients, n \in 1 .. Rounds : OnceAt(c, n)

\* A running call has seen what its keys hold, and what it read there.
Watches(c) ==
    calls[c].phase \in {"ready", "sent"} =>
        /\ \A k \in {calls[c].plan.key, calls[c].plan.from} : <<k, store[k]>> \in seen[c]
        /\ Relayed(calls[c].plan) => <<calls[c].plan.from, calls[c].base>> \in seen[c]

Watching == \A c \in Clients : Watches(c)

\* What a reply proves.
ReplyProves(c) ==
    LET call == calls[c]
    IN  /\ (call.reply.code = "ok" /\ call.plan.op = "copy") =>
              /\ call.reply.object \in effects[Current(c)].objects
              /\ FromSource(c, call.reply.object)
        /\ (call.reply.code = "ok" /\ call.plan.op = "delete") =>
              <<call.plan.key, Absent>> \in seen[c]
        /\ (call.reply.code = "412" /\ call.plan.intent = "must_not_exist") =>
              \E o \in Objects \ {Absent} : <<call.plan.key, o>> \in seen[c]
        /\ (call.reply.code = "412" /\ call.plan.intent = "match") =>
              \E o \in Objects \ {call.base} : <<call.plan.key, o>> \in seen[c]

Replied == \A c \in Clients : calls[c].phase = "sent" => ReplyProves(c)

\* A put that has taken effect is in its object until a blind call replaces it.
KeptAt(c, n) ==
    (n <= calls[c].round /\ Plan(c, n).op = "put" /\ effects[<<c, n>>].count > 0) =>
        c \in store[Plan(c, n).key].carries \cup released

Kept == \A c \in Clients, n \in 1 .. Rounds : KeptAt(c, n)

\* What the runs check of a call that has just returned.
Returned(c) ==
    LET call     == calls[c]
        returned == answers[Current(c)].returned
    IN  /\ (call.plan.op = "put" /\ returned.kind = "already_exists") =>
              \E o \in Objects \ {Absent} : <<call.plan.key, o>> \in seen[c]
        /\ (call.plan.op = "put" /\ returned.kind = "token_mismatch") =>
              \E o \in Objects \ {call.base} : <<call.plan.key, o>> \in seen[c]
        /\ (call.plan.op = "copy" /\ returned.kind = "ok") =>
              /\ returned.object \in effects[Current(c)].objects
              /\ FromSource(c, returned.object)
        /\ (call.plan.op = "delete" /\ returned.kind = "ok") =>
              <<call.plan.key, Absent>> \in seen[c]

Reported == \A c \in Clients : calls[c].phase = "done" => Returned(c)

Inv == /\ TypeOK /\ Rounded /\ Requested /\ OnceInv /\ Watching /\ Replied /\ Kept
       /\ Reported

-----------------------------------------------------------------------------
(* Types. *)

LEMMA CallFields ==
    ASSUME TypeOK, NEW c \in Clients
    PROVE  /\ calls[c] \in CallType /\ calls \in [Clients -> CallType]
           /\ calls[c].round \in 0 .. Rounds /\ calls[c].phase \in {"done", "ready", "sent"}
           /\ calls[c].plan \in PlanType \cup {NoPlan} /\ calls[c].base \in Sound
           /\ calls[c].try \in 0 .. MaxAttempts /\ calls[c].reply \in ReplyType
           /\ calls[c].length \in Lengths
BY DEF TypeOK, CallType

LEMMA SoundObjects ==
    /\ Absent \in Sound /\ NoReply \in ReplyType /\ NoAnswer \in [kind : Kinds, object : Sound]
    /\ \A carries \in SUBSET Clients : Whole(carries) \in Sound
    /\ Sound \subseteq Objects
    /\ NoReply.code = "none" /\ NoReply.object = Absent /\ Absent.carries = {}
BY DEF Absent, Sound, NoReply, ReplyType, Codes, NoAnswer, Failed, Answer, Kinds, Whole, Objects

LEMMA PlanTyped ==
    ASSUME Rounded, NEW c \in Clients, NEW n \in 1 .. Rounds, n <= calls[c].round
    PROVE  /\ Plan(c, n) \in Plans[c] /\ Plan(c, n) \in PlanType
           /\ Plan(c, n).op \in Ops /\ Plan(c, n).intent \in Intents
           /\ Plan(c, n).op # "put" => Plan(c, n).intent = "none"
<1>1. Plan(c, n) \in Plans[c]
  BY DEF Rounded, RoundedAt
<1> QED BY <1>1, WritesAssumption DEF PlanType

\* A call that runs is the latest of its client.
LEMMA Running ==
    ASSUME TypeOK, Rounded, NEW c \in Clients, calls[c].phase # "done"
    PROVE  /\ calls[c].round \in 1 .. Rounds /\ Current(c) \in Calls
           /\ Plan(c, calls[c].round) = calls[c].plan
           /\ calls[c].plan \in Plans[c] /\ calls[c].plan \in PlanType
           /\ calls[c].plan.op \in Ops /\ calls[c].plan.intent \in Intents
           /\ calls[c].plan.key \in Keys /\ calls[c].plan.from \in Keys
           /\ calls[c].plan.op # "put" => calls[c].plan.intent = "none"
           /\ answers[Current(c)] = Unanswered
<1>1. calls[c].round \in 1 .. Rounds
  BY CallFields, WritesAssumption DEF Rounded, RoundedAt
<1>2. Plan(c, calls[c].round) = calls[c].plan
  BY DEF Plan
<1>3. calls[c].plan \in PlanType
  BY <1>1, <1>2, PlanTyped
<1> QED BY <1>1, <1>2, <1>3, PlanTyped DEF Current, Calls, Rounded, RoundedAt, PlanType

LEMMA RequestFields ==
    ASSUME TypeOK, NEW r \in wire
    PROVE  /\ r \in RequestType /\ r.by \in Clients /\ r.round \in 1 .. Rounds
           /\ r.try \in 1 .. MaxAttempts /\ r.key \in Keys /\ r.from \in Keys
           /\ r.object \in Sound /\ r.op \in Ops
           /\ r.condition.intent \in Intents /\ r.condition.token \in Sound
           /\ r.end \in Ends /\ r.length \in Lengths
           /\ r.blind \in BOOLEAN /\ <<r.by, r.round>> \in Calls
BY DEF TypeOK, RequestType, Calls

\* Only what is complete is stored: no part of an object of known length.
LEMMA CompleteIsSound ==
    ASSUME TypeOK, NEW r \in wire, Framed(r), Complete(r)
    PROVE  /\ Arrived(r) \in Sound /\ Arrived(r).carries = r.object.carries
           /\ Arrived(r) = r.object \/ (r.length = "untold" /\ Arrived(r) = Cut(r.object, "untold"))
<1>1. r.object \in Sound /\ r.end \in Ends /\ r.length \in Lengths
  BY RequestFields
<1>2. CASE r.end = "whole"
  BY <1>1, <1>2 DEF Arrived
<1>3. CASE r.end # "whole"
  <2>1. r.length = "untold"
    BY <1>1, <1>3 DEF Complete, Framed, Lengths
  <2>2. Cut(r.object, "untold") \in Sound /\ Cut(r.object, "untold").carries = r.object.carries
    BY <1>1 DEF Cut, Sound
  <2> QED BY <1>3, <2>1, <2>2 DEF Arrived
<1> QED BY <1>2, <1>3

LEMMA WrittenTyped ==
    ASSUME TypeOK, NEW r \in wire, Framed(r), Complete(r)
    PROVE  Written(r) \in Sound
BY RequestFields, SoundObjects, CompleteIsSound DEF Written, TypeOK, Ops

LEMMA RequestTyped ==
    ASSUME TypeOK, Rounded, NEW c \in Clients, calls[c].phase # "done", NEW end \in EndsOf(calls[c]),
           calls[c].try < MaxAttempts
    PROVE  /\ Request(c, end) \in RequestType
           /\ Request(c, end).by = c /\ Request(c, end).round = calls[c].round
           /\ Request(c, end).try = calls[c].try + 1 /\ Request(c, end).key = calls[c].plan.key
           /\ Request(c, end).from = calls[c].plan.from
           /\ Request(c, end).op = IF Relayed(calls[c].plan) THEN "put" ELSE calls[c].plan.op
           /\ Request(c, end).condition.intent = calls[c].plan.intent
           /\ calls[c].plan.intent = "match" => Request(c, end).condition.token = calls[c].base
           /\ Request(c, end).object = Payload(c)
           /\ Framed(Request(c, end)) /\ Request(c, end).length = calls[c].length
           /\ Request(c, end).blind <=> calls[c].plan.intent = "none"
<1>1. /\ calls[c].round \in 1 .. Rounds /\ calls[c].plan.key \in Keys
      /\ calls[c].plan.from \in Keys /\ calls[c].plan.op \in Ops
      /\ calls[c].plan.intent \in Intents
  BY Running
<1>2. calls[c].try + 1 \in 1 .. MaxAttempts /\ calls[c].base \in Sound
  BY CallFields, WritesAssumption
<1>3. Condition(calls[c]) \in [intent : Intents, token : Sound]
  BY <1>1, <1>2, SoundObjects DEF Condition
<1>4. Payload(c) \in Sound
  <2>1. calls[c].base.carries \cup {c} \in SUBSET Clients
    BY <1>2 DEF Sound
  <2> QED BY <1>2, <2>1, SoundObjects DEF Payload
<1>5. (IF Relayed(calls[c].plan) THEN "put" ELSE calls[c].plan.op) \in Ops
  BY <1>1 DEF Ops
<1>6. calls[c].length \in Lengths /\ end \in Ends
  <2>1. calls[c].length \in Lengths
    BY CallFields
  <2> QED BY <2>1 DEF EndsOf, Ends, Lengths
<1>7. Framing(calls[c], end) \in [length : Lengths, finish : {"ended", "failed"}]
  BY <1>6 DEF Framing
<1>8. Request(c, end) \in RequestType
  BY <1>1, <1>2, <1>3, <1>4, <1>5, <1>6, <1>7 DEF Request, RequestType, CopySource
<1>9. Framed(Request(c, end)) /\ Request(c, end).length = calls[c].length
  BY DEF Framed, Request, Framing
<1> QED BY <1>8, <1>9 DEF Request, Condition, CopySource

\* What the provider makes of a reply.
LEMMA OutcomeFacts ==
    ASSUME NEW reply \in ReplyType, reply.code # "none", NEW plan \in PlanType
    PROVE  LET answer == Outcome(plan, reply)
           IN  /\ answer \in [kind : Kinds, object : Sound]
               /\ answer.kind = "ok" <=> reply.code = "ok"
               /\ answer.kind = "ok" => answer.object = reply.object
               /\ answer.kind \in Refusals => reply.code \in Denied
               /\ answer.kind = "already_exists" =>
                     reply.code = "412" /\ plan.intent = "must_not_exist"
               /\ answer.kind = "token_mismatch" =>
                     reply.code = "412" /\ plan.intent = "match"
<1>1. /\ reply.code \in Codes /\ reply.object \in Sound /\ plan.intent \in Intents
  BY DEF ReplyType, PlanType
<1>2. CASE reply.code = "ok"
  BY <1>1, <1>2 DEF Outcome, Answer, Kinds, Refusals
<1>3. CASE reply.code # "ok" /\ plan.op = "put"
  <2> DEFINE kind == PutKind(plan, reply.code)
  <2>1. /\ kind \in Refusals \cup {"other"}
        /\ kind \in Refusals => reply.code \in Denied
        /\ kind = "already_exists" => reply.code = "412" /\ plan.intent = "must_not_exist"
        /\ kind = "token_mismatch" => reply.code = "412" /\ plan.intent = "match"
    BY <1>1, <1>3 DEF PutKind, Codes, Intents, Refusals, Denied
  <2>2. Outcome(plan, reply) = [kind |-> kind, object |-> Absent]
    BY <1>3 DEF Outcome, Failed, Answer
  <2> HIDE DEF kind
  <2> QED BY <1>3, <2>1, <2>2, SoundObjects DEF Kinds, Refusals
<1>4. CASE reply.code # "ok" /\ plan.op # "put"
  <2> DEFINE kind == SdkKind(reply.code)
  <2>1. /\ kind \in {"conflict", "not_found", "refused", "other"}
        /\ kind \in Refusals => reply.code \in Denied
    BY <1>1, <1>4 DEF SdkKind, Codes, Refusals, Denied
  <2>2. Outcome(plan, reply) = [kind |-> kind, object |-> Absent]
    BY <1>4 DEF Outcome, Failed, Answer
  <2> HIDE DEF kind
  <2> QED BY <1>4, <2>1, <2>2, SoundObjects DEF Kinds, Refusals
<1> QED BY <1>2, <1>3, <1>4

-----------------------------------------------------------------------------
(* A call begins. *)

LEMMA BeginShape ==
    ASSUME TypeOK, NEW c \in Clients, Begin(c)
    PROVE  \E plan \in Plans[c] :
              /\ calls[c].phase = "done" /\ calls[c].round < Rounds
              /\ plan \in PlanType /\ plan.key \in Keys /\ plan.from \in Keys
              /\ calls' \in [Clients -> CallType]
              /\ calls'[c].round = calls[c].round + 1 /\ calls'[c].phase = "ready"
              /\ calls'[c].plan = plan /\ calls'[c].try = 0 /\ calls'[c].reply = NoReply
              /\ Reads(plan) => calls'[c].base = store[plan.from]
              /\ plan.intent = "match" => store[plan.from] # Absent
              /\ \A d \in Clients \ {c} : calls'[d] = calls[d] /\ seen'[d] = seen[d]
              /\ seen' \in [Clients -> SUBSET (Keys \X Sound)]
              /\ seen'[c] = {<<k, store[k]>> : k \in {plan.key, plan.from}}
              /\ UNCHANGED <<store, wire, answers, effects, released>>
<1>1. PICK plan \in Plans[c], length \in Lengths :
          /\ plan.intent = "match" => store[plan.from] # Absent
          /\ seen' = [seen EXCEPT ![c] = {<<k, store[k]>> : k \in {plan.key, plan.from}}]
          /\ SetCall(c, [round |-> calls[c].round + 1, phase |-> "ready", plan |-> plan,
                         base |-> IF Reads(plan) THEN store[plan.from] ELSE Absent,
                         length |-> length, try |-> 0, reply |-> NoReply])
  BY DEF Begin
<1> DEFINE call == [round |-> calls[c].round + 1, phase |-> "ready", plan |-> plan,
                    base |-> IF Reads(plan) THEN store[plan.from] ELSE Absent,
                    length |-> length, try |-> 0, reply |-> NoReply]
<1>2. plan \in PlanType /\ plan.key \in Keys /\ plan.from \in Keys
  BY WritesAssumption DEF PlanType
<1>3. calls[c].phase = "done" /\ calls[c].round < Rounds /\ calls[c].round + 1 \in 0 .. Rounds
  BY CallFields, WritesAssumption DEF Begin
<1>4. call \in CallType
  BY <1>2, <1>3, SoundObjects, WritesAssumption DEF CallType, TypeOK
<1>5. /\ call.round = calls[c].round + 1 /\ call.phase = "ready" /\ call.plan = plan
      /\ call.try = 0 /\ call.reply = NoReply
      /\ Reads(plan) => call.base = store[plan.from]
  OBVIOUS
<1>6. calls' = [calls EXCEPT ![c] = call]
  BY <1>1 DEF SetCall
<1>7. {<<k, store[k]>> : k \in {plan.key, plan.from}} \in SUBSET (Keys \X Sound)
  BY <1>2 DEF TypeOK
<1>8. /\ seen' \in [Clients -> SUBSET (Keys \X Sound)]
      /\ seen'[c] = {<<k, store[k]>> : k \in {plan.key, plan.from}}
      /\ \A d \in Clients \ {c} : seen'[d] = seen[d]
  BY <1>1, <1>7 DEF TypeOK
<1> HIDE DEF call
<1>9. /\ calls' \in [Clients -> CallType] /\ calls'[c] = call
      /\ \A d \in Clients \ {c} : calls'[d] = calls[d]
  BY <1>4, <1>6 DEF TypeOK
<1> QED BY <1>1, <1>2, <1>3, <1>5, <1>8, <1>9 DEF Begin

LEMMA BeginInv ==
    ASSUME Inv, NEW c \in Clients, Begin(c)
    PROVE  Inv'
<1> USE DEF Inv
<1>1. PICK plan \in Plans[c] :
              /\ calls[c].phase = "done" /\ calls[c].round < Rounds
              /\ plan \in PlanType /\ plan.key \in Keys /\ plan.from \in Keys
              /\ calls' \in [Clients -> CallType]
              /\ calls'[c].round = calls[c].round + 1 /\ calls'[c].phase = "ready"
              /\ calls'[c].plan = plan /\ calls'[c].try = 0 /\ calls'[c].reply = NoReply
              /\ Reads(plan) => calls'[c].base = store[plan.from]
              /\ plan.intent = "match" => store[plan.from] # Absent
              /\ \A d \in Clients \ {c} : calls'[d] = calls[d] /\ seen'[d] = seen[d]
              /\ seen' \in [Clients -> SUBSET (Keys \X Sound)]
              /\ seen'[c] = {<<k, store[k]>> : k \in {plan.key, plan.from}}
              /\ UNCHANGED <<store, wire, answers, effects, released>>
  BY BeginShape
<1>2. PICK m \in 1 .. Rounds : m = calls[c].round + 1
  BY <1>1, CallFields, WritesAssumption
<1>3. /\ calls[c].round \in 0 .. Rounds /\ m > calls[c].round
      /\ \A n \in 1 .. Rounds : /\ n <= m <=> n <= calls[c].round \/ n = m
                                /\ n > m => n > calls[c].round
                                /\ n <= calls[c].round => n # m
  BY <1>1, <1>2, CallFields, WritesAssumption
<1>4. TypeOK'
  BY <1>1 DEF TypeOK
<1>5. calls'[c].round = m
  BY <1>1, <1>2
<1>6. \A n \in 1 .. Rounds : n <= calls[c].round => Plan(c, n)' = Plan(c, n)
  BY <1>1, <1>3, <1>5 DEF Plan, Rounded, RoundedAt
<1>7. Plan(c, m)' = plan
  BY <1>1, <1>5 DEF Plan
<1>8. \A d \in Clients \ {c}, n \in 1 .. Rounds : Plan(d, n)' = Plan(d, n)
  BY <1>1 DEF Plan
<1>9. \A d \in Clients, n \in 1 .. Rounds : Sent(d, n)' = Sent(d, n)
  BY <1>1 DEF Sent
<1>10. /\ answers[<<c, m>>] = Unanswered /\ effects[<<c, m>>].count = 0 /\ Sent(c, m) = {}
  BY <1>3 DEF Rounded, RoundedAt
<1>11. ASSUME NEW d \in Clients PROVE RoundedAt(d)'
  <2>0. RoundedAt(d)
    BY DEF Rounded
  <2>1. CASE d = c
    BY <1>1, <1>3, <1>5, <1>6, <1>7, <1>9, <1>10, <2>0, <2>1 DEF RoundedAt
  <2>2. CASE d # c
    BY <1>1, <1>8, <1>9, <2>0, <2>2 DEF RoundedAt
  <2> QED BY <2>1, <2>2
<1>12. ASSUME NEW r \in wire
       PROVE  RequestInv(r)'
  <2>1. RequestInv(r) /\ r.by \in Clients /\ r.round \in 1 .. Rounds
    BY RequestFields DEF Requested
  <2>2. CASE r.by = c
    <3>1. r.round <= calls[c].round /\ r.round # m
      BY <1>3, <2>1, <2>2 DEF RequestInv
    <3> QED BY <1>3, <1>5, <1>6, <2>1, <2>2, <3>1 DEF RequestInv
  <2>3. CASE r.by # c
    BY <1>1, <1>8, <2>1, <2>3 DEF RequestInv
  <2> QED BY <2>2, <2>3
<1>13. Requested'
  BY <1>1, <1>12 DEF Requested
<1>14. ASSUME NEW d \in Clients, NEW n \in 1 .. Rounds
       PROVE  OnceAt(d, n)' /\ KeptAt(d, n)'
  <2>0. OnceAt(d, n) /\ KeptAt(d, n)
    BY DEF OnceInv, Kept
  <2>1. CASE d # c
    BY <1>1, <1>8, <1>9, <2>0, <2>1 DEF OnceAt, SentOnce, KeptAt
  <2>2. CASE d = c /\ n <= calls[c].round
    <3>1. n # m /\ Plan(d, n)' = Plan(d, n) /\ calls[c].phase = "done"
      BY <1>1, <1>3, <1>6, <2>2
    <3> QED BY <1>1, <1>3, <1>5, <1>9, <2>0, <2>2, <3>1 DEF OnceAt, SentOnce, KeptAt
  <2>3. CASE d = c /\ n = m
    <3>1. answers[<<c, m>>].returned.kind = "none"
      BY <1>10 DEF Unanswered, NoAnswer, Failed, Answer
    <3> QED BY <1>1, <1>5, <1>9, <1>10, <2>3, <3>1
         DEF OnceAt, SentOnce, KeptAt, Refusals
  <2>4. CASE d = c /\ n > m
    <3>1. n \in Nat /\ m \in Nat /\ ~(n <= m) /\ n # m
      BY <2>4
    <3> QED BY <1>5, <2>4, <3>1 DEF OnceAt, KeptAt
  <2>5. n <= calls[c].round \/ n = m \/ n > m
    BY <1>2, <1>3
  <2> QED BY <2>1, <2>2, <2>3, <2>4, <2>5
<1>15. ASSUME NEW d \in Clients
       PROVE  /\ Watches(d)'
              /\ calls'[d].phase = "sent" => ReplyProves(d)'
              /\ calls'[d].phase = "done" => Returned(d)'
  <2>1. CASE d # c
    <3>1. calls'[d] = calls[d] /\ answers'[Current(d)'] = answers[Current(d)]
          /\ Current(d)' = Current(d) /\ seen'[d] = seen[d]
      BY <1>1, <2>1 DEF Current
    <3>2. \A object : FromSource(d, object)' <=> FromSource(d, object)
      BY <3>1 DEF FromSource
    <3>3. Watches(d)'
      BY <1>1, <2>1 DEF Watching, Watches
    <3>4. calls[d].phase = "sent" => ReplyProves(d)'
      BY <1>1, <3>1, <3>2 DEF Replied, ReplyProves
    <3>5. calls[d].phase = "done" => Returned(d)'
      BY <1>1, <3>1, <3>2 DEF Reported, Returned
    <3> QED BY <3>1, <3>3, <3>4, <3>5
  <2>2. CASE d = c
    <3>1. Relayed(plan) => Reads(plan)
      BY DEF Reads
    <3> QED BY <1>1, <2>2, <3>1 DEF Watches
  <2> QED BY <2>1, <2>2
<1> QED BY <1>4, <1>11, <1>13, <1>14, <1>15
        DEF Rounded, OnceInv, Kept, Watching, Replied, Reported

-----------------------------------------------------------------------------
(* A request is sent. *)

\* Only a request that may be sent again is: of a put there is one.
MaySend(c) ==
    \/ calls[c].phase = "ready" /\ (Relayed(calls[c].plan) => calls[c].base # Absent)
    \/ calls[c].phase = "sent" /\ Again(c)

LEMMA SendTries ==
    ASSUME Inv, NEW c \in Clients, MaySend(c)
    PROVE  /\ calls[c].phase # "done" /\ calls[c].try < MaxAttempts
           /\ Once(calls[c].plan) =>
                 /\ calls[c].try = 0 /\ Sent(c, calls[c].round) = {}
                 /\ effects[Current(c)].count = 0
<1> USE DEF Inv
<1>1. /\ calls[c].try \in Nat /\ MaxAttempts \in Nat \ {0} /\ calls[c].phase # "done"
  BY CallFields, WritesAssumption DEF MaySend
<1>2. /\ calls[c].round \in 1 .. Rounds /\ Plan(c, calls[c].round) = calls[c].plan
      /\ OnceAt(c, calls[c].round)
  BY <1>1, Running DEF OnceInv
<1>3. CASE calls[c].phase = "ready"
  BY <1>1, <1>2, <1>3 DEF OnceAt, Current
<1>4. CASE calls[c].phase = "sent" /\ Again(c)
  <2>1. calls[c].try < Attempts(calls[c].plan) /\ Attempts(calls[c].plan) \in {1, MaxAttempts}
    BY <1>4 DEF Again, Attempts
  <2>2. calls[c].try < MaxAttempts
    BY <1>1, <2>1
  <2>3. ~Once(calls[c].plan)
    <3> SUFFICES ASSUME Once(calls[c].plan) PROVE FALSE
      OBVIOUS
    <3>1. SentOnce(c, calls[c].round)
      BY <1>2 DEF OnceAt
    <3>2. calls[c].try = 1
      BY <1>4, <3>1 DEF SentOnce
    <3>3. Attempts(calls[c].plan) = 1
      BY DEF Attempts, Once
    <3> QED BY <2>1, <3>2, <3>3
  <2> QED BY <1>4, <2>2, <2>3
<1> QED BY <1>3, <1>4 DEF MaySend

LEMMA TransmitShape ==
    ASSUME Inv, NEW c \in Clients, MaySend(c), Transmit(c)
    PROVE  /\ calls' \in [Clients -> CallType]
           /\ calls'[c].round = calls[c].round /\ calls'[c].phase = "sent"
           /\ calls'[c].plan = calls[c].plan /\ calls'[c].base = calls[c].base
           /\ calls'[c].try = calls[c].try + 1 /\ calls'[c].reply = NoReply
           /\ calls'[c].length = calls[c].length
           /\ \A d \in Clients \ {c} : calls'[d] = calls[d]
           /\ \E end \in EndsOf(calls[c]) :
                 wire' = wire \cup {Request(c, end)} /\ Request(c, end) \in RequestType
           /\ answers' = answers
<1>1. calls[c].try < MaxAttempts /\ calls[c].phase # "done"
  BY SendTries
<1>2. \A end \in EndsOf(calls[c]) : Request(c, end) \in RequestType
  BY <1>1, RequestTyped DEF Inv
<1> DEFINE call == [calls[c] EXCEPT !.phase = "sent", !.try = @ + 1, !.reply = NoReply]
<1>3. calls[c] \in CallType /\ calls \in [Clients -> CallType]
      /\ calls[c].try + 1 \in 0 .. MaxAttempts /\ NoReply \in ReplyType
  BY <1>1, CallFields, WritesAssumption, SoundObjects DEF Inv
<1>4. /\ call \in CallType /\ call.round = calls[c].round /\ call.phase = "sent"
      /\ call.plan = calls[c].plan /\ call.base = calls[c].base
      /\ call.try = calls[c].try + 1 /\ call.reply = NoReply
      /\ call.length = calls[c].length
  BY <1>3 DEF CallType
<1>5. calls' = [calls EXCEPT ![c] = call]
  BY DEF Transmit, SetCall
<1> HIDE DEF call
<1>6. /\ calls' \in [Clients -> CallType] /\ calls'[c] = call
      /\ \A d \in Clients \ {c} : calls'[d] = calls[d]
  BY <1>3, <1>4, <1>5
<1> QED BY <1>2, <1>4, <1>6 DEF Transmit

LEMMA TransmitInv ==
    ASSUME Inv, NEW c \in Clients, MaySend(c), Transmit(c),
           UNCHANGED <<store, effects, seen, released>>
    PROVE  Inv'
<1> USE DEF Inv
<1>1. /\ calls' \in [Clients -> CallType]
      /\ calls'[c].round = calls[c].round /\ calls'[c].phase = "sent"
      /\ calls'[c].plan = calls[c].plan /\ calls'[c].base = calls[c].base
      /\ calls'[c].try = calls[c].try + 1 /\ calls'[c].reply = NoReply
      /\ calls'[c].length = calls[c].length
      /\ \A d \in Clients \ {c} : calls'[d] = calls[d]
      /\ answers' = answers
  BY TransmitShape
<1>0. PICK end \in EndsOf(calls[c]) :
         wire' = wire \cup {Request(c, end)} /\ Request(c, end) \in RequestType
  BY TransmitShape
<1>2. /\ calls[c].phase # "done" /\ calls[c].try < MaxAttempts /\ calls[c].try \in Nat
      /\ Once(calls[c].plan) =>
            /\ calls[c].try = 0 /\ Sent(c, calls[c].round) = {}
            /\ effects[Current(c)].count = 0
  <2>1. calls[c].phase # "done" /\ calls[c].try < MaxAttempts
    BY SendTries
  <2>2. calls[c].try \in Nat
    BY CallFields, WritesAssumption
  <2> QED BY <2>1, <2>2, SendTries
<1>3. TypeOK'
  BY <1>0, <1>1 DEF TypeOK
<1>4. \A d \in Clients, n \in 1 .. Rounds : Plan(d, n)' = Plan(d, n)
  BY <1>1 DEF Plan
<1>5. PICK m \in 1 .. Rounds : /\ m = calls[c].round /\ Plan(c, m) = calls[c].plan
                               /\ answers[<<c, m>>] = Unanswered
  BY <1>2, Running DEF Current
<1>6. PICK q \in RequestType :
         /\ q = Request(c, end) /\ q.by = c /\ q.round = m
         /\ q.try = calls[c].try + 1 /\ q.key = calls[c].plan.key
         /\ q.from = calls[c].plan.from
         /\ q.op = IF Relayed(calls[c].plan) THEN "put" ELSE calls[c].plan.op
         /\ q.condition.intent = calls[c].plan.intent
         /\ calls[c].plan.intent = "match" => q.condition.token = calls[c].base
         /\ q.object = Payload(c)
         /\ Framed(q) /\ q.length = calls[c].length
         /\ q.blind <=> calls[c].plan.intent = "none"
  BY <1>2, <1>5, RequestTyped
<1>7. /\ \A d \in Clients, n \in 1 .. Rounds : (d # c \/ n # m) => Sent(d, n)' = Sent(d, n)
      /\ Sent(c, m)' = Sent(c, m) \cup {q}
  BY <1>0, <1>6 DEF Sent
<1>8. ASSUME NEW d \in Clients PROVE RoundedAt(d)'
  <2>0. RoundedAt(d)
    BY DEF Rounded
  <2>1. CASE d = c
    <3>1. \A n \in 1 .. Rounds : n > calls[c].round => n # m
      BY <1>5
    <3>2. \A n \in 1 .. Rounds : n = calls[c].round => answers[<<c, n>>] = Unanswered
      BY <1>5
    <3> QED BY <1>1, <1>2, <1>4, <1>7, <2>0, <2>1, <3>1, <3>2 DEF RoundedAt
  <2>2. CASE d # c
    BY <1>1, <1>4, <1>7, <2>0, <2>2 DEF RoundedAt
  <2> QED BY <2>1, <2>2
<1>9. ASSUME NEW r \in wire PROVE RequestInv(r)'
  <2>0. r.try \in Nat
    <3>1. r.try \in 1 .. MaxAttempts
      BY RequestFields
    <3> QED BY <3>1, WritesAssumption
  <2>1. RequestInv(r) /\ r.by \in Clients /\ r.round \in 1 .. Rounds
    BY RequestFields DEF Requested
  <2>2. Plan(r.by, r.round)' = Plan(r.by, r.round)
    BY <1>4, <2>1
  <2>3. CASE r.by = c
    <3>1. r.try <= calls[c].try => r.try <= calls[c].try + 1
      BY <1>2, <2>0
    <3> QED BY <1>1, <2>1, <2>2, <2>3, <3>1 DEF RequestInv
  <2>4. CASE r.by # c
    BY <1>1, <2>1, <2>2, <2>4 DEF RequestInv
  <2> QED BY <2>3, <2>4
<1>10. RequestInv(q)'
  <2>1. Plan(c, m)' = calls[c].plan
    BY <1>4, <1>5
  <2>2. calls[c].plan.op = "put" => c \in Payload(c).carries
    BY DEF Payload, Whole
  <2>3. calls[c].plan.intent = "match" => calls[c].base.carries \subseteq Payload(c).carries
    <3>1. calls[c].plan.intent = "match" => calls[c].plan.op = "put"
      BY <1>2, Running
    <3> QED BY <3>1 DEF Payload, Whole
  <2>4. Relayed(calls[c].plan) => Payload(c) = calls[c].base
    BY DEF Payload, Relayed
  <2>5. calls[c].try + 1 <= calls'[c].try /\ m <= calls'[c].round
    BY <1>1, <1>2, <1>5
  <2> QED BY <1>1, <1>5, <1>6, <2>1, <2>2, <2>3, <2>4, <2>5 DEF RequestInv
<1>11. Requested'
  BY <1>0, <1>6, <1>9, <1>10 DEF Requested
<1>12. ASSUME NEW d \in Clients, NEW n \in 1 .. Rounds
       PROVE  OnceAt(d, n)' /\ KeptAt(d, n)'
  <2>0. OnceAt(d, n) /\ KeptAt(d, n) /\ Plan(d, n)' = Plan(d, n)
    BY <1>4 DEF OnceInv, Kept
  <2>1. KeptAt(d, n)'
    BY <1>1, <2>0 DEF KeptAt
  <2>2. CASE d # c
    BY <1>1, <1>7, <2>0, <2>1, <2>2 DEF OnceAt, SentOnce
  <2>3. CASE d = c /\ n # m
    BY <1>1, <1>5, <1>7, <2>0, <2>1, <2>3 DEF OnceAt, SentOnce
  <2>4. CASE d = c /\ n = m
    <3>1. answers[<<c, m>>].returned.kind = "none"
      BY <1>5 DEF Unanswered, NoAnswer, Failed, Answer
    <3>2. Once(calls[c].plan) =>
             /\ calls[c].try = 0 /\ Sent(c, m) = {} /\ effects[<<c, m>>].count = 0
      BY <1>2, <1>5 DEF Current
    <3>3. ASSUME Once(Plan(c, m)') PROVE SentOnce(c, m)'
      <4>1. Once(calls[c].plan)
        BY <1>4, <1>5, <3>3 DEF Once, Relayed, Native
      <4>2. calls'[c].try = 1 /\ Sent(c, m)' = {q} /\ effects'[<<c, m>>].count = 0
        BY <1>1, <1>7, <3>2, <4>1
      <4> QED BY <1>1, <3>1, <4>2, SoundObjects DEF SentOnce, Refusals, Denied
    <3> QED BY <1>1, <2>1, <2>4, <3>3 DEF OnceAt
  <2> QED BY <2>2, <2>3, <2>4
<1>13. ASSUME NEW d \in Clients
       PROVE  /\ Watches(d)'
              /\ calls'[d].phase = "sent" => ReplyProves(d)'
              /\ calls'[d].phase = "done" => Returned(d)'
  <2>1. CASE d # c
    <3>1. calls'[d] = calls[d] /\ answers'[Current(d)'] = answers[Current(d)]
          /\ Current(d)' = Current(d) /\ seen'[d] = seen[d]
      BY <1>1, <2>1 DEF Current
    <3>2. \A object : FromSource(d, object)' <=> FromSource(d, object)
      BY <3>1 DEF FromSource
    <3>3. Watches(d)'
      BY <1>1, <2>1 DEF Watching, Watches
    <3>4. calls[d].phase = "sent" => ReplyProves(d)'
      BY <3>1, <3>2 DEF Replied, ReplyProves
    <3>5. calls[d].phase = "done" => Returned(d)'
      BY <3>1, <3>2 DEF Reported, Returned
    <3> QED BY <3>1, <3>3, <3>4, <3>5
  <2>2. CASE d = c
    <3>1. Watches(c) /\ calls[c].phase \in {"ready", "sent"}
      BY <1>2, CallFields DEF Watching
    <3> QED BY <1>1, <2>2, <3>1, SoundObjects DEF Watches, ReplyProves
  <2> QED BY <2>1, <2>2
<1> QED BY <1>3, <1>8, <1>11, <1>12, <1>13
        DEF Rounded, OnceInv, Kept, Watching, Replied, Reported

-----------------------------------------------------------------------------
(* A call returns. *)

\* What a call may return: a refusal before it sent anything, what it makes of
\* a reply, or that it does not know.
MayReturn(c, answer) ==
    /\ answer \in [kind : Kinds, object : Sound]
    /\ \/ calls[c].phase # "done" /\ answer.kind = "unavailable"
       \/ calls[c].phase = "ready" /\ answer.kind \in {"refused", "not_found"}
       \/ /\ calls[c].phase = "sent" /\ calls[c].reply # NoReply
          /\ answer = Outcome(calls[c].plan, calls[c].reply)

LEMMA ReturnShape ==
    ASSUME Inv, NEW c \in Clients, NEW answer, MayReturn(c, answer), Return(c, answer)
    PROVE  /\ calls[c].phase # "done"
           /\ calls' \in [Clients -> CallType] /\ answers' \in [Calls -> AnswerType]
           /\ calls'[c].round = calls[c].round /\ calls'[c].phase = "done"
           /\ calls'[c].plan = calls[c].plan /\ calls'[c].base = calls[c].base
           /\ calls'[c].try = calls[c].try /\ calls'[c].reply = NoReply
           /\ calls'[c].length = calls[c].length
           /\ \A d \in Clients \ {c} : calls'[d] = calls[d]
           /\ answers'[<<c, calls[c].round>>] = [plan |-> calls[c].plan, returned |-> answer]
           /\ \A d \in Clients, n \in 1 .. Rounds :
                 (d # c \/ n # calls[c].round) => answers'[<<d, n>>] = answers[<<d, n>>]
<1>1. calls[c].phase # "done"
  BY DEF MayReturn
<1>2. calls[c].round \in 1 .. Rounds /\ calls[c].plan \in PlanType
  BY <1>1, Running DEF Inv
<1> DEFINE call == [calls[c] EXCEPT !.phase = "done", !.reply = NoReply]
           entry == [plan |-> calls[c].plan, returned |-> answer]
<1>3. calls[c] \in CallType /\ calls \in [Clients -> CallType] /\ NoReply \in ReplyType
  BY CallFields, SoundObjects DEF Inv
<1>4. /\ call \in CallType /\ call.round = calls[c].round /\ call.phase = "done"
      /\ call.plan = calls[c].plan /\ call.base = calls[c].base
      /\ call.try = calls[c].try /\ call.reply = NoReply
      /\ call.length = calls[c].length
  BY <1>3 DEF CallType
<1>5. calls' = [calls EXCEPT ![c] = call] /\ answers' = [answers EXCEPT ![Current(c)] = entry]
  BY DEF Return, SetCall
<1>6. entry \in AnswerType
  BY <1>2 DEF MayReturn, AnswerType
<1> HIDE DEF call, entry
<1>7. /\ calls' \in [Clients -> CallType] /\ calls'[c] = call
      /\ \A d \in Clients \ {c} : calls'[d] = calls[d]
  BY <1>3, <1>4, <1>5
<1>8. answers \in [Calls -> AnswerType]
  BY DEF Inv, TypeOK
<1>9. /\ answers' \in [Calls -> AnswerType] /\ answers'[<<c, calls[c].round>>] = entry
      /\ \A d \in Clients, n \in 1 .. Rounds :
            (d # c \/ n # calls[c].round) => answers'[<<d, n>>] = answers[<<d, n>>]
  BY <1>2, <1>5, <1>6, <1>8 DEF Calls, Current
<1> QED BY <1>1, <1>4, <1>7, <1>9 DEF entry

\* What was promised of an answer holds when it is given.
LEMMA ReturnReported ==
    ASSUME Inv, NEW c \in Clients, NEW answer, MayReturn(c, answer), Return(c, answer),
           UNCHANGED <<effects, seen>>
    PROVE  Returned(c)'
<1> USE DEF Inv
<1>0. /\ calls'[c].plan = calls[c].plan /\ calls'[c].base = calls[c].base
      /\ calls'[c].length = calls[c].length
      /\ calls'[c].round = calls[c].round
      /\ answers'[<<c, calls[c].round>>] = [plan |-> calls[c].plan, returned |-> answer]
  BY ReturnShape
<1>1. /\ calls'[c].plan = calls[c].plan /\ calls'[c].base = calls[c].base
      /\ answers'[Current(c)'] = [plan |-> calls[c].plan, returned |-> answer]
      /\ Current(c)' = Current(c)
  BY <1>0 DEF Current
<1>2. answers'[Current(c)'].returned = answer
  BY <1>1
<1>3. CASE answer.kind \in {"unavailable", "refused", "not_found"}
  BY <1>1, <1>2, <1>3 DEF Returned, FromSource
<1>4. CASE /\ calls[c].phase = "sent" /\ calls[c].reply # NoReply
           /\ answer = Outcome(calls[c].plan, calls[c].reply)
  <2>1. calls[c].reply \in ReplyType /\ calls[c].reply.code # "none" /\ ReplyProves(c)
        /\ calls[c].plan \in PlanType
    BY <1>4, CallFields, Running DEF Rounded, RoundedAt, Replied
  <2>2. /\ answer.kind = "ok" <=> calls[c].reply.code = "ok"
        /\ answer.kind = "ok" => answer.object = calls[c].reply.object
        /\ answer.kind = "already_exists" =>
              calls[c].reply.code = "412" /\ calls[c].plan.intent = "must_not_exist"
        /\ answer.kind = "token_mismatch" =>
              calls[c].reply.code = "412" /\ calls[c].plan.intent = "match"
    BY <1>4, <2>1, OutcomeFacts
  <2> QED BY <1>0, <1>1, <1>2, <2>1, <2>2 DEF Returned, ReplyProves, FromSource
<1> QED BY <1>3, <1>4 DEF MayReturn

LEMMA ReturnInv ==
    ASSUME Inv, NEW c \in Clients, NEW answer, MayReturn(c, answer), Return(c, answer),
           UNCHANGED <<store, wire, effects, seen, released>>
    PROVE  Inv'
<1> USE DEF Inv
<1>1. /\ calls[c].phase # "done"
      /\ calls' \in [Clients -> CallType] /\ answers' \in [Calls -> AnswerType]
      /\ calls'[c].round = calls[c].round /\ calls'[c].phase = "done"
      /\ calls'[c].plan = calls[c].plan /\ calls'[c].base = calls[c].base
      /\ calls'[c].try = calls[c].try /\ calls'[c].reply = NoReply
      /\ calls'[c].length = calls[c].length
      /\ \A d \in Clients \ {c} : calls'[d] = calls[d]
      /\ answers'[<<c, calls[c].round>>] = [plan |-> calls[c].plan, returned |-> answer]
      /\ \A d \in Clients, n \in 1 .. Rounds :
            (d # c \/ n # calls[c].round) => answers'[<<d, n>>] = answers[<<d, n>>]
  BY ReturnShape
<1>2. TypeOK'
  BY <1>1 DEF TypeOK
<1>3. \A d \in Clients, n \in 1 .. Rounds : /\ Plan(d, n)' = Plan(d, n)
                                            /\ Sent(d, n)' = Sent(d, n)
  BY <1>1 DEF Plan, Sent
<1>4. PICK m \in 1 .. Rounds : m = calls[c].round /\ Plan(c, m) = calls[c].plan
  BY <1>1, Running
<1>5. ASSUME NEW d \in Clients PROVE RoundedAt(d)'
  <2>0. RoundedAt(d)
    BY DEF Rounded
  <2>1. CASE d = c
    <3>1. \A n \in 1 .. Rounds : n > calls[c].round => n # calls[c].round
      BY <1>4
    <3> QED BY <1>1, <1>3, <2>0, <2>1, <3>1 DEF RoundedAt
  <2>2. CASE d # c
    BY <1>1, <1>3, <2>0, <2>2 DEF RoundedAt
  <2> QED BY <2>1, <2>2
<1>6. ASSUME NEW r \in wire PROVE RequestInv(r)'
  <2>1. RequestInv(r) /\ r.by \in Clients /\ r.round \in 1 .. Rounds
    BY RequestFields DEF Requested
  <2> QED BY <1>1, <1>3, <2>1 DEF RequestInv
<1>7. Requested'
  BY <1>6 DEF Requested
<1>8. ASSUME NEW d \in Clients, NEW n \in 1 .. Rounds
      PROVE  OnceAt(d, n)' /\ KeptAt(d, n)'
  <2>0. OnceAt(d, n) /\ KeptAt(d, n) /\ Plan(d, n)' = Plan(d, n)
    BY <1>3 DEF OnceInv, Kept
  <2>1. KeptAt(d, n)'
    BY <1>1, <2>0 DEF KeptAt
  <2>2. CASE d # c \/ n # m
    BY <1>1, <1>3, <1>4, <2>0, <2>1, <2>2 DEF OnceAt, SentOnce
  <2>3. CASE d = c /\ n = m
    <3>1. /\ answers'[<<c, m>>].returned = answer
          /\ effects'[<<c, m>>] = effects[<<c, m>>] /\ Sent(c, m)' = Sent(c, m)
          /\ m = calls'[c].round /\ m <= calls[c].round
      BY <1>1, <1>3, <1>4
    <3>2. ASSUME Once(Plan(c, m)') PROVE SentOnce(c, m)'
      <4>1. SentOnce(c, m)
        BY <1>3, <2>0, <2>3, <3>1, <3>2 DEF OnceAt, Once, Relayed, Native
      <4>2. answer.kind \in Refusals \cup {"ok"} =>
               /\ Sent(c, m) = {}
               /\ effects[<<c, m>>].count = IF answer.kind = "ok" THEN 1 ELSE 0
        <5>1. CASE answer.kind = "unavailable"
          BY <5>1 DEF Refusals
        <5>2. CASE calls[c].phase = "ready" /\ answer.kind \in {"refused", "not_found"}
          BY <1>4, <2>0, <2>3, <5>2 DEF OnceAt
        <5>3. CASE /\ calls[c].phase = "sent" /\ calls[c].reply # NoReply
                   /\ answer = Outcome(calls[c].plan, calls[c].reply)
          <6>1. calls[c].reply \in ReplyType /\ calls[c].reply.code # "none"
                /\ calls[c].plan \in PlanType
            BY <5>3, CallFields, Running DEF Rounded, RoundedAt
          <6>2. /\ answer.kind = "ok" <=> calls[c].reply.code = "ok"
                /\ answer.kind \in Refusals => calls[c].reply.code \in Denied
            BY <5>3, <6>1, OutcomeFacts
          <6>3. "ok" \notin Refusals
            BY DEF Refusals
          <6> QED BY <1>4, <4>1, <5>3, <6>2, <6>3 DEF SentOnce
        <5> QED BY <5>1, <5>2, <5>3 DEF MayReturn
      <4> QED BY <1>1, <3>1, <4>1, <4>2 DEF SentOnce
    <3> QED BY <1>1, <2>1, <2>3, <3>2 DEF OnceAt
  <2> QED BY <2>2, <2>3
<1>9. ASSUME NEW d \in Clients
      PROVE  /\ Watches(d)'
             /\ calls'[d].phase = "sent" => ReplyProves(d)'
             /\ calls'[d].phase = "done" => Returned(d)'
  <2>1. CASE d # c
    <3>1. calls'[d] = calls[d]
      BY <1>1, <2>1
    <3>2. calls[d].phase = "done" => Returned(d)'
      <4> SUFFICES ASSUME calls[d].phase = "done" PROVE Returned(d)'
        OBVIOUS
      <4>1. Returned(d)
        BY DEF Reported
      <4>2. CASE calls[d].round = 0
        BY <3>1, <4>2 DEF Rounded, RoundedAt, Returned, NoPlan
      <4>3. CASE calls[d].round # 0
        <5>1. calls[d].round \in 1 .. Rounds
          BY <4>3, CallFields, WritesAssumption
        <5>2. answers'[Current(d)'] = answers[Current(d)] /\ Current(d)' = Current(d)
          BY <1>1, <2>1, <3>1, <5>1 DEF Current
        <5> QED BY <3>1, <4>1, <5>2 DEF Returned, FromSource
      <4> QED BY <4>2, <4>3
    <3> QED BY <3>1, <3>2 DEF Watching, Watches, Replied, ReplyProves, Current, FromSource
  <2>2. CASE d = c
    BY <1>1, <2>2, ReturnReported DEF Watches
  <2> QED BY <2>1, <2>2
<1> QED BY <1>2, <1>5, <1>7, <1>8, <1>9
        DEF Rounded, OnceInv, Kept, Watching, Replied, Reported

-----------------------------------------------------------------------------
(* The server. *)

\* The reply reaches the call only if it waits for this attempt; nothing else
\* of any call changes.
Delivered(r) ==
    /\ calls[r.by].phase = "sent" /\ calls[r.by].round = r.round
    /\ calls[r.by].try = r.try

LEMMA ReplyShape ==
    ASSUME TypeOK, NEW r \in wire, NEW reply \in ReplyType, Reply(r, reply)
    PROVE  /\ calls' \in [Clients -> CallType]
           /\ \A c \in Clients :
                 /\ calls'[c].round = calls[c].round /\ calls'[c].phase = calls[c].phase
                 /\ calls'[c].plan = calls[c].plan /\ calls'[c].base = calls[c].base
                 /\ calls'[c].try = calls[c].try /\ calls'[c].length = calls[c].length
                 /\ calls'[c].reply = IF c = r.by /\ Delivered(r) THEN reply ELSE calls[c].reply
<1>1. calls \in [Clients -> CallType] /\ r.by \in Clients /\ calls[r.by] \in CallType
  BY CallFields, RequestFields
<1>2. CASE ~Delivered(r)
  BY <1>1, <1>2 DEF Reply, Delivered
<1>3. CASE Delivered(r)
  <2> DEFINE call == [calls[r.by] EXCEPT !.reply = reply]
  <2>1. /\ call \in CallType /\ call.round = calls[r.by].round
        /\ call.phase = calls[r.by].phase /\ call.plan = calls[r.by].plan
        /\ call.base = calls[r.by].base /\ call.try = calls[r.by].try /\ call.reply = reply
        /\ call.length = calls[r.by].length
    BY <1>1 DEF CallType
  <2>2. calls' = [calls EXCEPT ![r.by] = call]
    BY <1>3 DEF Reply, Delivered
  <2> HIDE DEF call
  <2> QED BY <1>1, <1>3, <2>1, <2>2
<1> QED BY <1>2, <1>3

\* What both of the server's steps keep.
LEMMA ServerShape ==
    ASSUME Inv, NEW r \in wire, wire' = wire \ {r}, NEW reply \in ReplyType,
           Reply(r, reply), answers' = answers, reply.code = "none" => reply = NoReply,
           \A c \in Clients, n \in 1 .. Rounds :
              (c # r.by \/ n # r.round) => effects'[<<c, n>>] = effects[<<c, n>>]
    PROVE  /\ Rounded' /\ Requested'
           /\ \A c \in Clients, n \in 1 .. Rounds :
                 /\ Plan(c, n)' = Plan(c, n)
                 /\ Sent(c, n)' = IF c = r.by /\ n = r.round THEN Sent(c, n) \ {r} ELSE Sent(c, n)
<1> USE DEF Inv
<1>0. RequestInv(r) /\ r.by \in Clients /\ r.round \in 1 .. Rounds
  BY RequestFields DEF Requested
<1>1. \A c \in Clients :
         /\ calls'[c].round = calls[c].round /\ calls'[c].phase = calls[c].phase
         /\ calls'[c].plan = calls[c].plan /\ calls'[c].base = calls[c].base
         /\ calls'[c].try = calls[c].try /\ calls'[c].length = calls[c].length
         /\ calls'[c].reply = IF c = r.by /\ Delivered(r) THEN reply ELSE calls[c].reply
  BY ReplyShape
<1>2. \A c \in Clients, n \in 1 .. Rounds : Plan(c, n)' = Plan(c, n)
  BY <1>1 DEF Plan
<1>3. \A c \in Clients, n \in 1 .. Rounds :
         Sent(c, n)' = IF c = r.by /\ n = r.round THEN Sent(c, n) \ {r} ELSE Sent(c, n)
  <2> SUFFICES ASSUME NEW c \in Clients, NEW n \in 1 .. Rounds
               PROVE  {q \in wire' : q.by = c /\ q.round = n}
                         = IF c = r.by /\ n = r.round
                           THEN {q \in wire : q.by = c /\ q.round = n} \ {r}
                           ELSE {q \in wire : q.by = c /\ q.round = n}
    BY DEF Sent
  <2> QED OBVIOUS
<1>4. ASSUME NEW c \in Clients PROVE RoundedAt(c)'
  <2>0. RoundedAt(c)
    BY DEF Rounded
  <2>1. \A n \in 1 .. Rounds : n > calls[c].round => c # r.by \/ n # r.round
    <3>1. c = r.by => r.round <= calls[c].round
      BY <1>0 DEF RequestInv
    <3> QED BY <1>0, <3>1, CallFields
  <2>2. \A n \in 1 .. Rounds : n > calls[c].round =>
           effects'[<<c, n>>] = effects[<<c, n>>] /\ Sent(c, n)' = Sent(c, n)
    BY <1>3, <2>1
  <2>3. (c = r.by /\ Delivered(r)) => calls[c].phase = "sent"
    BY DEF Delivered
  <2> QED BY <1>1, <1>2, <2>0, <2>2, <2>3 DEF RoundedAt
<1>5. ASSUME NEW q \in wire PROVE RequestInv(q)'
  <2>1. RequestInv(q) /\ q.by \in Clients /\ q.round \in 1 .. Rounds
    BY RequestFields DEF Requested
  <2> QED BY <1>1, <1>2, <2>1 DEF RequestInv
<1>6. Requested'
  BY <1>5 DEF Requested
<1>7. Rounded'
  BY <1>4 DEF Rounded
<1> QED BY <1>2, <1>3, <1>6, <1>7

\* The request of a put still on the wire is the one the call waits for.
LEMMA PutDelivered ==
    ASSUME Inv, NEW r \in wire, Once(Plan(r.by, r.round)), calls[r.by].round = r.round,
           calls[r.by].phase = "sent"
    PROVE  Delivered(r)
<1>1. /\ RequestInv(r) /\ r.by \in Clients /\ r.round \in 1 .. Rounds
      /\ r.try \in 1 .. MaxAttempts /\ MaxAttempts \in Nat
  BY RequestFields, WritesAssumption DEF Inv, Requested
<1>2. SentOnce(r.by, r.round) /\ r.round <= calls[r.by].round
  BY <1>1 DEF Inv, OnceInv, OnceAt, RequestInv
<1>3. calls[r.by].try = 1 /\ r.try <= calls[r.by].try
  BY <1>1, <1>2 DEF SentOnce, RequestInv
<1> QED BY <1>1, <1>3 DEF Delivered

\* A reply that stays is evidence of what it was evidence of.
SameReply(c) ==
    /\ calls'[c].plan = calls[c].plan /\ calls'[c].base = calls[c].base
    /\ calls'[c].length = calls[c].length /\ calls'[c].reply = calls[c].reply
    /\ Current(c)' = Current(c) /\ seen[c] \subseteq seen'[c]
    /\ effects[Current(c)].objects \subseteq effects'[Current(c)].objects

LEMMA ReplyStillProves ==
    ASSUME NEW c \in Clients, SameReply(c), ReplyProves(c)
    PROVE  ReplyProves(c)'
<1> DEFINE reply == calls[c].reply
           plan  == calls[c].plan
<1>1. /\ calls'[c].plan = plan /\ calls'[c].base = calls[c].base
      /\ calls'[c].length = calls[c].length /\ calls'[c].reply = reply
      /\ Current(c)' = Current(c) /\ seen[c] \subseteq seen'[c]
      /\ effects[Current(c)].objects \subseteq effects'[Current(c)].objects
  BY DEF SameReply
<1>2. ASSUME NEW object, FromSource(c, object) PROVE FromSource(c, object)'
  BY <1>1, <1>2 DEF FromSource
<1>3. (reply.code = "ok" /\ plan.op = "copy") =>
          /\ reply.object \in effects'[Current(c)].objects
          /\ FromSource(c, reply.object)
  BY <1>1 DEF ReplyProves
<1>4. (reply.code = "ok" /\ plan.op = "delete") => <<plan.key, Absent>> \in seen'[c]
  BY <1>1 DEF ReplyProves
<1>5. (reply.code = "412" /\ plan.intent = "must_not_exist") =>
          \E o \in Objects \ {Absent} : <<plan.key, o>> \in seen'[c]
  BY <1>1 DEF ReplyProves
<1>6. (reply.code = "412" /\ plan.intent = "match") =>
          \E o \in Objects \ {calls[c].base} : <<plan.key, o>> \in seen'[c]
  BY <1>1 DEF ReplyProves
<1>7. (reply.code = "ok" /\ plan.op = "copy") => FromSource(c, calls[c].reply.object)'
  <2>1. PICK object : object = reply.object
    OBVIOUS
  <2>2. (calls[c].reply.object)' = object
    BY <1>1, <2>1
  <2>3. (reply.code = "ok" /\ plan.op = "copy") => FromSource(c, object)'
    BY <1>2, <1>3, <2>1
  <2> QED BY <2>2, <2>3 DEF FromSource
<1> QED BY <1>1, <1>3, <1>4, <1>5, <1>6, <1>7 DEF ReplyProves

LEMMA DenyInv ==
    ASSUME Inv, NEW r \in wire, Deny(r)
    PROVE  Inv'
<1> USE DEF Inv
<1>1. PICK code \in Denials(r) \cup {"none"} : Reply(r, [NoReply EXCEPT !.code = code])
  BY DEF Deny
<1>2. PICK reply : reply = [code |-> code, object |-> Absent]
  OBVIOUS
<1>3. /\ Reply(r, reply) /\ reply.code = code
      /\ reply.code = "none" => reply = NoReply
  BY <1>1, <1>2 DEF NoReply
<1>4. code \in Denied \cup {"500", "none"} /\ reply \in ReplyType
  <2>1. code \in Denied \cup {"500", "none"}
    BY <1>1 DEF Denials, Denied
  <2> QED BY <1>2, <2>1, SoundObjects DEF ReplyType, Codes, Denied
<1>5. /\ wire' = wire \ {r} /\ answers' = answers
      /\ UNCHANGED <<store, effects, seen, released>>
  BY DEF Deny
<1>6. /\ Rounded' /\ Requested'
      /\ \A c \in Clients, n \in 1 .. Rounds :
            /\ Plan(c, n)' = Plan(c, n)
            /\ Sent(c, n)' = IF c = r.by /\ n = r.round THEN Sent(c, n) \ {r} ELSE Sent(c, n)
  BY <1>3, <1>4, <1>5, ServerShape
<1>7. /\ calls' \in [Clients -> CallType]
      /\ \A c \in Clients :
            /\ calls'[c].round = calls[c].round /\ calls'[c].phase = calls[c].phase
            /\ calls'[c].plan = calls[c].plan /\ calls'[c].base = calls[c].base
            /\ calls'[c].try = calls[c].try /\ calls'[c].length = calls[c].length
            /\ calls'[c].reply = IF c = r.by /\ Delivered(r) THEN reply ELSE calls[c].reply
  BY <1>3, <1>4, ReplyShape
<1>8. TypeOK'
  BY <1>5, <1>7 DEF TypeOK
<1>9. RequestInv(r) /\ r.by \in Clients /\ r.round \in 1 .. Rounds
      /\ r \in Sent(r.by, r.round)
  BY RequestFields DEF Requested, Sent
<1>10. ASSUME NEW c \in Clients, NEW n \in 1 .. Rounds
       PROVE  OnceAt(c, n)' /\ KeptAt(c, n)'
  <2>0. OnceAt(c, n) /\ KeptAt(c, n) /\ Plan(c, n)' = Plan(c, n)
    BY <1>6 DEF OnceInv, Kept
  <2>1. KeptAt(c, n)'
    BY <1>5, <1>7, <2>0 DEF KeptAt
  <2>2. CASE c # r.by \/ n # r.round
    <3>1. Sent(c, n)' = Sent(c, n)
      BY <1>6, <2>2
    <3>2. n = calls[c].round => calls'[c].reply = calls[c].reply
      BY <1>7, <2>2 DEF Delivered
    <3> QED BY <1>5, <1>7, <2>0, <2>1, <3>1, <3>2 DEF OnceAt, SentOnce
  <2>3. CASE c = r.by /\ n = r.round
    <3>1. Sent(c, n)' = Sent(c, n) \ {r} /\ Sent(c, n) # {} /\ n <= calls[c].round
      BY <1>6, <1>9, <2>3 DEF RequestInv
    <3>2. n = calls[c].round => calls[c].phase # "ready"
      BY <2>0, <3>1 DEF OnceAt
    <3>3. ASSUME Once(Plan(c, n)') PROVE SentOnce(c, n)'
      <4>1. Once(Plan(c, n)) /\ SentOnce(c, n)
        BY <2>0, <3>1, <3>3 DEF OnceAt
      <4>2. effects[<<c, n>>].count = 0 /\ Sent(c, n)' = {}
        BY <1>9, <2>3, <3>1, <4>1 DEF SentOnce
      <4>3. (n = calls[c].round /\ calls[c].phase = "sent") => calls'[c].reply = reply
        BY <1>7, <2>3, <4>1, PutDelivered
      <4>4. "ok" \notin Denied \cup {"500", "none"}
        BY DEF Denied
      <4> QED BY <1>3, <1>4, <1>5, <1>7, <3>1, <4>1, <4>2, <4>3, <4>4 DEF SentOnce
    <3> QED BY <1>7, <2>1, <3>2, <3>3 DEF OnceAt
  <2> QED BY <2>2, <2>3
<1>11. ASSUME NEW c \in Clients
       PROVE  /\ Watches(c)'
              /\ calls'[c].phase = "sent" => ReplyProves(c)'
              /\ calls'[c].phase = "done" => Returned(c)'
  <2>1. Watches(c)' /\ (calls'[c].phase = "done" => Returned(c)')
    <3>1. Watches(c)'
      BY <1>5, <1>7 DEF Watching, Watches
    <3>2. /\ calls'[c].plan = calls[c].plan /\ calls'[c].length = calls[c].length
          /\ Current(c)' = Current(c) /\ seen' = seen
      BY <1>5, <1>7 DEF Current
    <3>3. \A object : FromSource(c, object)' <=> FromSource(c, object)
      BY <3>2 DEF FromSource
    <3> QED BY <1>5, <1>7, <3>1, <3>2, <3>3 DEF Reported, Returned
  <2>2. CASE ~(c = r.by /\ Delivered(r))
    <3>1. SameReply(c)
      BY <1>5, <1>7, <2>2 DEF SameReply, Current
    <3>2. calls[c].phase = "sent" => ReplyProves(c)
      BY DEF Replied
    <3> QED BY <1>7, <2>1, <3>1, <3>2, ReplyStillProves
  <2>3. CASE c = r.by /\ Delivered(r)
    <3>1. /\ calls'[c].reply = reply /\ reply.code # "ok" /\ Watches(c)
          /\ calls[c].phase = "sent" /\ Plan(c, r.round) = calls[c].plan
      BY <1>3, <1>4, <1>7, <2>3 DEF Denied, Delivered, Watching, Plan
    <3>2. /\ calls[c].plan.key = r.key /\ calls[c].plan.intent = r.condition.intent
          /\ r.condition.intent = "match" => r.condition.token = calls[c].base
          /\ <<r.key, store[r.key]>> \in seen[c] /\ store[r.key] \in Objects
      <4>1. store[r.key] \in Sound
        BY RequestFields DEF TypeOK
      <4> QED BY <1>9, <2>3, <3>1, <4>1, SoundObjects DEF RequestInv, Watches, Delivered
    <3>3. code = "412" => ~Holds(r.condition, r.key)
      BY <1>1 DEF Denials
    <3>4. (code = "412" /\ r.condition.intent = "must_not_exist") => store[r.key] # Absent
      BY <3>3 DEF Holds
    <3>5. (code = "412" /\ r.condition.intent = "match") => store[r.key] # calls[c].base
      BY <3>2, <3>3 DEF Holds
    <3> QED BY <1>3, <1>5, <1>7, <2>1, <3>1, <3>2, <3>4, <3>5 DEF ReplyProves
  <2> QED BY <2>2, <2>3
<1> QED BY <1>6, <1>8, <1>10, <1>11
        DEF Rounded, OnceInv, Kept, Watching, Replied, Reported

\* A call that is not blind carries on what it replaces.
LEMMA Carried ==
    ASSUME Inv, NEW r \in wire, Process(r)
    PROVE  store[r.key].carries \subseteq Written(r).carries \cup released'
<1> USE DEF Inv
<1>1. /\ RequestInv(r) /\ r.by \in Clients /\ r.round \in 1 .. Rounds
      /\ r.op \in Ops /\ r.condition.intent \in Intents
  BY RequestFields DEF Requested
<1>2. CASE r.blind
  BY <1>2 DEF Process
<1>3. CASE ~r.blind
  <2>1. Plan(r.by, r.round).op = "put" /\ r.condition.intent # "none"
    BY <1>1, <1>3, PlanTyped DEF RequestInv
  <2>2. r.op = "put" /\ Written(r).carries = r.object.carries
    BY <1>1, <2>1, CompleteIsSound DEF RequestInv, Relayed, Written, Process
  <2>3. CASE r.condition.intent = "must_not_exist"
    BY <2>3, SoundObjects DEF Process, Holds
  <2>4. CASE r.condition.intent = "match"
    <3>1. store[r.key] = r.condition.token
      BY <2>4 DEF Process, Holds
    <3>2. r.condition.token.carries \subseteq r.object.carries
      BY <1>1, <2>4 DEF RequestInv
    <3> QED BY <2>2, <3>1, <3>2
  <2> QED BY <1>1, <2>1, <2>3, <2>4 DEF Intents
<1> QED BY <1>2, <1>3

\* What the server stored for a call that waits is what the call asked for.
LEMMA WrittenIsAsked ==
    ASSUME Inv, NEW r \in wire, Complete(r), Delivered(r)
    PROVE  LET call == calls[r.by]
           IN  /\ call.plan.op = "delete" => r.key = call.plan.key /\ Written(r) = Absent
               /\ call.plan.op = "copy" => FromSource(r.by, Written(r))
<1> USE DEF Inv
<1>1. /\ RequestInv(r) /\ r.by \in Clients /\ r.round \in 1 .. Rounds /\ Watches(r.by)
      /\ calls[r.by].phase = "sent" /\ calls[r.by].round = r.round
      /\ Plan(r.by, r.round) = calls[r.by].plan
  BY RequestFields DEF Requested, Watching, Delivered, Plan
<1>2. CASE calls[r.by].plan.op = "delete"
  BY <1>1, <1>2 DEF RequestInv, Relayed, Written
<1>3. CASE Relayed(calls[r.by].plan)
  <2>1. /\ r.op = "put" /\ r.object = calls[r.by].base /\ r.length = calls[r.by].length
        /\ <<calls[r.by].plan.from, r.object>> \in seen[r.by] /\ Framed(r)
    BY <1>1, <1>3 DEF RequestInv, Watches
  <2>2. r.object \in Objects
    BY RequestFields, SoundObjects
  <2>3. FromSource(r.by, Arrived(r))
    BY <2>1, <2>2, CompleteIsSound DEF FromSource
  <2> QED BY <1>3, <2>1, <2>3 DEF Written, Relayed
<1>4. CASE calls[r.by].plan.op = "copy" /\ ~Relayed(calls[r.by].plan)
  BY <1>1, <1>4 DEF RequestInv, Written, Watches, FromSource
<1> QED BY <1>2, <1>3, <1>4

LEMMA ProcessShape ==
    ASSUME TypeOK, Requested, NEW r \in wire, Process(r)
    PROVE  /\ Written(r) \in Sound
           /\ store' \in [Keys -> Sound] /\ store'[r.key] = Written(r)
           /\ \A k \in Keys \ {r.key} : store'[k] = store[k]
           /\ effects' \in [Calls -> [objects : SUBSET Sound, count : Nat]]
           /\ effects'[<<r.by, r.round>>].count = effects[<<r.by, r.round>>].count + 1
           /\ effects'[<<r.by, r.round>>].objects
                 = effects[<<r.by, r.round>>].objects \cup {Written(r)}
           /\ \A c \in Clients, n \in 1 .. Rounds :
                 (c # r.by \/ n # r.round) => effects'[<<c, n>>] = effects[<<c, n>>]
           /\ seen' \in [Clients -> SUBSET (Keys \X Sound)]
           /\ \A c \in Clients :
                 seen'[c] = IF calls[c].phase \in {"ready", "sent"}
                            THEN seen[c] \cup {<<r.key, Written(r)>>} ELSE seen[c]
           /\ released \subseteq released' /\ released' \in SUBSET Clients
<1> DEFINE call == <<r.by, r.round>>
           w    == Written(r)
           old  == effects[call]
           new  == [objects |-> old.objects \cup {w}, count |-> old.count + 1]
<1>1. w \in Sound /\ r.key \in Keys /\ call \in Calls
  BY WrittenTyped, RequestFields DEF Requested, RequestInv, Process
<1>2. /\ store' = [store EXCEPT ![r.key] = w]
      /\ effects' = [effects EXCEPT ![call] = new]
      /\ seen' = [c \in Clients |-> IF calls[c].phase \in {"ready", "sent"}
                                    THEN seen[c] \cup {<<r.key, w>>} ELSE seen[c]]
      /\ released' = IF r.blind THEN released \cup store[r.key].carries ELSE released
  BY DEF Process
<1>3. old \in [objects : SUBSET Sound, count : Nat]
  BY <1>1 DEF TypeOK
<1>4. new \in [objects : SUBSET Sound, count : Nat]
  BY <1>1, <1>3
<1>5. new.count = old.count + 1 /\ new.objects = old.objects \cup {w}
  OBVIOUS
<1>6. \A c \in Clients, n \in 1 .. Rounds :
         /\ <<c, n>> \in Calls
         /\ (c # r.by \/ n # r.round) => <<c, n>> # call
  BY DEF Calls
<1>7. released \subseteq released' /\ released' \in SUBSET Clients
  <2>1. store[r.key].carries \in SUBSET Clients
    BY <1>1 DEF TypeOK, Sound
  <2> QED BY <1>2, <2>1 DEF TypeOK
<1>8. seen' \in [Clients -> SUBSET (Keys \X Sound)]
  <2>1. \A c \in Clients : seen[c] \in SUBSET (Keys \X Sound)
    BY DEF TypeOK
  <2>2. <<r.key, w>> \in Keys \X Sound
    BY <1>1
  <2> HIDE DEF w
  <2> QED BY <1>2, <2>1, <2>2
<1> HIDE DEF new, call, w
<1>9. /\ effects' \in [Calls -> [objects : SUBSET Sound, count : Nat]]
      /\ effects'[call] = new
      /\ \A x \in Calls : x # call => effects'[x] = effects[x]
  BY <1>1, <1>2, <1>4 DEF TypeOK
<1>10. /\ store' \in [Keys -> Sound] /\ store'[r.key] = w
       /\ \A k \in Keys \ {r.key} : store'[k] = store[k]
  BY <1>1, <1>2 DEF TypeOK
<1>11. \A c \in Clients :
          seen'[c] = IF calls[c].phase \in {"ready", "sent"}
                     THEN seen[c] \cup {<<r.key, w>>} ELSE seen[c]
  BY <1>2
<1> QED BY <1>1, <1>5, <1>6, <1>7, <1>8, <1>9, <1>10, <1>11 DEF call, w

LEMMA ProcessInv ==
    ASSUME Inv, NEW r \in wire, Process(r)
    PROVE  Inv'
<1> USE DEF Inv
<1>1. PICK code \in {"ok", "500", "none"} :
         Reply(r, [code |-> code, object |-> IF code = "ok" THEN Written(r) ELSE Absent])
  BY DEF Process
<1>2. PICK reply : reply = [code |-> code, object |-> IF code = "ok" THEN Written(r) ELSE Absent]
  OBVIOUS
<1>3. /\ Reply(r, reply) /\ reply.code = code /\ reply \in ReplyType
      /\ reply.code = "none" => reply = NoReply
      /\ reply.code = "ok" => reply.object = Written(r)
  <2>1. Written(r) \in Sound
    BY ProcessShape
  <2> QED BY <1>1, <1>2, <2>1, SoundObjects DEF NoReply, ReplyType, Codes
<1>4. wire' = wire \ {r} /\ answers' = answers
  BY DEF Process
<1>5. /\ Written(r) \in Sound
      /\ store' \in [Keys -> Sound] /\ store'[r.key] = Written(r)
      /\ \A k \in Keys \ {r.key} : store'[k] = store[k]
      /\ effects' \in [Calls -> [objects : SUBSET Sound, count : Nat]]
      /\ effects'[<<r.by, r.round>>].count = effects[<<r.by, r.round>>].count + 1
      /\ effects'[<<r.by, r.round>>].objects
            = effects[<<r.by, r.round>>].objects \cup {Written(r)}
      /\ \A c \in Clients, n \in 1 .. Rounds :
            (c # r.by \/ n # r.round) => effects'[<<c, n>>] = effects[<<c, n>>]
      /\ seen' \in [Clients -> SUBSET (Keys \X Sound)]
      /\ \A c \in Clients :
            seen'[c] = IF calls[c].phase \in {"ready", "sent"}
                       THEN seen[c] \cup {<<r.key, Written(r)>>} ELSE seen[c]
      /\ released \subseteq released' /\ released' \in SUBSET Clients
  BY ProcessShape
<1>6. /\ Rounded' /\ Requested'
      /\ \A c \in Clients, n \in 1 .. Rounds :
            /\ Plan(c, n)' = Plan(c, n)
            /\ Sent(c, n)' = IF c = r.by /\ n = r.round THEN Sent(c, n) \ {r} ELSE Sent(c, n)
  BY <1>3, <1>4, <1>5, ServerShape
<1>7. /\ calls' \in [Clients -> CallType]
      /\ \A c \in Clients :
            /\ calls'[c].round = calls[c].round /\ calls'[c].phase = calls[c].phase
            /\ calls'[c].plan = calls[c].plan /\ calls'[c].base = calls[c].base
            /\ calls'[c].try = calls[c].try /\ calls'[c].length = calls[c].length
            /\ calls'[c].reply = IF c = r.by /\ Delivered(r) THEN reply ELSE calls[c].reply
  BY <1>3, ReplyShape
<1>8. TypeOK'
  BY <1>4, <1>5, <1>7 DEF TypeOK
<1>9. /\ RequestInv(r) /\ r.by \in Clients /\ r.round \in 1 .. Rounds /\ r.key \in Keys
      /\ r \in Sent(r.by, r.round)
  BY RequestFields DEF Requested, Sent
<1>10. ASSUME NEW c \in Clients, NEW n \in 1 .. Rounds PROVE OnceAt(c, n)'
  <2>0. OnceAt(c, n) /\ Plan(c, n)' = Plan(c, n)
    BY <1>6 DEF OnceInv
  <2>1. CASE c # r.by \/ n # r.round
    <3>1. Sent(c, n)' = Sent(c, n) /\ effects'[<<c, n>>] = effects[<<c, n>>]
      BY <1>5, <1>6, <2>1
    <3>2. n = calls[c].round => calls'[c].reply = calls[c].reply
      BY <1>7, <2>1 DEF Delivered
    <3> QED BY <1>4, <1>7, <2>0, <3>1, <3>2 DEF OnceAt, SentOnce
  <2>2. CASE c = r.by /\ n = r.round
    <3>1. Sent(c, n)' = Sent(c, n) \ {r} /\ Sent(c, n) # {} /\ n <= calls[c].round
      BY <1>6, <1>9, <2>2 DEF RequestInv
    <3>2. n = calls[c].round => calls[c].phase # "ready"
      BY <2>0, <3>1 DEF OnceAt
    <3>3. ASSUME Once(Plan(c, n)') PROVE SentOnce(c, n)'
      <4>1. Once(Plan(c, n)) /\ SentOnce(c, n)
        BY <2>0, <3>1, <3>3 DEF OnceAt
      <4>2. effects'[<<c, n>>].count = 1 /\ Sent(c, n)' = {}
        BY <1>5, <1>9, <2>2, <3>1, <4>1 DEF SentOnce
      <4>3. (n = calls[c].round /\ calls[c].phase = "sent") => calls'[c].reply = reply
        BY <1>7, <2>2, <4>1, PutDelivered
      <4>4. code \notin Denied
        BY DEF Denied
      <4>5. answers'[<<c, n>>].returned.kind \notin Refusals \cup {"ok"}
        BY <1>4, <3>1, <4>1 DEF SentOnce
      <4> QED BY <1>3, <1>7, <4>1, <4>2, <4>3, <4>4, <4>5 DEF SentOnce
    <3> QED BY <1>7, <3>2, <3>3 DEF OnceAt
  <2> QED BY <2>1, <2>2
<1>11. ASSUME NEW c \in Clients, NEW n \in 1 .. Rounds PROVE KeptAt(c, n)'
  <2> SUFFICES ASSUME n <= calls[c].round, Plan(c, n).op = "put",
                      effects'[<<c, n>>].count > 0
               PROVE  c \in store'[Plan(c, n).key].carries \cup released'
    BY <1>6, <1>7 DEF KeptAt
  <2>1. KeptAt(c, n) /\ Plan(c, n).key \in Keys
    BY PlanTyped DEF Kept, PlanType
  <2>2. CASE c = r.by /\ n = r.round
    <3>1. r.key = Plan(c, n).key /\ r.op = "put" /\ c \in r.object.carries
          /\ Arrived(r).carries = r.object.carries
      BY <1>9, <2>2, CompleteIsSound DEF RequestInv, Relayed, Process
    <3> QED BY <1>5, <3>1 DEF Written
  <2>3. CASE c # r.by \/ n # r.round
    <3>1. c \in store[Plan(c, n).key].carries \cup released
      BY <1>5, <2>1, <2>3 DEF KeptAt
    <3>2. CASE Plan(c, n).key = r.key
      BY <1>5, <3>1, <3>2, Carried
    <3>3. CASE Plan(c, n).key # r.key
      BY <1>5, <2>1, <3>1, <3>3
    <3> QED BY <3>2, <3>3
  <2> QED BY <2>2, <2>3
<1>12. ASSUME NEW c \in Clients PROVE Watches(c)'
  <2> SUFFICES ASSUME calls[c].phase \in {"ready", "sent"}
               PROVE  /\ \A k \in {calls[c].plan.key, calls[c].plan.from} :
                            <<k, store'[k]>> \in seen'[c]
                      /\ Relayed(calls[c].plan) =>
                            <<calls[c].plan.from, calls[c].base>> \in seen'[c]
    BY <1>7 DEF Watches
  <2>1. Watches(c) /\ calls[c].plan.key \in Keys /\ calls[c].plan.from \in Keys
    BY Running DEF Watching
  <2>2. seen'[c] = seen[c] \cup {<<r.key, Written(r)>>}
    BY <1>5
  <2>3. ASSUME NEW k \in Keys, <<k, store[k]>> \in seen[c]
        PROVE  <<k, store'[k]>> \in seen'[c]
    <3>1. k = r.key => store'[k] = Written(r)
      BY <1>5
    <3>2. k # r.key => store'[k] = store[k]
      BY <1>5
    <3> QED BY <2>2, <2>3, <3>1, <3>2
  <2>4. \A k \in {calls[c].plan.key, calls[c].plan.from} : <<k, store[k]>> \in seen[c]
    BY <2>1 DEF Watches
  <2>5. Relayed(calls[c].plan) => <<calls[c].plan.from, calls[c].base>> \in seen[c]
    BY <2>1 DEF Watches
  <2> QED BY <2>1, <2>2, <2>3, <2>4, <2>5
<1>13. ASSUME NEW c \in Clients, calls[c].phase = "sent" PROVE ReplyProves(c)'
  <2>1. Current(c)' = Current(c) /\ seen[c] \subseteq seen'[c]
        /\ effects[Current(c)].objects \subseteq effects'[Current(c)].objects
    <3>1. calls[c].round \in 1 .. Rounds
      BY <1>13, Running
    <3> QED BY <1>5, <1>7, <3>1 DEF Current
  <2>0. ASSUME NEW object, FromSource(c, object) PROVE FromSource(c, object)'
    <3>1. /\ calls'[c].plan = calls[c].plan /\ calls'[c].length = calls[c].length
          /\ seen[c] \subseteq seen'[c]
      BY <1>7, <2>1
    <3> QED BY <2>0, <3>1 DEF FromSource
  <2>2. CASE ~(c = r.by /\ Delivered(r))
    <3>1. SameReply(c)
      BY <1>7, <2>1, <2>2 DEF SameReply
    <3>2. ReplyProves(c)
      BY <1>13 DEF Replied
    <3> QED BY <3>1, <3>2, ReplyStillProves
  <2>3. CASE c = r.by /\ Delivered(r)
    <3>1. /\ calls'[c].reply = reply /\ reply.code # "412" /\ calls'[c].plan = calls[c].plan
          /\ Current(c)' = <<r.by, r.round>>
      BY <1>3, <1>7, <2>1, <2>3 DEF Delivered, Current
    <3>2. /\ calls[c].plan.op = "delete" => r.key = calls[c].plan.key /\ Written(r) = Absent
          /\ calls[c].plan.op = "copy" => FromSource(c, Written(r))
      BY <2>3, WrittenIsAsked DEF Process
    <3>3. <<r.key, Written(r)>> \in seen'[c] /\ Written(r) \in effects'[<<r.by, r.round>>].objects
      BY <1>5, <1>13
    <3> QED BY <1>3, <2>0, <2>1, <3>1, <3>2, <3>3 DEF ReplyProves
  <2> QED BY <2>2, <2>3
<1>14. ASSUME NEW c \in Clients, calls[c].phase = "done" PROVE Returned(c)'
  <2>1. Returned(c)
    BY <1>14 DEF Reported
  <2>2. CASE calls[c].round = 0
    BY <1>7, <2>2 DEF Rounded, RoundedAt, Returned, NoPlan
  <2>3. CASE calls[c].round # 0
    <3>1. calls[c].round \in 1 .. Rounds
      BY <2>3, CallFields, WritesAssumption
    <3>2. /\ Current(c)' = Current(c) /\ seen'[c] = seen[c]
          /\ effects[Current(c)].objects \subseteq effects'[Current(c)].objects
      BY <1>5, <1>7, <1>14, <3>1 DEF Current
    <3> QED BY <1>4, <1>7, <2>1, <3>2 DEF Returned, FromSource
  <2> QED BY <2>2, <2>3
<1> QED BY <1>6, <1>7, <1>8, <1>10, <1>11, <1>12, <1>13, <1>14
        DEF OnceInv, Kept, Watching, Replied, Reported

-----------------------------------------------------------------------------
(* Every step, every behaviour. *)

LEMMA FailedTyped ==
    ASSUME NEW kind \in Kinds
    PROVE  Failed(kind) \in [kind : Kinds, object : Sound] /\ Failed(kind).kind = kind
BY SoundObjects DEF Failed, Answer

LEMMA ClientInv ==
    ASSUME Inv, NEW c \in Clients, Client(c)
    PROVE  Inv'
<1>0. {"refused", "not_found", "unavailable"} \subseteq Kinds
  BY DEF Kinds, Refusals
<1>1. CASE Begin(c)
  BY <1>1, BeginInv
<1>2. ASSUME NEW kind \in {"refused", "not_found", "unavailable"}, Return(c, Failed(kind)),
             calls[c].phase = "ready" \/ (calls[c].phase = "sent" /\ kind = "unavailable"),
             UNCHANGED <<store, wire, effects, seen, released>>
      PROVE  Inv'
  <2>1. Failed(kind) \in [kind : Kinds, object : Sound] /\ Failed(kind).kind = kind
    BY <1>0, FailedTyped
  <2>2. MayReturn(c, Failed(kind))
    BY <1>2, <2>1 DEF MayReturn
  <2> QED BY <1>2, <2>2, ReturnInv
<1>3. CASE Refuse(c)
  BY <1>2, <1>3 DEF Refuse
<1>4. CASE Send(c)
  BY <1>4, TransmitInv DEF Send, MaySend
<1>6. CASE Receive(c)
  <2>1. CASE Again(c) /\ Transmit(c)
    BY <1>6, <2>1, TransmitInv DEF Receive, MaySend
  <2>2. CASE Return(c, Outcome(calls[c].plan, calls[c].reply)) /\ UNCHANGED wire
    <3> DEFINE answer == Outcome(calls[c].plan, calls[c].reply)
    <3>1. /\ calls[c].reply \in ReplyType /\ calls[c].reply.code # "none"
          /\ calls[c].plan \in PlanType
      BY <1>6, CallFields, Running DEF Receive, Inv, Rounded, RoundedAt
    <3>2. answer \in [kind : Kinds, object : Sound]
      BY <3>1, OutcomeFacts
    <3>3. MayReturn(c, answer)
      BY <1>6, <3>2 DEF Receive, MayReturn
    <3> HIDE DEF answer
    <3>4. Return(c, answer) /\ UNCHANGED <<store, wire, effects, seen, released>>
      BY <1>6, <2>2 DEF Receive, answer
    <3> QED BY <3>3, <3>4, ReturnInv
  <2> QED BY <1>6, <2>1, <2>2 DEF Receive
<1>7. CASE GiveUp(c)
  <2>1. CASE Again(c) /\ Transmit(c)
    BY <1>7, <2>1, TransmitInv DEF GiveUp, MaySend
  <2>2. CASE Return(c, LostAnswer(c)) /\ UNCHANGED wire
    BY <1>2, <1>7, <2>2 DEF GiveUp, LostAnswer
  <2> QED BY <1>7, <2>1, <2>2 DEF GiveUp
<1> QED BY <1>1, <1>3, <1>4, <1>6, <1>7 DEF Client

LEMMA InitInv ==
    ASSUME Init
    PROVE  Inv
<1>1. \A k \in Keys : store[k] \in Sound
  BY SoundObjects DEF Init
<1>2. NoReply \in ReplyType /\ Absent \in Sound /\ NoAnswer \in [kind : Kinds, object : Sound]
  BY SoundObjects
<1>3. TypeOK
  <2>1. calls \in [Clients -> CallType]
    <3>1. [round |-> 0, phase |-> "done", plan |-> NoPlan,
           base |-> Absent, length |-> "told", try |-> 0, reply |-> NoReply] \in CallType
      BY <1>2, WritesAssumption DEF CallType, Lengths
    <3> QED BY <3>1 DEF Init
  <2>2. answers \in [Calls -> AnswerType]
    BY <1>2 DEF Init, Calls, AnswerType
  <2>3. effects \in [Calls -> [objects : SUBSET Sound, count : Nat]]
    BY DEF Init, Calls
  <2> QED BY <1>1, <2>1, <2>2, <2>3 DEF Init, TypeOK
<1>4. ASSUME NEW c \in Clients
      PROVE  /\ calls[c].round = 0 /\ calls[c].phase = "done" /\ calls[c].plan = NoPlan
             /\ calls[c].reply = NoReply /\ \A n \in 1 .. Rounds : Sent(c, n) = {}
             /\ \A n \in 1 .. Rounds : /\ answers[<<c, n>>] = Unanswered
                                       /\ effects[<<c, n>>].count = 0
                                       /\ n # 0 /\ ~(n <= 0)
  BY DEF Init, Sent, Unanswered, Calls
<1>5. Rounded
  BY <1>4 DEF Rounded, RoundedAt
<1>6. OnceInv /\ Kept
  BY <1>4 DEF OnceInv, OnceAt, Kept, KeptAt
<1>7. Requested /\ Watching /\ Replied
  BY <1>4 DEF Init, Requested, Watching, Watches, Replied
<1>8. Reported
  BY <1>4 DEF Reported, Returned, NoPlan
<1> QED BY <1>3, <1>5, <1>6, <1>7, <1>8 DEF Inv

\* The invariant holds in every behaviour.
THEOREM Invariance == Spec => []Inv
<1>1. Init => Inv
  BY InitInv
<1>2. Inv /\ [Next]_vars => Inv'
  <2> SUFFICES ASSUME Inv, [Next]_vars PROVE Inv'
    OBVIOUS
  <2>1. CASE \E c \in Clients : Client(c)
    BY <2>1, ClientInv
  <2>2. CASE \E r \in wire : Process(r) \/ Deny(r)
    BY <2>2, ProcessInv, DenyInv
  <2>3. CASE UNCHANGED vars
    <3>1. TypeOK'
      BY <2>3 DEF vars, Inv, TypeOK
    <3>2. \A c, n : Plan(c, n)' = Plan(c, n) /\ Sent(c, n)' = Sent(c, n)
      BY <2>3 DEF vars, Plan, Sent
    <3>3. Rounded' /\ Requested'
      BY <2>3, <3>2 DEF vars, Inv, Rounded, RoundedAt, Requested, RequestInv
    <3>4. OnceInv' /\ Kept'
      BY <2>3, <3>2 DEF vars, Inv, OnceInv, OnceAt, SentOnce, Kept, KeptAt
    <3>5. Watching' /\ Replied' /\ Reported'
      BY <2>3 DEF vars, Inv, Watching, Watches, Replied, ReplyProves, Reported, Returned,
         Current, FromSource
    <3> QED BY <3>1, <3>3, <3>4, <3>5 DEF Inv
  <2> QED BY <2>1, <2>2, <2>3 DEF Next
<1> QED BY <1>1, <1>2, PTL DEF Spec

\* A call that has been answered, and the plan it was answered for.
LEMMA Answered ==
    ASSUME Inv, NEW c \in Clients, NEW n \in 1 .. Rounds, answers[<<c, n>>].plan # NoPlan
    PROVE  n <= calls[c].round /\ Plan(c, n) = answers[<<c, n>>].plan
<1>1. RoundedAt(c) /\ calls[c].round \in 0 .. Rounds
  BY CallFields DEF Inv, Rounded
<1>2. Unanswered.plan = NoPlan
  BY DEF Unanswered
<1>3. ~(n > calls[c].round)
  BY <1>1, <1>2 DEF RoundedAt
<1>4. n = calls[c].round => answers[<<c, n>>].plan = calls[c].plan
  BY <1>1, <1>2 DEF RoundedAt
<1> QED BY <1>1, <1>3, <1>4 DEF Plan

LEMMA AnswersTrue ==
    ASSUME Inv
    PROVE  PutAnswerIsTrue
<1>1. TakesEffectAsAnswered
  <2> SUFFICES ASSUME NEW c \in Clients, NEW n \in 1 .. Rounds,
                      answers[<<c, n>>].plan # NoPlan, Once(answers[<<c, n>>].plan)
               PROVE  /\ effects[<<c, n>>].count <= 1
                      /\ answers[<<c, n>>].returned.kind = "ok"
                            => effects[<<c, n>>].count = 1
                      /\ answers[<<c, n>>].returned.kind \in Refusals
                            => effects[<<c, n>>].count = 0
    BY DEF TakesEffectAsAnswered, Inv, TypeOK, Calls
  <2>1. OnceAt(c, n) /\ n <= calls[c].round /\ Plan(c, n) = answers[<<c, n>>].plan
    BY Answered DEF Inv, OnceInv
  <2>2. SentOnce(c, n)
    BY <2>1 DEF OnceAt
  <2>3. "ok" \notin Refusals
    BY DEF Refusals
  <2> QED BY <2>2, <2>3 DEF SentOnce
<1>2. ConflictIsReal
  BY DEF ConflictIsReal, Ended, Inv, Reported, Returned
<1> QED BY <1>1, <1>2 DEF PutAnswerIsTrue

\* A put takes effect as its caller is told, at most once, however late its
\* request is processed (map_put_error).
THEOREM PutAnswersTrue == Spec => []PutAnswerIsTrue
BY Invariance, AnswersTrue, PTL

LEMMA UpdatesKept ==
    ASSUME Inv
    PROVE  NoLostUpdate
<1> SUFFICES ASSUME NEW c \in Clients, NEW n \in 1 .. Rounds,
                    answers[<<c, n>>].plan.op = "put", answers[<<c, n>>].returned.kind = "ok"
             PROVE  c \in store[answers[<<c, n>>].plan.key].carries \cup released
  BY DEF NoLostUpdate, Inv, TypeOK, Calls
<1>1. answers[<<c, n>>].plan # NoPlan
  BY DEF NoPlan
<1>2. /\ n <= calls[c].round /\ Plan(c, n) = answers[<<c, n>>].plan
      /\ OnceAt(c, n) /\ KeptAt(c, n)
  BY <1>1, Answered DEF Inv, OnceInv, Kept
<1>3. SentOnce(c, n)
  BY <1>2 DEF OnceAt, Once
<1>4. effects[<<c, n>>].count = 1
  BY <1>3 DEF SentOnce
<1> QED BY <1>2, <1>4 DEF KeptAt

\* An acknowledged conditional update is never undone by another conditional
\* writer (set_if_match, set_if_none_match).
THEOREM NoUpdateLost == Spec => []NoLostUpdate
BY Invariance, UpdatesKept, PTL

LEMMA CopiesWhole ==
    ASSUME Inv
    PROVE  CopyIsOneVersion /\ DeleteIsSeen /\ NoTornObject
<1>1. CopyIsOneVersion
  BY DEF CopyIsOneVersion, Ended, Inv, Reported, Returned
<1>2. DeleteIsSeen
  BY DEF DeleteIsSeen, Ended, Inv, Reported, Returned
<1>3. NoTornObject
  BY DEF NoTornObject, Inv, TypeOK, Sound
<1> QED BY <1>1, <1>2, <1>3

\* A copy that succeeded stored and reports one version of its source.
THEOREM CopiesOneVersion == Spec => []CopyIsOneVersion
BY Invariance, CopiesWhole, PTL

\* A delete that succeeded left the key without an object at some moment.
THEOREM DeletesSeen == Spec => []DeleteIsSeen
BY Invariance, CopiesWhole, PTL

\* No put and no copy leaves a part of an object of known length, whenever its
\* body breaks off (AsyncReadBody, S3Provider::relay_copy).
THEOREM NothingTorn == Spec => []NoTornObject
BY Invariance, CopiesWhole, PTL
=============================================================================
