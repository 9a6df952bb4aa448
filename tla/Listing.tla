------------------------------- MODULE Listing -------------------------------
(***************************************************************************)
(* Listing of the S3 provider (crates/storageprims-s3): `list', and        *)
(* `list_delimited', which groups keys by a delimiter.  A consumer reads a *)
(* listing page by page, replaying its request with the token of the last  *)
(* page, while objects come and go.  The server is honest, or once returns *)
(* any page of Faults; what such a page says of the bucket means nothing,  *)
(* and its bucket stays empty.                                             *)
(***************************************************************************)
EXTENDS RootedKeys

CONSTANTS
    Characters,     \* what texts consist of
    Root,           \* the provider's root
    Keys,           \* the keys objects may have
    Rank,           \* the order of characters
    Requests,       \* what the consumer may ask for first
    DefaultMax,     \* the server's default page size (S3_DEFAULT_MAX_KEYS)
    Representable,  \* the largest page size a request can carry (i32::MAX)
    Faults,         \* pages of a server that does not keep the protocol
    Disturbances    \* bound: objects that come or go during a listing

Missing == <<"missing">>   \* a row without a key

\* A token is opaque; the server's names the last row it returned.
Token(kind, at) == [kind |-> kind, at |-> at]
NoToken == Token("none", <<>>)

Texts  == Seq(Characters)
Tokens == [kind : {"none", "malformed", "forged", "issued"}, at : Texts]

ASSUME BucketAssumption ==
    /\ Slash \in Characters /\ Root \in Texts
    /\ Keys \subseteq Texts /\ IsFiniteSet(Keys)
    /\ Missing \notin Texts
    /\ Rank \in [Characters -> Nat]
    /\ \A c, d \in Characters : Rank[c] = Rank[d] => c = d

ASSUME ListingAssumption ==
    /\ DefaultMax \in Nat \ {0} /\ Representable \in Nat /\ Disturbances \in Nat
    /\ Requests \subseteq [grouped : BOOLEAN, delimiter : Texts, prefix : Texts, max : Nat,
                           token : {NoToken, Token("malformed", <<>>), Token("forged", <<>>)}]
    /\ Faults \subseteq [code : {"ok"}, objects : Seq(Texts \cup {Missing}),
                         prefixes : Seq(Texts \cup {Missing}),
                         flag : {"missing", "yes", "no"}, token : Tokens]

VARIABLES
    faulty,       \* the server does not keep the protocol
    bucket,       \* the keys of the objects there are
    phase,        \* of the consumer: idle, waiting, answered, reading, done
    request,      \* its current request: [grouped, delimiter, prefix, max, token]
    reply,        \* the server's answer to it
    result,       \* what the provider makes of that answer
    listed,       \* the rows returned by all pages (history)
    stable,       \* the keys that were there during the whole listing (history)
    disturbances  \* changes to the bucket, or faulty pages, so far

vars == <<faulty, bucket, phase, request, reply, result, listed, stable, disturbances>>

NoRequest == [grouped |-> FALSE, delimiter |-> <<>>, prefix |-> <<>>, max |-> 0,
              token |-> NoToken]

\* An answer of the server; a code other than "ok" has no rows.
Page(objects, prefixes, flag, token) ==
    [code |-> "ok", objects |-> objects, prefixes |-> prefixes, flag |-> flag,
     token |-> token]
Error(code) == [Page(<<>>, <<>>, "missing", NoToken) EXCEPT !.code = code]

\* An answer of the provider.
Listed(objects, prefixes, truncated, token) ==
    [kind |-> "ok", objects |-> objects, prefixes |-> prefixes,
     truncated |-> truncated, token |-> token]
Failed(kind) == [Listed(<<>>, <<>>, FALSE, NoToken) EXCEPT !.kind = kind]

-----------------------------------------------------------------------------
(* The request. *)

\* validate_delimiter() and validate_continuation_token() for list_delimited,
\* then the prefix and the page size for both.
Admissible(r) ==
    /\ r.grouped => r.delimiter # <<>> /\ r.token.kind # "malformed"
    /\ ResolveListPrefix(Root, r.prefix).ok
    /\ r.max <= Representable

\* Mutant: the token is left out of the request.
SentFromStart(r) ==
    [prefix |-> ResolveListPrefix(Root, r.prefix).key, grouped |-> r.grouped,
     delimiter |-> r.delimiter, max |-> r.max, token |-> NoToken]

\* A page size of zero is not sent; the server's default then bounds the page.
Sent(r) ==
    [prefix |-> ResolveListPrefix(Root, r.prefix).key, grouped |-> r.grouped,
     delimiter |-> r.delimiter, max |-> IF r.max = 0 THEN DefaultMax ELSE r.max,
     token |-> r.token]

Call(r) ==
    IF Admissible(r)
    THEN phase' = "waiting" /\ request' = r /\ result' = Failed("none")
    ELSE phase' = "done" /\ request' = r /\ result' = Failed("invalid")

Start(r) ==
    /\ phase = "idle"
    /\ Call(r)
    /\ stable' = bucket
    /\ UNCHANGED <<faulty, bucket, reply, listed, disturbances>>

-----------------------------------------------------------------------------
(* The server. *)

\* Lexicographic order, of keys and of what they begin with.
Less(a, b) ==
    \/ IsStrictPrefix(a, b)
    \/ \E i \in DOMAIN a \cap DOMAIN b :
          /\ Rank[a[i]] < Rank[b[i]]
          /\ \A j \in 1 .. i - 1 : a[j] = b[j]

Beginnings == UNION {Prefixes(key) : key \in Keys}
Position   == [text \in Beginnings |-> Cardinality({other \in Beginnings : Less(other, text)})]

\* Where the first delimiter after the prefix ends, or 0.
Cut(key, sent) ==
    LET ends == {i \in Len(sent.prefix) + Len(sent.delimiter) .. Len(key) :
                    SubSeq(key, i - Len(sent.delimiter) + 1, i) = sent.delimiter}
    IN  IF ends = {} THEN 0 ELSE Min(ends)

Row(key, sent) ==
    IF sent.grouped /\ Cut(key, sent) # 0
    THEN [kind |-> "prefix", key |-> SubSeq(key, 1, Cut(key, sent))]
    ELSE [kind |-> "object", key |-> key]

\* The members of a finite set, each behind those with a smaller number.
Ordered(S, number) ==
    [i \in 1 .. Cardinality(S) |->
        CHOOSE x \in S : Cardinality({y \in S : number[y] < number[x]}) = i - 1]

\* The rows at some of the places, in the order they have.
Picked(rows, places) ==
    LET order == Ordered(places, [i \in places |-> i])
    IN  [i \in DOMAIN order |-> rows[order[i]]]

InOrder(rows) == Ordered(rows, [row \in rows |-> Position[row.key]])

\* The rows that are left to return.
RowsLeft(sent) ==
    InOrder({row \in {Row(key, sent) : key \in {k \in bucket : IsPrefix(sent.prefix, k)}} :
                sent.token = NoToken \/ Position[row.key] > Position[sent.token.at]})

OfKind(rows, kind) ==
    LET chosen == Picked(rows, {i \in DOMAIN rows : rows[i].kind = kind})
    IN  [i \in DOMAIN chosen |-> chosen[i].key]

\* A page may hold fewer rows than were asked for, but not none of some.
HonestPage(rows, n) ==
    LET page == SubSeq(rows, 1, n)
        more == n < Len(rows)
    IN  Page(OfKind(page, "object"), OfKind(page, "prefix"), IF more THEN "yes" ELSE "no",
             IF more THEN Token("issued", rows[n].key) ELSE NoToken)

Answered(answer) ==
    /\ phase = "waiting"
    /\ reply' = answer
    /\ phase' = "answered"
    /\ UNCHANGED <<faulty, bucket, request, result, listed, stable>>

Serve ==
    LET rows == RowsLeft(Sent(request))
        most == IF Len(rows) < Sent(request).max THEN Len(rows) ELSE Sent(request).max
    IN  /\ phase = "waiting" /\ Sent(request).token.kind \in {"none", "issued"}
        /\ \E n \in 0 .. most : (n = 0 => rows = <<>>) /\ Answered(HonestPage(rows, n))
        /\ UNCHANGED disturbances

Reject ==
    /\ \E code \in {"AccessDenied", "unavailable"} \cup
                   (IF Sent(request).token = NoToken THEN {} ELSE {"InvalidToken"}) :
          Answered(Error(code))
    /\ UNCHANGED disturbances

Misbehave ==
    /\ faulty /\ disturbances = 0 /\ disturbances' = 1
    /\ \E page \in Faults : Answered(page)

-----------------------------------------------------------------------------
(* The provider's projection of the page. *)

Paths(keys) == [i \in DOMAIN keys |-> StripRoot(Root, keys[i])]

\* A row's key lies under the root and the requested prefix.
Inside(key, r) == Under(Root, key) /\ IsPrefix(r.prefix, StripRoot(Root, key))

PageBound(r) == IF r.max = 0 THEN DefaultMax ELSE r.max

\* Mutant: only objects are held against the requested prefix.
ValidGroupedPageLoose(r, page) ==
    /\ page.flag # "missing" /\ (page.flag = "yes") = (page.token.kind # "none")
    /\ Len(page.objects) + Len(page.prefixes) <= PageBound(r)
    /\ \A i \in DOMAIN page.objects : page.objects[i] # Missing /\ Inside(page.objects[i], r)
    /\ \A i \in DOMAIN page.prefixes :
          page.prefixes[i] # Missing /\ Under(Root, page.prefixes[i])

\* Mutant: the bound is exclusive.
ValidGroupedPageTight(r, page) == Len(page.objects) + Len(page.prefixes) < PageBound(r)

\* validate_delimiter_list_page(): the whole page or nothing.
ValidGroupedPage(r, page) ==
    /\ page.flag # "missing" /\ (page.flag = "yes") = (page.token.kind # "none")
    /\ page.token.kind # "malformed"
    /\ Len(page.objects) + Len(page.prefixes) <= PageBound(r)
    /\ \A i \in DOMAIN page.objects : page.objects[i] # Missing /\ Inside(page.objects[i], r)
    /\ \A i \in DOMAIN page.prefixes :
          /\ page.prefixes[i] # Missing /\ Inside(page.prefixes[i], r)
          /\ page.prefixes[i] # Boundary(Root)
          /\ \A j \in DOMAIN page.objects : page.objects[j] # page.prefixes[i]

\* Mutant: a plain page is returned as it came.
ValidPageAny(page) == TRUE

\* validate_list_page(): only a root is held against a plain page.
ValidPage(page) ==
    Root # NoRoot =>
        \A i \in DOMAIN page.objects : page.objects[i] # Missing /\ Under(Root, page.objects[i])

\* map_delimiter_list_error(), and map_sdk_error() for list.
ErrorKind(r, code) ==
    CASE code = "InvalidToken" -> IF r.grouped THEN "invalid" ELSE "other"
      [] code # "InvalidToken" -> code

GroupedResult(r, page) ==
    IF ValidGroupedPage(r, page)
    THEN Listed(Paths(page.objects), Paths(page.prefixes), page.flag = "yes", page.token)
    ELSE Failed("malformed")

\* Rows without a key are skipped when there is no root; the token and the
\* flag are handed on as they are.
PlainResult(page) ==
    IF ValidPage(page)
    THEN LET named == {i \in DOMAIN page.objects : page.objects[i] # Missing}
         IN  Listed(Paths(Picked(page.objects, named)), <<>>, page.flag = "yes", page.token)
    ELSE Failed("malformed")

Result(r, answer) ==
    CASE answer.code # "ok" -> Failed(ErrorKind(r, answer.code))
      [] answer.code = "ok" /\ r.grouped -> GroupedResult(r, answer)
      [] answer.code = "ok" /\ ~r.grouped -> PlainResult(answer)

Tagged(kind, paths) == [i \in DOMAIN paths |-> [kind |-> kind, path |-> paths[i]]]

Receive ==
    LET answer == Result(request, reply)
    IN  /\ phase = "answered"
        /\ result' = answer
        /\ listed' = listed \o Tagged("object", answer.objects)
                            \o Tagged("prefix", answer.prefixes)
        /\ phase' = IF answer.kind = "ok" /\ answer.truncated THEN "reading" ELSE "done"
        /\ UNCHANGED <<faulty, bucket, request, reply, stable, disturbances>>

\* The consumer replays its request with the page's token.
Continue ==
    /\ phase = "reading"
    /\ Call([request EXCEPT !.token = result.token])
    /\ UNCHANGED <<faulty, bucket, reply, listed, stable, disturbances>>

-----------------------------------------------------------------------------
(* Objects come and go. *)

Change(key) ==
    /\ phase # "idle" /\ phase # "done" /\ ~faulty /\ disturbances < Disturbances
    /\ disturbances' = disturbances + 1
    /\ bucket' = IF key \in bucket THEN bucket \ {key} ELSE bucket \cup {key}
    /\ stable' = stable \ {key}
    /\ UNCHANGED <<faulty, phase, request, reply, result, listed>>

Init ==
    /\ faulty \in BOOLEAN
    /\ bucket \in IF faulty THEN {{}} ELSE SUBSET Keys
    /\ phase = "idle"
    /\ request = NoRequest
    /\ reply = Error("none")
    /\ result = Failed("none")
    /\ listed = <<>>
    /\ stable = {}
    /\ disturbances = 0

Next == \/ \E r \in Requests : Start(r)
        \/ Serve \/ Reject \/ Misbehave \/ Receive \/ Continue
        \/ \E key \in Keys : Change(key)

Spec == Init /\ [][Next]_vars
-----------------------------------------------------------------------------
(* Properties. *)

Phases == {"idle", "waiting", "answered", "reading", "done"}

\* The consumer reads on only from a page it has, and the server is only
\* asked what the provider admits.
TypeOK ==
    /\ faulty \in BOOLEAN
    /\ bucket \subseteq Keys /\ stable \subseteq bucket
    /\ phase \in Phases
    /\ phase = "reading" => result.kind = "ok" /\ result.truncated
    /\ phase \in {"waiting", "answered", "reading"} => Admissible(request)
    /\ disturbances \in Nat

\* Whatever the server returns, every path of a grouped page that is accepted
\* names a key inside the configured root and the requested prefix (DDR-0010:
\* "Projection and validation").
PageIsConfined ==
    (phase \in {"reading", "done"} /\ result.kind = "ok" /\ request.grouped) =>
        /\ \A i \in DOMAIN result.objects :
              /\ Inside(reply.objects[i], request)
              /\ result.objects[i] = StripRoot(Root, reply.objects[i])
        /\ \A i \in DOMAIN result.prefixes :
              /\ Inside(reply.prefixes[i], request)
              /\ result.prefixes[i] = StripRoot(Root, reply.prefixes[i])

\* A page loses no row to the projection.  An accepted grouped page holds at
\* most the rows that were asked for and names no path as object and as group
\* at once; a plain page of a rooted provider names every key the server
\* returned, all of them under the root.
PageIsWhole ==
    (phase \in {"reading", "done"} /\ result.kind = "ok") =>
        /\ request.grouped =>
              /\ Len(result.objects) = Len(reply.objects)
              /\ Len(result.prefixes) = Len(reply.prefixes)
              /\ Len(result.objects) + Len(result.prefixes) <= PageBound(request)
              /\ \A i \in DOMAIN result.objects, j \in DOMAIN result.prefixes :
                    result.objects[i] # result.prefixes[j]
        /\ (~request.grouped /\ Root # NoRoot) =>
              [i \in DOMAIN result.objects |-> Rooted(Root, result.objects[i])] = reply.objects

\* A page of an honest server is never taken for a malformed one.
HonestIsAccepted == ~faulty => result.kind # "malformed"

\* No path is listed twice, over all pages of a listing, whatever comes and
\* goes meanwhile; and when a listing has ended, every object that was there
\* all along and begins with the prefix has been listed, by itself or within a
\* group.
ListedOnce ==
    ~faulty =>
        /\ \A i, j \in DOMAIN listed : listed[i].path = listed[j].path => i = j
        /\ (phase = "done" /\ result.kind = "ok") =>
              \A key \in {k \in stable : Inside(k, request)} :
                  \E i \in DOMAIN listed :
                      \/ listed[i] = [kind |-> "object", path |-> StripRoot(Root, key)]
                      \/ /\ listed[i].kind = "prefix"
                         /\ IsPrefix(listed[i].path, StripRoot(Root, key))
=============================================================================
