---------------------------- MODULE ListingProofs ----------------------------
(***************************************************************************)
(* Proofs about Listing, for any keys, root, order of characters, requests *)
(* and page sizes: an accepted page is the whole projection of a valid     *)
(* answer, whatever the server returned; no honest page is refused; and a  *)
(* listing over many pages names each row once and misses no object that   *)
(* stayed.  What prefixes of texts, a finite set put in order, a row and   *)
(* an honest page are comes first, then the invariant of the consumer's    *)
(* loop.                                                                   *)
(***************************************************************************)
EXTENDS Listing, SequenceTheorems, FiniteSetTheorems, WellFoundedInduction, TLAPS

-----------------------------------------------------------------------------
(* Prefixes, roots and what lies below them. *)

LEMMA LeastNatural ==
    ASSUME NEW T \in SUBSET Nat, T # {}
    PROVE  \E n \in T : \A m \in T : n <= m
<1> DEFINE R == OpToRel(<, Nat)
<1>1. IsWellFoundedOn(R, Nat)
  BY NatLessThanWellFounded
<1>2. \A m, n \in Nat : m < n => <<m, n>> \in R
  BY DEF OpToRel
<1> HIDE DEF R
<1>3. PICK n \in T : \A m \in T : ~(<<m, n>> \in R)
  BY <1>1, WFMin
<1>4. ASSUME NEW m \in T PROVE n <= m
  <2>1. m \in Nat /\ n \in Nat  OBVIOUS
  <2>2. ~(m < n)  BY <1>2, <1>3, <2>1
  <2> QED BY <2>1, <2>2
<1> QED BY <1>4

LEMMA LeastPosition ==
    ASSUME NEW T \in SUBSET Nat, T # {}
    PROVE  Min(T) \in T /\ \A n \in T : Min(T) <= n
BY LeastNatural DEF Min

LEMMA FromText ==
    ASSUME NEW C, NEW text \in Seq(C), NEW i \in 1 .. Len(text) + 1
    PROVE  /\ From(text, i) \in Seq(C)
           /\ Len(From(text, i)) = Len(text) + 1 - i
           /\ \A k \in 1 .. Len(text) + 1 - i : From(text, i)[k] = text[i + k - 1]
<1>1. Len(text) \in Nat  OBVIOUS
<1>2. \A k \in i .. Len(text) : text[k] \in C  BY ElementOfSeq
<1>3. From(text, i) = SubSeq(text, i, Len(text))  BY DEF From
<1>4. i \in Int /\ Len(text) \in Int  BY <1>1
<1>5. /\ SubSeq(text, i, Len(text)) \in Seq(C)
      /\ Len(SubSeq(text, i, Len(text))) = IF i <= Len(text) THEN Len(text) - i + 1 ELSE 0
      /\ \A k \in 1 .. Len(text) - i + 1 : SubSeq(text, i, Len(text))[k] = text[i + k - 1]
  BY <1>2, <1>4, SubSeqProperties
<1> QED BY <1>1, <1>3, <1>5

\* IsPrefix compares character by character.
LEMMA PrefixOf ==
    ASSUME NEW C, NEW s \in Seq(C), NEW t \in Seq(C)
    PROVE  IsPrefix(s, t) <=> /\ Len(s) <= Len(t)
                              /\ \A i \in 1 .. Len(s) : s[i] = t[i]
<1>1. Len(s) \in Nat /\ Len(t) \in Nat  OBVIOUS
<1>2. SubSeq(s, 1, Len(s)) = s  BY SubSeqFull
<1>3. ASSUME Len(s) <= Len(t)
      PROVE  /\ SubSeq(t, 1, Len(s)) \in Seq(C)
             /\ Len(SubSeq(t, 1, Len(s))) = Len(s)
             /\ \A i \in 1 .. Len(s) : SubSeq(t, 1, Len(s))[i] = t[i]
  <2>1. \A i \in 1 .. Len(s) : t[i] \in C  BY <1>1, <1>3, ElementOfSeq
  <2>2. 1 \in Int /\ Len(s) \in Int  BY <1>1
  <2>3. /\ SubSeq(t, 1, Len(s)) \in Seq(C)
        /\ Len(SubSeq(t, 1, Len(s))) = IF 1 <= Len(s) THEN Len(s) - 1 + 1 ELSE 0
        /\ \A i \in 1 .. Len(s) - 1 + 1 : SubSeq(t, 1, Len(s))[i] = t[1 + i - 1]
    BY <2>1, <2>2, SubSeqProperties
  <2> QED BY <1>1, <2>3
<1>4. ASSUME Len(s) <= Len(t)
      PROVE  (s = SubSeq(t, 1, Len(s))) <=> \A i \in 1 .. Len(s) : s[i] = t[i]
  BY <1>3, <1>4, SeqEqual
<1> QED BY <1>2, <1>4 DEF IsPrefix

LEMMA BoundaryText ==
    ASSUME NEW C, Slash \in C, NEW root \in Seq(C)
    PROVE  Boundary(root) \in Seq(C)
BY EmptySeq, ConcatProperties DEF Boundary, NoRoot

\* A path lies below the root at the root's boundary.
LEMMA RootedAtBoundary ==
    ASSUME NEW C, Slash \in C, NEW root \in Seq(C), NEW path \in Seq(C)
    PROVE  /\ Rooted(root, path) = Boundary(root) \o path
           /\ Rooted(root, path) \in Seq(C)
<1>1. CASE root = NoRoot
  BY <1>1, ConcatEmptySeq DEF Rooted, Boundary, NoRoot
<1>2. CASE root # NoRoot
  <2>1. <<Slash>> \in Seq(C)  OBVIOUS
  <2>2. root \o <<Slash>> \in Seq(C)  BY <2>1, ConcatProperties
  <2>3. (root \o <<Slash>>) \o path \in Seq(C)  BY <2>2, ConcatProperties
  <2> QED BY <1>2, <2>3 DEF Rooted, Boundary
<1> QED BY <1>1, <1>2

\* What stripping the root leaves of a key below it, put back, is that key.
LEMMA StripThenRoot ==
    ASSUME NEW C, Slash \in C, NEW root \in Seq(C), NEW key \in Seq(C),
           Under(root, key)
    PROVE  /\ StripRoot(root, key) \in Seq(C)
           /\ Len(StripRoot(root, key)) = Len(key) - Len(Boundary(root))
           /\ Rooted(root, StripRoot(root, key)) = key
<1> DEFINE bound == Boundary(root)
           path  == StripRoot(root, key)
<1>1. bound \in Seq(C) /\ Len(bound) \in Nat /\ Len(key) \in Nat  BY BoundaryText
<1>2. Len(bound) <= Len(key) /\ \A i \in 1 .. Len(bound) : bound[i] = key[i]
  BY <1>1, PrefixOf DEF Under
<1>3. Len(bound) + 1 \in 1 .. Len(key) + 1  BY <1>1, <1>2
<1>4. path = From(key, Len(bound) + 1)  BY DEF StripRoot
<1> HIDE DEF bound, path
<1>5. /\ path \in Seq(C)
      /\ Len(path) = Len(key) - Len(bound)
      /\ \A k \in 1 .. Len(key) - Len(bound) : path[k] = key[Len(bound) + k]
  <2>1. /\ path \in Seq(C)
        /\ Len(path) = Len(key) + 1 - (Len(bound) + 1)
        /\ \A k \in 1 .. Len(key) + 1 - (Len(bound) + 1) :
              path[k] = key[Len(bound) + 1 + k - 1]
    BY <1>3, <1>4, FromText
  <2> QED BY <1>1, <2>1
<1>6. bound \o path = key
  <2>1. /\ bound \o path \in Seq(C)
        /\ Len(bound \o path) = Len(bound) + Len(path)
        /\ \A i \in 1 .. Len(bound) + Len(path) : (bound \o path)[i] =
              IF i <= Len(bound) THEN bound[i] ELSE path[i - Len(bound)]
    BY <1>1, <1>5, ConcatProperties
  <2>2. Len(bound \o path) = Len(key)  BY <1>1, <1>5, <2>1
  <2>3. ASSUME NEW i \in 1 .. Len(bound \o path) PROVE (bound \o path)[i] = key[i]
    <3>1. CASE i <= Len(bound)
      BY <1>1, <1>2, <2>1, <2>2, <3>1
    <3>2. CASE ~(i <= Len(bound))
      <4>1. i \in Int /\ i - Len(bound) \in 1 .. Len(key) - Len(bound)
        BY <1>1, <2>2, <3>2
      <4>2. path[i - Len(bound)] = key[Len(bound) + (i - Len(bound))]  BY <1>5, <4>1
      <4>3. Len(bound) + (i - Len(bound)) = i  BY <1>1, <4>1
      <4> QED BY <1>1, <1>5, <2>1, <2>2, <3>2, <4>2, <4>3
    <3> QED BY <3>1, <3>2
  <2> QED BY <2>1, <2>2, <2>3, SeqEqual
<1>7. Rooted(root, path) = bound \o path  BY <1>5, RootedAtBoundary DEF bound
<1> QED BY <1>5, <1>6, <1>7 DEF bound, path

\* Prefixes of a path are, behind the root, prefixes of its key.
LEMMA PrefixBelowRoot ==
    ASSUME NEW C, Slash \in C, NEW root \in Seq(C), NEW s \in Seq(C), NEW t \in Seq(C),
           IsPrefix(s, t)
    PROVE  IsPrefix(Boundary(root) \o s, Rooted(root, t))
<1> DEFINE bound == Boundary(root)
<1>1. bound \in Seq(C) /\ Len(bound) \in Nat /\ Len(s) \in Nat /\ Len(t) \in Nat
  BY BoundaryText
<1>2. Rooted(root, t) = bound \o t  BY RootedAtBoundary
<1> HIDE DEF bound
<1>3. Len(s) <= Len(t) /\ \A i \in 1 .. Len(s) : s[i] = t[i]  BY PrefixOf
<1>4. /\ bound \o s \in Seq(C)
      /\ Len(bound \o s) = Len(bound) + Len(s)
      /\ \A i \in 1 .. Len(bound) + Len(s) : (bound \o s)[i] =
            IF i <= Len(bound) THEN bound[i] ELSE s[i - Len(bound)]
  BY <1>1, ConcatProperties
<1>5. /\ bound \o t \in Seq(C)
      /\ Len(bound \o t) = Len(bound) + Len(t)
      /\ \A i \in 1 .. Len(bound) + Len(t) : (bound \o t)[i] =
            IF i <= Len(bound) THEN bound[i] ELSE t[i - Len(bound)]
  BY <1>1, ConcatProperties
<1>6. Len(bound \o s) <= Len(bound \o t)  BY <1>1, <1>3, <1>4, <1>5
<1>7. ASSUME NEW i \in 1 .. Len(bound \o s) PROVE (bound \o s)[i] = (bound \o t)[i]
  <2>1. i \in 1 .. Len(bound) + Len(s) /\ i \in 1 .. Len(bound) + Len(t)
    BY <1>1, <1>3, <1>4
  <2>2. CASE i <= Len(bound)  BY <1>4, <1>5, <2>1, <2>2
  <2>3. CASE ~(i <= Len(bound))
    <3>1. i - Len(bound) \in 1 .. Len(s)  BY <1>1, <2>1, <2>3
    <3> QED BY <1>3, <1>4, <1>5, <2>1, <2>3, <3>1
  <2> QED BY <2>2, <2>3
<1> QED BY <1>2, <1>4, <1>5, <1>6, <1>7, PrefixOf DEF bound


-----------------------------------------------------------------------------
(* Outcomes of a call. *)

\* What the consumer may read is the provider's result for the answer it got.
ResultOfReply ==
    (phase \in {"reading", "done"} /\ result.kind = "ok") =>
        reply.code = "ok" /\ result = Result(request, reply)

\* Failed() is never taken for an accepted page.
LEMMA FailedKind ==
    ASSUME NEW kind
    PROVE  Failed(kind).kind = kind
BY DEF Failed, Listed

\* A call that is not admitted leaves a failure, and one that is leaves none.
LEMMA CallOutcome ==
    ASSUME NEW r, Call(r)
    PROVE  /\ request' = r
           /\ phase' \in {"waiting", "done"}
           /\ phase' = "waiting" => Admissible(r)
           /\ result'.kind # "ok"
<1>1. Failed("none").kind = "none" /\ Failed("invalid").kind = "invalid"
  BY FailedKind
<1> QED BY <1>1 DEF Call

\* An answer of the server moves the consumer to "answered" and changes no
\* more than the reply.
LEMMA AnsweredStep ==
    ASSUME Serve \/ Reject \/ Misbehave
    PROVE  /\ phase = "waiting" /\ phase' = "answered"
           /\ UNCHANGED <<faulty, bucket, request, result, listed, stable>>
BY DEF Serve, Reject, Misbehave, Answered

\* Only an answer without an error code becomes an accepted page.
LEMMA ResultIsOfPage ==
    ASSUME NEW r, NEW answer, Result(r, answer).kind = "ok", answer.code # "ok",
           ErrorKind(r, answer.code) # "ok"
    PROVE  FALSE
<1>1. Result(r, answer) = Failed(ErrorKind(r, answer.code))
  BY DEF Result
<1> QED BY <1>1, FailedKind

LEMMA ErrorIsNotOk ==
    ASSUME NEW r, NEW code, code # "ok"
    PROVE  ErrorKind(r, code) # "ok"
BY DEF ErrorKind

LEMMA InitResult == Init => ResultOfReply
BY FailedKind DEF Init, ResultOfReply

LEMMA NextResult == ResultOfReply /\ [Next]_vars => ResultOfReply'
<1> SUFFICES ASSUME ResultOfReply, [Next]_vars PROVE ResultOfReply'
  OBVIOUS
<1>1. ASSUME NEW r \in Requests, Start(r) PROVE ResultOfReply'
  BY <1>1, CallOutcome DEF Start, ResultOfReply
<1>2. CASE Serve \/ Reject \/ Misbehave
  BY <1>2, AnsweredStep DEF ResultOfReply
<1>3. CASE Receive
  <2>1. result' = Result(request, reply) /\ UNCHANGED <<request, reply>>
    BY <1>3 DEF Receive
  <2>2. result'.kind = "ok" => reply.code = "ok"
    BY <2>1, ResultIsOfPage, ErrorIsNotOk
  <2> QED BY <2>1, <2>2 DEF ResultOfReply
<1>4. CASE Continue
  BY <1>4, CallOutcome DEF Continue, ResultOfReply
<1>5. ASSUME NEW key \in Keys, Change(key) PROVE ResultOfReply'
  BY <1>5 DEF Change, ResultOfReply
<1>6. CASE UNCHANGED vars
  BY <1>6 DEF vars, ResultOfReply
<1> QED BY <1>1, <1>2, <1>3, <1>4, <1>5, <1>6 DEF Next

\* An accepted grouped page passed the validation and is its projection.
LEMMA GroupedPage ==
    ASSUME NEW r, NEW page, r.grouped, page.code = "ok", Result(r, page).kind = "ok"
    PROVE  /\ ValidGroupedPage(r, page)
           /\ Result(r, page) =
                Listed(Paths(page.objects), Paths(page.prefixes), page.flag = "yes",
                       page.token)
<1>1. Result(r, page) = GroupedResult(r, page)
  BY DEF Result
<1>2. Failed("malformed").kind # "ok"
  BY FailedKind
<1> QED BY <1>1, <1>2 DEF GroupedResult

LEMMA ConfinedByResult == ResultOfReply => PageIsConfined
<1> SUFFICES ASSUME ResultOfReply, phase \in {"reading", "done"}, result.kind = "ok",
                    request.grouped
             PROVE  /\ \A i \in DOMAIN result.objects :
                          /\ Inside(reply.objects[i], request)
                          /\ result.objects[i] = StripRoot(Root, reply.objects[i])
                    /\ \A i \in DOMAIN result.prefixes :
                          /\ Inside(reply.prefixes[i], request)
                          /\ result.prefixes[i] = StripRoot(Root, reply.prefixes[i])
  BY DEF PageIsConfined
<1>1. reply.code = "ok" /\ result = Result(request, reply)
  BY DEF ResultOfReply
<1>2. ValidGroupedPage(request, reply)
  BY <1>1, GroupedPage
<1>3. result = Listed(Paths(reply.objects), Paths(reply.prefixes), reply.flag = "yes",
                      reply.token)
  BY <1>1, GroupedPage
<1>4. result.objects = Paths(reply.objects) /\ result.prefixes = Paths(reply.prefixes)
  BY <1>3 DEF Listed
<1> QED BY <1>2, <1>4 DEF ValidGroupedPage, Paths

-----------------------------------------------------------------------------
(* Types. *)

LEMMA InitTypes == Init => TypeOK
<1> SUFFICES ASSUME Init PROVE TypeOK
  OBVIOUS
<1>1. bucket \subseteq Keys /\ disturbances \in Nat
  BY DEF Init
<1> QED BY <1>1 DEF Init, TypeOK, Phases

LEMMA NextTypes == TypeOK /\ [Next]_vars => TypeOK'
<1> SUFFICES ASSUME TypeOK, [Next]_vars PROVE TypeOK'
  OBVIOUS
<1>1. ASSUME NEW r \in Requests, Start(r) PROVE TypeOK'
  BY <1>1, CallOutcome DEF Start, TypeOK, Phases, Admissible
<1>2. CASE Serve \/ Reject
  <2>1. UNCHANGED disturbances
    BY <1>2 DEF Serve, Reject
  <2> QED BY <2>1, <1>2, AnsweredStep DEF TypeOK, Phases, Admissible
<1>3. CASE Misbehave
  <2>1. disturbances' \in Nat
    BY <1>3 DEF Misbehave, TypeOK
  <2> QED BY <2>1, <1>3, AnsweredStep DEF TypeOK, Phases, Admissible
<1>4. CASE Receive
  BY <1>4 DEF Receive, TypeOK, Phases, Admissible
<1>5. CASE Continue
  BY <1>5, CallOutcome DEF Continue, TypeOK, Phases, Admissible
<1>6. ASSUME NEW key \in Keys, Change(key) PROVE TypeOK'
  <2>1. bucket' \subseteq Keys /\ stable' \subseteq bucket'
    BY <1>6 DEF Change, TypeOK
  <2>2. disturbances' \in Nat
    BY <1>6 DEF Change, TypeOK
  <2> QED BY <2>1, <2>2, <1>6 DEF Change, TypeOK, Phases, Admissible
<1>7. CASE UNCHANGED vars
  BY <1>7 DEF vars, TypeOK, Admissible
<1> QED BY <1>1, <1>2, <1>3, <1>4, <1>5, <1>6, <1>7 DEF Next

-----------------------------------------------------------------------------
(* Putting a finite set in order. *)

OrdersAll(S, number) ==
    /\ Cardinality(S) \in Nat
    /\ Ordered(S, number) \in [1 .. Cardinality(S) -> S]
    /\ \A i, j \in 1 .. Cardinality(S) :
          /\ Ordered(S, number)[i] = Ordered(S, number)[j] => i = j
          /\ i < j => number[Ordered(S, number)[i]] < number[Ordered(S, number)[j]]
    /\ \A x \in S : \E i \in 1 .. Cardinality(S) : Ordered(S, number)[i] = x

\* Counting the members below each one enumerates a finite set: every member
\* has a place of its own, and places follow the numbers.
LEMMA OrderedSet ==
    ASSUME NEW S, IsFiniteSet(S), NEW number \in [S -> Nat],
           \A x, y \in S : number[x] = number[y] => x = y
    PROVE  OrdersAll(S, number)
<1> DEFINE n        == Cardinality(S)
           Below(x) == {y \in S : number[y] < number[x]}
           rank     == [x \in S |-> Cardinality(Below(x)) + 1]
           order    == Ordered(S, number)
<1>1. n \in Nat  BY FS_CardinalityType
<1>2. ASSUME NEW x \in S
      PROVE  /\ IsFiniteSet(Below(x)) /\ Cardinality(Below(x)) \in Nat
             /\ IsFiniteSet(Below(x) \cup {x})
             /\ Cardinality(Below(x) \cup {x}) = Cardinality(Below(x)) + 1
             /\ Below(x) \cup {x} \subseteq S
  <2>1. Below(x) \subseteq S /\ x \notin Below(x)  OBVIOUS
  <2>2. IsFiniteSet(Below(x))  BY <2>1, FS_Subset
  <2>3. /\ IsFiniteSet(Below(x) \cup {x})
        /\ Cardinality(Below(x) \cup {x}) = Cardinality(Below(x)) + 1
    BY <2>1, <2>2, FS_AddElement
  <2> QED BY <2>1, <2>2, <2>3, FS_CardinalityType
<1>3. ASSUME NEW x \in S PROVE rank[x] \in 1 .. n
  <2>1. Cardinality(Below(x) \cup {x}) <= n  BY <1>2, FS_Subset
  <2>2. Cardinality(Below(x)) \in Nat
        /\ Cardinality(Below(x) \cup {x}) = Cardinality(Below(x)) + 1
    BY <1>2
  <2>3. rank[x] = Cardinality(Below(x)) + 1  OBVIOUS
  <2> HIDE DEF rank, Below, n
  <2> QED BY <1>1, <2>1, <2>2, <2>3
<1>4. ASSUME NEW x \in S, NEW y \in S, number[x] < number[y] PROVE rank[x] < rank[y]
  <2>1. Below(x) \cup {x} \subseteq Below(y)  BY <1>4
  <2>2. Cardinality(Below(x) \cup {x}) <= Cardinality(Below(y))
    BY <1>2, <2>1, FS_Subset
  <2>3. /\ Cardinality(Below(x)) \in Nat /\ Cardinality(Below(y)) \in Nat
        /\ Cardinality(Below(x) \cup {x}) = Cardinality(Below(x)) + 1
    BY <1>2
  <2>4. rank[x] = Cardinality(Below(x)) + 1 /\ rank[y] = Cardinality(Below(y)) + 1
    OBVIOUS
  <2> HIDE DEF rank, Below
  <2> QED BY <2>2, <2>3, <2>4
<1>5. ASSUME NEW x \in S PROVE Cardinality(Below(x)) = rank[x] - 1
  <2>1. Cardinality(Below(x)) \in Nat  BY <1>2
  <2>2. rank[x] = Cardinality(Below(x)) + 1  OBVIOUS
  <2> HIDE DEF rank, Below
  <2> QED BY <2>1, <2>2
<1> HIDE DEF rank
<1>6. ASSUME NEW x \in S, NEW y \in S, rank[x] = rank[y] PROVE x = y
  <2>1. number[x] \in Nat /\ number[y] \in Nat  OBVIOUS
  <2>2. ~(number[x] < number[y]) /\ ~(number[y] < number[x])  BY <1>3, <1>4, <1>6
  <2> QED BY <2>1, <2>2
<1>7. \A i \in 1 .. n : \E x \in S : rank[x] = i
  <2>1. rank \in [S -> 1 .. n]  BY <1>3 DEF rank
  <2>2. rank \in Injection(S, 1 .. n)
    BY <2>1, <1>6 DEF Injection, IsInjective
  <2>3. IsFiniteSet(1 .. n) /\ Cardinality(1 .. n) = n  BY <1>1, FS_Interval
  <2>4. rank \in Surjection(S, 1 .. n)  BY <2>2, <2>3, FS_Injection
  <2> QED BY <2>4 DEF Surjection
<1>8. order = [i \in 1 .. n |-> CHOOSE x \in S : Cardinality(Below(x)) = i - 1]
  BY DEF Ordered
<1> HIDE DEF n, Below, order
<1>9. ASSUME NEW i \in 1 .. n PROVE order[i] \in S /\ rank[order[i]] = i
  <2>1. \E x \in S : Cardinality(Below(x)) = i - 1  BY <1>5, <1>7
  <2>2. order[i] = CHOOSE x \in S : Cardinality(Below(x)) = i - 1  BY <1>8
  <2>3. order[i] \in S /\ Cardinality(Below(order[i])) = i - 1  BY <2>1, <2>2
  <2> QED BY <1>1, <1>3, <1>5, <2>3
<1>10. order \in [1 .. n -> S]  BY <1>8, <1>9
<1>11. ASSUME NEW i \in 1 .. n, NEW j \in 1 .. n
       PROVE  /\ order[i] = order[j] => i = j
              /\ i < j => number[order[i]] < number[order[j]]
  <2>1. order[i] = order[j] => i = j  BY <1>9
  <2>2. ASSUME i < j PROVE number[order[i]] < number[order[j]]
    <3>1. ~(number[order[j]] < number[order[i]])  BY <1>1, <1>4, <1>9, <2>2
    <3>2. number[order[j]] # number[order[i]]  BY <1>1, <1>9, <2>1, <2>2
    <3>3. number[order[j]] \in Nat /\ number[order[i]] \in Nat  BY <1>9
    <3> QED BY <3>1, <3>2, <3>3
  <2> QED BY <2>1, <2>2
<1>12. ASSUME NEW x \in S PROVE \E i \in 1 .. n : order[i] = x
  BY <1>3, <1>6, <1>9
<1> QED BY <1>1, <1>10, <1>11, <1>12 DEF n, order, OrdersAll

LEMMA OrderedNaturals ==
    ASSUME NEW S, IsFiniteSet(S), S \subseteq Nat
    PROVE  OrdersAll(S, [p \in S |-> p])
<1>1. PICK number : number = [p \in S |-> p]  OBVIOUS
<1>2. number \in [S -> Nat] /\ \A x, y \in S : number[x] = number[y] => x = y
  BY <1>1
<1>3. OrdersAll(S, number)  BY <1>2, OrderedSet
<1> QED BY <1>1, <1>3

LEMMA FunctionIsSeq ==
    ASSUME NEW T, NEW n \in Nat, NEW f \in [1 .. n -> T]
    PROVE  f \in Seq(T) /\ Len(f) = n
OBVIOUS

\* Picking rows keeps their order and skips none of the places.
LEMMA PickedRows ==
    ASSUME NEW T, NEW rows \in Seq(T), NEW places \in SUBSET (1 .. Len(rows))
    PROVE  /\ Cardinality(places) \in Nat
           /\ Picked(rows, places) \in Seq(T)
           /\ Len(Picked(rows, places)) = Cardinality(places)
           /\ \E order \in [1 .. Cardinality(places) -> places] :
                 /\ \A i, j \in 1 .. Cardinality(places) : order[i] = order[j] => i = j
                 /\ \A p \in places : \E i \in 1 .. Cardinality(places) : order[i] = p
                 /\ \A i \in 1 .. Cardinality(places) :
                       Picked(rows, places)[i] = rows[order[i]]
<1>1. Len(rows) \in Nat /\ IsFiniteSet(1 .. Len(rows))  BY FS_Interval
<1>2. IsFiniteSet(places)  BY <1>1, FS_Subset
<1>3. places \subseteq Nat  BY <1>1
<1>4. PICK place : /\ place = [p \in places |-> p]
                  /\ OrdersAll(places, place)
  BY <1>2, <1>3, OrderedNaturals
<1>5. OrdersAll(places, place)  BY <1>4
<1> DEFINE n      == Cardinality(places)
           order  == Ordered(places, place)
           picked == Picked(rows, places)
<1>6. /\ n \in Nat /\ order \in [1 .. n -> places]
      /\ \A i, j \in 1 .. n : order[i] = order[j] => i = j
      /\ \A p \in places : \E i \in 1 .. n : order[i] = p
  BY <1>5 DEF OrdersAll
<1>7. picked = [i \in DOMAIN order |-> rows[order[i]]]
  BY <1>4 DEF Picked
<1> HIDE DEF n, order, picked
<1>8. picked = [i \in 1 .. n |-> rows[order[i]]]  BY <1>6, <1>7
<1>9. \A i \in 1 .. n : rows[order[i]] \in T  BY <1>6, ElementOfSeq
<1>10. picked \in [1 .. n -> T]  BY <1>8, <1>9
<1>11. picked \in Seq(T) /\ Len(picked) = n  BY <1>6, <1>10, FunctionIsSeq
<1>12. \A i \in 1 .. n : picked[i] = rows[order[i]]  BY <1>8
<1> QED BY <1>6, <1>11, <1>12 DEF n, picked

LEMMA PickedAll ==
    ASSUME NEW T, NEW rows \in Seq(T)
    PROVE  Picked(rows, 1 .. Len(rows)) = rows
<1> DEFINE n      == Len(rows)
           place  == [p \in 1 .. n |-> p]
           order  == Ordered(1 .. n, place)
<1>0. n \in Nat  OBVIOUS
<1>1. n \in Nat /\ Cardinality(1 .. n) = n
  <2> HIDE DEF n
  <2> QED BY <1>0, FS_Interval
<1>2. ASSUME NEW x \in 1 .. n
      PROVE  Cardinality({y \in 1 .. n : place[y] < place[x]}) = x - 1
  <2>1. {y \in 1 .. n : place[y] < place[x]} = 1 .. x - 1  BY <1>1
  <2>2. Cardinality(1 .. x - 1) = x - 1  BY FS_Interval
  <2> QED BY <2>1, <2>2
<1>3. order = [i \in 1 .. n |->
                  CHOOSE x \in 1 .. n : Cardinality({y \in 1 .. n : place[y] < place[x]}) = i - 1]
  BY <1>1 DEF Ordered
<1>4. ASSUME NEW i \in 1 .. n PROVE order[i] = i
  <2>1. Cardinality({y \in 1 .. n : place[y] < place[i]}) = i - 1  BY <1>2
  <2>2. order[i] = CHOOSE x \in 1 .. n :
                      Cardinality({y \in 1 .. n : place[y] < place[x]}) = i - 1
    BY <1>3
  <2>3. /\ order[i] \in 1 .. n
        /\ Cardinality({y \in 1 .. n : place[y] < place[order[i]]}) = i - 1
    BY <2>1, <2>2
  <2>4. order[i] - 1 = i - 1  BY <1>2, <2>3
  <2> HIDE DEF order, place
  <2> QED BY <1>1, <2>3, <2>4
<1>5. Picked(rows, 1 .. n) = [i \in DOMAIN order |-> rows[order[i]]]
  BY DEF Picked
<1>6. DOMAIN order = 1 .. n  BY <1>3
<1> HIDE DEF order
<1>7. Picked(rows, 1 .. n) = [i \in 1 .. n |-> rows[i]]  BY <1>4, <1>5, <1>6
<1> QED BY <1>1, <1>7

-----------------------------------------------------------------------------
(* The order of keys is total. *)

\* One text is less than another if, where they first differ, it has ended or
\* has the lower character.
LEMMA FirstDifference ==
    ASSUME NEW a \in Texts, NEW b \in Texts
    PROVE  Less(a, b) <=>
             \E k \in 1 .. Len(a) + 1 :
                /\ k <= Len(b) /\ \A j \in 1 .. k - 1 : a[j] = b[j]
                /\ k <= Len(a) => Rank[a[k]] < Rank[b[k]]
<1>1. Len(a) \in Nat /\ Len(b) \in Nat /\ a \in Seq(Characters) /\ b \in Seq(Characters)
      /\ DOMAIN a = 1 .. Len(a) /\ DOMAIN b = 1 .. Len(b)
  BY DEF Texts
<1>2. IsPrefix(a, b) <=> Len(a) <= Len(b) /\ \A j \in 1 .. Len(a) : a[j] = b[j]
  BY <1>1, PrefixOf
<1>3. ASSUME IsStrictPrefix(a, b)
      PROVE  \E k \in 1 .. Len(a) + 1 :
                /\ k <= Len(b) /\ \A j \in 1 .. k - 1 : a[j] = b[j]
                /\ k <= Len(a) => Rank[a[k]] < Rank[b[k]]
  <2>1. IsPrefix(a, b) /\ a # b  BY <1>3 DEF IsStrictPrefix
  <2>2. Len(a) # Len(b)  BY <1>1, <1>2, <2>1, SeqEqual
  <2>3. Len(a) < Len(b) /\ \A j \in 1 .. Len(a) : a[j] = b[j]
    <3>1. Len(a) <= Len(b) /\ \A j \in 1 .. Len(a) : a[j] = b[j]  BY <1>2, <2>1
    <3>2. Len(a) \in Nat /\ Len(b) \in Nat  BY <1>1
    <3> QED BY <2>2, <3>1, <3>2
  <2> DEFINE k == Len(a) + 1
  <2>4. k \in 1 .. Len(a) + 1 /\ k <= Len(b) /\ ~(k <= Len(a)) /\ k - 1 = Len(a)
    <3>1. Len(a) \in Nat /\ Len(b) \in Nat  BY <1>1
    <3> QED BY <2>3, <3>1
  <2> HIDE DEF k
  <2> QED BY <2>3, <2>4
<1>4. ASSUME NEW i \in DOMAIN a \cap DOMAIN b, Rank[a[i]] < Rank[b[i]],
             \A j \in 1 .. i - 1 : a[j] = b[j]
      PROVE  \E k \in 1 .. Len(a) + 1 :
                /\ k <= Len(b) /\ \A j \in 1 .. k - 1 : a[j] = b[j]
                /\ k <= Len(a) => Rank[a[k]] < Rank[b[k]]
  <2>1. i \in 1 .. Len(a) + 1 /\ i <= Len(b)  BY <1>1
  <2> QED BY <1>4, <2>1
<1>5. ASSUME NEW k \in 1 .. Len(a) + 1,
             k <= Len(b), \A j \in 1 .. k - 1 : a[j] = b[j],
             k <= Len(a) => Rank[a[k]] < Rank[b[k]]
      PROVE  Less(a, b)
  <2>1. CASE k <= Len(a)
    <3>1. k \in DOMAIN a \cap DOMAIN b  BY <1>1, <1>5, <2>1
    <3> QED BY <1>5, <2>1, <3>1 DEF Less
  <2>2. CASE ~(k <= Len(a))
    <3>1. k - 1 = Len(a) /\ Len(a) < Len(b)  BY <1>1, <1>5, <2>2
    <3>2. IsPrefix(a, b) /\ a # b  BY <1>1, <1>2, <1>5, <3>1
    <3> QED BY <3>2 DEF Less, IsStrictPrefix
  <2> QED BY <2>1, <2>2
<1> QED BY <1>3, <1>4, <1>5 DEF Less

LEMMA LessIsIrreflexive ==
    ASSUME NEW a \in Texts
    PROVE  ~Less(a, a)
<1>1. Len(a) \in Nat /\ \A k \in 1 .. Len(a) : a[k] \in Characters
  BY ElementOfSeq DEF Texts
<1>2. ASSUME NEW k \in 1 .. Len(a) + 1, k <= Len(a), Rank[a[k]] < Rank[a[k]]
      PROVE  FALSE
  <2>1. a[k] \in Characters  BY <1>1, <1>2
  <2>2. Rank[a[k]] \in Nat  BY <2>1, BucketAssumption
  <2> QED BY <1>2, <2>2
<1> QED BY <1>2, FirstDifference

LEMMA LessIsTransitive ==
    ASSUME NEW a \in Texts, NEW b \in Texts, NEW c \in Texts, Less(a, b), Less(b, c)
    PROVE  Less(a, c)
<1>1. /\ Len(a) \in Nat /\ Len(b) \in Nat /\ Len(c) \in Nat
      /\ \A k \in 1 .. Len(a) : Rank[a[k]] \in Nat
      /\ \A k \in 1 .. Len(b) : Rank[b[k]] \in Nat
      /\ \A k \in 1 .. Len(c) : Rank[c[k]] \in Nat
  BY ElementOfSeq, BucketAssumption DEF Texts
<1>2. PICK k \in 1 .. Len(a) + 1 :
         /\ k <= Len(b) /\ \A j \in 1 .. k - 1 : a[j] = b[j]
         /\ k <= Len(a) => Rank[a[k]] < Rank[b[k]]
  BY FirstDifference
<1>3. PICK m \in 1 .. Len(b) + 1 :
         /\ m <= Len(c) /\ \A j \in 1 .. m - 1 : b[j] = c[j]
         /\ m <= Len(b) => Rank[b[m]] < Rank[c[m]]
  BY FirstDifference
<1>4. CASE k < m
  <2>1. k <= Len(c) /\ b[k] = c[k]  BY <1>1, <1>2, <1>3, <1>4
  <2>2. \A j \in 1 .. k - 1 : a[j] = c[j]  BY <1>1, <1>2, <1>3, <1>4
  <2> QED BY <1>2, <2>1, <2>2, FirstDifference
<1>5. CASE k = m
  <2>1. Rank[b[k]] < Rank[c[k]] /\ k <= Len(c)  BY <1>1, <1>2, <1>3, <1>5
  <2>2. k \in 1 .. Len(b) /\ k \in 1 .. Len(c)  BY <1>1, <1>2, <2>1
  <2>3. k <= Len(a) => Rank[a[k]] < Rank[c[k]]
    <3>1. ASSUME k <= Len(a) PROVE Rank[a[k]] < Rank[c[k]]
      <4>1. k \in 1 .. Len(a)  BY <1>1, <3>1
      <4>2. Rank[a[k]] \in Nat /\ Rank[b[k]] \in Nat /\ Rank[c[k]] \in Nat
        BY <1>1, <2>2, <4>1
      <4> QED BY <1>2, <2>1, <3>1, <4>2
    <3> QED BY <3>1
  <2>4. \A j \in 1 .. k - 1 : a[j] = c[j]  BY <1>1, <1>2, <1>3, <1>5
  <2> QED BY <2>1, <2>3, <2>4, FirstDifference
<1>6. CASE m < k
  <2>1. m <= Len(a) /\ m \in 1 .. Len(a) + 1 /\ a[m] = b[m] /\ m <= Len(b)
    BY <1>1, <1>2, <1>3, <1>6
  <2>2. Rank[a[m]] < Rank[c[m]]  BY <1>3, <2>1
  <2>3. \A j \in 1 .. m - 1 : a[j] = c[j]  BY <1>1, <1>2, <1>3, <1>6
  <2> QED BY <1>3, <2>1, <2>2, <2>3, FirstDifference
<1> QED BY <1>4, <1>5, <1>6

LEMMA LessIsTotal ==
    ASSUME NEW a \in Texts, NEW b \in Texts, a # b
    PROVE  Less(a, b) \/ Less(b, a)
<1> DEFINE D == {k \in Nat : /\ 1 <= k /\ k <= Len(a) + 1 /\ k <= Len(b) + 1
                             /\ k > Len(a) \/ k > Len(b) \/ a[k] # b[k]}
<1>1. Len(a) \in Nat /\ Len(b) \in Nat /\ a \in Seq(Characters) /\ b \in Seq(Characters)
  BY DEF Texts
<1>2. D # {}
  <2>1. CASE Len(a) <= Len(b)
    <3>1. Len(a) + 1 \in D  BY <1>1, <2>1
    <3> QED BY <3>1
  <2>2. CASE ~(Len(a) <= Len(b))
    <3>1. Len(b) + 1 \in D  BY <1>1, <2>2
    <3> QED BY <3>1
  <2> QED BY <2>1, <2>2
<1>3. PICK k \in D : \A m \in D : k <= m  BY <1>2, LeastNatural
<1>4. /\ k \in Nat /\ 1 <= k /\ k <= Len(a) + 1 /\ k <= Len(b) + 1
      /\ k > Len(a) \/ k > Len(b) \/ a[k] # b[k]
  OBVIOUS
<1>5. ASSUME NEW j \in 1 .. k - 1 PROVE a[j] = b[j]
  <2>1. j \in Nat /\ 1 <= j /\ j < k  BY <1>4
  <2>2. j \notin D  BY <1>3, <1>4, <2>1
  <2> QED BY <1>1, <1>4, <2>1, <2>2
<1> HIDE DEF D
<1>6. CASE k > Len(a) /\ k > Len(b)
  <2>1. Len(a) = k - 1 /\ Len(b) = k - 1  BY <1>1, <1>4, <1>6
  <2>2. a = b  BY <1>1, <1>5, <2>1, SeqEqual
  <2> QED BY <2>2
<1>7. CASE k > Len(a) /\ k <= Len(b)
  <2>1. k \in 1 .. Len(a) + 1 /\ ~(k <= Len(a))  BY <1>1, <1>4, <1>7
  <2> QED BY <1>5, <1>7, <2>1, FirstDifference
<1>8. CASE k <= Len(a) /\ k > Len(b)
  <2>1. k \in 1 .. Len(b) + 1 /\ ~(k <= Len(b))  BY <1>1, <1>4, <1>8
  <2>2. \A j \in 1 .. k - 1 : b[j] = a[j]  BY <1>5
  <2> QED BY <1>8, <2>1, <2>2, FirstDifference
<1>9. CASE k <= Len(a) /\ k <= Len(b)
  <2>1. k \in 1 .. Len(a) /\ k \in 1 .. Len(b) /\ k \in 1 .. Len(a) + 1
        /\ k \in 1 .. Len(b) + 1 /\ a[k] # b[k]
    BY <1>1, <1>4, <1>9
  <2>2. a[k] \in Characters /\ b[k] \in Characters  BY <1>1, <2>1, ElementOfSeq
  <2>3. Rank[a[k]] \in Nat /\ Rank[b[k]] \in Nat /\ Rank[a[k]] # Rank[b[k]]
    BY <2>1, <2>2, BucketAssumption
  <2>4. Rank[a[k]] < Rank[b[k]] \/ Rank[b[k]] < Rank[a[k]]  BY <2>3
  <2>5. \A j \in 1 .. k - 1 : b[j] = a[j]  BY <1>5
  <2>6. Rank[a[k]] < Rank[b[k]] => Less(a, b)  BY <1>5, <1>9, <2>1, FirstDifference
  <2>7. Rank[b[k]] < Rank[a[k]] => Less(b, a)  BY <1>9, <2>1, <2>5, FirstDifference
  <2> QED BY <2>4, <2>6, <2>7
<1> QED BY <1>1, <1>4, <1>6, <1>7, <1>8, <1>9

-----------------------------------------------------------------------------
(* Positions. *)

LEMMA BeginningOf ==
    ASSUME NEW text \in Texts, NEW n \in 0 .. Len(text)
    PROVE  /\ SubSeq(text, 1, n) \in Texts /\ Len(SubSeq(text, 1, n)) = n
           /\ \A i \in 1 .. n : SubSeq(text, 1, n)[i] = text[i]
<1>1. n \in Nat /\ Len(text) \in Nat  BY DEF Texts
<1>2. \A i \in 1 .. n : text[i] \in Characters  BY <1>1, ElementOfSeq DEF Texts
<1>3. /\ SubSeq(text, 1, n) \in Seq(Characters)
      /\ Len(SubSeq(text, 1, n)) = IF 1 <= n THEN n - 1 + 1 ELSE 0
      /\ \A i \in 1 .. n - 1 + 1 : SubSeq(text, 1, n)[i] = text[1 + i - 1]
  BY <1>1, <1>2, SubSeqProperties
<1> QED BY <1>1, <1>3 DEF Texts

LEMMA PrefixesAreFinite ==
    ASSUME NEW text \in Texts
    PROVE  IsFiniteSet(Prefixes(text))
<1> DEFINE f == [n \in 0 .. Len(text) |-> SubSeq(text, 1, n)]
<1>1. Len(text) \in Nat  BY DEF Texts
<1>2. IsFiniteSet(0 .. Len(text))  BY <1>1, FS_Interval
<1>3. f \in Surjection(0 .. Len(text), Prefixes(text))
  BY DEF Surjection, Prefixes
<1> QED BY <1>2, <1>3, FS_Surjection

LEMMA BeginningsOfKeys ==
    /\ Beginnings \subseteq Texts /\ IsFiniteSet(Beginnings)
    /\ \A key \in Keys : /\ key \in Beginnings
                         /\ \A n \in 0 .. Len(key) : SubSeq(key, 1, n) \in Beginnings
<1>1. ASSUME NEW key \in Keys, NEW n \in 0 .. Len(key)
      PROVE  SubSeq(key, 1, n) \in Beginnings /\ SubSeq(key, 1, n) \in Texts
  <2>1. key \in Texts  BY BucketAssumption
  <2>2. SubSeq(key, 1, n) \in Prefixes(key)  BY DEF Prefixes
  <2> QED BY <2>1, <2>2, BeginningOf DEF Beginnings
<1>2. ASSUME NEW key \in Keys PROVE key \in Beginnings
  <2>1. key \in Texts  BY BucketAssumption
  <2>2. Len(key) \in 0 .. Len(key)  BY <2>1 DEF Texts
  <2>3. SubSeq(key, 1, Len(key)) = key  BY <2>1, SubSeqFull DEF Texts
  <2> QED BY <1>1, <2>2, <2>3
<1>3. ASSUME NEW text \in Beginnings PROVE text \in Texts
  <2>1. PICK key \in Keys : text \in Prefixes(key)  BY DEF Beginnings
  <2>2. PICK n \in 0 .. Len(key) : text = SubSeq(key, 1, n)  BY <2>1 DEF Prefixes
  <2> QED BY <1>1, <2>2
<1>4. IsFiniteSet(Beginnings)
  <2> DEFINE f == [key \in Keys |-> Prefixes(key)]
             P == {Prefixes(key) : key \in Keys}
  <2>1. f \in Surjection(Keys, P)  BY DEF Surjection
  <2>2. IsFiniteSet(P)  BY <2>1, FS_Surjection, BucketAssumption
  <2>3. \A T \in P : IsFiniteSet(T)  BY PrefixesAreFinite, BucketAssumption
  <2>4. IsFiniteSet(UNION P)  BY <2>2, <2>3, FS_UNION
  <2> QED BY <2>4 DEF Beginnings
<1> QED BY <1>1, <1>2, <1>3, <1>4

\* Nothing has the position of another text.
LEMMA Positions ==
    /\ \A text \in Beginnings : Position[text] \in Nat
    /\ \A a, b \in Beginnings : Position[a] = Position[b] => a = b
<1> DEFINE Below(text) == {other \in Beginnings : Less(other, text)}
<1>1. \A text \in Beginnings : Position[text] = Cardinality(Below(text))
  BY DEF Position
<1>2. ASSUME NEW text \in Beginnings
      PROVE  IsFiniteSet(Below(text)) /\ Cardinality(Below(text)) \in Nat
  <2>1. Below(text) \subseteq Beginnings  OBVIOUS
  <2>2. IsFiniteSet(Below(text))  BY <2>1, BeginningsOfKeys, FS_Subset
  <2> QED BY <2>2, FS_CardinalityType
<1>3. ASSUME NEW a \in Beginnings, NEW b \in Beginnings, Less(a, b)
      PROVE  Position[a] # Position[b]
  <2>1. a \in Texts /\ b \in Texts  BY BeginningsOfKeys
  <2>2. Below(a) \subseteq Below(b)  BY <1>3, <2>1, BeginningsOfKeys, LessIsTransitive
  <2>3. a \in Below(b) /\ a \notin Below(a)  BY <1>3, <2>1, LessIsIrreflexive
  <2>4. Cardinality(Below(a)) # Cardinality(Below(b))
    BY <1>2, <2>2, <2>3, FS_Subset
  <2> QED BY <1>1, <2>4
<1>4. ASSUME NEW a \in Beginnings, NEW b \in Beginnings, Position[a] = Position[b]
      PROVE  a = b
  BY <1>3, <1>4, BeginningsOfKeys, LessIsTotal
<1> QED BY <1>1, <1>2, <1>4

-----------------------------------------------------------------------------
(* Rows. *)

\* A request as it is sent: what rows are made of is there.
Asks(sent) ==
    /\ sent.prefix \in Texts /\ sent.delimiter \in Texts
    /\ sent.grouped => sent.delimiter # <<>>

Ends(key, sent) ==
    {i \in Len(sent.prefix) + Len(sent.delimiter) .. Len(key) :
        SubSeq(key, i - Len(sent.delimiter) + 1, i) = sent.delimiter}

LEMMA AskedLengths ==
    ASSUME NEW sent, Asks(sent)
    PROVE  /\ Len(sent.prefix) \in Nat /\ Len(sent.delimiter) \in Nat
           /\ sent.grouped => Len(sent.delimiter) # 0
BY EmptySeq DEF Asks, Texts

LEMMA EndOf ==
    ASSUME NEW key \in Texts, NEW sent, Asks(sent), NEW i \in Ends(key, sent)
    PROVE  /\ i \in Nat /\ Len(sent.prefix) + Len(sent.delimiter) <= i /\ i <= Len(key)
           /\ SubSeq(key, i - Len(sent.delimiter) + 1, i) = sent.delimiter
           /\ sent.grouped => i > Len(sent.prefix)
<1>1. PICK n \in Nat : n = Len(key)  BY DEF Texts
<1>2. PICK p \in Nat : p = Len(sent.prefix)  BY AskedLengths
<1>3. PICK d \in Nat : d = Len(sent.delimiter) /\ (sent.grouped => d # 0)
  BY AskedLengths
<1>4. i \in p + d .. n /\ SubSeq(key, i - d + 1, i) = sent.delimiter
  BY <1>1, <1>2, <1>3 DEF Ends
<1>5. i \in Nat /\ p + d <= i /\ i <= n /\ (d # 0 => i > p)
  BY <1>4
<1> QED BY <1>1, <1>2, <1>3, <1>4, <1>5

LEMMA CutOf ==
    ASSUME NEW key \in Texts, NEW sent, Asks(sent), sent.grouped
    PROVE  /\ Cut(key, sent) \in 0 .. Len(key)
           /\ Cut(key, sent) # 0 => Cut(key, sent) \in Ends(key, sent)
           /\ Cut(key, sent) = 0 => Ends(key, sent) = {}
           /\ \A i \in Ends(key, sent) : i > Len(sent.prefix)
<1> DEFINE E == Ends(key, sent)
<1>1. Len(key) \in Nat /\ Len(sent.prefix) \in Nat
  BY AskedLengths DEF Texts
<1>2. ASSUME NEW i \in E PROVE i \in Nat /\ i <= Len(key) /\ i > Len(sent.prefix)
  BY EndOf
<1>3. Cut(key, sent) = IF E = {} THEN 0 ELSE Min(E)  BY DEF Cut, Ends
<1> HIDE DEF E
<1>4. E # {} => Min(E) \in E
  <2>1. E \in SUBSET Nat  BY <1>2
  <2> QED BY <2>1, LeastPosition
<1>5. CASE E = {}  BY <1>1, <1>3, <1>5 DEF E
<1>6. CASE E # {}
  <2>1. Cut(key, sent) \in E  BY <1>3, <1>4, <1>6
  <2>2. /\ Cut(key, sent) \in Nat /\ Cut(key, sent) <= Len(key)
        /\ Cut(key, sent) > Len(sent.prefix)
    BY <1>2, <2>1
  <2>3. Cut(key, sent) \in 0 .. Len(key) /\ Cut(key, sent) # 0  BY <1>1, <2>2
  <2> QED BY <1>2, <2>1, <2>3 DEF E
<1> QED BY <1>5, <1>6

\* A row begins with the prefix and leads to its key.
LEMMA RowOf ==
    ASSUME NEW key \in Keys, NEW sent, Asks(sent), IsPrefix(sent.prefix, key)
    PROVE  LET row == Row(key, sent)
           IN  /\ row \in [kind : {"object", "prefix"}, key : Beginnings]
               /\ IsPrefix(sent.prefix, row.key) /\ IsPrefix(row.key, key)
               /\ row.kind = "object" =>
                     row.key = key /\ (sent.grouped => Ends(key, sent) = {})
               /\ row.kind = "prefix" =>
                     /\ sent.grouped /\ Cut(key, sent) \in Ends(key, sent)
                     /\ row.key = SubSeq(key, 1, Cut(key, sent))
                     /\ Len(row.key) = Cut(key, sent) /\ Len(row.key) > Len(sent.prefix)
<1>1. key \in Texts /\ key \in Beginnings  BY BucketAssumption, BeginningsOfKeys
<1>2. sent.prefix \in Texts  BY DEF Asks
<1>3. /\ Len(key) \in Nat /\ Len(sent.prefix) \in Nat
      /\ Len(sent.prefix) <= Len(key)
      /\ \A i \in 1 .. Len(sent.prefix) : sent.prefix[i] = key[i]
  BY <1>1, <1>2, PrefixOf DEF Texts
<1>4. CASE sent.grouped /\ Cut(key, sent) # 0
  <2> DEFINE n == Cut(key, sent)
             text == SubSeq(key, 1, n)
  <2>1. n \in 0 .. Len(key) /\ n \in Ends(key, sent) /\ n > Len(sent.prefix)
    BY <1>1, <1>4, CutOf
  <2>2. Row(key, sent) = [kind |-> "prefix", key |-> text]  BY <1>4 DEF Row
  <2> HIDE DEF n
  <2>3. text \in Texts /\ Len(text) = n /\ \A i \in 1 .. n : text[i] = key[i]
    BY <1>1, <2>1, BeginningOf
  <2>4. text \in Beginnings  BY <2>1, BeginningsOfKeys
  <2> HIDE DEF text
  <2>5. IsPrefix(text, key)  BY <1>1, <1>3, <2>1, <2>3, PrefixOf DEF Texts
  <2>6. Len(sent.prefix) <= Len(text)
        /\ \A i \in 1 .. Len(sent.prefix) : sent.prefix[i] = text[i]
    BY <1>3, <2>1, <2>3
  <2>7. IsPrefix(sent.prefix, text)  BY <1>2, <2>3, <2>6, PrefixOf DEF Texts
  <2> QED BY <1>4, <2>1, <2>2, <2>3, <2>4, <2>5, <2>7 DEF n, text
<1>5. CASE ~(sent.grouped /\ Cut(key, sent) # 0)
  <2>1. Row(key, sent) = [kind |-> "object", key |-> key]  BY <1>5 DEF Row
  <2>2. IsPrefix(key, key)  BY <1>1, <1>3, PrefixOf DEF Texts
  <2>3. sent.grouped => Ends(key, sent) = {}  BY <1>1, <1>5, CutOf
  <2> QED BY <1>1, <2>1, <2>2, <2>3
<1> QED BY <1>4, <1>5

\* A key names one row: an object's key is never a group's.
LEMMA RowOfKey ==
    ASSUME NEW k \in Keys, NEW m \in Keys, NEW sent, Asks(sent),
           IsPrefix(sent.prefix, k), IsPrefix(sent.prefix, m),
           Row(k, sent).key = Row(m, sent).key
    PROVE  Row(k, sent) = Row(m, sent)
<1>1. k \in Texts /\ m \in Texts  BY BucketAssumption
<1>2. ASSUME NEW a \in Keys, NEW b \in Keys,
             IsPrefix(sent.prefix, a), IsPrefix(sent.prefix, b),
             Row(a, sent).kind = "object", Row(b, sent).kind = "prefix",
             Row(a, sent).key = Row(b, sent).key
      PROVE  FALSE
  <2> DEFINE n == Cut(b, sent)
             d == Len(sent.delimiter)
  <2>1. /\ Row(a, sent).key = a /\ (sent.grouped => Ends(a, sent) = {})
    BY <1>2, RowOf
  <2>2. /\ sent.grouped /\ n \in Ends(b, sent)
        /\ Row(b, sent).key = SubSeq(b, 1, n) /\ Len(Row(b, sent).key) = n
    BY <1>2, RowOf
  <2>3. a \in Texts /\ b \in Texts /\ Len(a) \in Nat /\ Len(b) \in Nat
    BY BucketAssumption DEF Texts
  <2>4. d \in Nat /\ Len(sent.prefix) \in Nat /\ d # 0
    BY <2>2, EmptySeq DEF Asks, Texts
  <2>5. /\ n \in Nat /\ Len(sent.prefix) + d <= n /\ n <= Len(b)
        /\ SubSeq(b, n - d + 1, n) = sent.delimiter
    BY <2>2, <2>3, EndOf
  <2> HIDE DEF n, d
  <2>6. a = SubSeq(b, 1, n) /\ Len(a) = n  BY <1>2, <2>1, <2>2
  <2>7. \A i \in 1 .. n : a[i] = b[i]  BY <2>3, <2>5, <2>6, BeginningOf
  <2>8. SubSeq(a, n - d + 1, n) = SubSeq(b, n - d + 1, n)
    <3>1. \A i \in n - d + 1 .. n : a[i] = b[i] /\ a[i] \in Characters
      BY <2>3, <2>4, <2>5, <2>6, <2>7, ElementOfSeq DEF Texts
    <3>2. /\ SubSeq(a, n - d + 1, n) \in Seq(Characters)
          /\ Len(SubSeq(a, n - d + 1, n)) = IF n - d + 1 <= n THEN n - (n - d + 1) + 1 ELSE 0
          /\ \A i \in 1 .. n - (n - d + 1) + 1 :
                SubSeq(a, n - d + 1, n)[i] = a[n - d + 1 + i - 1]
      BY <2>4, <2>5, <3>1, SubSeqProperties
    <3>3. /\ SubSeq(b, n - d + 1, n) \in Seq(Characters)
          /\ Len(SubSeq(b, n - d + 1, n)) = IF n - d + 1 <= n THEN n - (n - d + 1) + 1 ELSE 0
          /\ \A i \in 1 .. n - (n - d + 1) + 1 :
                SubSeq(b, n - d + 1, n)[i] = b[n - d + 1 + i - 1]
      BY <2>4, <2>5, <3>1, SubSeqProperties
    <3>4. \A i \in 1 .. d : n - d + 1 + i - 1 \in n - d + 1 .. n  BY <2>4, <2>5
    <3>5. /\ Len(SubSeq(a, n - d + 1, n)) = d /\ Len(SubSeq(b, n - d + 1, n)) = d
          /\ \A i \in 1 .. d : SubSeq(a, n - d + 1, n)[i] = a[n - d + 1 + i - 1]
          /\ \A i \in 1 .. d : SubSeq(b, n - d + 1, n)[i] = b[n - d + 1 + i - 1]
      BY <2>4, <2>5, <3>2, <3>3
    <3>6. \A i \in 1 .. d : SubSeq(a, n - d + 1, n)[i] = SubSeq(b, n - d + 1, n)[i]
      BY <3>1, <3>4, <3>5
    <3> QED BY <3>2, <3>3, <3>5, <3>6, SeqEqual
  <2>9. n \in Ends(a, sent)
    <3>1. n \in Len(sent.prefix) + d .. Len(a)  BY <2>3, <2>4, <2>5, <2>6
    <3> QED BY <2>5, <2>8, <3>1 DEF Ends, d
  <2> QED BY <2>1, <2>2, <2>9
<1>3. /\ Row(k, sent) \in [kind : {"object", "prefix"}, key : Beginnings]
      /\ Row(m, sent) \in [kind : {"object", "prefix"}, key : Beginnings]
  BY RowOf
<1>4. Row(k, sent).kind = Row(m, sent).kind
  BY <1>2, <1>3
<1> QED BY <1>3, <1>4

-----------------------------------------------------------------------------
(* What an honest server answers. *)

RequestType ==
    [grouped : BOOLEAN, delimiter : Texts, prefix : Texts, max : Nat, token : Tokens]
Names    == Seq(Texts \cup {Missing})
PageType ==
    [code : {"ok"}, objects : Names, prefixes : Names, flag : {"missing", "yes", "no"},
     token : Tokens]
RowType  == [kind : {"object", "prefix"}, key : Beginnings]

Wanted(r, key) == IsPrefix(Sent(r).prefix, key)
RowFor(r, key) == Row(key, Sent(r))

\* Keys up to the one a token names have been listed.
Past(token, key) == token.kind = "issued" /\ Position[key] <= Position[token.at]

HoldsRow(page, row) ==
    \/ row.kind = "object" /\ \E i \in DOMAIN page.objects : page.objects[i] = row.key
    \/ row.kind = "prefix" /\ \E i \in DOMAIN page.prefixes : page.prefixes[i] = row.key

\* A row of the page is one of a key, beyond the request's token and not beyond
\* the page's.
RowOnPage(r, page, kind, text) ==
    /\ \E key \in Keys : Wanted(r, key) /\ RowFor(r, key) = [kind |-> kind, key |-> text]
    /\ ~Past(r.token, text)
    /\ page.flag = "yes" => Past(page.token, text)

\* A page of an honest server, when the objects S are there.
HonestTo(r, page, S) ==
    /\ \A i \in DOMAIN page.objects : RowOnPage(r, page, "object", page.objects[i])
    /\ \A i \in DOMAIN page.prefixes : RowOnPage(r, page, "prefix", page.prefixes[i])
    /\ \A i, j \in DOMAIN page.objects : page.objects[i] = page.objects[j] => i = j
    /\ \A i, j \in DOMAIN page.prefixes : page.prefixes[i] = page.prefixes[j] => i = j
    /\ Len(page.objects) + Len(page.prefixes) <= PageBound(r)
    /\ \/ /\ page.flag = "yes" /\ page.token.kind = "issued"
          /\ page.token.at \in Beginnings /\ ~Past(r.token, page.token.at)
       \/ page.flag = "no" /\ page.token = NoToken
    /\ \A key \in S :
          (/\ Wanted(r, key) /\ ~Past(r.token, RowFor(r, key).key)
           /\ page.flag = "yes" => Past(page.token, RowFor(r, key).key))
             => HoldsRow(page, RowFor(r, key))

LEMMA SentRequest ==
    ASSUME NEW r \in RequestType, Admissible(r)
    PROVE  /\ Asks(Sent(r)) /\ Sent(r).prefix = Boundary(Root) \o r.prefix
           /\ Sent(r).grouped = r.grouped /\ Sent(r).token = r.token
           /\ Sent(r).max = PageBound(r) /\ PageBound(r) \in Nat \ {0}
<1>1. /\ r.prefix \in Texts /\ r.delimiter \in Texts /\ r.max \in Nat
      /\ r.grouped => r.delimiter # <<>>
  BY DEF RequestType, Admissible
<1>2. ResolveListPrefix(Root, r.prefix) = Resolved(Boundary(Root) \o r.prefix)
  BY DEF Admissible, ResolveListPrefix, Resolved, Unresolved
<1>3. Boundary(Root) \o r.prefix \in Texts
  BY <1>1, BoundaryText, ConcatProperties, BucketAssumption DEF Texts
<1>4. Sent(r) = [prefix |-> Boundary(Root) \o r.prefix, grouped |-> r.grouped,
                 delimiter |-> r.delimiter, max |-> PageBound(r), token |-> r.token]
  BY <1>2 DEF Sent, Resolved, PageBound
<1>5. PageBound(r) \in Nat \ {0}
  BY <1>1, ListingAssumption DEF PageBound
<1> QED BY <1>1, <1>3, <1>4, <1>5 DEF Asks

LEMMA WantedRow ==
    ASSUME NEW r \in RequestType, Admissible(r), NEW key \in Keys, Wanted(r, key)
    PROVE  /\ RowFor(r, key) \in RowType
           /\ IsPrefix(Sent(r).prefix, RowFor(r, key).key)
           /\ IsPrefix(RowFor(r, key).key, key)
           /\ RowFor(r, key).kind = "object" => RowFor(r, key).key = key
           /\ RowFor(r, key).kind = "prefix" =>
                 r.grouped /\ Len(RowFor(r, key).key) > Len(Sent(r).prefix)
<1>1. PICK sent : sent = Sent(r)  OBVIOUS
<1>2. Asks(sent) /\ sent.grouped = r.grouped  BY <1>1, SentRequest
<1>3. IsPrefix(sent.prefix, key) /\ RowFor(r, key) = Row(key, sent)
  BY <1>1 DEF Wanted, RowFor
<1>4. PICK row : row = Row(key, sent)  OBVIOUS
<1>5. /\ row \in [kind : {"object", "prefix"}, key : Beginnings]
      /\ IsPrefix(sent.prefix, row.key) /\ IsPrefix(row.key, key)
      /\ row.kind = "object" => row.key = key
      /\ row.kind = "prefix" => sent.grouped /\ Len(row.key) > Len(sent.prefix)
  BY <1>2, <1>3, <1>4, RowOf
<1> QED BY <1>1, <1>2, <1>3, <1>4, <1>5 DEF RowType

LEMMA WantedRowOfKey ==
    ASSUME NEW r \in RequestType, Admissible(r), NEW k \in Keys, NEW m \in Keys,
           Wanted(r, k), Wanted(r, m), RowFor(r, k).key = RowFor(r, m).key
    PROVE  RowFor(r, k) = RowFor(r, m)
BY SentRequest, RowOfKey DEF Wanted, RowFor

\* The texts are the keys of the rows at the places, each place once.
KeysAt(rows, places, texts) ==
    /\ places \subseteq 1 .. Len(rows) /\ Cardinality(places) \in Nat
    /\ texts \in Names /\ Len(texts) = Cardinality(places)
    /\ DOMAIN texts = 1 .. Len(texts)
    /\ \E order \in [DOMAIN texts -> places] :
          /\ \A i, j \in DOMAIN texts : order[i] = order[j] => i = j
          /\ \A p \in places : \E i \in DOMAIN texts : order[i] = p
          /\ \A i \in DOMAIN texts : texts[i] = rows[order[i]].key

LEMMA RowsOfKind ==
    ASSUME NEW T \in SUBSET RowType, NEW rows \in Seq(T), NEW kind
    PROVE  KeysAt(rows, {i \in DOMAIN rows : rows[i].kind = kind}, OfKind(rows, kind))
<1> DEFINE places == {i \in DOMAIN rows : rows[i].kind = kind}
           chosen == Picked(rows, places)
           texts  == OfKind(rows, kind)
           n      == Cardinality(places)
<1>1. places \in SUBSET (1 .. Len(rows))  OBVIOUS
<1>2. texts = [i \in DOMAIN chosen |-> chosen[i].key]  BY DEF OfKind
<1> HIDE DEF places, chosen, texts, n
<1>3. n \in Nat /\ chosen \in Seq(T) /\ Len(chosen) = n
  BY <1>1, PickedRows DEF chosen, n
<1>4. PICK order \in [1 .. n -> places] :
         /\ \A i, j \in 1 .. n : order[i] = order[j] => i = j
         /\ \A p \in places : \E i \in 1 .. n : order[i] = p
         /\ \A i \in 1 .. n : chosen[i] = rows[order[i]]
  BY <1>1, PickedRows DEF chosen, n
<1>5. DOMAIN chosen = 1 .. n  BY <1>3
<1>6. texts = [i \in 1 .. n |-> chosen[i].key]  BY <1>2, <1>5
<1>7. ASSUME NEW i \in 1 .. n PROVE chosen[i].key \in Texts \cup {Missing}
  <2>1. chosen[i] \in T  BY <1>3, ElementOfSeq
  <2> QED BY <2>1, BeginningsOfKeys DEF RowType
<1>8. texts \in [1 .. n -> Texts \cup {Missing}]  BY <1>6, <1>7
<1>9. texts \in Names /\ Len(texts) = n  BY <1>3, <1>8, FunctionIsSeq DEF Names
<1>10. DOMAIN texts = 1 .. n  BY <1>6
<1>11. \A i \in 1 .. n : texts[i] = rows[order[i]].key  BY <1>4, <1>6
<1>12. \E o \in [DOMAIN texts -> places] :
         /\ \A i, j \in DOMAIN texts : o[i] = o[j] => i = j
         /\ \A p \in places : \E i \in DOMAIN texts : o[i] = p
         /\ \A i \in DOMAIN texts : texts[i] = rows[o[i]].key
  <2>1. order \in [DOMAIN texts -> places]  BY <1>10
  <2>2. \A i \in DOMAIN texts : texts[i] = rows[order[i]].key  BY <1>10, <1>11
  <2>3. \A i, j \in DOMAIN texts : order[i] = order[j] => i = j  BY <1>4, <1>10
  <2>4. \A p \in places : \E i \in DOMAIN texts : order[i] = p  BY <1>4, <1>10
  <2> QED BY <2>1, <2>2, <2>3, <2>4
<1>13. DOMAIN texts = 1 .. Len(texts)  BY <1>9, <1>10
<1>14. KeysAt(rows, places, texts)
  BY <1>1, <1>3, <1>9, <1>12, <1>13 DEF KeysAt, n
<1> QED BY <1>14 DEF places, texts

\* The rows that are left of the keys B.
Left(r, B) ==
    {row \in {RowFor(r, key) : key \in {k \in B : Wanted(r, k)}} :
        r.token = NoToken \/ Position[row.key] > Position[r.token.at]}

LEMMA RowsLeftOf ==
    ASSUME NEW r \in RequestType, Admissible(r)
    PROVE  RowsLeft(Sent(r)) = InOrder(Left(r, bucket))
BY SentRequest DEF RowsLeft, Left, Wanted, RowFor

LEMMA RowOfLeft ==
    ASSUME NEW r \in RequestType, Admissible(r), NEW B \in SUBSET Keys,
           NEW row \in Left(r, B)
    PROVE  /\ row \in RowType
           /\ \E key \in Keys : Wanted(r, key) /\ RowFor(r, key) = row
           /\ r.token = NoToken \/ Position[row.key] > Position[r.token.at]
<1>1. PICK key \in B : Wanted(r, key) /\ row = RowFor(r, key)  BY DEF Left
<1>2. key \in Keys  OBVIOUS
<1> QED BY <1>1, <1>2, WantedRow DEF Left

LEMMA LeftIsFinite ==
    ASSUME NEW r \in RequestType, Admissible(r), NEW B \in SUBSET Keys
    PROVE  IsFiniteSet(Left(r, B))
<1> DEFINE f == [key \in Keys |-> RowFor(r, key)]
           R == {RowFor(r, key) : key \in Keys}
<1>1. f \in Surjection(Keys, R)  BY DEF Surjection
<1>2. IsFiniteSet(R)  BY <1>1, FS_Surjection, BucketAssumption
<1>3. Left(r, B) \subseteq R  BY DEF Left
<1> QED BY <1>2, <1>3, FS_Subset

\* The rows stand in the order of their keys, each one once.
LEMMA RowsInOrder ==
    ASSUME NEW r \in RequestType, Admissible(r), NEW B \in SUBSET Keys,
           NEW rows, rows = InOrder(Left(r, B))
    PROVE  /\ rows \in Seq(Left(r, B))
           /\ \A i, j \in 1 .. Len(rows) :
                 i < j => Position[rows[i].key] < Position[rows[j].key]
           /\ \A row \in Left(r, B) : \E i \in 1 .. Len(rows) : rows[i] = row
<1> DEFINE R      == Left(r, B)
           n      == Cardinality(R)
<1>1. IsFiniteSet(R)  BY LeftIsFinite
<1>2. PICK number : number = [row \in R |-> Position[row.key]]  OBVIOUS
<1>3. \A row \in R : row.key \in Beginnings  BY RowOfLeft DEF RowType
<1>4. \A row \in R : number[row] = Position[row.key] /\ number[row] \in Nat
  BY <1>2, <1>3, Positions
<1>5. number \in [R -> Nat]  BY <1>2, <1>4
<1>6. ASSUME NEW x \in R, NEW y \in R, number[x] = number[y] PROVE x = y
  <2>1. x.key = y.key  BY <1>3, <1>4, <1>6, Positions
  <2>2. PICK k \in Keys : Wanted(r, k) /\ RowFor(r, k) = x  BY RowOfLeft
  <2>3. PICK m \in Keys : Wanted(r, m) /\ RowFor(r, m) = y  BY RowOfLeft
  <2> QED BY <2>1, <2>2, <2>3, WantedRowOfKey
<1>7. OrdersAll(R, number)  BY <1>1, <1>5, <1>6, OrderedSet
<1>8. rows = Ordered(R, number)  BY <1>2 DEF InOrder
<1>9. /\ n \in Nat /\ rows \in [1 .. n -> R]
      /\ \A i, j \in 1 .. n : i < j => number[rows[i]] < number[rows[j]]
      /\ \A x \in R : \E i \in 1 .. n : rows[i] = x
  BY <1>7, <1>8 DEF OrdersAll
<1> HIDE DEF R, n
<1>10. rows \in Seq(R) /\ Len(rows) = n  BY <1>9, FunctionIsSeq
<1>11. \A i \in 1 .. n : rows[i] \in R  BY <1>9
<1> QED BY <1>4, <1>9, <1>10, <1>11 DEF R

\* The beginning of a page's rows.
LEMMA FirstRows ==
    ASSUME NEW T, NEW rows \in Seq(T), NEW n \in 0 .. Len(rows)
    PROVE  /\ SubSeq(rows, 1, n) \in Seq(T) /\ Len(SubSeq(rows, 1, n)) = n
           /\ DOMAIN SubSeq(rows, 1, n) = 1 .. n
           /\ \A i \in 1 .. n : SubSeq(rows, 1, n)[i] = rows[i]
<1>1. n \in Nat /\ Len(rows) \in Nat  OBVIOUS
<1>2. \A i \in 1 .. n : rows[i] \in T  BY <1>1, ElementOfSeq
<1>3. /\ SubSeq(rows, 1, n) \in Seq(T)
      /\ Len(SubSeq(rows, 1, n)) = IF 1 <= n THEN n - 1 + 1 ELSE 0
      /\ \A i \in 1 .. n - 1 + 1 : SubSeq(rows, 1, n)[i] = rows[1 + i - 1]
  BY <1>1, <1>2, SubSeqProperties
<1>4. Len(SubSeq(rows, 1, n)) = n  BY <1>1, <1>3
<1> QED BY <1>1, <1>3, <1>4

\* A page of a server is a page, however its rows came about.
LEMMA HonestPageType ==
    ASSUME NEW r \in RequestType, Admissible(r), NEW B \in SUBSET Keys,
           NEW rows \in Seq(Left(r, B)), NEW n \in 0 .. Len(rows), n = 0 => rows = <<>>
    PROVE  HonestPage(rows, n) \in PageType
<1> DEFINE page == SubSeq(rows, 1, n)
           T    == Left(r, B)
<1>1. T \in SUBSET RowType  BY RowOfLeft
<1>2. page \in Seq(T)  BY FirstRows
<1>3. OfKind(page, "object") \in Names /\ OfKind(page, "prefix") \in Names
  BY <1>1, <1>2, RowsOfKind DEF KeysAt
<1>4. NoToken \in Tokens  BY EmptySeq DEF NoToken, Token, Tokens, Texts
<1>5. n < Len(rows) => Token("issued", rows[n].key) \in Tokens
  <2>1. SUFFICES ASSUME n < Len(rows) PROVE rows[n].key \in Texts
    BY DEF Token, Tokens
  <2>2. Len(rows) \in Nat /\ n \in Nat  OBVIOUS
  <2>3. n # 0
    <3>1. n = 0 => Len(rows) = 0  BY EmptySeq
    <3> QED BY <2>1, <2>2, <3>1
  <2>4. n \in 1 .. Len(rows)  BY <2>2, <2>3
  <2>5. rows[n] \in T  BY <2>4, ElementOfSeq
  <2> QED BY <1>1, <2>5, BeginningsOfKeys DEF RowType
<1> QED BY <1>3, <1>4, <1>5 DEF HonestPage, Page, PageType

\* What the consumer's tokens can be, before and during a listing.
TokenOK(token) ==
    \/ token = NoToken \/ token.kind \in {"malformed", "forged"}
    \/ token.kind = "issued" /\ token.at \in Beginnings

LEMMA Sides ==
    ASSUME NEW n \in Nat, NEW O, NEW P, O \cup P = 1 .. n, O \cap P = {}
    PROVE  Cardinality(O) + Cardinality(P) = n
<1>1. IsFiniteSet(1 .. n) /\ Cardinality(1 .. n) = n  BY FS_Interval
<1>2. O \subseteq 1 .. n /\ P \subseteq 1 .. n  OBVIOUS
<1>3. IsFiniteSet(O) /\ IsFiniteSet(P)  BY <1>1, <1>2, FS_Subset
<1>4. Cardinality(O \cup P) = Cardinality(O) + Cardinality(P) - Cardinality(O \cap P)
  BY <1>3, FS_Union
<1>5. Cardinality(O \cap P) = 0  BY FS_EmptySet
<1>6. Cardinality(O) \in Nat /\ Cardinality(P) \in Nat  BY <1>3, FS_CardinalityType
<1>7. Cardinality(O \cup P) = n  BY <1>1
<1>8. PICK o, p \in Nat : o = Cardinality(O) /\ p = Cardinality(P)  BY <1>6
<1>9. n = o + p - 0  BY <1>4, <1>5, <1>7, <1>8
<1>10. o + p = n  BY <1>8, <1>9
<1> QED BY <1>8, <1>10

\* An honest server returns each row once, in order, from the token on, and
\* none but those; what it leaves out lies beyond the token it gives.
LEMMA HonestServe ==
    ASSUME NEW r \in RequestType, Admissible(r), NEW B \in SUBSET Keys, NEW S \in SUBSET B,
           r.token.kind \in {"none", "issued"}, TokenOK(r.token),
           NEW rows, rows = InOrder(Left(r, B)),
           NEW n \in 0 .. Len(rows), n <= Sent(r).max, n = 0 => rows = <<>>
    PROVE  HonestTo(r, HonestPage(rows, n), S)
<1> DEFINE T    == Left(r, B)
           m    == Len(rows)
           page == SubSeq(rows, 1, n)
           more == n < Len(rows)
           ans  == HonestPage(rows, n)
           O    == {i \in DOMAIN page : page[i].kind = "object"}
           P    == {i \in DOMAIN page : page[i].kind = "prefix"}
           objs == OfKind(page, "object")
           pres == OfKind(page, "prefix")
<1>1. /\ rows \in Seq(T) /\ m \in Nat /\ n \in Nat /\ n <= m
      /\ \A i, j \in 1 .. m : i < j => Position[rows[i].key] < Position[rows[j].key]
      /\ \A row \in T : \E i \in 1 .. m : rows[i] = row
  BY RowsInOrder
<1>2. /\ page \in Seq(T) /\ Len(page) = n /\ DOMAIN page = 1 .. n
      /\ \A i \in 1 .. n : page[i] = rows[i]
  BY <1>1, FirstRows
<1>3. /\ ans.objects = objs /\ ans.prefixes = pres
      /\ ans.flag = IF more THEN "yes" ELSE "no"
      /\ ans.token = IF more THEN Token("issued", rows[n].key) ELSE NoToken
  BY DEF HonestPage, Page
<1>4. ASSUME NEW i \in 1 .. m
      PROVE  /\ rows[i] \in T /\ rows[i] \in RowType /\ rows[i].key \in Beginnings
             /\ Position[rows[i].key] \in Nat
             /\ \E key \in Keys : Wanted(r, key) /\ RowFor(r, key) = rows[i]
             /\ ~Past(r.token, rows[i].key)
  <2>1. rows[i] \in T  BY <1>1, ElementOfSeq
  <2>2. rows[i] \in RowType /\ \E key \in Keys : Wanted(r, key) /\ RowFor(r, key) = rows[i]
    BY <2>1, RowOfLeft
  <2>3. rows[i].key \in Beginnings  BY <2>2 DEF RowType
  <2>4. Position[rows[i].key] \in Nat  BY <2>3, Positions
  <2>5. r.token = NoToken \/ Position[rows[i].key] > Position[r.token.at]
    BY <2>1, RowOfLeft
  <2>6. r.token.kind = "issued" => r.token.at \in Beginnings
    BY DEF TokenOK, NoToken, Token
  <2>7. ~Past(r.token, rows[i].key)
    <3>1. SUFFICES ASSUME r.token.kind = "issued"
                   PROVE  ~(Position[rows[i].key] <= Position[r.token.at])
      BY DEF Past
    <3>2. Position[r.token.at] \in Nat  BY <2>6, <3>1, Positions
    <3>3. r.token # NoToken  BY <3>1 DEF NoToken, Token
    <3> QED BY <2>4, <2>5, <3>2, <3>3
  <2> QED BY <2>1, <2>2, <2>3, <2>4, <2>7
<1>5. ASSUME NEW i \in 1 .. m, NEW j \in 1 .. m, rows[i].key = rows[j].key PROVE i = j
  <2>1. Position[rows[i].key] \in Nat /\ Position[rows[i].key] = Position[rows[j].key]
    BY <1>4, <1>5
  <2>2. ~(i < j) /\ ~(j < i)  BY <1>1, <2>1
  <2> QED BY <1>1, <2>2
<1>6. ASSUME more PROVE n \in 1 .. m
  <2>1. n # 0
    <3>1. n = 0 => m = 0  BY EmptySeq
    <3> QED BY <1>1, <1>6, <3>1
  <2> QED BY <1>1, <2>1
<1>7. ASSUME more, NEW i \in 1 .. m
      PROVE  Past(ans.token, rows[i].key) <=> i <= n
  <2>1. n \in 1 .. m /\ ans.token = Token("issued", rows[n].key)  BY <1>3, <1>6, <1>7
  <2>2. Past(ans.token, rows[i].key) <=> Position[rows[i].key] <= Position[rows[n].key]
    BY <2>1 DEF Past, Token
  <2>3. Position[rows[i].key] \in Nat /\ Position[rows[n].key] \in Nat  BY <1>4, <2>1
  <2>4. i < n => Position[rows[i].key] < Position[rows[n].key]  BY <1>1, <2>1
  <2>5. n < i => Position[rows[n].key] < Position[rows[i].key]  BY <1>1, <2>1
  <2> QED BY <1>1, <2>1, <2>2, <2>3, <2>4, <2>5
<1> HIDE DEF T, page, ans, O, P, objs, pres
<1>8. T \in SUBSET RowType  BY RowOfLeft DEF T
<1>9. KeysAt(page, O, objs)  BY <1>2, <1>8, RowsOfKind DEF O, objs
<1>10. KeysAt(page, P, pres)  BY <1>2, <1>8, RowsOfKind DEF P, pres
<1>11. ASSUME NEW i \in 1 .. n
       PROVE  /\ i \in 1 .. m /\ page[i] = rows[i]
              /\ i \in O <=> rows[i].kind = "object"
              /\ i \in P <=> rows[i].kind = "prefix"
              /\ RowOnPage(r, ans, rows[i].kind, rows[i].key)
  <2>1. i \in 1 .. m /\ page[i] = rows[i]  BY <1>1, <1>2
  <2>2. ans.flag = "yes" => Past(ans.token, rows[i].key)
    <3>1. ans.flag = "yes" => more  BY <1>3
    <3> QED BY <1>7, <2>1, <3>1
  <2>3. rows[i] = [kind |-> rows[i].kind, key |-> rows[i].key]
    BY <1>4, <2>1 DEF RowType
  <2> QED BY <1>2, <1>4, <2>1, <2>2, <2>3 DEF RowOnPage, O, P
<1>12. /\ \A i \in DOMAIN objs : RowOnPage(r, ans, "object", objs[i])
       /\ \A i, j \in DOMAIN objs : objs[i] = objs[j] => i = j
  <2>1. PICK order \in [DOMAIN objs -> O] :
            /\ \A i, j \in DOMAIN objs : order[i] = order[j] => i = j
            /\ \A i \in DOMAIN objs : objs[i] = page[order[i]].key
    BY <1>9 DEF KeysAt
  <2>2. \A i \in DOMAIN objs : /\ order[i] \in 1 .. m /\ order[i] \in 1 .. n
                               /\ order[i] \in O /\ objs[i] = rows[order[i]].key
    BY <1>2, <1>9, <1>11, <2>1 DEF KeysAt
  <2> QED BY <1>5, <1>11, <2>1, <2>2
<1>13. /\ \A i \in DOMAIN pres : RowOnPage(r, ans, "prefix", pres[i])
       /\ \A i, j \in DOMAIN pres : pres[i] = pres[j] => i = j
  <2>1. PICK order \in [DOMAIN pres -> P] :
            /\ \A i, j \in DOMAIN pres : order[i] = order[j] => i = j
            /\ \A i \in DOMAIN pres : pres[i] = page[order[i]].key
    BY <1>10 DEF KeysAt
  <2>2. \A i \in DOMAIN pres : /\ order[i] \in 1 .. m /\ order[i] \in 1 .. n
                               /\ order[i] \in P /\ pres[i] = rows[order[i]].key
    BY <1>2, <1>10, <1>11, <2>1 DEF KeysAt
  <2> QED BY <1>5, <1>11, <2>1, <2>2
<1>14. Len(objs) + Len(pres) <= PageBound(r)
  <2>1. \A i \in 1 .. n : page[i].kind \in {"object", "prefix"}
    BY <1>4, <1>11 DEF RowType
  <2>2. Cardinality(O) + Cardinality(P) = n
    <3>1. O \cup P = 1 .. n /\ O \cap P = {}  BY <1>2, <2>1 DEF O, P
    <3> QED BY <1>1, <3>1, Sides
  <2>3. Sent(r).max = PageBound(r)  BY SentRequest
  <2> QED BY <1>9, <1>10, <2>2, <2>3 DEF KeysAt
<1>15. \/ /\ ans.flag = "yes" /\ ans.token.kind = "issued"
          /\ ans.token.at \in Beginnings /\ ~Past(r.token, ans.token.at)
       \/ ans.flag = "no" /\ ans.token = NoToken
  <2>1. CASE more
    <3>1. n \in 1 .. m /\ ans.token = Token("issued", rows[n].key) /\ ans.flag = "yes"
      BY <1>3, <1>6, <2>1
    <3> QED BY <1>4, <3>1 DEF Token
  <2>2. CASE ~more  BY <1>3, <2>2
  <2> QED BY <2>1, <2>2
<1>16. ASSUME NEW key \in S, Wanted(r, key), ~Past(r.token, RowFor(r, key).key),
              ans.flag = "yes" => Past(ans.token, RowFor(r, key).key)
       PROVE  HoldsRow(ans, RowFor(r, key))
  <2> DEFINE row == RowFor(r, key)
  <2>1. key \in Keys /\ key \in B  OBVIOUS
  <2>2. row \in RowType  BY <1>16, <2>1, WantedRow
  <2>3. r.token = NoToken \/ Position[row.key] > Position[r.token.at]
    <3>1. CASE r.token.kind = "issued"
      <4>1. r.token.at \in Beginnings /\ row.key \in Beginnings
        BY <2>2, <3>1 DEF TokenOK, NoToken, Token, RowType
      <4>2. Position[r.token.at] \in Nat /\ Position[row.key] \in Nat
        BY <4>1, Positions
      <4> QED BY <1>16, <3>1, <4>2 DEF Past
    <3>2. CASE r.token.kind = "none"  BY <3>2 DEF TokenOK
    <3> QED BY <3>1, <3>2
  <2>4. row \in T  BY <1>16, <2>1, <2>3 DEF T, Left
  <2>5. PICK i \in 1 .. m : rows[i] = row  BY <1>1, <2>4
  <2>6. i \in 1 .. n
    <3>1. CASE more  BY <1>3, <1>1, <1>7, <1>16, <2>5, <3>1
    <3>2. CASE ~more  BY <1>1, <2>5, <3>2
    <3> QED BY <3>1, <3>2
  <2>7. row.kind \in {"object", "prefix"}  BY <2>2 DEF RowType
  <2>8. CASE row.kind = "object"
    <3>1. i \in O /\ page[i].key = row.key  BY <1>11, <2>5, <2>6, <2>8
    <3>2. \E j \in DOMAIN objs : objs[j] = row.key  BY <1>9, <3>1 DEF KeysAt
    <3> QED BY <1>3, <2>8, <3>2 DEF HoldsRow
  <2>9. CASE row.kind = "prefix"
    <3>1. i \in P /\ page[i].key = row.key  BY <1>11, <2>5, <2>6, <2>9
    <3>2. \E j \in DOMAIN pres : pres[j] = row.key  BY <1>10, <3>1 DEF KeysAt
    <3> QED BY <1>3, <2>9, <3>2 DEF HoldsRow
  <2> QED BY <2>7, <2>8, <2>9
<1>17. HonestTo(r, ans, S)
  BY <1>3, <1>12, <1>13, <1>14, <1>15, <1>16 DEF HonestTo
<1> QED BY <1>17 DEF ans

-----------------------------------------------------------------------------
(* What the provider makes of an honest page. *)

\* A text that begins with what was sent lies inside the request.
LEMMA InsideRow ==
    ASSUME NEW r \in RequestType, Admissible(r), NEW text \in Texts,
           IsPrefix(Sent(r).prefix, text)
    PROVE  Inside(text, r)
<1> DEFINE bound == Boundary(Root)
           path  == StripRoot(Root, text)
<1>1. /\ bound \in Seq(Characters) /\ r.prefix \in Seq(Characters)
      /\ text \in Seq(Characters) /\ Root \in Seq(Characters) /\ Slash \in Characters
  BY BoundaryText, BucketAssumption DEF RequestType, Texts
<1>2. Sent(r).prefix = bound \o r.prefix  BY SentRequest
<1> HIDE DEF bound, path
<1>3. Len(bound) \in Nat /\ Len(r.prefix) \in Nat /\ Len(text) \in Nat  BY <1>1
<1>4. /\ bound \o r.prefix \in Seq(Characters)
      /\ Len(bound \o r.prefix) = Len(bound) + Len(r.prefix)
      /\ \A i \in 1 .. Len(bound) + Len(r.prefix) : (bound \o r.prefix)[i] =
            IF i <= Len(bound) THEN bound[i] ELSE r.prefix[i - Len(bound)]
  BY <1>1, ConcatProperties
<1>5. /\ Len(bound) + Len(r.prefix) <= Len(text)
      /\ \A i \in 1 .. Len(bound) + Len(r.prefix) : (bound \o r.prefix)[i] = text[i]
  <2>1. PICK joined : joined = bound \o r.prefix  OBVIOUS
  <2>2. joined \in Seq(Characters) /\ Len(joined) = Len(bound) + Len(r.prefix)
    BY <1>4, <2>1
  <2>3. IsPrefix(joined, text)  BY <1>2, <2>1
  <2>4. Len(joined) <= Len(text) /\ \A i \in 1 .. Len(joined) : joined[i] = text[i]
    BY <1>1, <2>2, <2>3, PrefixOf
  <2> QED BY <2>1, <2>2, <2>4
<1>6. IsPrefix(bound, text)
  <2>1. Len(bound) <= Len(text)  BY <1>3, <1>5
  <2>2. \A i \in 1 .. Len(bound) : bound[i] = text[i]  BY <1>3, <1>4, <1>5
  <2> QED BY <1>1, <2>1, <2>2, PrefixOf
<1>7. Under(Root, text)  BY <1>6 DEF Under, bound
<1>8. path \in Seq(Characters) /\ Len(path) = Len(text) - Len(bound)
  BY <1>1, <1>7, StripThenRoot DEF path, bound
<1>9. \A k \in 1 .. Len(text) - Len(bound) : path[k] = text[Len(bound) + k]
  <2>1. Len(bound) + 1 \in 1 .. Len(text) + 1  BY <1>3, <1>5
  <2>2. path = From(text, Len(bound) + 1)  BY DEF path, StripRoot, bound
  <2>3. \A k \in 1 .. Len(text) + 1 - (Len(bound) + 1) :
           path[k] = text[Len(bound) + 1 + k - 1]
    BY <1>1, <2>1, <2>2, FromText
  <2> QED BY <1>3, <2>3
<1>10. IsPrefix(r.prefix, path)
  <2>1. Len(r.prefix) <= Len(path)  BY <1>3, <1>5, <1>8
  <2>2. ASSUME NEW k \in 1 .. Len(r.prefix) PROVE r.prefix[k] = path[k]
    <3>1. /\ Len(bound) + k \in 1 .. Len(bound) + Len(r.prefix)
          /\ ~(Len(bound) + k <= Len(bound)) /\ Len(bound) + k - Len(bound) = k
          /\ k \in 1 .. Len(text) - Len(bound)
      BY <1>3, <1>5
    <3>2. (bound \o r.prefix)[Len(bound) + k] = r.prefix[k]  BY <1>4, <3>1
    <3> QED BY <1>5, <1>9, <3>1, <3>2
  <2> QED BY <1>1, <1>8, <2>1, <2>2, PrefixOf
<1> QED BY <1>7, <1>10 DEF Inside, path

\* And the other way around: what is inside the request is wanted.
LEMMA InsideIsWanted ==
    ASSUME NEW r \in RequestType, Admissible(r), NEW key \in Texts, Inside(key, r)
    PROVE  Wanted(r, key)
<1>1. /\ r.prefix \in Seq(Characters) /\ key \in Seq(Characters)
      /\ Root \in Seq(Characters) /\ Slash \in Characters
  BY BucketAssumption DEF RequestType, Texts
<1>2. Under(Root, key) /\ IsPrefix(r.prefix, StripRoot(Root, key))  BY DEF Inside
<1>3. StripRoot(Root, key) \in Seq(Characters) /\ Rooted(Root, StripRoot(Root, key)) = key
  BY <1>1, <1>2, StripThenRoot
<1>4. IsPrefix(Boundary(Root) \o r.prefix, Rooted(Root, StripRoot(Root, key)))
  BY <1>1, <1>2, <1>3, PrefixBelowRoot
<1> QED BY <1>3, <1>4, SentRequest DEF Wanted

\* A row on a page is inside the request.
LEMMA RowInside ==
    ASSUME NEW r \in RequestType, Admissible(r), NEW page, NEW kind, NEW text,
           RowOnPage(r, page, kind, text)
    PROVE  /\ text \in Texts /\ text # Missing /\ Inside(text, r)
           /\ kind = "prefix" => r.grouped /\ text # Boundary(Root)
<1>1. PICK key \in Keys : Wanted(r, key) /\ RowFor(r, key) = [kind |-> kind, key |-> text]
  BY DEF RowOnPage
<1>2. /\ RowFor(r, key) \in RowType /\ IsPrefix(Sent(r).prefix, text)
      /\ kind = "prefix" => r.grouped /\ Len(text) > Len(Sent(r).prefix)
  BY <1>1, WantedRow
<1>3. text \in Texts /\ text # Missing
  BY <1>1, <1>2, BeginningsOfKeys, BucketAssumption DEF RowType
<1>4. kind = "prefix" => text # Boundary(Root)
  <2>1. /\ Boundary(Root) \in Seq(Characters) /\ r.prefix \in Seq(Characters)
        /\ text \in Seq(Characters)
    BY <1>3, BoundaryText, BucketAssumption DEF RequestType, Texts
  <2>2. Len(Sent(r).prefix) = Len(Boundary(Root)) + Len(r.prefix)
    <3>1. Len(Boundary(Root) \o r.prefix) = Len(Boundary(Root)) + Len(r.prefix)
      BY <2>1, ConcatProperties
    <3> QED BY <3>1, SentRequest
  <2>3. PICK b, p, n \in Nat :
           b = Len(Boundary(Root)) /\ p = Len(r.prefix) /\ n = Len(text)
    BY <2>1
  <2>4. kind = "prefix" => n > b + p  BY <1>2, <2>2, <2>3
  <2>5. kind = "prefix" => n # b  BY <2>3, <2>4
  <2> QED BY <2>3, <2>5
<1> QED BY <1>2, <1>3, <1>4, InsideRow

\* An object on a page is no group on it.
LEMMA RowsApart ==
    ASSUME NEW r \in RequestType, Admissible(r), NEW page, NEW text,
           RowOnPage(r, page, "object", text), RowOnPage(r, page, "prefix", text)
    PROVE  FALSE
<1>1. PICK k \in Keys : Wanted(r, k) /\ RowFor(r, k) = [kind |-> "object", key |-> text]
  BY DEF RowOnPage
<1>2. PICK m \in Keys : Wanted(r, m) /\ RowFor(r, m) = [kind |-> "prefix", key |-> text]
  BY DEF RowOnPage
<1>3. RowFor(r, k) = RowFor(r, m)  BY <1>1, <1>2, WantedRowOfKey
<1> QED BY <1>1, <1>2, <1>3

LEMMA HonestResult ==
    ASSUME NEW r \in RequestType, Admissible(r), NEW page \in PageType, NEW S,
           HonestTo(r, page, S)
    PROVE  Result(r, page) =
             Listed(Paths(page.objects), Paths(page.prefixes), page.flag = "yes", page.token)
<1>1. /\ page.code = "ok" /\ page.objects \in Names /\ page.prefixes \in Names
  BY DEF PageType
<1>2. /\ \A i \in DOMAIN page.objects : RowOnPage(r, page, "object", page.objects[i])
      /\ \A i \in DOMAIN page.prefixes : RowOnPage(r, page, "prefix", page.prefixes[i])
  BY DEF HonestTo
<1>3. \A i \in DOMAIN page.objects : page.objects[i] # Missing /\ Inside(page.objects[i], r)
  BY <1>2, RowInside
<1>4. CASE r.grouped
  <2>1. page.flag # "missing" /\ (page.flag = "yes") = (page.token.kind # "none")
        /\ page.token.kind # "malformed"
    BY DEF HonestTo, NoToken, Token
  <2>2. Len(page.objects) + Len(page.prefixes) <= PageBound(r)  BY DEF HonestTo
  <2>3. \A i \in DOMAIN page.prefixes :
          /\ page.prefixes[i] # Missing /\ Inside(page.prefixes[i], r)
          /\ page.prefixes[i] # Boundary(Root)
          /\ \A j \in DOMAIN page.objects : page.objects[j] # page.prefixes[i]
    BY <1>2, RowInside, RowsApart
  <2>4. ValidGroupedPage(r, page)  BY <1>3, <2>1, <2>2, <2>3 DEF ValidGroupedPage
  <2> QED BY <1>1, <1>4, <2>4 DEF Result, GroupedResult
<1>5. CASE ~r.grouped
  <2>1. ValidPage(page)  BY <1>3 DEF ValidPage, Inside
  <2>2. page.prefixes = <<>>
    <3>1. DOMAIN page.prefixes = {}  BY <1>2, <1>5, RowInside
    <3>2. PICK n \in Nat : n = Len(page.prefixes) /\ DOMAIN page.prefixes = 1 .. n
      BY <1>1 DEF Names
    <3>3. n = 0
      <4>1. 1 \notin 1 .. n  BY <3>1, <3>2
      <4> QED BY <4>1
    <3> QED BY <1>1, <3>2, <3>3, EmptySeq DEF Names
  <2>3. Paths(page.prefixes) = <<>>  BY <2>2 DEF Paths
  <2>4. {i \in DOMAIN page.objects : page.objects[i] # Missing} = 1 .. Len(page.objects)
    BY <1>1, <1>3 DEF Names
  <2>5. Picked(page.objects, 1 .. Len(page.objects)) = page.objects
    BY <1>1, PickedAll DEF Names
  <2>6. PlainResult(page) =
          Listed(Paths(Picked(page.objects, {i \in DOMAIN page.objects :
                                                page.objects[i] # Missing})),
                 <<>>, page.flag = "yes", page.token)
    BY <2>1 DEF PlainResult
  <2> QED BY <1>1, <1>5, <2>3, <2>4, <2>5, <2>6 DEF Result
<1> QED BY <1>4, <1>5

-----------------------------------------------------------------------------
(* What a page adds to the listing. *)

TagType == [kind : {"object", "prefix"}, path : Texts]

\* How a key's row appears in the listing.
TagOf(r, key) ==
    [kind |-> RowFor(r, key).kind, path |-> StripRoot(Root, RowFor(r, key).key)]

Distinct(tags)   == \A i, j \in DOMAIN tags : tags[i].path = tags[j].path => i = j
Holds(tags, tag) == \E i \in DOMAIN tags : tags[i] = tag

LEMMA Appended ==
    ASSUME NEW T, NEW s \in Seq(T), NEW t \in Seq(T)
    PROVE  /\ s \o t \in Seq(T)
           /\ \A x : Holds(s \o t, x) <=> Holds(s, x) \/ Holds(t, x)
           /\ \A i \in DOMAIN (s \o t) :
                 Holds(s, (s \o t)[i]) \/ Holds(t, (s \o t)[i])
<1>1. PICK m, n \in Nat : m = Len(s) /\ n = Len(t)  OBVIOUS
<1>2. PICK u : u = s \o t  OBVIOUS
<1>3. /\ u \in Seq(T) /\ Len(u) = m + n
      /\ \A i \in 1 .. m + n : u[i] = IF i <= m THEN s[i] ELSE t[i - m]
  BY <1>1, <1>2, ConcatProperties
<1>4. DOMAIN s = 1 .. m /\ DOMAIN t = 1 .. n /\ DOMAIN u = 1 .. m + n
  BY <1>1, <1>3
<1>5. ASSUME NEW i \in DOMAIN u PROVE Holds(s, u[i]) \/ Holds(t, u[i])
  <2>1. CASE i <= m  BY <1>3, <1>4, <2>1 DEF Holds
  <2>2. CASE ~(i <= m)
    <3>1. i - m \in DOMAIN t  BY <1>4, <2>2
    <3> QED BY <1>3, <1>4, <2>2, <3>1 DEF Holds
  <2> QED BY <2>1, <2>2
<1>6. ASSUME NEW x, Holds(s, x) PROVE Holds(u, x)
  <2>1. PICK i \in DOMAIN s : s[i] = x  BY <1>6 DEF Holds
  <2>2. i \in DOMAIN u /\ u[i] = s[i]  BY <1>3, <1>4
  <2> QED BY <2>1, <2>2 DEF Holds
<1>7. ASSUME NEW x, Holds(t, x) PROVE Holds(u, x)
  <2>1. PICK i \in DOMAIN t : t[i] = x  BY <1>7 DEF Holds
  <2>2. m + i \in DOMAIN u /\ ~(m + i <= m) /\ m + i - m = i  BY <1>4
  <2>3. u[m + i] = t[i]  BY <1>3, <1>4, <2>2
  <2> QED BY <2>1, <2>2, <2>3 DEF Holds
<1>8. \A x : Holds(u, x) <=> Holds(s, x) \/ Holds(t, x)
  <2>1. ASSUME NEW x, Holds(u, x) PROVE Holds(s, x) \/ Holds(t, x)
    <3>1. PICK i \in DOMAIN u : u[i] = x  BY <2>1 DEF Holds
    <3> QED BY <1>5, <3>1
  <2> QED BY <1>6, <1>7, <2>1
<1> QED BY <1>2, <1>3, <1>5, <1>8

LEMMA AppendedDistinct ==
    ASSUME NEW T, NEW s \in Seq(T), NEW t \in Seq(T), Distinct(s), Distinct(t),
           \A i \in DOMAIN s, j \in DOMAIN t : s[i].path # t[j].path
    PROVE  Distinct(s \o t)
<1>1. PICK m, n \in Nat : m = Len(s) /\ n = Len(t)  OBVIOUS
<1>2. PICK u : u = s \o t  OBVIOUS
<1>3. /\ u \in Seq(T) /\ Len(u) = m + n
      /\ \A i \in 1 .. m + n : u[i] = IF i <= m THEN s[i] ELSE t[i - m]
  BY <1>1, <1>2, ConcatProperties
<1>4. DOMAIN s = 1 .. m /\ DOMAIN t = 1 .. n /\ DOMAIN u = 1 .. m + n
  BY <1>1, <1>3
<1>5. \A i \in DOMAIN u :
         \/ i <= m /\ i \in DOMAIN s /\ u[i] = s[i]
         \/ i > m /\ i - m \in DOMAIN t /\ u[i] = t[i - m]
  BY <1>3, <1>4
<1>6. ASSUME NEW i \in DOMAIN u, NEW j \in DOMAIN u, u[i].path = u[j].path
      PROVE  i = j
  <2>1. CASE i <= m /\ j <= m  BY <1>4, <1>5, <1>6, <2>1 DEF Distinct
  <2>2. CASE i > m /\ j > m
    <3>1. i - m = j - m  BY <1>4, <1>5, <1>6, <2>2 DEF Distinct
    <3> QED BY <1>4, <3>1
  <2>3. CASE i <= m /\ j > m  BY <1>4, <1>5, <1>6, <2>3
  <2>4. CASE i > m /\ j <= m  BY <1>4, <1>5, <1>6, <2>4
  <2> QED BY <1>4, <2>1, <2>2, <2>3, <2>4
<1> QED BY <1>2, <1>6 DEF Distinct

\* Rows with one path are one row.
LEMMA TagOfKey ==
    ASSUME NEW r \in RequestType, Admissible(r), NEW k \in Keys, Wanted(r, k)
    PROVE  TagOf(r, k) \in TagType /\ Rooted(Root, TagOf(r, k).path) = RowFor(r, k).key
<1>1. RowFor(r, k) \in RowType /\ IsPrefix(Sent(r).prefix, RowFor(r, k).key)
  BY WantedRow
<1>2. RowFor(r, k).key \in Texts  BY <1>1, BeginningsOfKeys DEF RowType
<1>3. Under(Root, RowFor(r, k).key)  BY <1>1, <1>2, InsideRow DEF Inside
<1>4. /\ StripRoot(Root, RowFor(r, k).key) \in Seq(Characters)
      /\ Rooted(Root, StripRoot(Root, RowFor(r, k).key)) = RowFor(r, k).key
  BY <1>2, <1>3, StripThenRoot, BucketAssumption DEF Texts
<1> QED BY <1>1, <1>4 DEF TagOf, TagType, RowType, Texts

LEMMA TagsApart ==
    ASSUME NEW r \in RequestType, Admissible(r), NEW k \in Keys, NEW m \in Keys,
           Wanted(r, k), Wanted(r, m), TagOf(r, k).path = TagOf(r, m).path
    PROVE  RowFor(r, k) = RowFor(r, m)
BY TagOfKey, WantedRowOfKey

\* The tags are those of the rows of one kind of an honest page, each once.
TagsOfSide(r, page, kind, texts, tags) ==
    /\ tags \in Seq(TagType) /\ Distinct(tags)
    /\ \A i \in DOMAIN tags : \E key \in Keys :
          /\ Wanted(r, key) /\ tags[i] = TagOf(r, key)
          /\ RowOnPage(r, page, kind, RowFor(r, key).key)
          /\ RowFor(r, key).kind = kind
    /\ \A key \in Keys :
          Wanted(r, key) /\ RowFor(r, key).kind = kind
            /\ (\E i \in DOMAIN texts : texts[i] = RowFor(r, key).key)
          => Holds(tags, TagOf(r, key))

LEMMA SideOfPage ==
    ASSUME NEW r \in RequestType, Admissible(r), NEW page, NEW kind, NEW texts \in Names,
           \A i \in DOMAIN texts : RowOnPage(r, page, kind, texts[i]),
           \A i, j \in DOMAIN texts : texts[i] = texts[j] => i = j
    PROVE  TagsOfSide(r, page, kind, texts, Tagged(kind, Paths(texts)))
<1> DEFINE tags == Tagged(kind, Paths(texts))
           n    == Len(texts)
<1>1. n \in Nat /\ DOMAIN texts = 1 .. n  BY DEF Names
<1>2. tags = [i \in 1 .. n |-> [kind |-> kind, path |-> StripRoot(Root, texts[i])]]
  BY <1>1 DEF Tagged, Paths
<1> HIDE DEF tags, n
<1>3. ASSUME NEW i \in 1 .. n
      PROVE  \E key \in Keys :
                /\ Wanted(r, key) /\ tags[i] = TagOf(r, key)
                /\ RowFor(r, key) = [kind |-> kind, key |-> texts[i]]
                /\ RowOnPage(r, page, kind, RowFor(r, key).key)
                /\ RowFor(r, key).kind = kind
  <2>1. RowOnPage(r, page, kind, texts[i])  BY <1>1, <1>3
  <2>2. PICK key \in Keys :
           Wanted(r, key) /\ RowFor(r, key) = [kind |-> kind, key |-> texts[i]]
    BY <2>1 DEF RowOnPage
  <2>3. tags[i] = TagOf(r, key)  BY <1>2, <2>2 DEF TagOf
  <2> QED BY <2>1, <2>2, <2>3
<1>4. \A i \in 1 .. n : tags[i] \in TagType  BY <1>3, TagOfKey
<1>5. tags \in [1 .. n -> TagType]  BY <1>2, <1>4
<1>6. tags \in Seq(TagType) /\ DOMAIN tags = 1 .. n  BY <1>1, <1>5, FunctionIsSeq
<1>7. ASSUME NEW i \in 1 .. n, NEW j \in 1 .. n, tags[i].path = tags[j].path
      PROVE  i = j
  <2>1. PICK k \in Keys : /\ Wanted(r, k) /\ tags[i] = TagOf(r, k)
                          /\ RowFor(r, k) = [kind |-> kind, key |-> texts[i]]
    BY <1>3
  <2>2. PICK m \in Keys : /\ Wanted(r, m) /\ tags[j] = TagOf(r, m)
                          /\ RowFor(r, m) = [kind |-> kind, key |-> texts[j]]
    BY <1>3
  <2>3. RowFor(r, k) = RowFor(r, m)  BY <1>7, <2>1, <2>2, TagsApart
  <2>4. texts[i] = texts[j]  BY <2>1, <2>2, <2>3
  <2> QED BY <1>1, <2>4
<1>8. ASSUME NEW key \in Keys, Wanted(r, key), RowFor(r, key).kind = kind,
             NEW i \in DOMAIN texts, texts[i] = RowFor(r, key).key
      PROVE  Holds(tags, TagOf(r, key))
  <2>1. tags[i] = TagOf(r, key)  BY <1>1, <1>2, <1>8 DEF TagOf
  <2> QED BY <1>1, <1>6, <2>1 DEF Holds
<1>9. Distinct(tags)  BY <1>6, <1>7 DEF Distinct
<1>10. \A i \in DOMAIN tags : \E key \in Keys :
          /\ Wanted(r, key) /\ tags[i] = TagOf(r, key)
          /\ RowOnPage(r, page, kind, RowFor(r, key).key)
          /\ RowFor(r, key).kind = kind
  BY <1>3, <1>6
<1>11. \A key \in Keys :
          Wanted(r, key) /\ RowFor(r, key).kind = kind
            /\ (\E i \in DOMAIN texts : texts[i] = RowFor(r, key).key)
          => Holds(tags, TagOf(r, key))
  BY <1>8
<1> QED BY <1>6, <1>9, <1>10, <1>11 DEF tags, TagsOfSide

\* The tags are of rows up to a token, if it is one that was issued.
UpTo(r, token, tags) ==
    \A i \in DOMAIN tags :
        \E key \in Keys : /\ Wanted(r, key) /\ tags[i] = TagOf(r, key)
                          /\ token.kind = "issued" => Past(token, RowFor(r, key).key)

\* The new tags are the old ones and those of the page.
GoesOn(r, page, old, new) ==
    /\ new \in Seq(TagType) /\ Distinct(new) /\ UpTo(r, page.token, new)
    /\ \A tag : Holds(old, tag) => Holds(new, tag)
    /\ \A key \in Keys :
          Wanted(r, key) /\ HoldsRow(page, RowFor(r, key)) => Holds(new, TagOf(r, key))

\* A page goes on where the listing stands: no row of it has been listed, and
\* it lists what it holds.
LEMMA PageAdds ==
    ASSUME NEW r \in RequestType, Admissible(r), TokenOK(r.token),
           NEW page \in PageType, NEW S, HonestTo(r, page, S),
           NEW old \in Seq(TagType), Distinct(old), UpTo(r, r.token, old),
           r.token.kind # "issued" => old = <<>>,
           NEW new, new = old \o Tagged("object", Paths(page.objects))
                              \o Tagged("prefix", Paths(page.prefixes))
    PROVE  GoesOn(r, page, old, new)
<1>1. page.objects \in Names /\ page.prefixes \in Names  BY DEF PageType
<1>2. PICK objs : objs = Tagged("object", Paths(page.objects))  OBVIOUS
<1>3. PICK pres : pres = Tagged("prefix", Paths(page.prefixes))  OBVIOUS
<1>4. PICK mid : mid = old \o objs  OBVIOUS
<1>5. TagsOfSide(r, page, "object", page.objects, objs)
  BY <1>1, <1>2, SideOfPage DEF HonestTo
<1>6. TagsOfSide(r, page, "prefix", page.prefixes, pres)
  BY <1>1, <1>3, SideOfPage DEF HonestTo
<1>7. objs \in Seq(TagType) /\ Distinct(objs) /\ pres \in Seq(TagType) /\ Distinct(pres)
  BY <1>5, <1>6 DEF TagsOfSide
<1>8. new = mid \o pres  BY <1>2, <1>3, <1>4
<1>9. /\ mid \in Seq(TagType)
      /\ \A x : Holds(mid, x) <=> Holds(old, x) \/ Holds(objs, x)
      /\ \A i \in DOMAIN mid : Holds(old, mid[i]) \/ Holds(objs, mid[i])
  BY <1>4, <1>7, Appended
<1>10. /\ new \in Seq(TagType)
       /\ \A x : Holds(new, x) <=> Holds(mid, x) \/ Holds(pres, x)
       /\ \A i \in DOMAIN new : Holds(mid, new[i]) \/ Holds(pres, new[i])
  <2>1. mid \in Seq(TagType) /\ pres \in Seq(TagType)  BY <1>7, <1>9
  <2>2. /\ mid \o pres \in Seq(TagType)
        /\ \A x : Holds(mid \o pres, x) <=> Holds(mid, x) \/ Holds(pres, x)
        /\ \A i \in DOMAIN (mid \o pres) :
              Holds(mid, (mid \o pres)[i]) \/ Holds(pres, (mid \o pres)[i])
    BY <2>1, Appended
  <2> QED BY <1>8, <2>2
<1> DEFINE Old(tag) == \E key \in Keys : /\ Wanted(r, key) /\ tag = TagOf(r, key)
                                         /\ Past(r.token, RowFor(r, key).key)
           New(tag, kind) == \E key \in Keys :
                                /\ Wanted(r, key) /\ tag = TagOf(r, key)
                                /\ RowOnPage(r, page, kind, RowFor(r, key).key)
                                /\ RowFor(r, key).kind = kind
<1>11. \A tag : Holds(old, tag) => Old(tag)
  <2>1. SUFFICES ASSUME NEW i \in DOMAIN old PROVE Old(old[i])
    BY DEF Holds
  <2>2. r.token.kind = "issued"  BY <2>1
  <2> QED BY <2>1, <2>2 DEF UpTo
<1>12. \A tag : Holds(objs, tag) => New(tag, "object")  BY <1>5 DEF TagsOfSide, Holds
<1>13. \A tag : Holds(pres, tag) => New(tag, "prefix")  BY <1>6 DEF TagsOfSide, Holds
<1>14. ASSUME NEW a, NEW b, NEW kind, Old(a), New(b, kind) PROVE a.path # b.path
  <2>1. PICK k \in Keys : /\ Wanted(r, k) /\ a = TagOf(r, k)
                          /\ Past(r.token, RowFor(r, k).key)
    BY <1>14
  <2>2. PICK m \in Keys : /\ Wanted(r, m) /\ b = TagOf(r, m)
                          /\ RowOnPage(r, page, kind, RowFor(r, m).key)
    BY <1>14
  <2>3. ~Past(r.token, RowFor(r, m).key)  BY <2>2 DEF RowOnPage
  <2>4. RowFor(r, k) # RowFor(r, m)  BY <2>1, <2>3
  <2> QED BY <2>1, <2>2, <2>4, TagsApart
<1>15. ASSUME NEW a, NEW b, New(a, "object"), New(b, "prefix") PROVE a.path # b.path
  <2>1. PICK k \in Keys : /\ Wanted(r, k) /\ a = TagOf(r, k)
                          /\ RowFor(r, k).kind = "object"
    BY <1>15
  <2>2. PICK m \in Keys : /\ Wanted(r, m) /\ b = TagOf(r, m)
                          /\ RowFor(r, m).kind = "prefix"
    BY <1>15
  <2>3. RowFor(r, k) # RowFor(r, m)  BY <2>1, <2>2
  <2> QED BY <2>1, <2>2, <2>3, TagsApart
<1>16. ASSUME NEW tag, Old(tag)
       PROVE  \E key \in Keys :
                 /\ Wanted(r, key) /\ tag = TagOf(r, key)
                 /\ page.token.kind = "issued" => Past(page.token, RowFor(r, key).key)
  <2>1. PICK k \in Keys : /\ Wanted(r, k) /\ tag = TagOf(r, k)
                          /\ Past(r.token, RowFor(r, k).key)
    BY <1>16
  <2>2. r.token.kind = "issued" /\ r.token.at \in Beginnings
    BY <2>1 DEF Past, TokenOK, NoToken, Token
  <2>3. RowFor(r, k).key \in Beginnings  BY <2>1, WantedRow DEF RowType
  <2>4. ASSUME page.token.kind = "issued" PROVE Past(page.token, RowFor(r, k).key)
    <3>1. page.token.at \in Beginnings /\ ~Past(r.token, page.token.at)
      BY <2>4 DEF HonestTo, NoToken, Token
    <3>2. /\ Position[page.token.at] \in Nat /\ Position[r.token.at] \in Nat
          /\ Position[RowFor(r, k).key] \in Nat
      BY <2>2, <2>3, <3>1, Positions
    <3>3. Position[RowFor(r, k).key] <= Position[r.token.at]  BY <2>1 DEF Past
    <3>4. ~(Position[page.token.at] <= Position[r.token.at])  BY <2>2, <3>1 DEF Past
    <3>5. Position[RowFor(r, k).key] <= Position[page.token.at]  BY <3>2, <3>3, <3>4
    <3> QED BY <2>4, <3>5 DEF Past
  <2> QED BY <2>1, <2>4
<1>17. ASSUME NEW tag, NEW kind, New(tag, kind)
       PROVE  \E key \in Keys :
                 /\ Wanted(r, key) /\ tag = TagOf(r, key)
                 /\ page.token.kind = "issued" => Past(page.token, RowFor(r, key).key)
  <2>1. page.token.kind = "issued" => page.flag = "yes"
    BY DEF HonestTo, NoToken, Token
  <2> QED BY <1>17, <2>1 DEF RowOnPage
<1> HIDE DEF Old, New
<1>18. Distinct(mid)
  <2>1. \A i \in DOMAIN old : Old(old[i])  BY <1>11 DEF Holds
  <2>2. \A i \in DOMAIN objs : New(objs[i], "object")  BY <1>12 DEF Holds
  <2>3. \A i \in DOMAIN old, j \in DOMAIN objs : old[i].path # objs[j].path
    BY <1>14, <2>1, <2>2
  <2> QED BY <1>4, <1>7, <2>3, AppendedDistinct
<1>19. Distinct(new)
  <2>1. \A i \in DOMAIN mid : Old(mid[i]) \/ New(mid[i], "object")
    BY <1>9, <1>11, <1>12
  <2>2. \A i \in DOMAIN pres : New(pres[i], "prefix")  BY <1>13 DEF Holds
  <2>3. \A i \in DOMAIN mid, j \in DOMAIN pres : mid[i].path # pres[j].path
    BY <1>14, <1>15, <2>1, <2>2
  <2> QED BY <1>7, <1>8, <1>9, <1>18, <2>3, AppendedDistinct
<1>20. UpTo(r, page.token, new)
  <2>1. ASSUME NEW i \in DOMAIN new
        PROVE  Old(new[i]) \/ New(new[i], "object") \/ New(new[i], "prefix")
    BY <1>9, <1>10, <1>11, <1>12, <1>13
  <2> QED BY <1>16, <1>17, <2>1 DEF UpTo
<1>21. ASSUME NEW key \in Keys, Wanted(r, key), HoldsRow(page, RowFor(r, key))
       PROVE  Holds(new, TagOf(r, key))
  <2>1. CASE RowFor(r, key).kind = "object"
    <3>1. \E i \in DOMAIN page.objects : page.objects[i] = RowFor(r, key).key
      BY <1>21, <2>1 DEF HoldsRow
    <3>2. Holds(objs, TagOf(r, key))  BY <1>5, <1>21, <2>1, <3>1 DEF TagsOfSide
    <3> QED BY <1>9, <1>10, <3>2
  <2>2. CASE RowFor(r, key).kind = "prefix"
    <3>1. \E i \in DOMAIN page.prefixes : page.prefixes[i] = RowFor(r, key).key
      BY <1>21, <2>2 DEF HoldsRow
    <3>2. Holds(pres, TagOf(r, key))  BY <1>6, <1>21, <2>2, <3>1 DEF TagsOfSide
    <3> QED BY <1>10, <3>2
  <2> QED BY <1>21, <2>1, <2>2 DEF HoldsRow
<1>22. \A tag : Holds(old, tag) => Holds(new, tag)  BY <1>9, <1>10
<1> QED BY <1>10, <1>19, <1>20, <1>21, <1>22 DEF GoesOn

-----------------------------------------------------------------------------
(* The invariants of the consumer's loop. *)

Codes == {"ok", "none", "AccessDenied", "unavailable", "InvalidToken"}

\* Requests and replies are well-formed, those of a faulty server included.
Typed ==
    /\ request \in RequestType
    /\ reply.code \in Codes
    /\ reply.code = "ok" => reply \in PageType

\* How far the consumer has read.
Frontier == IF phase = "reading" THEN result.token ELSE request.token

\* An honest server's answer is honest to the request, and the tokens in use
\* are the consumer's first one or the server's.
Served ==
    ~faulty =>
        /\ TokenOK(request.token) /\ result.kind # "malformed"
        /\ phase = "reading" => result.token.kind = "issued" /\ result.token.at \in Beginnings
        /\ phase = "answered" /\ reply.code = "ok" => HonestTo(request, reply, stable)

\* What has been listed is what lies up to the frontier: nothing beyond it, each
\* row once, and nothing missing that was there all along.
Collected ==
    ~faulty =>
        /\ phase = "idle" => listed = <<>>
        /\ listed \in Seq(TagType) /\ Distinct(listed)
        /\ phase \in {"waiting", "answered", "reading"} =>
              /\ UpTo(request, Frontier, listed)
              /\ Frontier.kind # "issued" => listed = <<>>
              /\ \A key \in stable :
                    Wanted(request, key) /\ Past(Frontier, RowFor(request, key).key)
                        => Holds(listed, TagOf(request, key))
        /\ phase = "done" /\ result.kind = "ok" =>
              /\ Admissible(request)
              /\ \A key \in stable : Wanted(request, key) => Holds(listed, TagOf(request, key))

\* The initial requests are requests.
LEMMA FirstRequest ==
    ASSUME NEW r \in Requests
    PROVE  r \in RequestType /\ TokenOK(r.token) /\ r.token.kind # "issued"
<1>1. /\ r \in [grouped : BOOLEAN, delimiter : Texts, prefix : Texts, max : Nat,
                token : {NoToken, Token("malformed", <<>>), Token("forged", <<>>)}]
      /\ <<>> \in Texts
  BY ListingAssumption, EmptySeq DEF Texts
<1>2. r.token \in {NoToken, Token("malformed", <<>>), Token("forged", <<>>)}
  BY <1>1
<1>3. r.token \in Tokens /\ TokenOK(r.token) /\ r.token.kind # "issued"
  BY <1>1, <1>2 DEF Tokens, Token, NoToken, TokenOK
<1> QED BY <1>1, <1>3 DEF RequestType

\* An admitted call waits for its answer; another has failed.
LEMMA CallResult ==
    ASSUME NEW r, Call(r)
    PROVE  /\ request' = r /\ result'.kind \notin {"ok", "malformed"}
           /\ \/ phase' = "waiting" /\ Admissible(r)
              \/ phase' = "done"
<1>1. Failed("none").kind = "none" /\ Failed("invalid").kind = "invalid"
  BY FailedKind
<1> QED BY <1>1 DEF Call

\* The same request with another token asks for the same rows.
LEMMA SameRows ==
    ASSUME NEW r \in RequestType, NEW token \in Tokens
    PROVE  LET s == [r EXCEPT !.token = token]
           IN  /\ s \in RequestType /\ s.token = token
               /\ \A key : Wanted(s, key) = Wanted(r, key)
               /\ \A key : RowFor(s, key) = RowFor(r, key)
               /\ \A key : TagOf(s, key) = TagOf(r, key)
<1> DEFINE s == [r EXCEPT !.token = token]
<1>1. /\ s \in RequestType /\ s.token = token
      /\ s.prefix = r.prefix /\ s.grouped = r.grouped /\ s.delimiter = r.delimiter
      /\ s.max = r.max
  BY DEF RequestType
<1> HIDE DEF s
<1>2. /\ Sent(s).prefix = Sent(r).prefix /\ Sent(s).grouped = Sent(r).grouped
      /\ Sent(s).delimiter = Sent(r).delimiter
  BY <1>1 DEF Sent
<1>3. \A key : Wanted(s, key) = Wanted(r, key)  BY <1>2 DEF Wanted
<1>4. \A key : RowFor(s, key) = RowFor(r, key)  BY <1>2 DEF RowFor, Row, Cut
<1>5. \A key : TagOf(s, key) = TagOf(r, key)  BY <1>4 DEF TagOf
<1> QED BY <1>1, <1>3, <1>4, <1>5 DEF s

\* Fewer objects that stayed ask less of a page.
LEMMA HonestToFewer ==
    ASSUME NEW r, NEW page, NEW S, NEW R \in SUBSET S, HonestTo(r, page, S)
    PROVE  HonestTo(r, page, R)
BY DEF HonestTo

LEMMA AcceptedPage ==
    ASSUME NEW r, NEW page, page.code = "ok", Result(r, page).kind = "ok"
    PROVE  Result(r, page).token = page.token /\ Result(r, page).truncated = (page.flag = "yes")
<1>1. CASE r.grouped  BY <1>1, GroupedPage DEF Listed
<1>2. CASE ~r.grouped
  <2>1. Result(r, page) = PlainResult(page)  BY <1>2 DEF Result
  <2>2. ValidPage(page)  BY <2>1, FailedKind DEF PlainResult
  <2> QED BY <2>1, <2>2 DEF PlainResult, Listed
<1> QED BY <1>1, <1>2

\* The token the consumer reads on with is the one of the answer.
LEMMA ReadingToken ==
    ASSUME TypeOK, ResultOfReply, Typed, phase = "reading"
    PROVE  result.token = reply.token /\ result.token \in Tokens
<1>1. result.kind = "ok"  BY DEF TypeOK
<1>2. reply.code = "ok" /\ result = Result(request, reply)  BY <1>1 DEF ResultOfReply
<1>3. reply \in PageType  BY <1>2 DEF Typed
<1>4. reply.token \in Tokens  BY <1>3 DEF PageType
<1> QED BY <1>1, <1>2, <1>4, AcceptedPage

\* What the server does: some of the rows that are left, but not none of some.
LEMMA ServeStep ==
    ASSUME Serve, request \in RequestType, Admissible(request), bucket \subseteq Keys
    PROVE  /\ request.token.kind \in {"none", "issued"}
           /\ \E rows : /\ rows = InOrder(Left(request, bucket))
                        /\ rows \in Seq(Left(request, bucket))
                        /\ \E n \in 0 .. Len(rows) :
                              /\ n <= Sent(request).max /\ (n = 0 => rows = <<>>)
                              /\ reply' = HonestPage(rows, n)
<1>1. PICK rows : rows = RowsLeft(Sent(request))  OBVIOUS
<1>2. rows = InOrder(Left(request, bucket))  BY <1>1, RowsLeftOf
<1>3. rows \in Seq(Left(request, bucket))  BY <1>2, RowsInOrder
<1>4. PICK m \in Nat : m = Len(rows)  BY <1>3
<1>5. PICK max \in Nat : max = Sent(request).max  BY SentRequest
<1>6. PICK n \in 0 .. (IF m < max THEN m ELSE max) :
         (n = 0 => rows = <<>>) /\ Answered(HonestPage(rows, n))
  BY <1>1, <1>4, <1>5 DEF Serve
<1>7. n \in 0 .. m /\ n <= max  OBVIOUS
<1>8. reply' = HonestPage(rows, n)  BY <1>6 DEF Answered
<1>9. request.token.kind \in {"none", "issued"}  BY SentRequest DEF Serve
<1> QED BY <1>2, <1>3, <1>4, <1>5, <1>6, <1>7, <1>8, <1>9

\* A refusal has no rows.
LEMMA RejectStep ==
    ASSUME Reject
    PROVE  reply'.code \in Codes \ {"ok"}
<1>1. PICK code \in {"AccessDenied", "unavailable", "InvalidToken"} : Answered(Error(code))
  BY DEF Reject
<1>2. reply' = Error(code)  BY <1>1 DEF Answered
<1>3. Error(code).code = code  BY DEF Error, Page
<1> QED BY <1>2, <1>3 DEF Codes

LEMMA InitTyped == Init => Typed
<1> SUFFICES ASSUME Init PROVE Typed
  OBVIOUS
<1>1. <<>> \in Texts  BY EmptySeq DEF Texts
<1>2. NoRequest \in RequestType
  BY <1>1 DEF NoRequest, RequestType, NoToken, Token, Tokens
<1>3. Error("none").code = "none"  BY DEF Error, Page
<1> QED BY <1>2, <1>3 DEF Init, Typed, Codes

LEMMA NextTyped == TypeOK /\ ResultOfReply /\ Typed /\ [Next]_vars => Typed'
<1> SUFFICES ASSUME TypeOK, ResultOfReply, Typed, [Next]_vars PROVE Typed'
  OBVIOUS
<1>1. ASSUME NEW r \in Requests, Start(r) PROVE Typed'
  <2>1. request' = r /\ UNCHANGED reply  BY <1>1, CallResult DEF Start
  <2> QED BY <2>1, FirstRequest DEF Typed
<1>2. CASE Serve
  <2>1. /\ request \in RequestType /\ Admissible(request) /\ bucket \subseteq Keys
        /\ UNCHANGED request
    BY <1>2, AnsweredStep DEF TypeOK, Typed
  <2>2. reply' \in PageType  BY <1>2, <2>1, ServeStep, HonestPageType
  <2>3. reply'.code = "ok"  BY <2>2 DEF PageType
  <2> QED BY <2>1, <2>2, <2>3 DEF Typed, Codes
<1>3. CASE Reject
  BY <1>3, RejectStep, AnsweredStep DEF Typed
<1>4. CASE Misbehave
  <2>1. PICK page \in Faults : reply' = page  BY <1>4 DEF Misbehave, Answered
  <2>2. page \in PageType  BY ListingAssumption DEF PageType, Names
  <2>3. page.code = "ok"  BY <2>2 DEF PageType
  <2>4. UNCHANGED request  BY <1>4, AnsweredStep
  <2> QED BY <2>1, <2>2, <2>3, <2>4 DEF Typed, Codes
<1>5. CASE Receive
  BY <1>5 DEF Receive, Typed
<1>6. CASE Continue
  <2>1. result.token \in Tokens  BY <1>6, ReadingToken DEF Continue
  <2>2. request' = [request EXCEPT !.token = result.token] /\ UNCHANGED reply
    BY <1>6, CallResult DEF Continue
  <2>3. request' \in RequestType  BY <2>1, <2>2, SameRows DEF Typed
  <2> QED BY <2>2, <2>3 DEF Typed
<1>7. ASSUME NEW key \in Keys, Change(key) PROVE Typed'
  BY <1>7 DEF Change, Typed
<1>8. CASE UNCHANGED vars
  BY <1>8 DEF vars, Typed
<1> QED BY <1>1, <1>2, <1>3, <1>4, <1>5, <1>6, <1>7, <1>8 DEF Next

LEMMA InitServed == Init => Served
BY FailedKind DEF Init, Served, NoRequest, TokenOK

\* The projection does not take an honest answer for a malformed one.
LEMMA HonestOutcome ==
    ASSUME TypeOK, Typed, Served, ~faulty, phase = "answered"
    PROVE  LET answer == Result(request, reply)
           IN  /\ answer.kind # "malformed"
               /\ reply.code # "ok" => answer = Failed(ErrorKind(request, reply.code))
               /\ answer.kind = "ok" => reply.code = "ok"
               /\ reply.code = "ok" =>
                     /\ Admissible(request) /\ reply \in PageType
                     /\ HonestTo(request, reply, stable)
                     /\ answer = Listed(Paths(reply.objects), Paths(reply.prefixes),
                                        reply.flag = "yes", reply.token)
                     /\ answer.kind = "ok"
<1>1. CASE reply.code = "ok"
  <2>1. /\ request \in RequestType /\ Admissible(request) /\ reply \in PageType
        /\ HonestTo(request, reply, stable)
    BY <1>1 DEF TypeOK, Typed, Served
  <2>2. Result(request, reply) =
          Listed(Paths(reply.objects), Paths(reply.prefixes), reply.flag = "yes", reply.token)
    BY <2>1, HonestResult
  <2>3. Result(request, reply).kind = "ok"  BY <2>2 DEF Listed
  <2> QED BY <1>1, <2>1, <2>2, <2>3
<1>2. CASE reply.code # "ok"
  <2>1. Result(request, reply) = Failed(ErrorKind(request, reply.code))
    BY <1>2 DEF Result
  <2>2. Result(request, reply).kind = ErrorKind(request, reply.code)
    BY <2>1, FailedKind
  <2>3. ErrorKind(request, reply.code) \notin {"ok", "malformed"}
    BY <1>2 DEF ErrorKind, Typed, Codes
  <2> QED BY <1>2, <2>1, <2>2, <2>3
<1> QED BY <1>1, <1>2

LEMMA NextServed ==
    TypeOK /\ ResultOfReply /\ Typed /\ Served /\ [Next]_vars => Served'
<1> SUFFICES ASSUME TypeOK, ResultOfReply, Typed, Served, [Next]_vars, ~faulty'
             PROVE  Served'
  BY DEF Served
<1>0. UNCHANGED faulty /\ ~faulty
  BY AnsweredStep DEF Next, Start, Receive, Continue, Change, vars
<1>1. ASSUME NEW r \in Requests, Start(r) PROVE Served'
  <2>1. request' = r /\ result'.kind # "malformed" /\ phase' \in {"waiting", "done"}
    BY <1>1, CallResult DEF Start
  <2> QED BY <2>1, FirstRequest DEF Served
<1>2. CASE Serve
  <2>1. /\ request \in RequestType /\ Admissible(request) /\ bucket \subseteq Keys
        /\ stable \in SUBSET bucket /\ TokenOK(request.token) /\ result.kind # "malformed"
        /\ phase' = "answered" /\ UNCHANGED <<request, result, stable>>
    BY <1>0, <1>2, AnsweredStep DEF TypeOK, Typed, Served
  <2>2. PICK rows : /\ rows = InOrder(Left(request, bucket))
                    /\ \E n \in 0 .. Len(rows) :
                          /\ n <= Sent(request).max /\ (n = 0 => rows = <<>>)
                          /\ reply' = HonestPage(rows, n)
    BY <1>2, <2>1, ServeStep
  <2>3. request.token.kind \in {"none", "issued"}  BY <1>2, <2>1, ServeStep
  <2>4. HonestTo(request, reply', stable)  BY <2>1, <2>2, <2>3, HonestServe
  <2> QED BY <2>1, <2>4 DEF Served
<1>3. CASE Reject
  <2>1. /\ phase' = "answered" /\ UNCHANGED <<request, result>> /\ reply'.code # "ok"
    BY <1>3, RejectStep, AnsweredStep
  <2> QED BY <1>0, <2>1 DEF Served
<1>4. CASE Misbehave
  BY <1>0, <1>4 DEF Misbehave
<1>5. CASE Receive
  <2>1. /\ phase = "answered" /\ result' = Result(request, reply) /\ UNCHANGED request
        /\ phase' = IF result'.kind = "ok" /\ result'.truncated THEN "reading" ELSE "done"
    BY <1>5 DEF Receive
  <2>2. result'.kind # "malformed" /\ (result'.kind = "ok" => reply.code = "ok")
    BY <1>0, <2>1, HonestOutcome
  <2>3. ASSUME phase' = "reading"
        PROVE  result'.token.kind = "issued" /\ result'.token.at \in Beginnings
    <3>1. reply.code = "ok" /\ result'.kind = "ok" /\ result'.truncated
      BY <2>1, <2>2, <2>3
    <3>2. result'.token = reply.token /\ reply.flag = "yes"
      BY <2>1, <3>1, AcceptedPage
    <3>3. HonestTo(request, reply, stable)  BY <1>0, <2>1, <3>1 DEF Served
    <3> QED BY <3>2, <3>3 DEF HonestTo
  <2>4. phase' \in {"reading", "done"}  BY <2>1
  <2> QED BY <1>0, <2>1, <2>2, <2>3, <2>4 DEF Served
<1>6. CASE Continue
  <2>1. /\ request' = [request EXCEPT !.token = result.token]
        /\ phase' \in {"waiting", "done"} /\ result'.kind # "malformed"
    BY <1>6, CallResult DEF Continue
  <2>2. /\ phase = "reading" /\ result.token \in Tokens
        /\ result.token.kind = "issued" /\ result.token.at \in Beginnings
    BY <1>0, <1>6, ReadingToken DEF Continue, Served
  <2>3. request'.token = result.token  BY <2>1, <2>2, SameRows DEF Typed
  <2> QED BY <2>1, <2>2, <2>3 DEF Served, TokenOK
<1>7. ASSUME NEW key \in Keys, Change(key) PROVE Served'
  <2>1. /\ UNCHANGED <<phase, request, reply, result>> /\ stable' \in SUBSET stable
    BY <1>7 DEF Change
  <2>2. phase = "answered" /\ reply.code = "ok" => HonestTo(request, reply, stable')
    BY <1>0, <2>1, HonestToFewer DEF Served
  <2> QED BY <1>0, <2>1, <2>2 DEF Served
<1>8. CASE UNCHANGED vars
  BY <1>0, <1>8 DEF vars, Served
<1> QED BY <1>1, <1>2, <1>3, <1>4, <1>5, <1>6, <1>7, <1>8 DEF Next

LEMMA InitCollected == Init => Collected
<1> SUFFICES ASSUME Init PROVE Collected
  OBVIOUS
<1>1. listed = <<>> /\ phase = "idle"  BY DEF Init
<1>2. listed \in Seq(TagType) /\ Distinct(listed)
  BY <1>1, EmptySeq DEF Distinct
<1> QED BY <1>1, <1>2 DEF Collected

LEMMA NextCollected ==
    TypeOK /\ ResultOfReply /\ Typed /\ Served /\ Collected /\ [Next]_vars => Collected'
<1> SUFFICES ASSUME TypeOK, ResultOfReply, Typed, Served, Collected, [Next]_vars, ~faulty'
             PROVE  Collected'
  BY DEF Collected
<1>0. UNCHANGED faulty /\ ~faulty
  BY AnsweredStep DEF Next, Start, Receive, Continue, Change, vars
<1>00. listed \in Seq(TagType) /\ Distinct(listed)  BY <1>0 DEF Collected
<1>1. ASSUME NEW r \in Requests, Start(r) PROVE Collected'
  <2>1. /\ request' = r /\ result'.kind # "ok" /\ phase' \in {"waiting", "done"}
        /\ listed = <<>> /\ UNCHANGED listed
    BY <1>0, <1>1, CallResult DEF Start, Collected
  <2>2. phase' = "waiting" => Frontier' = r.token  BY <2>1 DEF Frontier
  <2>3. r.token.kind # "issued"  BY FirstRequest
  <2>4. UpTo(r, r.token, listed')  BY <2>1 DEF UpTo
  <2>5. \A key : ~Past(r.token, key)  BY <2>3 DEF Past
  <2> QED BY <1>00, <2>1, <2>2, <2>3, <2>4, <2>5 DEF Collected
<1>2. CASE Serve \/ Reject \/ Misbehave
  <2>1. /\ phase = "waiting" /\ phase' = "answered"
        /\ UNCHANGED <<request, result, listed, stable>>
    BY <1>2, AnsweredStep
  <2>2. Frontier' = Frontier  BY <2>1 DEF Frontier
  <2> QED BY <1>0, <2>1, <2>2 DEF Collected
<1>3. CASE Receive
  <2> DEFINE answer == Result(request, reply)
  <2>1. /\ phase = "answered" /\ result' = answer /\ UNCHANGED <<request, reply, stable>>
        /\ phase' = IF answer.kind = "ok" /\ answer.truncated THEN "reading" ELSE "done"
        /\ listed' = listed \o Tagged("object", answer.objects)
                            \o Tagged("prefix", answer.prefixes)
    BY <1>3 DEF Receive
  <2>2. CASE reply.code # "ok"
    <3>1. answer = Failed(ErrorKind(request, reply.code)) /\ answer.kind # "ok"
      BY <1>0, <2>1, <2>2, HonestOutcome
    <3>2. answer.objects = <<>> /\ answer.prefixes = <<>>
      BY <3>1 DEF Failed, Listed
    <3>3. Tagged("object", <<>>) = <<>> /\ Tagged("prefix", <<>>) = <<>>
      BY DEF Tagged
    <3>4. listed' = listed \o <<>> \o <<>>  BY <2>1, <3>2, <3>3
    <3>5. listed' = listed  BY <1>00, <3>4, ConcatEmptySeq
    <3> QED BY <1>00, <2>1, <3>1, <3>5 DEF Collected
  <2>3. CASE reply.code = "ok"
    <3>1. /\ Admissible(request) /\ reply \in PageType
          /\ HonestTo(request, reply, stable)
          /\ answer = Listed(Paths(reply.objects), Paths(reply.prefixes),
                             reply.flag = "yes", reply.token)
      BY <1>0, <2>1, <2>3, HonestOutcome
    <3>2. /\ answer.objects = Paths(reply.objects) /\ answer.prefixes = Paths(reply.prefixes)
          /\ answer.kind = "ok" /\ answer.truncated = (reply.flag = "yes")
          /\ answer.token = reply.token
      BY <3>1 DEF Listed
    <3>3. Frontier = request.token  BY <2>1 DEF Frontier
    <3>4. /\ request \in RequestType /\ TokenOK(request.token)
          /\ UpTo(request, request.token, listed)
          /\ request.token.kind # "issued" => listed = <<>>
      BY <1>0, <2>1, <3>3 DEF Typed, Served, Collected
    <3>5. listed' = listed \o Tagged("object", Paths(reply.objects))
                           \o Tagged("prefix", Paths(reply.prefixes))
      BY <2>1, <3>2
    <3>6. GoesOn(request, reply, listed, listed')
      BY <1>00, <3>1, <3>4, <3>5, PageAdds
    <3>7. ASSUME NEW key \in stable, Wanted(request, key),
                 reply.flag = "yes" => Past(reply.token, RowFor(request, key).key)
          PROVE  Holds(listed', TagOf(request, key))
      <4>1. key \in Keys  BY DEF TypeOK
      <4>2. CASE Past(request.token, RowFor(request, key).key)
        <5>1. Holds(listed, TagOf(request, key))
          BY <1>0, <2>1, <3>3, <3>7, <4>2 DEF Collected
        <5> QED BY <3>6, <5>1 DEF GoesOn
      <4>3. CASE ~Past(request.token, RowFor(request, key).key)
        <5>1. HoldsRow(reply, RowFor(request, key))  BY <3>1, <3>7, <4>3 DEF HonestTo
        <5> QED BY <3>6, <3>7, <4>1, <5>1 DEF GoesOn
      <4> QED BY <4>2, <4>3
    <3>8. CASE reply.flag = "yes"
      <4>1. phase' = "reading" /\ Frontier' = reply.token
        BY <2>1, <3>2, <3>8 DEF Frontier
      <4>2. reply.token.kind = "issued"  BY <3>1, <3>8 DEF HonestTo
      <4> QED BY <2>1, <3>6, <3>7, <4>1, <4>2 DEF Collected, GoesOn
    <3>9. CASE reply.flag # "yes"
      <4>1. phase' = "done"  BY <2>1, <3>2, <3>9
      <4> QED BY <2>1, <3>1, <3>6, <3>7, <3>9, <4>1 DEF Collected, GoesOn, Admissible
    <3> QED BY <3>8, <3>9
  <2> QED BY <2>2, <2>3
<1>4. CASE Continue
  <2> DEFINE next == [request EXCEPT !.token = result.token]
  <2>1. /\ phase = "reading" /\ UNCHANGED <<listed, stable>> /\ request' = next
        /\ phase' \in {"waiting", "done"} /\ result'.kind # "ok"
    BY <1>4, CallResult DEF Continue
  <2>2. result.token \in Tokens  BY <2>1, ReadingToken
  <2>3. /\ next.token = result.token
        /\ \A key : Wanted(next, key) = Wanted(request, key)
        /\ \A key : RowFor(next, key) = RowFor(request, key)
        /\ \A key : TagOf(next, key) = TagOf(request, key)
    BY <2>2, SameRows DEF Typed
  <2> HIDE DEF next
  <2>4. Frontier = result.token  BY <2>1 DEF Frontier
  <2>5. phase' = "waiting" => Frontier' = result.token  BY <2>1, <2>3 DEF Frontier
  <2>6. /\ UpTo(request, result.token, listed)
        /\ result.token.kind # "issued" => listed = <<>>
        /\ \A key \in stable :
              Wanted(request, key) /\ Past(result.token, RowFor(request, key).key)
                  => Holds(listed, TagOf(request, key))
    BY <1>0, <2>1, <2>4 DEF Collected
  <2>7. UpTo(next, result.token, listed)  BY <2>3, <2>6 DEF UpTo
  <2>8. \A key \in stable :
           Wanted(next, key) /\ Past(result.token, RowFor(next, key).key)
               => Holds(listed, TagOf(next, key))
    BY <2>3, <2>6
  <2> QED BY <1>00, <2>1, <2>5, <2>6, <2>7, <2>8 DEF Collected
<1>5. ASSUME NEW key \in Keys, Change(key) PROVE Collected'
  <2>1. /\ UNCHANGED <<phase, request, result, listed>> /\ stable' \subseteq stable
    BY <1>5 DEF Change
  <2>2. Frontier' = Frontier  BY <2>1 DEF Frontier
  <2> QED BY <1>0, <2>1, <2>2 DEF Collected, Admissible
<1>6. CASE UNCHANGED vars
  <2>1. UNCHANGED <<phase, request, result, listed, stable>>  BY <1>6 DEF vars
  <2>2. Frontier' = Frontier  BY <2>1 DEF Frontier
  <2> QED BY <1>0, <2>1, <2>2 DEF Collected, Admissible
<1> QED BY <1>1, <1>2, <1>3, <1>4, <1>5, <1>6 DEF Next

-----------------------------------------------------------------------------
(* What the invariants say of pages and listings. *)

\* The loop's inductive invariant.
LoopInv == TypeOK /\ ResultOfReply /\ Typed /\ Served /\ Collected

LEMMA InitLoop == Init => LoopInv
BY InitTypes, InitResult, InitTyped, InitServed, InitCollected DEF LoopInv

LEMMA NextLoop == LoopInv /\ [Next]_vars => LoopInv'
BY NextTypes, NextResult, NextTyped, NextServed, NextCollected DEF LoopInv

LEMMA WholeByLoop == LoopInv => PageIsWhole
<1> SUFFICES ASSUME LoopInv, phase \in {"reading", "done"}, result.kind = "ok"
             PROVE  /\ request.grouped =>
                          /\ Len(result.objects) = Len(reply.objects)
                          /\ Len(result.prefixes) = Len(reply.prefixes)
                          /\ Len(result.objects) + Len(result.prefixes) <= PageBound(request)
                          /\ \A i \in DOMAIN result.objects, j \in DOMAIN result.prefixes :
                                result.objects[i] # result.prefixes[j]
                    /\ (~request.grouped /\ Root # NoRoot) =>
                          [i \in DOMAIN result.objects |-> Rooted(Root, result.objects[i])]
                              = reply.objects
  BY DEF PageIsWhole
<1>1. reply.code = "ok" /\ result = Result(request, reply) /\ reply \in PageType
  BY DEF LoopInv, ResultOfReply, Typed
<1>2. PICK m, n \in Nat : /\ m = Len(reply.objects) /\ DOMAIN reply.objects = 1 .. m
                         /\ n = Len(reply.prefixes) /\ DOMAIN reply.prefixes = 1 .. n
                         /\ reply.objects \in Names /\ reply.prefixes \in Names
  BY <1>1 DEF PageType, Names
<1>3. ASSUME NEW key \in Texts \cup {Missing}, key # Missing, Under(Root, key)
      PROVE  Rooted(Root, StripRoot(Root, key)) = key
  <2>1. key \in Seq(Characters)  BY <1>3 DEF Texts
  <2> QED BY <1>3, <2>1, StripThenRoot, BucketAssumption DEF Texts
<1>4. /\ \A i \in 1 .. m : reply.objects[i] \in Texts \cup {Missing}
      /\ \A j \in 1 .. n : reply.prefixes[j] \in Texts \cup {Missing}
  BY <1>2, ElementOfSeq DEF Names
<1>5. CASE request.grouped
  <2>1. ValidGroupedPage(request, reply)  BY <1>1, <1>5, GroupedPage
  <2>2. result = Listed(Paths(reply.objects), Paths(reply.prefixes), reply.flag = "yes",
                        reply.token)
    BY <1>1, <1>5, GroupedPage
  <2>3. /\ result.objects = [i \in 1 .. m |-> StripRoot(Root, reply.objects[i])]
        /\ result.prefixes = [i \in 1 .. n |-> StripRoot(Root, reply.prefixes[i])]
    BY <1>2, <2>2 DEF Listed, Paths
  <2>4. Len(result.objects) = m /\ Len(result.prefixes) = n
    BY <1>2, <2>3
  <2>5. m + n <= PageBound(request)  BY <1>2, <2>1 DEF ValidGroupedPage
  <2>6. ASSUME NEW i \in 1 .. m, NEW j \in 1 .. n
        PROVE  result.objects[i] # result.prefixes[j]
    <3>1. /\ reply.objects[i] # Missing /\ Under(Root, reply.objects[i])
          /\ reply.prefixes[j] # Missing /\ Under(Root, reply.prefixes[j])
          /\ reply.objects[i] # reply.prefixes[j]
      BY <1>2, <2>1 DEF ValidGroupedPage, Inside
    <3>2. /\ Rooted(Root, result.objects[i]) = reply.objects[i]
          /\ Rooted(Root, result.prefixes[j]) = reply.prefixes[j]
      BY <1>3, <1>4, <2>3, <3>1
    <3> QED BY <3>1, <3>2
  <2>7. DOMAIN result.objects = 1 .. m /\ DOMAIN result.prefixes = 1 .. n
    BY <2>3
  <2> QED BY <1>2, <1>5, <2>4, <2>5, <2>6, <2>7
<1>6. CASE ~request.grouped /\ Root # NoRoot
  <2>1. Result(request, reply) = PlainResult(reply)  BY <1>1, <1>6 DEF Result
  <2>2. ValidPage(reply)  BY <1>1, <2>1, FailedKind DEF PlainResult
  <2>3. \A i \in 1 .. m : reply.objects[i] # Missing /\ Under(Root, reply.objects[i])
    BY <1>2, <1>6, <2>2 DEF ValidPage
  <2>4. {i \in DOMAIN reply.objects : reply.objects[i] # Missing} = 1 .. m
    BY <1>2, <2>3
  <2>5. Picked(reply.objects, 1 .. m) = reply.objects
    BY <1>2, PickedAll DEF Names
  <2>6. result = Listed(Paths(Picked(reply.objects, {i \in DOMAIN reply.objects :
                                                        reply.objects[i] # Missing})),
                        <<>>, reply.flag = "yes", reply.token)
    BY <1>1, <2>1, <2>2 DEF PlainResult
  <2>7. result.objects = [i \in 1 .. m |-> StripRoot(Root, reply.objects[i])]
    BY <1>2, <2>4, <2>5, <2>6 DEF Listed, Paths
  <2>8. \A i \in 1 .. m : Rooted(Root, result.objects[i]) = reply.objects[i]
    BY <1>3, <1>4, <2>3, <2>7
  <2>9. [i \in DOMAIN result.objects |-> Rooted(Root, result.objects[i])]
          = [i \in 1 .. m |-> reply.objects[i]]
    BY <2>7, <2>8
  <2>10. reply.objects = [i \in 1 .. m |-> reply.objects[i]]
    BY <1>2 DEF Names
  <2> QED BY <1>6, <2>9, <2>10
<1> QED BY <1>5, <1>6

\* Behind a root, what begins alike still begins alike without it.
LEMMA StripPrefix ==
    ASSUME NEW a \in Texts, NEW b \in Texts, Under(Root, a), IsPrefix(a, b)
    PROVE  IsPrefix(StripRoot(Root, a), StripRoot(Root, b))
<1> DEFINE bound == Boundary(Root)
           s     == StripRoot(Root, a)
           t     == StripRoot(Root, b)
<1>1. /\ Slash \in Characters /\ Root \in Seq(Characters) /\ bound \in Seq(Characters)
      /\ a \in Seq(Characters) /\ b \in Seq(Characters)
  BY BoundaryText, BucketAssumption DEF Texts
<1>2. PICK l, m, n \in Nat : l = Len(bound) /\ m = Len(a) /\ n = Len(b)
  BY <1>1
<1>3. l <= m  BY <1>1, <1>2, PrefixOf DEF Under
<1>4. m <= n /\ \A i \in 1 .. m : a[i] = b[i]  BY <1>1, <1>2, PrefixOf
<1>5. s = From(a, l + 1) /\ t = From(b, l + 1)  BY <1>2 DEF StripRoot
<1> HIDE DEF bound, s, t
<1>6. /\ s \in Seq(Characters) /\ Len(s) = m + 1 - (l + 1)
      /\ \A k \in 1 .. m + 1 - (l + 1) : s[k] = a[l + 1 + k - 1]
  <2>1. l + 1 \in 1 .. Len(a) + 1  BY <1>2, <1>3
  <2>2. /\ From(a, l + 1) \in Seq(Characters) /\ Len(From(a, l + 1)) = Len(a) + 1 - (l + 1)
        /\ \A k \in 1 .. Len(a) + 1 - (l + 1) : From(a, l + 1)[k] = a[l + 1 + k - 1]
    BY <1>1, <2>1, FromText
  <2> QED BY <1>2, <1>5, <2>2
<1>7. /\ t \in Seq(Characters) /\ Len(t) = n + 1 - (l + 1)
      /\ \A k \in 1 .. n + 1 - (l + 1) : t[k] = b[l + 1 + k - 1]
  <2>1. l + 1 \in 1 .. Len(b) + 1  BY <1>2, <1>3, <1>4
  <2>2. /\ From(b, l + 1) \in Seq(Characters) /\ Len(From(b, l + 1)) = Len(b) + 1 - (l + 1)
        /\ \A k \in 1 .. Len(b) + 1 - (l + 1) : From(b, l + 1)[k] = b[l + 1 + k - 1]
    BY <1>1, <2>1, FromText
  <2> QED BY <1>2, <1>5, <2>2
<1>8. Len(s) = m - l /\ Len(t) = n - l /\ Len(s) <= Len(t)  BY <1>3, <1>4, <1>6, <1>7
<1>9. ASSUME NEW k \in 1 .. Len(s) PROVE s[k] = t[k]
  <2>1. /\ k \in 1 .. m + 1 - (l + 1) /\ k \in 1 .. n + 1 - (l + 1)
        /\ l + 1 + k - 1 \in 1 .. m
    BY <1>3, <1>4, <1>8
  <2> QED BY <1>4, <1>6, <1>7, <2>1
<1>10. IsPrefix(s, t)  BY <1>6, <1>7, <1>8, <1>9, PrefixOf
<1> QED BY <1>10 DEF s, t

LEMMA OnceByLoop == LoopInv => ListedOnce
<1> SUFFICES ASSUME LoopInv, ~faulty
             PROVE  /\ \A i, j \in DOMAIN listed : listed[i].path = listed[j].path => i = j
                    /\ (phase = "done" /\ result.kind = "ok") =>
                          \A key \in {k \in stable : Inside(k, request)} :
                              \E i \in DOMAIN listed :
                                  \/ listed[i] = [kind |-> "object",
                                                  path |-> StripRoot(Root, key)]
                                  \/ /\ listed[i].kind = "prefix"
                                     /\ IsPrefix(listed[i].path, StripRoot(Root, key))
  BY DEF ListedOnce
<1>1. Distinct(listed)  BY DEF LoopInv, Collected
<1>2. ASSUME phase = "done", result.kind = "ok", NEW key \in stable, Inside(key, request)
      PROVE  \E i \in DOMAIN listed :
                \/ listed[i] = [kind |-> "object", path |-> StripRoot(Root, key)]
                \/ /\ listed[i].kind = "prefix"
                   /\ IsPrefix(listed[i].path, StripRoot(Root, key))
  <2>1. /\ Admissible(request) /\ request \in RequestType
        /\ Wanted(request, key) => Holds(listed, TagOf(request, key))
    BY <1>2 DEF LoopInv, Collected, Typed
  <2>2. key \in Keys /\ key \in Texts  BY BucketAssumption DEF LoopInv, TypeOK
  <2>3. Wanted(request, key)  BY <1>2, <2>1, <2>2, InsideIsWanted
  <2>4. PICK i \in DOMAIN listed : listed[i] = TagOf(request, key)
    BY <2>1, <2>3 DEF Holds
  <2> DEFINE row == RowFor(request, key)
  <2>5. /\ row \in RowType /\ IsPrefix(Sent(request).prefix, row.key) /\ IsPrefix(row.key, key)
        /\ row.kind = "object" => row.key = key
    BY <2>1, <2>2, <2>3, WantedRow
  <2>6. listed[i] = [kind |-> row.kind, path |-> StripRoot(Root, row.key)]
    BY <2>4 DEF TagOf
  <2>7. row.key \in Texts /\ row.kind \in {"object", "prefix"}
    BY <2>5, BeginningsOfKeys DEF RowType
  <2> HIDE DEF row
  <2>8. Under(Root, row.key)  BY <2>1, <2>5, <2>7, InsideRow DEF Inside
  <2>9. IsPrefix(StripRoot(Root, row.key), StripRoot(Root, key))
    BY <2>2, <2>5, <2>7, <2>8, StripPrefix
  <2> QED BY <2>5, <2>6, <2>7, <2>9
<1> QED BY <1>1, <1>2 DEF Distinct

-----------------------------------------------------------------------------
(* The theorems. *)

\* Nothing reaches the server that the provider does not admit, and the
\* consumer reads on only from a truncated page.
THEOREM TypeCorrect == Spec => []TypeOK
BY InitTypes, NextTypes, PTL DEF Spec

\* Whatever the server returns, the accepted pages of list_delimited lie
\* inside the root and the requested prefix, path by path.
THEOREM PagesConfined == Spec => []PageIsConfined
BY InitResult, NextResult, ConfinedByResult, PTL DEF Spec

\* Whatever the server returns, an accepted page of list_delimited brings every
\* row of the answer, within the page size asked for, and no path as object and
\* group; a plain page of a rooted provider names every key of the answer.
THEOREM PagesWhole == Spec => []PageIsWhole
BY InitLoop, NextLoop, WholeByLoop, PTL DEF Spec

\* The projection never takes a page of a server that keeps the protocol for a
\* malformed one, whatever the root, the keys, the delimiter and the page size.
THEOREM HonestPagesAccepted == Spec => []HonestIsAccepted
<1>1. LoopInv => HonestIsAccepted  BY DEF LoopInv, Served, HonestIsAccepted
<1> QED BY <1>1, InitLoop, NextLoop, PTL DEF Spec

\* However objects come and go between the pages, a listing names no path twice
\* and, once it has ended, leaves out no object that stayed.
THEOREM EachListedOnce == Spec => []ListedOnce
BY InitLoop, NextLoop, OnceByLoop, PTL DEF Spec
=============================================================================
