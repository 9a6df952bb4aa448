-------------------------- MODULE ProviderSetupProofs --------------------------
(***************************************************************************)
(* Proofs about ProviderSetup, for any characters, texts and setups.  What *)
(* the operators of RootedKeys return comes first, then the invariant.     *)
(***************************************************************************)
EXTENDS ProviderSetup, SequenceTheorems, WellFoundedInduction, TLAPS

-----------------------------------------------------------------------------
(* Least and greatest positions. *)

LEMMA LeastNatural ==
    ASSUME NEW T \in SUBSET Nat, T # {}
    PROVE  \E n \in T : \A m \in T : n <= m
<1> DEFINE R == OpToRel(<, Nat)
<1>1. IsWellFoundedOn(R, Nat)
  BY NatLessThanWellFounded
<1>2. \A m, n \in Nat : m < n => <<m, n>> \in R
  BY DEF OpToRel
<1> HIDE DEF R
<1>3. PICK n \in T : \A m \in T : ~(<<m, n>> \in R)
  BY <1>1, WFMin
<1>4. ASSUME NEW m \in T PROVE n <= m
  <2>1. m \in Nat /\ n \in Nat  OBVIOUS
  <2>2. ~(m < n)  BY <1>2, <1>3, <2>1
  <2> QED BY <2>1, <2>2
<1> QED BY <1>4

LEMMA LeastPosition ==
    ASSUME NEW T \in SUBSET Nat, T # {}
    PROVE  Min(T) \in T /\ \A n \in T : Min(T) <= n
BY LeastNatural DEF Min

LEMMA GreatestPosition ==
    ASSUME NEW n \in Nat, NEW T \in SUBSET (0 .. n), T # {}
    PROVE  Max(T) \in T /\ \A y \in T : Max(T) >= y
<1> DEFINE U == {n - x : x \in T}
<1>1. \A x \in T : x \in Nat /\ n - x \in Nat  OBVIOUS
<1>2. U \in SUBSET Nat /\ U # {}  BY <1>1
<1>3. PICK u \in U : \A v \in U : u <= v  BY <1>2, LeastNatural
<1>4. PICK x \in T : u = n - x  BY <1>3
<1>5. ASSUME NEW y \in T PROVE x >= y
  <2>1. u <= n - y  BY <1>3
  <2> QED BY <1>1, <1>4, <2>1
<1>6. \E m \in T : \A y \in T : m >= y  BY <1>5
<1> QED BY <1>6 DEF Max

-----------------------------------------------------------------------------
(* Trimming. *)

LEMMA FromText ==
    ASSUME NEW C, NEW text \in Seq(C), NEW i \in 1 .. Len(text) + 1
    PROVE  /\ From(text, i) \in Seq(C)
           /\ Len(From(text, i)) = Len(text) + 1 - i
           /\ \A k \in 1 .. Len(text) + 1 - i : From(text, i)[k] = text[i + k - 1]
<1>1. Len(text) \in Nat  OBVIOUS
<1>2. \A k \in i .. Len(text) : text[k] \in C  BY ElementOfSeq
<1>3. From(text, i) = SubSeq(text, i, Len(text))  BY DEF From
<1>4. i \in Int /\ Len(text) \in Int  BY <1>1
<1>5. /\ SubSeq(text, i, Len(text)) \in Seq(C)
      /\ Len(SubSeq(text, i, Len(text))) = IF i <= Len(text) THEN Len(text) - i + 1 ELSE 0
      /\ \A k \in 1 .. Len(text) - i + 1 : SubSeq(text, i, Len(text))[k] = text[i + k - 1]
  BY <1>2, <1>4, SubSeqProperties
<1> QED BY <1>1, <1>3, <1>5

LEMMA TextFromStart ==
    ASSUME NEW C, NEW text \in Seq(C)
    PROVE  From(text, 1) = text
BY SubSeqFull DEF From

\* A trimmed text is a text; trimming leaves one that begins with another
\* character as it is, and makes none of nothing.
LEMMA TrimmedStart ==
    ASSUME NEW C, NEW text \in Seq(C)
    PROVE  /\ TrimStart(text) \in Seq(C)
           /\ text = <<>> => TrimStart(text) = <<>>
           /\ (text # <<>> /\ text[1] # Slash) => TrimStart(text) = text
<1> DEFINE T == {i \in DOMAIN text : text[i] # Slash} \cup {Len(text) + 1}
<1>1. Len(text) \in Nat /\ DOMAIN text = 1 .. Len(text)  OBVIOUS
<1>2. T \in SUBSET Nat /\ T # {} /\ T \subseteq 1 .. Len(text) + 1  BY <1>1
<1>3. Min(T) \in T /\ \A n \in T : Min(T) <= n  BY <1>2, LeastPosition
<1>4. Min(T) \in 1 .. Len(text) + 1  BY <1>2, <1>3
<1>5. TrimStart(text) = From(text, Min(T))  BY DEF TrimStart
<1>6. TrimStart(text) \in Seq(C) /\ Len(TrimStart(text)) = Len(text) + 1 - Min(T)
  <2> HIDE DEF T
  <2> QED BY <1>4, <1>5, FromText
<1>7. ASSUME text = <<>> PROVE TrimStart(text) = <<>>
  <2>1. Len(text) = 0  BY <1>7
  <2>2. Min(T) = 1  BY <1>4, <2>1
  <2> QED BY <1>6, <2>1, <2>2, EmptySeq
<1>8. ASSUME text # <<>>, text[1] # Slash PROVE TrimStart(text) = text
  <2>0. Len(text) \in Nat \ {0}  BY <1>8, EmptySeq
  <2>1. 1 \in T  BY <1>1, <1>8, <2>0
  <2>2. Min(T) <= 1  BY <1>3, <2>1
  <2>3. Min(T) = 1
    <3> HIDE DEF T
    <3> QED BY <1>1, <1>4, <2>2
  <2> QED BY <1>5, <2>3, TextFromStart
<1> QED BY <1>6, <1>7, <1>8

LEMMA TrimmedEnd ==
    ASSUME NEW C, NEW text \in Seq(C)
    PROVE  TrimEnd(text) \in Seq(C)
<1> DEFINE T == {i \in DOMAIN text : text[i] # Slash} \cup {0}
<1>1. Len(text) \in Nat /\ DOMAIN text = 1 .. Len(text)  OBVIOUS
<1>2. T \in SUBSET (0 .. Len(text)) /\ T # {}  BY <1>1
<1>3. Max(T) \in 0 .. Len(text)  BY <1>1, <1>2, GreatestPosition
<1>4. TrimEnd(text) = SubSeq(text, 1, Max(T))  BY DEF TrimEnd
<1> HIDE DEF T
<1>5. \A i \in 1 .. Max(T) : text[i] \in C  BY <1>1, <1>3, ElementOfSeq
<1>6. 1 \in Int /\ Max(T) \in Int  BY <1>3
<1> QED BY <1>4, <1>5, <1>6, SubSeqProperties

LEMMA NormalizedText ==
    ASSUME NEW C, NEW text \in Seq(C)
    PROVE  NormalizePrefix(text) \in Seq(C)
BY TrimmedStart, TrimmedEnd DEF NormalizePrefix

-----------------------------------------------------------------------------
(* Prefixes, roots and what lies below them. *)

\* IsPrefix compares character by character.
LEMMA PrefixOf ==
    ASSUME NEW C, NEW s \in Seq(C), NEW t \in Seq(C)
    PROVE  IsPrefix(s, t) <=> /\ Len(s) <= Len(t)
                              /\ \A i \in 1 .. Len(s) : s[i] = t[i]
<1>1. Len(s) \in Nat /\ Len(t) \in Nat  OBVIOUS
<1>2. SubSeq(s, 1, Len(s)) = s  BY SubSeqFull
<1>3. ASSUME Len(s) <= Len(t)
      PROVE  /\ SubSeq(t, 1, Len(s)) \in Seq(C)
             /\ Len(SubSeq(t, 1, Len(s))) = Len(s)
             /\ \A i \in 1 .. Len(s) : SubSeq(t, 1, Len(s))[i] = t[i]
  <2>1. \A i \in 1 .. Len(s) : t[i] \in C  BY <1>1, <1>3, ElementOfSeq
  <2>2. 1 \in Int /\ Len(s) \in Int  BY <1>1
  <2>3. /\ SubSeq(t, 1, Len(s)) \in Seq(C)
        /\ Len(SubSeq(t, 1, Len(s))) = IF 1 <= Len(s) THEN Len(s) - 1 + 1 ELSE 0
        /\ \A i \in 1 .. Len(s) - 1 + 1 : SubSeq(t, 1, Len(s))[i] = t[1 + i - 1]
    BY <2>1, <2>2, SubSeqProperties
  <2> QED BY <1>1, <2>3
<1>4. ASSUME Len(s) <= Len(t)
      PROVE  (s = SubSeq(t, 1, Len(s))) <=> \A i \in 1 .. Len(s) : s[i] = t[i]
  BY <1>3, <1>4, SeqEqual
<1> QED BY <1>2, <1>4 DEF IsPrefix

LEMMA BoundaryText ==
    ASSUME NEW C, Slash \in C, NEW root \in Seq(C)
    PROVE  Boundary(root) \in Seq(C)
BY EmptySeq, ConcatProperties DEF Boundary, NoRoot

\* A path lies below the root at the root's boundary.
LEMMA RootedAtBoundary ==
    ASSUME NEW C, Slash \in C, NEW root \in Seq(C), NEW path \in Seq(C)
    PROVE  /\ Rooted(root, path) = Boundary(root) \o path
           /\ Rooted(root, path) \in Seq(C)
<1>1. CASE root = NoRoot
  BY <1>1, ConcatEmptySeq DEF Rooted, Boundary, NoRoot
<1>2. CASE root # NoRoot
  <2>1. <<Slash>> \in Seq(C)  OBVIOUS
  <2>2. root \o <<Slash>> \in Seq(C)  BY <2>1, ConcatProperties
  <2>3. (root \o <<Slash>>) \o path \in Seq(C)  BY <2>2, ConcatProperties
  <2> QED BY <1>2, <2>3 DEF Rooted, Boundary
<1> QED BY <1>1, <1>2

LEMMA JoinedIsRooted ==
    ASSUME NEW C, Slash \in C, NEW root \in Seq(C), NEW key \in Seq(C),
           TrimStart(key) # <<>>
    PROVE  JoinKey(root, key) = Rooted(root, TrimStart(key))
BY DEF JoinKey, Rooted

\* What stripping the root leaves of a key below it, put back, is that key.
LEMMA StripThenRoot ==
    ASSUME NEW C, Slash \in C, NEW root \in Seq(C), NEW key \in Seq(C),
           Under(root, key)
    PROVE  /\ StripRoot(root, key) \in Seq(C)
           /\ Len(StripRoot(root, key)) = Len(key) - Len(Boundary(root))
           /\ Rooted(root, StripRoot(root, key)) = key
<1> DEFINE bound == Boundary(root)
           path  == StripRoot(root, key)
<1>1. bound \in Seq(C) /\ Len(bound) \in Nat /\ Len(key) \in Nat  BY BoundaryText
<1>2. Len(bound) <= Len(key) /\ \A i \in 1 .. Len(bound) : bound[i] = key[i]
  BY <1>1, PrefixOf DEF Under
<1>3. Len(bound) + 1 \in 1 .. Len(key) + 1  BY <1>1, <1>2
<1>4. path = From(key, Len(bound) + 1)  BY DEF StripRoot
<1> HIDE DEF bound, path
<1>5. /\ path \in Seq(C)
      /\ Len(path) = Len(key) - Len(bound)
      /\ \A k \in 1 .. Len(key) - Len(bound) : path[k] = key[Len(bound) + k]
  <2>1. /\ path \in Seq(C)
        /\ Len(path) = Len(key) + 1 - (Len(bound) + 1)
        /\ \A k \in 1 .. Len(key) + 1 - (Len(bound) + 1) :
              path[k] = key[Len(bound) + 1 + k - 1]
    BY <1>3, <1>4, FromText
  <2> QED BY <1>1, <2>1
<1>6. bound \o path = key
  <2>1. /\ bound \o path \in Seq(C)
        /\ Len(bound \o path) = Len(bound) + Len(path)
        /\ \A i \in 1 .. Len(bound) + Len(path) : (bound \o path)[i] =
              IF i <= Len(bound) THEN bound[i] ELSE path[i - Len(bound)]
    BY <1>1, <1>5, ConcatProperties
  <2>2. Len(bound \o path) = Len(key)  BY <1>1, <1>5, <2>1
  <2>3. ASSUME NEW i \in 1 .. Len(bound \o path) PROVE (bound \o path)[i] = key[i]
    <3>1. CASE i <= Len(bound)
      BY <1>1, <1>2, <2>1, <2>2, <3>1
    <3>2. CASE ~(i <= Len(bound))
      <4>1. i \in Int /\ i - Len(bound) \in 1 .. Len(key) - Len(bound)
        BY <1>1, <2>2, <3>2
      <4>2. path[i - Len(bound)] = key[Len(bound) + (i - Len(bound))]  BY <1>5, <4>1
      <4>3. Len(bound) + (i - Len(bound)) = i  BY <1>1, <4>1
      <4> QED BY <1>1, <1>5, <2>1, <2>2, <3>2, <4>2, <4>3
    <3> QED BY <3>1, <3>2
  <2> QED BY <2>1, <2>2, <2>3, SeqEqual
<1>7. Rooted(root, path) = bound \o path  BY <1>5, RootedAtBoundary DEF bound
<1> QED BY <1>5, <1>6, <1>7 DEF bound, path

\* Prefixes of a path are, behind the root, prefixes of its key.
LEMMA PrefixBelowRoot ==
    ASSUME NEW C, Slash \in C, NEW root \in Seq(C), NEW s \in Seq(C), NEW t \in Seq(C),
           IsPrefix(s, t)
    PROVE  IsPrefix(Boundary(root) \o s, Rooted(root, t))
<1> DEFINE bound == Boundary(root)
<1>1. bound \in Seq(C) /\ Len(bound) \in Nat /\ Len(s) \in Nat /\ Len(t) \in Nat
  BY BoundaryText
<1>2. Rooted(root, t) = bound \o t  BY RootedAtBoundary
<1> HIDE DEF bound
<1>3. Len(s) <= Len(t) /\ \A i \in 1 .. Len(s) : s[i] = t[i]  BY PrefixOf
<1>4. /\ bound \o s \in Seq(C)
      /\ Len(bound \o s) = Len(bound) + Len(s)
      /\ \A i \in 1 .. Len(bound) + Len(s) : (bound \o s)[i] =
            IF i <= Len(bound) THEN bound[i] ELSE s[i - Len(bound)]
  BY <1>1, ConcatProperties
<1>5. /\ bound \o t \in Seq(C)
      /\ Len(bound \o t) = Len(bound) + Len(t)
      /\ \A i \in 1 .. Len(bound) + Len(t) : (bound \o t)[i] =
            IF i <= Len(bound) THEN bound[i] ELSE t[i - Len(bound)]
  BY <1>1, ConcatProperties
<1>6. Len(bound \o s) <= Len(bound \o t)  BY <1>1, <1>3, <1>4, <1>5
<1>7. ASSUME NEW i \in 1 .. Len(bound \o s) PROVE (bound \o s)[i] = (bound \o t)[i]
  <2>1. i \in 1 .. Len(bound) + Len(s) /\ i \in 1 .. Len(bound) + Len(t)
    BY <1>1, <1>3, <1>4
  <2>2. CASE i <= Len(bound)  BY <1>4, <1>5, <2>1, <2>2
  <2>3. CASE ~(i <= Len(bound))
    <3>1. i - Len(bound) \in 1 .. Len(s)  BY <1>1, <2>1, <2>3
    <3> QED BY <1>3, <1>4, <1>5, <2>1, <2>3, <3>1
  <2> QED BY <2>2, <2>3
<1> QED BY <1>2, <1>4, <1>5, <1>6, <1>7, PrefixOf DEF bound

-----------------------------------------------------------------------------
(* Splitting and joining. *)

\* What is left of a text is a text, wherever it begins.
LEMMA FromAnywhere ==
    ASSUME NEW C, NEW text \in Seq(C), NEW i \in Nat \ {0}
    PROVE  From(text, i) \in Seq(C)
<1>1. Len(text) \in Int /\ i \in Int  OBVIOUS
<1>2. \A k \in i .. Len(text) : text[k] \in C  BY ElementOfSeq
<1>3. SubSeq(text, i, Len(text)) \in Seq(C)  BY <1>1, <1>2, SubSeqProperties
<1> QED BY <1>3 DEF From

LEMMA WithoutElement ==
    ASSUME NEW C, NEW d, NEW text \in Seq(C), \A k \in 1 .. Len(text) : text[k] # d
    PROVE  text \in Seq(C \ {d})
<1>1. Len(text) \in Int  OBVIOUS
<1>2. \A k \in 1 .. Len(text) : text[k] \in C \ {d}  BY ElementOfSeq
<1>3. 1 \in Int  OBVIOUS
<1>4. SubSeq(text, 1, Len(text)) \in Seq(C \ {d})  BY <1>1, <1>2, <1>3, SubSeqProperties
<1> QED BY <1>4, SubSeqFull

LEMMA FirstSlashAt ==
    ASSUME NEW C, NEW text \in Seq(C)
    PROVE  /\ FirstSlash(text) \in 1 .. Len(text) + 1
           /\ \A k \in 1 .. FirstSlash(text) - 1 : text[k] # Slash
           /\ FirstSlash(text) <= Len(text) => text[FirstSlash(text)] = Slash
<1> DEFINE T == {i \in DOMAIN text : text[i] = Slash} \cup {Len(text) + 1}
<1>1. Len(text) \in Nat /\ DOMAIN text = 1 .. Len(text)  OBVIOUS
<1>2. T \in SUBSET Nat /\ T # {} /\ T \subseteq 1 .. Len(text) + 1  BY <1>1
<1>3. Min(T) \in T /\ \A n \in T : Min(T) <= n  BY <1>2, LeastPosition
<1>4. FirstSlash(text) = Min(T)  BY DEF FirstSlash
<1>5. \A k \in 1 .. Len(text) : text[k] = Slash => k \in T  BY <1>1
<1>6. Min(T) <= Len(text) => text[Min(T)] = Slash  BY <1>1, <1>3
<1> HIDE DEF T
<1>7. Min(T) \in 1 .. Len(text) + 1  BY <1>2, <1>3
<1>8. ASSUME NEW k \in 1 .. Min(T) - 1 PROVE text[k] # Slash
  <2>1. k \in 1 .. Len(text) /\ ~(Min(T) <= k)  BY <1>1, <1>7
  <2> QED BY <1>3, <1>5, <2>1
<1> QED BY <1>4, <1>6, <1>7, <1>8

\* What precedes the first slash has none.
LEMMA SplitText ==
    ASSUME NEW C, NEW text \in Seq(C)
    PROVE  Before(text) \in Seq(C \ {Slash}) /\ After(text) \in Seq(C)
<1>1. PICK n : n = FirstSlash(text)  OBVIOUS
<1>2. n \in 1 .. Len(text) + 1 /\ \A k \in 1 .. n - 1 : text[k] # Slash
  BY <1>1, FirstSlashAt
<1>3. Len(text) \in Nat /\ 1 \in Int /\ n - 1 \in Int /\ n + 1 \in Nat \ {0}  BY <1>2
<1>4. \A k \in 1 .. n - 1 : text[k] \in C \ {Slash}  BY <1>2, <1>3, ElementOfSeq
<1>5. SubSeq(text, 1, n - 1) \in Seq(C \ {Slash})  BY <1>3, <1>4, SubSeqProperties
<1>6. From(text, n + 1) \in Seq(C)  BY <1>3, FromAnywhere
<1> QED BY <1>1, <1>5, <1>6 DEF Before, After

\* A text of u, an element d and v.
Around(x, u, d, v) == x = u \o <<d>> \o v

\* Where its parts stand.
LEMMA AroundAt ==
    ASSUME NEW C, NEW d \in C, NEW u \in Seq(C), NEW v \in Seq(C),
           NEW x, Around(x, u, d, v)
    PROVE  /\ x \in Seq(C) /\ Len(x) = Len(u) + 1 + Len(v)
           /\ \A i \in 1 .. Len(u) : x[i] = u[i]
           /\ x[Len(u) + 1] = d
           /\ \A i \in 1 .. Len(v) : x[Len(u) + 1 + i] = v[i]
<1> DEFINE head  == u \o <<d>>
           whole == head \o v
<1>0. Len(u) \in Nat /\ Len(v) \in Nat  OBVIOUS
<1>1. <<d>> \in Seq(C) /\ Len(<<d>>) = 1 /\ <<d>>[1] = d  OBVIOUS
<1>2. /\ head \in Seq(C) /\ Len(head) = Len(u) + 1 /\ head[Len(u) + 1] = d
      /\ \A i \in 1 .. Len(u) : head[i] = u[i]
  <2>1. /\ head \in Seq(C) /\ Len(head) = Len(u) + 1
        /\ \A i \in 1 .. Len(u) + 1 :
              head[i] = IF i <= Len(u) THEN u[i] ELSE <<d>>[i - Len(u)]
    BY <1>1, ConcatProperties
  <2>2. Len(u) + 1 \in 1 .. Len(u) + 1 /\ ~(Len(u) + 1 <= Len(u)) /\ Len(u) + 1 - Len(u) = 1
    BY <1>0
  <2>3. head[Len(u) + 1] = <<d>>[Len(u) + 1 - Len(u)]  BY <2>1, <2>2
  <2>4. head[Len(u) + 1] = d  BY <1>1, <2>2, <2>3
  <2>5. ASSUME NEW i \in 1 .. Len(u) PROVE head[i] = u[i]
    <3>1. i \in 1 .. Len(u) + 1 /\ i <= Len(u)  BY <1>0
    <3> QED BY <2>1, <3>1
  <2> QED BY <2>1, <2>4, <2>5
<1> HIDE DEF head
<1>3. /\ whole \in Seq(C) /\ Len(whole) = Len(u) + 1 + Len(v)
      /\ \A i \in 1 .. Len(u) + 1 : whole[i] = head[i]
      /\ \A i \in 1 .. Len(v) : whole[Len(u) + 1 + i] = v[i]
  <2>1. /\ whole \in Seq(C) /\ Len(whole) = Len(head) + Len(v)
        /\ \A i \in 1 .. Len(head) + Len(v) :
              whole[i] = IF i <= Len(head) THEN head[i] ELSE v[i - Len(head)]
    BY <1>2, ConcatProperties
  <2>2. ASSUME NEW i \in 1 .. Len(u) + 1 PROVE whole[i] = head[i]
    <3>1. i \in 1 .. Len(head) + Len(v) /\ i <= Len(head)  BY <1>0, <1>2
    <3> QED BY <2>1, <3>1
  <2>3. ASSUME NEW i \in 1 .. Len(v) PROVE whole[Len(u) + 1 + i] = v[i]
    <3>1. /\ Len(u) + 1 + i \in 1 .. Len(head) + Len(v) /\ ~(Len(u) + 1 + i <= Len(head))
          /\ Len(u) + 1 + i - Len(head) = i
      BY <1>0, <1>2
    <3>2. whole[Len(u) + 1 + i] = v[Len(u) + 1 + i - Len(head)]  BY <2>1, <3>1
    <3> QED BY <3>1, <3>2
  <2> QED BY <1>2, <2>1, <2>2, <2>3
<1> HIDE DEF whole
<1>4. \A i \in 1 .. Len(u) : i \in 1 .. Len(u) + 1  BY <1>0
<1>5. Len(u) + 1 \in 1 .. Len(u) + 1  BY <1>0
<1>6. x = whole  BY DEF Around, whole, head
<1> QED BY <1>2, <1>3, <1>4, <1>5, <1>6

\* A text is split at its first d in one way.
LEMMA SplitUnique ==
    ASSUME NEW C, NEW d \in C, NEW u \in Seq(C \ {d}), NEW t \in Seq(C \ {d}),
           NEW v \in Seq(C), NEW w \in Seq(C),
           NEW x, Around(x, u, d, v), Around(x, t, d, w)
    PROVE  u = t /\ v = w
<1>0. C \ {d} \subseteq C  OBVIOUS
<1>1. u \in Seq(C) /\ t \in Seq(C)  BY <1>0, SeqMonotonic
<1>3. /\ Len(x) = Len(u) + 1 + Len(v) /\ x[Len(u) + 1] = d
      /\ \A i \in 1 .. Len(u) : x[i] = u[i]
      /\ \A i \in 1 .. Len(v) : x[Len(u) + 1 + i] = v[i]
  BY <1>1, AroundAt
<1>4. /\ Len(x) = Len(t) + 1 + Len(w) /\ x[Len(t) + 1] = d
      /\ \A i \in 1 .. Len(t) : x[i] = t[i]
      /\ \A i \in 1 .. Len(w) : x[Len(t) + 1 + i] = w[i]
  BY <1>1, AroundAt
<1>5. /\ Len(u) \in Nat /\ Len(v) \in Nat /\ Len(t) \in Nat /\ Len(w) \in Nat
      /\ \A i \in 1 .. Len(u) : u[i] # d
      /\ \A i \in 1 .. Len(t) : t[i] # d
  BY ElementOfSeq
<1>6. ~(Len(u) < Len(t))
  <2> SUFFICES ASSUME Len(u) < Len(t) PROVE FALSE
    OBVIOUS
  <2>1. Len(u) + 1 \in 1 .. Len(t)  BY <1>5
  <2> QED BY <1>3, <1>4, <1>5, <2>1
<1>7. ~(Len(t) < Len(u))
  <2> SUFFICES ASSUME Len(t) < Len(u) PROVE FALSE
    OBVIOUS
  <2>1. Len(t) + 1 \in 1 .. Len(u)  BY <1>5
  <2> QED BY <1>3, <1>4, <1>5, <2>1
<1>8. Len(u) = Len(t)  BY <1>5, <1>6, <1>7
<1>9. Len(v) = Len(w)  BY <1>3, <1>4, <1>5, <1>8
<1>10. ASSUME NEW i \in 1 .. Len(u) PROVE u[i] = t[i]
  BY <1>3, <1>4, <1>8
<1>11. ASSUME NEW i \in 1 .. Len(v) PROVE v[i] = w[i]
  BY <1>3, <1>4, <1>8, <1>9
<1>12. u = t  BY <1>1, <1>8, <1>10, SeqEqual
<1>13. v = w  BY <1>9, <1>11, SeqEqual
<1> QED BY <1>12, <1>13

\* Splitting undoes joining.
LEMMA SplitJoined ==
    ASSUME NEW C, Slash \in C, NEW u \in Seq(C \ {Slash}), NEW v \in Seq(C),
           NEW x, Around(x, u, Slash, v)
    PROVE  Before(x) = u /\ After(x) = v
<1>0. C \ {Slash} \subseteq C  OBVIOUS
<1>1. u \in Seq(C)  BY <1>0, SeqMonotonic
<1>3. /\ x \in Seq(C) /\ Len(x) = Len(u) + 1 + Len(v) /\ x[Len(u) + 1] = Slash
      /\ \A i \in 1 .. Len(u) : x[i] = u[i]
      /\ \A i \in 1 .. Len(v) : x[Len(u) + 1 + i] = v[i]
  BY <1>1, AroundAt
<1>4. Len(u) \in Nat /\ Len(v) \in Nat /\ \A i \in 1 .. Len(u) : u[i] # Slash
  BY ElementOfSeq
<1>5. PICK n : n = FirstSlash(x)  OBVIOUS
<1>6. /\ n \in 1 .. Len(x) + 1 /\ \A k \in 1 .. n - 1 : x[k] # Slash
      /\ n <= Len(x) => x[n] = Slash
  BY <1>3, <1>5, FirstSlashAt
<1>7. ~(n < Len(u) + 1)
  <2> SUFFICES ASSUME n < Len(u) + 1 PROVE FALSE
    OBVIOUS
  <2>1. n \in 1 .. Len(u) /\ n <= Len(x)  BY <1>3, <1>4, <1>6
  <2> QED BY <1>3, <1>4, <1>6, <2>1
<1>8. ~(Len(u) + 1 < n)
  <2> SUFFICES ASSUME Len(u) + 1 < n PROVE FALSE
    OBVIOUS
  <2>1. Len(u) + 1 \in 1 .. n - 1  BY <1>3, <1>4, <1>6
  <2> QED BY <1>3, <1>6, <2>1
<1>9. n = Len(u) + 1
  <2>1. n \in Int /\ Len(u) + 1 \in Int  BY <1>4, <1>6
  <2> QED BY <1>7, <1>8, <2>1
<1>10. SubSeq(x, 1, Len(u)) = u
  <2>1. \A i \in 1 .. Len(u) : x[i] \in C  BY <1>1, <1>3, ElementOfSeq
  <2>2. 1 \in Int /\ Len(u) \in Int  BY <1>4
  <2>3. /\ SubSeq(x, 1, Len(u)) \in Seq(C)
        /\ Len(SubSeq(x, 1, Len(u))) = IF 1 <= Len(u) THEN Len(u) - 1 + 1 ELSE 0
        /\ \A i \in 1 .. Len(u) - 1 + 1 : SubSeq(x, 1, Len(u))[i] = x[1 + i - 1]
    BY <2>1, <2>2, SubSeqProperties
  <2>4. Len(SubSeq(x, 1, Len(u))) = Len(u)  BY <1>4, <2>3
  <2>5. \A i \in 1 .. Len(u) : SubSeq(x, 1, Len(u))[i] = u[i]  BY <1>3, <1>4, <2>3
  <2> QED BY <1>1, <2>3, <2>4, <2>5, SeqEqual
<1>11. From(x, Len(u) + 2) = v
  <2>1. PICK m : m = Len(u) + 2  OBVIOUS
  <2>2. m \in 1 .. Len(x) + 1 /\ m \in Nat /\ Len(x) + 1 - m = Len(v)
    BY <1>3, <1>4, <2>1
  <2>3. /\ From(x, m) \in Seq(C) /\ Len(From(x, m)) = Len(x) + 1 - m
        /\ \A k \in 1 .. Len(x) + 1 - m : From(x, m)[k] = x[m + k - 1]
    BY <1>3, <2>2, FromText
  <2>4. Len(From(x, m)) = Len(v)  BY <2>2, <2>3
  <2>5. ASSUME NEW k \in 1 .. Len(v) PROVE From(x, m)[k] = v[k]
    <3>1. k \in 1 .. Len(x) + 1 - m /\ m + k - 1 = Len(u) + 1 + k
      BY <1>4, <2>1, <2>2
    <3>2. From(x, m)[k] = x[m + k - 1]  BY <2>3, <3>1
    <3> QED BY <1>3, <3>1, <3>2
  <2>6. From(x, m) = v  BY <2>3, <2>4, <2>5, SeqEqual
  <2> QED BY <2>1, <2>6
<1>12. n - 1 = Len(u) /\ n + 1 = Len(u) + 2  BY <1>4, <1>9
<1>13. Before(x) = SubSeq(x, 1, Len(u)) /\ After(x) = From(x, Len(u) + 2)
  BY <1>5, <1>12 DEF Before, After
<1> QED BY <1>10, <1>11, <1>13

\* A text begins with what it is joined from, and ends with the rest.
LEMMA JoinedRest ==
    ASSUME NEW C, NEW s \in Seq(C), NEW t \in Seq(C)
    PROVE  IsPrefix(s, s \o t) /\ From(s \o t, Len(s) + 1) = t
<1>1. PICK x : x = s \o t  OBVIOUS
<1>2. /\ x \in Seq(C) /\ Len(x) = Len(s) + Len(t)
      /\ \A i \in 1 .. Len(s) + Len(t) : x[i] = IF i <= Len(s) THEN s[i] ELSE t[i - Len(s)]
  BY <1>1, ConcatProperties
<1>3. Len(s) \in Nat /\ Len(t) \in Nat  OBVIOUS
<1>4. IsPrefix(s, x)
  <2>1. Len(s) <= Len(x) /\ \A i \in 1 .. Len(s) : s[i] = x[i]  BY <1>2, <1>3
  <2> QED BY <1>2, <2>1, PrefixOf
<1>5. Len(s) + 1 \in 1 .. Len(x) + 1  BY <1>2, <1>3
<1>6. /\ From(x, Len(s) + 1) \in Seq(C)
      /\ Len(From(x, Len(s) + 1)) = Len(x) + 1 - (Len(s) + 1)
      /\ \A k \in 1 .. Len(x) + 1 - (Len(s) + 1) :
            From(x, Len(s) + 1)[k] = x[Len(s) + 1 + k - 1]
  BY <1>2, <1>5, FromText
<1>7. Len(From(x, Len(s) + 1)) = Len(t)  BY <1>2, <1>3, <1>6
<1>8. ASSUME NEW k \in 1 .. Len(t) PROVE From(x, Len(s) + 1)[k] = t[k]
  <2>1. /\ k \in 1 .. Len(x) + 1 - (Len(s) + 1) /\ Len(s) + 1 + k - 1 = Len(s) + k
        /\ Len(s) + k \in 1 .. Len(s) + Len(t) /\ ~(Len(s) + k <= Len(s))
        /\ Len(s) + k - Len(s) = k
    BY <1>2, <1>3
  <2>2. From(x, Len(s) + 1)[k] = x[Len(s) + 1 + k - 1]  BY <1>6, <2>1
  <2>3. x[Len(s) + k] = t[Len(s) + k - Len(s)]  BY <1>2, <2>1
  <2> QED BY <2>1, <2>2, <2>3
<1>9. From(x, Len(s) + 1) = t  BY <1>6, <1>7, <1>8, SeqEqual
<1> QED BY <1>1, <1>4, <1>9

-----------------------------------------------------------------------------
(* What holds of every reachable state. *)

\* Every provider comes of an accepted setup.
Built ==
    /\ setups \in Seq(Setups) /\ providers \in Seq({Setup(setup) : setup \in Setups})
    /\ Len(providers) = Len(setups)
    /\ \A i \in 1 .. Len(setups) :
          providers[i] = Setup(setups[i]) /\ Setup(setups[i]).ok

\* What is located was made of one text, by every provider.
Placed ==
    located # Nothing =>
        /\ located.text \in Texts
        /\ located.at = [i \in DOMAIN providers |-> Location(providers[i], located.text)]

Inv == Built /\ Placed

-----------------------------------------------------------------------------
(* The invariant. *)

LEMMA InitInv == Init => Inv
<1> SUFFICES ASSUME Init PROVE Inv
  OBVIOUS
<1>1. /\ setups \in Seq(Setups) /\ providers \in Seq({Setup(setup) : setup \in Setups})
      /\ Len(setups) = 0 /\ Len(providers) = 0
  BY EmptySeq DEF Init
<1> QED BY <1>1 DEF Init, Inv, Built, Placed

LEMMA BuildInv ==
    ASSUME Inv, NEW setup \in Setups, Build(setup)
    PROVE  Inv'
<1> DEFINE P == {Setup(s) : s \in Setups}
<1>1. /\ setups \in Seq(Setups) /\ Len(setups) \in Nat /\ providers \in Seq(P)
      /\ Len(providers) = Len(setups)
      /\ \A i \in 1 .. Len(setups) :
            providers[i] = Setup(setups[i]) /\ Setup(setups[i]).ok
  BY DEF Inv, Built
<1>2. /\ providers' = Append(providers, Setup(setup)) /\ setups' = Append(setups, setup)
      /\ Setup(setup).ok /\ located = Nothing /\ located' = located
  BY DEF Build
<1>3. /\ setups' \in Seq(Setups) /\ Len(setups') = Len(setups) + 1
      /\ setups'[Len(setups) + 1] = setup
      /\ \A i \in 1 .. Len(setups) : setups'[i] = setups[i]
  BY <1>1, <1>2, AppendProperties
<1>4. Setup(setup) \in P  OBVIOUS
<1> HIDE DEF P
<1>5. /\ providers' \in Seq(P) /\ Len(providers') = Len(setups) + 1
      /\ providers'[Len(setups) + 1] = Setup(setup)
      /\ \A i \in 1 .. Len(setups) : providers'[i] = providers[i]
  BY <1>1, <1>2, <1>4, AppendProperties
<1>6. ASSUME NEW i \in 1 .. Len(setups')
      PROVE  providers'[i] = Setup(setups'[i]) /\ Setup(setups'[i]).ok
  <2>1. CASE i = Len(setups) + 1  BY <1>2, <1>3, <1>5, <2>1
  <2>2. CASE i # Len(setups) + 1
    <3>1. i \in 1 .. Len(setups)  BY <1>1, <1>3, <2>2
    <3> QED BY <1>1, <1>3, <1>5, <3>1
  <2> QED BY <2>1, <2>2
<1>7. Built'  BY <1>3, <1>5, <1>6 DEF Built, P
<1>8. Placed'  BY <1>2 DEF Placed, Nothing
<1> QED BY <1>7, <1>8 DEF Inv

LEMMA LocateInv ==
    ASSUME Inv, NEW text \in Texts, Locate(text)
    PROVE  Inv'
<1>1. /\ UNCHANGED <<providers, setups>>
      /\ located' = [text |-> text,
                     at |-> [i \in DOMAIN providers |-> Location(providers[i], text)]]
  BY DEF Locate
<1>2. Built'  BY <1>1 DEF Inv, Built
<1>3. Placed'  BY <1>1 DEF Placed
<1> QED BY <1>2, <1>3 DEF Inv

THEOREM Invariance == Spec => []Inv
<1>1. Inv /\ [Next]_vars => Inv'
  <2> SUFFICES ASSUME Inv, [Next]_vars PROVE Inv'
    OBVIOUS
  <2>1. CASE UNCHANGED vars
    BY <2>1 DEF vars, Inv, Built, Placed
  <2> QED BY <2>1, BuildInv, LocateInv DEF Next
<1> QED BY <1>1, InitInv, PTL DEF Spec

-----------------------------------------------------------------------------
(* What was asked for. *)

LEMMA ProvidersAre ==
    ASSUME Inv, NEW i \in DOMAIN providers
    PROVE  /\ i \in DOMAIN setups /\ setups[i] \in Setups
           /\ providers[i] = Setup(setups[i]) /\ Setup(setups[i]).ok
<1>1. i \in 1 .. Len(setups)  BY LenProperties DEF Inv, Built
<1> QED BY <1>1, LenProperties, ElementOfSeq DEF Inv, Built

\* An accepted root is the one source of a root there was.
LEMMA AcceptedRoot ==
    ASSUME NEW path, NEW configured, Root(path, configured).ok,
           NEW asked \in {path, configured}
    PROVE  NormalizePrefix(asked) \in {NoRoot, Root(path, configured).root}
BY DEF Root

LEMMA RootKept == Inv => RootAsAsked
<1> SUFFICES ASSUME Inv, NEW i \in DOMAIN providers,
                    NEW asked \in {setups[i].root} \cup
                        (IF setups[i].by = "uri" THEN {ParsedUri(setups[i].uri).path}
                         ELSE {})
             PROVE  NormalizePrefix(asked) \in {NoRoot, providers[i].root}
  BY DEF RootAsAsked
<1> DEFINE path == IF setups[i].by = "uri" THEN ParsedUri(setups[i].uri).path ELSE <<>>
           root == Root(path, setups[i].root)
<1>1. providers[i] = Setup(setups[i]) /\ Setup(setups[i]).ok  BY ProvidersAre
<1>2. root.ok /\ Setup(setups[i]).root = root.root  BY <1>1 DEF Setup
<1>3. asked \in {path, setups[i].root}  OBVIOUS
<1> QED BY <1>1, <1>2, <1>3, AcceptedRoot

\* A value that is found is among the values.
LEMMA FoundIsHeld ==
    ASSUME NEW values, NEW names \in {AccessNames, SecretNames},
           FindFirst(values, names) # None
    PROVE  FindFirst(values, names) \in values
<1> DEFINE T == {i \in DOMAIN names : names[i] \in values}
<1>1. Holds(values, names) /\ FindFirst(values, names) = names[Min(T)]
  BY DEF FindFirst
<1>2. DOMAIN names \subseteq Nat  BY DEF AccessNames, SecretNames
<1>3. T \in SUBSET Nat /\ T # {}  BY <1>1, <1>2 DEF Holds
<1>4. Min(T) \in T  BY <1>3, LeastPosition
<1> QED BY <1>1, <1>4

\* Accepted credentials are the values that were passed, or the chain that was
\* asked for.
LEMMA CredentialsHeld ==
    ASSUME NEW asked, asked.mode \in Modes, Credentials(asked).ok,
           NEW found, found = IF asked.mode = "env" THEN asked.values \cap Ambient
                              ELSE asked.values,
           NEW given, given = Credentials(asked).from
    PROVE  /\ given.source = "static" =>
                /\ asked.mode \in {"inline", "env"}
                /\ {given.access, given.secret} \subseteq found
           /\ given.source = "chain" =>
                \/ asked.mode = "default_chain"
                \/ asked.mode = "profile" /\ given.profile = asked.profile
<1> DEFINE access == FindFirst(found, AccessNames)
           secret == FindFirst(found, SecretNames)
<1>1. CASE asked.mode = "default_chain"
  BY <1>1 DEF Credentials, Chain
<1>2. CASE asked.mode = "profile"
  BY <1>2 DEF Credentials, Chain
<1>3. CASE asked.mode = "credentials_file"
  BY <1>3 DEF Credentials
<1>4. CASE asked.mode \in {"inline", "env"}
  <2>1. /\ Credentials(asked).ok = (None \notin {access, secret})
        /\ given = Static(access, secret)
    BY <1>4 DEF Credentials
  <2>2. access # None /\ secret # None  BY <2>1
  <2>3. access \in found /\ secret \in found  BY <2>2, FoundIsHeld
  <2>4. given.source = "static" /\ given.access = access /\ given.secret = secret
    BY <2>1 DEF Static
  <2> QED BY <1>4, <2>3, <2>4
<1> QED BY <1>1, <1>2, <1>3, <1>4 DEF Modes

LEMMA CredentialsKept == Inv => CredentialsAsAsked
<1> SUFFICES ASSUME Inv, NEW i \in DOMAIN providers
             PROVE  LET asked == setups[i].credentials
                        found == IF asked.mode = "env" THEN asked.values \cap Ambient
                                 ELSE asked.values
                        given == providers[i].credentials
                    IN  /\ given.source = "static" =>
                             /\ asked.mode \in {"inline", "env"}
                             /\ {given.access, given.secret} \subseteq found
                        /\ given.source = "chain" =>
                             \/ asked.mode = "default_chain"
                             \/ asked.mode = "profile" /\ given.profile = asked.profile
  BY DEF CredentialsAsAsked
<1>1. PICK setup, asked, found, given :
        /\ setup = setups[i] /\ asked = setup.credentials
        /\ found = (IF asked.mode = "env" THEN asked.values \cap Ambient ELSE asked.values)
        /\ given = providers[i].credentials
  OBVIOUS
<1>2. setup \in Setups /\ providers[i] = Setup(setup) /\ Setup(setup).ok
  BY <1>1, ProvidersAre
<1>3. Credentials(asked).ok /\ given = Credentials(asked).from
  <2>1. /\ Setup(setup).ok => Credentials(setup.credentials).ok
        /\ Setup(setup).credentials = Credentials(setup.credentials).from
    BY DEF Setup
  <2> QED BY <1>1, <1>2, <2>1
<1>4. asked.mode \in Modes  BY <1>1, <1>2, SetupAssumption
<1>5. /\ given.source = "static" =>
           /\ asked.mode \in {"inline", "env"}
           /\ {given.access, given.secret} \subseteq found
      /\ given.source = "chain" =>
           \/ asked.mode = "default_chain"
           \/ asked.mode = "profile" /\ given.profile = asked.profile
  BY <1>1, <1>3, <1>4, CredentialsHeld
<1> QED BY <1>1, <1>5, Zenon

\* A provider's root is the one that was asked for, and it has the SDK's chain
\* only if that was asked for: explicit credentials are never completed or
\* replaced, whatever the URI, the configuration and the environment hold.
THEOREM BuiltAsAsked == Spec => []AsAsked
<1>1. Inv => AsAsked  BY RootKept, CredentialsKept DEF AsAsked
<1> QED BY <1>1, Invariance, PTL

-----------------------------------------------------------------------------
(* Identities. *)

\* What texts and identities consist of.
Written == Characters \cup {"s", "3", ":", "/", "a", "w", "*", "@", "|"}

LEMMA WrittenTexts ==
    /\ Characters \subseteq Written /\ Slash \in Written /\ Bar \in Written
    /\ S3Uri \in Seq(Written) /\ Len(S3Uri) = 5
    /\ Aws \in Seq(Written \ {Bar}) /\ Len(Aws) = 3
    /\ Stars \in Seq(Written \ {Bar}) /\ Len(Stars) = 4
<1>1. Characters \subseteq Written /\ Slash \in Written /\ Bar \in Written
  BY DEF Written, Slash, Bar
<1>2. S3Uri \in Seq(Written) /\ Len(S3Uri) = 5
  BY DEF Written, S3Uri
<1>3. {"a", "w", "s", "*", "@"} \subseteq Written \ {Bar}  BY DEF Written, Bar
<1>4. Aws \in Seq(Written \ {Bar}) /\ Len(Aws) = 3
  BY <1>3 DEF Aws
<1>5. Stars \in Seq(Written \ {Bar}) /\ Len(Stars) = 4
  BY <1>3 DEF Stars
<1> QED BY <1>1, <1>2, <1>4, <1>5

LEMMA Regrouped ==
    \A x, y, z \in Seq(Written) : (x \o y) \o z = x \o (y \o z)
BY ConcatAssociative

\* What is appended part by part is appended as a whole.
Chained(y, s, u, d, v) == y = s \o u \o <<d>> \o v

LEMMA Appended ==
    ASSUME NEW s \in Seq(Written), NEW u \in Seq(Written), NEW d \in Written,
           NEW v \in Seq(Written), NEW x, Around(x, u, d, v), NEW y, Chained(y, s, u, d, v)
    PROVE  x \in Seq(Written) /\ y = s \o x
<1>1. PICK t : t = <<d>>  OBVIOUS
<1>2. t \in Seq(Written)  BY <1>1
<1>3. PICK ut : ut = u \o t  OBVIOUS
<1>4. ut \in Seq(Written)  BY <1>2, <1>3, ConcatProperties
<1>5. (s \o u) \o t = s \o (u \o t)  BY <1>2, Regrouped
<1>6. (s \o ut) \o v = s \o (ut \o v)  BY <1>4, Regrouped
<1>7. x = ut \o v  BY <1>1, <1>3 DEF Around
<1>8. s \o u \o t \o v = s \o x  BY <1>3, <1>5, <1>6, <1>7, Zenon
<1>9. x \in Seq(Written)  BY <1>4, <1>7, ConcatProperties
<1> QED BY <1>1, <1>8, <1>9, Zenon DEF Chained

\* A text of three parts, as an identity has them.
InParts(whole, n, b, r, d) == whole = n \o <<d>> \o b \o <<d>> \o r

LEMMA TwiceAround ==
    ASSUME NEW n \in Seq(Written), NEW b \in Seq(Written), NEW r \in Seq(Written),
           NEW d \in Written, NEW whole, InParts(whole, n, b, r, d)
    PROVE  \E rest \in Seq(Written) : Around(whole, n, d, rest) /\ Around(rest, b, d, r)
<1>1. PICK nd : nd = n \o <<d>>  OBVIOUS
<1>2. nd \in Seq(Written)
  <2>1. <<d>> \in Seq(Written)  OBVIOUS
  <2> QED BY <1>1, <2>1, ConcatProperties
<1>3. PICK rest : Around(rest, b, d, r)  BY DEF Around
<1>4. Chained(whole, nd, b, d, r)  BY <1>1, Zenon DEF Chained, InParts
<1>5. rest \in Seq(Written) /\ whole = nd \o rest  BY <1>2, <1>3, <1>4, Appended
<1>6. Around(whole, n, d, rest)  BY <1>1, <1>5, Zenon DEF Around
<1> QED BY <1>3, <1>5, <1>6

LEMMA ParsedTexts ==
    ASSUME NEW C, NEW text \in Seq(C)
    PROVE  /\ ParsedUri(text).container \in Seq(C \ {Slash})
           /\ ParsedUri(text).path \in Seq(C)
<1> DEFINE rest == From(text, Len(S3Uri) + 1)
<1>1. Len(S3Uri) + 1 \in Nat \ {0}  BY WrittenTexts
<1>2. rest \in Seq(C)  BY <1>1, FromAnywhere
<1> HIDE DEF rest
<1>3. Before(rest) \in Seq(C \ {Slash}) /\ After(rest) \in Seq(C)  BY <1>2, SplitText
<1> QED BY <1>3 DEF ParsedUri, rest

\* The parts of an accepted setup are texts; its bucket has no bar and no slash.
LEMMA SetupTexts ==
    ASSUME NEW setup \in Setups
    PROVE  /\ Setup(setup).root \in Seq(Characters)
           /\ Setup(setup).bucket \in Seq(Characters \ {Bar, Slash})
           /\ Setup(setup).endpoint \in Seq(Characters)
           /\ Setup(setup).endpoint = NoEndpoint \/ HasScheme(Setup(setup).endpoint)
           /\ Setup(setup).ok => Setup(setup).bucket # <<>>
<1> DEFINE path == IF setup.by = "uri" THEN ParsedUri(setup.uri).path ELSE <<>>
           root == Root(path, setup.root)
<1>1. /\ setup.root \in Seq(Characters) /\ setup.uri \in Seq(Characters)
      /\ setup.endpoint \in Seq(Characters)
      /\ setup.endpoint = NoEndpoint \/ HasScheme(setup.endpoint)
  BY SetupAssumption
<1>2. path \in Seq(Characters)  BY <1>1, EmptySeq, ParsedTexts
<1>3. NormalizePrefix(path) \in Seq(Characters)
      /\ NormalizePrefix(setup.root) \in Seq(Characters)
  BY <1>1, <1>2, NormalizedText
<1>4. root.root \in Seq(Characters)  BY <1>3 DEF Root
<1>5. Setup(setup).root = root.root /\ Setup(setup).endpoint = setup.endpoint
  BY DEF Setup
<1>6. Setup(setup).bucket \in Seq(Characters \ {Bar, Slash})
      /\ (Setup(setup).ok => Setup(setup).bucket # <<>>)
  BY BucketAssumption DEF Setup
<1> QED BY <1>1, <1>4, <1>5, <1>6

\* Sanitizing adds no bar, and leaves more than stands for no endpoint.
LEMMA SanitizedText ==
    ASSUME NEW url \in Seq(Written), NoBar(url), HasScheme(url)
    PROVE  Sanitized(url) \in Seq(Written \ {Bar}) /\ Sanitized(url) # Aws
<1> DEFINE C == Written \ {Bar}
<1>1. url \in Seq(C)
  <2>1. \A k \in 1 .. Len(url) : url[k] # Bar  BY LenProperties DEF NoBar
  <2> QED BY <2>1, WithoutElement
<1>2. Stars \in Seq(C) /\ Len(Stars) = 4 /\ Len(Aws) = 3  BY WrittenTexts
<1> HIDE DEF C
<1>3. Len(url) \in Nat /\ DOMAIN url = 1 .. Len(url)  BY LenProperties
<1>4. CASE Ats(url) = {}
  <2>1. PICK n \in 1 .. Len(url) - 3 : TRUE  BY DEF HasScheme
  <2>2. Len(url) # Len(Aws)  BY <1>2, <1>3, <2>1
  <2> QED BY <1>1, <1>4, <2>2 DEF Sanitized, C
<1>5. CASE Ats(url) # {}
  <2>1. /\ Authority(url) \in SUBSET Nat /\ Authority(url) # {}
        /\ Authority(url) \subseteq 1 .. Len(url)
        /\ Ats(url) \in SUBSET (0 .. Len(url))
        /\ Ats(url) \subseteq 1 .. Len(url)
    BY <1>3, <1>5 DEF Ats, Authority
  <2>2. PICK m, n : m = Min(Authority(url)) /\ n = Max(Ats(url))  OBVIOUS
  <2>3. m \in 1 .. Len(url)  BY <2>1, <2>2, LeastPosition
  <2>4. n \in 1 .. Len(url)  BY <1>3, <1>5, <2>1, <2>2, GreatestPosition
  <2>5. SubSeq(url, 1, m - 1) \in Seq(C)
    <3>1. 1 \in Int /\ m - 1 \in Int  BY <1>3, <2>3
    <3>2. \A k \in 1 .. m - 1 : k \in 1 .. Len(url)  BY <1>3, <2>3
    <3>3. \A k \in 1 .. m - 1 : url[k] \in C  BY <1>1, <3>2, ElementOfSeq
    <3> QED BY <3>1, <3>3, SubSeqProperties
  <2>6. From(url, n + 1) \in Seq(C)
    <3>1. n + 1 \in Nat \ {0}  BY <1>3, <2>4
    <3> QED BY <1>1, <3>1, FromAnywhere
  <2>7. PICK a, b : a = SubSeq(url, 1, m - 1) /\ b = From(url, n + 1)  OBVIOUS
  <2>8. Sanitized(url) = a \o Stars \o b  BY <1>5, <2>2, <2>7 DEF Sanitized
  <2>9. /\ a \in Seq(C) /\ b \in Seq(C) /\ Len(a) \in Nat /\ Len(b) \in Nat
    BY <2>5, <2>6, <2>7, LenProperties
  <2>10. PICK stars, c : stars = Stars /\ c = a \o stars  OBVIOUS
  <2>11. c \in Seq(C) /\ Len(c) = Len(a) + Len(stars)
    BY <1>2, <2>9, <2>10, ConcatProperties
  <2>12. c \o b \in Seq(C) /\ Len(c \o b) = Len(c) + Len(b)
    BY <2>9, <2>11, ConcatProperties
  <2>13. Sanitized(url) = c \o b  BY <2>8, <2>10
  <2>14. Len(c \o b) # 3  BY <1>2, <2>9, <2>10, <2>11, <2>12
  <2> QED BY <1>2, <2>12, <2>13, <2>14 DEF C
<1> QED BY <1>4, <1>5

\* What an identity is made of, when its endpoint holds no bar.
LEMMA IdentityParts ==
    ASSUME Inv, NEW i \in DOMAIN providers, NEW p, p = providers[i], NoBar(p.endpoint)
    PROVE  /\ Named(p) \in Seq(Written \ {Bar})
           /\ p.bucket \in Seq(Written \ {Bar}) /\ p.root \in Seq(Written)
           /\ \E rest \in Seq(Written) : /\ Around(Identity(p), Named(p), Bar, rest)
                                         /\ Around(rest, p.bucket, Bar, p.root)
           /\ p.endpoint # NoEndpoint => Named(p) # Aws
<1>1. /\ p.root \in Seq(Characters) /\ p.bucket \in Seq(Characters \ {Bar, Slash})
      /\ p.endpoint \in Seq(Characters)
      /\ p.endpoint = NoEndpoint \/ HasScheme(p.endpoint)
  BY ProvidersAre, SetupTexts
<1>2. Characters \subseteq Written /\ Bar \in Written
      /\ Characters \ {Bar, Slash} \subseteq Written \ {Bar}
      /\ Written \ {Bar} \subseteq Written
  BY WrittenTexts
<1>3. /\ p.root \in Seq(Written) /\ p.bucket \in Seq(Written \ {Bar})
      /\ p.endpoint \in Seq(Written)
  BY <1>1, <1>2, SeqMonotonic
<1>4. Named(p) \in Seq(Written \ {Bar}) /\ (p.endpoint # NoEndpoint => Named(p) # Aws)
  BY <1>1, <1>3, SanitizedText, WrittenTexts DEF Named
<1>5. PICK n, b, r, d : n = Named(p) /\ b = p.bucket /\ r = p.root /\ d = Bar
  OBVIOUS
<1>6. n \in Seq(Written) /\ b \in Seq(Written) /\ r \in Seq(Written) /\ d \in Written
  BY <1>2, <1>3, <1>4, <1>5, SeqMonotonic
<1>7. PICK whole : whole = Identity(p) /\ InParts(whole, n, b, r, d)
  BY <1>5, Zenon DEF Identity, InParts
<1>8. \E rest \in Seq(Written) : Around(whole, n, d, rest) /\ Around(rest, b, d, r)
  BY <1>6, <1>7, TwiceAround
<1> QED BY <1>3, <1>4, <1>5, <1>7, <1>8, Zenon

\* Providers with one identity have the same endpoint, bucket and root.
LEMMA SameParts ==
    ASSUME Inv, NEW i \in DOMAIN providers, NEW j \in DOMAIN providers, Accepts(i, j)
    PROVE  /\ Sanitized(providers[i].endpoint) = Sanitized(providers[j].endpoint)
           /\ providers[i].bucket = providers[j].bucket
           /\ providers[i].root = providers[j].root
<1>1. PICK p, q : p = providers[i] /\ q = providers[j]  OBVIOUS
<1>2. Identity(p) = Identity(q) /\ NoBar(p.endpoint) /\ NoBar(q.endpoint)
  BY <1>1 DEF Accepts
<1>3. /\ Named(p) \in Seq(Written \ {Bar})
      /\ p.bucket \in Seq(Written \ {Bar}) /\ p.root \in Seq(Written)
      /\ \E rest \in Seq(Written) : /\ Around(Identity(p), Named(p), Bar, rest)
                                    /\ Around(rest, p.bucket, Bar, p.root)
      /\ p.endpoint # NoEndpoint => Named(p) # Aws
  BY <1>1, <1>2, IdentityParts
<1>4. /\ Named(q) \in Seq(Written \ {Bar})
      /\ q.bucket \in Seq(Written \ {Bar}) /\ q.root \in Seq(Written)
      /\ \E rest \in Seq(Written) : /\ Around(Identity(q), Named(q), Bar, rest)
                                    /\ Around(rest, q.bucket, Bar, q.root)
      /\ q.endpoint # NoEndpoint => Named(q) # Aws
  BY <1>1, <1>2, IdentityParts
<1>5. Bar \in Written  BY WrittenTexts
<1>6. PICK u \in Seq(Written) : /\ Around(Identity(p), Named(p), Bar, u)
                                /\ Around(u, p.bucket, Bar, p.root)
  BY <1>3
<1>7. PICK v \in Seq(Written) : /\ Around(Identity(q), Named(q), Bar, v)
                                /\ Around(v, q.bucket, Bar, q.root)
  BY <1>4
<1>8. Named(p) = Named(q) /\ u = v
  <2>1. PICK C, d, x, n, m : /\ C = Written /\ d = Bar /\ x = Identity(p)
                             /\ n = Named(p) /\ m = Named(q)
    OBVIOUS
  <2>2. /\ d \in C /\ n \in Seq(C \ {d}) /\ m \in Seq(C \ {d})
        /\ u \in Seq(C) /\ v \in Seq(C)
    BY <1>3, <1>4, <1>5, <2>1
  <2>3. Around(x, n, d, u) /\ Around(x, m, d, v)  BY <1>2, <1>6, <1>7, <2>1, Zenon
  <2>4. n = m /\ u = v  BY <2>2, <2>3, SplitUnique
  <2> QED BY <2>1, <2>4
<1>9. p.bucket = q.bucket /\ p.root = q.root
  <2>1. PICK C, d, a, b, r, t : /\ C = Written /\ d = Bar /\ a = p.bucket /\ b = q.bucket
                                /\ r = p.root /\ t = q.root
    OBVIOUS
  <2>2. /\ d \in C /\ a \in Seq(C \ {d}) /\ b \in Seq(C \ {d})
        /\ r \in Seq(C) /\ t \in Seq(C)
    BY <1>3, <1>4, <1>5, <2>1
  <2>3. Around(u, a, d, r) /\ Around(u, b, d, t)  BY <1>6, <1>7, <1>8, <2>1, Zenon
  <2>4. a = b /\ r = t  BY <2>2, <2>3, SplitUnique
  <2> QED BY <2>1, <2>4
<1>10. Sanitized(p.endpoint) = Sanitized(q.endpoint)
  <2>1. CASE p.endpoint = NoEndpoint
    BY <1>4, <1>8, <2>1 DEF Named
  <2>2. CASE p.endpoint # NoEndpoint
    BY <1>3, <1>8, <2>2 DEF Named
  <2> QED BY <2>1, <2>2
<1> QED BY <1>1, <1>9, <1>10

LEMMA SameLocations ==
    ASSUME NEW p, NEW q, NEW text, p.bucket = q.bucket, p.root = q.root
    PROVE  Location(p, text) = Location(q, text)
BY DEF Location, CopyLocation

\* Two providers with one identity, whose endpoints hold no bar, have the same
\* endpoint, bucket and root, and name the same objects: a selection or a
\* receipt of one of them means the same to the other.
THEOREM IdentityNamesTarget == Spec => []SameIdentitySameTarget
<1>1. ASSUME Inv PROVE SameIdentitySameTarget
  <2> SUFFICES ASSUME NEW i \in DOMAIN providers, NEW j \in DOMAIN providers, Accepts(i, j)
               PROVE  /\ providers[i].bucket = providers[j].bucket
                      /\ Sanitized(providers[i].endpoint) = Sanitized(providers[j].endpoint)
                      /\ located.at # <<>> => located.at[i] = located.at[j]
    BY DEF SameIdentitySameTarget
  <2>1. /\ providers[i].bucket = providers[j].bucket
        /\ Sanitized(providers[i].endpoint) = Sanitized(providers[j].endpoint)
        /\ Location(providers[i], located.text) = Location(providers[j], located.text)
    BY <1>1, SameParts, SameLocations
  <2>2. ASSUME located.at # <<>> PROVE located.at[i] = located.at[j]
    <3>1. located # Nothing  BY <2>2 DEF Nothing
    <3> QED BY <1>1, <2>1, <3>1 DEF Inv, Placed
  <2> QED BY <2>1, <2>2
<1> QED BY <1>1, Invariance, PTL

-----------------------------------------------------------------------------
(* Keys. *)

LEMMA LocatedAt ==
    ASSUME Inv, NEW i \in DOMAIN located.at
    PROVE  /\ i \in DOMAIN providers /\ located.text \in Seq(Characters)
           /\ providers[i].root \in Seq(Characters)
           /\ located.at[i] = Location(providers[i], located.text)
<1>1. located # Nothing  BY DEF Nothing
<1>2. /\ located.text \in Texts
      /\ located.at = [k \in DOMAIN providers |-> Location(providers[k], located.text)]
  BY <1>1 DEF Inv, Placed
<1>3. i \in DOMAIN providers  BY <1>2
<1>4. located.text \in Seq(Characters)  BY <1>2, TextAssumption
<1>5. providers[i] = Setup(setups[i]) /\ setups[i] \in Setups  BY <1>3, ProvidersAre
<1>6. providers[i].root \in Seq(Characters)  BY <1>5, SetupTexts
<1> QED BY <1>2, <1>3, <1>4, <1>6

LEMMA KeysBelow == Inv => KeyIsBelowRoot
<1>1. ASSUME Inv, NEW i \in DOMAIN located.at, TrimStart(located.text) # <<>>,
             NEW p, p = providers[i], NEW copy, copy = located.at[i].copy
      PROVE  /\ located.at[i].key = Resolved(Rooted(p.root, TrimStart(located.text)))
             /\ ~IsAbsolute(located.text) =>
                   copy.ok /\ copy.bucket = p.bucket /\ copy.key = located.at[i].key.key
  <2>1. PICK text : text = located.text  OBVIOUS
  <2>2. /\ text \in Seq(Characters) /\ p.root \in Seq(Characters)
        /\ located.at[i] = Location(p, text) /\ TrimStart(text) # <<>>
    BY <1>1, <2>1, LocatedAt
  <2>3. text # <<>>  BY <2>2, TrimmedStart
  <2>4. ResolveKey(p.root, text) = Resolved(Rooted(p.root, TrimStart(text)))
    BY <2>2, <2>3, JoinedIsRooted, TextAssumption DEF ResolveKey
  <2>5. located.at[i].key = ResolveKey(p.root, text) /\ copy = CopyLocation(p, text)
    BY <1>1, <2>2 DEF Location
  <2>6. ResolveKey(p.root, text).ok  BY <2>4 DEF Resolved
  <2>7. ~IsAbsolute(text) =>
            copy.ok /\ copy.bucket = p.bucket /\ copy.key = ResolveKey(p.root, text).key
    BY <2>5, <2>6 DEF CopyLocation
  <2> QED BY <2>1, <2>4, <2>5, <2>7
<1> QED BY <1>1 DEF KeyIsBelowRoot

\* What a caller's copy argument names is a bucket and a key.
LEMMA CopyNames ==
    ASSUME NEW p, NEW text \in Seq(Characters), p.root \in Seq(Characters),
           p.bucket \in Seq(Characters \ {Bar, Slash}), p.bucket # <<>>,
           NEW copy, copy = CopyLocation(p, text), copy.ok
    PROVE  /\ copy = [ok |-> TRUE, bucket |-> copy.bucket, key |-> copy.key]
           /\ copy.bucket \in Seq(Characters \ {Slash}) /\ copy.bucket # <<>>
           /\ copy.key \in Seq(Characters)
<1>1. CASE IsAbsolute(text)
  <2>1. PICK uri : uri = ParsedUri(text)  OBVIOUS
  <2>2. uri.container \in Seq(Characters \ {Slash}) /\ uri.path \in Seq(Characters)
    BY <2>1, ParsedTexts
  <2>3. copy = [ok |-> uri.ok, bucket |-> uri.container, key |-> uri.path]
    BY <1>1, <2>1 DEF CopyLocation
  <2>4. uri.ok  BY <2>3
  <2>5. uri.ok = TRUE /\ uri.container # <<>>  BY <2>1, <2>4 DEF ParsedUri
  <2>6. copy = [ok |-> TRUE, bucket |-> uri.container, key |-> uri.path]
    BY <2>3, <2>5, Zenon
  <2>7. copy.bucket = uri.container /\ copy.key = uri.path  BY <2>6
  <2> QED BY <2>2, <2>5, <2>6, <2>7, Zenon
<1>2. CASE ~IsAbsolute(text)
  <2>1. PICK key : key = ResolveKey(p.root, text)  OBVIOUS
  <2>2. copy = [ok |-> key.ok, bucket |-> p.bucket, key |-> key.key]
    BY <1>2, <2>1 DEF CopyLocation
  <2>3. key.ok  BY <2>2
  <2>4. key = Resolved(JoinKey(p.root, text))
    BY <2>1, <2>3 DEF ResolveKey, Unresolved
  <2>5. key.ok = TRUE /\ key.key = JoinKey(p.root, text)  BY <2>4 DEF Resolved
  <2>6. JoinKey(p.root, text) \in Seq(Characters)
    <3>1. TrimStart(text) \in Seq(Characters)  BY TrimmedStart
    <3>2. Rooted(p.root, TrimStart(text)) \in Seq(Characters)
      BY <3>1, RootedAtBoundary, TextAssumption
    <3> QED BY <3>1, <3>2 DEF JoinKey, Rooted
  <2>7. Characters \ {Bar, Slash} \subseteq Characters \ {Slash}  OBVIOUS
  <2>8. p.bucket \in Seq(Characters \ {Slash})  BY <2>7, SeqMonotonic
  <2>9. copy = [ok |-> TRUE, bucket |-> p.bucket, key |-> JoinKey(p.root, text)]
    BY <2>2, <2>5, Zenon
  <2>10. copy.bucket = p.bucket /\ copy.key = JoinKey(p.root, text)  BY <2>9
  <2> QED BY <2>6, <2>8, <2>9, <2>10, Zenon
<1> QED BY <1>1, <1>2

\* A reported URI is taken as it is and split where it was joined.
LEMMA ReportedIsTaken ==
    ASSUME NEW q, NEW copy, copy = [ok |-> TRUE, bucket |-> copy.bucket, key |-> copy.key],
           copy.bucket \in Seq(Characters \ {Slash}), copy.bucket # <<>>,
           copy.key \in Seq(Characters)
    PROVE  CopyLocation(q, Reported(copy)) = copy
<1>1. /\ Characters \subseteq Written /\ Slash \in Written
      /\ Characters \ {Slash} \subseteq Written \ {Slash}
      /\ Written \ {Slash} \subseteq Written /\ S3Uri \in Seq(Written)
  BY WrittenTexts
<1>2. PICK s, b, d, k : s = S3Uri /\ b = copy.bucket /\ d = Slash /\ k = copy.key
  OBVIOUS
<1>3. /\ b \in Seq(Written \ {Slash}) /\ k \in Seq(Written) /\ s \in Seq(Written)
      /\ d \in Written
  BY <1>1, <1>2, SeqMonotonic
<1>4. b \in Seq(Written)  BY <1>1, <1>3, SeqMonotonic
<1>5. PICK rest : Around(rest, b, d, k)  BY DEF Around
<1>6. PICK text : text = Reported(copy)  OBVIOUS
<1>7. Chained(text, s, b, d, k)  BY <1>2, <1>6, Zenon DEF Reported, Chained
<1>8. rest \in Seq(Written) /\ text = s \o rest
  BY <1>3, <1>4, <1>5, <1>7, Appended
<1>9. IsPrefix(s, text) /\ From(text, Len(s) + 1) = rest
  BY <1>3, <1>8, JoinedRest
<1>10. Before(rest) = b /\ After(rest) = k
  <2>1. Around(rest, b, Slash, k)  BY <1>2, <1>5, Zenon
  <2> QED BY <1>1, <1>3, <2>1, SplitJoined
<1>11. IsAbsolute(text) /\ ParsedUri(text) = [ok |-> TRUE, container |-> b, path |-> k]
  BY <1>2, <1>9, <1>10 DEF IsAbsolute, ParsedUri
<1>12. CopyLocation(q, text) = [ok |-> TRUE, bucket |-> b, key |-> k]
  BY <1>11 DEF CopyLocation
<1> QED BY <1>2, <1>6, <1>12

LEMMA ReportedAreResolved == Inv => ReportedResolves
<1> SUFFICES ASSUME Inv, NEW i \in DOMAIN located.at, NEW j \in DOMAIN located.at,
                    located.at[i].copy.ok
             PROVE  CopyLocation(providers[j], Reported(located.at[i].copy))
                        = located.at[i].copy
  BY DEF ReportedResolves
<1>1. PICK p, text, copy : p = providers[i] /\ text = located.text
                           /\ copy = located.at[i].copy
  OBVIOUS
<1>2. /\ text \in Seq(Characters) /\ located.at[i] = Location(p, text)
      /\ i \in DOMAIN providers
  BY <1>1, LocatedAt
<1>3. copy = CopyLocation(p, text) /\ copy.ok  BY <1>1, <1>2 DEF Location
<1>4. /\ p.root \in Seq(Characters) /\ p.bucket \in Seq(Characters \ {Bar, Slash})
      /\ p.bucket # <<>>
  BY <1>1, <1>2, ProvidersAre, SetupTexts
<1>5. /\ copy = [ok |-> TRUE, bucket |-> copy.bucket, key |-> copy.key]
      /\ copy.bucket \in Seq(Characters \ {Slash}) /\ copy.bucket # <<>>
      /\ copy.key \in Seq(Characters)
  BY <1>2, <1>3, <1>4, CopyNames
<1> QED BY <1>1, <1>5, ReportedIsTaken

\* A path that a listing returned, given to an object call, is its key again.
LEMMA PathResolves ==
    ASSUME NEW root \in Seq(Characters), NEW key \in Seq(Characters), Under(root, key),
           StripRoot(root, key) # <<>>, StripRoot(root, key)[1] # Slash
    PROVE  ResolveKey(root, StripRoot(root, key)) = Resolved(key)
<1> DEFINE path == StripRoot(root, key)
<1>1. path \in Seq(Characters) /\ Rooted(root, path) = key
  BY StripThenRoot, TextAssumption
<1>2. path # <<>> /\ path[1] # Slash  OBVIOUS
<1> HIDE DEF path
<1>3. TrimStart(path) = path  BY <1>1, <1>2, TrimmedStart
<1>4. JoinKey(root, path) = key  BY <1>1, <1>2, <1>3, JoinedIsRooted, TextAssumption
<1>5. ResolveKey(root, path) = Resolved(key)  BY <1>2, <1>4 DEF ResolveKey
<1> QED BY <1>5 DEF path

\* Whatever begins with a list prefix lies under the root.
LEMMA PrefixedIsUnder ==
    ASSUME NEW root \in Seq(Characters), NEW prefix \in Seq(Characters),
           NEW key \in Seq(Characters), IsPrefix(Boundary(root) \o prefix, key)
    PROVE  Under(root, key)
<1> DEFINE bound == Boundary(root)
<1>1. bound \in Seq(Characters) /\ Len(bound) \in Nat /\ Len(prefix) \in Nat
  BY BoundaryText, TextAssumption
<1> HIDE DEF bound
<1>2. /\ bound \o prefix \in Seq(Characters)
      /\ Len(bound \o prefix) = Len(bound) + Len(prefix)
      /\ \A i \in 1 .. Len(bound) + Len(prefix) : (bound \o prefix)[i] =
            IF i <= Len(bound) THEN bound[i] ELSE prefix[i - Len(bound)]
  BY <1>1, ConcatProperties
<1>3. /\ Len(bound \o prefix) <= Len(key)
      /\ \A i \in 1 .. Len(bound \o prefix) : (bound \o prefix)[i] = key[i]
  BY <1>2, PrefixOf DEF bound
<1>4. Len(key) \in Nat  OBVIOUS
<1>5. Len(bound) <= Len(key)  BY <1>1, <1>2, <1>3, <1>4
<1>6. ASSUME NEW i \in 1 .. Len(bound) PROVE bound[i] = key[i]
  <2>1. i \in 1 .. Len(bound) + Len(prefix) /\ i <= Len(bound)  BY <1>1
  <2> QED BY <1>2, <1>3, <2>1
<1>7. IsPrefix(bound, key)  BY <1>1, <1>5, <1>6, PrefixOf
<1> QED BY <1>7 DEF Under, bound

LEMMA ListedAreResolved == Inv => ListedResolves
<1> SUFFICES ASSUME Inv, NEW i \in DOMAIN located.at, NEW key \in Texts,
                    located.at[i].prefix.ok, IsPrefix(located.at[i].prefix.key, key),
                    StripRoot(providers[i].root, key) # <<>>,
                    StripRoot(providers[i].root, key)[1] # Slash
             PROVE  ResolveKey(providers[i].root, StripRoot(providers[i].root, key))
                        = Resolved(key)
  BY DEF ListedResolves
<1>1. PICK p, text : p = providers[i] /\ text = located.text
  OBVIOUS
<1>2. /\ text \in Seq(Characters) /\ p.root \in Seq(Characters)
      /\ located.at[i] = Location(p, text)
  BY <1>1, LocatedAt
<1>3. located.at[i].prefix = ResolveListPrefix(p.root, text)
  BY <1>2 DEF Location
<1>4. located.at[i].prefix.key = Boundary(p.root) \o text
  BY <1>3 DEF ResolveListPrefix, Resolved, Unresolved
<1>5. key \in Seq(Characters)  BY TextAssumption
<1>6. Under(p.root, key)  BY <1>2, <1>4, <1>5, PrefixedIsUnder
<1> QED BY <1>1, <1>2, <1>5, <1>6, PathResolves

LEMMA WrittenAreListed == Inv => WrittenIsListed
<1> SUFFICES ASSUME Inv, NEW i \in DOMAIN located.at, NEW key \in Texts,
                    located.at[i].prefix.ok, IsPrefix(located.text, key),
                    TrimStart(key) # <<>>
             PROVE  IsPrefix(located.at[i].prefix.key,
                             ResolveKey(providers[i].root, key).key)
  BY DEF WrittenIsListed
<1>1. PICK p, text : p = providers[i] /\ text = located.text
  OBVIOUS
<1>2. /\ text \in Seq(Characters) /\ p.root \in Seq(Characters)
      /\ located.at[i] = Location(p, text)
  BY <1>1, LocatedAt
<1>3. located.at[i].prefix = ResolveListPrefix(p.root, text)
  BY <1>2 DEF Location
<1>4. located.at[i].prefix.key = Boundary(p.root) \o text /\ Relative(text)
  BY <1>3 DEF ResolveListPrefix, Resolved, Unresolved
<1>5. key \in Seq(Characters) /\ TrimStart(key) \in Seq(Characters) /\ key # <<>>
      /\ TrimStart(key) # <<>>
  BY TextAssumption, TrimmedStart
<1>6. ResolveKey(p.root, key).key = Rooted(p.root, TrimStart(key))
  BY <1>2, <1>5, JoinedIsRooted, TextAssumption DEF ResolveKey, Resolved
<1>7. IsPrefix(text, key)  BY <1>1
<1>8. IsPrefix(text, TrimStart(key))
  <2>1. CASE text = <<>>
    <3>1. PICK t : t = TrimStart(key)  OBVIOUS
    <3>2. Len(text) = 0 /\ t \in Seq(Characters) /\ Len(t) \in Nat  BY <1>5, <2>1, <3>1
    <3>3. Len(text) <= Len(t) /\ \A k \in 1 .. Len(text) : text[k] = t[k]  BY <3>2
    <3>4. text \in Seq(Characters)  BY <1>2
    <3>5. IsPrefix(text, t)  BY <3>2, <3>3, <3>4, PrefixOf
    <3> QED BY <3>1, <3>5
  <2>2. CASE text # <<>>
    <3>1. text[1] # Slash  BY <1>4, <2>2 DEF Relative
    <3>2. Len(text) \in Nat \ {0}  BY <1>2, <2>2, EmptySeq
    <3>3. key[1] = text[1]  BY <1>2, <1>5, <1>7, <3>2, PrefixOf
    <3>4. TrimStart(key) = key  BY <1>5, <3>1, <3>3, TrimmedStart
    <3> QED BY <1>7, <3>4
  <2> QED BY <2>1, <2>2
<1>9. IsPrefix(Boundary(p.root) \o text, Rooted(p.root, TrimStart(key)))
  BY <1>2, <1>5, <1>8, PrefixBelowRoot, TextAssumption
<1> QED BY <1>1, <1>4, <1>6, <1>9

\* Object calls, copies and listings name the same objects by the same paths, and
\* what a relayed copy reports names them again, for every root, key and list
\* prefix; a copy's s3:// URI is the exception that the code makes.
THEOREM PathsAgree == Spec => []KeysAgree
<1>1. Inv => KeysAgree
  BY KeysBelow, ReportedAreResolved, ListedAreResolved, WrittenAreListed DEF KeysAgree
<1> QED BY <1>1, Invariance, PTL
=============================================================================
