------------------------------ MODULE RootedKeys ------------------------------
(***************************************************************************)
(* How the S3 provider (crates/storageprims-s3) turns what a caller names  *)
(* into keys of the bucket and back: the root prefix, object keys, list    *)
(* prefixes and copy locations.  A text is a sequence of characters; the   *)
(* empty root stands for a provider without one.                           *)
(***************************************************************************)
EXTENDS Integers, SequencesExt, FiniteSetsExt

Slash  == "/"
Colon  == ":"
NoRoot == <<>>

\* What a URI scheme may begin with, and consist of.
Letters == {"a", "b", "c", "g", "h", "s"}
Schemed == Letters \cup {"3", "+", "-", "."}

-----------------------------------------------------------------------------
(* Trimming and joining. *)

From(text, i) == SubSeq(text, i, Len(text))

\* trim_start_matches('/'): what is left begins with another character.
TrimStart(text) ==
    From(text, Min({i \in DOMAIN text : text[i] # Slash} \cup {Len(text) + 1}))

TrimEnd(text) ==
    SubSeq(text, 1, Max({i \in DOMAIN text : text[i] # Slash} \cup {0}))

NormalizePrefix(text) == TrimEnd(TrimStart(text))

\* Mutant: the key is appended to the root as it is.
JoinKeyBare(root, key) == root \o TrimStart(key)

\* A key of slashes only names the root itself.
JoinKey(root, key) ==
    IF root = NoRoot THEN TrimStart(key)
    ELSE IF TrimStart(key) = <<>> THEN root
    ELSE root \o <<Slash>> \o TrimStart(key)

\* list_root_boundary(): everything below a root begins with it.
Boundary(root) == IF root = NoRoot THEN <<>> ELSE root \o <<Slash>>

Under(root, key) == IsPrefix(Boundary(root), key)

\* strip_root_prefix(), of a key under the root.
StripRoot(root, key) == From(key, Len(Boundary(root)) + 1)

\* The key of a path: what the other operators are held against.
Rooted(root, path) == IF root = NoRoot THEN path ELSE root \o <<Slash>> \o path

-----------------------------------------------------------------------------
(* What callers name. *)

\* A "://" at position i.
SchemeEnds(text, i) == i + 2 <= Len(text) /\ SubSeq(text, i, i + 2) = <<Colon, Slash, Slash>>

\* Some text before "://" that is a URI scheme.
HasScheme(text) ==
    \E n \in 1 .. Len(text) - 3 :
        /\ SchemeEnds(text, n + 1)
        /\ text[1] \in Letters /\ \A i \in 2 .. n : text[i] \in Schemed

Resolved(key)    == [ok |-> TRUE, key |-> key]
Unresolved       == [ok |-> FALSE, key |-> <<>>]

ResolveKey(root, key) ==
    IF key = <<>> THEN Unresolved ELSE Resolved(JoinKey(root, key))

Relative(prefix) == ~(prefix # <<>> /\ prefix[1] = Slash) /\ ~HasScheme(prefix)

\* A list prefix is literal: it is appended to the boundary.
ResolveListPrefix(root, prefix) ==
    IF Relative(prefix) THEN Resolved(Boundary(root) \o prefix) ELSE Unresolved
=============================================================================
