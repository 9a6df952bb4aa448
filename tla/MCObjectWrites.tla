---------------------------- MODULE MCObjectWrites ----------------------------
(***************************************************************************)
(* ObjectWrites with two clients that update one key under preconditions   *)
(* and a third that deletes it and copies it, within its bucket and to     *)
(* another one.                                                            *)
(***************************************************************************)
EXTENDS ObjectWrites, TLC

CONSTANTS a, b, d   \* clients

MCKeys   == {"source", "near", "far"}
MCBucket == [k \in MCKeys |-> IF k = "far" THEN "elsewhere" ELSE "bucket"]

Call(op, to, intent) == [op |-> op, key |-> to, from |-> "source", intent |-> intent]
Updates == {Call("put", "source", i) : i \in {"must_not_exist", "match"}}
Others  == {Call("delete", "source", "none"), Call("copy", "near", "none"),
            Call("copy", "far", "none")}

MCPlans == [c \in {a, b, d} |-> IF c = d THEN Others ELSE Updates]

Symmetry == Permutations({a, b})
=============================================================================
