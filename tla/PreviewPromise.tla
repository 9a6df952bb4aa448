---------------------------- MODULE PreviewPromise ----------------------------
(***************************************************************************)
(* What a selected preview promises its caller, with nothing of how it is  *)
(* read: some one version of the object is chosen, one that was current    *)
(* while the call was open unless the caller chose it, and the call ends   *)
(* once, with the exact prefix of that version or with an error.           *)
(***************************************************************************)
EXTENDS Integers

CONSTANTS Versions, Size, NoVersion

VARIABLES
    length,       \* the bytes asked for
    preselected,  \* the caller brought a selection with it
    current,      \* the version the key holds now
    chosen,       \* the version the preview is bound to
    answer        \* its status, and the bytes and where they came from

vars == <<length, preselected, current, chosen, answer>>

Unanswered(status) == [status |-> status, of |-> {}, bytes |-> 0]

Prefix == [status |-> "fulfilled", of |-> {chosen},
           bytes  |-> IF length <= Size[chosen] THEN length ELSE Size[chosen]]

Init ==
    /\ current \in Versions
    /\ chosen = NoVersion
    /\ answer = Unanswered("pending")

\* Other writers come and go at any time.
Write ==
    /\ current' \in Versions \cup {NoVersion}
    /\ UNCHANGED <<length, preselected, chosen, answer>>

\* The next step of the call may fail together with the choice.
Choose ==
    /\ answer.status = "pending" /\ chosen = NoVersion
    /\ chosen' \in IF preselected THEN Versions ELSE {current} \ {NoVersion}
    /\ answer' \in {Unanswered("pending"), Unanswered("refused")}
    /\ UNCHANGED <<length, preselected, current>>

Refuse ==
    /\ answer.status = "pending"
    /\ answer' = Unanswered("refused")
    /\ UNCHANGED <<length, preselected, current, chosen>>

Fulfil ==
    /\ answer.status = "pending" /\ chosen # NoVersion
    /\ answer' = Prefix
    /\ UNCHANGED <<length, preselected, current, chosen>>

Next == Write \/ Choose \/ Refuse \/ Fulfil

Spec == Init /\ [][Next]_vars
=============================================================================
