-------------------------- MODULE BoundedInspection --------------------------
(***************************************************************************)
(* One bounded inspection of one stored object, from the call to its       *)
(* result: preview_bytes, preview_bytes_selected, head_lines, tail_lines,  *)
(* mid_lines and count_lines of crates/storageprims-ops/src/lib.rs.        *)
(*                                                                         *)
(* An inspection observes its source once, binds a selection, asks the     *)
(* selected HEAD for a size and then reads one to three byte windows.  All *)
(* of it is charged to one InspectionLedger, and every await is raced      *)
(* against the ledger's deadline.  The provider is the environment: it may *)
(* hang, fail, answer with a window it was not asked for, end a body early *)
(* or send a byte too many, while writers replace and delete the object.   *)
(*                                                                         *)
(* Bytes are abstracted to their positions in a version of the object, and *)
(* line parsing to the number of lines a window may hold (LineFraming has  *)
(* the parsing itself).                                                    *)
(***************************************************************************)
EXTENDS Integers

CONSTANTS
    Versions,       \* every version the key may ever hold
    Size,           \* Size[v]: the bytes in version v
    NoVersion,      \* the key is absent or behind a delete marker
    NoSelection,    \* nothing has been bound yet
    NoTotal,        \* a receipt that does not name the object's total size
    Calls,          \* the calls a client may make
    DefaultBudget,  \* InspectionBudget::default()
    Cap             \* the MAX_* ceilings, and the longest wall time that the
                    \* monotonic clock can represent

Dimensions == {"payload", "requests", "output", "pending", "lines",
               "chunk", "probe", "wall"}
BudgetType == [Dimensions -> Nat]

PreviewOps == {"preview_bytes", "preview_bytes_selected"}
LineOps    == {"head_lines", "tail_lines", "mid_lines", "count_lines"}

\* length is the preview's N; force is LineOptions::force_stream; compressed
\* says the key has a compressed suffix; guarded says the provider advertises
\* guarded reads.
CallType == [op : PreviewOps \cup LineOps, length : Nat, force : BOOLEAN,
             compressed : BOOLEAN, guarded : BOOLEAN, budget : BudgetType]

ASSUME SizeAssumption    == Size \in [Versions -> Nat]
ASSUME CallAssumption    == Calls \subseteq CallType
ASSUME BudgetAssumption  == DefaultBudget \in BudgetType /\ Cap \in BudgetType
ASSUME AbsentAssumption  == NoVersion \notin Versions /\ NoTotal \notin Nat
ASSUME UnboundAssumption ==
    NoSelection \notin [by : {"version", "validator"}, of : Versions]

Selections == [by : {"version", "validator"}, of : Versions]

VARIABLES
    call,        \* the call being served
    pc,          \* where the helper is: between two awaits it takes one step
    ledger,      \* the InspectionLedger's three counters
    expired,     \* the monotonic clock has reached the ledger's deadline
    sel,         \* the bound GuardedReadSelection
    size,        \* the selected HEAD's total size
    win,         \* the window being read: its stage, request and total
    cap,         \* the length of the window its receipt proved
    got,         \* body bytes of the window collected so far
    found,       \* lines parsed from the window that gave the answer
    outcome,     \* "running", "ok" or the error the caller receives
    current,     \* the version the key holds now
    retained,    \* the versions that can still be read by version id
    dispatched,  \* provider calls made (history)
    delivered,   \* body bytes the provider has handed over (history)
    sources      \* the versions that replies were read from (history)

clientVars == <<call, pc, ledger, sel, size, win, cap, got, found, outcome>>
storeVars  == <<current, retained>>
history    == <<dispatched, delivered, sources>>
vars       == <<clientVars, expired, storeVars, history>>

Least(a, b) == IF a <= b THEN a ELSE b

-----------------------------------------------------------------------------
(* Budgets and the refusals that precede any provider call. *)

\* line_budget takes the caller's lines, chunk and probe and defaults the
\* rest; count_lines takes every default.
BudgetOf(c) ==
    CASE c.op \in PreviewOps -> c.budget
      [] c.op = "count_lines" -> DefaultBudget
      [] OTHER -> [DefaultBudget EXCEPT !["lines"] = c.budget["lines"],
                                        !["chunk"] = c.budget["chunk"],
                                        !["probe"] = c.budget["probe"]]

Budget == BudgetOf(call)

\* Every dimension is positive, and validate_budget caps all but the wall time.
ValidBudget(b) ==
    /\ \A d \in Dimensions : b[d] > 0
    /\ \A d \in Dimensions \ {"wall"} : b[d] <= Cap[d]

\* InspectionLedger::new: the deadline's checked_add overflows.
NoDeadline(b) == b["wall"] > Cap["wall"]

OverPayload(c) == c.op \in PreviewOps /\ c.length > BudgetOf(c)["payload"]
OverOutput(c)  == c.op \in PreviewOps /\ c.length > BudgetOf(c)["output"]

Refusal(c) ==
    CASE c.op \in PreviewOps /\ c.length = 0 -> "invalid_argument"
      [] c.op \in {"tail_lines", "mid_lines"} /\ c.compressed /\ ~c.force
            -> "encoding"
      [] ~ValidBudget(BudgetOf(c)) -> "invalid_argument"
      [] NoDeadline(BudgetOf(c)) -> "invalid_argument"
      [] OverPayload(c) -> "payload"
      [] OverOutput(c) -> "output"
      [] c.op # "preview_bytes_selected" /\ ~c.guarded -> "unsupported"
      [] OTHER -> "none"

-----------------------------------------------------------------------------
(* The ledger.  Each operator is one InspectionLedger method followed by   *)
(* the effect its success allows; l is the ledger the method starts from.  *)

Finish(o) == pc' = "done" /\ outcome' = o

\* request() once its deadline check has passed: the provider is called only
\* after the request has been charged.
Charge(l, awaiting) ==
    \/ /\ l.requests + 1 > Budget["requests"]
       /\ Finish("requests") /\ ledger' = l /\ UNCHANGED dispatched
    \/ /\ l.requests + 1 <= Budget["requests"]
       /\ ledger' = [l EXCEPT !.requests = @ + 1]
       /\ dispatched' = dispatched + 1
       /\ pc' = awaiting /\ UNCHANGED outcome

\* Mutant: the deadline is not checked before a request.
RequestAnyTime(l, awaiting) == Charge(l, awaiting)

\* check_deadline() and the rest of request().
Request(l, awaiting) ==
    \/ /\ expired
       /\ Finish("deadline") /\ ledger' = l /\ UNCHANGED dispatched
    \/ ~expired /\ Charge(l, awaiting)

\* Mutant: the proof byte is not reserved.
ReservedBody(length) == length

\* A window reserves the one byte that would show its body to be overlong.
Reserved(length) == length + 1

\* guarded_range_bytes() up to its provider call: the reservation is admitted
\* before the request is charged.  No caller asks for an empty window.  With no
\* await between them, the two deadline checks are one.
OpenRange(l, stage, offset, length) ==
    \/ /\ expired
       /\ Finish("deadline") /\ ledger' = l /\ UNCHANGED <<dispatched, win>>
    \/ /\ ~expired
       /\ l.payload + Reserved(length) > Budget["payload"]
       /\ Finish("payload") /\ ledger' = l /\ UNCHANGED <<dispatched, win>>
    \/ /\ ~expired
       /\ l.payload + Reserved(length) <= Budget["payload"]
       /\ Charge([l EXCEPT !.payload = @ + Reserved(length)], "range")
       /\ win' = [stage |-> stage, offset |-> offset, length |-> length,
                  total |-> NoTotal]

\* admit_output() and the successful return it guards.
Answer(l, text) ==
    \/ /\ l.output + text > Budget["output"]
       /\ Finish("output") /\ ledger' = l
    \/ /\ l.output + text <= Budget["output"]
       /\ Finish("ok") /\ ledger' = [l EXCEPT !.output = @ + text]

-----------------------------------------------------------------------------
(* Observing, binding and sizing the source. *)

Start ==
    /\ pc = "idle"
    /\ \/ /\ Refusal(call) # "none"
          /\ Finish(Refusal(call))
          /\ UNCHANGED <<ledger, sel, dispatched>>
       \/ /\ Refusal(call) = "none" /\ call.op # "preview_bytes_selected"
          /\ Request(ledger, "observe") /\ UNCHANGED sel
       \/ /\ Refusal(call) = "none" /\ call.op = "preview_bytes_selected"
          /\ \E s \in Selections : sel' = s
          /\ Request(ledger, "head")
    /\ UNCHANGED <<call, size, win, cap, got, found, expired, storeVars,
                   delivered, sources>>

\* What an observation may say of the source: a native version, else a
\* validator, which bind refuses when it is weak.
Evidence == {"version", "validator", "weak", "none"}

ObserveReply ==
    /\ pc = "observe"
    /\ \/ /\ Finish("provider_error")
          /\ UNCHANGED <<ledger, sel, dispatched>>
       \/ /\ current # NoVersion
          /\ \E evidence \in Evidence :
               \/ /\ evidence = "none" /\ Finish("unsupported")
                  /\ UNCHANGED <<ledger, sel, dispatched>>
               \/ /\ evidence = "weak" /\ Finish("invalid_argument")
                  /\ UNCHANGED <<ledger, sel, dispatched>>
               \/ /\ evidence \in {"version", "validator"}
                  /\ sel' = [by |-> evidence, of |-> current]
                  /\ Request(ledger, "head")
    /\ UNCHANGED <<call, size, win, cap, got, found, expired, storeVars,
                   delivered, sources>>

\* The provider still holds what was selected.
Servable ==
    \/ sel.by = "version" /\ sel.of \in retained
    \/ sel.by = "validator" /\ sel.of = current

\* The version a guarded request is answered from.  The helpers do not check
\* it: that no other version is read in its stead is what they trust a guarded
\* provider for, and what GuardedRead shows of the S3 provider (OnlySelected).
ServedVersion == sel.of

HeadReply ==
    /\ pc = "head"
    /\ \/ /\ Finish("provider_error")
          /\ UNCHANGED <<ledger, size, win, found, dispatched, sources>>
       \/ /\ Servable
          /\ sources' = sources \cup {ServedVersion}
          /\ UNCHANGED found
          /\ \E total \in {NoTotal, Size[ServedVersion]} :
               /\ size' = total
               /\ \/ /\ total = 0 /\ Finish("ok")
                     /\ UNCHANGED <<ledger, win, dispatched>>
                  \/ /\ total # 0 /\ call.op \in PreviewOps
                     /\ OpenRange(ledger, "body", 0, call.length)
                  \/ /\ total = NoTotal /\ call.op \in LineOps /\ Finish("io")
                     /\ UNCHANGED <<ledger, win, dispatched>>
                  \/ /\ total \notin {NoTotal, 0} /\ call.op = "count_lines"
                     /\ \/ total > Budget["payload"] /\ Finish("payload")
                        \/ /\ total <= Budget["payload"]
                           /\ total > Budget["pending"] /\ Finish("pending")
                     /\ UNCHANGED <<ledger, win, dispatched>>
                  \/ /\ total \notin {NoTotal, 0} /\ call.op \in LineOps
                     /\ call.op = "count_lines"
                           => /\ total <= Budget["payload"]
                              /\ total <= Budget["pending"]
                     /\ OpenRange(ledger, "probe", 0,
                                  Least(total, Budget["probe"]))
    /\ UNCHANGED <<call, sel, cap, got, expired, storeVars, delivered>>

-----------------------------------------------------------------------------
(* Reading one window: guarded_range_bytes() after its provider call. *)

Last(w)         == w.offset + w.length - 1
ExpectedLast(w, total) ==
    IF total = NoTotal THEN Last(w) ELSE Least(Last(w), total - 1)

\* Mutant: a window that ends short of the request is accepted.
ProvenStart(w, echoed, first, last, total) ==
    /\ echoed
    /\ total # NoTotal => w.offset < total
    /\ first = w.offset
    /\ last <= ExpectedLast(w, total)

\* validate_guarded_range_receipt(): echoed says the receipt repeats the
\* requested window; first and last are the window it says was returned.
Proven(w, echoed, first, last, total) ==
    /\ echoed
    /\ total # NoTotal => w.offset < total
    /\ first = w.offset
    /\ last = ExpectedLast(w, total)

\* A receipt may claim any window that starts and ends near the request.
ClaimedFirst(w) == {w.offset, w.offset + 1}
ClaimedLast(w)  == w.offset .. w.offset + w.length

\* The body loop's check_deadline precedes its first read.
RangeReply ==
    /\ pc = "range"
    /\ \/ /\ Finish("provider_error")
          /\ UNCHANGED <<win, cap, got, sources>>
       \/ /\ Servable
          /\ sources' = sources \cup {ServedVersion}
          /\ \E echoed \in BOOLEAN, first \in ClaimedFirst(win),
                last \in ClaimedLast(win), total \in {NoTotal, Size[ServedVersion]} :
               \/ /\ ~Proven(win, echoed, first, last, total) /\ Finish("io")
                  /\ UNCHANGED <<win, cap, got>>
               \/ /\ Proven(win, echoed, first, last, total)
                  /\ win' = [win EXCEPT !.total = total]
                  /\ cap' = last - first + 1
                  /\ got' = 0
                  /\ \/ expired /\ Finish("deadline")
                     \/ ~expired /\ pc' = "reading" /\ UNCHANGED outcome
    /\ UNCHANGED <<call, ledger, sel, size, found, expired, storeVars,
                   dispatched, delivered>>

\* One read of the body loop.  The reader hands over at most the scratch
\* buffer and at most what the window still lacks, and has no byte to give
\* beyond the end of the version.  The loop checks the deadline again unless
\* the window is complete.
Read ==
    /\ pc = "reading"
    /\ LET room  == Least(cap - got, Least(Budget["chunk"], cap))
           ahead == Size[ServedVersion] - (win.offset + got)
       IN  \/ /\ Finish("io") /\ UNCHANGED <<got, delivered>>
           \/ \E k \in 1 .. Least(room, ahead) :
                /\ got' = got + k
                /\ delivered' = delivered + k
                /\ \/ got + k = cap /\ pc' = "proving" /\ UNCHANGED outcome
                   \/ /\ got + k < cap /\ ~expired
                      /\ UNCHANGED <<pc, outcome>>
                   \/ got + k < cap /\ expired /\ Finish("deadline")
    /\ UNCHANGED <<call, ledger, sel, size, win, cap, found, expired,
                   storeVars, dispatched, sources>>

-----------------------------------------------------------------------------
(* The line helpers' windows.  Sizes are those of the selected HEAD. *)

\* Mutant: the window is not limited to the object's size.
PendingLength == Least(Budget["pending"], Budget["payload"])

BodyLength == Least(size, Least(Budget["pending"], Budget["payload"]))

BodyStart ==
    CASE call.op = "tail_lines" /\ ~call.force -> size - BodyLength
      [] call.op = "mid_lines" /\ ~call.force ->
            LET middle == size \div 2
                half   == BodyLength \div 2
            IN  IF middle >= half THEN middle - half ELSE 0
      [] OTHER -> 0

BodyRequest ==
    CASE call.op = "mid_lines" /\ ~call.force ->
            Least(BodyLength, size - BodyStart)
      [] call.op = "count_lines" -> size
      [] OTHER -> BodyLength

\* The receipt proves that the window ends where the object ends.
AtEof == win.total = win.offset + cap

\* Mutant: a forced scan that did not reach the end is not refused.
IncompleteUnforced(lines) ==
    CASE call.op = "head_lines" -> lines < Budget["lines"] /\ ~AtEof
      [] call.op = "tail_lines" -> lines < Budget["lines"] /\ BodyStart # 0
      [] call.op = "mid_lines"  -> lines < Budget["lines"] /\ ~AtEof
      [] OTHER -> FALSE

\* The helper may not answer from this window: it would be partial.
Incomplete(lines) ==
    CASE call.op = "head_lines" -> lines < Budget["lines"] /\ ~AtEof
      [] call.op = "tail_lines" -> \/ call.force /\ ~AtEof
                                   \/ lines < Budget["lines"] /\ BodyStart # 0
      [] call.op = "mid_lines"  -> ~AtEof /\ \/ call.force
                                             \/ lines < Budget["lines"]
      [] OTHER -> FALSE

CountMismatch == win.total # size \/ win.offset + cap # size

\* What follows a window whose end was proved; l is the ledger after the
\* reservation was trimmed to the window.
AfterPreview(l) == Answer(l, cap) /\ UNCHANGED <<win, found, dispatched>>

\* head_lines answers from the probe when the probe suffices; the text of
\* its lines is no longer than the window.  Text the probe refuses ends every
\* line helper.
AfterProbe(l) ==
    \/ /\ Finish("encoding") /\ ledger' = l
       /\ UNCHANGED <<win, found, dispatched>>
    \/ /\ call.op = "head_lines"
       /\ \E lines \in 0 .. Least(Budget["lines"], cap) :
            \/ /\ lines = Budget["lines"] \/ AtEof
               /\ found' = lines
               /\ \E text \in 0 .. cap : Answer(l, text)
               /\ UNCHANGED <<win, dispatched>>
            \/ /\ lines < Budget["lines"] /\ ~AtEof
               /\ OpenRange(l, "body", 0, BodyRequest) /\ UNCHANGED found
    \/ /\ call.op = "tail_lines" /\ BodyStart > 0
       /\ OpenRange(l, "previous", BodyStart - 1, 1) /\ UNCHANGED found
    \/ /\ call.op # "head_lines"
       /\ call.op = "tail_lines" => ~(BodyStart > 0)
       /\ OpenRange(l, "body", BodyStart, BodyRequest) /\ UNCHANGED found

AfterBody(l) ==
    \/ /\ call.op = "count_lines" /\ CountMismatch
       /\ Finish("payload") /\ ledger' = l
       /\ UNCHANGED <<win, found, dispatched>>
    \/ /\ Finish("encoding") /\ ledger' = l
       /\ UNCHANGED <<win, found, dispatched>>
    \/ /\ call.op = "count_lines" /\ ~CountMismatch
       /\ Finish("ok") /\ ledger' = l
       /\ UNCHANGED <<win, found, dispatched>>
    \/ /\ call.op # "count_lines"
       /\ \E lines \in 0 .. Least(Budget["lines"], cap) :
            /\ found' = lines
            /\ \/ /\ Incomplete(lines) /\ Finish("pending") /\ ledger' = l
               \/ /\ ~Incomplete(lines)
                  /\ \E text \in 0 .. cap : Answer(l, text)
       /\ UNCHANGED <<win, dispatched>>

\* release_payload() of what the window did not use.  It saturates in the code
\* and never needs to.
Released(l) == [l EXCEPT !.payload = @ - (Reserved(win.length) - cap)]

\* The one-byte read that proves the body ends with its window, the release
\* of what the window did not use, and the helper's next move.
EofProof ==
    /\ pc = "proving"
    /\ \/ /\ Finish("io") /\ UNCHANGED <<ledger, win, found, dispatched>>
          /\ \E extra \in {0, 1} : delivered' = delivered + extra
       \/ /\ UNCHANGED delivered
          /\ LET l == Released(ledger)
             IN  \/ call.op \in PreviewOps /\ AfterPreview(l)
                 \/ /\ call.op \in LineOps /\ win.stage = "probe"
                    /\ AfterProbe(l)
                 \/ /\ call.op \in LineOps /\ win.stage = "previous"
                    /\ OpenRange(l, "body", BodyStart, BodyRequest)
                    /\ UNCHANGED found
                 \/ /\ call.op \in LineOps /\ win.stage = "body"
                    /\ AfterBody(l)
    /\ UNCHANGED <<call, sel, size, cap, got, expired, storeVars, sources>>

-----------------------------------------------------------------------------
(* The deadline, and the other users of the store. *)

\* Mutant: reads of a body are not raced against the deadline.
AwaitingReplies == {"observe", "head", "range"}

Awaiting == {"observe", "head", "range", "reading", "proving"}

\* tokio's timeout_at gives up only once the deadline has passed; a reply that
\* is ready by then still wins the race.
Timeout ==
    /\ pc \in Awaiting /\ expired
    /\ Finish("deadline")
    /\ UNCHANGED <<call, ledger, sel, size, win, cap, got, found, expired,
                   storeVars, history>>

Expire ==
    /\ ~expired /\ pc # "idle" /\ expired' = TRUE
    /\ UNCHANGED <<clientVars, storeVars, history>>

\* Another writer replaces or deletes the object, or a lifecycle rule
\* removes an old version.  None of them matters to a finished inspection.
Overwrite ==
    /\ pc # "done"
    /\ \E v \in Versions : v # current /\ current' = v
    /\ retained' = retained \cup {current'}
    /\ UNCHANGED <<clientVars, expired, history>>

Delete ==
    /\ pc # "done" /\ current # NoVersion /\ current' = NoVersion
    /\ UNCHANGED <<clientVars, expired, retained, history>>

Purge ==
    /\ pc # "done"
    /\ \E v \in retained : v # current /\ retained' = retained \ {v}
    /\ UNCHANGED <<clientVars, expired, current, history>>

-----------------------------------------------------------------------------
Init ==
    /\ call \in Calls
    /\ pc = "idle" /\ outcome = "running"
    /\ ledger = [requests |-> 0, payload |-> 0, output |-> 0]
    /\ expired = FALSE
    /\ sel = NoSelection /\ size = NoTotal
    /\ win = [stage |-> "body", offset |-> 0, length |-> 0, total |-> NoTotal]
    /\ cap = 0 /\ got = 0 /\ found = 0
    /\ current \in Versions
    /\ retained = {current}
    /\ dispatched = 0 /\ delivered = 0 /\ sources = {}

Helper   == Start \/ Timeout
Provider == ObserveReply \/ HeadReply \/ RangeReply \/ Read \/ EofProof
Writers  == Overwrite \/ Delete \/ Purge

Next == Helper \/ Provider \/ Expire \/ Writers

Spec == Init /\ [][Next]_vars

\* The executor polls a future whose timer has fired, and time passes.  The
\* provider is owed nothing: it may never answer.
FairSpec == Spec /\ WF_vars(Helper) /\ WF_vars(Expire)

-----------------------------------------------------------------------------
(* What an inspection promises. *)

LedgerType == [requests : Nat, payload : Nat, output : Nat]
WindowType == [stage : {"probe", "previous", "body"}, offset : Nat,
               length : Nat, total : Nat \cup {NoTotal}]
Outcomes   == {"running", "ok", "invalid_argument", "unsupported", "encoding",
               "provider_error", "io", "requests", "payload", "output",
               "pending", "deadline"}

\* The variables keep their types: no counter and no window offset goes
\* below zero, whatever sizes and budgets meet in the window arithmetic.
TypeOK ==
    /\ call \in Calls
    /\ pc \in {"idle", "done"} \cup Awaiting
    /\ ledger \in LedgerType
    /\ expired \in BOOLEAN
    /\ sel \in Selections \cup {NoSelection}
    /\ size \in Nat \cup {NoTotal}
    /\ win \in WindowType
    /\ cap \in Nat /\ got \in Nat /\ found \in Nat
    /\ outcome \in Outcomes
    /\ current \in Versions \cup {NoVersion}
    /\ retained \subseteq Versions
    /\ dispatched \in Nat /\ delivered \in Nat
    /\ sources \subseteq Versions

\* An inspection never makes more provider calls and never receives more body
\* bytes than its budget, failures included and the surplus byte of an
\* overlong body included (guarded_range_bytes reserves before it reads).
WithinBudget ==
    /\ dispatched <= Budget["requests"]
    /\ delivered <= Budget["payload"]
    /\ ledger.output <= Budget["output"]

\* A line helper that succeeds has read what its answer claims: a head or
\* mid answer with too few lines, and every tail answer, ends at the end of
\* the object; a short tail starts at its first byte; a forced scan and a
\* count cover all of it (the PendingLineBytes refusals).
AnswerIsWhole ==
    LET whole   == Size[sel.of]
        atStart == win.offset = 0
        atEnd   == win.offset + cap = whole
        few     == found < Budget["lines"]
    IN  (outcome = "ok" /\ call.op \in LineOps /\ whole > 0)
           => CASE call.op = "head_lines"  -> atStart /\ (few => atEnd)
                [] call.op = "tail_lines"  ->
                      atEnd /\ (few \/ call.force => atStart)
                [] call.op = "mid_lines"   ->
                      /\ win.offset <= whole \div 2
                      /\ few => atEnd
                      /\ call.force => atStart /\ atEnd
                [] call.op = "count_lines" -> atStart /\ atEnd

\* Once the deadline has passed no provider call is made, and the body loop
\* takes at most the read that was already awaited.
NothingPastDeadline ==
    [][expired => /\ dispatched' = dispatched
                  /\ (pc = "reading" /\ pc' = "reading") => got' = got]_vars

\* Every inspection returns, even from a provider that never answers: the
\* deadline bounds each of its awaits.
Terminates == <>(pc = "done")

Previewed == outcome = "ok" /\ call.op \in PreviewOps

\* The inspection as PreviewPromise sees it.  A line helper makes the same
\* choice and gives no such answer.
ChosenVersion == IF sel = NoSelection THEN NoVersion ELSE sel.of

GivenAnswer ==
    [status |-> IF Previewed THEN "fulfilled"
                ELSE IF outcome \in {"running", "ok"} THEN "pending" ELSE "refused",
     of     |-> IF Previewed THEN sources ELSE {},
     bytes  |-> IF Previewed THEN got ELSE 0]

\* A preview is one selected read: PreviewPromise says what that is.  It holds
\* exactly the first N bytes of the selected version, or all of it when that
\* is shorter: a window clipped elsewhere, or a body that ended early, is never
\* a success (preview_bytes, "a range response proven clipped at EOF").
Promise == INSTANCE PreviewPromise WITH
    length <- call.length,
    preselected <- call.op = "preview_bytes_selected",
    chosen <- ChosenVersion,
    answer <- GivenAnswer
KeepsPromise == Promise!Spec
=============================================================================
