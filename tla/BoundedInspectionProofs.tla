----------------------- MODULE BoundedInspectionProofs -----------------------
(***************************************************************************)
(* For every set of versions, calls and budgets: the types of              *)
(* BoundedInspection, and the bound its ledger puts on the provider.       *)
(*                                                                         *)
(* WithinBudget is not inductive: that the provider has handed over no     *)
(* more than the payload budget follows from what an open window has       *)
(* reserved and not yet received (Covered), which in turn needs the proved *)
(* window to be no longer than the request (WindowSound).                  *)
(*                                                                         *)
(* On top of that invariant a second one, SInv, says which version every   *)
(* window comes from and how much of it an answer rests on. It gives       *)
(* AnswerIsWhole, and that a call keeps PreviewPromise.                    *)
(***************************************************************************)
EXTENDS BoundedInspection, TLAPS

\* The bytes of the open window that have been reserved and not yet received.
Outstanding ==
    CASE pc = "range" -> Reserved(win.length)
      [] pc \in {"reading", "proving"} -> Reserved(win.length) - got
      [] OTHER -> 0

\* What has been received and what may still come fit in the admitted bytes.
Covered == delivered + Outstanding <= ledger.payload

\* A window in transfer holds no more than was asked for.
WindowSound ==
    /\ pc = "reading" => got <= cap /\ cap <= win.length
    /\ pc = "proving" => got = cap /\ cap <= win.length

\* Guarded calls are made with a bound selection, and the line helpers
\* compute their windows from a known size.
Prepared ==
    /\ pc \in {"head", "range", "reading", "proving"} => sel \in Selections
    /\ (call.op \in LineOps /\ pc \in {"range", "reading", "proving"})
          => size \in Nat

LedgerSound ==
    /\ dispatched = ledger.requests
    /\ ledger.requests <= Budget["requests"]
    /\ ledger.payload <= Budget["payload"]
    /\ ledger.output <= Budget["output"]

IInv == TypeOK /\ Covered /\ WindowSound /\ Prepared /\ LedgerSound

-----------------------------------------------------------------------------
(* The budget and the windows are natural numbers. *)

\* Whatever the call, its budget gives every dimension a natural number.
LEMMA BudgetTyped ==
    ASSUME call \in Calls
    PROVE  Budget \in BudgetType
<1>1. call \in CallType
  BY CallAssumption
<1>2. \A n \in Nat, m \in Nat, k \in Nat :
        [DefaultBudget EXCEPT !["lines"] = n, !["chunk"] = m, !["probe"] = k]
            \in BudgetType
  BY BudgetAssumption DEF BudgetType
<1>3. /\ call.budget["lines"] \in Nat
      /\ call.budget["chunk"] \in Nat
      /\ call.budget["probe"] \in Nat
  BY <1>1 DEF CallType, BudgetType, Dimensions
<1>4. call.budget \in BudgetType /\ call.op \in PreviewOps \cup LineOps
  BY <1>1 DEF CallType
<1>5. CASE call.op \in PreviewOps
  BY <1>4, <1>5 DEF Budget, BudgetOf, PreviewOps
<1>6. CASE call.op = "count_lines"
  BY <1>6, BudgetAssumption DEF Budget, BudgetOf, PreviewOps
<1>7. CASE call.op \notin PreviewOps /\ call.op # "count_lines"
  <2>1. Budget = [DefaultBudget EXCEPT !["lines"] = call.budget["lines"],
                                       !["chunk"] = call.budget["chunk"],
                                       !["probe"] = call.budget["probe"]]
    BY <1>7 DEF Budget, BudgetOf
  <2> QED
    BY <2>1, <1>2, <1>3
<1> QED
  BY <1>5, <1>6, <1>7

\* Reading a dimension of it.
LEMMA BudgetNat ==
    ASSUME call \in Calls
    PROVE  \A d \in Dimensions : Budget[d] \in Nat
BY BudgetTyped DEF BudgetType

\* No line window starts before the object or asks for fewer than no bytes.
LEMMA LineWindows ==
    ASSUME call \in Calls, size \in Nat
    PROVE  BodyLength \in Nat /\ BodyStart \in Nat /\ BodyRequest \in Nat
<1>1. BodyLength \in Nat /\ BodyLength <= size
  BY BudgetNat DEF BodyLength, Least, Dimensions
<1>2. BodyStart \in Nat /\ BodyStart <= size
  <2> DEFINE b == BodyLength
  <2> HIDE DEF b
  <2>1. b \in Nat /\ b <= size
    BY <1>1 DEF b
  <2>2. size - b \in Nat /\ size - b <= size
    BY <2>1
  <2>3. size \div 2 \in Nat /\ size \div 2 <= size /\ b \div 2 \in Nat
    BY <2>1
  <2>4. LET h == IF size \div 2 >= b \div 2 THEN size \div 2 - b \div 2 ELSE 0
        IN  h \in Nat /\ h <= size
    BY <2>3
  <2> QED
    BY <2>2, <2>4 DEF BodyStart, b
<1>3. size - BodyStart \in Nat
  BY <1>2
<1> QED
  BY <1>1, <1>2, <1>3 DEF BodyRequest, Least

-----------------------------------------------------------------------------
(* What the ledger's methods leave behind, whatever they decide. *)

\* A request is charged before it is made, or not made.
LEMMA ChargeSound ==
    ASSUME call \in Calls, dispatched \in Nat,
           NEW l \in LedgerType, NEW awaiting,
           l.requests = dispatched, l.requests <= Budget["requests"],
           Charge(l, awaiting)
    PROVE  /\ ledger' \in LedgerType /\ dispatched' \in Nat
           /\ dispatched' = ledger'.requests
           /\ ledger'.requests <= Budget["requests"]
           /\ ledger'.payload = l.payload /\ ledger'.output = l.output
           /\ \/ pc' = "done" /\ outcome' = "requests"
              \/ pc' = awaiting /\ outcome' = outcome
BY BudgetNat DEF Charge, LedgerType, Finish, Dimensions

\* The same with the deadline checked first.
LEMMA RequestSound ==
    ASSUME call \in Calls, dispatched \in Nat,
           NEW l \in LedgerType, NEW awaiting,
           l.requests = dispatched, l.requests <= Budget["requests"],
           Request(l, awaiting)
    PROVE  /\ ledger' \in LedgerType /\ dispatched' \in Nat
           /\ dispatched' = ledger'.requests
           /\ ledger'.requests <= Budget["requests"]
           /\ ledger'.payload = l.payload /\ ledger'.output = l.output
           /\ \/ pc' = "done" /\ outcome' \in {"requests", "deadline"}
              \/ pc' = awaiting /\ outcome' = outcome
BY ChargeSound DEF Request, Finish

\* An opened window has its bytes and its proof byte reserved within budget.
LEMMA OpenRangeSound ==
    ASSUME call \in Calls, dispatched \in Nat, win \in WindowType,
           NEW l \in LedgerType,
           NEW stage \in {"probe", "previous", "body"},
           NEW offset \in Nat, NEW length \in Nat,
           NEW used \in Nat, used <= l.payload,
           l.requests = dispatched, l.requests <= Budget["requests"],
           l.payload <= Budget["payload"],
           OpenRange(l, stage, offset, length)
    PROVE  /\ ledger' \in LedgerType /\ dispatched' \in Nat
           /\ win' \in WindowType
           /\ dispatched' = ledger'.requests
           /\ ledger'.requests <= Budget["requests"]
           /\ ledger'.payload <= Budget["payload"]
           /\ ledger'.output = l.output
           /\ used <= ledger'.payload
           /\ \/ /\ pc' = "done"
                 /\ outcome' \in {"requests", "deadline", "payload"}
              \/ /\ pc' = "range" /\ outcome' = outcome
                 /\ used + Reserved(win'.length) <= ledger'.payload
<1>1. CASE expired
  BY <1>1 DEF OpenRange, Finish
<1>2. CASE ~expired /\ l.payload + Reserved(length) > Budget["payload"]
  BY <1>2, BudgetNat DEF OpenRange, Finish, Reserved, Dimensions, LedgerType
<1>3. CASE ~expired /\ l.payload + Reserved(length) <= Budget["payload"]
  <2> DEFINE m == [l EXCEPT !.payload = @ + Reserved(length)]
  <2>1. /\ m \in LedgerType
        /\ m.payload = l.payload + length + 1
        /\ m.requests = l.requests /\ m.output = l.output
    BY DEF LedgerType, Reserved
  <2>2. /\ Charge(m, "range")
        /\ win' = [stage |-> stage, offset |-> offset, length |-> length,
                   total |-> NoTotal]
    BY <1>3, BudgetNat DEF OpenRange, LedgerType, Reserved, Dimensions
  <2>3. win' \in WindowType /\ win'.length = length
    BY <2>2 DEF WindowType
  <2> HIDE DEF m
  <2>4. /\ ledger' \in LedgerType /\ dispatched' \in Nat
        /\ dispatched' = ledger'.requests
        /\ ledger'.requests <= Budget["requests"]
        /\ ledger'.payload = m.payload /\ ledger'.output = m.output
        /\ \/ pc' = "done" /\ outcome' = "requests"
           \/ pc' = "range" /\ outcome' = outcome
    BY <2>1, <2>2, ChargeSound
  <2>5. ledger'.payload = l.payload + length + 1 /\ l.payload \in Nat
    BY <2>1, <2>4 DEF LedgerType
  <2>6. /\ used <= ledger'.payload
        /\ used + Reserved(win'.length) <= ledger'.payload
        /\ ledger'.payload <= Budget["payload"]
    BY <1>3, <2>3, <2>5 DEF Reserved
  <2> QED
    BY <2>1, <2>3, <2>4, <2>6
<1> QED
  BY <1>1, <1>2, <1>3, BudgetNat DEF Dimensions, LedgerType, Reserved

\* An answer fits the output budget or is refused.
LEMMA AnswerSound ==
    ASSUME call \in Calls, NEW l \in LedgerType, NEW text \in Nat,
           l.output <= Budget["output"], Answer(l, text)
    PROVE  /\ ledger' \in LedgerType
           /\ ledger'.requests = l.requests /\ ledger'.payload = l.payload
           /\ ledger'.output <= Budget["output"]
           /\ pc' = "done" /\ outcome' \in {"ok", "output"}
BY BudgetNat DEF Answer, Finish, LedgerType, Dimensions

-----------------------------------------------------------------------------
(* The initial states, and one lemma for each action. *)

LEMMA InitInv == Init => IInv
<1> SUFFICES ASSUME Init PROVE IInv
  OBVIOUS
<1> USE DEF Init
<1>1. TypeOK
  BY SizeAssumption DEF TypeOK, LedgerType, WindowType, Outcomes, Awaiting
<1>2. Covered /\ WindowSound /\ Prepared
  BY DEF Covered, Outstanding, WindowSound, Prepared
<1>3. LedgerSound
  BY BudgetNat DEF LedgerSound, Dimensions
<1> QED
  BY <1>1, <1>2, <1>3 DEF IInv

\* Nothing the client holds changes while other writers and the clock move.
LEMMA EnvironmentInv ==
    IInv /\ (Expire \/ Overwrite \/ Delete \/ Purge) => IInv'
<1> SUFFICES ASSUME IInv, Expire \/ Overwrite \/ Delete \/ Purge
             PROVE  IInv'
  OBVIOUS
<1>1. UNCHANGED <<clientVars, history>>
  BY DEF Expire, Overwrite, Delete, Purge
<1>2. /\ expired' \in BOOLEAN
      /\ current' \in Versions \cup {NoVersion}
      /\ retained' \subseteq Versions
  BY DEF IInv, TypeOK, Expire, Overwrite, Delete, Purge, storeVars
<1>3. TypeOK'
  BY <1>1, <1>2 DEF IInv, TypeOK, clientVars, history
<1>4. Covered' /\ WindowSound' /\ Prepared' /\ LedgerSound'
  BY <1>1 DEF IInv, Covered, Outstanding, WindowSound, Prepared, LedgerSound,
              Budget, clientVars, history
<1> QED
  BY <1>3, <1>4 DEF IInv

\* A step that ends the inspection keeps the invariant if it keeps the ledger's.
LEMMA FinishInv ==
    ASSUME IInv, call' = call, pc' = "done", outcome' \in Outcomes,
           ledger' \in LedgerType, dispatched' \in Nat, delivered' \in Nat,
           expired' \in BOOLEAN, sel' \in Selections \cup {NoSelection},
           size' \in Nat \cup {NoTotal}, win' \in WindowType,
           cap' \in Nat, got' \in Nat, found' \in Nat,
           UNCHANGED storeVars, sources' \subseteq Versions,
           dispatched' = ledger'.requests,
           ledger'.requests <= Budget["requests"],
           ledger'.payload <= Budget["payload"],
           ledger'.output <= Budget["output"],
           delivered' <= ledger'.payload
    PROVE  IInv'
<1>1. TypeOK'
  BY DEF IInv, TypeOK, storeVars
<1>2. Covered' /\ WindowSound' /\ Prepared'
  BY DEF Covered, Outstanding, WindowSound, Prepared
<1>3. LedgerSound'
  BY DEF LedgerSound, Budget
<1> QED
  BY <1>1, <1>2, <1>3 DEF IInv

LEMMA StartInv == IInv /\ Start => IInv'
<1> SUFFICES ASSUME IInv, Start PROVE IInv'
  OBVIOUS
<1>1. /\ call' = call /\ pc = "idle"
      /\ UNCHANGED <<size, win, cap, got, found, expired, current, retained,
                     delivered, sources>>
  BY DEF Start, storeVars
<1>2. /\ ledger' \in LedgerType /\ dispatched' \in Nat
      /\ dispatched' = ledger'.requests
      /\ ledger'.requests <= Budget["requests"]
      /\ ledger'.payload = ledger.payload /\ ledger'.output = ledger.output
      /\ outcome' \in Outcomes
      /\ \/ pc' = "done" /\ sel' \in Selections \cup {NoSelection}
         \/ pc' = "observe" /\ sel' = sel
         \/ pc' = "head" /\ sel' \in Selections
  <2>1. CASE Refusal(call) # "none" /\ Finish(Refusal(call))
                /\ UNCHANGED <<ledger, sel, dispatched>>
    BY <2>1 DEF Finish, Refusal, Outcomes, IInv, TypeOK, LedgerSound
  <2>2. CASE Request(ledger, "observe") /\ UNCHANGED sel
    BY <2>2, RequestSound DEF IInv, TypeOK, LedgerSound, Outcomes
  <2>3. CASE (\E s \in Selections : sel' = s) /\ Request(ledger, "head")
    BY <2>3, RequestSound DEF IInv, TypeOK, LedgerSound, Outcomes
  <2> QED
    BY <2>1, <2>2, <2>3 DEF Start
<1>3. TypeOK'
  BY <1>1, <1>2 DEF IInv, TypeOK, Awaiting
<1>4. Covered' /\ WindowSound' /\ Prepared'
  BY <1>1, <1>2 DEF IInv, TypeOK, Covered, Outstanding, WindowSound, Prepared
<1>5. LedgerSound'
  BY <1>1, <1>2 DEF IInv, LedgerSound, Budget
<1> QED
  BY <1>3, <1>4, <1>5 DEF IInv

LEMMA ObserveInv == IInv /\ ObserveReply => IInv'
<1> SUFFICES ASSUME IInv, ObserveReply PROVE IInv'
  OBVIOUS
<1>1. /\ call' = call /\ pc = "observe"
      /\ UNCHANGED <<size, win, cap, got, found, expired, current, retained,
                     delivered, sources>>
  BY DEF ObserveReply, storeVars
<1>2. /\ ledger' \in LedgerType /\ dispatched' \in Nat
      /\ dispatched' = ledger'.requests
      /\ ledger'.requests <= Budget["requests"]
      /\ ledger'.payload = ledger.payload /\ ledger'.output = ledger.output
      /\ outcome' \in Outcomes
      /\ \/ pc' = "done" /\ sel' \in Selections \cup {NoSelection}
         \/ pc' = "head" /\ sel' \in Selections
  <2>1. CASE /\ Finish("provider_error") \/ Finish("unsupported")
                \/ Finish("invalid_argument")
             /\ UNCHANGED <<ledger, sel, dispatched>>
    BY <2>1 DEF Finish, Outcomes, IInv, TypeOK, LedgerSound
  <2>2. CASE /\ current # NoVersion
             /\ \E evidence \in {"version", "validator"} :
                   sel' = [by |-> evidence, of |-> current]
             /\ Request(ledger, "head")
    <3>1. sel' \in Selections
      BY <2>2 DEF Selections, IInv, TypeOK
    <3> QED
      BY <2>2, <3>1, RequestSound DEF IInv, TypeOK, LedgerSound, Outcomes
  <2> QED
    BY <2>1, <2>2 DEF ObserveReply
<1>3. TypeOK'
  BY <1>1, <1>2 DEF IInv, TypeOK, Awaiting
<1>4. Covered' /\ WindowSound' /\ Prepared'
  BY <1>1, <1>2 DEF IInv, TypeOK, Covered, Outstanding, WindowSound, Prepared
<1>5. LedgerSound'
  BY <1>1, <1>2 DEF IInv, LedgerSound, Budget
<1> QED
  BY <1>3, <1>4, <1>5 DEF IInv

\* The facts an action starts from.
LEMMA Typed ==
    ASSUME IInv
    PROVE  /\ call \in Calls /\ ledger \in LedgerType /\ win \in WindowType
           /\ expired \in BOOLEAN /\ cap \in Nat /\ got \in Nat
           /\ found \in Nat /\ dispatched \in Nat /\ delivered \in Nat
           /\ sel \in Selections \cup {NoSelection}
           /\ size \in Nat \cup {NoTotal} /\ sources \subseteq Versions
           /\ ledger.payload \in Nat /\ ledger.output \in Nat
           /\ win.offset \in Nat /\ win.length \in Nat
           /\ \A d \in Dimensions : Budget[d] \in Nat
BY BudgetNat DEF IInv, TypeOK, LedgerType, WindowType

LEMMA HeadInv == IInv /\ HeadReply => IInv'
<1> SUFFICES ASSUME IInv, HeadReply PROVE IInv'
  OBVIOUS
<1>1. /\ call' = call /\ pc = "head" /\ sel \in Selections
      /\ UNCHANGED <<sel, cap, got, expired, storeVars, delivered>>
  BY DEF HeadReply, IInv, Prepared
<1>2. delivered <= ledger.payload
  BY <1>1, Typed DEF IInv, Covered, Outstanding
<1>3. ASSUME Finish("provider_error"),
             UNCHANGED <<ledger, size, win, found, dispatched, sources>>
      PROVE  IInv'
  BY <1>1, <1>2, <1>3, Typed, FinishInv DEF IInv, LedgerSound, Finish, Outcomes
<1>4. ASSUME sources' = sources \cup {ServedVersion}, found' = found,
             NEW total \in {NoTotal, Size[ServedVersion]}, size' = total,
             UNCHANGED <<ledger, win, dispatched>>,
             NEW o \in Outcomes, Finish(o)
      PROVE  IInv'
  <2>1. sources' \subseteq Versions /\ size' \in Nat \cup {NoTotal}
    BY <1>1, <1>4, Typed, SizeAssumption DEF ServedVersion, Selections
  <2> QED
    BY <1>1, <1>2, <1>4, <2>1, Typed, FinishInv DEF IInv, LedgerSound, Finish
<1>5. ASSUME sources' = sources \cup {ServedVersion}, found' = found,
             NEW total \in {NoTotal, Size[ServedVersion]}, size' = total,
             call.op \in LineOps => total # NoTotal,
             NEW stage \in {"probe", "body"}, NEW length \in Nat,
             OpenRange(ledger, stage, 0, length)
      PROVE  IInv'
  <2>1. /\ sources' \subseteq Versions /\ size' \in Nat \cup {NoTotal}
        /\ call.op \in LineOps => size' \in Nat
    BY <1>1, <1>5, Typed, SizeAssumption DEF ServedVersion, Selections
  <2>2. /\ ledger' \in LedgerType /\ dispatched' \in Nat
        /\ win' \in WindowType
        /\ dispatched' = ledger'.requests
        /\ ledger'.requests <= Budget["requests"]
        /\ ledger'.payload <= Budget["payload"]
        /\ ledger'.output = ledger.output
        /\ delivered <= ledger'.payload
        /\ \/ /\ pc' = "done"
              /\ outcome' \in {"requests", "deadline", "payload"}
           \/ /\ pc' = "range" /\ outcome' = outcome
              /\ delivered + Reserved(win'.length) <= ledger'.payload
    BY <1>2, <1>5, Typed, OpenRangeSound DEF IInv, LedgerSound
  <2>3. CASE pc' = "done"
    BY <1>1, <1>5, <2>1, <2>2, <2>3, Typed, FinishInv
       DEF IInv, LedgerSound, Outcomes
  <2>4. CASE pc' = "range"
    <3>1. TypeOK'
      BY <1>1, <1>5, <2>1, <2>2, <2>4 DEF IInv, TypeOK, Awaiting, storeVars
    <3>2. Covered' /\ WindowSound' /\ Prepared'
      BY <1>1, <2>1, <2>2, <2>4
         DEF Covered, Outstanding, WindowSound, Prepared, Reserved
    <3>3. LedgerSound'
      BY <1>1, <2>2, Typed DEF IInv, LedgerSound, Budget
    <3> QED
      BY <3>1, <3>2, <3>3 DEF IInv
  <2> QED
    BY <2>2, <2>3, <2>4
<1>6. \A total \in {NoTotal, Size[ServedVersion]} :
         total # NoTotal => Least(total, Budget["probe"]) \in Nat
  BY <1>1, Typed, SizeAssumption
     DEF ServedVersion, Selections, Least, Dimensions
<1>7. call.length \in Nat
  BY Typed, CallAssumption DEF CallType
<1>8. PreviewOps \cap LineOps = {} /\ "ok" \in Outcomes /\ "io" \in Outcomes
      /\ "payload" \in Outcomes /\ "pending" \in Outcomes
  BY DEF PreviewOps, LineOps, Outcomes
<1> QED
  BY <1>3, <1>4, <1>5, <1>6, <1>7, <1>8 DEF HeadReply

LEMMA RangeInv == IInv /\ RangeReply => IInv'
<1> SUFFICES ASSUME IInv, RangeReply PROVE IInv'
  OBVIOUS
<1>1. /\ call' = call /\ pc = "range" /\ sel \in Selections
      /\ UNCHANGED <<ledger, sel, size, found, expired, storeVars, dispatched,
                     delivered>>
  BY DEF RangeReply, IInv, Prepared
<1>2. delivered + Reserved(win.length) <= ledger.payload
  BY <1>1 DEF IInv, Covered, Outstanding
<1>3. delivered <= ledger.payload
  BY <1>2, Typed DEF Reserved
<1>4. ASSUME Finish("provider_error"), UNCHANGED <<win, cap, got, sources>>
      PROVE  IInv'
  BY <1>1, <1>3, <1>4, Typed, FinishInv DEF IInv, LedgerSound, Finish, Outcomes
<1>5. ASSUME sources' = sources \cup {ServedVersion}
      PROVE  sources' \subseteq Versions
  BY <1>1, <1>5, Typed DEF ServedVersion, Selections
<1>6. ASSUME sources' = sources \cup {ServedVersion},
             Finish("io"), UNCHANGED <<win, cap, got>>
      PROVE  IInv'
  BY <1>1, <1>3, <1>5, <1>6, Typed, FinishInv
     DEF IInv, LedgerSound, Finish, Outcomes
<1>7. ASSUME sources' = sources \cup {ServedVersion},
             NEW echoed \in BOOLEAN, NEW first \in ClaimedFirst(win),
             NEW last \in ClaimedLast(win),
             NEW total \in {NoTotal, Size[ServedVersion]},
             Proven(win, echoed, first, last, total),
             win' = [win EXCEPT !.total = total],
             cap' = last - first + 1, got' = 0,
             \/ expired /\ Finish("deadline")
             \/ ~expired /\ pc' = "reading" /\ UNCHANGED outcome
      PROVE  IInv'
  <2>1. total \in Nat \cup {NoTotal}
    BY <1>1, <1>7, SizeAssumption DEF ServedVersion, Selections
  <2>2. win' \in WindowType /\ win'.length = win.length
    BY <1>7, <2>1, Typed DEF WindowType
  <2>3. /\ last \in Int /\ win.offset <= last
        /\ last <= win.offset + win.length
    BY <1>7, Typed DEF ClaimedLast
  <2>4. /\ first = win.offset
        /\ last <= win.offset + win.length - 1
    BY <1>7, <2>1, Typed DEF Proven, ExpectedLast, Last, Least
  <2>5. cap' \in Nat /\ cap' <= win.length
    BY <1>7, <2>3, <2>4, Typed
  <2>6. CASE Finish("deadline")
    BY <1>1, <1>3, <1>5, <1>7, <2>2, <2>5, <2>6, Typed, FinishInv
       DEF IInv, LedgerSound, Finish, Outcomes
  <2>7. CASE pc' = "reading" /\ UNCHANGED outcome
    <3>1. TypeOK'
      BY <1>1, <1>5, <1>7, <2>2, <2>5, <2>7
         DEF IInv, TypeOK, Awaiting, storeVars
    <3>2. WindowSound' /\ Prepared'
      BY <1>1, <1>7, <2>2, <2>5, <2>7 DEF IInv, WindowSound, Prepared
    <3>3. Covered'
      BY <1>1, <1>2, <1>7, <2>2, <2>7, Typed
         DEF Covered, Outstanding, Reserved
    <3>4. LedgerSound'
      BY <1>1 DEF IInv, LedgerSound, Budget
    <3> QED
      BY <3>1, <3>2, <3>3, <3>4 DEF IInv
  <2> QED
    BY <1>7, <2>6, <2>7
<1> QED
  BY <1>4, <1>6, <1>7 DEF RangeReply

LEMMA ReadInv == IInv /\ Read => IInv'
<1> SUFFICES ASSUME IInv, Read PROVE IInv'
  OBVIOUS
<1>1. /\ call' = call /\ pc = "reading" /\ sel \in Selections
      /\ UNCHANGED <<ledger, sel, size, win, cap, found, expired, storeVars,
                     dispatched, sources>>
  BY DEF Read, IInv, Prepared
<1>2. /\ delivered + (Reserved(win.length) - got) <= ledger.payload
      /\ got <= cap /\ cap <= win.length
  BY <1>1 DEF IInv, Covered, Outstanding, WindowSound
<1>3. CASE Finish("io") /\ UNCHANGED <<got, delivered>>
  <2>1. delivered' <= ledger'.payload
    BY <1>1, <1>2, <1>3, Typed DEF Reserved
  <2> QED
    BY <1>1, <1>3, <2>1, Typed, FinishInv
       DEF IInv, LedgerSound, Finish, Outcomes
<1>4. ASSUME NEW k \in 1 .. Least(Least(cap - got, Least(Budget["chunk"], cap)),
                                  Size[ServedVersion] - (win.offset + got)),
             got' = got + k, delivered' = delivered + k,
             \/ got + k = cap /\ pc' = "proving" /\ UNCHANGED outcome
             \/ got + k < cap /\ ~expired /\ UNCHANGED <<pc, outcome>>
             \/ got + k < cap /\ expired /\ Finish("deadline")
      PROVE  IInv'
  <2>1. Size[ServedVersion] \in Nat
    BY <1>1, SizeAssumption DEF ServedVersion, Selections
  <2>2. k \in Nat /\ k <= cap - got
    BY <1>4, <2>1, Typed DEF Least, Dimensions
  <2>3. /\ got' \in Nat /\ delivered' \in Nat /\ got' <= cap
        /\ delivered' + (Reserved(win.length) - got') <= ledger.payload
        /\ delivered' <= ledger.payload
    BY <1>2, <1>4, <2>2, Typed DEF Reserved
  <2>4. CASE Finish("deadline")
    BY <1>1, <2>3, <2>4, Typed, FinishInv
       DEF IInv, LedgerSound, Finish, Outcomes
  <2>5. CASE /\ UNCHANGED outcome
             /\ \/ got' = cap /\ pc' = "proving"
                \/ pc' = "reading"
    <3>1. TypeOK'
      BY <1>1, <2>3, <2>5 DEF IInv, TypeOK, Awaiting, storeVars
    <3>2. WindowSound' /\ Prepared'
      BY <1>1, <1>2, <2>3, <2>5 DEF IInv, WindowSound, Prepared
    <3>3. Covered'
      BY <1>1, <2>3, <2>5 DEF Covered, Outstanding, Reserved
    <3>4. LedgerSound'
      BY <1>1 DEF IInv, LedgerSound, Budget
    <3> QED
      BY <3>1, <3>2, <3>3, <3>4 DEF IInv
  <2> QED
    BY <1>1, <1>4, <2>4, <2>5
<1> QED
  BY <1>3, <1>4 DEF Read

\* A window opened by the step that proved the end of the one before it.
LEMMA NextWindowInv ==
    ASSUME IInv, call' = call, pc = "proving", delivered' = delivered,
           UNCHANGED <<sel, size, cap, got, expired, storeVars, sources>>,
           found' \in Nat,
           NEW l \in LedgerType, l.requests = ledger.requests,
           l.output = ledger.output, l.payload <= ledger.payload,
           delivered <= l.payload,
           NEW stage \in {"probe", "previous", "body"},
           NEW offset \in Nat, NEW length \in Nat,
           OpenRange(l, stage, offset, length)
    PROVE  IInv'
<1>1. l.requests \in Nat /\ l.payload \in Nat /\ l.payload <= Budget["payload"]
  BY Typed DEF LedgerType, IInv, LedgerSound, Dimensions
<1>2. /\ ledger' \in LedgerType /\ dispatched' \in Nat
      /\ win' \in WindowType
      /\ dispatched' = ledger'.requests
      /\ ledger'.requests <= Budget["requests"]
      /\ ledger'.payload <= Budget["payload"]
      /\ ledger'.output = l.output
      /\ delivered <= ledger'.payload
      /\ \/ /\ pc' = "done"
            /\ outcome' \in {"requests", "deadline", "payload"}
         \/ /\ pc' = "range" /\ outcome' = outcome
            /\ delivered + Reserved(win'.length) <= ledger'.payload
  BY <1>1, Typed, OpenRangeSound DEF IInv, LedgerSound
<1>3. CASE pc' = "done"
  BY <1>2, <1>3, Typed, FinishInv DEF IInv, LedgerSound, Outcomes
<1>4. CASE pc' = "range"
  <2>1. TypeOK'
    BY <1>2, <1>4, Typed DEF IInv, TypeOK, Awaiting, storeVars
  <2>2. Covered' /\ WindowSound' /\ Prepared'
    BY <1>2, <1>4 DEF IInv, Covered, Outstanding, WindowSound, Prepared
  <2>3. LedgerSound'
    BY <1>2 DEF IInv, LedgerSound, Budget
  <2> QED
    BY <2>1, <2>2, <2>3 DEF IInv
<1> QED
  BY <1>2, <1>3, <1>4

LEMMA EofInv == IInv /\ EofProof => IInv'
<1> SUFFICES ASSUME IInv, EofProof PROVE IInv'
  OBVIOUS
<1> DEFINE l == Released(ledger)
<1>1. /\ call' = call /\ pc = "proving" /\ sel \in Selections
      /\ UNCHANGED <<sel, size, cap, got, expired, storeVars, sources>>
      /\ call.op \in LineOps => size \in Nat
  BY DEF EofProof, IInv, Prepared
<1>2. /\ delivered + (Reserved(win.length) - cap) <= ledger.payload
      /\ got = cap /\ cap <= win.length
  BY <1>1 DEF IInv, Covered, Outstanding, WindowSound
<1>3. /\ l \in LedgerType /\ l.requests = ledger.requests
      /\ l.output = ledger.output /\ l.payload <= ledger.payload
      /\ delivered <= l.payload /\ l.output <= Budget["output"]
  <2>1. /\ ledger.payload - (Reserved(win.length) - cap) \in Nat
        /\ ledger.payload - (Reserved(win.length) - cap) <= ledger.payload
        /\ delivered <= ledger.payload - (Reserved(win.length) - cap)
    BY <1>2, Typed DEF Reserved
  <2> QED
    BY <2>1, Typed DEF LedgerType, IInv, LedgerSound, Released
<1>4. CASE /\ Finish("io") /\ UNCHANGED <<ledger, win, found, dispatched>>
           /\ \E extra \in {0, 1} : delivered' = delivered + extra
  <2>1. delivered' \in Nat /\ delivered' <= ledger.payload
    BY <1>2, <1>4, Typed DEF Reserved
  <2> QED
    BY <1>1, <1>4, <2>1, Typed, FinishInv
       DEF IInv, LedgerSound, Finish, Outcomes
<1> HIDE DEF l
<1>5. ASSUME delivered' = delivered, UNCHANGED <<win, dispatched>>,
             found' \in Nat, ledger' = l, NEW o \in Outcomes, Finish(o)
      PROVE  IInv'
  <2>1. l.payload <= Budget["payload"]
    BY <1>3, Typed DEF IInv, LedgerSound, LedgerType, Dimensions
  <2> QED
    BY <1>1, <1>3, <1>5, <2>1, Typed, FinishInv DEF IInv, LedgerSound, Finish
<1>6. ASSUME delivered' = delivered, UNCHANGED <<win, dispatched>>,
             found' \in Nat, NEW text \in Nat, Answer(l, text)
      PROVE  IInv'
  <2>1. l.payload <= Budget["payload"]
    BY <1>3, Typed DEF IInv, LedgerSound, LedgerType, Dimensions
  <2>2. /\ ledger' \in LedgerType
        /\ ledger'.requests = l.requests /\ ledger'.payload = l.payload
        /\ ledger'.output <= Budget["output"]
        /\ pc' = "done" /\ outcome' \in {"ok", "output"}
    BY <1>3, <1>6, Typed, AnswerSound
  <2> QED
    BY <1>1, <1>3, <1>6, <2>1, <2>2, Typed, FinishInv
       DEF IInv, LedgerSound, Outcomes
<1>7. ASSUME delivered' = delivered, found' \in Nat,
             NEW stage \in {"probe", "previous", "body"},
             NEW offset \in Nat, NEW length \in Nat,
             OpenRange(l, stage, offset, length)
      PROVE  IInv'
  BY <1>1, <1>3, <1>7, NextWindowInv
<1>8. call.op \in LineOps
        => /\ BodyStart \in Nat /\ BodyRequest \in Nat
           /\ BodyStart > 0 => BodyStart - 1 \in Nat
  BY <1>1, Typed, LineWindows
<1>9. \A m \in Nat : \A lines \in 0 .. Least(m, cap) : lines \in Nat
  OBVIOUS
<1>10. CASE call.op \in PreviewOps /\ AfterPreview(l) /\ UNCHANGED delivered
  BY <1>6, <1>10, Typed DEF AfterPreview
<1>11. CASE call.op \in LineOps /\ AfterProbe(l) /\ UNCHANGED delivered
  BY <1>5, <1>6, <1>7, <1>8, <1>9, <1>11, Typed
     DEF AfterProbe, Outcomes, Dimensions
<1>12. CASE /\ call.op \in LineOps /\ UNCHANGED <<delivered, found>>
            /\ OpenRange(l, "body", BodyStart, BodyRequest)
  BY <1>7, <1>8, <1>12, Typed
<1>13. CASE call.op \in LineOps /\ AfterBody(l) /\ UNCHANGED delivered
  BY <1>5, <1>6, <1>9, <1>13, Typed DEF AfterBody, Outcomes, Dimensions
<1> QED
  BY <1>4, <1>10, <1>11, <1>12, <1>13 DEF EofProof, l

LEMMA TimeoutInv == IInv /\ Timeout => IInv'
<1> SUFFICES ASSUME IInv, Timeout PROVE IInv'
  OBVIOUS
<1>1. delivered <= ledger.payload
  BY Typed DEF IInv, Covered, Outstanding, WindowSound, Reserved
<1> QED
  BY <1>1, Typed, FinishInv
     DEF Timeout, IInv, LedgerSound, Finish, Outcomes, history

-----------------------------------------------------------------------------
(* The theorems. *)

\* The invariant the others rest on: every step of the client, of the
\* provider, of other writers and of the clock preserves it.
THEOREM Invariance == Spec => []IInv
<1>1. Init => IInv
  BY InitInv
<1>2. IInv /\ [Next]_vars => IInv'
  <2> SUFFICES ASSUME IInv, [Next]_vars PROVE IInv'
    OBVIOUS
  <2>1. CASE Helper
    BY <2>1, StartInv, TimeoutInv DEF Helper
  <2>2. CASE Provider
    BY <2>2, ObserveInv, HeadInv, RangeInv, ReadInv, EofInv DEF Provider
  <2>3. CASE Expire \/ Writers
    BY <2>3, EnvironmentInv DEF Writers
  <2>4. CASE UNCHANGED vars
    <3>1. TypeOK'
      BY <2>4 DEF IInv, TypeOK, vars, clientVars, storeVars, history
    <3>2. Covered' /\ WindowSound' /\ Prepared' /\ LedgerSound'
      BY <2>4 DEF IInv, Covered, Outstanding, WindowSound, Prepared,
                  LedgerSound, Budget, vars, clientVars, storeVars, history
    <3> QED
      BY <3>1, <3>2 DEF IInv
  <2> QED
    BY <2>1, <2>2, <2>3, <2>4 DEF Next
<1> QED
  BY <1>1, <1>2, PTL DEF Spec

\* Types are kept for every set of versions, calls and budgets.
THEOREM TypeCorrect == Spec => []TypeOK
<1>1. IInv => TypeOK
  BY DEF IInv
<1> QED
  BY <1>1, Invariance, PTL

\* No provider, honest or not, can make an inspection exceed the calls, the
\* payload or the output of its budget, whatever they are.
THEOREM BudgetKept == Spec => []WithinBudget
<1>1. IInv => WithinBudget
  <2> SUFFICES ASSUME IInv PROVE WithinBudget
    OBVIOUS
  <2>1. delivered <= ledger.payload
    BY Typed DEF IInv, Covered, Outstanding, WindowSound, Reserved
  <2> QED
    BY <2>1, Typed DEF IInv, LedgerSound, WithinBudget, Dimensions
<1> QED
  BY <1>1, Invariance, PTL

-----------------------------------------------------------------------------
(* What an answer was read from.  AnswerIsWhole speaks of finished          *)
(* inspections only; SInv says what every window on the way to one has    *)
(* to do with the selection, and is preserved together with IInv.          *)

Transfer == {"range", "reading", "proving"}

Ended == (outcome = "running") <=> (pc # "done")

\* Nothing is read before the selection is bound, and nothing but the selected
\* version after.
Bound ==
    /\ pc \in {"idle", "observe"} => sel = NoSelection
    /\ pc = "observe" => call.op # "preview_bytes_selected"
    /\ pc \in {"idle", "observe", "head"} => sources = {} /\ got = 0
    /\ (pc \in Transfer \/ outcome = "ok") => sel \in Selections /\ sources = {sel.of}

\* Where the open window lies in the selected version.
Framed ==
    pc \in Transfer =>
        /\ call.op \in LineOps => size = Size[sel.of]
        /\ call.op \in PreviewOps => win.offset = 0 /\ win.length = call.length
        /\ (call.op \in LineOps /\ win.stage = "probe") => win.offset = 0
        /\ (call.op \in LineOps /\ win.stage = "body")
              => win.offset = BodyStart /\ win.length = BodyRequest

\* A proved window is the request, clipped at the end of the selected version,
\* and the bytes that were received lie in that version.
Transferred ==
    /\ pc \in {"reading", "proving"} =>
          /\ win.total \in {NoTotal, Size[sel.of]}
          /\ win.total = NoTotal => cap = win.length
          /\ win.total # NoTotal =>
                cap = Least(win.offset + win.length, win.total) - win.offset
    /\ (pc = "reading" /\ got > 0) => win.offset + got <= Size[sel.of]
    /\ pc = "proving" => win.offset + cap <= Size[sel.of]

SInv == Ended /\ Bound /\ Framed /\ Transferred /\ AnswerIsWhole

LEMMA SelectedSize ==
    ASSUME sel \in Selections
    PROVE  sel.of \in Versions /\ Size[sel.of] \in Nat /\ ServedVersion = sel.of
BY SizeAssumption DEF Selections, ServedVersion

LEMMA BodyKept ==
    ASSUME call' = call, size' = size
    PROVE  BodyStart' = BodyStart /\ BodyRequest' = BodyRequest
BY DEF BodyStart, BodyRequest, BodyLength, Budget

\* Where the helpers' last windows lie.
LEMMA BodyWindows ==
    ASSUME call \in Calls, size \in Nat
    PROVE  /\ (call.op \in {"head_lines", "count_lines"} \/ call.force) => BodyStart = 0
           /\ (call.op = "tail_lines" /\ ~call.force) => BodyStart + BodyRequest = size
           /\ call.op = "mid_lines" => BodyStart <= size \div 2
<1>1. BodyLength \in Nat  BY LineWindows
<1>2. (call.op \in {"head_lines", "count_lines"} \/ call.force) => BodyStart = 0
  BY DEF BodyStart
<1>3. ASSUME call.op = "tail_lines", ~call.force PROVE BodyStart + BodyRequest = size
  <2>1. BodyStart = size - BodyLength  BY <1>3 DEF BodyStart
  <2>2. BodyRequest = BodyLength  BY <1>3 DEF BodyRequest
  <2> QED BY <1>1, <2>1, <2>2
<1>4. ASSUME call.op = "mid_lines" PROVE BodyStart <= size \div 2
  <2>1. CASE call.force  BY <1>2, <2>1
  <2>2. CASE ~call.force
    <3>1. BodyStart = IF size \div 2 >= BodyLength \div 2
                      THEN size \div 2 - BodyLength \div 2 ELSE 0
      BY <1>4, <2>2 DEF BodyStart
    <3>2. BodyLength \div 2 \in Nat /\ size \div 2 \in Nat  BY <1>1
    <3> QED BY <3>1, <3>2
  <2> QED BY <2>1, <2>2
<1> QED BY <1>2, <1>3, <1>4

\* A window is opened as it was asked for, or the inspection ends.
LEMMA Opened ==
    ASSUME NEW l, NEW stage, NEW offset, NEW length, OpenRange(l, stage, offset, length)
    PROVE  \/ /\ pc' = "done" /\ outcome' \in {"deadline", "payload", "requests"}
           \/ /\ pc' = "range" /\ outcome' = outcome
              /\ win' = [stage |-> stage, offset |-> offset, length |-> length,
                         total |-> NoTotal]
BY DEF OpenRange, Charge, Finish

LEMMA Requested ==
    ASSUME NEW l, NEW awaiting, Request(l, awaiting)
    PROVE  \/ pc' = "done" /\ outcome' \in {"deadline", "requests"}
           \/ pc' = awaiting /\ outcome' = outcome
BY DEF Request, Charge, Finish

LEMMA AnsweredOrNot ==
    ASSUME NEW l, NEW text, Answer(l, text)
    PROVE  pc' = "done" /\ outcome' \in {"ok", "output"}
BY DEF Answer, Finish

\* An inspection that ends with an error promises nothing.
LEMMA RefusedSource ==
    ASSUME pc' = "done", outcome' \notin {"running", "ok"}
    PROVE  SInv'
BY DEF SInv, Ended, Bound, Framed, Transferred, AnswerIsWhole, Transfer

\* Nothing about the answer changes while other writers and the clock move.
LEMMA QuietSource ==
    ASSUME SInv, UNCHANGED <<clientVars, sources>>
    PROVE  SInv'
<1>1. BodyStart' = BodyStart /\ BodyRequest' = BodyRequest /\ Budget' = Budget
  BY BodyKept DEF clientVars, Budget
<1>2. Ended' /\ Bound' /\ Framed' /\ Transferred'
  BY <1>1 DEF SInv, Ended, Bound, Framed, Transferred, Transfer, clientVars
<1>3. AnswerIsWhole'
  BY <1>1 DEF SInv, AnswerIsWhole, clientVars
<1> QED BY <1>2, <1>3 DEF SInv

LEMMA InitSource == Init => SInv
BY DEF Init, SInv, Ended, Bound, Framed, Transferred, AnswerIsWhole, Transfer

LEMMA StartSource == IInv /\ SInv /\ Start => SInv'
<1> SUFFICES ASSUME IInv, SInv, Start PROVE SInv'
  OBVIOUS
<1>1. /\ UNCHANGED <<call, size, win, cap, got, found, sources>>
      /\ pc = "idle" /\ outcome = "running" /\ sel = NoSelection
      /\ sources = {} /\ got = 0
  BY DEF Start, SInv, Ended, Bound
<1>2. CASE Refusal(call) # "none" /\ Finish(Refusal(call))
  <2>1. outcome' \notin {"running", "ok"}  BY <1>2 DEF Finish, Refusal
  <2> QED BY <1>2, <2>1, RefusedSource DEF Finish
<1>3. CASE call.op # "preview_bytes_selected" /\ Request(ledger, "observe") /\ UNCHANGED sel
  <2>1. CASE pc' = "done"
    BY <1>3, <2>1, Requested, RefusedSource
  <2>2. CASE pc' = "observe" /\ outcome' = outcome
    BY <1>1, <1>3, <2>2
       DEF SInv, Ended, Bound, Framed, Transferred, AnswerIsWhole, Transfer
  <2> QED BY <1>3, <2>1, <2>2, Requested
<1>4. CASE (\E s \in Selections : sel' = s) /\ Request(ledger, "head")
  <2>1. CASE pc' = "done"
    BY <1>4, <2>1, Requested, RefusedSource
  <2>2. CASE pc' = "head" /\ outcome' = outcome
    BY <1>1, <1>4, <2>2
       DEF SInv, Ended, Bound, Framed, Transferred, AnswerIsWhole, Transfer
  <2> QED BY <1>4, <2>1, <2>2, Requested
<1> QED BY <1>2, <1>3, <1>4 DEF Start

LEMMA ObserveSource == IInv /\ SInv /\ ObserveReply => SInv'
<1> SUFFICES ASSUME IInv, SInv, ObserveReply PROVE SInv'
  OBVIOUS
<1>1. /\ UNCHANGED <<call, size, win, cap, got, found, sources>>
      /\ pc = "observe" /\ outcome = "running" /\ sources = {} /\ got = 0
  BY DEF ObserveReply, SInv, Ended, Bound
<1>2. CASE Finish("provider_error") \/ Finish("unsupported") \/ Finish("invalid_argument")
  BY <1>2, RefusedSource DEF Finish
<1>3. CASE Request(ledger, "head")
  <2>1. CASE pc' = "done"
    BY <1>3, <2>1, Requested, RefusedSource
  <2>2. CASE pc' = "head" /\ outcome' = outcome
    BY <1>1, <2>2 DEF SInv, Ended, Bound, Framed, Transferred, AnswerIsWhole, Transfer
  <2> QED BY <1>3, <2>1, <2>2, Requested
<1> QED BY <1>2, <1>3 DEF ObserveReply

LEMMA HeadSource == IInv /\ SInv /\ HeadReply => SInv'
<1> SUFFICES ASSUME IInv, SInv, HeadReply PROVE SInv'
  OBVIOUS
<1>1. /\ UNCHANGED <<call, sel, cap, got>> /\ pc = "head" /\ outcome = "running"
      /\ sel \in Selections /\ sources = {} /\ got = 0
      /\ sel.of \in Versions /\ Size[sel.of] \in Nat /\ ServedVersion = sel.of
      /\ call \in Calls /\ PreviewOps \cap LineOps = {} /\ NoTotal \notin Nat
      /\ call.op \in PreviewOps \cup LineOps
  <2>1. PreviewOps \cap LineOps = {}  BY DEF PreviewOps, LineOps
  <2>2. call \in Calls /\ call.op \in PreviewOps \cup LineOps
    BY Typed, CallAssumption DEF CallType
  <2>3. pc = "head" /\ UNCHANGED <<call, sel, cap, got>>  BY DEF HeadReply
  <2> QED BY <2>1, <2>2, <2>3, SelectedSize, AbsentAssumption
             DEF IInv, Prepared, SInv, Ended, Bound
<1>2. ASSUME NEW o, Finish(o), o \notin {"running", "ok"} PROVE SInv'
  BY <1>2, RefusedSource DEF Finish
<1>3. ASSUME sources' = sources \cup {ServedVersion}, Finish("ok"), Size[sel.of] = 0
      PROVE  SInv'
  BY <1>1, <1>3 DEF Finish, SInv, Ended, Bound, Framed, Transferred, AnswerIsWhole, Transfer
<1>4. ASSUME sources' = sources \cup {ServedVersion}, size' = Size[sel.of],
             call.op \in LineOps, NEW length, OpenRange(ledger, "probe", 0, length)
      PROVE  SInv'
  <2>1. CASE pc' = "done"
    BY <1>4, <2>1, Opened, RefusedSource
  <2>2. CASE /\ pc' = "range" /\ outcome' = outcome
             /\ win' = [stage |-> "probe", offset |-> 0, length |-> length,
                        total |-> NoTotal]
    BY <1>1, <1>4, <2>2
       DEF SInv, Ended, Bound, Framed, Transferred, AnswerIsWhole, Transfer
  <2> QED BY <1>4, <2>1, <2>2, Opened
<1>5. ASSUME sources' = sources \cup {ServedVersion}, call.op \in PreviewOps,
             OpenRange(ledger, "body", 0, call.length)
      PROVE  SInv'
  <2>1. CASE pc' = "done"
    BY <1>5, <2>1, Opened, RefusedSource
  <2>2. CASE /\ pc' = "range" /\ outcome' = outcome
             /\ win' = [stage |-> "body", offset |-> 0, length |-> call.length,
                        total |-> NoTotal]
    BY <1>1, <1>5, <2>2
       DEF SInv, Ended, Bound, Framed, Transferred, AnswerIsWhole, Transfer
  <2> QED BY <1>5, <2>1, <2>2, Opened
<1>6. CASE Finish("provider_error")
  BY <1>2, <1>6
<1>7. ASSUME sources' = sources \cup {ServedVersion},
             NEW total \in {NoTotal, Size[ServedVersion]}, size' = total,
             \/ total = 0 /\ Finish("ok")
             \/ total # 0 /\ call.op \in PreviewOps /\ OpenRange(ledger, "body", 0, call.length)
             \/ Finish("io") \/ Finish("payload") \/ Finish("pending")
             \/ /\ total \notin {NoTotal, 0} /\ call.op \in LineOps
                /\ OpenRange(ledger, "probe", 0, Least(total, Budget["probe"]))
      PROVE  SInv'
  <2>1. CASE total = 0 /\ Finish("ok")
    BY <1>1, <1>3, <1>7, <2>1
  <2>2. CASE call.op \in PreviewOps /\ OpenRange(ledger, "body", 0, call.length)
    BY <1>5, <1>7, <2>2
  <2>3. CASE Finish("io") \/ Finish("payload") \/ Finish("pending")
    BY <1>2, <2>3
  <2>4. CASE /\ total \notin {NoTotal, 0} /\ call.op \in LineOps
             /\ OpenRange(ledger, "probe", 0, Least(total, Budget["probe"]))
    BY <1>1, <1>4, <1>7, <2>4
  <2> QED BY <1>7, <2>1, <2>2, <2>3, <2>4
<1> QED BY <1>6, <1>7 DEF HeadReply

LEMMA RangeSource == IInv /\ SInv /\ RangeReply => SInv'
<1> SUFFICES ASSUME IInv, SInv, RangeReply PROVE SInv'
  OBVIOUS
<1>1. /\ UNCHANGED <<call, sel, size, found>> /\ pc = "range" /\ outcome = "running"
      /\ sel \in Selections /\ sources = {sel.of}
      /\ sel.of \in Versions /\ Size[sel.of] \in Nat /\ ServedVersion = sel.of
      /\ win \in WindowType /\ win.offset \in Nat /\ win.length \in Nat /\ NoTotal \notin Nat
  <2>1. pc = "range" /\ UNCHANGED <<call, sel, size, found>>  BY DEF RangeReply
  <2> QED BY <2>1, SelectedSize, AbsentAssumption, Typed
             DEF IInv, Prepared, SInv, Ended, Bound, Transfer
<1>2. ASSUME NEW o, Finish(o), o \notin {"running", "ok"} PROVE SInv'
  BY <1>2, RefusedSource DEF Finish
<1>3. ASSUME sources' = sources \cup {ServedVersion},
             NEW echoed \in BOOLEAN, NEW first \in ClaimedFirst(win),
             NEW last \in ClaimedLast(win),
             NEW total \in {NoTotal, Size[ServedVersion]},
             Proven(win, echoed, first, last, total),
             win' = [win EXCEPT !.total = total],
             cap' = last - first + 1, got' = 0,
             pc' = "reading", UNCHANGED outcome
      PROVE  SInv'
  <2>1. /\ win'.total = total /\ win'.offset = win.offset /\ win'.length = win.length
        /\ win'.stage = win.stage
    BY <1>1, <1>3 DEF WindowType
  <2>2. first = win.offset /\ last = ExpectedLast(win, total)
    BY <1>3 DEF Proven
  <2>3. total = NoTotal => cap' = win.length
    BY <1>1, <1>3, <2>2 DEF ExpectedLast, Last
  <2>4. total # NoTotal => cap' = Least(win.offset + win.length, total) - win.offset
    BY <1>1, <1>3, <2>2 DEF ExpectedLast, Last, Least
  <2>5. BodyStart' = BodyStart /\ BodyRequest' = BodyRequest
    BY <1>1, BodyKept
  <2>6. Ended' /\ Bound'
    BY <1>1, <1>3 DEF Ended, Bound, Transfer
  <2>7. Framed'
    BY <1>1, <1>3, <2>1, <2>5 DEF SInv, Framed, Transfer
  <2>8. Transferred'
    BY <1>1, <1>3, <2>1, <2>3, <2>4 DEF Transferred
  <2>9. AnswerIsWhole'
    BY <1>1, <1>3 DEF AnswerIsWhole
  <2> QED BY <2>6, <2>7, <2>8, <2>9 DEF SInv
<1> QED BY <1>2, <1>3 DEF RangeReply

LEMMA ReadSource == IInv /\ SInv /\ Read => SInv'
<1> SUFFICES ASSUME IInv, SInv, Read PROVE SInv'
  OBVIOUS
<1>1. /\ UNCHANGED <<call, sel, size, win, cap, found, sources>>
      /\ pc = "reading" /\ outcome = "running"
      /\ sel \in Selections /\ sources = {sel.of}
      /\ sel.of \in Versions /\ Size[sel.of] \in Nat /\ ServedVersion = sel.of
      /\ win.offset \in Nat /\ got \in Nat /\ cap \in Nat
      /\ Budget["chunk"] \in Nat
  <2>1. pc = "reading" /\ UNCHANGED <<call, sel, size, win, cap, found, sources>>
    BY DEF Read
  <2> QED BY <2>1, SelectedSize, Typed
             DEF IInv, Prepared, SInv, Ended, Bound, Transfer, Dimensions
<1>2. ASSUME NEW o, Finish(o), o \notin {"running", "ok"} PROVE SInv'
  BY <1>2, RefusedSource DEF Finish
<1>3. ASSUME NEW k \in 1 .. Least(Least(cap - got, Least(Budget["chunk"], cap)),
                                  Size[ServedVersion] - (win.offset + got)),
             got' = got + k, outcome' = outcome,
             \/ got + k = cap /\ pc' = "proving"
             \/ got + k < cap /\ pc' = "reading"
      PROVE  SInv'
  <2>1. /\ k \in Nat /\ k >= 1
        /\ k <= Size[sel.of] - (win.offset + got)
    BY <1>1, <1>3 DEF Least
  <2>2. win.offset + got' <= Size[sel.of]
    BY <1>1, <1>3, <2>1
  <2>3. BodyStart' = BodyStart /\ BodyRequest' = BodyRequest
    BY <1>1, BodyKept
  <2>4. Ended' /\ Bound' /\ AnswerIsWhole'
    BY <1>1, <1>3 DEF Ended, Bound, AnswerIsWhole, Transfer
  <2>5. Framed'
    BY <1>1, <1>3, <2>3 DEF SInv, Framed, Transfer
  <2>6. Transferred'
    BY <1>1, <1>3, <2>2 DEF SInv, Transferred
  <2> QED BY <2>4, <2>5, <2>6 DEF SInv
<1> QED BY <1>1, <1>2, <1>3 DEF Read

\* The next window, opened by the step that proved the end of the one before.
LEMMA NextWindowSource ==
    ASSUME SInv, pc = "proving", UNCHANGED <<call, sel, size, sources>>,
           call.op \in LineOps,
           NEW l, NEW stage \in {"previous", "body"}, NEW offset, NEW length,
           stage = "body" => offset = BodyStart /\ length = BodyRequest,
           OpenRange(l, stage, offset, length)
    PROVE  SInv'
<1>1. CASE pc' = "done"
  BY <1>1, Opened, RefusedSource
<1>2. CASE /\ pc' = "range" /\ outcome' = outcome
           /\ win' = [stage |-> stage, offset |-> offset, length |-> length,
                      total |-> NoTotal]
  <2>1. BodyStart' = BodyStart /\ BodyRequest' = BodyRequest
    BY BodyKept
  <2>2. PreviewOps \cap LineOps = {}  BY DEF PreviewOps, LineOps
  <2>3. outcome = "running"  BY DEF SInv, Ended
  <2>4. Ended' /\ Bound' /\ Transferred' /\ AnswerIsWhole'
    BY <1>2, <2>3 DEF SInv, Ended, Bound, Transferred, AnswerIsWhole, Transfer
  <2>5. Framed'
    BY <1>2, <2>1, <2>2 DEF SInv, Framed, Transfer
  <2> QED BY <2>4, <2>5 DEF SInv
<1> QED BY <1>1, <1>2, Opened

\* A receipt that names a total names the end of the selected version.
LEMMA EndOfSource ==
    ASSUME IInv, SInv, pc = "proving", call.op \in LineOps
    PROVE  /\ size = Size[sel.of] /\ size \in Nat
           /\ AtEof => win.offset + cap = size
           /\ win.stage = "probe" => win.offset = 0
           /\ win.stage = "body" => win.offset = BodyStart
           /\ (win.stage = "body" /\ call.op = "tail_lines" /\ ~call.force)
                 => win.offset + cap = size
<1>1. /\ size = Size[sel.of] /\ size \in Nat /\ NoTotal \notin Nat /\ call \in Calls
      /\ win.offset \in Nat /\ win.length \in Nat /\ cap \in Nat
      /\ win.total \in {NoTotal, size}
      /\ win.stage = "probe" => win.offset = 0
      /\ win.stage = "body" => win.offset = BodyStart /\ win.length = BodyRequest
  BY Typed, AbsentAssumption DEF IInv, Prepared, SInv, Framed, Transferred, Transfer
<1>2. AtEof => win.offset + cap = size
  BY <1>1 DEF AtEof
<1>3. ASSUME win.stage = "body", call.op = "tail_lines", ~call.force
      PROVE  win.offset + cap = size
  <2>1. win.offset + win.length = size  BY <1>1, <1>3, BodyWindows
  <2>2. win.total = NoTotal => cap = win.length
    BY DEF SInv, Transferred
  <2>3. win.total # NoTotal => cap = Least(win.offset + win.length, win.total) - win.offset
    BY DEF SInv, Transferred
  <2> QED BY <1>1, <2>1, <2>2, <2>3 DEF Least
<1> QED BY <1>1, <1>2, <1>3

LEMMA EofSource == IInv /\ SInv /\ EofProof => SInv'
<1> SUFFICES ASSUME IInv, SInv, EofProof PROVE SInv'
  OBVIOUS
<1> DEFINE l == Released(ledger)
<1>1. /\ UNCHANGED <<call, sel, size, cap, got, sources>>
      /\ pc = "proving" /\ outcome = "running"
      /\ sel \in Selections /\ sources = {sel.of} /\ call \in Calls
      /\ PreviewOps \cap LineOps = {}
  <2>1. pc = "proving" /\ UNCHANGED <<call, sel, size, cap, got, sources>>
    BY DEF EofProof
  <2> QED BY <2>1, Typed DEF IInv, SInv, Ended, Bound, Transfer, PreviewOps, LineOps
<1> HIDE DEF l
<1>2. ASSUME NEW o, Finish(o), o \notin {"running", "ok"} PROVE SInv'
  BY <1>2, RefusedSource DEF Finish
\* A preview that succeeds claims nothing a line helper does.
<1>3. ASSUME call.op \in PreviewOps, AfterPreview(l) PROVE SInv'
  <2>1. pc' = "done" /\ outcome' \in {"ok", "output"}
    BY <1>3, AnsweredOrNot DEF AfterPreview
  <2> QED BY <1>1, <1>3, <2>1
          DEF SInv, Ended, Bound, Framed, Transferred, AnswerIsWhole, Transfer
\* A line helper's answer from the window that was just proved.
<1>4. ASSUME pc' = "done", outcome' \in {"ok", "output"}, UNCHANGED win,
             LET whole   == size
                 atStart == win.offset = 0
                 atEnd   == win.offset + cap = whole
                 few     == found' < Budget["lines"]
             IN  /\ call.op = "head_lines" => atStart /\ (few => atEnd)
                 /\ call.op = "tail_lines" => atEnd /\ (few \/ call.force => atStart)
                 /\ call.op = "mid_lines" => /\ win.offset <= whole \div 2
                                             /\ few => atEnd
                                             /\ call.force => atStart /\ atEnd
                 /\ call.op = "count_lines" => atStart /\ atEnd,
             call.op \in LineOps
      PROVE  SInv'
  <2>1. Ended' /\ Bound' /\ Framed' /\ Transferred'
    BY <1>1, <1>4 DEF Ended, Bound, Framed, Transferred, Transfer
  <2>2. AnswerIsWhole'
    <3>1. size = Size[sel.of] /\ Budget' = Budget
      BY <1>1, <1>4, EndOfSource DEF Budget
    <3> QED BY <1>1, <1>4, <3>1 DEF AnswerIsWhole, LineOps
  <2> QED BY <2>1, <2>2 DEF SInv
<1>5. ASSUME call.op \in LineOps, win.stage = "probe", AfterProbe(l) PROVE SInv'
  <2>1. CASE Finish("encoding")  BY <1>2, <2>1
  <2>2. ASSUME call.op = "head_lines", NEW lines, lines = Budget["lines"] \/ AtEof,
               found' = lines, NEW text, Answer(l, text), UNCHANGED win
        PROVE  SInv'
    <3>1. pc' = "done" /\ outcome' \in {"ok", "output"}  BY <2>2, AnsweredOrNot
    <3>2. win.offset = 0 /\ (AtEof => win.offset + cap = size)
      BY <1>1, <1>5, EndOfSource
    <3>3. found' < Budget["lines"] => AtEof
      BY <1>1, <2>2, Typed DEF Dimensions
    <3> QED BY <1>4, <1>5, <2>2, <3>1, <3>2, <3>3
  <2>3. ASSUME call.op = "head_lines", OpenRange(l, "body", 0, BodyRequest) PROVE SInv'
    <3>1. BodyStart = 0  BY <1>1, <1>5, <2>3, EndOfSource, BodyWindows
    <3> QED BY <1>1, <1>5, <2>3, <3>1, NextWindowSource
  <2>4. ASSUME OpenRange(l, "previous", BodyStart - 1, 1) PROVE SInv'
    BY <1>1, <1>5, <2>4, NextWindowSource
  <2>5. ASSUME OpenRange(l, "body", BodyStart, BodyRequest) PROVE SInv'
    BY <1>1, <1>5, <2>5, NextWindowSource
  <2> QED BY <1>5, <2>1, <2>2, <2>3, <2>4, <2>5 DEF AfterProbe
<1>6. ASSUME call.op \in LineOps, OpenRange(l, "body", BodyStart, BodyRequest) PROVE SInv'
  BY <1>1, <1>6, NextWindowSource
<1>7. ASSUME call.op \in LineOps, win.stage = "body", AfterBody(l) PROVE SInv'
  <2>0. /\ size \in Nat /\ (AtEof => win.offset + cap = size) /\ win.offset = BodyStart
        /\ (call.op = "tail_lines" /\ ~call.force) => win.offset + cap = size
    BY <1>1, <1>7, EndOfSource
  <2>00. /\ (call.op \in {"head_lines", "count_lines"} \/ call.force) => win.offset = 0
         /\ call.op = "mid_lines" => win.offset <= size \div 2
    BY <1>1, <2>0, BodyWindows
  <2>1. CASE Finish("payload") \/ Finish("encoding") \/ Finish("pending")
    BY <1>2, <2>1
  <2>2. CASE call.op = "count_lines" /\ ~CountMismatch /\ Finish("ok") /\ UNCHANGED win
    <3>1. win.offset = 0 /\ win.offset + cap = size
      BY <2>2, <2>00 DEF CountMismatch
    <3> QED BY <1>4, <1>7, <2>2, <3>1 DEF Finish
  <2>3. ASSUME call.op # "count_lines", NEW lines \in Nat, found' = lines,
               ~Incomplete(lines), NEW text, Answer(l, text), UNCHANGED win
        PROVE  SInv'
    <3>1. pc' = "done" /\ outcome' \in {"ok", "output"}  BY <2>3, AnsweredOrNot
    <3>2. call.op = "head_lines" => (found' < Budget["lines"] => AtEof)
      BY <2>3 DEF Incomplete
    <3>3. call.op = "tail_lines" => /\ call.force => AtEof
                                    /\ found' < Budget["lines"] => BodyStart = 0
      BY <2>3 DEF Incomplete
    <3>4. call.op = "mid_lines" => (call.force \/ found' < Budget["lines"] => AtEof)
      BY <2>3 DEF Incomplete
    <3>5. call.op = "tail_lines" => win.offset + cap = size
      BY <2>0, <3>3
    <3> QED BY <1>4, <1>7, <2>0, <2>00, <2>3, <3>1, <3>2, <3>3, <3>4, <3>5
  <2> QED BY <1>7, <2>1, <2>2, <2>3 DEF AfterBody
<1> QED BY <1>2, <1>3, <1>5, <1>6, <1>7 DEF EofProof, l

LEMMA TimeoutSource == Timeout => SInv'
BY RefusedSource DEF Timeout, Finish

THEOREM SourceInvariance == Spec => []SInv
<1>1. IInv /\ SInv /\ [Next]_vars => SInv'
  <2> SUFFICES ASSUME IInv, SInv, [Next]_vars PROVE SInv'
    OBVIOUS
  <2>1. CASE Helper
    BY <2>1, StartSource, TimeoutSource DEF Helper
  <2>2. CASE Provider
    BY <2>2, ObserveSource, HeadSource, RangeSource, ReadSource, EofSource DEF Provider
  <2>3. CASE Expire \/ Writers \/ UNCHANGED vars
    BY <2>3, QuietSource DEF Expire, Writers, Overwrite, Delete, Purge, vars, history
  <2> QED BY <2>1, <2>2, <2>3 DEF Next
<1> QED BY <1>1, InitSource, Invariance, PTL DEF Spec

\* A line helper that succeeds has read what its answer claims, for every
\* size, budget and window.
THEOREM AnsweredWhole == Spec => []AnswerIsWhole
<1>1. SInv => AnswerIsWhole  BY DEF SInv
<1> QED BY <1>1, SourceInvariance, PTL

-----------------------------------------------------------------------------
(* The deadline. *)

\* No request is dispatched and no window opened once the deadline has passed.
LEMMA NoLateRequest ==
    ASSUME NEW l, NEW awaiting, expired, Request(l, awaiting)
    PROVE  dispatched' = dispatched
BY DEF Request

LEMMA NoLateWindow ==
    ASSUME NEW l, NEW stage, NEW offset, NEW length, expired,
           OpenRange(l, stage, offset, length)
    PROVE  dispatched' = dispatched
BY DEF OpenRange

\* A step after the deadline calls no provider, and takes another piece of a
\* body only if that completes it (race() and check_deadline()).
THEOREM DeadlineHolds == Spec => NothingPastDeadline
<1>1. ASSUME [Next]_vars, expired
      PROVE  /\ dispatched' = dispatched
             /\ (pc = "reading" /\ pc' = "reading") => got' = got
  <2>1. CASE Start
    BY <1>1, <2>1, NoLateRequest DEF Start
  <2>2. CASE ObserveReply
    BY <1>1, <2>2, NoLateRequest DEF ObserveReply
  <2>3. CASE HeadReply
    BY <1>1, <2>3, NoLateWindow DEF HeadReply
  <2>4. CASE RangeReply
    BY <2>4 DEF RangeReply
  <2>5. CASE Read
    BY <1>1, <2>5 DEF Read, Finish
  <2>6. CASE EofProof
    <3>1. dispatched' = dispatched
      BY <1>1, <2>6, NoLateWindow DEF EofProof, AfterPreview, AfterProbe, AfterBody
    <3> QED BY <2>6, <3>1 DEF EofProof
  <2>7. CASE Timeout \/ Expire \/ Writers \/ UNCHANGED vars
    BY <2>7 DEF Timeout, Expire, Writers, Overwrite, Delete, Purge, clientVars, history, vars
  <2> QED BY <1>1, <2>1, <2>2, <2>3, <2>4, <2>5, <2>6, <2>7 DEF Next, Helper, Provider
<1>2. [Next]_vars =>
        [expired => /\ dispatched' = dispatched
                    /\ (pc = "reading" /\ pc' = "reading") => got' = got]_vars
  BY <1>1
<1> QED BY <1>2, PTL DEF Spec, NothingPastDeadline

-----------------------------------------------------------------------------
(* The refinement of PreviewPromise. *)

Mapped == <<call.length, call.op = "preview_bytes_selected", current, ChosenVersion,
            GivenAnswer>>

LEMMA StillPending ==
    ASSUME SInv, pc # "done"
    PROVE  outcome = "running" /\ GivenAnswer = Promise!Unanswered("pending")
BY DEF SInv, Ended, GivenAnswer, Previewed, Promise!Unanswered

LEMMA RefusedAnswer ==
    ASSUME outcome' \notin {"running", "ok"}
    PROVE  GivenAnswer' = Promise!Unanswered("refused")
BY DEF GivenAnswer, Previewed, Promise!Unanswered

\* An error ends the promise.
LEMMA PromiseRefuse ==
    ASSUME SInv, pc # "done", outcome' \notin {"running", "ok"},
           UNCHANGED <<call, sel, current>>
    PROVE  Promise!Next
<1>1. Promise!Refuse
  BY StillPending, RefusedAnswer DEF Promise!Refuse, Promise!Unanswered, ChosenVersion
<1> QED BY <1>1 DEF Promise!Next

\* Binding a selection chooses a version, even when the next call is refused.
LEMMA PromiseChoose ==
    ASSUME IInv, SInv, pc \in {"idle", "observe"}, sel' \in Selections,
           outcome' # "ok", UNCHANGED <<call, current>>,
           call.op # "preview_bytes_selected" => sel'.of = current
    PROVE  Promise!Next
<1>1. ChosenVersion = NoVersion /\ GivenAnswer = Promise!Unanswered("pending")
  BY StillPending DEF SInv, Bound, ChosenVersion
<1>2. sel' # NoSelection /\ sel'.of \in Versions
  BY UnboundAssumption DEF Selections
<1>3. ChosenVersion' = sel'.of /\ ChosenVersion' \in Versions /\ sel'.of # NoVersion
  BY <1>2, AbsentAssumption DEF ChosenVersion
<1>4. GivenAnswer' \in {Promise!Unanswered("pending"), Promise!Unanswered("refused")}
  BY DEF GivenAnswer, Previewed, Promise!Unanswered
<1>5. Promise!Choose
  BY <1>1, <1>3, <1>4 DEF Promise!Choose, Promise!Unanswered
<1> QED BY <1>5 DEF Promise!Next

\* Steps that bind nothing and end nothing do not show.
LEMMA PromiseStutter ==
    ASSUME SInv, pc # "done", outcome' = outcome, UNCHANGED <<call, sel, current>>
    PROVE  UNCHANGED Mapped
<1>1. outcome = "running"  BY StillPending
<1>2. GivenAnswer' = GivenAnswer  BY <1>1 DEF GivenAnswer, Previewed
<1> QED BY <1>2 DEF Mapped, ChosenVersion

\* What a line helper answers is not a preview.
LEMMA PromiseLines ==
    ASSUME SInv, pc # "done", outcome' \in {"running", "ok"}, call.op \in LineOps,
           UNCHANGED <<call, sel, current>>
    PROVE  UNCHANGED Mapped
<1>1. outcome = "running"  BY StillPending
<1>2. PreviewOps \cap LineOps = {}  BY DEF PreviewOps, LineOps
<1>3. GivenAnswer' = GivenAnswer  BY <1>1, <1>2 DEF GivenAnswer, Previewed
<1> QED BY <1>3 DEF Mapped, ChosenVersion

\* A preview answers with the exact prefix.
LEMMA PromiseFulfil ==
    ASSUME SInv, pc # "done", outcome' = "ok", call.op \in PreviewOps,
           UNCHANGED <<call, sel, current>>, sel \in Selections, sources' = {sel.of},
           got' = Least(call.length, Size[sel.of]), call.length \in Nat
    PROVE  Promise!Next
<1>1. /\ GivenAnswer = Promise!Unanswered("pending")
      /\ ChosenVersion = sel.of /\ ChosenVersion' = sel.of /\ sel.of # NoVersion
  BY StillPending, UnboundAssumption, AbsentAssumption DEF ChosenVersion, Selections
<1>2. GivenAnswer' = [status |-> "fulfilled", of |-> {sel.of},
                      bytes |-> Least(call.length, Size[sel.of])]
  BY DEF GivenAnswer, Previewed
<1>3. Promise!Prefix = [status |-> "fulfilled", of |-> {sel.of},
                        bytes |-> Least(call.length, Size[sel.of])]
  BY <1>1 DEF Promise!Prefix, Least
<1>4. Promise!Fulfil
  BY <1>1, <1>2, <1>3 DEF Promise!Fulfil, Promise!Unanswered
<1> QED BY <1>4 DEF Promise!Next

\* Other writers.
LEMMA PromiseWrite ==
    ASSUME UNCHANGED <<clientVars, sources>>, current' \in Versions \cup {NoVersion}
    PROVE  Promise!Next
<1>1. ChosenVersion' = ChosenVersion /\ GivenAnswer' = GivenAnswer /\ call' = call
  BY DEF clientVars, ChosenVersion, GivenAnswer, Previewed
<1> QED BY <1>1 DEF Promise!Next, Promise!Write

LEMMA PromiseStart ==
    ASSUME IInv, SInv, Start
    PROVE  Promise!Next \/ UNCHANGED Mapped
<1>1. pc = "idle" /\ pc # "done" /\ outcome = "running" /\ UNCHANGED <<call, current>>
  BY DEF Start, SInv, Ended, storeVars
<1>2. CASE Refusal(call) # "none" /\ Finish(Refusal(call)) /\ UNCHANGED sel
  <2>1. outcome' \notin {"running", "ok"}  BY <1>2 DEF Finish, Refusal
  <2> QED BY <1>1, <1>2, <2>1, PromiseRefuse
<1>3. CASE Request(ledger, "observe") /\ UNCHANGED sel
  <2>1. outcome' \in {"deadline", "requests"} \/ outcome' = outcome  BY <1>3, Requested
  <2> QED BY <1>1, <1>3, <2>1, PromiseRefuse, PromiseStutter
<1>4. CASE /\ call.op = "preview_bytes_selected" /\ Request(ledger, "head")
           /\ \E s \in Selections : sel' = s
  <2>1. outcome' # "ok"  BY <1>1, <1>4, Requested
  <2> QED BY <1>1, <1>4, <2>1, PromiseChoose
<1> QED BY <1>2, <1>3, <1>4 DEF Start

LEMMA PromiseObserve ==
    ASSUME IInv, SInv, ObserveReply
    PROVE  Promise!Next \/ UNCHANGED Mapped
<1>1. pc = "observe" /\ pc # "done" /\ outcome = "running" /\ UNCHANGED <<call, current>>
  BY DEF ObserveReply, SInv, Ended, storeVars
<1>2. CASE /\ Finish("provider_error") \/ Finish("unsupported") \/ Finish("invalid_argument")
           /\ UNCHANGED sel
  BY <1>1, <1>2, PromiseRefuse DEF Finish
<1>3. CASE /\ current # NoVersion /\ Request(ledger, "head")
           /\ \E evidence \in {"version", "validator"} :
                 sel' = [by |-> evidence, of |-> current]
  <2>1. outcome' # "ok"  BY <1>1, <1>3, Requested
  <2>2. current \in Versions  BY <1>3 DEF IInv, TypeOK
  <2>3. sel' \in Selections /\ sel'.of = current  BY <1>3, <2>2 DEF Selections
  <2> QED BY <1>1, <2>1, <2>3, PromiseChoose
<1> QED BY <1>2, <1>3 DEF ObserveReply

LEMMA PromiseHead ==
    ASSUME IInv, SInv, HeadReply
    PROVE  Promise!Next \/ UNCHANGED Mapped
<1>1. /\ pc = "head" /\ pc # "done" /\ outcome = "running"
      /\ UNCHANGED <<call, sel, current, got>>
      /\ sel \in Selections /\ sources = {} /\ got = 0 /\ ServedVersion = sel.of
      /\ Size[sel.of] \in Nat /\ NoTotal \notin Nat
      /\ call.length \in Nat /\ call.op \in PreviewOps \cup LineOps
  <2>1. call \in CallType  BY Typed, CallAssumption
  <2>2. pc = "head" /\ UNCHANGED <<call, sel, current, got>>
    BY DEF HeadReply, storeVars
  <2> QED BY <2>1, <2>2, SelectedSize, AbsentAssumption
             DEF CallType, IInv, Prepared, SInv, Ended, Bound
<1>2. ASSUME NEW o, Finish(o), o \notin {"running", "ok"} PROVE Promise!Next
  BY <1>1, <1>2, PromiseRefuse DEF Finish
<1>3. ASSUME NEW l, NEW stage, NEW offset, NEW length, OpenRange(l, stage, offset, length)
      PROVE  Promise!Next \/ UNCHANGED Mapped
  <2>1. outcome' \in {"deadline", "payload", "requests"} \/ outcome' = outcome
    BY <1>3, Opened
  <2> QED BY <1>1, <2>1, PromiseRefuse, PromiseStutter
<1>4. ASSUME Size[sel.of] = 0, sources' = sources \cup {ServedVersion}, Finish("ok")
      PROVE  Promise!Next \/ UNCHANGED Mapped
  <2>1. CASE call.op \in PreviewOps
    <3>1. outcome' = "ok" /\ sources' = {sel.of} /\ got' = Least(call.length, Size[sel.of])
      BY <1>1, <1>4 DEF Finish, Least
    <3> QED BY <1>1, <2>1, <3>1, PromiseFulfil
  <2>2. CASE call.op \in LineOps
    BY <1>1, <1>4, <2>2, PromiseLines DEF Finish
  <2> QED BY <1>1, <2>1, <2>2
<1>5. ASSUME sources' = sources \cup {ServedVersion},
             NEW total \in {NoTotal, Size[ServedVersion]}, total = 0 /\ Finish("ok")
      PROVE  Promise!Next \/ UNCHANGED Mapped
  BY <1>1, <1>4, <1>5
<1> QED BY <1>2, <1>3, <1>5 DEF HeadReply

LEMMA PromiseRange ==
    ASSUME IInv, SInv, RangeReply
    PROVE  Promise!Next \/ UNCHANGED Mapped
<1>1. pc # "done" /\ outcome = "running" /\ UNCHANGED <<call, sel, current>>
  BY DEF RangeReply, SInv, Ended, storeVars
<1>2. outcome' \in {"provider_error", "io", "deadline"} \/ outcome' = outcome
  BY DEF RangeReply, Finish
<1> QED BY <1>1, <1>2, PromiseRefuse, PromiseStutter

LEMMA PromiseRead ==
    ASSUME IInv, SInv, Read
    PROVE  Promise!Next \/ UNCHANGED Mapped
<1>1. pc # "done" /\ outcome = "running" /\ UNCHANGED <<call, sel, current>>
  BY DEF Read, SInv, Ended, storeVars
<1>2. outcome' \in {"io", "deadline"} \/ outcome' = outcome
  BY DEF Read, Finish
<1> QED BY <1>1, <1>2, PromiseRefuse, PromiseStutter

LEMMA PromiseEof ==
    ASSUME IInv, SInv, EofProof
    PROVE  Promise!Next \/ UNCHANGED Mapped
<1> DEFINE l == Released(ledger)
<1>1. /\ pc = "proving" /\ pc # "done" /\ outcome = "running"
      /\ UNCHANGED <<call, sel, current, cap, got, sources>>
      /\ sel \in Selections /\ sources = {sel.of} /\ got = cap
      /\ Size[sel.of] \in Nat /\ cap \in Nat /\ NoTotal \notin Nat
      /\ call.length \in Nat
  <2>1. call \in CallType  BY Typed, CallAssumption
  <2>2. pc = "proving" /\ UNCHANGED <<call, sel, current, cap, got, sources>>
    BY DEF EofProof, storeVars
  <2> QED BY <2>1, <2>2, SelectedSize, AbsentAssumption, Typed
             DEF CallType, IInv, Prepared, WindowSound, SInv, Ended, Bound, Transfer
<1>2. ASSUME NEW o, Finish(o), o \notin {"running", "ok"} PROVE Promise!Next
  BY <1>1, <1>2, PromiseRefuse DEF Finish
<1>3. ASSUME NEW m, NEW stage, NEW offset, NEW length, OpenRange(m, stage, offset, length)
      PROVE  Promise!Next \/ UNCHANGED Mapped
  <2>1. outcome' \in {"deadline", "payload", "requests"} \/ outcome' = outcome
    BY <1>3, Opened
  <2> QED BY <1>1, <2>1, PromiseRefuse, PromiseStutter
<1>4. ASSUME call.op \in LineOps, NEW m, NEW text, Answer(m, text)
      PROVE  Promise!Next \/ UNCHANGED Mapped
  <2>1. outcome' \in {"ok", "output"}  BY <1>4, AnsweredOrNot
  <2> QED BY <1>1, <1>4, <2>1, PromiseRefuse, PromiseLines
<1>5. ASSUME call.op \in PreviewOps, NEW m, Answer(m, cap)
      PROVE  Promise!Next
  <2>1. outcome' \in {"ok", "output"}  BY <1>5, AnsweredOrNot
  <2>2. cap = Least(call.length, Size[sel.of])
    <3>1. win.offset = 0 /\ win.length = call.length
      BY <1>1, <1>5 DEF SInv, Framed, Transfer
    <3>2. /\ win.total \in {NoTotal, Size[sel.of]} /\ win.offset + cap <= Size[sel.of]
          /\ win.total = NoTotal => cap = win.length
          /\ win.total # NoTotal =>
                cap = Least(win.offset + win.length, win.total) - win.offset
      BY <1>1 DEF SInv, Transferred
    <3> QED BY <1>1, <3>1, <3>2 DEF Least
  <2>3. CASE outcome' = "ok"
    BY <1>1, <1>5, <2>2, <2>3, PromiseFulfil
  <2>4. CASE outcome' = "output"
    BY <1>1, <2>4, PromiseRefuse
  <2> QED BY <2>1, <2>3, <2>4
<1>6. ASSUME call.op \in LineOps, Finish("ok") PROVE UNCHANGED Mapped
  BY <1>1, <1>6, PromiseLines DEF Finish
<1> HIDE DEF l
<1>7. CASE Finish("io")
  BY <1>2, <1>7
<1>8. CASE call.op \in PreviewOps /\ AfterPreview(l)
  BY <1>5, <1>8 DEF AfterPreview
<1>9. CASE call.op \in LineOps /\ AfterProbe(l)
  BY <1>2, <1>3, <1>4, <1>9 DEF AfterProbe
<1>10. CASE OpenRange(l, "body", BodyStart, BodyRequest)
  BY <1>3, <1>10
<1>11. CASE call.op \in LineOps /\ AfterBody(l)
  BY <1>2, <1>4, <1>6, <1>11 DEF AfterBody
<1> QED BY <1>7, <1>8, <1>9, <1>10, <1>11 DEF EofProof, l

\* A bounded inspection implements PreviewPromise: every preview answers once,
\* from one version that was current while the call was open or that the caller
\* chose, with exactly the bytes that were asked for or all there are.
THEOREM Refinement == Spec => KeepsPromise
<1>1. Init => Promise!Init
  BY DEF Init, Promise!Init, Promise!Unanswered, ChosenVersion, GivenAnswer, Previewed
<1>2. IInv /\ SInv /\ [Next]_vars => [Promise!Next]_Mapped
  <2> SUFFICES ASSUME IInv, SInv, [Next]_vars PROVE Promise!Next \/ UNCHANGED Mapped
    OBVIOUS
  <2>1. CASE Timeout
    <3>1. pc # "done" /\ outcome' = "deadline" /\ UNCHANGED <<call, sel, current>>
      BY <2>1 DEF Timeout, Finish, Awaiting, storeVars
    <3> QED BY <3>1, PromiseRefuse
  <2>2. CASE Overwrite \/ Delete
    <3>1. UNCHANGED <<clientVars, sources>> /\ current' \in Versions \cup {NoVersion}
      BY <2>2 DEF Overwrite, Delete, history
    <3> QED BY <3>1, PromiseWrite
  <2>3. CASE Expire \/ Purge \/ UNCHANGED vars
    BY <2>3 DEF Expire, Purge, vars, clientVars, storeVars, history, Mapped,
                ChosenVersion, GivenAnswer, Previewed
  <2> QED BY <2>1, <2>2, <2>3, PromiseStart, PromiseObserve, PromiseHead, PromiseRange,
             PromiseRead, PromiseEof DEF Next, Helper, Provider, Writers
<1> QED
  BY <1>1, <1>2, Invariance, SourceInvariance, PTL
     DEF Spec, KeepsPromise, Promise!Spec, Mapped, Promise!vars
=============================================================================
