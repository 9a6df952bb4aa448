---------------------------- MODULE FfiCallsProofs ----------------------------
(***************************************************************************)
(* Proofs about FfiCalls, for any number of threads, runtimes, providers   *)
(* and calls.  The inductive invariant is Inv below: a registry entry      *)
(* stands for exactly the provider whose creator was told its id, which is *)
(* why an id never leads a call to another provider and why a provider is  *)
(* reported destroyed once.                                                *)
(***************************************************************************)
EXTENDS FfiCalls, SequenceTheorems, TLAPS

-----------------------------------------------------------------------------
(* The inductive invariant. *)

\* A thread's slot holds the error of the call it is in or was in.
Own == \A t \in Threads : slot[t] = calls[t].error

\* Entries and addresses name each other; ids are unique in their runtime; an
\* entry's provider has not been destroyed.
EntriesName ==
    \A h \in Handles : \A e \in runtimes[h].entries :
        /\ e.object \in 1 .. Len(address)
        /\ address[e.object] = [handle |-> h, id |-> e.id]
        /\ ended[<<"provider", e.object>>] = 0

IdsIssued ==
    \A m \in 1 .. Len(address) : address[m].id <= runtimes[address[m].handle].issued

AddressesDiffer ==
    \A m, n \in 1 .. Len(address) : address[m] = address[n] => m = n

EndedOnce ==
    /\ \A m \in 1 .. MaxMade :
          /\ ended[<<"provider", m>>] <= 1
          /\ m > Len(address) => ended[<<"provider", m>>] = 0
    /\ \A h \in Handles :
          /\ ended[<<"runtime", h>>] <= 1
          /\ (runtimes[h].live \/ h > handles) => ended[<<"runtime", h>>] = 0
          /\ runtimes[h].live => h <= handles

\* A call's target was created before it began, what was over then still is,
\* and a call that got past a registry got past it while the entry was there.
CallInv(t) ==
    /\ calls[t].target # 0 => /\ calls[t].target <= Len(address)
                              /\ calls[t].handle = address[calls[t].target].handle
    /\ \A object \in calls[t].over : ended[object] > 0
    /\ calls[t].pc \in {"holding", "running", "writing"} =>
          /\ calls[t].handle \in Handles
          /\ <<"runtime", calls[t].handle>> \notin calls[t].over
    /\ calls[t].ran # 0 =>
          /\ calls[t].ran = calls[t].target
          /\ <<"provider", calls[t].ran>> \notin calls[t].over
          /\ <<"runtime", calls[t].handle>> \notin calls[t].over

CallsInv == \A t \in Threads : CallInv(t)

Inv ==
    /\ TypeOK /\ Own /\ EntriesName /\ IdsIssued /\ AddressesDiffer
    /\ EndedOnce /\ CallsInv

-----------------------------------------------------------------------------
(* Typing of the records a step builds. *)

Pcs == {"idle", "entered", "holding", "running", "writing", "returned"}

LEMMA CallPc ==
    ASSUME NEW call \in CallType, NEW pc \in Pcs
    PROVE  [call EXCEPT !.pc = pc] \in CallType
  BY DEF CallType, Pcs

LEMMA CallError ==
    ASSUME NEW call \in CallType, NEW error \in Errors
    PROVE  [call EXCEPT !.error = error] \in CallType
  BY DEF CallType

LEMMA CallReturned ==
    ASSUME NEW call \in CallType, NEW pc \in Pcs, NEW error \in Errors
    PROVE  /\ [call EXCEPT !.pc = pc, !.error = error] \in CallType
           /\ [call EXCEPT !.pc = pc, !.error = error]
                 = [[call EXCEPT !.pc = pc] EXCEPT !.error = error]
<1>1. [call EXCEPT !.pc = pc, !.error = error]
         = [[call EXCEPT !.pc = pc] EXCEPT !.error = error]
  BY DEF CallType
<1> QED BY <1>1, CallPc, CallError

LEMMA CallRan ==
    ASSUME NEW call \in CallType, NEW ran \in 1 .. MaxMade
    PROVE  [call EXCEPT !.ran = ran] \in CallType
<1>1. MaxMade \in Nat
  BY CallsAssumption
<1> QED BY <1>1 DEF CallType

\* Every failure has a numeric code that is not the one of success.
LEMMA FailureIsError ==
    ASSUME NEW failure \in Failures
    PROVE  /\ [code |-> CodeOf(failure), detail |-> failure] \in Errors
           /\ [code |-> CodeOf(failure), detail |-> failure] # NoError
  BY DEF Failures, CodeOf, Errors, NoError

-----------------------------------------------------------------------------
(* Types. *)

\* How every step but the first and the last ends: the call moves on or returns.
LEMMA FailTypes ==
    ASSUME TypeOK, NEW t \in Threads, NEW call \in CallType, NEW failure \in Failures,
           Fail(t, call, failure)
    PROVE  calls' \in [Threads -> CallType] /\ slot' \in [Threads -> Errors]
<1> DEFINE error == [code |-> CodeOf(failure), detail |-> failure]
<1>1. error \in Errors
  BY FailureIsError
<1>2. [call EXCEPT !.pc = "returned", !.error = error] \in CallType
  BY <1>1, CallReturned DEF Pcs
<1>3. calls' = [calls EXCEPT ![t] = [call EXCEPT !.pc = "returned", !.error = error]]
  BY DEF Fail
<1>4. slot' = [slot EXCEPT ![t] = error]
  BY DEF Fail, SlotOf, ErrorState
<1>5. calls \in [Threads -> CallType] /\ slot \in [Threads -> Errors]
  BY DEF TypeOK
<1> HIDE DEF error
<1> QED BY <1>1, <1>2, <1>3, <1>4, <1>5

LEMMA ProceedTypes ==
    ASSUME TypeOK, NEW t \in Threads, NEW call \in CallType, NEW pc \in Pcs,
           Proceed(t, call, pc)
    PROVE  calls' \in [Threads -> CallType] /\ slot' \in [Threads -> Errors]
<1>1. [call EXCEPT !.pc = pc] \in CallType
  BY CallPc
<1> QED BY <1>1 DEF Proceed, TypeOK

LEMMA SucceedTypes ==
    ASSUME TypeOK, NEW t \in Threads, NEW call \in CallType, Succeed(t, call)
    PROVE  calls' \in [Threads -> CallType] /\ slot' \in [Threads -> Errors]
<1>1. [call EXCEPT !.pc = "returned"] \in CallType
  BY CallPc DEF Pcs
<1> QED BY <1>1 DEF Succeed, TypeOK

Entry == [id : Nat \ {0}, object : 1 .. MaxMade]
Runtime == [live : BOOLEAN, issued : Nat, entries : SUBSET Entry]

LEMMA TypeUnfolds ==
    ASSUME TypeOK
    PROVE  /\ runtimes \in [Handles -> Runtime]
           /\ \A t \in Threads : calls[t] \in CallType
           /\ MaxHandles \in Nat /\ MaxMade \in Nat
  BY CallsAssumption DEF TypeOK, Runtime, Entry

\* A runtime with one field changed.
LEMMA RuntimeFields ==
    ASSUME NEW r \in Runtime
    PROVE  /\ \A live \in BOOLEAN : [r EXCEPT !.live = live] \in Runtime
           /\ \A entries \in SUBSET Entry : [r EXCEPT !.entries = entries] \in Runtime
  BY DEF Runtime

LEMMA EndedTypes ==
    ASSUME TypeOK, NEW object \in Objects, Ended(object)
    PROVE  ended' \in [Objects -> Nat]
  BY DEF TypeOK, Ended

\* The handle of a call that got past get_runtime() is one that exists.
LEMMA HandleExists ==
    ASSUME Inv, NEW t \in Threads, calls[t].pc \in {"holding", "running", "writing"}
    PROVE  calls[t].handle \in Handles
  BY DEF Inv, CallsInv, CallInv

\* The entry a call finds is its target's: no other provider has the id.
LEMMA NamedIsTarget ==
    ASSUME Inv, NEW t \in Threads, calls[t].pc = "holding",
           NEW e \in Entries(calls[t])
    PROVE  /\ e \in runtimes[calls[t].handle].entries
           /\ calls[t].target \in 1 .. Len(address) /\ Len(address) \in Nat
           /\ calls[t].target \in 1 .. MaxMade
           /\ e.object = calls[t].target
           /\ e.id = address[calls[t].target].id
<1> DEFINE call == calls[t]
<1>1. call.handle \in Handles
  BY HandleExists
<1>2. e \in runtimes[call.handle].entries /\ e.id = Named(call)
  BY DEF Entries
<1>3. e \in Entry
  BY <1>1, <1>2, TypeUnfolds DEF Inv, Runtime
<1>4. call \in CallType /\ MaxMade \in Nat /\ Len(address) \in Nat /\ Len(address) <= MaxMade
  BY TypeUnfolds DEF Inv, TypeOK
<1>5. call.target # 0
  BY <1>2, <1>3 DEF Entry, Named
<1>6. call.target \in 1 .. Len(address) /\ call.handle = address[call.target].handle
  <2>1. call.target \in Nat
    BY <1>4 DEF CallType
  <2>2. CallInv(t)
    BY DEF Inv, CallsInv
  <2> QED BY <1>4, <1>5, <2>1, <2>2 DEF CallInv
<1>7. e.id = address[call.target].id
  BY <1>2, <1>5 DEF Named
<1>8. e.object \in 1 .. Len(address) /\ address[e.object] = [handle |-> call.handle, id |-> e.id]
  BY <1>1, <1>2 DEF Inv, EntriesName
<1>9. address[call.target] \in [handle : Handles, id : Nat \ {0}]
  <2> DEFINE S == [handle : Handles, id : Nat \ {0}]
  <2>1. address \in Seq(S)
    BY DEF Inv, TypeOK
  <2>2. call.target \in 1 .. Len(address)
    BY <1>6
  <2> HIDE DEF S, call
  <2>3. address[call.target] \in S
    BY <2>1, <2>2, ElementOfSeq
  <2> QED BY <2>3 DEF S
<1>10. address[e.object] = address[call.target]
  BY <1>6, <1>7, <1>8, <1>9
<1>11. e.object = call.target
  BY <1>6, <1>8, <1>10 DEF Inv, AddressesDiffer
<1> QED BY <1>2, <1>4, <1>6, <1>7, <1>11

LEMMA TypeStep ==
    ASSUME Inv, NEW t \in Threads, Step(t)
    PROVE  TypeOK'
<1> USE DEF Inv
<1> DEFINE call == calls[t]
<1>0. /\ call \in CallType /\ call.pc \in Pcs /\ call.fn \in Functions
      /\ MaxHandles \in Nat /\ MaxMade \in Nat /\ MaxCalls \in Nat
      /\ runtimes \in [Handles -> Runtime]
  BY TypeUnfolds, CallsAssumption DEF CallType, Pcs
<1>1. ASSUME NEW fn \in Functions, NEW null \in BOOLEAN, NEW handle \in 0 .. handles,
             NEW target \in 0 .. Len(address), Begin(t, fn, null, handle, target)
      PROVE  TypeOK'
  <2> DEFINE fresh == [pc |-> "entered", fn |-> fn, null |-> null, handle |-> handle,
                       target |-> target, ran |-> 0, over |-> Over, error |-> NoError]
  <2>1. NoError \in Errors
    BY DEF NoError, Errors
  <2>2. handle \in 0 .. MaxHandles /\ target \in 0 .. MaxMade
    BY <1>0 DEF TypeOK
  <2>3. fresh \in CallType
    <3>1. Over \in SUBSET Objects
      BY DEF Over
    <3> QED BY <1>0, <2>1, <2>2, <3>1 DEF CallType
  <2>4. calls' = [calls EXCEPT ![t] = fresh] /\ slot' = [slot EXCEPT ![t] = NoError]
    BY <1>1 DEF Begin, Clear, SlotOf
  <2>5. calls' \in [Threads -> CallType] /\ slot' \in [Threads -> Errors]
    <3> HIDE DEF fresh
    <3> QED BY <2>1, <2>3, <2>4 DEF TypeOK
  <2>6. ids' \in [Threads -> 0 .. MaxMade] /\ texts' \in [Threads -> Nat]
    BY <1>1, <1>0 DEF Begin, ClearedOut, TypeOK
  <2>7. begun' \in 0 .. MaxCalls
    BY <1>1, <1>0 DEF Begin, TypeOK
  <2> QED BY <1>1, <2>5, <2>6, <2>7 DEF Begin, TypeOK
<1>2. CASE Refuse(t)
  <2>1. "invalid_argument" \in Failures
    BY DEF Failures
  <2>2. calls' \in [Threads -> CallType] /\ slot' \in [Threads -> Errors]
    BY <1>0, <1>2, <2>1, FailTypes DEF Refuse
  <2> QED BY <1>2, <2>2 DEF Refuse, TypeOK
<1>3. CASE InitRuntime(t)
  <2>1. handles' \in 0 .. MaxHandles /\ handles' \in Handles
    BY <1>0, <1>3 DEF InitRuntime, TypeOK, Handles
  <2>2. calls' \in [Threads -> CallType] /\ slot' \in [Threads -> Errors]
    <3>1. "other" \in Failures
      BY DEF Failures
    <3> QED BY <1>0, <1>3, <3>1, FailTypes, SucceedTypes DEF InitRuntime
  <2>3. runtimes' \in [Handles -> Runtime]
    <3>1. runtimes' = runtimes \/ runtimes' = [runtimes EXCEPT ![handles'].live = TRUE]
      BY <1>3 DEF InitRuntime
    <3>2. [runtimes[handles'] EXCEPT !.live = TRUE] \in Runtime
      <4>1. runtimes[handles'] \in Runtime
        BY <1>0, <2>1
      <4> QED BY <4>1, RuntimeFields
    <3> QED BY <1>0, <3>1, <3>2
  <2> QED BY <1>3, <2>1, <2>2, <2>3 DEF InitRuntime, TypeOK, Runtime, Entry
<1>4. CASE Shutdown(t)
  <2>1. call.handle \in Handles
    BY <1>0, <1>4 DEF Shutdown, Registered, Handles, TypeOK
  <2>2. calls' \in [Threads -> CallType] /\ slot' \in [Threads -> Errors]
    BY <1>0, <1>4, SucceedTypes DEF Shutdown
  <2>3. runtimes' \in [Handles -> Runtime]
    <3>1. runtimes' = [runtimes EXCEPT ![call.handle].live = FALSE]
      BY <1>4 DEF Shutdown
    <3>2. [runtimes[call.handle] EXCEPT !.live = FALSE] \in Runtime
      <4>1. runtimes[call.handle] \in Runtime
        BY <1>0, <2>1
      <4> QED BY <4>1, RuntimeFields
    <3> QED BY <1>0, <2>1, <3>1, <3>2
  <2>4. ended' \in [Objects -> Nat]
    BY <1>4, <2>1, EndedTypes DEF Shutdown, Objects
  <2> QED BY <1>4, <2>2, <2>3, <2>4 DEF Shutdown, TypeOK, Runtime, Entry
<1>5. CASE Hold(t)
  <2>1. calls' \in [Threads -> CallType] /\ slot' \in [Threads -> Errors]
    BY <1>0, <1>5, ProceedTypes DEF Hold, Pcs
  <2> QED BY <1>5, <2>1 DEF Hold, TypeOK
<1>6. CASE Destroy(t)
  <2>0. call.handle \in Handles
    BY <1>6, HandleExists DEF Destroy
  <2>1. calls' \in [Threads -> CallType] /\ slot' \in [Threads -> Errors]
    <3>1. "invalid_argument" \in Failures
      BY DEF Failures
    <3> QED BY <1>0, <1>6, <3>1, FailTypes, SucceedTypes DEF Destroy
  <2>2. runtimes' \in [Handles -> Runtime]
    <3>1. runtimes' = runtimes
             \/ runtimes' = [runtimes EXCEPT ![call.handle].entries = Remaining(call)]
      BY <1>6 DEF Destroy
    <3>2. [runtimes[call.handle] EXCEPT !.entries = Remaining(call)] \in Runtime
      <4>1. Remaining(call) \in SUBSET Entry
        BY <1>0, <2>0 DEF Remaining, Runtime
      <4> QED BY <1>0, <2>0, <4>1, RuntimeFields
    <3> QED BY <1>0, <2>0, <3>1, <3>2
  <2>3. ended' \in [Objects -> Nat]
    <3>1. CASE Entries(call) = {}
      BY <1>6, <3>1 DEF Destroy, TypeOK
    <3>2. CASE Entries(call) # {}
      <4>1. call.target \in 1 .. MaxMade
        BY <1>0, <1>6, <3>2, NamedIsTarget DEF Destroy
      <4>2. <<"provider", call.target>> \in Objects
        BY <4>1 DEF Objects
      <4> QED BY <1>6, <3>2, <4>2, EndedTypes DEF Destroy
    <3> QED BY <3>1, <3>2
  <2> QED BY <1>6, <2>1, <2>2, <2>3 DEF Destroy, TypeOK, Runtime, Entry
<1>7. CASE Find(t)
  <2>0. call.handle \in Handles
    BY <1>7, HandleExists DEF Find
  <2>1. calls' \in [Threads -> CallType] /\ slot' \in [Threads -> Errors]
    <3>1. CASE Entries(call) = {}
      <4>1. "invalid_argument" \in Failures
        BY DEF Failures
      <4> QED BY <1>0, <1>7, <3>1, <4>1, FailTypes DEF Find
    <3>2. CASE Entries(call) # {}
      <4>1. PICK e \in Entries(call) :
               Proceed(t, [call EXCEPT !.ran = e.object],
                       IF call.fn = "read" THEN "running" ELSE "writing")
        BY <1>7, <3>2 DEF Find
      <4>2. e.object \in 1 .. MaxMade
        BY <1>0, <2>0, <4>1 DEF Entries, Runtime, Entry
      <4>3. [call EXCEPT !.ran = e.object] \in CallType
        BY <1>0, <4>2, CallRan
      <4> QED BY <4>1, <4>3, ProceedTypes DEF Pcs
    <3> QED BY <3>1, <3>2
  <2> QED BY <1>7, <2>1 DEF Find, TypeOK
<1>8. CASE Run(t)
  <2>1. calls' \in [Threads -> CallType] /\ slot' \in [Threads -> Errors]
    BY <1>0, <1>8, FailTypes, ProceedTypes DEF Run, Pcs
  <2> QED BY <1>8, <2>1 DEF Run, TypeOK
<1>9. CASE Insert(t)
  <2> DEFINE id   == NextId(call.handle)
             made == Len(address) + 1
  <2>0. /\ call.handle \in Handles /\ id \in Nat \ {0} /\ made \in 1 .. MaxMade
        /\ runtimes[call.handle] \in Runtime
    <3>1. call.handle \in Handles
      BY <1>9, HandleExists DEF Insert
    <3>2. runtimes[call.handle].issued \in Nat
      BY <1>0, <3>1 DEF Runtime
    <3> QED BY <1>0, <1>9, <3>1, <3>2 DEF Insert, NextId, TypeOK
  <2>1. calls' \in [Threads -> CallType] /\ slot' \in [Threads -> Errors]
    BY <1>0, <1>9, SucceedTypes DEF Insert
  <2>2. runtimes' \in [Handles -> Runtime]
    <3> DEFINE old == runtimes[call.handle]
               new == [old EXCEPT !.entries = @ \cup {[id |-> id, object |-> made]},
                                  !.issued = @ + 1]
    <3>1. runtimes' = [runtimes EXCEPT ![call.handle] = new]
      BY <1>0, <1>9, <2>0 DEF Insert, Runtime
    <3>2. old.entries \cup {[id |-> id, object |-> made]} \in SUBSET Entry
          /\ old.issued + 1 \in Nat
      BY <2>0 DEF Runtime, Entry
    <3>3. new \in Runtime
      <4> HIDE DEF id, made
      <4> QED BY <2>0, <3>2 DEF Runtime
    <3> QED BY <1>0, <2>0, <3>1, <3>3
  <2>3. address' \in Seq([handle : Handles, id : Nat \ {0}]) /\ Len(address') <= MaxMade
    <3>1. address' = Append(address, [handle |-> call.handle, id |-> id])
      BY <1>9 DEF Insert
    <3>2. [handle |-> call.handle, id |-> id] \in [handle : Handles, id : Nat \ {0}]
      BY <2>0
    <3> HIDE DEF id
    <3> QED BY <1>0, <2>0, <3>1, <3>2 DEF TypeOK
  <2>4. ids' \in [Threads -> 0 .. MaxMade]
    BY <1>0, <1>9, <2>0 DEF Insert, TypeOK
  <2> QED BY <1>9, <2>1, <2>2, <2>3, <2>4 DEF Insert, TypeOK, Runtime, Entry
<1>10. CASE Write(t)
  <2>1. calls' \in [Threads -> CallType] /\ slot' \in [Threads -> Errors]
    BY <1>0, <1>10, SucceedTypes DEF Write
  <2>2. strings' \in [made : Nat, live : SUBSET Nat, bad : BOOLEAN]
        /\ texts' \in [Threads -> Nat]
    BY <1>10 DEF Write, TypeOK
  <2> QED BY <1>10, <2>1, <2>2 DEF Write, TypeOK
<1>11. CASE Collect(t)
  <2>1. calls' \in [Threads -> CallType]
    <3>1. calls' = [calls EXCEPT ![t] = [call EXCEPT !.pc = "idle"]]
      BY <1>11 DEF Collect
    <3>2. [call EXCEPT !.pc = "idle"] \in CallType
      BY <1>0, CallPc DEF Pcs
    <3> HIDE DEF call
    <3> QED BY <3>1, <3>2 DEF TypeOK
  <2>2. strings' \in [made : Nat, live : SUBSET Nat, bad : BOOLEAN]
    BY <1>11 DEF Collect, Free, TypeOK
  <2> QED BY <1>11, <2>1, <2>2 DEF Collect, TypeOK
<1> QED BY <1>1, <1>2, <1>3, <1>4, <1>5, <1>6, <1>7, <1>8, <1>9, <1>10, <1>11 DEF Step

-----------------------------------------------------------------------------
(* Calls and last errors. *)

\* What a call that moves on keeps.
SameCall(c, d) ==
    /\ c.fn = d.fn /\ c.null = d.null /\ c.handle = d.handle
    /\ c.target = d.target /\ c.ran = d.ran /\ c.over = d.over

LEMMA FailShape ==
    ASSUME TypeOK, NEW t \in Threads, NEW call \in CallType, NEW failure \in Failures,
           Fail(t, call, failure)
    PROVE  /\ SameCall(calls'[t], call) /\ calls'[t].pc = "returned"
           /\ slot'[t] = calls'[t].error /\ slot'[t] # NoError
           /\ \A u \in Threads \ {t} : calls'[u] = calls[u] /\ slot'[u] = slot[u]
<1> DEFINE error == [code |-> CodeOf(failure), detail |-> failure]
<1>1. calls' = [calls EXCEPT ![t] = [call EXCEPT !.pc = "returned", !.error = error]]
      /\ slot' = [slot EXCEPT ![t] = error]
  BY DEF Fail, SlotOf, ErrorState
<1>2. error # NoError
  BY FailureIsError
<1>3. calls \in [Threads -> CallType] /\ slot \in [Threads -> Errors]
  BY DEF TypeOK
<1> HIDE DEF error
<1> QED BY <1>1, <1>2, <1>3 DEF CallType, SameCall

LEMMA ProceedShape ==
    ASSUME TypeOK, NEW t \in Threads, NEW call \in CallType, NEW pc,
           \/ Proceed(t, call, pc)
           \/ Succeed(t, call) /\ pc = "returned"
    PROVE  /\ SameCall(calls'[t], call) /\ calls'[t].pc = pc
           /\ calls'[t].error = call.error
           /\ slot' = slot
           /\ \A u \in Threads \ {t} : calls'[u] = calls[u]
<1>1. calls' = [calls EXCEPT ![t] = [call EXCEPT !.pc = pc]] /\ slot' = slot
  BY DEF Proceed, Succeed
<1>2. calls \in [Threads -> CallType]
  BY DEF TypeOK
<1> QED BY <1>1, <1>2 DEF CallType, SameCall

\* A step is its thread's own, and past its beginning the call stays the same
\* one; Find alone sets the object it runs on.
LEMMA StepShape ==
    ASSUME Inv, NEW t \in Threads, Step(t)
    PROVE  /\ \A u \in Threads \ {t} : calls'[u] = calls[u] /\ slot'[u] = slot[u]
           /\ slot'[t] = calls'[t].error
           /\ \/ \E fn \in Functions, null \in BOOLEAN, handle \in 0 .. handles,
                    target \in 0 .. Len(address) : Begin(t, fn, null, handle, target)
              \/ SameCall(calls'[t], calls[t])
              \/ Find(t) /\ SameCall(calls'[t], [calls[t] EXCEPT !.ran = calls'[t].ran])
<1> DEFINE call == calls[t]
<1>0. /\ TypeOK /\ call \in CallType /\ slot[t] = call.error
      /\ calls \in [Threads -> CallType] /\ slot \in [Threads -> Errors]
  BY TypeUnfolds DEF Inv, Own, TypeOK
<1>1. ASSUME NEW fn \in Functions, NEW null \in BOOLEAN, NEW handle \in 0 .. handles,
             NEW target \in 0 .. Len(address), Begin(t, fn, null, handle, target)
      PROVE  /\ \A u \in Threads \ {t} : calls'[u] = calls[u] /\ slot'[u] = slot[u]
             /\ slot'[t] = calls'[t].error
  BY <1>0, <1>1 DEF Begin, Clear, SlotOf
<1>2. ASSUME NEW failure \in Failures, Fail(t, call, failure)
      PROVE  /\ \A u \in Threads \ {t} : calls'[u] = calls[u] /\ slot'[u] = slot[u]
             /\ slot'[t] = calls'[t].error /\ SameCall(calls'[t], call)
  BY <1>0, <1>2, FailShape
<1>3. ASSUME NEW pc, Proceed(t, call, pc) \/ (Succeed(t, call) /\ pc = "returned")
      PROVE  /\ \A u \in Threads \ {t} : calls'[u] = calls[u] /\ slot'[u] = slot[u]
             /\ slot'[t] = calls'[t].error /\ SameCall(calls'[t], call)
  BY <1>0, <1>3, ProceedShape
<1>4. "invalid_argument" \in Failures /\ "other" \in Failures
  BY DEF Failures
<1>5. CASE Refuse(t) \/ InitRuntime(t) \/ Shutdown(t) \/ Destroy(t) \/ Run(t)
             \/ Insert(t) \/ Write(t) \/ Hold(t)
  BY <1>2, <1>3, <1>4, <1>5
     DEF Refuse, InitRuntime, Shutdown, Destroy, Run, Insert, Write, Hold
<1>6. CASE Find(t)
  <2>1. CASE Entries(call) = {}
    BY <1>2, <1>4, <1>6, <2>1 DEF Find
  <2>2. CASE Entries(call) # {}
    <3>1. PICK e \in Entries(call) :
             Proceed(t, [call EXCEPT !.ran = e.object],
                     IF call.fn = "read" THEN "running" ELSE "writing")
      BY <1>6, <2>2 DEF Find
    <3>2. call.pc = "holding"
      BY <1>6 DEF Find
    <3>3. e.object \in 1 .. MaxMade
      BY <3>2, NamedIsTarget
    <3>4. [call EXCEPT !.ran = e.object] \in CallType
      BY <1>0, <3>3, CallRan
    <3>5. /\ SameCall(calls'[t], [call EXCEPT !.ran = e.object])
          /\ calls'[t].error = [call EXCEPT !.ran = e.object].error /\ slot' = slot
          /\ \A u \in Threads \ {t} : calls'[u] = calls[u]
      BY <1>0, <3>1, <3>4, ProceedShape
    <3> QED BY <1>0, <1>6, <3>5 DEF SameCall, CallType
  <2> QED BY <2>1, <2>2
<1>7. CASE Collect(t)
  <2>1. calls' = [calls EXCEPT ![t] = [call EXCEPT !.pc = "idle"]] /\ slot' = slot
    BY <1>7 DEF Collect
  <2> QED BY <1>0, <2>1 DEF CallType, SameCall
<1> QED BY <1>1, <1>5, <1>6, <1>7 DEF Step

LEMMA OwnStep ==
    ASSUME Inv, NEW t \in Threads, Step(t)
    PROVE  Own'
  BY StepShape DEF Own, Inv

-----------------------------------------------------------------------------
(* The registries. *)

LEMMA ProviderObject ==
    /\ \A m \in 1 .. MaxMade : <<"provider", m>> \in Objects
    /\ \A h \in Handles : <<"runtime", h>> \in Objects
  BY DEF Objects

LEMMA EntryNames ==
    ASSUME Inv, NEW h \in Handles, NEW e \in runtimes[h].entries
    PROVE  /\ e.object \in 1 .. Len(address)
           /\ address[e.object] = [handle |-> h, id |-> e.id]
           /\ ended[<<"provider", e.object>>] = 0
  BY DEF Inv, EntriesName

\* What Destroy does to the registry and to the history.
LEMMA DestroyShape ==
    ASSUME Inv, NEW t \in Threads, Destroy(t)
    PROVE  /\ UNCHANGED <<handles, address>>
           /\ \A h \in Handles : /\ runtimes'[h].live = runtimes[h].live
                                 /\ runtimes'[h].issued = runtimes[h].issued
                                 /\ runtimes'[h].entries \subseteq runtimes[h].entries
           /\ \/ ended' = ended
              \/ /\ calls[t].target \in 1 .. Len(address)
                 /\ calls[t].target \in 1 .. MaxMade
                 /\ ended[<<"provider", calls[t].target>>] = 0
                 /\ ended' = [ended EXCEPT ![<<"provider", calls[t].target>>] = 1]
                 /\ \A h \in Handles : \A e \in runtimes'[h].entries :
                       e.object # calls[t].target
<1> DEFINE call == calls[t]
<1>1. /\ call.pc = "holding" /\ call.handle \in Handles
      /\ runtimes \in [Handles -> Runtime] /\ ended \in [Objects -> Nat]
  BY HandleExists, TypeUnfolds DEF Destroy, Inv, TypeOK
<1>2. CASE Entries(call) = {}
  BY <1>1, <1>2 DEF Destroy
<1>3. CASE Entries(call) # {}
  <2> DEFINE gone == <<"provider", call.target>>
  <2>1. runtimes' = [runtimes EXCEPT ![call.handle].entries = Remaining(call)]
        /\ Ended(gone)
    BY <1>3 DEF Destroy
  <2>2. PICK e \in Entries(call) : TRUE
    BY <1>3
  <2>3. /\ e \in runtimes[call.handle].entries /\ call.target \in 1 .. Len(address)
        /\ call.target \in 1 .. MaxMade /\ e.object = call.target
        /\ e.id = address[call.target].id
    BY <1>1, <2>2, NamedIsTarget
  <2>4. ended[gone] = 0
    <3>1. address[e.object] = [handle |-> call.handle, id |-> e.id]
          /\ ended[<<"provider", e.object>>] = 0
      BY <1>1, <2>3, EntryNames
    <3> QED BY <2>3, <3>1
  <2>5. ended' = [ended EXCEPT ![gone] = 1]
    BY <2>1, <2>4 DEF Ended
  <2>6. /\ \A h \in Handles \ {call.handle} : runtimes'[h] = runtimes[h]
        /\ runtimes'[call.handle] = [runtimes[call.handle] EXCEPT !.entries = Remaining(call)]
        /\ runtimes[call.handle] \in Runtime
    BY <1>1, <2>1
  <2>7. /\ runtimes'[call.handle].entries = Remaining(call)
        /\ runtimes'[call.handle].live = runtimes[call.handle].live
        /\ runtimes'[call.handle].issued = runtimes[call.handle].issued
    BY <2>6 DEF Runtime
  <2>8. Remaining(call) \subseteq runtimes[call.handle].entries
    BY DEF Remaining
  <2>9. ASSUME NEW h \in Handles, NEW f \in runtimes'[h].entries, f.object = call.target
        PROVE  FALSE
    <3>1. f \in runtimes[h].entries
      BY <2>6, <2>7, <2>8
    <3>2. address[f.object] = [handle |-> h, id |-> f.id]
      BY <3>1, EntryNames
    <3>3. address[e.object] = [handle |-> call.handle, id |-> e.id]
      BY <1>1, <2>3, EntryNames
    <3>4. h = call.handle /\ f.id = e.id
      BY <2>3, <2>9, <3>2, <3>3
    <3>5. f \in Entries(call)
      BY <2>2, <3>1, <3>4 DEF Entries
    <3> QED BY <2>7, <2>9, <3>4, <3>5 DEF Remaining
  <2>10. UNCHANGED <<handles, address>>
    BY <1>1 DEF Destroy
  <2> QED BY <2>3, <2>4, <2>5, <2>6, <2>7, <2>8, <2>9, <2>10
<1> QED BY <1>2, <1>3

\* What Insert does to the registry.
LEMMA InsertShape ==
    ASSUME Inv, NEW t \in Threads, Insert(t)
    PROVE  LET h    == calls[t].handle
               id   == runtimes[h].issued + 1
               made == Len(address) + 1
           IN  /\ UNCHANGED <<handles, ended>>
               /\ h \in Handles /\ made \in 1 .. MaxMade /\ runtimes[h] \in Runtime
               /\ \A g \in Handles \ {h} : runtimes'[g] = runtimes[g]
               /\ runtimes'[h].live = runtimes[h].live
               /\ runtimes'[h].issued = id
               /\ runtimes'[h].entries
                     = runtimes[h].entries \cup {[id |-> id, object |-> made]}
               /\ Len(address') = made
               /\ address'[made] = [handle |-> h, id |-> id]
               /\ \A m \in 1 .. Len(address) : address'[m] = address[m]
<1> DEFINE call == calls[t]
           id   == runtimes[call.handle].issued + 1
           made == Len(address) + 1
<1>1. /\ call.pc = "writing" /\ call.handle \in Handles /\ MaxMade \in Nat
      /\ runtimes \in [Handles -> Runtime]
      /\ address \in Seq([handle : Handles, id : Nat \ {0}]) /\ Len(address) \in Nat
  BY HandleExists, TypeUnfolds DEF Insert, Inv, TypeOK
<1>2. runtimes[call.handle] \in Runtime
  BY <1>1
<1>3. /\ runtimes' = [runtimes EXCEPT
            ![call.handle].entries = @ \cup {[id |-> id, object |-> made]},
            ![call.handle].issued = @ + 1]
      /\ made <= MaxMade /\ UNCHANGED <<handles, ended>>
      /\ address' = Append(address, [handle |-> call.handle, id |-> id])
  BY DEF Insert, NextId
<1>4. /\ \A g \in Handles \ {call.handle} : runtimes'[g] = runtimes[g]
      /\ runtimes'[call.handle].live = runtimes[call.handle].live
      /\ runtimes'[call.handle].issued = id
      /\ runtimes'[call.handle].entries
            = runtimes[call.handle].entries \cup {[id |-> id, object |-> made]}
  BY <1>1, <1>2, <1>3 DEF Runtime
<1>5. made \in 1 .. MaxMade
  BY <1>1, <1>3
<1>6. /\ Len(address') = made /\ address'[made] = [handle |-> call.handle, id |-> id]
      /\ \A m \in 1 .. Len(address) : address'[m] = address[m]
  <2> HIDE DEF id
  <2> QED BY <1>1, <1>3
<1> QED BY <1>1, <1>2, <1>3, <1>4, <1>5, <1>6

\* Every other step leaves ids, entries and addresses alone.
LEMMA OtherShape ==
    ASSUME Inv, NEW t \in Threads, Step(t), ~Destroy(t), ~Insert(t)
    PROVE  /\ address' = address
           /\ \A h \in Handles : /\ runtimes'[h].entries = runtimes[h].entries
                                 /\ runtimes'[h].issued = runtimes[h].issued
           /\ \/ ended' = ended
              \/ /\ Shutdown(t) /\ calls[t].handle \in Handles
                 /\ runtimes[calls[t].handle].live
                 /\ ended' = [ended EXCEPT ![<<"runtime", calls[t].handle>>] = @ + 1]
<1>1. runtimes \in [Handles -> Runtime] /\ handles \in 0 .. MaxHandles /\ MaxHandles \in Nat
  BY TypeUnfolds DEF Inv, TypeOK
<1>2. CASE InitRuntime(t)
  <2>1. handles' \in Handles
    BY <1>1, <1>2 DEF InitRuntime, Handles
  <2>2. runtimes' = runtimes \/ runtimes' = [runtimes EXCEPT ![handles'].live = TRUE]
    BY <1>2 DEF InitRuntime
  <2>3. runtimes[handles'] \in Runtime
    BY <1>1, <2>1
  <2> QED BY <1>1, <1>2, <2>1, <2>2, <2>3 DEF InitRuntime, Runtime
<1>3. CASE Shutdown(t)
  <2>1. calls[t].handle \in Handles /\ runtimes[calls[t].handle].live
    BY <1>1, <1>3 DEF Shutdown, Registered, Handles
  <2>2. runtimes' = [runtimes EXCEPT ![calls[t].handle].live = FALSE]
        /\ Ended(<<"runtime", calls[t].handle>>) /\ address' = address
    BY <1>3 DEF Shutdown
  <2>3. runtimes[calls[t].handle] \in Runtime
    BY <1>1, <2>1
  <2>4. \A h \in Handles : /\ runtimes'[h].entries = runtimes[h].entries
                           /\ runtimes'[h].issued = runtimes[h].issued
    BY <1>1, <2>1, <2>2, <2>3 DEF Runtime
  <2> QED BY <1>3, <2>1, <2>2, <2>4 DEF Ended
<1>4. CASE \/ \E fn \in Functions, null \in BOOLEAN, handle \in 0 .. handles,
                 target \in 0 .. Len(address) : Begin(t, fn, null, handle, target)
           \/ Refuse(t) \/ Hold(t) \/ Find(t) \/ Run(t) \/ Write(t) \/ Collect(t)
  BY <1>4 DEF Begin, Refuse, Hold, Find, Run, Write, Collect
<1> QED BY <1>2, <1>3, <1>4 DEF Step

LEMMA RegistryStep ==
    ASSUME Inv, NEW t \in Threads, Step(t)
    PROVE  EntriesName' /\ IdsIssued' /\ AddressesDiffer'
<1>0. /\ address \in Seq([handle : Handles, id : Nat \ {0}]) /\ Len(address) \in Nat
      /\ ended \in [Objects -> Nat] /\ runtimes \in [Handles -> Runtime]
      /\ Len(address) <= MaxMade /\ MaxMade \in Nat
  BY TypeUnfolds DEF Inv, TypeOK
<1>1. \A m \in 1 .. Len(address) : address[m] \in [handle : Handles, id : Nat \ {0}]
  <2> DEFINE S == [handle : Handles, id : Nat \ {0}]
  <2>1. address \in Seq(S)
    BY <1>0
  <2> HIDE DEF S
  <2>2. \A m \in 1 .. Len(address) : address[m] \in S
    BY <2>1, ElementOfSeq
  <2> QED BY <2>2 DEF S
<1>2. \A m \in 1 .. Len(address) : <<"provider", m>> \in Objects
  <2>1. \A m \in 1 .. Len(address) : m \in 1 .. MaxMade
    BY <1>0
  <2> QED BY <2>1, ProviderObject
<1>3. ASSUME ~Insert(t)
      PROVE  EntriesName' /\ IdsIssued' /\ AddressesDiffer'
  <2>1. /\ address' = address
        /\ \A h \in Handles : /\ runtimes'[h].entries \subseteq runtimes[h].entries
                              /\ runtimes'[h].issued = runtimes[h].issued
    BY <1>3, DestroyShape, OtherShape
  <2>2. ASSUME NEW h \in Handles, NEW e \in runtimes'[h].entries
        PROVE  ended'[<<"provider", e.object>>] = 0
    <3>1. /\ e \in runtimes[h].entries /\ e.object \in 1 .. Len(address)
          /\ ended[<<"provider", e.object>>] = 0
      BY <2>1, EntryNames
    <3>2. CASE ended' = ended
      BY <3>1, <3>2
    <3>3. CASE Destroy(t) /\ ended' # ended
      <4>1. /\ e.object # calls[t].target
            /\ ended' = [ended EXCEPT ![<<"provider", calls[t].target>>] = 1]
        BY <3>3, DestroyShape
      <4>2. <<"provider", e.object>> # <<"provider", calls[t].target>>
        BY <4>1
      <4> QED BY <1>0, <1>2, <3>1, <4>1, <4>2
    <3>4. CASE ~Destroy(t) /\ ended' # ended
      <4>1. ended' = [ended EXCEPT ![<<"runtime", calls[t].handle>>] = @ + 1]
        BY <1>3, <3>4, OtherShape
      <4>2. <<"provider", e.object>> # <<"runtime", calls[t].handle>>
        OBVIOUS
      <4> QED BY <1>0, <1>2, <3>1, <4>1, <4>2
    <3> QED BY <3>2, <3>3, <3>4
  <2>3. EntriesName'
    <3>1. ASSUME NEW h \in Handles, NEW e \in runtimes'[h].entries
          PROVE  e.object \in 1 .. Len(address)
                 /\ address[e.object] = [handle |-> h, id |-> e.id]
      BY <2>1, EntryNames
    <3> QED BY <2>1, <2>2, <3>1 DEF EntriesName
  <2> QED BY <1>1, <2>1, <2>3 DEF Inv, IdsIssued, AddressesDiffer
<1>4. ASSUME Insert(t)
      PROVE  EntriesName' /\ IdsIssued' /\ AddressesDiffer'
  <2> DEFINE h    == calls[t].handle
             id   == runtimes[h].issued + 1
             made == Len(address) + 1
  <2>1. /\ ended' = ended
        /\ h \in Handles /\ made \in 1 .. MaxMade /\ runtimes[h] \in Runtime
        /\ \A g \in Handles \ {h} : runtimes'[g] = runtimes[g]
        /\ runtimes'[h].issued = id
        /\ runtimes'[h].entries = runtimes[h].entries \cup {[id |-> id, object |-> made]}
        /\ Len(address') = made
        /\ address'[made] = [handle |-> h, id |-> id]
        /\ \A m \in 1 .. Len(address) : address'[m] = address[m]
    BY <1>4, InsertShape
  <2>2. /\ runtimes[h].issued \in Nat /\ id = runtimes[h].issued + 1
        /\ made = Len(address) + 1
    BY <2>1 DEF Runtime
  <2>3. \A m \in 1 .. made : m = made \/ m \in 1 .. Len(address)
    BY <1>0, <2>2
  <2> HIDE DEF id, made, h
  <2>4. EntriesName'
    <3>1. ended[<<"provider", made>>] = 0
      BY <1>0, <2>1, <2>2 DEF Inv, EndedOnce
    <3>2. ASSUME NEW g \in Handles, NEW e \in runtimes'[g].entries
          PROVE  /\ e.object \in 1 .. made
                 /\ address'[e.object] = [handle |-> g, id |-> e.id]
                 /\ ended[<<"provider", e.object>>] = 0
      <4>1. CASE e \in runtimes[g].entries
        <5>1. /\ e.object \in 1 .. Len(address)
              /\ address[e.object] = [handle |-> g, id |-> e.id]
              /\ ended[<<"provider", e.object>>] = 0
          BY <4>1, EntryNames
        <5> QED BY <1>0, <2>1, <2>2, <5>1
      <4>2. CASE e \notin runtimes[g].entries
        <5>1. g = h /\ e = [id |-> id, object |-> made]
          BY <2>1, <4>2
        <5>2. e.object = made /\ e.id = id
          BY <5>1
        <5> QED BY <1>0, <2>1, <2>2, <3>1, <5>1, <5>2
      <4> QED BY <4>1, <4>2
    <3> QED BY <2>1, <3>2 DEF EntriesName
  <2>5. IdsIssued'
    <3>1. ASSUME NEW m \in 1 .. made
          PROVE  address'[m].id <= runtimes'[address'[m].handle].issued
      <4>1. CASE m = made
        BY <2>1, <2>2, <4>1
      <4>2. CASE m \in 1 .. Len(address)
        <5>1. /\ address'[m] = address[m] /\ address[m].handle \in Handles
              /\ address[m].id \in Nat
              /\ address[m].id <= runtimes[address[m].handle].issued
              /\ runtimes[address[m].handle].issued \in Nat
          BY <1>0, <1>1, <2>1, <4>2 DEF Inv, IdsIssued, Runtime
        <5> QED BY <2>1, <2>2, <5>1
      <4> QED BY <2>3, <4>1, <4>2
    <3> QED BY <2>1, <3>1 DEF IdsIssued
  <2>6. AddressesDiffer'
    <3>1. ASSUME NEW m \in 1 .. Len(address)
          PROVE  address[m] # [handle |-> h, id |-> id]
      <4>1. /\ address[m].id \in Nat
            /\ address[m].id <= runtimes[address[m].handle].issued
        BY <1>1 DEF Inv, IdsIssued
      <4>2. SUFFICES ASSUME address[m] = [handle |-> h, id |-> id] PROVE FALSE
        OBVIOUS
      <4>3. address[m].handle = h /\ address[m].id = id
        BY <4>2
      <4> QED BY <2>2, <4>1, <4>3
    <3>2. \A m, n \in 1 .. made : address'[m] = address'[n] => m = n
      BY <2>1, <2>3, <3>1 DEF Inv, AddressesDiffer
    <3> QED BY <2>1, <3>2 DEF AddressesDiffer
  <2> QED BY <2>4, <2>5, <2>6
<1> QED BY <1>3, <1>4

LEMMA EndedStep ==
    ASSUME Inv, NEW t \in Threads, Step(t)
    PROVE  EndedOnce' /\ \A object \in Objects : ended[object] > 0 => ended'[object] > 0
<1>0. /\ ended \in [Objects -> Nat] /\ runtimes \in [Handles -> Runtime]
      /\ handles \in 0 .. MaxHandles /\ MaxHandles \in Nat /\ MaxMade \in Nat
      /\ Len(address) \in Nat
  BY TypeUnfolds DEF Inv, TypeOK
<1>1. EndedOnce
  BY DEF Inv
<1>2. CASE Destroy(t)
  <2>1. /\ UNCHANGED <<handles, address>>
        /\ \A h \in Handles : runtimes'[h].live = runtimes[h].live
    BY <1>2, DestroyShape
  <2>2. CASE ended' = ended
    BY <1>1, <2>1, <2>2 DEF EndedOnce
  <2>3. CASE ended' # ended
    <3> DEFINE m == calls[t].target
    <3>1. /\ m \in 1 .. Len(address) /\ m \in 1 .. MaxMade
          /\ ended[<<"provider", m>>] = 0
          /\ ended' = [ended EXCEPT ![<<"provider", m>>] = 1]
      BY <1>2, <2>3, DestroyShape
    <3>2. ended'[<<"provider", m>>] = 1
      BY <1>0, <3>1, ProviderObject
    <3>3. \A object \in Objects : object # <<"provider", m>> => ended'[object] = ended[object]
      BY <1>0, <3>1
    <3>4. \A n \in 1 .. MaxMade : n # m =>
             ended'[<<"provider", n>>] = ended[<<"provider", n>>]
      <4>1. \A n \in 1 .. MaxMade : n # m => <<"provider", n>> # <<"provider", m>>
        OBVIOUS
      <4> QED BY <3>3, <4>1, ProviderObject
    <3>5. \A h \in Handles : ended'[<<"runtime", h>>] = ended[<<"runtime", h>>]
      <4>1. \A h \in Handles : <<"runtime", h>> # <<"provider", m>>
        OBVIOUS
      <4> QED BY <3>3, <4>1, ProviderObject
    <3> HIDE DEF m
    <3> QED BY <1>0, <1>1, <2>1, <3>1, <3>2, <3>3, <3>4, <3>5 DEF EndedOnce
  <2> QED BY <2>2, <2>3
<1>3. CASE Insert(t)
  <2>1. /\ UNCHANGED <<handles, ended>> /\ Len(address') = Len(address) + 1
        /\ \A h \in Handles : runtimes'[h].live = runtimes[h].live
    BY <1>3, InsertShape
  <2> QED BY <1>0, <1>1, <2>1 DEF EndedOnce
<1>4. CASE Shutdown(t)
  <2> DEFINE g == calls[t].handle
  <2>0. ~Destroy(t) /\ ~Insert(t)
    BY <1>4 DEF Shutdown, Destroy, Insert
  <2>1. /\ g \in Handles /\ runtimes[g].live /\ address' = address
        /\ UNCHANGED handles
        /\ runtimes' = [runtimes EXCEPT ![g].live = FALSE]
        /\ ended' = [ended EXCEPT ![<<"runtime", g>>] = @ + 1]
    BY <1>4, <1>0 DEF Shutdown, Registered, Ended, Handles
  <2>2. ended[<<"runtime", g>>] = 0 /\ g <= handles
    BY <1>1, <2>1 DEF EndedOnce
  <2>3. ended'[<<"runtime", g>>] = 1
    BY <1>0, <2>1, <2>2, ProviderObject
  <2>4. \A object \in Objects : object # <<"runtime", g>> => ended'[object] = ended[object]
    BY <1>0, <2>1
  <2>5. \A n \in 1 .. MaxMade : ended'[<<"provider", n>>] = ended[<<"provider", n>>]
    <3>1. \A n \in 1 .. MaxMade : <<"provider", n>> # <<"runtime", g>>
      OBVIOUS
    <3> QED BY <2>4, <3>1, ProviderObject
  <2>6. \A h \in Handles : h # g =>
           ended'[<<"runtime", h>>] = ended[<<"runtime", h>>] /\ runtimes'[h] = runtimes[h]
    <3>1. \A h \in Handles : h # g => <<"runtime", h>> # <<"runtime", g>>
      OBVIOUS
    <3> QED BY <1>0, <2>1, <2>4, <3>1, ProviderObject
  <2>7. ~runtimes'[g].live
    <3>1. runtimes[g] \in Runtime
      BY <1>0, <2>1
    <3> QED BY <1>0, <2>1, <3>1 DEF Runtime
  <2>8. handles \in Nat /\ g \in Nat /\ \A h \in Handles : h \in Nat
    BY <1>0, <2>1 DEF Handles
  <2> HIDE DEF g
  <2> QED BY <1>0, <1>1, <2>1, <2>2, <2>3, <2>4, <2>5, <2>6, <2>7, <2>8 DEF EndedOnce
<1>5. CASE InitRuntime(t)
  <2>1. /\ ended' = ended /\ address' = address /\ handles' = handles + 1
        /\ runtimes' = runtimes \/ runtimes' = [runtimes EXCEPT ![handles'].live = TRUE]
        /\ handles' \in Handles
    BY <1>0, <1>5 DEF InitRuntime, Handles
  <2>2. \A h \in Handles : h # handles' => runtimes'[h] = runtimes[h]
    BY <1>0, <2>1
  <2>3. handles' > handles /\ \A h \in Handles : h \in Nat
    BY <1>0, <2>1 DEF Handles
  <2> QED BY <1>0, <1>1, <2>1, <2>2, <2>3 DEF EndedOnce
<1>6. CASE ~Destroy(t) /\ ~Insert(t) /\ ~Shutdown(t) /\ ~InitRuntime(t)
  <2>1. UNCHANGED <<runtimes, handles, address, ended>>
    BY <1>6 DEF Step, Begin, Refuse, Hold, Find, Run, Write, Collect
  <2> QED BY <1>1, <2>1 DEF EndedOnce
<1> QED BY <1>2, <1>3, <1>4, <1>5, <1>6

-----------------------------------------------------------------------------
(* The calls, and the theorems. *)

LEMMA AddressGrows ==
    ASSUME Inv, NEW t \in Threads, Step(t)
    PROVE  /\ Len(address) \in Nat /\ Len(address') \in Nat /\ Len(address) <= Len(address')
           /\ \A m \in 1 .. Len(address) : address'[m] = address[m]
<1>1. Len(address) \in Nat
  BY DEF Inv, TypeOK
<1>2. CASE Insert(t)
  <2>1. /\ Len(address') = Len(address) + 1
        /\ \A m \in 1 .. Len(address) : address'[m] = address[m]
    BY <1>2, InsertShape
  <2> QED BY <1>1, <2>1
<1>3. CASE ~Insert(t)
  <2>1. address' = address
    BY <1>3, DestroyShape, OtherShape
  <2> QED BY <1>1, <2>1
<1> QED BY <1>2, <1>3

\* A call gets past get_runtime() in Hold, with a runtime that is registered.
LEMMA HeldIsLive ==
    ASSUME Inv, NEW t \in Threads, Step(t),
           calls'[t].pc \in {"holding", "running", "writing"}
    PROVE  \/ calls[t].pc \in {"holding", "running", "writing"}
           \/ calls[t].handle \in Handles /\ ended[<<"runtime", calls[t].handle>>] = 0
<1> DEFINE call == calls[t]
<1>0. /\ TypeOK /\ call \in CallType /\ handles \in 0 .. MaxHandles /\ MaxHandles \in Nat
      /\ calls \in [Threads -> CallType]
  BY TypeUnfolds DEF Inv, TypeOK
<1>1. ASSUME NEW failure \in Failures, Fail(t, call, failure)
      PROVE  FALSE
  BY <1>0, <1>1, FailShape
<1>2. ASSUME Succeed(t, call)
      PROVE  FALSE
  <2>1. calls'[t].pc = "returned"
    BY <1>0, <1>2, ProceedShape
  <2> QED BY <2>1
<1>3. "invalid_argument" \in Failures /\ "other" \in Failures
  BY DEF Failures
<1>4. CASE Hold(t)
  BY <1>0, <1>4 DEF Hold, Refused, Registered, Handles, Inv, EndedOnce
<1>5. CASE Find(t) \/ Run(t) \/ Destroy(t) \/ Insert(t) \/ Write(t)
  BY <1>5 DEF Find, Run, Destroy, Insert, Write
<1>6. CASE Refuse(t) \/ InitRuntime(t) \/ Shutdown(t)
  BY <1>1, <1>2, <1>3, <1>6 DEF Refuse, InitRuntime, Shutdown
<1>7. ASSUME NEW fn \in Functions, NEW null \in BOOLEAN, NEW handle \in 0 .. handles,
             NEW target \in 0 .. Len(address), Begin(t, fn, null, handle, target)
      PROVE  FALSE
  <2>1. calls'[t].pc = "entered"
    BY <1>0, <1>7 DEF Begin
  <2> QED BY <2>1
<1>8. ASSUME Collect(t)
      PROVE  FALSE
  <2>1. calls'[t].pc = "idle"
    BY <1>0, <1>8 DEF Collect, CallType
  <2> QED BY <2>1
<1> QED BY <1>4, <1>5, <1>6, <1>7, <1>8 DEF Step

LEMMA CallsStep ==
    ASSUME Inv, NEW t \in Threads, Step(t)
    PROVE  CallsInv'
<1>0. /\ \A u \in Threads : calls[u] \in CallType /\ CallInv(u)
      /\ MaxHandles \in Nat /\ MaxMade \in Nat
      /\ ended \in [Objects -> Nat]
  BY TypeUnfolds DEF Inv, CallsInv, TypeOK
<1>1. \A u \in Threads : /\ calls[u].target \in Nat /\ calls[u].over \subseteq Objects
  BY <1>0 DEF CallType
<1>2. \A object \in Objects : ended[object] > 0 => ended'[object] > 0
  BY EndedStep
<1>3. /\ Len(address) \in Nat /\ Len(address') \in Nat /\ Len(address) <= Len(address')
      /\ \A m \in 1 .. Len(address) : address'[m] = address[m]
  BY AddressGrows
<1>4. ASSUME NEW u \in Threads, u # t
      PROVE  CallInv(u)'
  <2>1. calls'[u] = calls[u]
    BY <1>4, StepShape
  <2>2. CallInv(u)
    BY <1>0
  <2> QED BY <1>1, <1>2, <1>3, <2>1, <2>2 DEF CallInv
<1>5. CallInv(t)'
  <2>1. CASE SameCall(calls'[t], calls[t])
    <3>1. calls'[t].pc \in {"holding", "running", "writing"} =>
             /\ calls[t].handle \in Handles
             /\ <<"runtime", calls[t].handle>> \notin calls[t].over
      <4>1. CASE calls[t].pc \in {"holding", "running", "writing"}
        BY <1>0, <4>1 DEF CallInv
      <4>2. CASE calls[t].handle \in Handles /\ ended[<<"runtime", calls[t].handle>>] = 0
        <5>1. \A object \in calls[t].over : ended[object] > 0
          BY <1>0 DEF CallInv
        <5> QED BY <4>2, <5>1
      <4> QED BY <4>1, <4>2, HeldIsLive
    <3>2. /\ calls'[t].target = calls[t].target /\ calls'[t].handle = calls[t].handle
          /\ calls'[t].over = calls[t].over /\ calls'[t].ran = calls[t].ran
      BY <2>1 DEF SameCall
    <3>3. CallInv(t)
      BY <1>0
    <3> QED BY <1>1, <1>2, <1>3, <3>1, <3>2, <3>3 DEF CallInv
  <2>2. CASE Find(t) /\ SameCall(calls'[t], [calls[t] EXCEPT !.ran = calls'[t].ran])
    <3>1. /\ calls[t].pc = "holding" /\ address' = address /\ ended' = ended
      BY <2>2 DEF Find
    <3>2. /\ calls'[t].target = calls[t].target /\ calls'[t].handle = calls[t].handle
          /\ calls'[t].over = calls[t].over
      BY <1>0, <2>2 DEF SameCall, CallType
    <3>3. CallInv(t) /\ calls[t].handle \in Handles
          /\ <<"runtime", calls[t].handle>> \notin calls[t].over
      BY <1>0, <3>1 DEF CallInv
    <3>4. calls'[t].ran = calls[t].ran \/
          (calls'[t].ran = calls[t].target /\ ended[<<"provider", calls[t].target>>] = 0)
      <4>1. CASE Entries(calls[t]) = {}
        <5>1. "invalid_argument" \in Failures
          BY DEF Failures
        <5>2. SameCall(calls'[t], calls[t])
          BY <1>0, <2>2, <4>1, <5>1, FailShape DEF Find, Inv
        <5> QED BY <5>2 DEF SameCall
      <4>2. CASE Entries(calls[t]) # {}
        <5>1. PICK e \in Entries(calls[t]) :
                 Proceed(t, [calls[t] EXCEPT !.ran = e.object],
                         IF calls[t].fn = "read" THEN "running" ELSE "writing")
          BY <2>2, <4>2 DEF Find
        <5>2. /\ e \in runtimes[calls[t].handle].entries /\ e.object = calls[t].target
              /\ calls[t].target \in 1 .. MaxMade
          BY <3>1, <5>1, NamedIsTarget
        <5>3. ended[<<"provider", e.object>>] = 0
          BY <3>3, <5>2, EntryNames
        <5>4. [calls[t] EXCEPT !.ran = e.object] \in CallType
          BY <1>0, <5>2, CallRan
        <5>5. calls'[t].ran = [calls[t] EXCEPT !.ran = e.object].ran
          BY <5>1, <5>4, ProceedShape DEF SameCall, Inv
        <5>6. calls'[t].ran = e.object
          BY <1>0, <5>5 DEF CallType
        <5> QED BY <5>2, <5>3, <5>6
      <4> QED BY <4>1, <4>2
    <3>5. CASE calls'[t].ran = calls[t].ran
      BY <3>1, <3>2, <3>3, <3>5 DEF CallInv
    <3>6. CASE calls'[t].ran = calls[t].target /\ ended[<<"provider", calls[t].target>>] = 0
      <4>1. <<"provider", calls[t].target>> \notin calls[t].over
        BY <3>3, <3>6 DEF CallInv
      <4> QED BY <3>1, <3>2, <3>3, <3>6, <4>1 DEF CallInv
    <3> QED BY <3>4, <3>5, <3>6
  <2>3. ASSUME NEW fn \in Functions, NEW null \in BOOLEAN, NEW handle \in 0 .. handles,
               NEW target \in 0 .. Len(address), Begin(t, fn, null, handle, target)
        PROVE  CallInv(t)'
    <3>1. /\ calls'[t].pc = "entered" /\ calls'[t].target = target
          /\ calls'[t].handle = handle /\ calls'[t].ran = 0 /\ calls'[t].over = Over
          /\ address' = address /\ ended' = ended
          /\ target # 0 => handle = address[target].handle
      BY <1>0, <2>3 DEF Begin, Inv, TypeOK
    <3> QED BY <1>3, <3>1 DEF CallInv, Over
  <2> QED BY <2>1, <2>2, <2>3, StepShape
<1> QED BY <1>4, <1>5 DEF CallsInv

LEMMA InvHolds == Spec => []Inv
<1>1. Init => Inv
  <2> SUFFICES ASSUME Init PROVE Inv
    OBVIOUS
  <2>1. TypeOK
    <3>1. MaxHandles \in Nat /\ MaxMade \in Nat /\ MaxCalls \in Nat
      BY CallsAssumption
    <3>2. NoError \in Errors
      BY DEF NoError, Errors
    <3>3. Idle \in CallType
      BY <3>1, <3>2 DEF Idle, CallType, Functions, Slots
    <3>4. <<>> \in Seq([handle : Handles, id : Nat \ {0}]) /\ Len(<<>>) = 0
      OBVIOUS
    <3> QED BY <3>1, <3>2, <3>3, <3>4 DEF Init, TypeOK, Handles
  <2>2. Own
    BY DEF Init, Own, Idle
  <2>3. EntriesName /\ IdsIssued /\ AddressesDiffer
    BY DEF Init, EntriesName, IdsIssued, AddressesDiffer
  <2>4. EndedOnce
    BY CallsAssumption, ProviderObject DEF Init, EndedOnce
  <2>5. CallsInv
    BY DEF Init, CallsInv, CallInv, Idle
  <2> QED BY <2>1, <2>2, <2>3, <2>4, <2>5 DEF Inv
<1>2. Inv /\ [Next]_vars => Inv'
  <2> SUFFICES ASSUME Inv, [Next]_vars PROVE Inv'
    OBVIOUS
  <2>1. CASE Next
    <3>1. PICK t \in Threads : Step(t)
      BY <2>1 DEF Next
    <3> QED BY <3>1, TypeStep, OwnStep, RegistryStep, EndedStep, CallsStep DEF Inv
  <2>2. CASE UNCHANGED vars
    <3>1. TypeOK' /\ Own'
      BY <2>2 DEF vars, Inv, TypeOK, Own
    <3>2. EntriesName' /\ IdsIssued' /\ AddressesDiffer'
      BY <2>2 DEF vars, Inv, EntriesName, IdsIssued, AddressesDiffer
    <3>3. EndedOnce' /\ CallsInv'
      BY <2>2 DEF vars, Inv, EndedOnce, CallsInv, CallInv
    <3> QED BY <3>1, <3>2, <3>3 DEF Inv
  <2> QED BY <2>1, <2>2
<1> QED BY <1>1, <1>2, PTL DEF Spec

\* Types; in particular an id is never the zero that stands for none.
THEOREM TypeCorrect == Spec => []TypeOK
<1>1. Inv => TypeOK
  BY DEF Inv
<1> QED BY <1>1, InvHolds, PTL

\* The error a thread reads is that of its own last call (with_error_boundary()).
THEOREM LastErrorsAreOwn == Spec => []LastErrorIsOwn
<1>1. Inv => LastErrorIsOwn
  BY DEF Inv, Own, LastErrorIsOwn, LastError, SlotOf
<1> QED BY <1>1, InvHolds, PTL

\* An id leads a call to the provider it was handed out for, or nowhere.
THEOREM CallsRunOnNamed == Spec => []RunsOnNamed
<1>1. Inv => RunsOnNamed
  BY DEF Inv, CallsInv, CallInv, RunsOnNamed
<1> QED BY <1>1, InvHolds, PTL

\* Destroying and shutting down happen once, and later calls do not see what is
\* over.
THEOREM EndsAreFinal == Spec => []EndIsFinal
<1>1. Inv => EndIsFinal
  BY DEF Inv, CallsInv, CallInv, EndedOnce, EndIsFinal, Objects
<1> QED BY <1>1, InvHolds, PTL

-----------------------------------------------------------------------------
(* Strings.  A string that has not been freed is in the variable of exactly *)
(* one thread that has returned and not yet collected; a call that has not  *)
(* returned has a cleared variable, so a failure leaves nothing to free.    *)

Past == {"holding", "running", "writing"}
Active == {"entered"} \cup Past

Texting(t) == Slots[calls[t].fn] = "text" /\ ~calls[t].null
Holding(t) == calls[t].pc = "returned" /\ Texting(t)

StringsInv ==
    /\ ~strings.bad
    /\ \A s \in strings.live :
          /\ s # 0 /\ s <= strings.made
          /\ \E t \in Threads : Holding(t) /\ texts[t] = s
    /\ \A t \in Threads :
          /\ calls[t].pc \in Past => ~calls[t].null
          /\ (calls[t].pc \in Active /\ Texting(t)) => texts[t] = 0
          /\ Holding(t) => texts[t] \in strings.live \cup {0}
    /\ \A t, u \in Threads :
          (Holding(t) /\ Holding(u) /\ texts[t] = texts[u]) => (t = u \/ texts[t] = 0)

\* Steps that neither begin a call, write a string nor collect one.
LEMMA MiddleShape ==
    ASSUME Inv, NEW t \in Threads,
           \/ Refuse(t) \/ InitRuntime(t) \/ Shutdown(t) \/ Hold(t) \/ Destroy(t)
           \/ Find(t) \/ Run(t) \/ Insert(t)
    PROVE  /\ texts' = texts /\ strings' = strings
           /\ \A u \in Threads \ {t} : calls'[u] = calls[u]
           /\ calls[t].pc \in Active /\ calls'[t].pc \in Past \cup {"returned"}
           /\ calls'[t].fn = calls[t].fn /\ calls'[t].null = calls[t].null
           /\ calls'[t].pc \in Past => calls[t].pc \in Past \/ ~calls[t].null
<1> DEFINE call == calls[t]
<1>0. TypeOK /\ call \in CallType
  BY TypeUnfolds DEF Inv, TypeOK
<1>1. ASSUME NEW failure \in Failures, Fail(t, call, failure)
      PROVE  /\ \A u \in Threads \ {t} : calls'[u] = calls[u]
             /\ calls'[t].pc = "returned"
             /\ calls'[t].fn = call.fn /\ calls'[t].null = call.null
  BY <1>0, <1>1, FailShape DEF SameCall
<1>2. ASSUME NEW pc, Proceed(t, call, pc) \/ (Succeed(t, call) /\ pc = "returned")
      PROVE  /\ \A u \in Threads \ {t} : calls'[u] = calls[u]
             /\ calls'[t].pc = pc
             /\ calls'[t].fn = call.fn /\ calls'[t].null = call.null
  BY <1>0, <1>2, ProceedShape DEF SameCall
<1>3. "invalid_argument" \in Failures /\ "other" \in Failures
  BY DEF Failures
<1>4. CASE Refuse(t) \/ InitRuntime(t) \/ Shutdown(t) \/ Destroy(t) \/ Insert(t)
  <2>1. /\ texts' = texts /\ strings' = strings /\ calls[t].pc \in {"entered", "holding", "writing"}
        /\ \/ Succeed(t, call)
           \/ Fail(t, call, "invalid_argument") \/ Fail(t, call, "other")
    BY <1>4 DEF Refuse, InitRuntime, Shutdown, Destroy, Insert
  <2> QED BY <1>1, <1>2, <1>3, <2>1 DEF Active, Past
<1>5. CASE Hold(t) \/ Run(t)
  BY <1>1, <1>2, <1>5 DEF Hold, Run, Refused, Active, Past
<1>6. CASE Find(t)
  <2>1. CASE Entries(call) = {}
    BY <1>1, <1>3, <1>6, <2>1 DEF Find, Active, Past
  <2>2. CASE Entries(call) # {}
    <3>1. PICK e \in Entries(call) :
             Proceed(t, [call EXCEPT !.ran = e.object],
                     IF call.fn = "read" THEN "running" ELSE "writing")
      BY <1>6, <2>2 DEF Find
    <3>2. call.pc = "holding"
      BY <1>6 DEF Find
    <3>3. e.object \in 1 .. MaxMade
      BY <3>2, NamedIsTarget
    <3>4. [call EXCEPT !.ran = e.object] \in CallType
          /\ [call EXCEPT !.ran = e.object].fn = call.fn
          /\ [call EXCEPT !.ran = e.object].null = call.null
      <4>1. [call EXCEPT !.ran = e.object] \in CallType
        BY <1>0, <3>3, CallRan
      <4>2. ASSUME NEW c \in CallType, NEW r
            PROVE  [c EXCEPT !.ran = r].fn = c.fn /\ [c EXCEPT !.ran = r].null = c.null
        BY DEF CallType
      <4>3. call \in CallType
        BY <1>0
      <4>4. [call EXCEPT !.ran = e.object].fn = call.fn
            /\ [call EXCEPT !.ran = e.object].null = call.null
        BY <4>2, <4>3
      <4> QED BY <4>1, <4>4
    <3>5. /\ SameCall(calls'[t], [call EXCEPT !.ran = e.object])
          /\ calls'[t].pc = (IF call.fn = "read" THEN "running" ELSE "writing")
          /\ \A u \in Threads \ {t} : calls'[u] = calls[u]
      BY <1>0, <3>1, <3>4, ProceedShape
    <3>6. /\ calls'[t].pc \in Past
          /\ calls'[t].fn = call.fn /\ calls'[t].null = call.null
      BY <3>4, <3>5 DEF SameCall, Past
    <3> QED BY <1>6, <3>2, <3>5, <3>6 DEF Find, Active, Past
  <2> QED BY <2>1, <2>2
<1> QED BY <1>4, <1>5, <1>6

LEMMA StringsStep ==
    ASSUME Inv, StringsInv, NEW t \in Threads, Step(t)
    PROVE  StringsInv'
<1>0. /\ TypeOK /\ calls[t] \in CallType /\ calls \in [Threads -> CallType]
      /\ texts \in [Threads -> Nat] /\ strings \in [made : Nat, live : SUBSET Nat, bad : BOOLEAN]
  BY TypeUnfolds DEF Inv, TypeOK
<1>1. ASSUME NEW fn \in Functions, NEW null \in BOOLEAN, NEW handle \in 0 .. handles,
             NEW target \in 0 .. Len(address), Begin(t, fn, null, handle, target)
      PROVE  StringsInv'
  <2>1. /\ calls[t].pc = "idle" /\ calls'[t].pc = "entered" /\ calls'[t].fn = fn
        /\ calls'[t].null = null /\ strings' = strings
        /\ \A u \in Threads \ {t} : calls'[u] = calls[u] /\ texts'[u] = texts[u]
        /\ Slots[fn] = "text" /\ ~null => texts'[t] = 0
    BY <1>0, <1>1 DEF Begin, ClearedOut
  <2>2. ~Holding(t) /\ ~Holding(t)'
    BY <2>1 DEF Holding
  <2>3. \A u \in Threads \ {t} : /\ Holding(u)' <=> Holding(u)
                                 /\ Texting(u)' <=> Texting(u)
    BY <2>1 DEF Holding, Texting
  <2>4. Texting(t)' => texts'[t] = 0
    BY <2>1 DEF Texting
  <2> QED BY <2>1, <2>2, <2>3, <2>4 DEF StringsInv, Past
<1>2. CASE \/ Refuse(t) \/ InitRuntime(t) \/ Shutdown(t) \/ Hold(t) \/ Destroy(t)
           \/ Find(t) \/ Run(t) \/ Insert(t)
  <2>1. /\ texts' = texts /\ strings' = strings
        /\ \A u \in Threads \ {t} : calls'[u] = calls[u]
        /\ calls[t].pc \in Active /\ calls'[t].pc \in Past \cup {"returned"}
        /\ calls'[t].fn = calls[t].fn /\ calls'[t].null = calls[t].null
        /\ calls'[t].pc \in Past => calls[t].pc \in Past \/ ~calls[t].null
    BY <1>2, MiddleShape
  <2>2. ~Holding(t) /\ (Texting(t)' <=> Texting(t)) /\ (Texting(t) => texts[t] = 0)
    BY <2>1 DEF Holding, Texting, StringsInv, Active, Past
  <2>3. \A u \in Threads \ {t} : /\ Holding(u)' <=> Holding(u)
                                 /\ Texting(u)' <=> Texting(u)
    BY <2>1 DEF Holding, Texting
  <2>4. Holding(t)' => texts[t] = 0
    BY <2>2 DEF Holding
  <2> QED BY <2>1, <2>2, <2>3, <2>4 DEF StringsInv
<1>3. CASE Write(t)
  <2> DEFINE fresh == strings.made + 1
  <2>1. /\ calls[t].pc = "writing" /\ Slots[calls[t].fn] = "text"
        /\ strings' = [made |-> fresh, live |-> strings.live \cup {fresh}, bad |-> strings.bad]
        /\ texts' = [texts EXCEPT ![t] = fresh]
        /\ Succeed(t, calls[t])
    BY <1>3 DEF Write
  <2>2. /\ \A u \in Threads \ {t} : calls'[u] = calls[u] /\ texts'[u] = texts[u]
        /\ texts'[t] = fresh /\ calls'[t].pc = "returned"
        /\ calls'[t].fn = calls[t].fn /\ calls'[t].null = calls[t].null
    BY <1>0, <2>1, ProceedShape DEF SameCall
  <2>3. Holding(t)' /\ ~Holding(t)
    BY <2>1, <2>2 DEF Holding, Texting, StringsInv, Past
  <2>4. \A u \in Threads \ {t} : /\ Holding(u)' <=> Holding(u)
                                 /\ Texting(u)' <=> Texting(u)
    BY <2>2 DEF Holding, Texting
  <2>5. fresh \in Nat /\ fresh # 0 /\ \A s \in strings.live : s < fresh
    BY <1>0 DEF StringsInv
  <2>6. strings'.made = fresh /\ strings'.live = strings.live \cup {fresh}
        /\ strings'.bad = strings.bad
    BY <2>1
  <2> HIDE DEF fresh
  <2>7. \A s \in strings'.live : s # 0 /\ s <= strings'.made
    BY <1>0, <2>5, <2>6 DEF StringsInv
  <2>8. \A s \in strings'.live : \E u \in Threads : Holding(u)' /\ texts'[u] = s
    <3>1. \A s \in strings.live : \E u \in Threads \ {t} : Holding(u) /\ texts[u] = s
      BY <2>3 DEF StringsInv
    <3> QED BY <2>2, <2>3, <2>4, <2>6, <3>1
  <2>9. \A u \in Threads \ {t} : Holding(u)' => texts'[u] # fresh
    BY <2>2, <2>4, <2>5 DEF StringsInv
  <2>10. \A u \in Threads : /\ calls'[u].pc \in Past => ~calls'[u].null
                            /\ (calls'[u].pc \in Active /\ Texting(u)') => texts'[u] = 0
                            /\ Holding(u)' => texts'[u] \in strings'.live \cup {0}
    BY <2>2, <2>4, <2>6 DEF StringsInv, Past, Active
  <2>11. \A u, v \in Threads :
            (Holding(u)' /\ Holding(v)' /\ texts'[u] = texts'[v]) => (u = v \/ texts'[u] = 0)
    BY <2>2, <2>4, <2>9 DEF StringsInv
  <2> QED BY <2>6, <2>7, <2>8, <2>10, <2>11 DEF StringsInv
<1>4. CASE Collect(t)
  <2>1. /\ calls[t].pc = "returned" /\ texts' = texts
        /\ calls' = [calls EXCEPT ![t] = [calls[t] EXCEPT !.pc = "idle"]]
        /\ strings' = IF Holding(t) THEN Free(texts[t]) ELSE strings
    BY <1>4 DEF Collect, Holding, Texting
  <2>2. calls'[t].pc = "idle" /\ \A u \in Threads \ {t} : calls'[u] = calls[u]
    BY <1>0, <2>1 DEF CallType
  <2>3. \A u \in Threads \ {t} : /\ Holding(u)' <=> Holding(u)
                                 /\ Texting(u)' <=> Texting(u)
    BY <2>2 DEF Holding, Texting
  <2>4. ~Holding(t)'
    BY <2>2 DEF Holding
  <2>5. /\ strings'.made = strings.made /\ ~strings'.bad
        /\ strings'.live = IF Holding(t) THEN strings.live \ {texts[t]} ELSE strings.live
    <3>1. CASE Holding(t)
      <4>1. texts[t] \in strings.live \cup {0}
        BY <3>1 DEF StringsInv
      <4> QED BY <1>0, <2>1, <3>1, <4>1 DEF Free, StringsInv
    <3>2. CASE ~Holding(t)
      BY <2>1, <3>2 DEF StringsInv
    <3> QED BY <3>1, <3>2
  <2>6. ASSUME NEW s \in strings'.live
        PROVE  /\ s # 0 /\ s <= strings'.made
               /\ \E u \in Threads : Holding(u)' /\ texts'[u] = s
    <3>1. s \in strings.live /\ (Holding(t) => s # texts[t])
      BY <2>5
    <3>2. PICK u \in Threads : Holding(u) /\ texts[u] = s
      BY <3>1 DEF StringsInv
    <3>3. u # t
      BY <3>1, <3>2
    <3> QED BY <2>1, <2>3, <2>5, <3>1, <3>2, <3>3 DEF StringsInv
  <2>7. ASSUME NEW u \in Threads
        PROVE  /\ calls'[u].pc \in Past => ~calls'[u].null
               /\ (calls'[u].pc \in Active /\ Texting(u)') => texts'[u] = 0
               /\ Holding(u)' => texts'[u] \in strings'.live \cup {0}
    <3>1. CASE u = t
      BY <2>2, <2>4, <3>1 DEF Past, Active
    <3>2. CASE u # t
      <4>1. Holding(u) /\ Holding(t) => (texts[u] # texts[t] \/ texts[u] = 0)
        BY <3>2 DEF StringsInv
      <4> QED BY <2>1, <2>2, <2>3, <2>5, <3>2, <4>1 DEF StringsInv
    <3> QED BY <3>1, <3>2
  <2>8. \A u, v \in Threads :
            (Holding(u)' /\ Holding(v)' /\ texts'[u] = texts'[v]) => (u = v \/ texts'[u] = 0)
    BY <2>1, <2>3, <2>4 DEF StringsInv
  <2> QED BY <2>5, <2>6, <2>7, <2>8 DEF StringsInv
<1> QED BY <1>1, <1>2, <1>3, <1>4 DEF Step

\* A caller that frees its variable after every call frees every string once
\* (write_json(), storageprims_free_string()).
THEOREM FreedOnce == Spec => []StringsFreedOnce
<1>1. Init => StringsInv
  BY DEF Init, StringsInv, Idle, Past, Active, Holding
<1>2. Inv /\ StringsInv /\ [Next]_vars => StringsInv'
  <2> SUFFICES ASSUME Inv, StringsInv, [Next]_vars PROVE StringsInv'
    OBVIOUS
  <2>1. CASE Next
    BY <2>1, StringsStep DEF Next
  <2>2. CASE UNCHANGED vars
    BY <2>2 DEF vars, StringsInv, Holding, Texting
  <2> QED BY <2>1, <2>2
<1>3. StringsInv => StringsFreedOnce
  BY DEF StringsInv, StringsFreedOnce, Holding
<1> QED BY <1>1, <1>2, <1>3, InvHolds, PTL DEF Spec
=============================================================================
