------------------------------- MODULE FfiCalls -------------------------------
(***************************************************************************)
(* The calls of the C ABI that block on one operation (ffi/storageprims-   *)
(* ffi/src): the boundary every call passes, with the thread's last error  *)
(* and the output slot, the registries of runtimes and providers, and      *)
(* threads that create, use, destroy and shut down at any moment.  Streams *)
(* are FfiStreams.                                                         *)
(*                                                                         *)
(* A provider object is the number of its creation, whatever id it is      *)
(* known by; a string is the number of its allocation.                     *)
(***************************************************************************)
EXTENDS Integers, Sequences, FiniteSets

CONSTANTS
    Threads,     \* the caller's threads
    MaxHandles,  \* bound: runtimes initialized
    MaxMade,     \* bound: providers created
    MaxCalls     \* bound: calls begun

ASSUME CallsAssumption ==
    MaxHandles \in Nat /\ MaxMade \in Nat /\ MaxCalls \in Nat

Handles == 1 .. MaxHandles
Objects == ({"runtime"} \X Handles) \cup ({"provider"} \X (1 .. MaxMade))

\* What a call returns through: nothing, a u64, or a string.
Slots == [init |-> "none", shutdown |-> "none", create |-> "id", destroy |-> "none",
          capabilities |-> "text", read |-> "text"]
Functions == DOMAIN Slots

Failures == {"invalid_argument", "already_exists", "token_mismatch", "inspection", "other",
             "panic"}

VARIABLES
    runtimes,  \* by handle: [live, issued, entries], entries being [id, object]
    handles,   \* handles handed out
    address,   \* what the creator of each provider object was told: [handle, id]
    calls,     \* what each thread is doing
    slot,      \* the last errors: [code, detail]
    ids,       \* each thread's u64 output variable, in provider objects
    texts,     \* each thread's string output variable
    strings,   \* strings allocated, and those that have not been freed
    ended,     \* how often each object was reported destroyed (history)
    begun      \* calls begun

vars == <<runtimes, handles, address, calls, slot, ids, texts, strings, ended, begun>>

NoError == [code |-> "ok", detail |-> "none"]
Idle == [pc |-> "idle", fn |-> "init", null |-> FALSE, handle |-> 0, target |-> 0,
         ran |-> 0, over |-> {}, error |-> NoError]

-----------------------------------------------------------------------------
(* The boundary: clear_error_state(), catch_unwind(), set_error(). *)

\* StorageErrorCode::from() and its numeric form.
CodeOf(failure) ==
    CASE failure \in {"already_exists", "token_mismatch"} -> "conflict"
      [] failure \in {"inspection", "other", "panic"}     -> "other"
      [] failure = "invalid_argument"                     -> failure

\* The payload tells conflicts and inspections apart, as the code does not.
ErrorState(t, failure) == [code |-> CodeOf(failure), detail |-> failure]

\* Mutant: one last error for the process.
SlotOfProcess(t) == CHOOSE u \in Threads : TRUE

\* LAST_ERROR is thread-local.
SlotOf(t) == t

\* storageprims_last_error() and storageprims_last_error_code().
LastError(t) == slot[SlotOf(t)]

Fail(t, call, failure) ==
    /\ slot' = [slot EXCEPT ![SlotOf(t)] = ErrorState(t, failure)]
    /\ calls' = [calls EXCEPT ![t] =
          [call EXCEPT !.pc = "returned",
                       !.error = [code |-> CodeOf(failure), detail |-> failure]]]

Succeed(t, call) ==
    /\ calls' = [calls EXCEPT ![t] = [call EXCEPT !.pc = "returned"]]
    /\ UNCHANGED slot

Proceed(t, call, pc) ==
    /\ calls' = [calls EXCEPT ![t] = [call EXCEPT !.pc = pc]]
    /\ UNCHANGED slot

-----------------------------------------------------------------------------
(* Beginning a call: up to its first look at a registry. *)

\* Mutant: the output keeps what an earlier call left in it.
ClearedOutKept(old) == old

\* initialize_out_u64() and initialize_out_json().
ClearedOut(old) == 0

Over == {object \in Objects : ended[object] > 0}

Clear(t) == slot' = [slot EXCEPT ![SlotOf(t)] = NoError]

\* with_error_boundary() begins: the slot is cleared, then the output.
Begin(t, fn, null, handle, target) ==
    /\ calls[t].pc = "idle" /\ begun < MaxCalls
    /\ null => Slots[fn] # "none"
    /\ fn \in {"init", "shutdown", "create"} => target = 0
    /\ target # 0 => handle = address[target].handle
    /\ calls' = [calls EXCEPT ![t] =
          [pc |-> "entered", fn |-> fn, null |-> null, handle |-> handle,
           target |-> target, ran |-> 0, over |-> Over, error |-> NoError]]
    /\ Clear(t)
    /\ ids' = IF Slots[fn] = "id" /\ ~null
              THEN [ids EXCEPT ![t] = ClearedOut(@)] ELSE ids
    /\ texts' = IF Slots[fn] = "text" /\ ~null
                THEN [texts EXCEPT ![t] = ClearedOut(@)] ELSE texts
    /\ begun' = begun + 1
    /\ UNCHANGED <<runtimes, handles, address, strings, ended>>

Registered(handle) == handle \in 1 .. handles /\ runtimes[handle].live

\* An output pointer that is null, or a handle get_runtime() does not know.
Refused(call) == call.null \/ (call.fn # "init" /\ ~Registered(call.handle))

Refuse(t) ==
    /\ calls[t].pc = "entered" /\ Refused(calls[t])
    /\ Fail(t, calls[t], "invalid_argument")
    /\ UNCHANGED <<runtimes, handles, address, ids, texts, strings, ended, begun>>

\* storageprims_init(): handles are never handed out again.
InitRuntime(t) ==
    /\ calls[t].pc = "entered" /\ calls[t].fn = "init"
    /\ handles < MaxHandles
    /\ handles' = handles + 1
    /\ \/ /\ runtimes' = [runtimes EXCEPT ![handles'].live = TRUE]
          /\ Succeed(t, calls[t])
       \/ Fail(t, calls[t], "other") /\ UNCHANGED runtimes
    /\ UNCHANGED <<address, ids, texts, strings, ended, begun>>

Ended(object) == ended' = [ended EXCEPT ![object] = @ + 1]

Shutdown(t) ==
    /\ calls[t].pc = "entered" /\ calls[t].fn = "shutdown"
    /\ Registered(calls[t].handle)
    /\ runtimes' = [runtimes EXCEPT ![calls[t].handle].live = FALSE]
    /\ Ended(<<"runtime", calls[t].handle>>)
    /\ Succeed(t, calls[t])
    /\ UNCHANGED <<handles, address, ids, texts, strings, begun>>

\* get_runtime(): from here the call keeps the runtime, registered or not.
Hold(t) ==
    /\ calls[t].pc = "entered" /\ calls[t].fn \notin {"init", "shutdown"}
    /\ ~Refused(calls[t])
    /\ Proceed(t, calls[t], IF calls[t].fn = "create" THEN "running" ELSE "holding")
    /\ UNCHANGED <<runtimes, handles, address, ids, texts, strings, ended, begun>>

-----------------------------------------------------------------------------
(* The provider. *)

\* The id the caller names: what it was told, or one it never was.
Named(call) == IF call.target = 0 THEN 0 ELSE address[call.target].id

Entries(call) == {e \in runtimes[call.handle].entries : e.id = Named(call)}

\* Mutant: the provider is looked up but stays registered.
RemainingAll(call) == runtimes[call.handle].entries

Remaining(call) == runtimes[call.handle].entries \ Entries(call)

\* remove_provider().
Destroy(t) ==
    LET call == calls[t]
    IN  /\ call.pc = "holding" /\ call.fn = "destroy"
        /\ IF Entries(call) = {}
           THEN Fail(t, call, "invalid_argument") /\ UNCHANGED <<runtimes, ended>>
           ELSE /\ runtimes' = [runtimes EXCEPT ![call.handle].entries = Remaining(call)]
                /\ Ended(<<"provider", call.target>>)
                /\ Succeed(t, call)
        /\ UNCHANGED <<handles, address, ids, texts, strings, begun>>

\* provider(): the call keeps the object, registered or not.
Find(t) ==
    LET call == calls[t]
    IN  /\ call.pc = "holding" /\ call.fn \in {"capabilities", "read"}
        /\ IF Entries(call) = {}
           THEN Fail(t, call, "invalid_argument")
           ELSE \E e \in Entries(call) :
                   Proceed(t, [call EXCEPT !.ran = e.object],
                           IF call.fn = "read" THEN "running" ELSE "writing")
        /\ UNCHANGED <<runtimes, handles, address, ids, texts, strings, ended, begun>>

\* Arguments are parsed, then block_on() runs the operation or builds the
\* provider: it may fail in any way, or panic.
Run(t) ==
    /\ calls[t].pc = "running"
    /\ \/ Proceed(t, calls[t], "writing")
       \/ \E failure \in Failures : Fail(t, calls[t], failure)
    /\ UNCHANGED <<runtimes, handles, address, ids, texts, strings, ended, begun>>

\* Mutant: ids are handed out by the size of the registry.
NextIdBySize(handle) == Cardinality(runtimes[handle].entries) + 1

NextId(handle) == runtimes[handle].issued + 1

\* insert_provider(), in a runtime that may have been shut down meanwhile.
Insert(t) ==
    LET call == calls[t]
        id   == NextId(call.handle)
        made == Len(address) + 1
    IN  /\ call.pc = "writing" /\ call.fn = "create"
        /\ made <= MaxMade
        /\ runtimes' = [runtimes EXCEPT
              ![call.handle].entries = @ \cup {[id |-> id, object |-> made]},
              ![call.handle].issued = @ + 1]
        /\ address' = Append(address, [handle |-> call.handle, id |-> id])
        /\ ids' = [ids EXCEPT ![t] = made]
        /\ Succeed(t, call)
        /\ UNCHANGED <<handles, texts, strings, ended, begun>>

\* write_json().
Write(t) ==
    LET fresh == strings.made + 1
    IN  /\ calls[t].pc = "writing" /\ Slots[calls[t].fn] = "text"
        /\ strings' = [made |-> fresh, live |-> strings.live \cup {fresh}, bad |-> strings.bad]
        /\ texts' = [texts EXCEPT ![t] = fresh]
        /\ Succeed(t, calls[t])
        /\ UNCHANGED <<runtimes, handles, address, ids, ended, begun>>

-----------------------------------------------------------------------------
(* The caller, between calls. *)

\* storageprims_free_string() ignores null and frees what it is given.
Free(string) ==
    [strings EXCEPT !.live = @ \ {string},
                    !.bad = @ \/ (string # 0 /\ string \notin strings.live)]

\* The caller passes its variable to storageprims_free_string() after every
\* call that may have set it, whatever that call returned.
Collect(t) ==
    /\ calls[t].pc = "returned"
    /\ strings' = IF Slots[calls[t].fn] = "text" /\ ~calls[t].null
                  THEN Free(texts[t]) ELSE strings
    /\ calls' = [calls EXCEPT ![t].pc = "idle"]
    /\ UNCHANGED <<runtimes, handles, address, slot, ids, texts, ended, begun>>

Init ==
    /\ runtimes = [h \in Handles |-> [live |-> FALSE, issued |-> 0, entries |-> {}]]
    /\ handles = 0
    /\ address = <<>>
    /\ calls = [t \in Threads |-> Idle]
    /\ slot = [t \in Threads |-> NoError]
    /\ ids = [t \in Threads |-> 0]
    /\ texts = [t \in Threads |-> 0]
    /\ strings = [made |-> 0, live |-> {}, bad |-> FALSE]
    /\ ended = [object \in Objects |-> 0]
    /\ begun = 0

Step(t) ==
    \/ \E fn \in Functions, null \in BOOLEAN, handle \in 0 .. handles,
          target \in 0 .. Len(address) : Begin(t, fn, null, handle, target)
    \/ Refuse(t) \/ InitRuntime(t) \/ Shutdown(t) \/ Hold(t) \/ Destroy(t)
    \/ Find(t) \/ Run(t) \/ Insert(t) \/ Write(t) \/ Collect(t)

Next == \E t \in Threads : Step(t)

Spec == Init /\ [][Next]_vars
-----------------------------------------------------------------------------
(* Properties. *)

Errors == [code : {"ok", "invalid_argument", "conflict", "other"},
           detail : Failures \cup {"none"}]

CallType ==
    [pc : {"idle", "entered", "holding", "running", "writing", "returned"},
     fn : Functions, null : BOOLEAN, handle : 0 .. MaxHandles, target : 0 .. MaxMade,
     ran : 0 .. MaxMade, over : SUBSET Objects, error : Errors]

\* An id is never the zero that stands for none.
TypeOK ==
    /\ runtimes \in [Handles -> [live : BOOLEAN, issued : Nat,
                                 entries : SUBSET [id : Nat \ {0}, object : 1 .. MaxMade]]]
    /\ handles \in 0 .. MaxHandles
    /\ address \in Seq([handle : Handles, id : Nat \ {0}]) /\ Len(address) <= MaxMade
    /\ calls \in [Threads -> CallType]
    /\ slot \in [Threads -> Errors]
    /\ ids \in [Threads -> 0 .. MaxMade]
    /\ texts \in [Threads -> Nat]
    /\ strings \in [made : Nat, live : SUBSET Nat, bad : BOOLEAN]
    /\ ended \in [Objects -> Nat]
    /\ begun \in 0 .. MaxCalls

\* Until its next call a thread reads the error of its own last call, code and
\* payload, and none after a success, whatever other threads do meanwhile
\* (lib.rs: "records the failure detail in the thread-local last-error slot").
LastErrorIsOwn ==
    \A t \in Threads :
        calls[t].pc \in {"idle", "returned"} => LastError(t) = calls[t].error

\* A caller that frees its variable after every call, failed or not, frees
\* every string once: none twice, and none is lost.
StringsFreedOnce ==
    /\ ~strings.bad
    /\ strings.live \subseteq {texts[t] : t \in {u \in Threads : calls[u].pc = "returned"}}

\* An id names the provider it was handed out for, or nothing: a call never
\* runs on a provider that was created later.
RunsOnNamed ==
    \A t \in Threads : calls[t].ran # 0 => calls[t].ran = calls[t].target

\* Of the calls that race to destroy a provider or to shut a runtime down one
\* is told that it did, and no call that begins after that uses it.
EndIsFinal ==
    /\ \A object \in Objects : ended[object] <= 1
    /\ \A t \in Threads :
          calls[t].ran # 0 =>
              /\ <<"provider", calls[t].ran>> \notin calls[t].over
              /\ <<"runtime", calls[t].handle>> \notin calls[t].over
=============================================================================
