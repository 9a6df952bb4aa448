------------------------------ MODULE FfiStreams ------------------------------
(***************************************************************************)
(* The streaming data plane of the C ABI (ffi/storageprims-ffi/src): the   *)
(* registry of runtimes, the streams a runtime tracks, the worker task and *)
(* OS pipe behind each stream, and the finalizers that collect a worker's  *)
(* result, with caller threads that open, finalize and shut down at any    *)
(* moment.                                                                 *)
(*                                                                         *)
(* There is one runtime handle: handles share nothing but the map that     *)
(* holds them.  Bytes are counted in chunks.  A call that get_runtime()    *)
(* refuses changes nothing and is not a step.                              *)
(***************************************************************************)
EXTENDS Integers, FiniteSets

CONSTANTS
    Threads,      \* the caller's threads
    MaxStreams,   \* bound: stream ids handed out
    MaxProviders, \* bound: provider ids handed out
    MaxSize,      \* bound: chunks of an object, and of an upload
    Capacity      \* chunks a pipe holds

ASSUME CapacityAssumption == Capacity \in Nat \ {0}
ASSUME BoundsAssumption ==
    MaxStreams \in Nat /\ MaxProviders \in Nat /\ MaxSize \in Nat

Ids      == 1 .. MaxStreams
NoObject   == -1
Undeclared == -1

VARIABLES
    runtime,    \* registered, removed (still held by calls), dropping, gone
    holders,    \* threads that hold a reference to the runtime
    call,       \* what each thread is doing
    providers,  \* provider ids registered
    created,    \* provider ids handed out
    opened,     \* stream ids handed out
    streams     \* the streams by id: registry entry, worker, pipe, history

vars == <<runtime, holders, call, providers, created, opened, streams>>

Kinds   == {"get", "range", "put"}
Working == {"copy", "take", "commit"}

CallType ==
    [pc   : {"idle", "opening", "finalizing", "waiting", "leaving", "dropping"},
     kind : Kinds \cup {"none"},
     id   : 0 .. MaxStreams]

Idle == [pc |-> "idle", kind |-> "none", id |-> 0]

StreamType ==
    [kind     : Kinds \cup {"none"},
     size     : 0 .. MaxSize,           \* chunks the provider's body holds
     fails    : BOOLEAN,                \* the body ends in an error, not EOF
     expected : Undeclared .. MaxSize,  \* a range's window (0 is no promise),
                                       \* a put's declared content length
     entry    : BOOLEAN,                \* the registry holds the receiver
     worker   : Working \cup {"none", "done", "dropped"},
     moved    : 0 .. MaxSize,           \* chunks the worker moved
     pending  : BOOLEAN,                \* a file operation is with the pool
     broken   : BOOLEAN,                \* a pipe write failed
     pipe     : 0 .. Capacity,          \* chunks in the pipe
     open     : BOOLEAN,                \* the caller's end is open
     used     : 0 .. MaxSize,           \* chunks the caller read or wrote
     eof      : BOOLEAN,                \* the caller read to the end
     result   : {"none", "ok", "err"},  \* what the worker sent
     outcome  : {"none", "ok", "err", "lost", "misused"},
     stored   : NoObject .. MaxSize]    \* what the put left at the provider

Fresh ==
    [kind |-> "none", size |-> 0, fails |-> FALSE, expected |-> 0,
     entry |-> FALSE, worker |-> "none", moved |-> 0, pending |-> FALSE,
     broken |-> FALSE, pipe |-> 0, open |-> FALSE, used |-> 0, eof |-> FALSE,
     result |-> "none", outcome |-> "none", stored |-> NoObject]

Init ==
    /\ runtime = "registered"
    /\ holders = {}
    /\ call = [t \in Threads |-> Idle]
    /\ providers = {}
    /\ created = 0
    /\ opened = 0
    /\ streams = [id \in Ids |-> Fresh]

Set(id, s) == streams' = [streams EXCEPT ![id] = s]

-----------------------------------------------------------------------------
(* The runtime and its references.                                         *)

\* get_runtime(): a call starts with a reference of its own.
Enter(t, next) ==
    /\ call[t] = Idle
    /\ runtime = "registered"
    /\ holders' = holders \cup {t}
    /\ call' = [call EXCEPT ![t] = next]

Leaving == [Idle EXCEPT !.pc = "leaving"]

\* Calls that touch no stream, and calls refused after get_runtime().
Control(t) ==
    /\ Enter(t, Leaving)
    /\ UNCHANGED <<runtime, providers, created, opened, streams>>

CreateProvider(t) ==
    /\ Enter(t, Leaving)
    /\ created < MaxProviders
    /\ created' = created + 1
    /\ providers' = providers \cup {created'}
    /\ UNCHANGED <<runtime, opened, streams>>

DestroyProvider(t) ==
    /\ Enter(t, Leaving)
    /\ \E p \in providers : providers' = providers \ {p}
    /\ UNCHANGED <<runtime, created, opened, streams>>

\* storageprims_shutdown() takes the registry's own reference.
Shutdown(t) ==
    /\ Enter(t, Leaving)
    /\ runtime' = "removed"
    /\ UNCHANGED <<providers, created, opened, streams>>

\* Mutant: shutdown drops the runtime whoever still uses it.
LastReferenceShutdown(t) == runtime = "removed"

\* Mutant: a reference too many is counted.
LastReferenceLeaked(t) == runtime = "removed" /\ holders = {}

\* The reference t returns is the last one.
LastReference(t) == runtime = "removed" /\ holders = {t}

\* A call returns its reference; the thread that returns the last one drops
\* the Tokio runtime before its call can return.
Release(t) ==
    /\ call[t].pc = "leaving"
    /\ holders' = holders \ {t}
    /\ IF LastReference(t)
       THEN /\ runtime' = "dropping"
            /\ call' = [call EXCEPT ![t].pc = "dropping"]
       ELSE /\ call' = [call EXCEPT ![t] = Idle]
            /\ UNCHANGED runtime
    /\ UNCHANGED <<providers, created, opened, streams>>

\* Mutant: the drop does not wait for file operations.
QuietTasks(s) == s.worker \notin Working

Quiet(s) == s.worker \notin Working /\ ~s.pending

\* Dropping the runtime returns when no task is left and the pool is idle.
FinishDrop(t) ==
    /\ call[t].pc = "dropping"
    /\ \A id \in Ids : Quiet(streams[id])
    /\ runtime' = "gone"
    /\ call' = [call EXCEPT ![t] = Idle]
    /\ UNCHANGED <<holders, providers, created, opened, streams>>

-----------------------------------------------------------------------------
(* Opening a stream.                                                       *)

\* The provider is looked up; the call keeps a reference to it, so that a
\* later destroy does not disturb the stream.
BeginOpen(t, kind) ==
    /\ Enter(t, [pc |-> "opening", kind |-> kind, id |-> 0])
    /\ providers # {}
    /\ opened < MaxStreams
    /\ UNCHANGED <<runtime, providers, created, opened, streams>>

OpenFails(t) ==
    /\ call[t].pc = "opening"
    /\ call' = [call EXCEPT ![t] = Leaving]
    /\ UNCHANGED <<runtime, holders, providers, created, opened, streams>>

Opened(t, s) ==
    /\ call[t].pc = "opening"
    /\ opened < MaxStreams
    /\ opened' = opened + 1
    /\ Set(opened', s)
    /\ call' = [call EXCEPT ![t] = Leaving]
    /\ UNCHANGED <<runtime, holders, providers, created>>

\* The provider answered a get or a guarded range read: its body may fail on
\* the way, and may be shorter or longer than the window of its receipt.
OpenRead(t) ==
    /\ call[t].kind \in {"get", "range"}
    /\ \E size \in 0 .. MaxSize, fails \in BOOLEAN, window \in 0 .. MaxSize :
        /\ (window > 0) <=> (call[t].kind = "range")
        /\ Opened(t, [Fresh EXCEPT !.kind = call[t].kind, !.size = size,
                                   !.fails = fails, !.expected = window,
                                   !.entry = TRUE, !.worker = "copy",
                                   !.open = TRUE])

\* The caller may or may not declare the content length of its upload.
OpenPut(t) ==
    /\ call[t].kind = "put"
    /\ \E length \in Undeclared .. MaxSize :
          Opened(t, [Fresh EXCEPT !.kind = "put", !.expected = length,
                                  !.entry = TRUE, !.worker = "take",
                                  !.open = TRUE])

-----------------------------------------------------------------------------
(* The read worker, copy_stream_to_pipe().  The pool writes one chunk while *)
(* the worker reads the next; a failed write shows at the next write.       *)

Done(s, result) == [s EXCEPT !.worker = "done", !.result = result]

\* The chunk now written is the last of the window.
Exhausted(s) == s.expected > 0 /\ s.moved + 1 = s.expected

CopyChunk(id) ==
    LET s    == streams[id]
        sent == [s EXCEPT !.moved = s.moved + 1, !.pending = TRUE]
    IN  /\ s.worker = "copy" /\ s.moved < s.size
        /\ ~s.pending /\ ~s.broken
        /\ Set(id, IF Exhausted(s) THEN [Done(s, "ok") EXCEPT
                                            !.moved = s.moved + 1, !.pending = TRUE]
                   ELSE sent)

CopyMeetsBrokenPipe(id) ==
    LET s == streams[id]
    IN  /\ s.worker = "copy" /\ s.moved < s.size
        /\ ~s.pending /\ s.broken
        /\ Set(id, Done(s, "err"))

\* Mutant: the end of the body always is the end of the range.
ReadResultShort(s) == IF s.fails THEN "err" ELSE "ok"

\* What the end of the body means: an error, or EOF before the window is full.
ReadResult(s) == IF s.fails \/ s.expected > 0 THEN "err" ELSE "ok"

\* The last write may still be with the pool, and its failure is not awaited.
CopyEnds(id) ==
    LET s == streams[id]
    IN  /\ s.worker = "copy" /\ s.moved = s.size
        /\ Set(id, Done(s, ReadResult(s)))

PoolWrites(id) ==
    LET s == streams[id]
    IN  /\ s.kind \in {"get", "range"} /\ s.pending
        /\ IF s.open
           THEN /\ s.pipe < Capacity
                /\ Set(id, [s EXCEPT !.pipe = s.pipe + 1, !.pending = FALSE])
           ELSE Set(id, [s EXCEPT !.broken = TRUE, !.pending = FALSE])

-----------------------------------------------------------------------------
(* The put worker: the provider's put over AsyncReadBody, which reads the   *)
(* declared length from the pipe and may then be asked for one byte more.   *)

\* S3 uploads need a declared length.
PutRefused(id) ==
    LET s == streams[id]
    IN  /\ s.worker = "take" /\ s.expected = Undeclared
        /\ Set(id, Done(s, "err"))

TakeStarts(id) ==
    LET s == streams[id]
    IN  /\ s.worker = "take" /\ ~s.pending /\ s.expected # Undeclared
        /\ Set(id, [s EXCEPT !.pending = TRUE])

\* Mutant: the end of the pipe always is the end of the upload.
SentShort(s) == TRUE

\* The declared length is read.
Sent(s) == s.moved = s.expected

\* The HTTP client may end the request without asking for the byte after it.
PutSkipsProbe(id) ==
    LET s == streams[id]
    IN  /\ s.worker = "take" /\ ~s.pending /\ s.moved = s.expected
        /\ Set(id, [s EXCEPT !.worker = "commit"])

\* Mutant: the worker keeps a writing end, and the caller's close ends nothing.
PipeEndsNever(s) == FALSE

\* EOF: the pipe is empty and the caller closed its end.
PipeEnds(s) == s.pipe = 0 /\ ~s.open

\* What an interrupted put may leave: nothing, or its object once the body is
\* sent.
Leaves(s) ==
    {s.stored} \cup
    (IF s.kind = "put" /\ s.moved = s.expected THEN {s.moved} ELSE {})

\* A chunk within the declared length is sent; one after it fails the body.
\* EOF before that length fails the body too, which then was never complete.
PoolReads(id) ==
    LET s    == streams[id]
        idle == [s EXCEPT !.pending = FALSE]
        read == [idle EXCEPT !.pipe = s.pipe - 1]
    IN  /\ s.kind = "put" /\ s.pending
        /\ \/ /\ s.pipe > 0 /\ s.worker # "take"
              /\ Set(id, read)
           \/ /\ s.pipe > 0 /\ s.worker = "take" /\ s.moved < s.expected
              /\ Set(id, [read EXCEPT !.moved = s.moved + 1])
           \/ /\ s.pipe > 0 /\ s.worker = "take" /\ s.moved = s.expected
              /\ \E stored \in Leaves(s) :
                    Set(id, [Done(read, "err") EXCEPT !.stored = stored])
           \/ /\ PipeEnds(s) /\ s.worker # "take"
              /\ Set(id, idle)
           \/ /\ PipeEnds(s) /\ s.worker = "take"
              /\ Set(id, IF Sent(s) THEN [idle EXCEPT !.worker = "commit"]
                         ELSE Done(idle, "err"))

PutCommits(id) ==
    LET s == streams[id]
    IN  /\ s.worker = "commit"
        /\ Set(id, [Done(s, "ok") EXCEPT !.stored = s.moved])

\* The provider may refuse a put at any time, or apply it and lose the answer.
PutFails(id) ==
    LET s == streams[id]
    IN  /\ s.worker \in {"take", "commit"}
        /\ \E stored \in Leaves(s) : Set(id, [Done(s, "err") EXCEPT !.stored = stored])

\* Dropping the runtime drops the tasks that have not ended.
Cancel(id) ==
    LET s == streams[id]
    IN  /\ runtime = "dropping" /\ s.worker \in Working
        /\ \E stored \in Leaves(s) :
              Set(id, [s EXCEPT !.worker = "dropped", !.stored = stored])

-----------------------------------------------------------------------------
(* The caller's end of the pipe.                                           *)

\* The worker's end stays open as long as the worker or an operation uses it.
NearOpen(s) == s.worker \in Working \/ s.pending

CallerReads(id) ==
    LET s == streams[id]
    IN  /\ s.kind \in {"get", "range"} /\ s.open
        /\ \/ /\ s.pipe > 0
              /\ Set(id, [s EXCEPT !.pipe = s.pipe - 1, !.used = s.used + 1])
           \/ /\ s.pipe = 0 /\ ~NearOpen(s) /\ ~s.eof
              /\ Set(id, [s EXCEPT !.eof = TRUE])

CallerWrites(id) ==
    LET s == streams[id]
    IN  /\ s.kind = "put" /\ s.open /\ NearOpen(s)
        /\ s.pipe < Capacity /\ s.used < MaxSize
        /\ Set(id, [s EXCEPT !.pipe = s.pipe + 1, !.used = s.used + 1])

CallerCloses(id) ==
    /\ streams[id].open
    /\ Set(id, [streams[id] EXCEPT !.open = FALSE])

-----------------------------------------------------------------------------
(* Finalizing a stream.                                                    *)

\* storageprims_get_finalize() and storageprims_put_finalize() with an id a
\* descriptor carried.
BeginFinalize(t, kind, id) ==
    /\ id <= opened
    /\ Enter(t, [pc |-> "finalizing", kind |-> kind, id |-> id])
    /\ UNCHANGED <<runtime, providers, created, opened, streams>>

\* Mutant: the entry is read and stays in the registry.
TakenKept(s) == s

Taken(s) == [s EXCEPT !.entry = FALSE]

Matches(kind, s) == (kind = "put") <=> (s.kind = "put")

\* take_stream() removes the entry before the finalizer looks at its kind.
Take(t) ==
    /\ call[t].pc = "finalizing"
    /\ LET id == call[t].id
           s  == streams[id]
       IN  \/ /\ ~s.entry
              /\ call' = [call EXCEPT ![t] = Leaving]
              /\ UNCHANGED streams
           \/ /\ s.entry /\ Matches(call[t].kind, s)
              /\ call' = [call EXCEPT ![t].pc = "waiting"]
              /\ Set(id, Taken(s))
           \/ /\ s.entry /\ ~Matches(call[t].kind, s)
              /\ call' = [call EXCEPT ![t] = Leaving]
              /\ Set(id, [Taken(s) EXCEPT !.outcome = "misused"])
    /\ UNCHANGED <<runtime, holders, providers, created, opened>>

\* The receiver yields the worker's result, or that the worker is gone.
Await(t) ==
    /\ call[t].pc = "waiting"
    /\ LET id == call[t].id
           s  == streams[id]
       IN  /\ s.worker \notin Working
           /\ Set(id, [s EXCEPT !.outcome = IF s.result = "none" THEN "lost"
                                            ELSE s.result])
    /\ call' = [call EXCEPT ![t] = Leaving]
    /\ UNCHANGED <<runtime, holders, providers, created, opened>>

-----------------------------------------------------------------------------
Worker(id) == \/ CopyChunk(id) \/ CopyMeetsBrokenPipe(id) \/ CopyEnds(id)
              \/ PutRefused(id) \/ TakeStarts(id) \/ PutSkipsProbe(id)
              \/ PutCommits(id) \/ PutFails(id)
Pool(id)   == PoolWrites(id) \/ PoolReads(id)
Caller(id) == CallerReads(id) \/ CallerWrites(id) \/ CallerCloses(id)

Starts(t) ==
    \/ Control(t) \/ CreateProvider(t) \/ DestroyProvider(t) \/ Shutdown(t)
    \/ \E kind \in Kinds : BeginOpen(t, kind)
    \/ \E kind \in {"get", "put"}, id \in Ids : BeginFinalize(t, kind, id)

Continues(t) ==
    \/ OpenFails(t) \/ OpenRead(t) \/ OpenPut(t)
    \/ Take(t) \/ Await(t) \/ Release(t) \/ FinishDrop(t)

Next ==
    \/ \E t \in Threads : Starts(t) \/ Continues(t)
    \/ \E id \in Ids :
          /\ Worker(id) \/ Pool(id) \/ Caller(id) \/ Cancel(id)
          /\ UNCHANGED <<runtime, holders, call, providers, created, opened>>

Spec == Init /\ [][Next]_vars

\* The caller drains or closes every descriptor, the provider and the kernel
\* answer, the scheduler is fair; nothing makes a provider fail.
Fairness ==
    /\ \A t \in Threads :
          /\ WF_vars(OpenFails(t) \/ OpenRead(t) \/ OpenPut(t))
          /\ WF_vars(Take(t)) /\ WF_vars(Await(t))
          /\ WF_vars(Release(t)) /\ WF_vars(FinishDrop(t))
    /\ \A id \in Ids :
          LET Alone(A) == A /\ UNCHANGED <<runtime, holders, call, providers,
                                          created, opened>>
          IN  /\ WF_vars(Alone(\/ CopyChunk(id) \/ CopyMeetsBrokenPipe(id)
                               \/ CopyEnds(id) \/ PutRefused(id) \/ TakeStarts(id)
                               \/ PutSkipsProbe(id) \/ PutCommits(id)))
              /\ WF_vars(Alone(Pool(id)))
              /\ WF_vars(Alone(CallerCloses(id)))
              /\ WF_vars(Alone(Cancel(id)))

FairSpec == Spec /\ Fairness

-----------------------------------------------------------------------------
(* Properties. *)

\* Types; and a range never moves more than the window of its receipt.
TypeOK ==
    /\ runtime \in {"registered", "removed", "dropping", "gone"}
    /\ holders \subseteq Threads
    /\ call \in [Threads -> CallType]
    /\ created \in 0 .. MaxProviders /\ providers \subseteq 1 .. created
    /\ opened \in 0 .. MaxStreams
    /\ streams \in [Ids -> StreamType]
    /\ \A id \in Ids : streams[id].kind = "range"
                         => streams[id].moved <= streams[id].expected

\* A reader that saw the end of its pipe and finalized with success has every
\* byte of the object, or of the proven window, whatever the provider's body,
\* the pool and a shutdown did.
ReadIsWhole ==
    \A id \in Ids :
        LET s == streams[id]
        IN  (s.kind # "put" /\ s.eof /\ s.outcome = "ok")
                => s.used = IF s.kind = "range" THEN s.expected ELSE s.size

\* A put never leaves a truncated object, whether its caller stopped writing,
\* the runtime was shut down or its answer was lost: what it leaves are the
\* chunks of the declared length, all written by the caller; and a put that
\* finalized with success left them.
PutIsWhole ==
    \A id \in Ids :
        LET s == streams[id]
        IN  /\ s.stored # NoObject => (s.stored = s.expected /\ s.stored <= s.used)
            /\ (s.kind = "put" /\ s.outcome = "ok") => s.stored # NoObject

\* Shutdown never takes the worker away from a finalizer that waits for it.
NoneLost == \A id \in Ids : streams[id].outcome # "lost"

\* Racing finalizers: at most one of them ever gets a stream's answer.
OneAnswer ==
    \A id \in Ids :
        Cardinality({t \in Threads : call[t].pc = "waiting" /\ call[t].id = id})
            + (IF streams[id].outcome = "none" THEN 0 ELSE 1) <= 1

\* Once the runtime is gone no worker or pool thread holds an end of a pipe.
GoneIsClosed == runtime = "gone" => \A id \in Ids : ~NearOpen(streams[id])

\* Every call returns, if the caller closes its descriptors.
CallsReturn == \A t \in Threads : (call[t] # Idle) ~> (call[t] = Idle)

\* A runtime that was shut down is freed in the end: no reference is left over.
RuntimeFreed == (runtime = "removed") ~> (runtime = "gone")

\* storageprims.h: finalization reports any failure that occurred while
\* copying provider bytes into the pipe.
FailureReported ==
    [][\A t \in Threads :
        (call[t].pc = "waiting" /\ streams[call[t].id].broken)
            => streams'[call[t].id].outcome # "ok"]_vars
=============================================================================
