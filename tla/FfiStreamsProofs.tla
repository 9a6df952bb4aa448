--------------------------- MODULE FfiStreamsProofs ---------------------------
(***************************************************************************)
(* The safety properties of FfiStreams for any number of threads, streams, *)
(* chunks and any pipe.                                                    *)
(*                                                                         *)
(* One half of the invariant, Sound, is about a stream alone: how the      *)
(* worker, the pool and the caller account for the chunks they move.  The  *)
(* other half, Referenced and Claimed, ties streams to calls and calls to  *)
(* the runtime: a finalizer that waits holds a reference, and as long as   *)
(* there are references no worker is dropped.                              *)
(***************************************************************************)
EXTENDS FfiStreams, FiniteSetTheorems, TLAPS

InPool(s) == IF s.pending THEN 1 ELSE 0

\* What a read worker moved is what the caller read, what the pipe holds and
\* what the pool writes, as long as no write failed.
Copied(s) ==
    s.kind \in {"get", "range"} =>
        /\ s.used + s.pipe + InPool(s) <= s.moved
        /\ ~s.broken => s.used + s.pipe + InPool(s) = s.moved
        /\ s.kind = "range" <=> s.expected > 0
        /\ s.kind = "get" => s.expected = 0
        /\ s.kind = "range" => s.moved <= s.expected
        /\ (s.kind = "range" /\ s.worker = "copy") => s.moved < s.expected
        /\ s.moved <= s.size
        /\ s.broken => ~s.open
        /\ s.eof => s.pipe = 0 /\ ~s.broken /\ ~NearOpen(s)
        /\ s.result = "ok" => s.moved = IF s.kind = "range" THEN s.expected ELSE s.size

\* A put takes only what its caller wrote, and stores only all that it was
\* promised.
Uploaded(s) ==
    /\ s.kind = "put" =>
        /\ s.moved + s.pipe <= s.used
        /\ s.worker = "commit" => s.moved = s.expected
        /\ s.stored # NoObject => s.stored = s.expected /\ s.stored <= s.used
        /\ s.result = "ok" => s.stored # NoObject
    /\ s.kind # "put" => s.stored = NoObject

\* A worker fits its stream and sends its result as it ends.
Worked(s) ==
    /\ s.worker = "none" <=> s.kind = "none"
    /\ s.worker = "none" => ~s.pending /\ ~s.open /\ ~s.entry
    /\ s.worker = "copy" => s.kind \in {"get", "range"}
    /\ s.worker \in {"take", "commit"} => s.kind = "put"
    /\ s.worker = "done" <=> s.result # "none"
    /\ s.outcome \in {"ok", "err"} => s.result = s.outcome
    /\ s.outcome # "lost"
    /\ s.entry => s.outcome = "none"

Sound(s) == s \in StreamType /\ Copied(s) /\ Uploaded(s) /\ Worked(s)

\* What a step of a worker, the pool or the caller leaves alone.
Kept(s, n) ==
    /\ n.entry = s.entry /\ n.outcome = s.outcome
    /\ n.worker = "none" <=> s.worker = "none"
    /\ n.worker = "dropped" => s.worker = "dropped" \/ runtime = "dropping"
    /\ NearOpen(n) => NearOpen(s)

Steps(id) == \E n : Set(id, n) /\ Sound(n) /\ Kept(streams[id], n)

-----------------------------------------------------------------------------
(* Steps of one stream. *)

\* Updating a field with a value of its type.
LEMMA Fields ==
    ASSUME NEW s \in StreamType
    PROVE  /\ \A x \in Working \cup {"none", "done", "dropped"} :
                  [s EXCEPT !.worker = x] \in StreamType
           /\ \A x \in 0 .. MaxSize : [s EXCEPT !.moved = x] \in StreamType
           /\ \A x \in 0 .. MaxSize : [s EXCEPT !.used = x] \in StreamType
           /\ \A x \in 0 .. Capacity : [s EXCEPT !.pipe = x] \in StreamType
           /\ \A x \in NoObject .. MaxSize : [s EXCEPT !.stored = x] \in StreamType
           /\ \A x \in Kinds : [s EXCEPT !.kind = x] \in StreamType
           /\ \A x \in 0 .. MaxSize : [s EXCEPT !.size = x] \in StreamType
           /\ \A x \in Undeclared .. MaxSize :
                  [s EXCEPT !.expected = x] \in StreamType
           /\ \A x \in BOOLEAN : [s EXCEPT !.fails = x] \in StreamType
           /\ \A x \in BOOLEAN : [s EXCEPT !.pending = x] \in StreamType
           /\ \A x \in BOOLEAN : [s EXCEPT !.broken = x] \in StreamType
           /\ \A x \in BOOLEAN : [s EXCEPT !.open = x] \in StreamType
           /\ \A x \in BOOLEAN : [s EXCEPT !.eof = x] \in StreamType
           /\ \A x \in BOOLEAN : [s EXCEPT !.entry = x] \in StreamType
           /\ \A x \in {"none", "ok", "err"} :
                  [s EXCEPT !.result = x] \in StreamType
           /\ \A x \in {"none", "ok", "err", "lost", "misused"} :
                  [s EXCEPT !.outcome = x] \in StreamType
  BY DEF StreamType

\* A chunk read from the provider goes to the pool, and the last of the window ends the copy.
LEMMA CopyChunkSound ==
    ASSUME NEW id \in Ids, Sound(streams[id]), CopyChunk(id) PROVE Steps(id)
<1> DEFINE s == streams[id]
<1>0. s \in StreamType
  BY DEF Sound
<1>c1. CASE Exhausted(s)
  <2> DEFINE n == [s EXCEPT !.worker = "done", !.result = "ok",
                            !.moved = s.moved + 1, !.pending = TRUE]
  <2>1. Set(id, n)
    BY <1>c1 DEF CopyChunk, Exhausted, Done
  <2>2. n \in StreamType
    <3>1. s.moved + 1 \in 0 .. MaxSize
      BY <1>0, <1>c1, BoundsAssumption, CapacityAssumption DEF StreamType,
          Copied, Uploaded, Worked, InPool, Sound, CopyChunk, Exhausted, Done
    <3> QED
      BY <1>0, <3>1, Fields DEF Working
  <2>3. Copied(n)
    BY <1>0, <1>c1, <2>2 DEF Sound, Copied, Worked, NearOpen, InPool,
        StreamType, Working, CopyChunk, Exhausted, Done
  <2>4. Uploaded(n) /\ Worked(n)
    BY <1>0, <1>c1, <2>2 DEF Sound, Uploaded, Worked, StreamType, Working,
        Undeclared, NoObject, CopyChunk, Exhausted, Done
  <2>5. Kept(s, n)
    BY <1>0, <1>c1, <2>2 DEF Sound, Worked, Kept, NearOpen, StreamType,
        Working, CopyChunk, Exhausted, Done
  <2> QED
    BY <2>1, <2>2, <2>3, <2>4, <2>5 DEF Steps, Sound
<1>c2. CASE ~Exhausted(s)
  <2> DEFINE n == [s EXCEPT !.moved = s.moved + 1, !.pending = TRUE]
  <2>1. Set(id, n)
    BY <1>c2 DEF CopyChunk, Exhausted, Done
  <2>2. n \in StreamType
    <3>1. s.moved + 1 \in 0 .. MaxSize
      BY <1>0, <1>c2, BoundsAssumption, CapacityAssumption DEF StreamType,
          Copied, Uploaded, Worked, InPool, Sound, CopyChunk, Exhausted, Done
    <3> QED
      BY <1>0, <3>1, Fields DEF Working
  <2>3. Copied(n)
    BY <1>0, <1>c2, <2>2 DEF Sound, Copied, Worked, NearOpen, InPool,
        StreamType, Working, CopyChunk, Exhausted, Done
  <2>4. Uploaded(n) /\ Worked(n)
    BY <1>0, <1>c2, <2>2 DEF Sound, Uploaded, Worked, StreamType, Working,
        Undeclared, NoObject, CopyChunk, Exhausted, Done
  <2>5. Kept(s, n)
    BY <1>0, <1>c2, <2>2 DEF Sound, Worked, Kept, NearOpen, StreamType,
        Working, CopyChunk, Exhausted, Done
  <2> QED
    BY <2>1, <2>2, <2>3, <2>4, <2>5 DEF Steps, Sound
<1> QED
  BY <1>c1, <1>c2 DEF CopyChunk, Sound, StreamType

\* A failed pipe write ends the copy with an error.
LEMMA CopyMeetsBrokenPipeSound ==
    ASSUME NEW id \in Ids, Sound(streams[id]), CopyMeetsBrokenPipe(id) PROVE Steps(id)
<1> DEFINE s == streams[id]
<1>0. s \in StreamType
  BY DEF Sound
<1> DEFINE n == [s EXCEPT !.worker = "done", !.result = "err"]
<1>1. Set(id, n)
  BY DEF CopyMeetsBrokenPipe, Done
<1>2. n \in StreamType
  BY <1>0, Fields DEF Working
<1>3. Copied(n)
  BY <1>0, <1>2 DEF Sound, Copied, Worked, NearOpen, InPool, StreamType,
      Working, CopyMeetsBrokenPipe, Done
<1>4. Uploaded(n) /\ Worked(n)
  BY <1>0, <1>2 DEF Sound, Uploaded, Worked, StreamType, Working, Undeclared,
      NoObject, CopyMeetsBrokenPipe, Done
<1>5. Kept(s, n)
  BY <1>0, <1>2 DEF Sound, Worked, Kept, NearOpen, StreamType, Working,
      CopyMeetsBrokenPipe, Done
<1> QED
  BY <1>1, <1>2, <1>3, <1>4, <1>5 DEF Steps, Sound

\* At the end of the body the copy is whole, or its result is an error.
LEMMA CopyEndsSound ==
    ASSUME NEW id \in Ids, Sound(streams[id]), CopyEnds(id) PROVE Steps(id)
<1> DEFINE s == streams[id]
<1>0. s \in StreamType
  BY DEF Sound
<1> DEFINE n == [s EXCEPT !.worker = "done", !.result = ReadResult(s)]
<1>1. Set(id, n)
  BY DEF CopyEnds, Done, ReadResult
<1>2. n \in StreamType
  <2>1. ReadResult(s) \in {"none", "ok", "err"}
    BY <1>0, BoundsAssumption, CapacityAssumption DEF StreamType, Copied,
        Uploaded, Worked, InPool, Sound, CopyEnds, Done, ReadResult
  <2> QED
    BY <1>0, <2>1, Fields DEF Working
<1>3. Copied(n)
  BY <1>0, <1>2 DEF Sound, Copied, Worked, NearOpen, InPool, StreamType,
      Working, CopyEnds, Done, ReadResult
<1>4. Uploaded(n) /\ Worked(n)
  BY <1>0, <1>2 DEF Sound, Uploaded, Worked, StreamType, Working, Undeclared,
      NoObject, CopyEnds, Done, ReadResult
<1>5. Kept(s, n)
  BY <1>0, <1>2 DEF Sound, Worked, Kept, NearOpen, StreamType, Working,
      CopyEnds, Done, ReadResult
<1> QED
  BY <1>1, <1>2, <1>3, <1>4, <1>5 DEF Steps, Sound

\* The chunk with the pool enters the pipe, or breaks it.
LEMMA PoolWritesSound ==
    ASSUME NEW id \in Ids, Sound(streams[id]), PoolWrites(id) PROVE Steps(id)
<1> DEFINE s == streams[id]
<1>0. s \in StreamType
  BY DEF Sound
<1>c1. CASE s.open
  <2> DEFINE n == [s EXCEPT !.pipe = s.pipe + 1, !.pending = FALSE]
  <2>1. Set(id, n)
    BY <1>c1 DEF PoolWrites
  <2>2. n \in StreamType
    <3>1. s.pipe + 1 \in 0 .. Capacity
      BY <1>0, <1>c1, BoundsAssumption, CapacityAssumption DEF StreamType,
          Copied, Uploaded, Worked, InPool, Sound, PoolWrites
    <3> QED
      BY <1>0, <3>1, Fields DEF Working
  <2>3. Copied(n)
    BY <1>0, <1>c1, <2>2 DEF Sound, Copied, Worked, NearOpen, InPool,
        StreamType, Working, PoolWrites
  <2>4. Uploaded(n) /\ Worked(n)
    BY <1>0, <1>c1, <2>2 DEF Sound, Uploaded, Worked, StreamType, Working,
        Undeclared, NoObject, PoolWrites
  <2>5. Kept(s, n)
    BY <1>0, <1>c1, <2>2 DEF Sound, Worked, Kept, NearOpen, StreamType,
        Working, PoolWrites
  <2> QED
    BY <2>1, <2>2, <2>3, <2>4, <2>5 DEF Steps, Sound
<1>c2. CASE ~s.open
  <2> DEFINE n == [s EXCEPT !.broken = TRUE, !.pending = FALSE]
  <2>1. Set(id, n)
    BY <1>c2 DEF PoolWrites
  <2>2. n \in StreamType
    BY <1>0, Fields DEF Working
  <2>3. Copied(n)
    BY <1>0, <1>c2, <2>2 DEF Sound, Copied, Worked, NearOpen, InPool,
        StreamType, Working, PoolWrites
  <2>4. Uploaded(n) /\ Worked(n)
    BY <1>0, <1>c2, <2>2 DEF Sound, Uploaded, Worked, StreamType, Working,
        Undeclared, NoObject, PoolWrites
  <2>5. Kept(s, n)
    BY <1>0, <1>c2, <2>2 DEF Sound, Worked, Kept, NearOpen, StreamType,
        Working, PoolWrites
  <2> QED
    BY <2>1, <2>2, <2>3, <2>4, <2>5 DEF Steps, Sound
<1> QED
  BY <1>c1, <1>c2 DEF PoolWrites, Sound, StreamType

\* A put without a length ends before it took anything.
LEMMA PutRefusedSound ==
    ASSUME NEW id \in Ids, Sound(streams[id]), PutRefused(id) PROVE Steps(id)
<1> DEFINE s == streams[id]
<1>0. s \in StreamType
  BY DEF Sound
<1> DEFINE n == [s EXCEPT !.worker = "done", !.result = "err"]
<1>1. Set(id, n)
  BY DEF PutRefused, Done
<1>2. n \in StreamType
  BY <1>0, Fields DEF Working
<1>3. Copied(n)
  BY <1>0, <1>2 DEF Sound, Copied, Worked, NearOpen, InPool, StreamType,
      Working, PutRefused, Done
<1>4. Uploaded(n) /\ Worked(n)
  BY <1>0, <1>2 DEF Sound, Uploaded, Worked, StreamType, Working, Undeclared,
      NoObject, PutRefused, Done
<1>5. Kept(s, n)
  BY <1>0, <1>2 DEF Sound, Worked, Kept, NearOpen, StreamType, Working,
      PutRefused, Done
<1> QED
  BY <1>1, <1>2, <1>3, <1>4, <1>5 DEF Steps, Sound

\* A put asks the pool for the next chunk.
LEMMA TakeStartsSound ==
    ASSUME NEW id \in Ids, Sound(streams[id]), TakeStarts(id) PROVE Steps(id)
<1> DEFINE s == streams[id]
<1>0. s \in StreamType
  BY DEF Sound
<1> DEFINE n == [s EXCEPT !.pending = TRUE]
<1>1. Set(id, n)
  BY DEF TakeStarts
<1>2. n \in StreamType
  BY <1>0, Fields DEF Working
<1>3. Copied(n)
  BY <1>0, <1>2 DEF Sound, Copied, Worked, NearOpen, InPool, StreamType,
      Working, TakeStarts
<1>4. Uploaded(n) /\ Worked(n)
  BY <1>0, <1>2 DEF Sound, Uploaded, Worked, StreamType, Working, Undeclared,
      NoObject, TakeStarts
<1>5. Kept(s, n)
  BY <1>0, <1>2 DEF Sound, Worked, Kept, NearOpen, StreamType, Working,
      TakeStarts
<1> QED
  BY <1>1, <1>2, <1>3, <1>4, <1>5 DEF Steps, Sound

\* A body of the declared length may be committed.
LEMMA PutSkipsProbeSound ==
    ASSUME NEW id \in Ids, Sound(streams[id]), PutSkipsProbe(id) PROVE Steps(id)
<1> DEFINE s == streams[id]
<1>0. s \in StreamType
  BY DEF Sound
<1> DEFINE n == [s EXCEPT !.worker = "commit"]
<1>1. Set(id, n)
  BY DEF PutSkipsProbe
<1>2. n \in StreamType
  BY <1>0, Fields DEF Working
<1>3. Copied(n)
  BY <1>0, <1>2 DEF Sound, Copied, Worked, NearOpen, InPool, StreamType,
      Working, PutSkipsProbe
<1>4. Uploaded(n) /\ Worked(n)
  BY <1>0, <1>2 DEF Sound, Uploaded, Worked, StreamType, Working, Undeclared,
      NoObject, PutSkipsProbe
<1>5. Kept(s, n)
  BY <1>0, <1>2 DEF Sound, Worked, Kept, NearOpen, StreamType, Working,
      PutSkipsProbe
<1> QED
  BY <1>1, <1>2, <1>3, <1>4, <1>5 DEF Steps, Sound

\* A commit stores the whole declared length.
LEMMA PutCommitsSound ==
    ASSUME NEW id \in Ids, Sound(streams[id]), PutCommits(id) PROVE Steps(id)
<1> DEFINE s == streams[id]
<1>0. s \in StreamType
  BY DEF Sound
<1> DEFINE n == [s EXCEPT !.worker = "done", !.result = "ok", !.stored = s.moved]
<1>1. Set(id, n)
  BY DEF PutCommits, Done, NoObject
<1>2. n \in StreamType
  <2>1. s.moved \in NoObject .. MaxSize
    BY <1>0, BoundsAssumption, CapacityAssumption DEF StreamType, Copied,
        Uploaded, Worked, InPool, Sound, PutCommits, Done, NoObject
  <2> QED
    BY <1>0, <2>1, Fields DEF Working
<1>3. Copied(n)
  BY <1>0, <1>2 DEF Sound, Copied, Worked, NearOpen, InPool, StreamType,
      Working, PutCommits, Done, NoObject
<1>4. Uploaded(n) /\ Worked(n)
  BY <1>0, <1>2 DEF Sound, Uploaded, Worked, StreamType, Working, Undeclared,
      NoObject, PutCommits, Done, NoObject
<1>5. Kept(s, n)
  BY <1>0, <1>2 DEF Sound, Worked, Kept, NearOpen, StreamType, Working,
      PutCommits, Done, NoObject
<1> QED
  BY <1>1, <1>2, <1>3, <1>4, <1>5 DEF Steps, Sound

\* A put that fails leaves nothing, or all that was declared.
LEMMA PutFailsSound ==
    ASSUME NEW id \in Ids, Sound(streams[id]), PutFails(id) PROVE Steps(id)
<1> DEFINE s == streams[id]
<1>0. s \in StreamType
  BY DEF Sound
<1>p. PICK stored \in Leaves(s) :
          Set(id, [Done(s, "err") EXCEPT !.stored = stored])
  BY DEF PutFails
<1> DEFINE n == [s EXCEPT !.worker = "done", !.result = "err", !.stored = stored]
<1>1. Set(id, n)
  BY <1>p DEF PutFails, Done, Leaves, NoObject
<1>2. n \in StreamType
  <2>1. stored \in NoObject .. MaxSize
    BY <1>0, <1>p, BoundsAssumption, CapacityAssumption DEF StreamType,
        Copied, Uploaded, Worked, InPool, Sound, PutFails, Done, Leaves,
        NoObject
  <2> QED
    BY <1>0, <2>1, Fields DEF Working
<1>3. Copied(n)
  BY <1>0, <1>p, <1>2 DEF Sound, Copied, Worked, NearOpen, InPool, StreamType,
      Working, PutFails, Done, Leaves, NoObject
<1>4. Uploaded(n) /\ Worked(n)
  BY <1>0, <1>p, <1>2 DEF Sound, Uploaded, Worked, StreamType, Working,
      Undeclared, NoObject, PutFails, Done, Leaves, NoObject
<1>5. Kept(s, n)
  BY <1>0, <1>p, <1>2 DEF Sound, Worked, Kept, NearOpen, StreamType, Working,
      PutFails, Done, Leaves, NoObject
<1> QED
  BY <1>1, <1>2, <1>3, <1>4, <1>5 DEF Steps, Sound

\* A chunk of the pipe is taken within the declared length only.
LEMMA PoolReadsSound ==
    ASSUME NEW id \in Ids, Sound(streams[id]), PoolReads(id) PROVE Steps(id)
<1> DEFINE s    == streams[id]
           idle == [s EXCEPT !.pending = FALSE]
           read == [s EXCEPT !.pending = FALSE, !.pipe = s.pipe - 1]
<1>0. s \in StreamType /\ s.kind = "put" /\ s.pending
  BY DEF Sound, PoolReads
<1>1. ASSUME s.pipe > 0
      PROVE  read \in StreamType
  <2>1. s.pipe - 1 \in 0 .. Capacity
    BY <1>0, <1>1, CapacityAssumption DEF StreamType
  <2> QED
    BY <1>0, <2>1, Fields
<1>2. idle \in StreamType
  BY <1>0, Fields
<1>3. CASE s.pipe > 0 /\ s.worker # "take" /\ Set(id, read)
  <2>1. Sound(read)
    BY <1>0, <1>1, <1>3 DEF Sound, Copied, Uploaded, Worked, StreamType, Working
  <2>2. Kept(s, read)
    BY <1>0, <1>3 DEF Kept, NearOpen, StreamType
  <2> QED
    BY <1>3, <2>1, <2>2 DEF Steps
<1>4. CASE /\ s.pipe > 0 /\ s.worker = "take" /\ s.moved < s.expected
           /\ Set(id, [read EXCEPT !.moved = s.moved + 1])
  <2> DEFINE n == [read EXCEPT !.moved = s.moved + 1]
  <2>1. n \in StreamType
    <3>1. s.moved + 1 \in 0 .. MaxSize
      BY <1>0, <1>4, BoundsAssumption DEF StreamType, Undeclared
    <3> QED
      BY <1>1, <1>4, <3>1, Fields
  <2>2. Sound(n)
    BY <1>0, <1>4, <2>1 DEF Sound, Copied, Uploaded, Worked, StreamType, Working
  <2>3. Kept(s, n)
    BY <1>0, <1>4 DEF Kept, NearOpen, StreamType, Working
  <2> QED
    BY <1>4, <2>2, <2>3 DEF Steps
<1>5. ASSUME NEW stored \in Leaves(s), s.pipe > 0, s.worker = "take",
             s.moved = s.expected,
             Set(id, [Done(read, "err") EXCEPT !.stored = stored])
      PROVE  Steps(id)
  <2> DEFINE n == [read EXCEPT !.worker = "done", !.result = "err",
                               !.stored = stored]
  <2>1. Set(id, n)
    BY <1>5 DEF Done
  <2>2. n \in StreamType
    <3>1. stored \in NoObject .. MaxSize
      BY <1>0, BoundsAssumption DEF StreamType, Leaves, NoObject
    <3> QED
      BY <1>1, <1>5, <3>1, Fields
  <2>3. Copied(n) /\ Worked(n)
    BY <1>0, <1>5, <2>2 DEF Sound, Copied, Worked, StreamType, Working
  <2>4. Uploaded(n)
    BY <1>0, <1>5, <2>2 DEF Sound, Uploaded, Leaves, StreamType, Working, NoObject
  <2>5. Kept(s, n)
    BY <1>0, <1>5 DEF Kept, NearOpen, StreamType, Working
  <2> QED
    BY <2>1, <2>2, <2>3, <2>4, <2>5 DEF Steps, Sound
<1>6. CASE PipeEnds(s) /\ s.worker # "take" /\ Set(id, idle)
  <2>1. Sound(idle)
    BY <1>0, <1>2, <1>6 DEF Sound, Copied, Uploaded, Worked, StreamType, Working
  <2>2. Kept(s, idle)
    BY <1>0, <1>6 DEF Kept, NearOpen, StreamType
  <2> QED
    BY <1>6, <2>1, <2>2 DEF Steps
<1>7. CASE /\ PipeEnds(s) /\ s.worker = "take" /\ Sent(s)
           /\ Set(id, [idle EXCEPT !.worker = "commit"])
  <2> DEFINE n == [idle EXCEPT !.worker = "commit"]
  <2>1. n \in StreamType
    BY <1>2, Fields DEF Working
  <2>2. Sound(n)
    BY <1>0, <1>7, <2>1 DEF Sound, Copied, Uploaded, Worked, Sent, StreamType, Working
  <2>3. Kept(s, n)
    BY <1>0, <1>7 DEF Kept, NearOpen, StreamType, Working
  <2> QED
    BY <1>7, <2>2, <2>3 DEF Steps
<1>8. CASE PipeEnds(s) /\ s.worker = "take" /\ Set(id, Done(idle, "err"))
  <2> DEFINE n == [idle EXCEPT !.worker = "done", !.result = "err"]
  <2>1. Set(id, n)
    BY <1>8 DEF Done
  <2>2. n \in StreamType
    BY <1>2, Fields DEF Working
  <2>3. Sound(n)
    BY <1>0, <1>8, <2>2 DEF Sound, Copied, Uploaded, Worked, StreamType, Working
  <2>4. Kept(s, n)
    BY <1>0, <1>8 DEF Kept, NearOpen, StreamType, Working
  <2> QED
    BY <2>1, <2>3, <2>4 DEF Steps
<1> QED
  BY <1>3, <1>4, <1>5, <1>6, <1>7, <1>8 DEF PoolReads

\* Workers are dropped only while the runtime is dropped.
LEMMA CancelSound ==
    ASSUME NEW id \in Ids, Sound(streams[id]), Cancel(id) PROVE Steps(id)
<1> DEFINE s == streams[id]
<1>0. s \in StreamType
  BY DEF Sound
<1>p. PICK stored \in Leaves(s) :
          Set(id, [s EXCEPT !.worker = "dropped", !.stored = stored])
  BY DEF Cancel
<1> DEFINE n == [s EXCEPT !.worker = "dropped", !.stored = stored]
<1>1. Set(id, n)
  BY <1>p DEF Cancel, Leaves, NoObject
<1>2. n \in StreamType
  <2>1. stored \in NoObject .. MaxSize
    BY <1>0, <1>p, BoundsAssumption, CapacityAssumption DEF StreamType,
        Copied, Uploaded, Worked, InPool, Sound, Cancel, Leaves, NoObject
  <2> QED
    BY <1>0, <2>1, Fields DEF Working
<1>3. Copied(n)
  BY <1>0, <1>p, <1>2 DEF Sound, Copied, Worked, NearOpen, InPool, StreamType,
      Working, Cancel, Leaves, NoObject
<1>4. Uploaded(n) /\ Worked(n)
  BY <1>0, <1>p, <1>2 DEF Sound, Uploaded, Worked, StreamType, Working,
      Undeclared, NoObject, Cancel, Leaves, NoObject
<1>5. Kept(s, n)
  BY <1>0, <1>p, <1>2 DEF Sound, Worked, Kept, NearOpen, StreamType, Working,
      Cancel, Leaves, NoObject
<1> QED
  BY <1>1, <1>2, <1>3, <1>4, <1>5 DEF Steps, Sound

\* The caller takes a chunk, or sees the end once every writer is gone.
LEMMA CallerReadsSound ==
    ASSUME NEW id \in Ids, Sound(streams[id]), CallerReads(id) PROVE Steps(id)
<1> DEFINE s == streams[id]
<1>0. s \in StreamType
  BY DEF Sound
<1>c1. CASE s.pipe > 0
  <2> DEFINE n == [s EXCEPT !.pipe = s.pipe - 1, !.used = s.used + 1]
  <2>1. Set(id, n)
    BY <1>c1 DEF CallerReads, NearOpen
  <2>2. n \in StreamType
    <3>1. s.pipe - 1 \in 0 .. Capacity /\ s.used + 1 \in 0 .. MaxSize
      BY <1>0, <1>c1, BoundsAssumption, CapacityAssumption DEF StreamType,
          Copied, Uploaded, Worked, InPool, Sound, CallerReads, NearOpen
    <3> QED
      BY <1>0, <3>1, Fields DEF Working
  <2>3. Copied(n)
    BY <1>0, <1>c1, <2>2 DEF Sound, Copied, Worked, NearOpen, InPool,
        StreamType, Working, CallerReads, NearOpen
  <2>4. Uploaded(n) /\ Worked(n)
    BY <1>0, <1>c1, <2>2 DEF Sound, Uploaded, Worked, StreamType, Working,
        Undeclared, NoObject, CallerReads, NearOpen
  <2>5. Kept(s, n)
    BY <1>0, <1>c1, <2>2 DEF Sound, Worked, Kept, NearOpen, StreamType,
        Working, CallerReads, NearOpen
  <2> QED
    BY <2>1, <2>2, <2>3, <2>4, <2>5 DEF Steps, Sound
<1>c2. CASE ~(s.pipe > 0)
  <2> DEFINE n == [s EXCEPT !.eof = TRUE]
  <2>1. Set(id, n)
    BY <1>c2 DEF CallerReads, NearOpen
  <2>2. n \in StreamType
    BY <1>0, Fields DEF Working
  <2>3. Copied(n)
    BY <1>0, <1>c2, <2>2 DEF Sound, Copied, Worked, NearOpen, InPool,
        StreamType, Working, CallerReads, NearOpen
  <2>4. Uploaded(n) /\ Worked(n)
    BY <1>0, <1>c2, <2>2 DEF Sound, Uploaded, Worked, StreamType, Working,
        Undeclared, NoObject, CallerReads, NearOpen
  <2>5. Kept(s, n)
    BY <1>0, <1>c2, <2>2 DEF Sound, Worked, Kept, NearOpen, StreamType,
        Working, CallerReads, NearOpen
  <2> QED
    BY <2>1, <2>2, <2>3, <2>4, <2>5 DEF Steps, Sound
<1> QED
  BY <1>c1, <1>c2 DEF CallerReads, Sound, StreamType

\* The caller adds a chunk to the pipe.
LEMMA CallerWritesSound ==
    ASSUME NEW id \in Ids, Sound(streams[id]), CallerWrites(id) PROVE Steps(id)
<1> DEFINE s == streams[id]
<1>0. s \in StreamType
  BY DEF Sound
<1> DEFINE n == [s EXCEPT !.pipe = s.pipe + 1, !.used = s.used + 1]
<1>1. Set(id, n)
  BY DEF CallerWrites
<1>2. n \in StreamType
  <2>1. s.pipe + 1 \in 0 .. Capacity /\ s.used + 1 \in 0 .. MaxSize
    BY <1>0, BoundsAssumption, CapacityAssumption DEF StreamType, Copied,
        Uploaded, Worked, InPool, Sound, CallerWrites
  <2> QED
    BY <1>0, <2>1, Fields DEF Working
<1>3. Copied(n)
  BY <1>0, <1>2 DEF Sound, Copied, Worked, NearOpen, InPool, StreamType,
      Working, CallerWrites
<1>4. Uploaded(n) /\ Worked(n)
  BY <1>0, <1>2 DEF Sound, Uploaded, Worked, StreamType, Working, Undeclared,
      NoObject, CallerWrites
<1>5. Kept(s, n)
  BY <1>0, <1>2 DEF Sound, Worked, Kept, NearOpen, StreamType, Working,
      CallerWrites
<1> QED
  BY <1>1, <1>2, <1>3, <1>4, <1>5 DEF Steps, Sound

\* Closing the caller's end moves nothing.
LEMMA CallerClosesSound ==
    ASSUME NEW id \in Ids, Sound(streams[id]), CallerCloses(id) PROVE Steps(id)
<1> DEFINE s == streams[id]
<1>0. s \in StreamType
  BY DEF Sound
<1> DEFINE n == [s EXCEPT !.open = FALSE]
<1>1. Set(id, n)
  BY DEF CallerCloses
<1>2. n \in StreamType
  BY <1>0, Fields DEF Working
<1>3. Copied(n)
  BY <1>0, <1>2 DEF Sound, Copied, Worked, NearOpen, InPool, StreamType,
      Working, CallerCloses
<1>4. Uploaded(n) /\ Worked(n)
  BY <1>0, <1>2 DEF Sound, Uploaded, Worked, StreamType, Working, Undeclared,
      NoObject, CallerCloses
<1>5. Kept(s, n)
  BY <1>0, <1>2 DEF Sound, Worked, Kept, NearOpen, StreamType, Working,
      CallerCloses
<1> QED
  BY <1>1, <1>2, <1>3, <1>4, <1>5 DEF Steps, Sound

-----------------------------------------------------------------------------
(* Calls, references and streams together. *)

\* A call under way holds a reference, and with references left the runtime
\* lives: only then may workers be dropped or be past.
Referenced ==
    /\ \A t \in Threads : t \in holders <=> call[t].pc \notin {"idle", "dropping"}
    /\ runtime \in {"dropping", "gone"} => holders = {}
    /\ \A t \in Threads : call[t].pc = "dropping" => runtime \in {"dropping", "gone"}
    /\ \A id \in Ids :
          /\ streams[id].worker = "dropped" => runtime \in {"dropping", "gone"}
          /\ runtime = "gone" => ~NearOpen(streams[id])

\* A finalizer waits for a stream that was opened, that it took out of the
\* registry, that gave no answer yet, and that nobody else waits for.
Claimed ==
    /\ \A id \in Ids : id <= opened <=> streams[id].worker # "none"
    /\ \A t \in Threads :
          /\ call[t].pc \in {"finalizing", "waiting"} => call[t].id \in 1 .. opened
          /\ call[t].pc = "waiting"
                => /\ ~streams[call[t].id].entry
                   /\ streams[call[t].id].outcome = "none"
    /\ \A t, u \in Threads :
          (call[t].pc = "waiting" /\ call[u].pc = "waiting" /\ call[t].id = call[u].id)
              => t = u

IInv ==
    /\ TypeOK
    /\ \A id \in Ids : Sound(streams[id])
    /\ Referenced
    /\ Claimed

\* The range's bound of TypeOK is part of Sound.
LEMMA RangeBounded ==
    ASSUME NEW s, Sound(s), s.kind = "range" PROVE s.moved <= s.expected
  BY DEF Sound, Copied

\* A stream that was not opened.
LEMMA FreshSound ==
    Fresh \in StreamType /\ Sound(Fresh) /\ ~NearOpen(Fresh) /\ Fresh.worker = "none"
<1>1. Fresh \in StreamType
  BY BoundsAssumption, CapacityAssumption
     DEF Fresh, StreamType, Kinds, Working, NoObject, Undeclared
<1> QED
  BY <1>1 DEF Sound, Copied, Uploaded, Worked, Fresh, NearOpen, InPool, Working

\* The invariant holds before the first call.
LEMMA InitInv == Init => IInv
<1> SUFFICES ASSUME Init PROVE IInv
  OBVIOUS
<1>3. TypeOK
  BY FreshSound, BoundsAssumption
     DEF Init, TypeOK, Idle, CallType, Fresh, Ids, Kinds
<1>4. Referenced /\ Claimed
  BY FreshSound, BoundsAssumption DEF Init, Referenced, Claimed, Idle, Ids
<1> QED
  BY FreshSound, <1>3, <1>4 DEF Init, IInv

\* A step of one stream keeps the whole invariant.
LEMMA StepsInv ==
    ASSUME IInv, NEW id \in Ids, Steps(id),
           UNCHANGED <<runtime, holders, call, providers, created, opened>>
    PROVE  IInv'
<1>1. PICK n : Set(id, n) /\ Sound(n) /\ Kept(streams[id], n)
  BY DEF Steps
<1>2. streams \in [Ids -> StreamType] /\ streams' = [streams EXCEPT ![id] = n]
  BY <1>1 DEF IInv, TypeOK, Set
<1>3. streams'[id] = n /\ \A k \in Ids : k # id => streams'[k] = streams[k]
  BY <1>2
<1>4. \A k \in Ids : Sound(streams'[k]) /\ Kept(streams[k], streams'[k])
  BY <1>1, <1>3 DEF IInv, Kept
<1>5. TypeOK'
  <2>1. streams' \in [Ids -> StreamType]
    BY <1>1, <1>2 DEF Sound
  <2> QED
    BY <2>1, <1>4, RangeBounded DEF IInv, TypeOK
<1>6. Referenced'
  BY <1>4 DEF IInv, Referenced, Kept
<1>7. Claimed'
  <2>1. \A k \in 1 .. opened : k \in Ids
    BY BoundsAssumption DEF IInv, TypeOK, Ids
  <2> QED
    BY <1>4, <2>1 DEF IInv, Claimed, Kept
<1> QED
  BY <1>4, <1>5, <1>6, <1>7 DEF IInv

\* A call that starts: it takes a reference and touches no stream.
LEMMA EnterInv ==
    ASSUME IInv, NEW t \in Threads, NEW c \in CallType, Enter(t, c),
           c.pc \in {"opening", "finalizing", "leaving"},
           c.pc = "finalizing" => c.id \in 1 .. opened,
           runtime' \in {"registered", "removed"},
           created' \in 0 .. MaxProviders, providers' \subseteq 1 .. created',
           UNCHANGED <<opened, streams>>
    PROVE  IInv'
<1>1. /\ call' = [call EXCEPT ![t] = c] /\ call[t].pc = "idle"
      /\ holders' = holders \cup {t} /\ call \in [Threads -> CallType]
  BY DEF Enter, Idle, IInv, TypeOK
<1>2. /\ call'[t] = c /\ \A u \in Threads : u # t => call'[u] = call[u]
      /\ call' \in [Threads -> CallType]
  BY <1>1
<1>3. TypeOK'
  BY <1>1, <1>2 DEF IInv, TypeOK
<1>4. Referenced'
  BY <1>1, <1>2 DEF IInv, Referenced, Enter
<1>5. Claimed'
  BY <1>2 DEF IInv, Claimed
<1> QED
  BY <1>3, <1>4, <1>5 DEF IInv

\* A call that is about to return: it may have opened or answered a stream
\* that nobody waits for.
LEMMA LeaveInv ==
    ASSUME IInv, NEW t \in Threads,
           call[t].pc \in {"opening", "finalizing", "waiting"},
           call' = [call EXCEPT ![t] = Leaving],
           UNCHANGED <<runtime, holders, providers, created>>,
           opened' \in opened .. MaxStreams,
           streams' \in [Ids -> StreamType],
           \A k \in Ids : /\ Sound(streams'[k])
                          /\ k <= opened' <=> streams'[k].worker # "none"
                          /\ streams'[k].worker = "dropped"
                                => streams[k].worker = "dropped",
           \A u \in Threads \ {t} : call[u].pc = "waiting"
                => /\ ~streams'[call[u].id].entry
                   /\ streams'[call[u].id].outcome = "none"
    PROVE  IInv'
<1>1. /\ call'[t] = Leaving /\ \A u \in Threads : u # t => call'[u] = call[u]
      /\ Leaving.pc = "leaving" /\ Leaving \in CallType
      /\ call \in [Threads -> CallType] /\ call' \in [Threads -> CallType]
  BY BoundsAssumption DEF IInv, TypeOK, Leaving, Idle, CallType, Kinds
<1>2. opened \in Nat /\ opened' \in 0 .. MaxStreams /\ opened <= opened'
  BY BoundsAssumption DEF IInv, TypeOK
<1>3. TypeOK'
  BY <1>1, <1>2, RangeBounded DEF IInv, TypeOK
<1>4. t \in holders
  BY DEF IInv, Referenced
<1>5. Referenced'
  BY <1>1, <1>4 DEF IInv, Referenced, TypeOK
<1>6. Claimed'
  BY <1>1, <1>2 DEF IInv, Claimed
<1> QED
  BY <1>3, <1>5, <1>6 DEF IInv

\* A call returns its reference, or fails before it touched a stream.
LEMMA PlainLeaveInv ==
    ASSUME IInv, NEW t \in Threads,
           call[t].pc \in {"opening", "finalizing"},
           call' = [call EXCEPT ![t] = Leaving],
           UNCHANGED <<runtime, holders, providers, created, opened, streams>>
    PROVE  IInv'
<1>1. opened' \in opened .. MaxStreams /\ streams' \in [Ids -> StreamType]
  BY BoundsAssumption DEF IInv, TypeOK
<1> QED
  BY <1>1, LeaveInv DEF IInv, Claimed

\* Starting a call keeps the invariant, shutdown included.
LEMMA StartsInv ==
    ASSUME IInv, NEW t \in Threads, Starts(t) PROVE IInv'
<1>1. Leaving \in CallType /\ Leaving.pc = "leaving"
  BY BoundsAssumption DEF Leaving, Idle, CallType, Kinds
<1>2. CASE Control(t)
  BY <1>1, <1>2, EnterInv DEF Control, Enter, IInv, TypeOK
<1>3. CASE CreateProvider(t)
  <2>1. created' \in 0 .. MaxProviders /\ providers' \subseteq 1 .. created'
    BY <1>3, BoundsAssumption DEF CreateProvider, IInv, TypeOK
  <2> QED
    BY <1>1, <1>3, <2>1, EnterInv DEF CreateProvider, Enter
<1>4. CASE DestroyProvider(t)
  BY <1>1, <1>4, EnterInv DEF DestroyProvider, Enter, IInv, TypeOK
<1>5. CASE Shutdown(t)
  BY <1>1, <1>5, EnterInv DEF Shutdown, Enter, IInv, TypeOK
<1>6. ASSUME NEW kind \in Kinds, BeginOpen(t, kind) PROVE IInv'
  <2>1. [pc |-> "opening", kind |-> kind, id |-> 0] \in CallType
    BY BoundsAssumption DEF CallType
  <2> QED
    BY <1>6, <2>1, EnterInv DEF BeginOpen, Enter, IInv, TypeOK
<1>7. ASSUME NEW kind \in {"get", "put"}, NEW id \in Ids, BeginFinalize(t, kind, id)
      PROVE  IInv'
  <2>1. /\ [pc |-> "finalizing", kind |-> kind, id |-> id] \in CallType
        /\ id \in 1 .. opened
    BY <1>7, BoundsAssumption DEF CallType, Kinds, Ids, BeginFinalize, IInv, TypeOK
  <2> QED
    BY <1>7, <2>1, EnterInv DEF BeginFinalize, Enter, IInv, TypeOK
<1> QED
  BY <1>2, <1>3, <1>4, <1>5, <1>6, <1>7 DEF Starts

\* A stream opens with the worker that copies or takes for it.
LEMMA OpenedInv ==
    ASSUME IInv, NEW t \in Threads, NEW s, Sound(s), Opened(t, s),
           s.worker \in {"copy", "take"}
    PROVE  IInv'
<1> DEFINE new == opened + 1
<1>1. new \in Ids /\ new \in opened .. MaxStreams /\ opened' = new
  BY BoundsAssumption DEF Opened, IInv, TypeOK, Ids
<1>2. /\ streams' = [streams EXCEPT ![new] = s]
      /\ streams \in [Ids -> StreamType] /\ streams' \in [Ids -> StreamType]
  BY <1>1 DEF Opened, Set, IInv, TypeOK, Sound
<1>3. streams'[new] = s /\ \A k \in Ids : k # new => streams'[k] = streams[k]
  BY <1>1, <1>2
<1>4. \A k \in Ids : /\ Sound(streams'[k])
                     /\ k <= opened' <=> streams'[k].worker # "none"
                     /\ streams'[k].worker = "dropped"
                           => streams[k].worker = "dropped"
  BY <1>1, <1>3, BoundsAssumption DEF IInv, Claimed, TypeOK, Ids
<1>5. \A u \in Threads \ {t} : call[u].pc = "waiting"
           => /\ ~streams'[call[u].id].entry
              /\ streams'[call[u].id].outcome = "none"
  BY <1>1, <1>3, BoundsAssumption DEF IInv, Claimed, TypeOK, Ids
<1> QED
  BY <1>1, <1>2, <1>4, <1>5, LeaveInv DEF Opened

\* Opening a read starts a worker that has moved nothing.
LEMMA OpenReadInv ==
    ASSUME IInv, NEW t \in Threads, OpenRead(t) PROVE IInv'
<1>1. PICK size \in 0 .. MaxSize, fails \in BOOLEAN, window \in 0 .. MaxSize :
        /\ (window > 0) <=> (call[t].kind = "range")
        /\ Opened(t, [Fresh EXCEPT !.kind = call[t].kind, !.size = size,
                                   !.fails = fails, !.expected = window,
                                   !.entry = TRUE, !.worker = "copy",
                                   !.open = TRUE])
  BY DEF OpenRead
<1> DEFINE s == [Fresh EXCEPT !.kind = call[t].kind, !.size = size,
                             !.fails = fails, !.expected = window,
                             !.entry = TRUE, !.worker = "copy", !.open = TRUE]
<1>2. call[t].kind \in {"get", "range"} /\ Fresh \in StreamType
  BY FreshSound DEF OpenRead
<1>3. s \in StreamType
  <2> DEFINE a == [Fresh EXCEPT !.kind = call[t].kind]
             b == [[a EXCEPT !.size = size] EXCEPT !.fails = fails]
             c == [[b EXCEPT !.expected = window] EXCEPT !.entry = TRUE]
  <2>1. a \in StreamType
    BY <1>2, Fields DEF Kinds
  <2>2. b \in StreamType
    BY <2>1, Fields
  <2>3. c \in StreamType
    <3>1. window \in Undeclared .. MaxSize
      BY BoundsAssumption DEF Undeclared
    <3>2. [b EXCEPT !.expected = window] \in StreamType
      BY <2>2, <3>1, Fields
    <3> QED
      BY <3>2, Fields
  <2> QED
    BY <2>3, Fields DEF Working
<1>4. /\ s.kind = call[t].kind /\ s.size = size /\ s.expected = window
      /\ s.entry = TRUE /\ s.worker = "copy" /\ s.open = TRUE
      /\ s.moved = 0 /\ s.pending = FALSE /\ s.broken = FALSE /\ s.pipe = 0
      /\ s.used = 0 /\ s.eof = FALSE /\ s.result = "none"
      /\ s.outcome = "none" /\ s.stored = NoObject
  BY DEF Fresh
<1> HIDE DEF s
<1>5. Copied(s)
  BY <1>1, <1>2, <1>4 DEF Copied, InPool
<1>6. Uploaded(s) /\ Worked(s)
  BY <1>2, <1>4 DEF Uploaded, Worked
<1>7. Opened(t, s)
  BY <1>1 DEF s
<1> QED
  BY <1>3, <1>4, <1>5, <1>6, <1>7, OpenedInv DEF Sound

\* Opening a put starts a worker that has taken nothing.
LEMMA OpenPutInv ==
    ASSUME IInv, NEW t \in Threads, OpenPut(t) PROVE IInv'
<1>1. PICK length \in Undeclared .. MaxSize :
          Opened(t, [Fresh EXCEPT !.kind = "put", !.expected = length,
                                  !.entry = TRUE, !.worker = "take",
                                  !.open = TRUE])
  BY DEF OpenPut
<1> DEFINE s == [Fresh EXCEPT !.kind = "put", !.expected = length,
                             !.entry = TRUE, !.worker = "take", !.open = TRUE]
<1>2. Fresh \in StreamType
  BY FreshSound
<1>3. s \in StreamType
  BY <1>2, Fields DEF Kinds, Working
<1>4. /\ s.kind = "put" /\ s.entry = TRUE /\ s.worker = "take" /\ s.open = TRUE
      /\ s.moved = 0 /\ s.pending = FALSE /\ s.pipe = 0 /\ s.used = 0
      /\ s.result = "none" /\ s.outcome = "none" /\ s.stored = NoObject
  BY DEF Fresh
<1> HIDE DEF s
<1>5. Copied(s) /\ Uploaded(s) /\ Worked(s)
  BY <1>4 DEF Copied, Uploaded, Worked, NoObject
<1>6. Opened(t, s)
  BY <1>1 DEF s
<1> QED
  BY <1>3, <1>4, <1>5, <1>6, OpenedInv DEF Sound

\* Finalizing changes the entry and the outcome of a stream and nothing else.
LEMMA FinalizedSound ==
    ASSUME NEW s, Sound(s), NEW n \in StreamType,
           n.kind = s.kind, n.size = s.size, n.expected = s.expected,
           n.worker = s.worker, n.moved = s.moved, n.pending = s.pending,
           n.broken = s.broken, n.pipe = s.pipe, n.open = s.open,
           n.used = s.used, n.eof = s.eof, n.result = s.result,
           n.stored = s.stored, ~n.entry, n.outcome # "lost",
           n.outcome \in {"ok", "err"} => s.result = n.outcome
    PROVE  Sound(n) /\ (NearOpen(n) <=> NearOpen(s))
<1>1. s \in StreamType /\ Copied(s) /\ Uploaded(s) /\ Worked(s)
  BY DEF Sound
<1>2. NearOpen(n) <=> NearOpen(s)
  BY DEF NearOpen
<1>3. Copied(n)
  BY <1>1, <1>2 DEF Copied, InPool
<1>4. Uploaded(n) /\ Worked(n)
  BY <1>1 DEF Uploaded, Worked
<1> QED
  BY <1>2, <1>3, <1>4 DEF Sound

\* A finalizer takes the entry: its own stream's, whose answer it waits for
\* from now on, or that of a stream of the other kind, which it spoils.
LEMMA TakeInv ==
    ASSUME IInv, NEW t \in Threads, Take(t) PROVE IInv'
<1> DEFINE id == call[t].id
           s  == streams[id]
           n  == [s EXCEPT !.entry = FALSE]
<1>1. /\ id \in 1 .. opened /\ id \in Ids /\ call[t].pc = "finalizing"
      /\ streams \in [Ids -> StreamType] /\ s \in StreamType /\ Sound(s)
  BY BoundsAssumption DEF Take, IInv, Claimed, TypeOK, Ids
<1>2. CASE /\ call' = [call EXCEPT ![t] = Leaving] /\ UNCHANGED streams
  BY <1>1, <1>2, PlainLeaveInv DEF Take
<1>3. CASE /\ s.entry /\ call' = [call EXCEPT ![t].pc = "waiting"]
           /\ Set(id, Taken(s))
  <2>1. n \in StreamType
    BY <1>1, Fields
  <2>fields. /\ n.kind = s.kind /\ n.size = s.size /\ n.expected = s.expected
        /\ n.worker = s.worker /\ n.moved = s.moved /\ n.pending = s.pending
        /\ n.broken = s.broken /\ n.pipe = s.pipe /\ n.open = s.open
        /\ n.used = s.used /\ n.eof = s.eof /\ n.result = s.result
        /\ n.stored = s.stored /\ n.entry = FALSE /\ n.outcome = s.outcome
    BY <1>1 DEF StreamType
  <2>unanswered. s.outcome = "none"
    BY <1>1, <1>3 DEF Sound, Worked
  <2>3. streams' = [streams EXCEPT ![id] = n]
    BY <1>3 DEF Set, Taken
  <2> HIDE DEF n
  <2>2. Sound(n) /\ (NearOpen(n) <=> NearOpen(s))
    BY <1>1, <2>1, <2>fields, <2>unanswered, FinalizedSound
  <2>4. streams'[id] = n /\ \A k \in Ids : k # id => streams'[k] = streams[k]
    BY <1>1, <2>3
  <2>5. /\ call'[t].pc = "waiting" /\ call'[t].id = id
        /\ \A u \in Threads : u # t => call'[u] = call[u]
        /\ call' \in [Threads -> CallType]
    BY <1>3 DEF IInv, TypeOK, CallType
  <2>6. \A k \in Ids :
            /\ Sound(streams'[k])
            /\ streams'[k].worker = streams[k].worker
            /\ NearOpen(streams'[k]) <=> NearOpen(streams[k])
            /\ streams'[k].outcome = streams[k].outcome
            /\ streams'[k].entry => streams[k].entry
    <3>1. \A k \in Ids : Sound(streams[k])
      BY DEF IInv
    <3> QED
      BY <2>2, <2>4, <2>fields, <3>1
  <2>7. TypeOK'
    <3>1. streams' \in [Ids -> StreamType]
      BY <1>1, <2>1, <2>3
    <3> QED
      BY <2>5, <2>6, <3>1, RangeBounded DEF Take, IInv, TypeOK
  <2>8. Referenced'
    <3>1. UNCHANGED <<runtime, holders>> /\ t \in holders
      BY <1>1 DEF Take, IInv, Referenced
    <3> QED
      BY <1>1, <2>5, <2>6, <3>1 DEF IInv, Referenced
  <2>9. Claimed'
    <3>0. opened' = opened
      BY DEF Take
    <3>1. \A u \in Threads : (u # t /\ call[u].pc = "waiting") => call[u].id # id
      BY <1>3 DEF IInv, Claimed
    <3>2. \A u \in Threads :
             call[u].pc \in {"finalizing", "waiting"} => call[u].id \in Ids
      BY BoundsAssumption DEF IInv, Claimed, TypeOK, Ids
    <3>3. \A k \in Ids : k <= opened' <=> streams'[k].worker # "none"
      BY <2>6, <3>0 DEF IInv, Claimed
    <3>4. \A u \in Threads :
             /\ call'[u].pc \in {"finalizing", "waiting"} => call'[u].id \in 1 .. opened'
             /\ call'[u].pc = "waiting"
                   => /\ ~streams'[call'[u].id].entry
                      /\ streams'[call'[u].id].outcome = "none"
      <4> TAKE u \in Threads
      <4>1. CASE u = t
        BY <1>1, <2>4, <2>5, <2>fields, <2>unanswered, <3>0, <4>1
      <4>2. CASE u # t
        BY <2>5, <2>6, <3>0, <3>2, <4>2 DEF IInv, Claimed
      <4> QED
        BY <4>1, <4>2
    <3>5. \A u, v \in Threads :
             (call'[u].pc = "waiting" /\ call'[v].pc = "waiting"
                /\ call'[u].id = call'[v].id) => u = v
      BY <2>5, <3>1 DEF IInv, Claimed
    <3> QED
      BY <3>3, <3>4, <3>5 DEF Claimed
  <2> QED
    BY <2>6, <2>7, <2>8, <2>9 DEF IInv
<1>4. CASE /\ s.entry /\ call' = [call EXCEPT ![t] = Leaving]
           /\ Set(id, [Taken(s) EXCEPT !.outcome = "misused"])
  <2> DEFINE m == [s EXCEPT !.entry = FALSE, !.outcome = "misused"]
  <2>1. m \in StreamType
    BY <1>1, Fields
  <2>fields. /\ m.kind = s.kind /\ m.size = s.size /\ m.expected = s.expected
        /\ m.worker = s.worker /\ m.moved = s.moved /\ m.pending = s.pending
        /\ m.broken = s.broken /\ m.pipe = s.pipe /\ m.open = s.open
        /\ m.used = s.used /\ m.eof = s.eof /\ m.result = s.result
        /\ m.stored = s.stored /\ m.entry = FALSE /\ m.outcome = "misused"
    BY <1>1 DEF StreamType
  <2>3. streams' = [streams EXCEPT ![id] = m]
    BY <1>4 DEF Set, Taken
  <2> HIDE DEF m
  <2>2. Sound(m)
    BY <1>1, <2>1, <2>fields, FinalizedSound
  <2>4. streams'[id] = m /\ \A k \in Ids : k # id => streams'[k] = streams[k]
    BY <1>1, <2>3
  <2>5. streams' \in [Ids -> StreamType] /\ opened' \in opened .. MaxStreams
    BY <1>1, <2>1, <2>3, BoundsAssumption DEF Take, IInv, TypeOK
  <2>6. \A k \in Ids : /\ Sound(streams'[k])
                       /\ k <= opened' <=> streams'[k].worker # "none"
                       /\ streams'[k].worker = "dropped"
                             => streams[k].worker = "dropped"
    BY <2>2, <2>4, <2>fields DEF Take, IInv, Claimed
  <2>7. \A u \in Threads \ {t} : call[u].pc = "waiting"
           => /\ ~streams'[call[u].id].entry
              /\ streams'[call[u].id].outcome = "none"
    BY <1>4, <2>4, BoundsAssumption DEF IInv, Claimed, TypeOK, Ids
  <2> QED
    BY <1>1, <1>4, <2>5, <2>6, <2>7, LeaveInv DEF Take
<1> QED
  BY <1>2, <1>3, <1>4 DEF Take

\* A finalizer that waits holds a reference, so its worker was not dropped:
\* it ended, and sent its result.
LEMMA AwaitInv ==
    ASSUME IInv, NEW t \in Threads, Await(t) PROVE IInv'
<1> DEFINE id == call[t].id
           s  == streams[id]
           n  == [s EXCEPT !.outcome = s.result]
<1>1. /\ id \in 1 .. opened /\ id \in Ids /\ call[t].pc = "waiting"
      /\ streams \in [Ids -> StreamType] /\ s \in StreamType /\ Sound(s)
      /\ ~s.entry
  BY BoundsAssumption DEF Await, IInv, Claimed, TypeOK, Ids
<1>2. s.worker = "done"
  <2>1. s.worker # "none"
    BY <1>1 DEF IInv, Claimed, TypeOK
  <2>2. s.worker # "dropped"
    BY <1>1 DEF IInv, Referenced
  <2> QED
    BY <1>1, <2>1, <2>2 DEF Await, StreamType
<1>3. s.result \in {"ok", "err"}
  BY <1>1, <1>2 DEF Sound, Worked, StreamType
<1>4. n \in StreamType
  BY <1>1, <1>3, Fields
<1>fields. /\ n.kind = s.kind /\ n.size = s.size /\ n.expected = s.expected
        /\ n.worker = s.worker /\ n.moved = s.moved /\ n.pending = s.pending
        /\ n.broken = s.broken /\ n.pipe = s.pipe /\ n.open = s.open
        /\ n.used = s.used /\ n.eof = s.eof /\ n.result = s.result
        /\ n.stored = s.stored /\ n.entry = s.entry /\ n.outcome = s.result
  BY <1>1 DEF StreamType
<1>6. streams' = [streams EXCEPT ![id] = n]
  BY <1>3 DEF Await, Set
<1> HIDE DEF n
<1>5. Sound(n)
  BY <1>1, <1>3, <1>4, <1>fields, FinalizedSound
<1>7. streams'[id] = n /\ \A k \in Ids : k # id => streams'[k] = streams[k]
  BY <1>1, <1>6
<1>8. streams' \in [Ids -> StreamType] /\ opened' \in opened .. MaxStreams
  BY <1>1, <1>4, <1>6, BoundsAssumption DEF Await, IInv, TypeOK
<1>9. \A k \in Ids : /\ Sound(streams'[k])
                     /\ k <= opened' <=> streams'[k].worker # "none"
                     /\ streams'[k].worker = "dropped"
                           => streams[k].worker = "dropped"
  BY <1>5, <1>7, <1>fields DEF Await, IInv, Claimed
<1>10. \A u \in Threads \ {t} : call[u].pc = "waiting"
           => /\ ~streams'[call[u].id].entry
              /\ streams'[call[u].id].outcome = "none"
  BY <1>1, <1>7, BoundsAssumption DEF IInv, Claimed, TypeOK, Ids
<1> QED
  BY <1>1, <1>8, <1>9, <1>10, LeaveInv DEF Await

\* A call returns its reference; the last one starts the drop.
LEMMA ReleaseInv ==
    ASSUME IInv, NEW t \in Threads, Release(t) PROVE IInv'
<1>1. /\ call \in [Threads -> CallType] /\ call[t] \in CallType
      /\ Idle \in CallType /\ Idle.pc = "idle" /\ holders' = holders \ {t}
  BY BoundsAssumption DEF Release, IInv, TypeOK, Idle, CallType
<1>2. PICK c \in CallType :
         call' = [call EXCEPT ![t] = c] /\ c.pc \in {"idle", "dropping"}
  <2>1. /\ [call[t] EXCEPT !.pc = "dropping"] \in CallType
        /\ [call[t] EXCEPT !.pc = "dropping"].pc = "dropping"
    BY <1>1 DEF CallType
  <2>2. \/ call' = [call EXCEPT ![t] = Idle]
        \/ call' = [call EXCEPT ![t] = [call[t] EXCEPT !.pc = "dropping"]]
    BY DEF Release
  <2> QED
    BY <1>1, <2>1, <2>2
<1>3. /\ call'[t] = c /\ \A u \in Threads : u # t => call'[u] = call[u]
      /\ call' \in [Threads -> CallType] /\ c.pc \in {"idle", "dropping"}
  BY <1>1, <1>2
<1>4. t \in holders
  BY DEF Release, IInv, Referenced
<1>5. /\ runtime \in {"registered", "removed"}
      /\ \/ runtime' = runtime /\ c.pc = "idle"
         \/ runtime' = "dropping" /\ holders = {t}
  <2>1. runtime \in {"registered", "removed"}
    BY <1>4 DEF IInv, Referenced, TypeOK
  <2>2. CASE LastReference(t)
    BY <2>1, <2>2 DEF Release, LastReference
  <2>3. CASE ~LastReference(t)
    BY <1>1, <1>3, <2>1, <2>3 DEF Release
  <2> QED
    BY <2>2, <2>3
<1>6. UNCHANGED <<providers, created, opened, streams>>
  BY DEF Release
<1>7. TypeOK'
  BY <1>1, <1>3, <1>5, <1>6 DEF IInv, TypeOK
<1>8. Referenced'
  <2>1. \A u \in Threads : u \in holders' <=> call'[u].pc \notin {"idle", "dropping"}
    BY <1>1, <1>3 DEF IInv, Referenced
  <2>2. \A u \in Threads : call'[u].pc = "dropping" => runtime' \in {"dropping", "gone"}
    BY <1>3, <1>5 DEF IInv, Referenced
  <2>3. runtime' \in {"dropping", "gone"} => holders' = {}
    BY <1>1, <1>5
  <2> QED
    BY <1>5, <1>6, <2>1, <2>2, <2>3 DEF IInv, Referenced
<1>9. Claimed'
  <2>1. \A u \in Threads : call'[u].pc \in {"finalizing", "waiting"}
                             => u # t /\ call'[u] = call[u]
    BY <1>3
  <2> QED
    BY <1>6, <2>1 DEF IInv, Claimed
<1> QED
  BY <1>6, <1>7, <1>8, <1>9 DEF IInv

\* The runtime is gone only once every worker and the pool are quiet.
LEMMA FinishDropInv ==
    ASSUME IInv, NEW t \in Threads, FinishDrop(t) PROVE IInv'
<1>1. /\ call'[t] = Idle /\ \A u \in Threads : u # t => call'[u] = call[u]
      /\ call' \in [Threads -> CallType] /\ Idle.pc = "idle"
  BY BoundsAssumption DEF FinishDrop, IInv, TypeOK, Idle, CallType
<1>2. holders = {}
  BY DEF FinishDrop, IInv, Referenced
<1>3. TypeOK'
  BY <1>1 DEF FinishDrop, IInv, TypeOK
<1>4. Referenced'
  BY <1>1, <1>2 DEF FinishDrop, IInv, Referenced, Quiet, NearOpen
<1>5. Claimed'
  BY <1>1 DEF FinishDrop, IInv, Claimed
<1> QED
  BY <1>3, <1>4, <1>5 DEF FinishDrop, IInv
\* A worker, the pool, the caller's end or a cancellation takes a step.
LEMMA StreamInv ==
    ASSUME IInv, NEW id \in Ids, Worker(id) \/ Pool(id) \/ Caller(id) \/ Cancel(id),
           UNCHANGED <<runtime, holders, call, providers, created, opened>>
    PROVE  IInv'
<1>1. Sound(streams[id])
  BY DEF IInv
<1>2. Steps(id)
  BY <1>1, CopyChunkSound, CopyMeetsBrokenPipeSound, CopyEndsSound,
     PutRefusedSound, TakeStartsSound, PutSkipsProbeSound,
     PutCommitsSound, PutFailsSound, PoolWritesSound,
     PoolReadsSound, CancelSound, CallerReadsSound,
     CallerWritesSound, CallerClosesSound
  DEF Worker, Pool, Caller
<1> QED
  BY <1>2, StepsInv

\* Every step of a call under way keeps the invariant.
LEMMA ContinuesInv ==
    ASSUME IInv, NEW t \in Threads, Continues(t) PROVE IInv'
<1>1. CASE OpenFails(t)
  BY <1>1, PlainLeaveInv DEF OpenFails
<1> QED
  BY <1>1, OpenReadInv, OpenPutInv, TakeInv, AwaitInv, ReleaseInv, FinishDropInv
  DEF Continues

\* The invariant is inductive.
LEMMA NextInv ==
    ASSUME IInv, [Next]_vars PROVE IInv'
<1>1. CASE UNCHANGED vars
  BY <1>1 DEF vars, IInv, TypeOK, Referenced, Claimed, Ids
<1>2. ASSUME NEW t \in Threads, Starts(t) \/ Continues(t) PROVE IInv'
  BY <1>2, StartsInv, ContinuesInv
<1>3. ASSUME NEW id \in Ids, Worker(id) \/ Pool(id) \/ Caller(id) \/ Cancel(id),
             UNCHANGED <<runtime, holders, call, providers, created, opened>>
      PROVE  IInv'
  BY <1>3, StreamInv
<1> QED
  BY <1>1, <1>2, <1>3 DEF Next

-----------------------------------------------------------------------------
(* What holds for every number of threads, streams and chunks. *)

\* The invariant: the chunks of every stream add up, waiting finalizers hold
\* references, and while there are references no worker is dropped.
THEOREM Invariance == Spec => []IInv
<1>1. Init => IInv
  BY InitInv
<1>2. IInv /\ [Next]_vars => IInv'
  BY NextInv
<1> QED
  BY <1>1, <1>2, PTL DEF Spec

\* The state keeps its types, and a range never moves past its window.
THEOREM TypeCorrect == Spec => []TypeOK
<1>1. IInv => TypeOK
  BY DEF IInv
<1> QED
  BY <1>1, Invariance, PTL

\* A read that reached the end of its pipe and finalized with success is the
\* whole object or the whole window.
THEOREM ReadsWhole == Spec => []ReadIsWhole
<1>1. IInv => ReadIsWhole
  <2> SUFFICES ASSUME IInv, NEW id \in Ids,
                      streams[id].kind # "put", streams[id].eof,
                      streams[id].outcome = "ok"
               PROVE  streams[id].used = IF streams[id].kind = "range"
                                         THEN streams[id].expected
                                         ELSE streams[id].size
    BY DEF ReadIsWhole
  <2> DEFINE s == streams[id]
  <2>1. s \in StreamType /\ Copied(s) /\ Worked(s)
    BY DEF IInv, Sound
  <2>2. s.result = "ok" /\ s.worker = "done"
    BY <2>1 DEF Worked
  <2>3. s.kind \in {"get", "range"}
    BY <2>1, <2>2 DEF Worked, StreamType, Kinds
  <2>4. s.pipe = 0 /\ ~s.broken /\ ~s.pending
    BY <2>1, <2>3 DEF Copied, NearOpen
  <2>5. s.used = s.moved
    BY <2>1, <2>3, <2>4 DEF Copied, InPool, StreamType
  <2> QED
    BY <2>1, <2>2, <2>3, <2>5 DEF Copied
<1> QED
  BY <1>1, Invariance, PTL

\* What a put leaves is its whole declared length, written by its caller.
THEOREM PutsWhole == Spec => []PutIsWhole
<1>1. IInv => PutIsWhole
  <2> SUFFICES ASSUME IInv, NEW id \in Ids
               PROVE  LET s == streams[id]
                      IN  /\ s.stored # NoObject
                                => (s.stored = s.expected /\ s.stored <= s.used)
                          /\ (s.kind = "put" /\ s.outcome = "ok")
                                => s.stored # NoObject
    BY DEF PutIsWhole
  <2>1. Uploaded(streams[id]) /\ Worked(streams[id])
    BY DEF IInv, Sound
  <2> QED
    BY <2>1 DEF Uploaded, Worked
<1> QED
  BY <1>1, Invariance, PTL

\* No finalizer finds its worker gone.
THEOREM AnswersKept == Spec => []NoneLost
<1>1. IInv => NoneLost
  BY DEF IInv, Sound, Worked, NoneLost
<1> QED
  BY <1>1, Invariance, PTL

\* Racing finalizers get one answer at most.
THEOREM OneAnswerEach == Spec => []OneAnswer
<1>1. IInv => OneAnswer
  <2> SUFFICES ASSUME IInv, NEW id \in Ids
               PROVE  Cardinality({t \in Threads :
                                      call[t].pc = "waiting" /\ call[t].id = id})
                        + (IF streams[id].outcome = "none" THEN 0 ELSE 1) <= 1
    BY DEF OneAnswer
  <2> DEFINE W == {t \in Threads : call[t].pc = "waiting" /\ call[t].id = id}
  <2>1. CASE W = {}
    <3>1. Cardinality(W) = 0
      BY <2>1, FS_EmptySet
    <3> QED
      BY <3>1
  <2>2. CASE W # {}
    <3>1. PICK t \in Threads : call[t].pc = "waiting" /\ call[t].id = id
      BY <2>2
    <3>2. W = {t} /\ streams[id].outcome = "none"
      BY <3>1 DEF IInv, Claimed
    <3>3. Cardinality(W) = 1
      BY <3>2, FS_Singleton
    <3> QED
      BY <3>2, <3>3
  <2> QED
    BY <2>1, <2>2
<1> QED
  BY <1>1, Invariance, PTL

\* When the runtime is gone no worker or pool thread holds a descriptor.
THEOREM ClosedWhenGone == Spec => []GoneIsClosed
<1>1. IInv => GoneIsClosed
  BY DEF IInv, Referenced, GoneIsClosed
<1> QED
  BY <1>1, Invariance, PTL
=============================================================================
