# Verification of storageprims

storageprims is a Rust library for object storage: a provider-neutral core
contract (`crates/storageprims-core`), an S3 provider (`storageprims-s3`),
bounded inspection helpers over guarded reads (`storageprims-ops`) and a C ABI
with a streaming data plane (`ffi/storageprims-ffi`). This directory holds TLA+
models of the parts of it where order, failure and boundaries matter, the TLC
configurations that check them, and TLAPS proofs. `PROJECT.json` maps every
definition to the lines it models and lists runs, mutants, hazards, findings
and theorems.

## The system

| part | state | operations | talks to |
|---|---|---|---|
| bounded inspection (`ops/lib.rs`) | per call: a ledger of requests, payload, output and a deadline; the bound selection; the window being read | `preview_bytes`, `preview_bytes_selected`, `head_lines`, `tail_lines`, `mid_lines`, `count_lines` | a guarded provider: observe, head, range; its body reader |
| line framing (`ops/lib.rs`) | none: functions of a window's bytes | parsers, alignment, text validation | called by the line helpers |
| S3 guarded reads (`s3/lib.rs`) | none in the client; the bucket's history of an object | `observe_source`, `bind_guarded_read`, `guarded_head`, `guarded_get`, `guarded_get_range` | an S3 endpoint that other writers use too; `DeclaredLengthRead` around the body |
| S3 writes (`s3/lib.rs`) | none in the client | `put` with preconditions over `AsyncReadBody`, `delete`, `copy`, `relay_copy` | the same endpoint, through the AWS SDK and its retries |
| S3 listing (`s3/lib.rs`) | none in the client; the consumer keeps the token | `list`, `list_delimited`, page validation, root-prefix projection | the same endpoint |
| provider setup (`s3/lib.rs`, `core/config.rs`, `core/uri.rs`) | bucket, root, endpoint, credentials of a provider | `from_uri`, `from_config`, key, prefix and copy resolution, target identity | environment, URIs, the AWS SDK |
| FFI runtime registry (`ffi/runtime.rs`) | handles, provider ids, stream ids, reference counts | init, shutdown, provider create and destroy | every FFI call holds a reference while it runs |
| FFI streams (`ffi/stream.rs`) | per stream: a registry entry, a worker task, an OS pipe, a one-shot result | `get`, `get_range`, `put_begin`, `get_finalize`, `put_finalize` | a provider; the blocking pool; the caller's threads and descriptors |
| FFI error boundary (`ffi/error.rs`, `ffi_support.rs`) | a thread-local last error; output variables; strings handed out | every exported call, `last_error`, `free_string` | the caller |
| core types and errors | none | validation, binding, code mapping | all of the above |

What is hard in it: an object is observed first and read later, while others
replace it; responses have to be proven against what was asked before a byte is
trusted, and a body can still break its promise after bytes were handed out; a
budget and a deadline hold across several requests; lines are framed from
windows cut at arbitrary bytes; a conditional write whose answer is lost may
still be carried out; a listing is read in pages while the bucket changes; the C
ABI has caller threads, worker tasks, a blocking pool and pipes which each end at
their own time, and ids and strings that outlive what they stand for. `hazards`
in `PROJECT.json` lists these one by one with their lines.

## Modules

| module | what it is | code |
|---|---|---|
| `BoundedInspection` | one call of an inspection helper, await by await | `ops/lib.rs` 72-1167 |
| `PreviewPromise` | what a selected preview promises; `BoundedInspection` refines it | DDR-0009 |
| `BoundedInspectionProofs` | its inductive invariants, theorems and refinement | |
| `LineFraming` | how windows become lines, with a reference definition of an object's lines | `ops/lib.rs` 693-1562 |
| `LineFramingProofs` | theorems about the parser, its windows and the object's lines | |
| `GuardedRead` | observation, binding and one guarded read against a server and other writers | `s3/lib.rs` 712-998, 1223-1586 |
| `SelectedRead` | what a guarded read promises; `GuardedRead` refines it | DDR-0008 |
| `GuardedReadProofs` | its inductive invariant, theorems and refinement | |
| `ObjectWrites` | clients that put, delete and copy, the SDK's attempts, the network and the server | `s3/lib.rs` 250-301, 488-619, 1588-1787 |
| `ObjectWritesProofs` | its inductive invariant and theorems | |
| `RootedKeys` | trimming, joining, roots, list prefixes | `s3/lib.rs` 1822-1882, 1990-1997, `core/uri.rs` |
| `ProviderSetup` | building providers and naming objects with them; uses `RootedKeys` | `s3/lib.rs` 100-248, 1044-1200, `config.rs`, `uri.rs` |
| `ProviderSetupProofs` | lemmas about texts and roots, theorems about keys, identities and credentials | |
| `Listing` | a consumer that reads a listing page by page; uses `RootedKeys` | `s3/lib.rs` 326-380, 630-704, 1058-1103, 1789-1988 |
| `ListingProofs` | its inductive invariant and theorems | |
| `FfiStreams` | the runtime's references, streams, workers, pipes and finalizers | `runtime.rs`, `stream.rs`, `control.rs`, the put body of `s3/lib.rs` |
| `FfiStreamsProofs` | its inductive invariant and theorems | |
| `FfiCalls` | the boundary of every call, last errors, registries, strings | `error.rs`, `ffi_support.rs`, `runtime.rs`, `control.rs`, `lib.rs` |
| `FfiCallsProofs` | its inductive invariant and theorems | |
| `MC*` | instances for TLC | |

`BoundedInspection` sees the guarded provider of `GuardedRead` only through its
replies: it lets the reader answer with any receipt and any body that
`GuardedRead` or a faulty provider behind the trait could produce, and
`LineFraming` fills in the content that `BoundedInspection` abstracts to a
number of lines. `FfiStreams` has the put body of the S3 provider inside its put
worker; its read bodies may be short, long or fail, as `GuardedRead` shows they
can. `FfiCalls` covers the calls that block on one operation: it lets that
operation end in any way that the other modules allow.

### BoundedInspection

An action is what happens between two awaits: `Start` validates the budget and
sends the first request; `ObserveReply`, `HeadReply` and `RangeReply` handle one
reply and send the next request or finish; `Read` is one body read and `EofProof`
the read of one byte past it. `ledger` is `InspectionLedger`, `win` the window
being read, `cap` and `got` the bytes the receipt proves and those received. The
provider may leave any request unanswered, fail, or answer with any window,
total and body; writers replace and delete the object, and purge versions, at any
time; the clock may pass the deadline at any time. `found`, the number of
lines a window holds, is any number that is consistent with what was read.

* `WithinBudget`, `NothingPastDeadline`, `Terminates` - the budget and the
  deadline bound what is sent and received, on every path and failure.
* `AnswerIsWhole` - success means that the bytes the answer rests on were read
  and proven.
* `KeepsPromise` - a preview is one atomic read of a prefix of a version that was
  current during the call (refinement of `PreviewPromise`).
* `TypeOK` is not idle here: starts and lengths are computed by subtraction, and
  it says that none is negative.

That no reply mixes versions is not a property here: the helpers pass their bound
selection on and trust a guarded provider to answer from it (`ServedVersion`). Of
the S3 provider `GuardedRead` shows it (`OnlySelected`); what the helpers add, that
the size they plan with and the bytes they answer from belong to one version, is in
`KeepsPromise` and `AnswerIsWhole`.

`NothingPastDeadline` says what the code does, not more: a reply that is already
there when the deadline passes is still used, so a call may succeed after its
deadline.

### LineFraming

A byte is one of seven classes, enough to tell terminators, a two-byte
character and its halves, NUL and malformed bytes apart. The model computes the
answer of a helper from the windows it reads, and the properties compare it with
`ObjectLines`, a definition of the lines of the whole object that does not parse:
`LinesAgree` says which lines the head, the tail and the count are when there is
an answer, `MidIsAligned` that middle lines are the first that start after the
middle byte, when there are any,
`TextIsAnswered` that text is never refused as binary and that an object which
fits its window is answered, `BinaryIsWithheld` what is never returned.
The loop of `parse_lines_up_to` is the function `Rounds`, whose value after each
round is the cursor and the lines pushed so far, so that its invariants can be
stated; `InputsAssumption` is what `validate_budget` lets through.

### GuardedRead

`history` is what writers did to one key, with versioning on or off and strong
or weak tags; `Observe` takes the receipt of the current object and binds a
version or a validator; `Respond` is a success of the server, honest or not, with
the client's whole validation; `Reject` an error status and its mapping; `Yield`
and `Finish` are `DeclaredLengthRead`. A server may ignore the selector, the
range or both, drop any header and break off or pad the body. What it does not
do is lie: headers that are there describe the object and the window they come
with. Nothing in the protocol could detect that.

* `OnlySelected` - no byte of another version is handed out, even by a read that
  fails later.
* `ReceiptIsTrue` - the total in a receipt is the object's.
* `ConflictIsReal`, `MissIsReal` - the errors a caller acts upon are true. `seen` and
  `bound` keep what was written, and which version was current, at binding: a conflict
  means that the key was written or deleted since, or that very version purged.
* `KeepsPromise` - refinement of `SelectedRead`, byte by byte: an end without
  error is the end of the window. A whole-object read whose response has no
  Content-Length is excepted: it cannot notice truncation.

### ObjectWrites

A client makes one call at a time: `Begin` chooses it and what it rests on (the
token a caller matches, or the object a relay reads), `Send` puts the request on
the wire, `Receive` maps the reply, and `GiveUp` is a failure in transport. The
server may carry out a request, or deny it, at any moment while it is on the
wire, so also long after the sender gave up; its reply counts only if the same
attempt still waits. `Attempts` is what the SDK's retries come to: a put's or a
relay's body is a stream that cannot be cloned, so it is sent once, while deletes
and native copies are sent again after transient errors and lost answers.
The body of a put or of a relay may end whole, break off or end early (`EndsOf`).
What then reaches the server is `Framing`: with a declared length a body that ends
short of it ends with an error, and the server takes nothing (`Complete`); a relay
whose get told no length declares none, and an early end is the end. An object is the
set of clients whose updates it carries, which is what "lost update" speaks of, and
whether it is whole, torn (a part of one of known length) or short (of one whose
length was never told).

* `PutAnswerIsTrue` - a put takes effect at most once; reported done, it did, and
  refused, it did not and never will; `already_exists` and `token_mismatch` had a
  reason. An unknown outcome is reported as `unavailable` when no answer came, and as
  `other` when a 500 came, which may follow the effect.
* `NoLostUpdate` - among writers with preconditions an acknowledged update
  survives until somebody writes without one.
* `CopyIsOneVersion` - native or relayed, attempted once or twice, a copy that
  succeeded stored one version of its source that was current meanwhile. A relay
  whose get brought no Content-Length is excepted: it may store the beginning.
* `NoTornObject` - no put or copy, failed or not, leaves a part of an object of known
  length.
* `DeleteIsSeen` - a delete that succeeded left the key empty at some moment.

### RootedKeys and ProviderSetup

`RootedKeys` has the text functions that keys pass on their way to the bucket and
back; a text is a sequence of characters. `ProviderSetup` builds up to two
providers (`Setup` is `from_uri` or `from_config`, which parse the URI's text, and
choose bucket, root, region, endpoint and credentials) and then resolves one argument
with both (`Locate`: as object key, list prefix and copy location). A copy takes an
argument that begins with `s3://` for a URI and any other for a key, as
`resolve_copy_location` does; an object call takes both for keys.

* `KeysAgree` - the ways of naming agree: a key lies strictly below the root and is the
  same for object calls and copies, unless it begins with `s3://`; the URIs a relayed
  copy reports lead every provider back to the same objects; what a caller wrote at a
  key is selected by that key's prefixes; a listed path leads back to its object.
* `SameIdentitySameTarget` - the identity is one text (`Named`, bar, bucket, bar,
  root), and roots may hold bars too: still two providers with one identity have the
  same bucket and endpoint and resolve alike, so that a receipt of one names the same
  object to the other. An endpoint's user part is redacted and does not count
  (`Sanitized`). Endpoints that hold a bar are excepted: with them it fails
  (finding 4). `BucketAssumption` is S3's rule for bucket names.
* `AsAsked` - no source of a root is dropped for another; both halves of explicit
  credentials are among the values passed, or the named variables that are set; and
  the SDK's chain is used only when it, or a profile of it, was asked for. In which
  order that chain looks (environment variables come before a profile's file) is the
  SDK's, and not modelled.

`SelectionStaysOnTarget` fails (finding 4): the identity leaves the region out, which
without an endpoint decides the AWS partition, and so which bucket a name means.

Paths that begin with a slash are excepted from the way back. An object whose
key holds two slashes after the root (`r//x`, written by some other tool) is
listed as `/x`, and `resolve_key` trims that to `x`, so `get` reads `r/x`. No
document promises the way back for such keys, hence a note and no finding.

### Listing

The consumer starts a request of `Requests` (`Start`), reads the answer
(`Receive`) and, while a page is truncated, replays the request with the page's
token (`Continue`). An honest server returns the rows after the token in order,
as many as it likes up to the page size (`Serve`), or an error; `Change` lets
objects come and go meanwhile. A faulty server once returns any page of `Faults`
(`Misbehave`). `Result` is the provider's: `GroupedResult` validates the whole
page, `PlainResult` holds only the root against it and skips rows without a key.

* `PageIsConfined`, `PageIsWhole` - what an accepted page says
  is true of the answer, whatever that was.
* `HonestIsAccepted` - validation refuses no honest page.
* `ListedOnce` - over all pages nothing is listed twice, and what was there all
  along is listed.

A loop that follows a plain listing's tokens has no liveness property: that it
ends rests on the server (every page brings a row, and none twice, is what
`ListedOnce` gives), since nothing in the code bounds the number of pages.

### FfiStreams

`runtime` and `holders` are the registry entry and the `Arc` count of one
handle, one thread per reference; `Release` of the last reference drops the Tokio
runtime on that thread, and `FinishDrop` waits for tasks and pool operations.
A stream record holds its registry entry, worker, pipe and the one-shot result,
with ghosts for what the caller did (`used`, `eof`, `open`), what a finalizer
returned (`outcome`) and what a put left at the provider (`stored`). Worker,
pool, caller and finalizer steps interleave freely; the provider may fail at any
time and may have applied a put whose answer is lost. Bytes are chunks.

* `ReadIsWhole` - EOF on the pipe plus a successful finalize is the whole object
  or window; EOF alone proves nothing.
* `PutIsWhole` - no truncated object, and success left the object.
* `NoneLost`, `OneAnswer` - a waiting finalizer always gets its worker's answer,
  and no two finalizers get the same one, whatever shuts down meanwhile; a
  finalizer of the wrong kind takes the entry and gets none.
* `GoneIsClosed` - shutdown leaves no descriptor of ours behind.
* `CallsReturn`, `RuntimeFreed` - liveness, below.

### FfiCalls

A call passes `Begin` (the slot and the output variable are cleared), the runtime
registry (`Refuse`, `InitRuntime`, `Shutdown` or `Hold`), the provider registry
(`Destroy`, `Find`), the operation (`Run`, which may succeed, fail or panic) and
the output (`Insert`, `Write`). Each is one critical section of the code; between
two of them other threads may do anything. `Collect` is the caller that frees its
string variable after every call. `address` remembers what each creator was
told, and a call may use any of these ids, or one that was never handed out, at
any time. Providers are known by the number of their creation. An id is only used
with the handle it was issued for: ids restart at 1 in each runtime, so the same number
names another provider under another handle.

* `LastErrorIsOwn` - a thread reads the error of its own last call.
* `StringsFreedOnce` - freeing the variable after every call, failed or not, frees
  every string once.
* `RunsOnNamed` - a stale id never leads to another provider.
* `EndIsFinal` - one of several racing calls destroys a provider or shuts a runtime
  down, and no call that begins later uses it. A call under way keeps it.

## Runs

| run | instance | states | shows |
|---|---|---|---|
| `inspect` | versions of 0, 2, 5 and 10 bytes; nine budgets for previews, exact, one short in each dimension, invalid, and a wall time past the clock; line helpers within and beyond pending bytes and payload | 1.0M | all of `BoundedInspection`, its liveness and its refinement |
| `framing` | all objects of up to 6 bytes of text, CR, LF, and of up to 4 bytes of text, LF, NUL and a two-byte character; every probe up to 2 and pending window up to 6 | 616k | framing equals the reference; text is accepted, binary withheld |
| `framing_midpoint` | as above | | a violation: finding 1 |
| `guarded_read` | two contents of 2 and 3 bytes, two versions, ranges at 0 and 1 of 1 or 2 bytes | 378k | all of `GuardedRead` |
| `writes` | two clients update one key under `must_not_exist` and `match`, a third deletes it or copies it within the bucket or to another; one call each, two attempts; bodies whole, broken off or short, of told or untold length | 1.1M | all of `ObjectWrites` |
| `provider_setup` | every text of up to 3 of `a`, `b`, `/` and eleven longer ones; six URIs, five roots, two buckets, six endpoints (two that differ in the user, two with a bar), three regions, every set of four credential names, passed or in the environment | 426k | all of `ProviderSetup` |
| `key_root` | as above | | a violation: finding 3 |
| `target` | as above | | a violation: finding 4 |
| `listing` | seven keys around one root, pages of 1 or 2 rows, three delimiters; two changes, or one faulty page | 1.7M | all of `Listing` |
| `ffi_streams` | 2 threads, 1 stream of up to 3 chunks, pipe of 2 | 373k | data, answers, shutdown and liveness |
| `ffi_failure` | 1 thread, 1 stream, 1 chunk | | a violation: finding 2 |
| `ffi_calls` | 2 threads, 1 runtime, 2 providers, 6 calls | 789k | all of `FfiCalls` |

The bounds are the smallest at which every boundary occurs: a pipe shorter than
an upload blocks its writer; a budget one short in each dimension meets every
refusal; windows smaller, equal and larger than the object are clipped, exact and
absent; six bytes hold a CRLF at either edge of a window and inside it with
lines on both sides. Two conditional writers are what one lost update takes, and
a third client is what ends an object under them. Two attempts (the SDK's
default is three) let a second meet the effect of the first. A page of one row
makes every row a page boundary; the keys include the root itself, its marker, a
group, a group's marker and a sibling. One faulty page suffices, since a page is
validated without regard to earlier ones. Two threads suffice for races on one
entry, since every step of a call involves one other party; two providers are
what an id that is handed out again takes. One stream suffices since streams
meet only in the runtime they share; the theorems below hold for any number.
`writes` and `ffi_calls` treat the two conditional writers and the threads as
interchangeable, which is sound because no property names one and neither run
has a temporal property.

`CHECK_DEADLOCK FALSE` stands where the system may stop: after the answer, when
callers make no further call, or when a bound on calls is reached. A type
invariant is run where it is at stake (`inspect`) and proved in the modules with
proofs; in the others it documents the state.

### Fairness

`BoundedInspection`: weak fairness of the helper's own steps (the executor polls
a future whose timer fired) and of time. None for the provider: `Terminates`
holds although it never answers.

`FfiStreams`: weak fairness for every call in progress, for the worker and the
pool (provider, kernel and Tokio make progress) and for `CallerCloses` (the
caller eventually closes each descriptor, which the header requires). No call is
ever assumed to be made, no data to be read or written and no provider to fail.
Without the caller's close neither property holds: the documentation of
`put_begin` and `get` says that a worker blocks on a full or empty pipe until the
descriptor is closed.

The other modules state no fairness. In `ObjectWrites` the code sets no
operation timeout, so that a call ends when the SDK says so; `Listing` depends on
the server; the calls of `FfiCalls` wait for nothing but their own operation.

## Findings

1. `framing_midpoint`: when no terminator follows the middle byte of an object
   that was read whole, `mid_lines` falls back to the first byte and returns lines
   that end before the middle, although the object has several lines.
2. `ffi_failure`: the worker of a read hands its last chunk to `tokio::fs::File`,
   which writes it on the blocking pool; the worker never awaits or flushes that
   write, so that its failure is lost and `get_finalize` reports success.
3. `key_root`: the key `/` of a provider rooted at `r` is trimmed to nothing and
   resolves to the object `r`, beside the boundary `r/` that listing enforces.
4. `target`: without an endpoint two providers for one bucket name and root have the
   same target identity in every region, also in regions of different AWS
   partitions, where the name means different buckets. Nor are the parts of an identity
   escaped: endpoint `h://a/|b` with bucket `a` and root `a`, and endpoint `h://a/` with
   bucket `b` and root `a|a`, have one identity. DDR-0008 says that reuse of a selection
   across targets is refused before I/O.

Two observations have no run. A native copy of a missing source is reported as a
missing destination, as every failure of `copy` is mapped with the destination as its
target (`s3/lib.rs` 600), while a relayed copy names the source; ADR-0004 hedges the
field with "where applicable". A plain page passes the server's flag and token on as
they are (`PlainResult`), so that it may say that more remains and bring no token, or
the reverse, where DDR-0003:124-126 wants them to agree; `list_delimited` refuses such
pages (`ValidGroupedPage`).

## Proofs

Every theorem holds for all values of the constants that the named assumptions
of its module admit: any number of clients, threads, versions, attempts and keys,
objects of any size and texts of any length. Each module is proved the same way:
its properties are not inductive, an invariant that is holds initially and is kept
by every action (one lemma per action, one step per conjunct it can disturb), and
it implies the property. TLC checked each invariant on the instance of its run
before it was proved.

| module | safety properties proved | only model-checked |
|---|---|---|
| `BoundedInspection` | `TypeOK`, `WithinBudget`, `AnswerIsWhole`, `NothingPastDeadline`, the refinement `KeepsPromise` | `Terminates` |
| `GuardedRead` | `OnlySelected`, `ReceiptIsTrue`, `ConflictIsReal`, `MissIsReal`, the refinement `KeepsPromise` | |
| `ObjectWrites` | `PutAnswerIsTrue`, `NoLostUpdate`, `CopyIsOneVersion`, `NoTornObject`, `DeleteIsSeen` | |
| `ProviderSetup` | `KeysAgree`, `SameIdentitySameTarget`, `AsAsked` | |
| `Listing` | `PageIsConfined`, `PageIsWhole`, `HonestIsAccepted`, `ListedOnce` | |
| `FfiStreams` | `ReadIsWhole`, `PutIsWhole`, `NoneLost`, `OneAnswer`, `GoneIsClosed` | `CallsReturn`, `RuntimeFreed` |
| `FfiCalls` | `LastErrorIsOwn`, `StringsFreedOnce`, `RunsOnNamed`, `EndIsFinal` | |
| `LineFraming` | `LinesAgree`, `MidIsAligned`, `TextIsAnswered`, `BinaryIsWithheld` | |

### BoundedInspectionProofs

Assumed: constants are naturals, calls are of `CallType`. There are two
invariants. `IInv` is about the budget. What is received depends on what was
reserved and on the window in flight, hence `Covered` (what is delivered, with
what the current window may still deliver, is within what the ledger reserved),
`WindowSound` (no more is received than the receipt proves, and no more is proven
than was asked for), `Prepared` (guarded calls are made with a bound selection,
and the line helpers compute windows from a known size) and `LedgerSound` (every
dispatched request is in the ledger, and each of its dimensions within the
budget). It gives `TypeCorrect` and `BudgetKept`.

`SInv` is about the source, and is preserved given `IInv`: `Bound` (nothing is read
before the selection is bound, and only the selected version after), `Framed`
(where the open window lies in the selected version), `Transferred` (a proved
window is the request, clipped at the end of the selected version) and
`AnswerIsWhole` itself. It gives `AnsweredWhole`.
`DeadlineHolds` is an action property and needs no invariant. `Refinement` maps
each state to one of `PreviewPromise`: the step that ends a preview is the
promise's answer, everything before it a stutter, and `SInv` shows that the
version answered from was current and that the length is a prefix's.

### GuardedReadProofs

Assumed: contents have natural sizes and 0 names none (`ContentsAssumption`); a
read is a head, a get or a range with natural bounds (`ReadsAssumption`).
`Recorded` says what any history of a key looks like, `Selecting` that the
selector names the target whatever was written since (a version keeps its content
for ever, a strong validator as long as nothing is written and the bound version
not purged), and
`Accepting` that an accepted answer is the target's window and that the bytes
handed out and those still owed make up its length. `Refinement` shows every step
to be one of `SelectedRead` or a stutter, byte by byte, for servers that ignore
selector or range, drop headers, and cut or pad bodies.

### ObjectWritesProofs

Assumed: only puts have preconditions, there is an attempt and a round, and
stored keys are keys (`WritesAssumption`). A request outlives the attempt and the
call that sent it, so that the invariant speaks of every call ever begun:
`Rounded` (calls begin one after the other), `Requested` (a request on the wire is
the one its call would send again, whoever still waits for it), `OnceInv` (a put is
on the wire, or has had its effect, or was refused, and only one of these),
`Watching` (a running call has seen all that its keys held), `Replied` (what a
reply is evidence of), `Kept` (an update that took effect is carried on until a
call without precondition replaces it) and `Reported` (what was answered stays
true). The theorems hold for any order in which the network delivers, any number
of attempts for what may be sent again, and any number of clients.

### ProviderSetupProofs

Assumed: characters include the slash and the bar, everything a setup is made of is
a text, and an endpoint is a URL (`TextAssumption`, `SetupAssumption`); bucket names
have neither bar nor slash (`BucketAssumption`).
The lemmas about `RootedKeys` show what trimming, joining, the boundary and stripping
do to texts of any length: in particular `JoinedIsRooted` (a key that does not trim
to nothing lies strictly below the root), `StripThenRoot` and `PrefixBelowRoot`;
`ListingProofs` repeats the few it needs, because two modules with variables of their
own cannot be extended together. The invariant says that every provider comes of an
accepted setup and that what is located is a function of it. `PathsAgree` and
`IdentityNamesTarget` then are about texts: a reported `s3://bucket/key` is split at its
first slash, which ends the bucket; redaction brings no bar into an endpoint, so
that of two equal identities the endpoints end at the first bar, the buckets at the
next, and what follows is the root, whatever it holds. An endpoint never reads as
`aws`, since it has a scheme. `BuiltAsAsked` follows credential values by name: what
`FindFirst` returns is one of the values it was given, or `None`, which is refused.

### LineFramingProofs

Assumed: a line count, a probe and a pending limit are not zero
(`InputsAssumption`). The transition system is one step, and its inductive invariant
(`Answers`) says that an answer is the `Result` of its call. The content of the four
theorems is what the parser computes for objects of any length, where TLC has up to
six bytes. They compare it with `ObjectLines`, which does not parse.

* The loop. `RoundsExist` and `RoundByRound` unfold the recursive function.
  `LoopShape` holds after every round, of the window alone: the cursor is at the
  first byte or behind a break, what was pushed are slices of the window, marked only
  if they are not text, and fewer lines than rounds mean that no complete line is left
  or one failed. `ParseShape` adds the trailing line.
* The windows. `TailIsAligned` and `MidIsAlignedAfterMiddle` show that the bytes handed
  to the parser begin where a line of the object begins (for mid, the first one after
  the middle), although a window does not see what lies before it but for one byte, and
  a CRLF may be cut at either edge. `TextWindow`: such a window of text has no half
  character but the one its end cuts. This gives `TextAnswered` and `BinaryKept`.
* The reference. `ObjectLines` lists the line starts by counting the members below each
  one; `RankGrows`, `NthOfRank` and `NthHasRank` show that this enumerates them, and
  `Reference` that the lines tile the object: each starts where the one before it ends.
* The comparison. `LoopAgrees` is the second loop invariant: unless it failed, the loop
  has the first lines of the reference and its cursor is at the next one.
  `EndOfComplete` is the step that matters: where the window has a complete line, the
  object's line ends at the same byte with the same terminator, since a CR at the
  window's end is not taken for one. `ParsedUpto` (the first lines from an aligned
  position) and `ParsedAll` (all of them, of a window that reaches the end) follow;
  `TailOfAll` and `EndAreLast` show that the last lines of a tail window are the last
  of the object. This gives `LinesTrue` and `MidAligned`.

### FfiStreamsProofs

Assumed: bounds are naturals and a pipe holds at least one chunk. `IInv` has two
halves:

* `Sound`, of each stream alone. `Copied` counts chunks: what a read worker moved
  is what the caller read, what the pipe holds and what the pool still writes, as
  long as no write failed; only a worker past its window or at the end of a whole
  body reports success. `Uploaded` does so for puts: what is taken was written, and
  what is stored is all that was declared. `Worked` ties result, outcome and entry
  to the worker. Worker, pool and caller steps need this half only (one lemma
  each, and `StepsInv` for what they leave alone).
* `Referenced` and `Claimed`, of calls and streams together: a call under way holds
  a reference, a runtime that is being dropped has none, and only it drops workers;
  a finalizer waits for a stream whose entry it took, which gave no answer yet, and
  for which nobody else waits. The call's steps need this half, `AwaitInv` both: the
  worker a finalizer waits for was not dropped, so it ended, so it sent a result.

### FfiCallsProofs

Assumed: the bounds are naturals. `Inv` rests on what an id means: `EntriesName` (a
registry entry and the address its creator was told name each other, and its
provider was not destroyed), `IdsIssued` and `AddressesDiffer` (no id was handed
out twice in a runtime, since each is above all earlier ones), `EndedOnce` (what is
registered was never ended, and nothing ends twice) and `CallsInv` (a call that got
past a registry did so while the entry was there, and what was over when it began
is over still). `Own` ties each thread's slot to its own call. `StringsInv`, kept
given `Inv`, says who owns each string: a live one is in the variable of exactly
one thread, which has returned and not collected yet, and a call that has not
returned has a cleared variable.

### ListingProofs

`TypeCorrect` and `PagesConfined` use no assumption: the invariant
`ResultOfReply` says that what a consumer reads is the provider's `Result` for the
answer it got, and the rest is about `Result` alone. `PagesWhole` adds that answers
are made of texts (`Typed`) and that a key below the root is what stripping the root
and putting it back gives (`StripThenRoot`).

`HonestPagesAccepted` and `EachListedOnce` are about a server that keeps the protocol.
Assumed: the keys are a finite set of texts, characters have distinct ranks, and a
listing does not start with a token of this server (it would be the end of an earlier
one). The argument has three parts.

* The order. `OrderedSet`: counting the members below each one enumerates a finite
  set, since ranks are an injection into an interval of the same size. `LessIsTotal`
  and its siblings say that keys are in a total order, so that `Position` tells the
  beginnings of keys apart, and `RowOfKey` that no object's key is a group's name: it
  would hold a delimiter behind the prefix and be in that group.
* The page. `HonestServe`: what the model's server returns is `HonestTo` the request,
  i.e. each row once, beyond the request's token and up to the page's, within the page
  size, and none left out in between that was there all along. `HonestResult`: the
  provider's validation accepts every such page and drops none of its rows.
* The loop. `Served` says that the answer being read is honest and the tokens in use
  are the server's. `Collected` says that what has been listed is exactly what lies
  up to the frontier, the token the consumer will read on from: nothing beyond it
  (hence nothing twice, as the next page begins behind it) and nothing missing that
  stayed. A page moves the frontier (`PageAdds`); a change of the bucket only takes
  from what has to be listed; and a request with another token asks for the same rows
  (`SameRows`).

### What stays with TLC

* Liveness (`Terminates`, `CallsReturn`, `RuntimeFreed`) and ENABLED are out of the
  prover's reach.
* Induction over data: the library's theorems for it take an operator as a parameter.
  Where a proof needs one, it is had from `WFMin` and `NatLessThanWellFounded`, i.e.
  from least elements (`LeastNatural`; `Counting` in `LineFramingProofs`, which all
  inductions over rounds and ranks go through). No property is left out for it.

## Not modelled

* `probe_access` (one HeadBucket request), the formatting of the Range
  header, sizes, tags and times in listed rows: no decision depends on them.
* `azb://`, `gs://` and `file://` URIs: no provider here accepts them; in
  `ProviderSetup` they are a scheme that is refused.
* Session tokens, and the order in which the AWS SDK's own credential chain looks.
* Serde mappings, JSON schemas and the wording of errors: formatting. In
  `FfiStreams` the descriptor returned to the caller always serialises; in
  `FfiCalls` a string does.
* Default implementations of the provider trait (they answer
  `unsupported_capability`), generated headers, and `scripts/`.
* In `BoundedInspection` time is one flag; in `FfiStreams` there is one runtime
  handle, since handles share nothing but the map that holds them, which
  `FfiCalls` has.

## Plan

Every safety property and every refinement that a passing run checks is also a
theorem; what is only model-checked is liveness. What could be added beside the code
as it grows:

* A second provider, if one is written, as another instance of `SelectedRead` and of
  the server's side of `Listing`.
* `probe_access` and the header formats, should a decision come to depend on them.
* Several runtime handles in `FfiStreams`, should handles come to share more than the
  map that holds them.
