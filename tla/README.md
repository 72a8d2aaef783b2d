# A TLA+ verification of InterCall

InterCall connects two programs over one byte stream.  Each end calls the
functions the other exports; requests and responses of both directions share
the stream, and before the first frame the two ends compare digests of their
interfaces.  The repository holds a Go runtime with two transports (`go/`), a
TypeScript runtime for browsers (`typescript/`), and for each language a
generator that turns an interface file into bindings.

This directory models the parts of that system where several actors share
state, the parts that survive a crash, and the pipeline of the Go generator from
the source files to the calls between two generated bindings.  Paths below are relative to the
repository root; every modelled definition is tied to its lines in
`PROJECT.json`.

Contents:
[Inventory](#inventory) ·
[Modules](#modules-and-code) ·
[Runs](#runs) ·
[Fairness](#fairness) ·
[Proofs](#proofs) ·
[Findings](#findings) ·
[Remarks](#remarks) ·
[Not modelled](#not-modelled) ·
[Plan](#plan)

## Inventory

| component | state | operations | how it meets the others |
|---|---|---|---|
| **Go connection** `go/{connection,call,receive,write}.go` | terminal cause, pending map, incoming map, next request ID, one-token write gate, handler cancellation | `Call`, `Close`, `Wait`; the receive loop, one goroutine per handler, the context observer, the cleanup owner | owns the `ByteStream`; bindings supply encoders, decoders and dispatch |
| **Negotiation** `go/negotiate.go` | `setupOutcome` (first error, handed off), `closeOnceStream`, setup context | client and server constructor, `AfterFunc` callback, join, handoff | ends by constructing a connection, or closes the stream |
| **WebSocket handler and server** `go/transport/websocket/{handler,server,stream}.go` | `closed`, setup and active registries, `WaitGroup` | `ServeHTTP`, `Shutdown`, `serve` | accepts a stream, negotiates, registers the connection, waits for it |
| **Unix listener** `go/transport/unixsocket/listen_unix.go` | the path, the identity of the created socket | `ListenStream`, `Close` | shares the path with other processes |
| **Unix server** `go/transport/unixsocket/server_unix.go` | `stopping`, setup and active maps, `WaitGroup`, watcher | accept loop, one goroutine per stream, `stop` | as the WebSocket server |
| **Go artifact writer** `go/internal/tool/artifact.go` | the two generated files, staged files | ownership check, stage, rename, cleanup | file system shared with the user and other invocations |
| **TS artifact ownership** `typescript/src/cli/{ownership,main}.ts` | the same for `intercall-ts` | `replaceOwnedLeaf`, `replaceOwnedPair`, the two commands | as above |
| **TS connection** `typescript/src/runtime/` | lifecycle, pending and incoming states, owned-byte and slot limits, send gate, resolvers | `call`, receive, dispatch, `close`, abort | single-threaded, reentrant at every `await` |
| **TS browser transport** `typescript/src/browser/` | socket state, message queue | open, negotiate by polling, attach | hands its residual bytes to the connection |
| **Frame codecs** `go/frame.go`, `typescript/src/runtime/{frame,chunk-queue}.ts` | none / chunk queue | header packing, reassembly | between stream and receive loop |
| **TS value codecs** `typescript/src/runtime/codec-*.ts` … | decode budget | encode, decode | called by bindings |
| **Interface syntax** `go/internal/syntax`, `typescript/src/syntax` | none | scan, parse, validate, format, digest | input of both generators; the digest is the interface ID |
| **Go generator** `go/internal/tool` | the mapper's tables of types, exceptions and wire names | `import`: naming, overrides, scopes, emission; `export`: directives, discovery, selection, mapping, ordering, assembly; recovery of machine metadata | its output is what the artifact writer stores; its interface is the input of another import |
| **Generated Go code** | none | codecs, request encoders, response decoders, matchers, dispatch | called by `Call` and by `handleRequest` |
| **TS generator** `typescript/src/tool` | as the Go generator | as the Go generator | as the Go generator |

What is hard in it, and the properties that make each part correct (the
list, at its source lines, is under `hazards` in `PROJECT.json`):

* **Connection.**  A response, a cancelled context and a termination compete
  for one pending call: it must be settled exactly once, by somebody, and
  `Call` must return just that.  A peer may reuse a request ID before the local
  `Write` of the response has returned: neither a protocol error nor two
  generations side by side.  Termination must drain both maps for good, wake
  every waiter and free a writer that is stuck in the stream.
* **Negotiation.**  The deadline callback closes the stream while the last byte
  of the record arrives: never a closed stream handed to a connection, never
  success over an error, never a constructor that hangs on a silent peer.  No
  byte of a frame that follows the record may be consumed.
* **Servers.**  A stream is registered, promoted from setup to connection and
  removed while a shutdown takes its snapshot: none may slip through, and the
  shutdown must come to an end although peers never answer.
* **Listener.**  Check and use of the path are separate system calls.
* **TypeScript connection.**  One thread, but every `await` lets others run:
  slots, frame bytes and gate places are released on many paths and must be
  released once; two maps must hold the same calls; a peer that reuses an ID
  must not overtake the continuations that release it; and everybody behind a
  holder of the send gate depends on that holder when the connection ends.
* **Artifact writers.**  Two files are replaced by two renames; a crash in
  between must be recognised and repaired, a handwritten file never overwritten.
* **Syntax.**  The parser keeps its own stack; comments are given to nodes by
  layout; the canonical text, whose digest is the interface ID, must be a fixed
  point.
* **Generator.**  What it accepts must compile, and what it rejects must be at
  fault: names meet in several scopes, types in several packages, directives lie
  over groups, and emission needs an order.  What it exports must be importable,
  and what it recovers from its own generated file must be true although the file
  may have been edited.
* **Generated code.**  The two sides of a call have different Go types and the
  same bytes.  Counts come from the peer and decide about memory; a provider
  returns, raises or panics; an error may fit two exceptions or none.

## Modules and code

All modules are parameterised by constants, with named assumptions where they
matter.  The modules the theorems are about declare no recursive operator; those
of the generator do, since the code they model recurses over types.  Each run has
its `MC` module with the instances and the symmetry sets for TLC.  Operators
called *Mutant* or *A bug* in a comment are alternative forms of the definition
that follows, each with a plausible mistake; they are not part of a
specification, and document which mistake each property detects.

**`GoConnection`** – one connection.  A critical section of `c.mu` is one step,
and so is each blocking operation (gate, write, select).  `pc` is the control of
every outgoing call (`Call`, steps 1–8 of call.go) and of every request the peer
sends (from the receive loop's buffer through admission, dispatch, gate, write
and `completeIncomingWrite`).  `recvPC`/`recvArg` is the receive loop,
`observer` is `observeContext`, `teardown` and `claims` are `runTeardown` with
the calls transferred to it, `waiter` a caller of `Wait`.  The write of a frame
has a step that leaves a prefix, a step in which the last byte is accepted (the
peer may react from then on), the return, and an error after any number of
bytes.  The peer sends any frame at any time, the stream may stall, and both
contexts may end at any moment.  A payload is the outcome of its decoder.
`nextID` starts anywhere in `IDs`: a connection after that many returned calls,
so that the exhaustion of the 63-bit space is reachable.

**`CallContract`** – the abstract specification of what `Call` promises
(call.go's ownership comment): a call is idle, open, answered, lost or returned,
and termination takes all open calls in one step.  `GoConnection` and
`TsConnection` implement it, each under its own mapping `status`.

**`TsConnection`** – one connection of the TypeScript runtime on the browser
transport of `browser/raw.ts`.  A step is what runs between two awaits, and the
event loop orders the steps: application code (a call, an abort, `close`, a
provider's result) may run at any time, also from inside an encoder; a
continuation runs when no encoder is on the stack; an event (message, socket
event, timer) only when no continuation is left (`Quiet`).  Continuations run in
any order in the model and in the order they were queued in the program, so the
model has more behaviours.  `pc` is the control of `runOrderedCall` per call and
of the continuation of `invokeDispatch` per incoming request; `queue` is the
promise chain of `SendGate.tail`; `slots` and `frames` are the release flags
behind the counters `active` and `owned`.  A frame has length 1 and a message is
one frame; the payload limit of incoming requests falls together with the limit
of handlers.

**`GoNegotiation`** – both ends, byte by byte, over one pair of streams: the
constructor of each end (`pc`) and its `AfterFunc` callback (`callback`).  A
record is `RecordLen` bytes; an end that has its connection may send frame bytes
at once, up to `MaxSent`.

**`WebSocketServer`** – `ServeHTTP` per request, any number of `Shutdown` calls
with their snapshots (`todo`), and `serve`.  A connection is live, terminal or
down; that `Close`, its context and a closed stream take it down is what
`GoConnection` shows.

**`UnixTransport`** – `ListenAndServe`, composed of two modules.
`UnixListener` has `ListenStream` and `Close`, each system call a step, with
several processes on one path and another program that may unlink the leaf.
`UnixServer` has the accept loop, the watcher, the stream goroutines and `stop`.
The composition gives the server the listener `Own`: the watcher and `serve` both
call its `Close`, one of them does the work inside `closeOnce`, and the other one
waits until the socket is closed and the file looked after.

**`GoArtifacts`**, **`TsArtifacts`** – overlapping invocations of a generator
command that read, stage and rename, fail or are killed at any step, and a user
who edits, deletes or restores files.  A file is known by its ownership lines
and a code for the rest of its text; a digest is injective.

**`InterfaceSyntax`** – the parser, validator, documentation attachment and
formatter of `go/internal/syntax`, as operators over a file.  A file is a sequence
of tokens and comments with the number of line breaks before each; a comment is
its lines, each with its indentation.  The scanner is this abstraction: a byte
that starts no token is the token `Bad`.  The parser and the validator keep the
explicit work stacks of the code.  Reference: a recursive descent over the
grammar, the set of all violations of a file, and the layout rule stated per node.

**`GoImport`** – MapImport: the depth walk, the fixed exceptions, selectors and
overrides, names, and the reserved scopes.  `Pascal` and `Camel` are arbitrary
functions, so that names meet wherever they can.  Reference: the depth by recursion,
the named nodes of a file with their selectors, and the words the generated text
mentions where a parameter, a field or a declaration could hide them (`NamedNodes`,
`TextFits`), not the selector resolution and the reserved sets of the code.

**`GoSource`** – comments of Go files and what directives they carry
(directives.go, gosource.go): placement, resolution, duplicates, groups, and the
files of generated packages, in which only machine lines count.

**`GoExport`** – discovery from what the go command loaded, selection, mapping of
Go types in the order of the code with its tables, exceptions, procedures,
importability, emission order, key checks and assembly.

**`GoMetadata`** – the machine lines and the semantic constant of a generated
file: what import writes and what a later export recovers.

**`GoBindings`** – the generated code by what it does: the registered codec pairs
with the Go types they are made for, encoding and decoding over bytes of a small
radix, with the count checks and what is allocated, the matcher and the procedure
arms.  `CheckGo` is the type check of the generated file: every call of a codec
must have the type of its pair.  The codecs of the two sides share the bodies of
the two emitters, which differ in how a field is named and which Go type carries it.

**`GoFrame`** – `go/frame.go`: a header of three words of eight bytes, with bytes of
`Radix` values.  A word is two halves of two halves of two bytes (`Uint16`, `Uint32`,
`Uint64` and their inverses), so that no definition recurses.

**`GoFrameStream`** – the reader of frames: bytes lie before it, built by a sender or
anything a peer sends, and `readFrame` takes the first frame from them.

**`GoGenerator`** – the pipeline as a state machine.  An author writes an
interface file token by token and puts comments into it; import takes it through
parse, attach, validate, format, map and check, export takes a workspace through
the phases of `MapExport`, and what is exported is imported, what is imported may be
exported again.  A phase that reports an error stops there (`failed`).

**`GoBoundCalls`** – a call between an export and the import of its interface,
one frame in each direction through the reader of `GoFrameStream`, and peers that send
any bytes instead.

**`GoConnectionProofs`**, **`GoFrameProofs`**, **`GoNegotiationProofs`**,
**`WebSocketServerProofs`**, **`UnixTransportProofs`**, **`GoArtifactsProofs`**,
**`TsArtifactsProofs`**, **`TsConnectionProofs`** – the theorems; see [Proofs](#proofs).

## Runs

State counts are distinct states.  All passing runs check a state space that is
finite by the bounds named here, completely.

| run | instance | what it shows |
|---|---|---|
| `go_calls` | two calls, IDs 0–1, no requests (684 k) | `CompletedOnce`, `ExactlyOneOwner`, `ReturnIsOutcome`: each outcome has one owner, is settled once and is what `Call` returns.  `WaitComplete`: `Wait` returns after the whole teardown.  `ImplementsContract`: refinement of `CallContract` |
| `go_incoming` | three requests of one wire ID (36 k) | `OneGenerationPerID`, `ConformingNeverDuplicate`, and, with handlers that return and writes that progress, `RequestsAnswered` |
| `go_terminal` | one call against one handler (105 k) | `TerminalDrained`, `NothingStartsAfterTerminal`; liveness `TerminalWakesAll`, `CancelReturns` (before admission without an ID) with a peer, handler and stream that may stall |
| `go_torn_frame` | two calls | violation: see [Findings](#findings) |
| `go_negotiation` | two interface IDs, records of 2 bytes, 3 bytes sent (280 k) | `OnlyAgreedConnections`, `HandoffIsSafe` (with no byte of a following frame consumed), `FailureCleansUp`, `FirstErrorReturned`, `SetupEnds` |
| `ws_shutdown` | two upgrades, `serve` and one more `Shutdown` (88 k) | `ShutdownDrains` (with the snapshot that covers everything registered), `NoLeak`, `ShutdownReturns` |
| `unix_serve` | two listeners on one path, one of them serving one client (108 k) | `PathOwnership`, as long as nobody else unlinks the leaf where the property says so; `ServeDrains`: the maps fit the goroutines, and what `ListenAndServe` leaves behind is nothing, not even its socket file; `ServeEnds` |
| `go_artifacts` | two invocations, five possible orders, two edits (1.6 M) | `SuccessIsComplete`, `ForeignKept`, `NeverStuck` |
| `ts_artifacts_repair` | two exports, one edit | violation |
| `ts_connection` | two calls, two requests of one wire ID, IDs 0–1, room for two frames, one handler, one buffered byte (499 k) | `NothingLeaks`, `ConformingNeverDuplicate`, `ImplementsContract`, liveness `TerminalWakesAll` |
| `generator` | see below (231 k) | `ParsesTheGrammar`, `ReportsFirstViolation`, `CanonicalForm` about a file; `ImportMeetsItsRules`; `DirectivesApply`, `ExportImports`, `MetadataIsTrue` about an export; `ValuesCross`, `OnlyExactPayloads`, `FramesExact` about calls |
| `import_checked` | one interface with two equal inline records and an override | violation |

The type invariants carry the facts that are closest to types: the `WaitGroup` is
never negative, a deferred request is filed under its own ID, only a killed
invocation leaves a staged file, and in `TsConnection` each counter stays within
its limit and counts exactly the reservations that are held.  They are conjuncts
of `NoLeak`, `NeverStuck`, `NothingLeaks`, `PathOwnership` and `ServeDrains`; those
of the Go connection and of negotiation, and the inductive invariants, are proved.

**Why the bounds are enough to be interesting.**
Two calls are what ownership needs: one that holds the gate or a claim and one
that competes; with `MaxID = 1` and `nextID` starting at 0 or 1 a run admits both
calls, or one and then exhausts the IDs, with the off-by-one case distinct.
Three requests of one ID are a generation being written, the deferred one, and
the duplicate of it that is terminal.  A call and a handler are the two kinds of
goroutines that wait for the gate.  A two-byte record has a first, a middle and
a last position; the third byte is the first byte of a frame, which a read one
too far would consume; two IDs give all agreement patterns of two bindings.  Two
requests against two shutdowns let a promotion, a registration and a second
snapshot overlap.  Two listeners allow a bind between the other's check and
removal, before and after it accepts; with a third (checked with `UnixListener`
alone, without the server) nothing else happens, and one client passes through
every phase of a stream goroutine against every step of the shutdown, while a
second one, whose goroutine shares nothing with the first but the two maps, takes
the composition beyond what TLC finishes.  Two invocations allow one to be
interrupted and one to repair, or two to overlap, and the artifact properties
are about a pair of files with at most two generations each; two edits can
replace both targets.  In `ts_connection` four parties compete for two frames,
one buffered byte and one handler, so that every limit is met and the gate has a
polling holder with others behind it.

The generator's inputs are sets of jobs.  *Files*: every sequence of up to six
tokens of twelve, and every continuation of four longer beginnings up to eleven,
twelve and eighteen tokens, so that lists of records of lists, parameters, several
declarations and references occur; two comments of one or four lines at every
place of a file with references, one in files with parameters and fields, with
zero to two line breaks on either side (zero, one and a blank line are all the rule
tells apart).  *Names*: identifiers that project to the same Go name, to a
predeclared one and to a fixed exception, keys that collide and a key zero, and
overrides that resolve, miss, meet or hide a word of the generated text.  *Depth*: the ceiling is 4, so that a type is
reached both below and above it.  *Workspaces*: three packages; all pairs of
right-hand sides of two types and an alias, recursive and too deep ones included;
every meeting of wire names; selectors, patterns, internal packages and import
cycles; directives over functions, groups and specifications of two files; one edit
of a generated file.  *Calls*: bytes are digits of radix 4, the words of a frame have
eight of them and the counts in a payload one, payloads have up to four bytes, frames may carry six, the native
int ends at 2, so that each comparison has both sides and every count exceeds the
payload, the native int or neither; peers send every payload and every header at
the boundaries.

Beyond these instances the theorems apply: every safety property of the runtimes, the
frames, the transports and the Go artifact writer is proved for all sizes.  The generator
and the codecs it generates are covered by their bounds alone.

**Deadlock.**  It is checked for the connection (where `Close` may always be
called).  The other systems come to an end by design: setup returns, servers
shut down, invocations finish, and a closed TypeScript connection has nothing left
to do.  The generator stops when it is done.

## Fairness

Each assumption is one the code or its environment gives:

* A goroutine that can run is eventually run: weak fairness of each step that
  waits for nothing outside.  Encoders and decoders return.
* A goroutine that waits for the write gate is served (strong fairness of
  `AcquireGate`): the runtime queues the senders of a channel in order.
* Reads and writes on a *closed* stream return an error: the `ByteStream`
  contract.  Nothing is assumed of a read or write on an open stream, of the
  peer, or of a handler; they may stall forever.  `ServingSpec`, used only for
  `RequestsAnswered`, adds that handlers return and that an open stream takes or
  fails each write.
* Setup deadlines fire.
* `WebSocketServer`: an upgrade returns, a negotiation ends (`SetupEnds`), and a
  connection whose stream is closed, whose context is cancelled, or that was
  closed comes down (`TerminalWakesAll`).  `UnixTransport` assumes the latter two, and
  that the system calls of `ListenStream` and `Close` return; nothing is assumed of the
  other listener or of the program that unlinks.
* `TsConnection`: encoders return, the event loop runs every continuation and
  fires every timer.  Nothing is assumed of the peer, of a provider, or of the
  network: the browser's buffer may never drain.

## Proofs

TLC checks small instances; TLAPS proves the following for every value of the
constants that meets the named assumptions of the modules.  They say that the
constants are of the right kind and no more: limits and bounds are natural
numbers (`MaxIDAssumption`, `LimitsAssumption`, `MaxEditsAssumption`,
`MaxSentAssumption`), a record has a byte and the browser's buffer takes one
(`RecordLenAssumption`, `QueuedAssumption`), calls and requests are different
things and `None` is neither (`ProcsAssumption` of both connections), `serve`'s
`Shutdown` and the served listener are among the others (`ServeAssumption`,
`OwnAssumption`), an order of the artifact writer is an import or an export
(`WantsAssumption`), and a byte has an even number of values (`RadixAssumption`; 256 in
the program), so that half of the words have the response bit, with a natural number for
the ceiling (`CeilingAssumption`).  No set of calls, requests, listeners, clients or invocations
is assumed to be finite.  The inductive invariants are stated in the modules of the
components, so that TLC can check them too; they hold on the instances above.
(`WaitInv`, `GateInv`, the reader's `ReadInv` and the invariant of `TsArtifacts`, which
only the proofs need, are next to them.)

`GoConnectionProofs`
* **`TypeCorrect`**: `Spec => []TypeOK`.  Inductive as it stands, once it says
  that a request that was read has a wire ID and what `recvArg` is in each state
  of the receive loop.
* **`OneOwner`**, **`SettledOnce`** and **`ReturnsOutcome`**:
  `Spec => []ExactlyOneOwner`, `[]CompletedOnce` and `[]ReturnIsOutcome`.  The inductive invariant `OwnerInv` adds what the argument
  needs: IDs are handed out below `nextID` and only at admission, so a new entry
  never lands on an old one (`IDsNeverReused`); a call without an ID was never
  completed; the pending map is empty once terminal, so a second selection
  cannot take claims again; claims exist only while the teardown completes them.
  The steps fall into eight lemmas, by what they do to ownership: nothing,
  terminal selection, a refusal, admission, completion, a response claim, a
  cancellation, a return.
* **`Drained`**: `Spec => []TerminalDrained` from `LifeInv`, which ties the cause
  to the steps of the cleanup owner.  Every insertion into either map is guarded
  by the absence of a cause, in the same critical section.
* **`WaitIsComplete`**: `Spec => []WaitComplete`.  `WaitInv` says what each phase
  of the teardown has done and that the receive loop stays exited; with the maps
  drained (`LifeInv`), the claims completed and the receive loop gone, `OwnerInv`
  leaves an unsettled call no owner.
* **`Generations`** and **`OneGeneration`**: `Spec => []GenerationInv` and
  `[]OneGenerationPerID`.  That two handlers of one ID are never live at once is not
  inductive: the receive loop decides by the entry of the ID.  `GenerationInv` says
  that, while no cause is selected, the entry is `active` or `writing` exactly as the
  phase of the one live generation has it and names the deferred request, and that
  an active entry has a generation which is not on the wire yet.
* **`NoFalseDuplicate`**: the action property `ConformingNeverDuplicate`; the request
  that makes the new one a duplicate is the witness `GenerationInv` gives.
* **`NothingStarts`**: the action property `NothingStartsAfterTerminal`; each step that
  starts something looks at the cause in its critical section, and `LifeInv` empties
  the map from which a deferred request could start.
* **`ContractImplemented`**: `Spec => ImplementsContract`, the refinement of
  `CallContract`.  `OutcomeInv` says that a call has no outcome before it is settled
  and that what settled one which has not returned is a decoded response or the
  permanent cause; with `OwnerInv` each step of the code maps to one step
  of the contract or to none: admission opens a call, the claim of a response and a
  cancellation settle one call, terminal selection settles all open ones at once,
  though the code completes the claimed calls one by one afterwards, and everything
  else changes nothing the contract sees.
* **`OneWriter`** and **`TornFramesEnd`**: the gate has one holder, the one goroutine
  between write admission and release (`GateInv`, for which a deferred request must be
  known to hold nothing, from `GenerationInv`), and a partly written frame belongs to the
  holder, to a writer that is about to select the terminal cause, or to a connection that
  is over (`TornEndsConnection`).  This bounds the first of the [findings](#findings): a
  frame can follow a torn one in the window between `releaseWriteGate` and
  `selectTerminal` and at no other time.

`GoFrameProofs`
* **`ReadsWhatWasBuilt`**: `readFrame` of what `buildFrame` made, followed by anything,
  gives the kind, ID, key and payload back and leaves the rest, or refuses a payload above
  its ceiling before it allocates.
* **`FramesAreExact`**: `FrameSpec => []FramesExact`, for any bytes, any radix and any
  ceiling: exactly the whole frames below the ceiling are accepted, and what is accepted,
  built again, is what was read.  `GoBoundCalls` changes the stream and the frame only by
  `SendBytes`, `SendFrame` and `ReadFrame`, the steps of `FrameSpec`.
* **`LaterBytesAreRest`** and **`TornNeverRead`**: what arrives behind a frame does not
  change it, and a proper prefix of a frame is never read as one.
* The argument.  A number below the square of a base is its two digits (`Split`, `Join`); a
  word is this three times, with bytes, pairs and quadruples of bytes for digits, so that
  `Uint64` and `PutUint64` are inverse in both directions (`Put64`, `Get64`).  A stream
  of a header's length is its three words, the payload and the rest, in both directions too
  (`PiecesLie`, `PiecesMake`), and the response bit and the ID are the two parts of
  the first word (`RawSplits`, `RawJoins`).

`GoNegotiationProofs`
* **`SetupTypes`**, **`Agreement`**, **`SafeHandoff`**, **`CleanFailure`**:
  `TypeOK`, `OnlyAgreedConnections`, `HandoffIsSafe` and `FailureCleansUp`.  They follow from `SetupInv`, which records who may have
  selected an error and who may have closed the stream in each phase (a stopped
  callback has done neither; only a finished callback or a failing constructor
  has closed), and how far the records are (the server sends nothing before it
  has accepted the client's record).
* **`FirstError`**: the action property `FirstErrorReturned`, from `SetupInv`.

`WebSocketServerProofs`
* **`HandlerCorrect`**, **`NothingLeaks`**, **`Drains`**: `HandlerInv`, `NoLeak` and
  `ShutdownDrains`.  `HandlerInv` adds that the `WaitGroup` is the number of
  executions in flight (`Counted`; that this set is finite is part of the induction,
  not an assumption on the requests), that an execution is in the map of its phase
  (`Registered`), that a stream or connection is open only in a phase that closes it
  (`Owned`), that a closed handler admits nobody (`Closed`) and what a snapshot has
  covered (`Snapshot`).  One lemma per conjunct.

`UnixTransportProofs`
* **`ImplementsParts`**: `Spec => L!Spec /\ S!Spec`.  The composition drives the listener
  and the server by steps of their own specifications, so that what is shown of a part
  holds in the whole.
* **`TransportCorrect`**, **`PathOwned`**, **`Drains`**: `TransportInv`,
  `PathOwnership` and `ServeDrains`.  `PathInv` ties the leaf to the state of the
  listener that bound it, `ServerInv` is for stream goroutines what `HandlerInv` is
  for requests, and two conjuncts of `TransportInv` join them: while the server takes
  its listener for open, its socket is, and it is closed before `ListenAndServe`
  returns.

`GoArtifactsProofs`
* **`WriterCorrect`**, **`StuckNever`**, **`SuccessComplete`**, **`ForeignUntouched`**:
  `WriterInv`, `NeverStuck` and the action properties `SuccessIsComplete` and
  `ForeignKept`.  The properties speak of the moment of a rename or of success; what
  makes them true was read long before.  `StagedInv` says that nothing is renamed
  before the whole plan is staged; `AloneInv` that for an undisturbed invocation every
  target of its plan may still be replaced and every target outside it has the wanted
  content already; `OwnInv` that without edits every target, half of a pair included,
  may be replaced by everyone of the same owner.

`TsArtifactsProofs`
* **`OwnershipKept`**, **`ReplacesOnlyOwn`**, **`SuccessHasOutput`**: as long as nobody else
  changes a target, an invocation of `intercall-ts` renames only over files its checks
  accept, and its success means that each target of its command is its output.  The checks
  come several steps before the renames, and an export renames twice; the invariant says
  that what a check found still holds in each later phase (an output passes the checks of
  the invocation that wrote it) and that what is no longer to be renamed is the output.
  These two properties have no run of their own.

`TsConnectionProofs`
* **`RuntimeCorrect`** and **`LeaksNothing`**: `RuntimeInv` and `NothingLeaks`.  The
  proof follows the objects of the runtime.  The counters equal the cardinalities of
  what is held, each set finite because it grows by one element under a limit.  The
  chain of the send gate holds each waiting call or handler once and only its head
  polls or is admitted, so no byte is added between the capacity check and the
  send, and the browser's buffer keeps its bound.  A call is pending exactly while it
  awaits an unsettled result, in both maps, under an ID below `nextID`.  A handler's
  ID is active while it is live.
* **`DuplicateIsReal`**: the action property `ConformingNeverDuplicate`, from the last part.
* **`ContractImplemented`**: `Spec => ImplementsContract`, the same contract as the Go
  connection's.  `SameCall` and the lemmas after it say which steps leave a call as the
  contract sees it, and `StepKinds` sorts the others.

Only model-checked, and why:
* liveness (`TerminalWakesAll` of both connections, `CancelReturns`,
  `RequestsAnswered`, `SetupEnds`, `ShutdownReturns`, `ServeEnds`), which is outside
  what this prover does under fairness;
* the generator and the code it generates (`ParsesTheGrammar`,
  `ReportsFirstViolation`, `CanonicalForm`, `ImportMeetsItsRules`, `DirectivesApply`,
  `ExportImports`, `MetadataIsTrue`, `ValuesCross`, `OnlyExactPayloads`): their operators recurse over types and token lists, and what a
  recursive definition computes for every input needs an induction this prover
  cannot do;
* the violations, which are counterexamples.

## Findings

1. **A frame can follow a torn one** (`go_torn_frame`, `FramesNotInterleaved`).
   `Call` (call.go:161–165) and `handleRequest` (receive.go:231–236) release the
   write gate before they select the write error as the terminal cause.  Between
   the two another goroutine takes the gate, finds no cause and writes its frame
   behind the prefix.  `go/SPEC.md:902`: "It never interleaves frames. Any error
   after a partial frame is terminal."  `TornFramesEnd` proves that there is no
   other such window.
2. **`intercall-ts` does not repair an interrupted export**
   (`ts_artifacts_repair`, `RepairsInterrupted`).  The stamp a binding records is
   the digest of its interface, but `assertReplaceableLeaf` compares it with the
   new interface's digest or with the digest of the binding's own text, so that a
   binding of any other interface is refused.  `typescript/SPEC.md:717–719` says
   that such a pair is repaired.  `intercall-go` does repair it (`NeverStuck`).
3. **A renamed field can break a generated import** (`import_checked`,
   `NothingLeftToCheck`).  Codec pairs of anonymous lists and records are shared by
   wire text (codec.go:131, `typeKeyOf` model.go:219) and typed by their first
   occurrence.  If `--go-name` renames a field in one of two inline records with the
   same wire text, their Go types differ, the second occurrence calls a codec of the
   other type, and the binding fails the in-memory type check.  checker.go:35–36 says
   that the earlier phases "diagnose every user-triggerable defect first"; the export
   side keys its pairs by wire text and Go type for this reason
   (export_codec.go:30–34).

## Remarks

Observed while modelling, with no run of their own:

* `SPEC.md:737–739` has the context observer complete the teardown before it
  exits.  `selectTerminal` starts `runTeardown` in a goroutine (connection.go:265)
  and the observer may exit first.  `Wait` waits for both, so no caller can tell.
* `addSetup`'s branch for a stopping Unix server is unreachable: the accept loop
  is its only caller and calls `stop` after its last `addSetup`.
* In the WebSocket handler the `closed` checks of `registerSetup` and of
  `promote` each suffice for `Shutdown` to return; that nothing is registered
  behind the snapshot (the second part of `ShutdownDrains`) rests on the first.
* If the second `Lstat` of `ListenStream` fails, the listener is closed with
  unlink-on-close off and its leaf stays.
* The Unix `Close` compares the leaf with its own socket and removes it by name
  (listen_unix.go:136–138).  If another program unlinks the leaf in between and a
  second listener binds, `Close` removes that listener's socket, which the comment
  at lines 23–24 excludes.  `unix_serve` shows that without a foreign unlink it
  cannot happen.
* `receiveChunk` wraps every error that is not a `ProtocolError` into one
  (connection-runtime.ts:65), so an exceeded incoming limit ends the connection
  with `ProtocolError`; `typescript/SPEC.md:516–517` names `ResourceLimitError`.
* An aborted TypeScript call that is queued behind a polling holder of the send
  gate rejects only when it reaches the head of the chain (send-gate.ts:46).
* `typescript/SPEC.md:209` has the handler's signal abort when the handler
  finishes; `finish` (connection-core.ts:102–106) only forgets the controller.
* Stage names of `intercall-ts` contain the process ID; the model takes them as
  distinct.
* `runOrderedCall` releases the frame bytes of a call in its `finally`
  (call-order.ts:56), when the response has arrived, not when the frame was sent:
  calls that wait for slow answers use up the limit and further calls are refused.
  `typescript/SPEC.md:513–515`: "Owned frame-byte capacity is reserved before waiting
  for send admission and released after `send` returns or fails."  `TsConnection`
  models the late release.
* `buildFrame` has no ceiling: a payload above the reader's limit is sent and ends the
  connection at the peer (`ValuesCross` says so).
* The comment of a parenthesised group of one specification that has a comment of its
  own is never read (gosource.go:417, 492), so an `@intercall` directive there is
  dropped; `go/SPEC.md:294–295` has export check the directives of every package-level
  declaration.  `DirectivesApply` leaves this case out.
* **An export into a package that cannot import its providers is accepted.**  If a path
  ends in `/internal` and has an earlier `/internal/`, `internalVisible`
  (discover.go:1010–1019) lets the earlier one decide.  Its comment (1004–1009) has the
  innermost one decide, as the go command does, and `go/SPEC.md:226–228` makes such an
  import an error of the export: `m/internal/p/internal` is accepted from `m/o`, and the
  binding does not build.  `ExportImports` leaves these paths out of what builds
  (`MisplacedInternal`; the instance has one, and without the exception TLC finds the
  violation), and every other path is judged by Go's rule (`InternalRule`).
* The depth preflight of export treats an unexported alias as a leaf, while `mapAlias`
  follows it; `ExportImports` leaves such aliases out of its depth clause.
* `listDepth` (export_emit.go:368) reserves index and count names by the deepest
  nesting of lists, while the emitted names also number sibling lists.  The text of
  local names is not modelled.
* The artifact properties are about an invocation that nobody disturbs:
  `go/SPEC.md:1053–1054` excludes concurrent changes of the targets.

## Not modelled

* Text and layout of generated code, diagnostics and help, argument parsing and path
  syntax: stateless, or in front of the first state change.  Of the generator
  therefore: the spelling rules of names (`Pascal`, `Camel`, `ToWire` are
  arbitrary), import aliases and their mangling, and which of several
  simultaneous export diagnostics is reported first.
* What the go command and go/types do: the loaded packages are the input of
  `GoExport`.
* The TypeScript ports of syntax and generator: functions over the compiler's
  syntax trees that follow the Go design; the TypeScript value codecs, whose virtual
  machine runs one program at a time over one buffer.
* The TypeScript browser transport: two of its hazards are listed without a property;
  see the plan.
* Generated fixtures, the integration harness and the examples.
* Dial functions of the transports: one library call followed by the modelled
  negotiation.

## Plan

Modelled so far: the Go runtime with its transports, the TypeScript connection, both
artifact writers, the Go generator and the code it generates.  Next, in this order:

1. **`TsBrowserSetup`** – opening, negotiation and hand-over of the queue
   (browser/index.ts, raw.ts, events.ts).  Properties: residual bytes behind the
   record are delivered, in order and without waiting for another message; the
   message limit applies to a message.
2. **A link of two connections** – two ends and the stream between them: a
   conforming pair never ends in a protocol error.
