# Verification of guestjs

guestjs lets a Rust program run JavaScript in *guests* of a *runtime*: the host
enters a guest, evaluates code, calls functions and awaits promises; guest code
calls back into host functions, reads streams and iterators the host lends it,
and has its memory lent to Rust slices. Everything runs on one thread, so what is
hard is not parallelism but **nesting and order**: entries of several guests on one
call stack, callbacks in the middle of a poll, futures polled by whichever task
comes first or dropped by the application, host objects realised while others are,
results published after the state they belong to has changed. And between the two
languages stand **translations**: of values, errors, specifiers, files and macro
blocks, which have no state but many cases.

The modules here model that behaviour; TLC checks them on small instances and
TLAPS proves the most important properties for every value of the constants.
In this document *core* is `src/crates/guestjs-core/src`, *quickjs* is
`src/crates/guestjs-quickjs/src` and *macros* is `src/crates/guestjs-macros/src`.

## The system

| component | state | operations | what is hard | what must hold | modules |
|---|---|---|---|---|---|
| guest lifecycle and entry (core `guest/`, `runtime.rs`, `policy.rs`, quickjs `engine.rs`, `context.rs`) | policy, armed policy and activation depth per guest; registry; the engine's depth and lock; closed flag | create, clone, drop, close, enter, reenter, callback, check, poll jobs, interrupt | nested guests on one stack; a deadline passes, a signal is cancelled, a guest is closed at any point of it | activations balance, the engine follows the entries, deadlines stay, errors are named by the guest that was due, a due guest unwinds | `GuestEntry` |
| event loop and promises (core `driver/`, `host/function.rs`) | host futures in flight, settled calls, the job queue, wakers | register, step, await a promise, run_until_idle | several awaits of one guest; several calls settle at once; a publication or a job fails; calls made while a future is polled; closing in between | no call is lost or published twice, idle means settled, nobody sleeps on work, awaits end, but for what is listed under Fairness | `EventLoop` |
| borrowed buffers (quickjs `engine.rs`, `backend/buffers.rs`, core `handle/buffer.rs`) | table of loans, live slices, call stack; buffers and their views | lend, release, ask before running guest code; read, write, copy | host frames nested in guest frames; guest code moves, shrinks, freezes and detaches memory; what is read of exceptions, of `globalThis.Set` and of `DataView.prototype` may be guest code | the table counts the slices, writers are alone, no memory moves under a slice that the table protects, a view shows its own bytes | `Loans`, `Borrowing`, `Views` |
| streams and iterators lent to the guest (core `host/stream.rs`, `host/iter.rs`) | a shared cell and a chain of turns; a shared sink; an iterator | next, close; pull; write, close, abort | overlapping calls; guest code run from inside the poll; a channel that is full or gone | order, errors are last, calls end, no chunk is lost | `SharedStream`, `StreamReader`, `StreamWriter`, `Payloads` |
| streams and iterators of the guest (core `handle/stream.rs`, `handle/iter.rs`) | phase and pending promise of readers, writers and iterators | read, write, flush, close, abort, release_lock; next, close | futures dropped half way; failures that are not the stream's | every chunk and item is seen once and in order, an Ok is true, operations end | `StreamReader`, `StreamWriter`, `StreamPipe`, `Iterators` |
| catalog and bundles (core `catalog.rs`, `bundle/`) | names and their owners; a builder's files and first error | insert a module, a bundle, a native library; add files | names, aliases and roots that overlap; files that cannot be read, named or transpiled | all or nothing; one owner per name | `Imports`, `Bundles` |
| imports and resolution (core `imports/`) | bindings of the runtime, the guest and what was mounted, deny lists; the engine's modules | bind, deny, resolve, load, realise, mount | bundles mounted after modules were imported; host modules made by closures that import; aliases and indices of denied modules | a name keeps its meaning, what was located can be loaded, nothing denied is made | `Imports`, `Resolver` |
| module loading (quickjs `backend/modules.rs`, core `host/module.rs`) | pending exports, states, realised modules | declare, evaluate, load | modules realised while others are, failing half way | each module gets its own exports and state, once | `Realisation`, `HostObjects` |
| host classes and payloads (core `host/class.rs`, quickjs `backend/classes.rs`) | realised classes, payload cells | realise, construct, borrow, call | methods that call each other's objects; realisations that nest, also of one class in itself | one class per type, unless its realisation asked for it; payloads are borrowed as in Rust | `Realisation`, `Payloads`, `HostObjects` |
| builders (core `builder.rs`) | the list of initialisers | build | one fails after others ran | a guest that is handed out ran all of them, in order | `HostObjects`, `Imports` |
| values and marshalling (core `marshal/`, `handle/`, quickjs `backend/values.rs`) | none | convert, by the library's traits and by serde | limits of numbers, nested types, absent values, objects that throw, prototypes with setters | what crosses and comes back is the same, or an error says that it cannot | `Marshalling`, `SerdeMarshalling`, `Translations` |
| errors and exceptions (core `errors.rs`, `host/exception.rs`, quickjs `error.rs`) | none | raise, capture, describe | errors that cross several frames of host and guests; getters that throw | category, name, message and cause arrive | `Exceptions` |
| macros (macros `host/`, `backend.rs`, `derive.rs`, `guest/facade.rs`) | none at run time | accept a block, make a declaration of it | members, accessors, symbols, states and generics combine | what is accepted defines what it says, takes its arguments in place and has the bounds it needs | `Callables`, `Declarations` |
| facade and platform bindings, fixtures | none | | | | |

How they interact: an entry (`Guest::enter`) *activates* the guest: it arms the
policy on the outermost activation, takes the engine's lock and gives the closure
a token. Guest code it runs may call a host function, which *re-enters* the same
guest or enters another one. An asynchronous host function returns a promise and
leaves a future with the guest's `PendingHostFutures`; the event loop polls those
futures, publishes what has settled by an entry of its own and runs one job of the
runtime's queue. Streams lent to the guest are such host functions. An import asks
the bindings of the guest and the runtime; a host module is realised by closures,
which may import, ask for classes and call methods themselves. Buffers are
lent from inside an entry and stop the operations that are known to run guest code
(those that ask `settled`).

## The modules

| module | models | state and actions |
|---|---|---|
| `GuestEntry` | guest lifecycle and entry | one call stack of `enter`, `reenter`, `jobs` and `js` frames; an action per operation of `Guest`, `EventLoop::step`'s poll of the jobs, the interrupt handler, the clock and cancelling threads |
| `EventLoop` | the driver of one guest | `inFlight`, `settled`, `jobs` are the fields of the same names; a task is polled waiter by waiter, and each poll of a waiter is one action per way `PromiseFuture::poll` and `run_until_idle` can go. A step is two actions: the host futures are polled, and may register further calls (`PollFutures`), then what has settled is published and one job runs, or one of the three fails (`StepRefused`, `PublicationFails`, `JobFails`, `Step`) |
| `Loans` | lending of guest memory | `entries` is the engine's table, `bytes` the live `Bytes` values, `memory` where guest code keeps each buffer, `depth` and `code` the call stack; `exposed` is a history: the slices the table could not protect |
| `Borrowing` | what lending promises | no table, no counts, no stack: the live borrows, whose code runs, the last answer, and whether guest code may intrude unasked |
| `SharedStream` | a Rust stream lent to the guest, and the calls of its `next` | the chain of oneshot channels (`turn`, `previous`), the shared cell (`open`, `inside`), the calls and which of them will be polled |
| `Channel` | the host's bounded channel behind a sink and a stream (external) | what was passed and taken, which ends are there, how much trouble there has been |
| `StreamWriter` | `Writer` over a WritableStream over `SharedSink` | `writer` is the phase and the promise of `WriterState`; requests of the stream in order; poll_ready, start_send, poll_flush and poll_close of the sink; every operation is begun, polled and may be dropped |
| `StreamReader` | `Reader` over a ReadableStream over `StreamSource` | `reader` is the phase and the pending promise; the stream's one stored chunk and one request; pull, read, cancel, release_lock |
| `StreamPipe` | the two on one channel | |
| `Realisation` | builders, host modules, states and classes of one guest | one call stack of initialisers and realisations; `slot` is `PendingExports`, `realised` the `ClassRegistry`, `loaded` the modules with their exports and state; `again` is a history: the classes their own realisation asked for |
| `Payloads` | methods and iterables | frames on that stack which hold a `RefCell` of a payload or an iterator |
| `HostObjects` | the two together | |
| `Imports` | catalogs, builders, bindings, loading | `sources`, `denied` and `mounted` are the fields of `Catalog` and `GuestBindings`; `instances` the engine's modules of a guest, `realising` the host modules that closures are making; an action per builder method, `import`, `load` and way to end |
| `Conversions` | what all conversions share | kinds of values, results, strings, alignment |
| `Marshalling` | conversions between Rust and JavaScript | functions on types and values: `ToGuest`, `FromGuest`, what errors they give |
| `SerdeMarshalling` | the same by serde | the `Serializer` and `Deserializer` and what serde's visitors accept |
| `Callables` | host functions of the macros | which signatures are accepted; a call of the generated callback, whose parameters take their arguments from `Args` one step after the other (`taking` is the cursor and what was handed) |
| `Declarations` | host modules, classes, namespaces, facades and derives of the macros | which blocks are accepted, the members and bounds made of them, and the properties realising them defines |
| `Bundles` | `BundleBuilder` | `building` is the builder; one step per file that is added |
| `Exceptions` | errors across frames | where an error begins; one step per frame of a guest that it enters, is raised in, and is caught in or captured from |
| `Views` | buffers and views of them | `world` has the buffers, the views and who wrote each accessor of `DataView.prototype`; a step is a read, a write, a question or a copy of the host, or what guest code does to a buffer or an accessor. What the backend asks may run an accessor of guest code's, so that each of its operators gives a set of outcomes, a result and the world it leaves |
| `Iterators` | `Iter` and `AsyncIter` | the phase, the kept promise, the future of one `next` which may be dropped |
| `Resolver` | specifiers | the loop of `Resolver::join`, one segment per step |
| `Translations` | composes the modules above from `Conversions` on | a *question* per initial state: of conversions and declarations it is answered in one step, otherwise it says which of the other modules takes its steps |
| `MC...` | constants for TLC | |
| `...Proofs` | theorems | |

`Loans` implements `Borrowing` under the mapping `LiveBorrow`: a `Bytes` value
with a loan is a live borrow, an empty one is none. The abstract module knows
nothing of counting, so a loan that is released too early, too late or twice
shows as a step `Borrowing` does not have.

Modelling decisions worth knowing:

* An `Option` is a set of at most one element. A record of one field whose name says
  what it is stands for an enum.
* Some modules define *slips* (a comment says so): a function as a plausible mistake
  would have it. No specification uses them; each is the mutant that shows a
  property can fail.
* `GuestEntry`: an error is one of a few kinds. `"interrupted"` is the engine's
  bare interruption, `"wrapped"` a policy error that travelled through guest code
  as an exception, `"foreign"` and `"failed"` any other. Guest code may return,
  throw on, or catch whatever it can catch; an interruption it cannot.
* `EventLoop`: a function makes its host calls one after the other; a call is
  identified by the await it is made for. A host operation wakes the task whose
  waker polled it last, once. `FromPoll` are the functions whose calls host code makes while
  a host future is polled: `poll_settled` has taken the futures out and puts them back
  behind the new ones (core `driver/host_futures.rs:95`), so that such a call is in flight
  and has no waker until the next poll of the futures. A job fails by throwing or by an
  interruption; its function is `"lost"`, as is one whose publication fails.
* `Loans`: the guest may move, resize, transfer and detach buffers whenever its
  code runs. `Patched` says what guest code has replaced of what the engine reads
  without asking the table: what is read of exceptions (`ThrowNew`), `globalThis.Set`
  (`NewSet`) and the accessors of `DataView.prototype` (`AskDataView`, a step before the
  range is lent). Every slice that is lent meanwhile is `exposed`, and the properties say
  what holds of the others. A `Bytes` value does not keep its buffer: one that only an
  accessor of guest code's returned is freed when `Bytes::new` returns (`Lend`; quickjs
  `backend/buffers.rs:196`), with a slice of it lent.
* `SharedStream`: close is a job of the guest (`return`, `cancel`), so a step of
  the event loop follows that polls every host future.
* `StreamReader`, `StreamWriter`: the streams of the standard library of JavaScript
  are external: they work on one request at a time, in order, and defer an abort
  until the request at work has ended. That is why sends of one `SharedSink` never
  overlap. What is not plain use (a dropped future, a released lock, an abort, a
  cancellation, a failure from outside) counts as a *trouble*.
* `Imports`: a name is the sequence of its segments, so that roots, prefixes and
  indices are what they are in the code. A name is looked up in every source before
  its index is in any. A library binds its modules one by one and fails at the first
  that cannot be. `Load` mounts a bundle and imports its root in one action, as no
  guest code runs between the two. QuickJS keeps the first module made under a name
  (`Admit`) and drops one whose own imports cannot be loaded (`Discard`).
* `Realisation`: of a member it keeps whether it is a class, a plain value or one
  whose conversion runs host code, which may import, ask for classes, call methods
  and fail. A class keeps the state of its first realisation, also when that module
  failed (README.md:642 of the repository says that this is meant). A class or module
  may ask for itself while it is being realised, on a condition, and so end. As
  `get_or_realise` looks for the class before it realises it and not again when it
  remembers it, the class made within is given out and then replaced (`AskedAgain`): the
  type has two, which the test of core `host/class.rs:542`, with one request after the
  other, does not meet. `OneClassPerType` says that there is no other way to get two.
* `Payloads`: a receiver is borrowed before the arguments are converted, so
  conversions run under the borrow.
* `Marshalling`: `RoundTrips` compares with `Survives`, a reference of what is meant
  to come back; `ReadsAgree` compares each type's reader with the set of values that
  its description names. An object is written by ordinary assignments: a key that
  `Object.prototype` has a setter for (`"__proto__"`, and whatever guest code put there,
  `Inherited`) takes the value and no property results, and one that is read-only or
  whose setter throws fails. A guest's array is its `length` and its items, its set what its
  iterator yields, and each of these may throw, say something else or be missing; what is
  thrown is not taken for a mismatch (`ReadsAgree`). Assumed are an `Array.prototype`
  without setters at indices, the engine's own `globalThis.Set` where a set is written, and
  an `Object.prototype` that has not been given the names `value` and `done`. Numbers are
  doubles halved, so that odd ones have a fraction; `SafeInteger`, `Widths` and `Wide` scale the limits of integers down
  together.
* `Callables`, `Declarations`: an impl block is a record of what the macros look at.
  The properties say what a guest finds of an accepted block, not what the tokens
  look like. The values of a call are opaque, and `Args` runs out of them as it does in
  the code, where what is missing is undefined.
* `Views`: sizes and places are in bytes, `MaxSize` is the greatest usize and `Longest`
  the most bytes a piece of memory can have. What a DataView says of itself is what the
  accessor says that is found on `DataView.prototype` now: the engine's own, one of guest
  code's, which gives any buffer or number (`Numbers`), or something else, or throws, and
  may change a buffer or an accessor before it does (one change, a bound), or none, which
  is an error of its own. A world is any that an engine
  allows (`SoundWorld`): a detached buffer is empty, a typed array is aligned; a view may
  reach beyond a buffer that has shrunk. What happens to memory while it is lent is the
  subject of `Loans`.
* `Bundles`: of a file it keeps the path, who adds it, whether it can be read, is UTF-8
  and parses. A directory adds its files in whatever order it is read.
* `Exceptions`: an error begins in the host, as a value that guest code throws, or as an
  exception the host declares. It passes frames of guests, with a frame of the host
  between each two; a frame of a guest either has a handler or not, and what it is thrown
  there is what `Raise` makes of it. That an exception is an instance of its class
  supposes that a class derived from it was declared so; what `Reflect.construct` makes
  with an unrelated `new.target`, or with a `prototype` that cannot be read, is only met as a
  value that guest code throws. The names of a value's prototypes are a set, as they are
  only asked whether one is among them.
* `Iterators`: guest code answers each `next` with an item, the end, a promise or an
  error; a promise settles at any time.

## The runs

| run | constants | what it shows |
|---|---|---|
| `entry` | 2 guests, 1 signal, every kind of policy, clock 0..1, 4 frames | the safety properties and action properties of `GuestEntry`. Two guests and four frames are the least with which a guest is entered from another that was entered from the first, with guest code between; one tick suffices because the timeouts are 0, 1 and one beyond `Horizon`; the last comes with a signal |
| `entry_live` | policies with a signal, clock 0, 3 frames | a due guest unwinds |
| `policy_error_category` | as `entry`, 1 guest | finding 1 |
| `event_loop` | 1 task, 3 awaits (of a call's own promise, of a promise the host settles, of a function whose call is made while a future is polled) and an idler; publications and jobs fail, the guest is closed, `MaxDue` = 1 waiter becomes due | accounting of calls, the meaning of idleness, no sleeping on work, and that waiters end. The kinds of await meet in every order of completion; what several tasks add is finding 2 |
| `awaits_in_two_tasks` | 2 tasks, 2 awaits | finding 2 |
| `loans` | 3 slices, 3 buffers (one immutable), 2 addresses, 4 frames, everything `Patched` | the safety of lending, exposed slices apart, and the refinement. Three slices are needed for two readers and a third request, four frames for a host function inside guest code inside a host frame |
| `captures_run_guest_code` | 2 slices, 2 buffers, the accessors of exceptions `Patched` | finding 3 |
| `shared_stream` | 5 calls, a stream of three items with an error in the middle | order, errors, borrowing and that calls end |
| `stream_pipe` | `MaxChunks` = 2 chunks, a channel of `Capacity` 1, `MaxTroubles` = 2 | truth of writes and closes, account of reads, who may lose a chunk, and that operations end. Two chunks fill the channel and leave one in the sink; two troubles are a dropped future and whatever happens to what it left |
| `host_objects` | 4 modules, 2 classes, 2 cells, `MaxFrames` = 3, `MaxStates` = 2, `MaxValue` = 1 | classes, exports, states, initialisers, payloads. Three frames are a value inside a class inside a module, and a method inside any; two states tell apart that of a module that failed and the one it gets when tried again |
| `imports` | 1 guest, 4 names (one the index of another, two of one root), 2 host modules, a native one with an alias, 3 bundles of one and two roots, `MaxDenied` = 1 name an owner denies, `MaxDepth` = 2 nested realisations | owners, denials and meanings of names. Every pair of an owner's name, alias and root that can collide does in these constants; a second guest would share nothing with the first but the runtime's catalog, which no longer changes |
| `translations` | `MCTranslations` lists the types, values, blocks, calls, files, journeys and views; `SafeInteger` = 4, `MaxSize` = 15 as the greatest usize, `Longest` = 14, `MaxAccesses` = 3, `MaxPatched` = 1 accessor of guest code's, which says 0, 2 or 5, `MaxFiles` = 3, `MaxFrames` = 3, `MaxReferrer` = 2 and `MaxSpecifier` = 4 segments of 4 words, `MaxNexts` = 4 | nine questions and six machines, each against a definition of what has to come of it. Types nest two deep, which meets every pair of an outer and an inner conversion; blocks have up to three members, the least with which an accessor pair and a third member of its name meet; an error passes three frames, the least with which it comes home to a guest it has left; three accesses are two changes by guest code, such as shrinking and freezing, or replacing an accessor, before the host looks; three files are one that breaks before, between or after two of one name |

### Fairness

* `GuestEntry`: the engine polls its interrupt handler again and again while guest
  code runs (it does so every few thousand bytecodes), so `Interrupt` is strongly
  fair for each frame; host closures return and a poll of the job queue ends.
  Guest code need never return.
* `EventLoop`: the executor polls woken tasks and every waiter of them, host
  operations complete, host code settles what it handed out. Nothing makes a task
  be polled that was not woken. What the code does not give is left out of `WaitersEnd`
  and `NeverSleepsOnWork`, by name:
  * `PromiseFuture::poll` registers no waker when it finds its promise pending and
    the loop waiting or idle (core `driver/promise.rs:79`), so that an await of a promise
    which host code settles by a later entry is not woken (`HostSettled`).
  * `PendingHostFutures::publish` (core `driver/host_futures.rs:137`) stops at the first
    publication that fails and drops the rest; and `poll_jobs` stops at the first job that
    throws or is interrupted (quickjs `engine.rs:295`). The step, and the await or
    `run_until_idle` that made it, fails (core `driver/event_loop.rs:43`), and the promises
    of the functions concerned are never settled: they are `"lost"`.
  * A call that host code makes while a host future is polled has no waker until the futures
    are polled again (core `driver/host_futures.rs:95`). If nothing else wakes the task, it
    sleeps, and `run_until_idle` does not end (`Overlooked`); if the step which would go on
    after it fails, its function stays in the queue and nobody is woken for it
    (`Stranded`).
* `SharedStream`: woken futures are polled, `Stream::poll_next` returns, and the
  stream becomes ready some time.
* `StreamPipe`: the event loop works for both streams, the future at work is polled,
  the sink passes on what it holds, and the application reads on. Nobody drops,
  releases, aborts or cancels because it must.

### Deadlock

TLC checks it in `loans` and `captures_run_guest_code`. In the other runs the system
stops when it has done all the bounded work there is: clocks and frames at their
bounds, every await returned, every call ended, every name bound and imported, the
guest built and every module loaded, the question answered.

## Findings

Each is a property the repository's README states and a run in which the code
breaks it.

1. *A policy error may arrive as a guest exception* (`policy_error_category`). The
   innermost activation of the due guest names the interruption; when that is a
   host callback, the error is thrown into guest code and the outermost caller gets
   `Error::Guest`.
2. *Two tasks awaiting one guest* (`awaits_in_two_tasks`). Each step replaces the
   waker of every host future and a ready step wakes only the stepping task; the
   other sleeps although its promise is settled.
3. *Capturing an exception while memory is lent* (`captures_run_guest_code`). It reads
   properties guest code may have defined, without asking the loan table. So do making a
   set, which constructs `globalThis.Set` (quickjs `backend/values.rs:184`), and finding
   the range of a DataView, which calls the accessors of `DataView.prototype` (quickjs
   `backend/buffers.rs:157`): with any of the three `Patched` the run has its
   counterexample.

Smaller things that the models take as the code has them:

* What a map or a struct has under `"__proto__"`, or under a name that guest code put a
  setter for on `Object.prototype`, is written with `Ok` and lost (quickjs
  `backend/values.rs:297`, core `marshal/collections.rs:256`).
* A slice of a buffer that only an accessor of `DataView.prototype` returned outlives the
  buffer (`Loans`, above).
* Marshalling is not symmetric everywhere: a `HashMap` whose keys are not strings is
  written and cannot be read; serde's tuples ignore further elements, the library's are
  exact; serde refuses integral numbers beyond the safe ones as integers, the library
  reads them up to i64; a `u64` beyond them cannot be written; a field nobody asks for
  that holds a function, a symbol or a set fails the whole conversion by serde; an object
  that is tagged as a module is taken for a handle of one.
* `HostException::caught` is false for an error that has been in another guest, also
  when it comes home: a plain `Error` takes name, message and stack along, not what
  it was made of. The category of any other error is lost at the first frame of a guest
  that it passes, where it becomes an exception of the corresponding class.
* After an item that does not convert, or any other error, `Iter` and `AsyncIter` count
  as done and `close` does not call the guest's `return`.
* A generic module of constants only is given the bound of a backend, while
  converting its constants needs one with values (macros `host/module.rs:395`): it is
  accepted and does not compile. `SoundModule` leaves it out.
* A method named `constructor` is overwritten when its class is linked, and a static
  `prototype` makes the class fail when it is realised.

## The proofs

| module | theorem | for all |
|---|---|---|
| `GuestEntryProofs` | `TypeCorrect`, `ActivationsAlwaysBalanced`, `InterruptionAlwaysNamed`, `InterruptionAlwaysOwned`, `DeadlineNeverMoves`, `EngineAlwaysFollowsEntries`, `ClosedAlwaysOnlyUnwinds` | guests, signals, policies, clocks, stack bounds |
| `EventLoopProofs` | `CallsAlwaysAccounted`, `IdleAlwaysMeansSettled` | tasks, waiters, awaits and the number of calls each makes |
| `EventLoopProofs` | `OneTaskNeverSleeps` | the same, where one task owns all the waiters |
| `LoansProofs` | `TypeCorrect`, `TableAlwaysExact`, `ExclusiveAlwaysAlone`, `SlicesAlwaysInPlace`, `GuestAlwaysBesideExposed`, `LoansImplementBorrowing` | slices, buffers, storages, stack bounds, and whatever is `Patched` |
| `LoansProofs` | `GuestAlwaysRunsAlone` | the same, where nothing is: `Patched = {}` |
| `SharedStreamProofs` | `TypeCorrect`, `AlwaysServedInOrder`, `ErrorAlwaysLast`, `NeverBorrowedByTwo` | streams and numbers of calls |
| `StreamPipeProofs` | `WritesAlwaysTrue`, `OpenAlwaysOwesNothing`, `ReadsAlwaysAccounted`, `OnlyEndsEverLose` | numbers of chunks and troubles, capacities of the channel |
| `ImportsProofs` | `TypeCorrect`, `OneOwnerEach`, `LocatedIsSourced`, `NothingHidden`, `BindingsAlwaysSound`, `DenialHolds`, `InstancesAreBound`, `BindingsNeverChange` | names, modules, aliases, bundles and nestings |
| `HostObjectsProofs` | `ReferencesAlwaysStable`, `AlwaysOneClassPerType`, `AlwaysRealisedAsDeclared` | modules, classes, cells, initialisers, depths of nesting, and every way modules and classes refer to each other |
| `TranslationProofs` | `AlwaysResolvesAsReference` | words, referrers and specifiers of any length |
| `TranslationProofs` | `ItemsAlwaysInOrder` | numbers of calls of `next` |
| `TranslationProofs` | `AlwaysKeepsToBounds` | worlds of buffers and views, element sizes, slices, indices and lengths of histories |
| `TranslationProofs` | `ArgumentsAlwaysInPlace` | functions of any parameters and calls with any values |
| `TranslationProofs` | `BundlesAlwaysWhole` | files, paths and numbers of files |
| `TranslationProofs` | `ErrorsAlwaysArriveWhole` | errors, thrown values, classes of exceptions, guests and numbers of frames |

The assumptions are the named `ASSUME`s of the modules and what the table says, no
more. They bound a size from below (a channel has room for one chunk), say that names
differ from the reserved ones, or that a registration of an initialiser is one of its own.

* **GuestEntry.** `ActivationsBalanced` relates a counter to the number of frames on
  the stack; every push and pop is a lemma on that cardinality. It is inductive
  with the types. That the host never sees a bare interruption needs that the frame
  which passes it on belongs to, or lies above, an activation of a due guest:
  deadlines do not move and signals stay cancelled, so a due guest stays due
  until its last frame, which names the error. `InterruptionAlwaysOwned` is that
  invariant seen from the interruption. About the engine a step has one of three
  shapes: a frame begins, the innermost ends, or the frames stay (`EngineShapes`). The
  frame at the bottom of the stack entered the engine and took its lock, and no other
  frame did (`Rooted`), so the lock is given back when the stack is empty and not before;
  whoever is on the stack lives and is registered (`Kept`), and a policy that can become
  due came with the condition (`Hooks`).
* **EventLoop.** A call is in one place: in flight, among the settled or already given
  to its function. The invariant `IInv` says so of the sequences (`Distinct`, and their
  members by the phase of the await each call is made for), so that a function whose
  call is published is one that waited for it. Publishing filters a sequence
  (`Kept`); what it keeps is an induction over a recursive function, which the
  library's induction theorems cannot be used for, as they take an operator: `NatSets`
  derives what is needed from the well-foundedness of `<`, for sets, and `KeptIs` unfolds
  the function with it. `IdleMeansSettled` speaks of a step, and `IdleStep` shows it
  from the invariant before it. For `NeverSleepsOnWork` the invariant is `Attentive`: the
  waiters a poll has left behind wait for nothing that could go on without a call in
  flight, and every call in flight wakes the task (`Quiet`), but those overlooked and what
  a failed step stranded; between the two halves of a step, every call in flight that the
  first half reached has this task's waker (`Poised`). It holds
  because the step that leaves a waiter behind polls every host future with this task's
  waker; a second task would replace it, which is finding 2 and the reason for the
  hypothesis.
* **Loans.** The table is exact and writers are alone, together and without any
  assumption (`TableInv`). That slices stay in place needs more: a slice that was not
  exposed belongs to the host frame on top (`SlicesOnTop`), for a guest frame is only pushed
  when there is none, or by an operation that exposes all there are. That guest code runs
  beside no slice at all is a theorem only where nothing is `Patched`, and finding 3 shows
  that this is needed. The refinement maps every step to a step of `Borrowing` or to a
  stutter; an operation that does not ask is a step by which guest code intrudes, which
  `Borrowing` has when `MayIntrude`.
* **SharedStream.** `ServedInOrder` alone is not inductive. The chain of turns
  (`TurnsChained`: call *c* waits for call *c - 1*) makes at most one call have its
  turn, `TurnsTaken` counts what the stream has yielded, and `OpenServed` says that
  while the stream is open every ended call had an item.
* **StreamPipe.** One invariant with a part per actor. `Pipeline` orders what lies
  between the two ends: the channel, the chunk in the sink and the queue of the
  WritableStream hold chunks in the order of their numbers, the request to close last,
  and a promise is pending exactly while its request is queued or at work.
  `WriterSound` says what the host's phase and its kept promise know of that, through
  every stage of an operation that may be dropped in between; `ReaderSound` has the same
  for the other end, and `Accounted`: what left the channel is returned, stored, in
  the answer, or lost. A step of the writer changes nothing the reader looks at other
  than the channel, and the other way round, so each part is preserved by a lemma
  per action of its own side and one for all of the other (`ElsewhereKeeps`,
  `WriterElsewhere`). That a reader which sees the end has seen everything needs both:
  a sink closes its sender only after it has passed on what it holds.
* **Imports.** Every property is a consequence of one invariant in two parts.
  `Structure` says of the catalogs that each name has one owner, that an alias leads
  to a module of the same catalog, and that the roots of a mounted bundle
  are bound by neither the guest nor the runtime other than by that bundle (`Apart`);
  it is preserved because every insertion asks all catalogs involved. `Loaded` says
  that what the engine has is what the bindings find and is not denied. Two
  lemmas, `MountKeepsSources` and `MountKeepsCanonical`, say that mounting a bundle the
  check admits changes what a name stands for only where it stood for nothing;
  `BindingsStable` and the step of `Loaded` for `Load` both rest on them.

* **HostObjects.** `ReferencesStable` follows from two parts: what each borrower
  remembers is what its cell has (`BorrowersRemember`), and two borrowers of one cell are
  both readers (`Apart`). Realisation shares the stack with the borrowers; one lemma per
  way it changes the stack shows that it takes frames away or lays frames of its own on
  top (`KeepsBorrowers`), so that a borrower is never moved or forged.
  `OneClassPerType` needs to know that a class which is being realised, and which its own
  realisation has not asked for, is not in the
  registry yet and stands on the stack once, and that a module which waits for a class
  has exactly that class above it (`Linked`), so that what it gets is what the registry
  has; failures only take frames away. Everything handed out, through exports,
  the slot of pending exports or objects, is then an entry of the registry (`HandedOut`).
  `RealisedAsDeclared` adds `Declared`: what a module on the stack has made so far is the
  first of its members in their order, its state is one no other module has, on
  the stack or loaded, and it has the state it needs once it makes anything; the
  initialisers that have run are the first of those registered. The slot of pending exports
  is shared, and `SlotIsUnique` with `Linked` is what shows that the module on top finds
  its own in it.
* **Resolver.** The loop of `join` keeps a stack of segments and the reference counts over
  the whole path, so the invariant has to say where the kept segments stand in
  it: `Marks` gives their places, which are the words that no climb up to here closes,
  and how many climbs each is away from being closed. A word opens one more place, a climb
  closes the last. When the loop refuses, the count of the path shows that it
  has left its root.
* **Iterators.** `ItemsInOrder` needs `Promised` (a kept promise is the next item's, and
  the only one the application does not have) and `Closing` (who closes has the
  iterator, which nobody closed before).

* **Views.** The invariant is `SoundWorld`: whatever guest code does to buffers, those
  that are gone are empty and typed arrays stay aligned. Whatever is asked of a view
  leaves such a world, with the same views and as many buffers (`Reaches`). From it each
  access is a lemma on one outcome: `OwnBytesOfView` says when `Bytes::new` gives a range
  and which if guest code has no say in it, `BytesAsked` that any range lies within
  a buffer as it is when the accessors have run, `BorrowAsked` joins the two, `WholeElements`
  says that the elements divide the view's own range, `OffsetFits` that an index whose product saturates is
  refused like one that is merely too great. A first form of the property said that a view
  without bytes is always shown; the proof did not go through for such a view beyond
  the end of a buffer that has shrunk, which the code refuses, and the run now has one.
* **Callables.** The cursor stands on the number of the parameters before it that consume
  an argument, until a rest has taken all that are left (`CallableInv`). What makes
  this enough is that no consuming parameter follows a rest (`RestIsLast`), which is what
  `Callable::new` checks. `NothingLentIsKept` is about async functions: none of their
  parameters is borrowed, so that what they capture outlives the call.
* **Bundles.** A builder has failed exactly when some file it was given cannot be inserted
  or has the key of another (`Broken`); while it has not, it has each of them under its
  own key. `OneFileMore` says what a file more changes of that reference, `Attempted` what
  it changes of the builder.
* **Exceptions.** An exception and the value it was made of stand for each other as long
  as the value can be caught (`Standing`), so that raising it at home and capturing it
  again changes nothing (`StandingRaised`). `Arrives` says what an error is after the frames
  it has passed: the one it began as while all of them are of its own guest, a plain
  error with its name and message from then on. An interruption stays one, as what is
  raised for it cannot be caught.

These are stated of the specifications of the six modules alone. In the run
`translations` the variables of each take only these steps, since `Translations` sets one of
them going and leaves the variables of the others as they are; that composition is not
proved, as `Translations` reaches recursive operators.

What stays with TLC:

* liveness (`DueEntriesEnd`, `WaitersEnd`, `EveryCallEnds`, `OperationsEnd`): fairness and
  ENABLED are out of the prover's reach;
* `RoundTrips` and `ReadsAgree`: types nest, so that what `ToGuest`, `FromGuest` and the
  references of both compute is recursive, and the prover has neither recursive
  operators nor induction over data;
* `ExpansionsSound`: what the macros declare is folded over the items of a block and
  compared with what a guest finds of them, which is induction over data again.

Every other invariant and action property of a passing run is a theorem.
`NeverSleepsOnWork` is one for one task only; with two, finding 2 is what happens.

## Not modelled

* A job of another guest runs while only the guest that is driven is active
  (`RunJob` of `GuestEntry` has it); the other's own deadline and signal do not stop it,
  that of the driven guest does. Nothing is documented about it, so no property is.
* Evaluation options, garbage collection, the engine's loader, the modules of LLRT,
  native modules beyond their names: they hand over to the engine.
* Handles that only forward to an object of the engine, guest classes and exception
  classes of the macros, the text of generated code, the frames of a stack trace, the
  wording of errors; NaN and negative zero; keys that are symbols; views that track the
  length of their buffer.
* The source of a module and its transpiling: `Bundles` knows whether it parses.
* The facade crate re-exports, and the fixtures are tests.
* A step of the event loop taken inside another step.

## Where to go on

`Declare` merges one property after the other into a namespace: as a machine of its own, the
way `Bundles` adds files, the part of `ExpansionsSound` about namespaces could be proved.
Of the code, a step inside a step and guest classes over host classes are the next to
model.
