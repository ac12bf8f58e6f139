# A TLA+ verification of Djinni

Djinni has two halves: a *generator* (Scala, `src/src/source/`) that reads an
interface definition and writes C++, Java, Objective-C, JavaScript, Swift, Valdi
and C code, and a *support library* (`src/support-lib/`) that the written code
runs on. This directory models the parts of both in which order, concurrency or
ownership matters, checks them with TLC on small instances, and proves what
matters most of them with TLAPS for instances of every size.

Paths below are relative to `src/support-lib/` where they begin with a language
directory (`cpp/`, `jni/`, ...), and to `src/src/source/` for `*.scala`.

## 1. The system

### Support library

| Part | State it keeps | Operations | What makes it hard |
|---|---|---|---|
| Proxy cache (`proxy_cache_impl.hpp`, `proxy_cache_interface.hpp`) | `m_mapping` from (type, impl identity) to a weak proxy, `m_mutex` | `get()`, `remove()` from `~Handle`, an allocator called under the lock | a weak reference expires before `remove()` runs; a destructor can nest in `remove()`; keys borrow a reference that a proxy owns |
| C++ futures (`cpp/Future.hpp`) | `SharedState`: value, exception, handler, mutex, condition variable; one pointer in each promise and future | `setValue`, `setException`, `~Promise`, `wait`, `get`, `then`, `combine`, `whenAll`, `whenAny`, coroutines | handlers run on whichever thread comes second; chains; broken promises; a counter that wraps |
| `SharedFuture` (`cpp/SharedFuture.hpp`) | stored result, queue of coroutine handles | `await_*`, the continuation on the source, `then`, `thenShared`, `toFuture` | suspension racing the result |
| C API objects (`cpp/djinni_c.cpp`, `djinni_c_types.cpp`, `Outcome_c.cpp`) | `_ref` of each object, slots of arrays, keyval arrays, outcomes; the shared empty array | `retain`, `release`, `new`, getters, setters | releases cascade through containers, in two threads |
| Future adaptors (`cpp/Future_c*`, `jni/Future_jni*`, `objc/Future_objc.hpp`, `wasm/Future_wasm.hpp`, `swiftxx/Future_swift*` with `swift/DJFuture.swift`, `valdi/Future_valdi.hpp`) | a promise on the heap per adaptor, owned by a continuation or by the callback that sets it | one adaptor to, and one from, each language | a continuation may run before the adaptor returns; exceptions and conversions that fail |
| Java, Objective-C futures (`Future.java`, `Promise.java`, `DJFuture.mm`) | a value and a handler behind a lock | as in C++ | as in C++ |
| JNI support (`jni/djinni_support.*`) | attached threads, class table, both proxy caches | wrappers for references and exceptions; `jniInit`, `jniGetThreadEnv`, `jniShutdown` | exceptions that cross a frame; a failing `NewObject` under the cache mutex; threads that end with other destructors around the one that detaches them |
| `NativeObjectManager.java` | phantom references and one thread | register, destroy collected proxies, stop | the thread stops |
| WebAssembly and Valdi runtimes (`wasm/djinni_wasm.*`, `valdi/djinni_valdi.*`) | two caches of their own: weak JS proxies with a count, weak C++ proxies; an exception pointer | proxies both ways, errors both ways, the event loop | proxies that expire, are collected and are finalized at three different times, while the object gets a new one |
| Swift runtime (`swift/`, `swiftxx/`) | two dictionaries without a lock | proxies both ways, calls through a protocol, values as composites of `AnyValue` | `deinit` on any thread; members found by position only |
| Marshalling, translators (`*/Marshal.hpp`, `cpp/*_translator*.hpp`, `objc/`, `swift/`) | none | conversions of one value | null, malformed text, dates finer than a unit, nested optionals, outcomes |
| `DataRef` (`cpp/DataRef.hpp` and one implementation per platform) | a reference to a foreign object, and memory that one of the two frees | made from a container, taken over, passed on, collected | the foreign object cannot be made; the copy on the heap that Swift takes over |
| Errors (`jni/djinni_support.cpp`, `objc/DJIError.mm`, `wasm/`, `swiftxx/`, `cpp/djinni_c.cpp`) | the error in flight; what the foreign side kept of it | throw, catch and translate at each border | what is not a `std::exception`, what is kept and thrown again later |
| Generated glue (`src/test-suite/generated-src/`, one directory per target) | none | for each record, enum and method of the IDL the converters it calls, in order | six files are generated apart and have to agree |
| Library loader, `Outcome`, provider, `tl::expected` | little | holding values | - |

How they meet. A call that carries an object across the boundary asks the proxy
cache for the proxy; the proxy's destructor (or, in Java, the
`NativeObjectManager`) tells the cache when it is gone. A call that returns a
future puts an adaptor on it: a continuation on the future of one language that
holds a promise of the other, and calls the marshaller of the result. Adaptors
are built from `then()`, so everything the futures guarantee of continuations is
what the adaptors stand on. The glue of a call converts each argument, calls, and
converts the result back; what is thrown on one side is caught by that glue and
raised as what stands for it on the other. `SharedFuture` is a continuation with a queue behind
it, `combine` a continuation on each of several futures; the two are often used
together.

### Generator

| Part | State | Operations | What makes it hard |
|---|---|---|---|
| Command line and run (`Main.scala`) | about 130 option variables, values derived from them | parse, derive, parse the IDL, apply `@flag` lines, resolve, generate | the order of these |
| IDL parser (`parser.scala`) | `visitedFiles`, `fileStack` | `@import`, `@extern`, `@protobuf`, `@flag`, declarations | diamonds, cycles, a file named in two ways |
| Resolver (`resolver.scala`) | scopes | names, type expressions, constants | what it does not look at |
| File writing (`generator.scala`) | `writtenFiles`, the list of outputs | `createFile`, `generate` | a run that fails half way |
| Back ends (`*Generator.scala`, `*Marshal.scala`) | references per file | one file or more per declaration | what a file includes must exist, what one declares another must define |
| Bazel rules (`src/bzl/`) | the list of outputs | a run that lists, a run that writes | the two must agree |

`PROJECT.json` lists every component with what is modelled of it and why the
rest is not, and every hazard at its line with the properties that cover it.

## 2. The modules

```
 ProxyRegistry <-- refines -- ProxyCache  <- ProxyCache_proofs
       ^--- refine --- ScriptJsProxies, \  <- ForeignProxies_proofs      \
                       SwiftProxies     /                                \
 ScriptCppProxies <- ForeignProxies_proofs                                \
 DataRefs,      \                                                         > MCSupportLibrary
 JniThreads,     > <- SupportLibrary_proofs                              /
 CrossingErrors /                                                       /
 IdlTypes -> TestSuiteIdl, Glue* -> Marshalling -> Calls ---------------/

 FutureContract <-- refines -- FuturePromise  <- FuturePromise_proofs
 FutureCombine, SharedFuture -> FutureComposition  <- FutureCombine_proofs  \
 FutureBridge  <- FutureBridge_proofs                                        > MCFutureFlows

 CObjects  <- CObjects_proofs

 IdlParser -> Compiler -> FileWriting  <- Compiler_proofs
                              ^-- extends --------------\
 Resolver -> CppBackEnd -> JavaBackEnds, ObjcBackEnds,    \
                           WebBackEnds, NativeBackEnds --> Generation (MCGeneration)
```

The `MC` modules add only what TLC needs: symmetry sets, sets of cases, and, in
`MCSupportLibrary` and `MCFutureFlows`, the choice of one of several parts that share no
state. A behaviour of those is one of the part that `active` (or `flow`) names; the others
stay in an initial state and take no steps. `<-` above is a module of proofs.
Definitions that begin with "Mutant" in their comment are variants of the
definition that follows them with a plausible bug in it; `PROJECT.json` pairs
each with the property that notices it. They take no part in any specification.

### ProxyCache, ProxyRegistry

`mapping` and `mutex` are `m_mapping` and `m_mutex`; `phase` is the life of a
proxy; `keyRef` remembers whose impl reference a map key was made from, which C++
does not check; `refs` and `temp` are the strong references of the program and of
a frame of `get()` or `remove()`. `get()` is `CallGet`, `GetLock`, then `GetHit`
or `GetMiss`, `Alloc`, `Emplace`, and `GetReturn`; `remove()` is `RemoveLock`,
`RemoveUpgrade`, `RemoveErase`, and `RemoveRelease`, which runs outside the lock
and may destroy a newer proxy, whose destructor then nests. `Unwind` is the return
of those destructors. The same module covers proxies counted by `shared_ptr`
(`Drop` destroys) and Java proxies (`Collect` by the garbage collector, `Reap` by
the thread of `NativeObjectManager`): the constant `Collected` chooses.
`CountedNext` is
what is left of `Next` where nothing is collected. `ProxyRegistry` is the promise the
cache makes its callers: an atomic table with at most one live proxy per impl. `ImplementsRegistry` is the refinement: an impl's
live proxy is found by its `key`, and the frames' `temp` counts as held. `JsImplementsRegistry` and
`SwiftImplementsRegistries` say the same of three caches that are not this one; there an object has a proxy while
the proxy can be reached (JavaScript) or while it is allocated (Swift), and what the cache still counts, or has yet to finalize, is
left out.

### ScriptJsProxies, ScriptCppProxies, SwiftProxies

WebAssembly, Valdi and Swift do not use the generic cache.

`ScriptJsProxies` has C++ objects seen from JavaScript. `cppProxyCache` is the map of a weak
JS reference and a count for each address; `jsLife` follows a proxy from reachable to
collected (its weak reference is empty) to destroyed (`nativeDestroy()` has run);
`nativeRef` is its `shared_ptr`. In between, the object may be passed again and get a new
proxy, whose entry counts the old one that is still to be finalized. Addresses of objects
are used again once nothing owns them.

`ScriptCppProxies` has JavaScript objects seen from C++: a `weak_ptr` per JS object, whatever
interface it was passed as, which expires before the destructor takes the mutex. The
cast of the upgraded proxy to the interface that is asked for is a step of its own,
outside the lock. `emplace()` does not replace an expired entry (`djinni_wasm.hpp:577`): the new
proxy is then not cached at all, or its entry is erased by the destructor of the old
one. `overtaken` remembers the objects to which that has happened, and
`OneCppProxyPerObject` is asked of the others.

`SwiftProxies` has both dictionaries of the Swift runtime: `cppMap` of unretained pointers to
`CppProxy`s, `swiftMap` of weak references to `ProtocolWrapper`s. They have no lock, so the module
has one thread: two are undefined behaviour in Swift (a hazard without a property).

### DataRefs, JniThreads, CrossingErrors

`DataRefs` follows memory blocks: a C++ container that `takeOver()` moves to the heap and wraps
in a foreign object with a finalizer, or memory that a foreign object brings; `takeOver` is
where an unfinished call is, since making the foreign object can fail in two places. A
`DataRef` counts as a reference to the object; in Swift it crosses as a copy on the heap
that the receiver takes over (`crossing`). Addresses are used again.

`JniThreads` has the threads that `jniGetThreadEnv()` attaches: the thread-specific value whose
destructor detaches, the other destructors that run before and after it and may attach the thread
again, and the rounds that `pthreads` grants.

`CrossingErrors` has a stack of frames, C++ and foreign in turn. A frame throws; the glue of
that border takes what it catches and raises what stands for it; foreign code may catch and keep
an error object and throw it later. What each platform makes of an error that it got from the other
side (unwrap the original, wrap a copy, replace it) is an operator per platform.

### IdlTypes, TestSuiteIdl, Glue*, Marshalling, Calls

`TestSuiteIdl` is the declarations in `src/test-suite/djinni/*.djinni` (enums, records, interfaces)
as tables, and `GlueJni`, `GlueWasm`, `GlueObjc`, `GlueSwiftxx`, `GlueSwift` and `GlueC` are, for each
generated file of a target, the converters that it names: of each field by position or by name
as the file reads them, of each parameter and result, for calls into C++ (`calls`) and for calls
of a foreign implementation (`proxied`). Nothing in a glue table was written from the IDL: the files
are, and that they agree is what the run checks. Constants of records and interfaces do
not cross and are left out.

`Marshalling` says what a converter makes of a value, in both directions (`FromCpp`, `ToCpp`), per leg
of a border; Swift's border has two legs, C++ to `AnyValue` (`swiftxx`) and `AnyValue` to Swift
(`swift`). A scalar is its class and an identity, so that a misplaced one shows; malformed text,
dates (in half milliseconds), null and the two sides of an outcome are modelled by what each platform
does to them. `Calls` is one call or callback: `Go` leg by leg, `Answer`, `Come` back; `GoFails` and
`ComeFails` where a conversion throws, asserts or crashes. What may fail is narrow (`OnlyMalformedTextFails`): a value into
which C++ put text that is not UTF-8, in JNI and Objective-C; and the same value with its text well formed is sent too and
crosses, so bad text hides no other failure. Besides the methods there are echoes: a record, or a
value of a builtin type in a nesting that converters treat apart, sent over and returned.

### FuturePromise

One variable for each field of `SharedState` (`result`, `handler`, `mutex`) and
for the pointers of promises and futures (`promise`, `futures`). A critical section is
one step: nothing inside it blocks or calls user code - except in `then()` when it
overwrites a stored handler (`ThenReplace`): the old continuation's promise is broken
and its own continuation run while the mutex is held, so there `mutex` and `holding`
span steps. A `then()` makes a state whose promise belongs to the
continuation, and resolving runs the chain on the same thread. `Producers` are
threads that never block in `wait()` or `get()`: if every thread could, a program
would deadlock by its own fault, and no liveness property would hold.

### FutureCombine, SharedFuture, FutureComposition

`combine()` is a loop (`Begin`, `Hook` for each input, `Return`) that runs against the
resolution of the inputs; `Decrement` and `Fire` are the two halves of a
continuation. `counter` has the width of `size_t` (`CounterMod`), because `whenAny()`
starts it at one and later inputs take it below zero. `DropContinuation` is what
`ThenReplace` of FuturePromise does to an input that someone else also has a future of.
`SharedFuture` models the coroutine protocol of `SharedFuture.hpp`.
`FutureComposition` joins them: the continuation that the constructor of
`SharedFuture` puts on the combined future can run once the combined promise is
resolved, and consumers then see its outcome.

### FutureBridge

`FutureBridge` describes each adaptor by a record of the ways in which adaptors
differ: whose futures it continues, whether its continuation hops to the main
thread, looks for errors, converts, frees its own promise, or asks for its future
last. What they mean is given by a chain of up to `Length` stages,
alternately to and from the platform's language (starting on either side), built by
one thread while another resolves the first future. Continuations called
inline nest, like the stack does; posted ones wait for the platform's event loop
or queue.

### CObjects

Objects with a count, slots, and handles that threads own. A call to
`release()` or to a setter leaves a list of steps (`todo`): each decrement is atomic, and a
destructor puts the releases of its slots in front, so two cascades interleave step
by step. Programs obey the API's rules: they release only what they own, and use
one array from one thread at a time. Cyclic containers are not excluded; `NoLeak`
asks that an object be freed when *nothing* refers to it, which says nothing about cycles.

### IdlParser, Compiler

`IdlParser` is `Parser.parseFile` with its recursion as a stack of activations.
The contents of a file are chosen when it is read, so a run covers every graph of
references. `Compiler` is `main()` around it: arguments, values derived from them,
the traversal, the `@flag` lines, the `Spec`, resolution. Five switches stand for the
kinds of option there are: plain, one that provides the default of another, and one
composed into another.

### FileWriting

What `generate()` and `createFile()` of `generator.scala` do, around back ends of which nothing is known: `plan` is any
sequence of calls of `createFile()`, each with a path, whether the text of the file comes to an exception before the call or
inside it, and whether it is made for one declaration. A call lists its path, and writes it unless the back end has
written that path, up to case (`ListOnly`, `Write`, `RefuseToWrite`, `ThrowBefore`). An exception of a declaration is wrapped and ends the run with
a stack trace; a `GenerateException` of TypeScript, YAML or the module files is reported. `RunAgain` is the second run of
the Bazel rule, with the list of the first, which had `--skip-generation`, as `inventory`. `LowerCased` is any function of
a name. Each back end has folders and a `writtenFiles` of its own.

### Resolver, the back ends, Generation

`Resolver` holds the declarations of a program as records and gives the verdict of
`resolver.resolve`: `ok`, `rejected` (an error with a place) or `aborted` (an exception
that nothing catches). A declaration keeps its kind, type parameters, languages,
deriving, and the types of its fields, methods and constants; members are numbered.

`CppBackEnd` and the modules beside it say what the `generateEnum`, `generateRecord`
and `generateInterface` of each back end write, as a sequence of files. The text of a
file is reduced to what other files depend on: its path, what it includes, the types
it provides in full and those it needs in full (not behind a forward declaration), the
functions it defines and those it declares for another back end or calls, and whether
an `AssertionError`, a failed cast or an endless recursion ends the writing of it.
`CppBackEnd` has the operators they share; `JavaBackEnds` has Java and JNI;
`ObjcBackEnds` Objective-C, Objective-C++ and the bridging header; `WebBackEnds` embind,
Valdi and TypeScript; `NativeBackEnds` C, Swift and Swift's C++ side.

`Generation` puts the resolver and the back ends into `FileWriting`. `ResolveProgram` gives the files their declarations
and takes the verdict; of a program that resolves, `Plans` is the calls that the back ends make, declaration by declaration
(`Jobs`). Each action of `Generation` is one of `FileWriting`, of which it says more: `ResolveProgram` is `StartWriting` with the
calls of the back ends for a plan. Paths are triples of directory, name and extension: identifier converters are the identity.

What the generator accepts and does not handle is written down as three exact lists, so
that any further case, and the disappearance of any of these, is noticed:

`Unhandled` - the resolver lets it through, and a back end throws:
- a type parameter used in a field or a method (JNI, Objective-C and others: "not
  applicable", "should not happen");
- a constant of type `optional<record>`, or a record constant with such a field
  (`asInstanceOf[MDef]` of `MOptional`);
- a record that contains itself through optionals (`CppMarshal.moveOnly` does not end);
- a protobuf field in a record deriving `eq` or `ord`, and, with Android parcelables
  enabled, an array or protobuf field in a record deriving `parcelable` ("Unreachable");
- a protobuf type without Objective-C class as argument of a list, set or map.

`IncompleteOutput` - it is written, and some file names a header that nothing generates, or
needs a type that it does not see:
- an enum constant whose type is `optional<e>`, which is qualified as `optional::OPTION`;
- in WebAssembly, an enum inside a record constant: its helper is not included;
- records that mention each other; in C, also records and interfaces that do;
- a YAML manifest without the C++, JNI, Objective-C and Objective-C++ back ends, whose sections
  it always has; and of a record extended in Objective-C, whose private header is
  generated as `<name>_base+Private.h` and named `<name>+Private.h`;
- extended records kept in a directory of their own, for back ends that include them as if
  generated (WebAssembly, Valdi, C, Swift's C++ side, YAML, the bridging header).

`Undefined` - a function that one file declares or calls and none defines:
- WebAssembly's initialisation of `optional<e>` constants, as above;
- an interface without `+c` that has static methods, or constants that Objective-C turns
  into class methods: nothing implements them;
- in Valdi, static methods none of which is for JavaScript: `djinniInitStaticMethods()` is
  declared and not defined;
- with `jniUseOnLoad`, static methods that are not for Java: the table names functions that
  are not generated.

## 3. The runs

| Run | Instance | Distinct states | What it shows |
|---|---|---|---|
| `proxy_cache_counted` | 2 threads, 2 impls, 3 addresses, counted proxies | 25 569 | one live proxy per impl, valid keys, no re-lock, no stale entry at rest; under fairness `get()` returns and destructors end |
| `future_one_owner` | 3 threads, one of them a producer, 2 states, 1 future each | 30 947 | one `get()`; every promise of a chain is resolved, every waiter returns |
| `future_shared` | 2 threads, 3 states, 2 futures each, no restriction on their use, symmetry | 954 201 | no continuation is lost, doubled or early; the promises implement FutureContract |
| `future_flows` | composition: 3 inputs, counter mod 8, 3 consumers, both combinators; bridge: 4 stages, every platform, both ends | 72 732 | the combined promise is set once and not early, each consumer agrees with the others and is served (or told, if a continuation was lost); values stay values and errors errors, promises are freed once set, the chain settles |
| `c_objects` | 2 threads, 2 objects and the empty array, 2 slots, 2 handles per thread, symmetry | 836 686 | exact counts, nothing dangling, no leak |
| `generation` | 3 IDL files and a manifest, 2 references each, symmetry; families of declarations; 14 back ends | 166 900 | the traversal is exact; crashes, missing headers and missing functions are those listed in section 2; the list agrees with the files, and a run that writes them ends well exactly if nothing throws or collides |
| `support_library` | see below | 176 189 | the cache implements the registry, also when an allocator fails, and so does that of JavaScript proxies; the caches of JavaScript and Swift keep one proxy per object; shared bytes outlive their references and are freed by one owner; no thread dies attached; an error comes back as itself; each argument, result and value of every call of the test suite arrives, on every target |

Four more runs end in a violation: the findings of section 5.

**Instances of `support_library`.** One part is active at a time, so the states add up and do
not multiply.
- *cache*: 2 threads and the cleanup thread, 2 impls, 3 addresses, collected proxies, allocators
  that may fail in either of two places. In `proxy_cache_counted` proxies are counted.
- *js*: 2 objects, 3 proxies: one waiting for its finalizer, its replacement, and one more of either.
- *cpp*: the JavaScript thread and one worker, 1 JS object, 2 interfaces, 3 proxies: a dying one, its
  successor, and the one that comes after the entry was lost.
- *swift*: 2 C++ objects and 2 proxies, 2 keys and 2 wrappers: enough to use each address again.
- *data*: each of the four implementations, 2 buffers, at most 2 references of a kind.
- *jni*: 2 C++ threads and a Java one, 2 rounds of destructors, the fewest in which a
  thread can be attached again and still be detached.
- *errors*: six platforms, 2 C++ errors and a foreign one, and each platform's thing that is not an
  error; 4 frames, so that an error crosses, is kept, and crosses back.
- *calls*: every method of every interface, as a call and as a callback, and echoes of every record and
  of fifteen nestings of builtin types, on five targets (and Valdi for the types), with four samples each: one
  plain, one with everything empty, one at the edges (dates before the epoch and finer than a unit, the errors of
  outcomes), and that one with malformed text.

**Why the other bounds are enough.** *Proxy cache*: three addresses allow a
dying proxy, its replacement and one of another impl, which is what a late `remove()`
can meet; the cleanup thread makes two removes overlap a get. For
more, see the proofs. *Futures*: two states give one link of a chain and three
give two, so a resolved handler can itself find or leave a handler; a third
thread allows a waiter, a resolver and one more. `MaxFutures = 2` is the least that lets
two consumers share a state. *Combination*: three inputs let the counter of `whenAny()` go
0, -1, -2, and allow one visited early, one late, one meanwhile; `CounterMod` need
only exceed the inputs. *Bridge*: four stages are two round trips, for Swift (three
adaptors) one and a third. *C objects*: two containers that can hold one another and
themselves twice; two threads suffice for a race on a count. *Parser*: three files make
every diamond and every cycle of length up to three; two references per file make
"named twice" and "named in two ways". *Generation*: a program of three files or more declares
nothing, as its content does not matter to the traversal; of two files, the root uses one
declaration of the other (enum, record, interface, protobuf; imported, external or from a
manifest) in every position; a root alone is a member of one of the families of MCGeneration:
a record with one field of each type, extension and deriving; an interface with one method of
each signature, in each set of languages, with constants; and pairs that mention each other, have
type parameters, or names that differ in case. One field or method is enough, since back ends
treat members one by one and their union is taken; two declarations are, for what they say of each
other. Each program is run with all back ends, with the list first and the options that change what is
written, and with the native ones alone; a back end comes with the one that implements it (Java
with JNI, Objective-C with Objective-C++).

`CHECK_DEADLOCK FALSE` appears where a program may stop for good: when all promises
are resolved, when the chain is built or the consumers are served, when the generator has ended, and in
`support_library`, where calls end, threads end, an error ends the process, and two steps
lock a mutex that their thread holds (the failing allocator and the failed cast of section 5).
`c_objects` and `proxy_cache_counted` check deadlock too.

**Fairness.** Only what the code or its platform gives:
- A thread that is inside a call goes on (`WF`, or `SF` where its step needs a
  mutex that others take again and again: `GetLock`, `RemoveLock`, `Step` of
  FuturePromise). This asks of the mutexes that no one thread starves for ever.
- `NativeObjectManager`'s thread serves its queue (`SF` on `Reap`): it loops on
  `remove()` until `stop()`, which the models leave out (a hazard lists it).
- In FuturePromise a program resolves or destroys every promise it makes, as long as
  a thread is free to. `~Promise` resolves too, so a program that lets go of its
  promises satisfies this. Spurious wake-ups get no fairness.
- In FutureComposition and FutureBridge nothing is assumed of the program: not that
  inputs are resolved nor that consumers come. `ConsumersServed` and `ChainSettles` say
  what happens once they are. Event loops and queues serve what is posted to them.
  `FlowFairness` is the fairness of the two, each where its part runs.

## 4. The proofs

Proved by `tlapm` for all values of the constants that satisfy the named assumptions
(`CacheAssumption`, `FutureAssumption`, `CombineAssumption`, `BridgeAssumption`, `JsProxiesAssumption`,
`CppProxiesAssumption`, `SwiftAssumption`, `DataRefsAssumption`, `JniThreadsAssumption`, `ErrorsAssumption`,
`ObjectsAssumption`, `ParserAssumption`: null values are not among the things they stand for, sets that are
counted are finite, bounds are numbers, and what is told apart is different):

| Theorem | Says |
|---|---|
| `ProxyCache_proofs`: `Invariance`, `TypeCorrectness` | the inductive invariant, and `TypeOK` |
| `OneProxyPerImpl` | `Spec => []OneLiveProxyPerKey` |
| `KeysStayValid` | `Spec => []KeyReferencesValid` |
| `HeldStayCached` | `Spec => []HeldProxiesAreCached` |
| `RestsClean` | `Spec => []QuiescentMapIsLive` |
| `NoRelock` | `Spec => []NoSelfDeadlock`, if no allocator fails after it built a Handle |
| `CacheIsRegistry` | `Spec => ImplementsRegistry`: the cache implements the atomic registry of ProxyRegistry |
| `FuturePromise_proofs`: `HandlersMeetResults`, `OneOwnerOfContinuations` | `Spec => []HandlersMeetResult`, `Spec => []ContinuationOwnedOnce` |
| `ResultsTakenOnce` | `Spec => []ResultTakenOnce` |
| `FuturesKeepContract` | `Spec => KeepsContract`: promises and futures implement FutureContract |
| `FutureCombine_proofs`: `CombinedSetOnce`, `CombinedNotTooEarly`, `CombinedNeverBroken` | `FiresOnce`, `ResolvedNotTooEarly`, `NeverBroken` |
| `CompositionRefinesParts`, `ComposedConsumersAgree` | `ComposedSpec => Spec /\ Shared!Spec`, and so `[]ConsumersAgree` |
| `FutureBridge_proofs`: `OutcomesStayFaithful`, `PromisesFreedOnceSet` | `[]OutcomeFaithful`, `[]FreedOnlyOnceSet`, for chains of any length, if every case satisfies `Works` |
| `ForeignProxies_proofs`: `JsProxiesStayConsistent` | `JsSpec => []JsProxiesConsistent` |
| `OneCppProxy` | `CppSpec => []OneCppProxyPerObject` |
| `SwiftMapsExact` | `SwiftSpec => []MapsHoldLiveProxies` |
| `JsCacheIsRegistry`, `SwiftCachesAreRegistries` | `JsSpec => JsImplementsRegistry`, `SwiftSpec => SwiftImplementsRegistries`: these caches implement the atomic registry |
| `SupportLibrary_proofs`: `BytesStay`, `OneOwner` | `DataSpec => []BytesOutliveRefs`, `DataSpec => []OneOwnerFrees` |
| `DeadAreDetached` | `JniSpec => []DeadThreadsDetached` |
| `ErrorsComeBack` | `ErrorsSpec => []SameErrorComesBack`, for stacks of any depth |
| `CObjects_proofs`: `CountsKept` | `Spec => []CInv`, the inductive invariant |
| `CountsAreExact`, `OwnedIsAlive`, `NothingLeaks` | `Spec => []RefCountExact`, `Spec => []NothingDangles`, `Spec => []NoLeak`, for arrays of any length |
| `Compiler_proofs`: `TraversalIsExact` | `CompilerSpec => []TraversalExact`, for any graph of IDL files and manifests |
| `TraversalOfWholeRun` | `WritingSpec => []TraversalExact`: the same of a run to its end |
| `ListIsExact`, `FailuresShow` | `WritingSpec => []ListPredictsOutput`, `WritingSpec => []GeneratedIffSound`, for any calls of any back ends |

**ProxyCache.** None of the properties is inductive. That an impl has one live
proxy follows from `AliveInv`: a live proxy is either the entry under its key or in the
hands of the thread that owns the mutex and is about to insert it. To keep that,
`remove()` must never erase a live proxy's entry and `get()` never insert over one:
`FrameInv` (the slot is empty between `GetMiss` and `Emplace`), `LockInv` (a thread in a
critical section owns the mutex) and `FreshInv` (a new proxy is known to nobody else).
That keys stay valid is `EntryInv`: an entry was keyed by the proxy it points to, and the
Handle of that proxy still exists. The delicate case is `Unwind`, which frees a Handle:
`DyingInv` shows that a dying proxy is in the map only until its own `remove()` has come to
the erase, and `OwnerInv` that exactly one thread destroys it. `StrongInv` links the program's
references to life; `HolderInv` gives `NoRelock`. Each action has a lemma, with a step per
conjunct it can disturb. For the refinement, `LiveInv` adds that the registry's proxy of a key is the
one live proxy with that key; then each step shares, creates, releases or retires one (`SharingSteps`,
`CreatingStep`, `ReleasingStep`, `RetiringStep`) or leaves what the registry sees alone (`InvisibleSteps`).

**FuturePromise.** The argument is about *places*: the continuation that resolves state `n` is stored in the
state it continues, or runs on a thread, or comes to that state with a `then()` (`PlaceInv`), never in two places
(`OnceInv`), and in one as long as its promise is unresolved (`KeptInv`). Every action that moves one is a
lemma that says from where to where. What is stored in a state without a result runs when the result comes,
so `HandlersMeetResult` follows from `PlaceInv` and `MetInv`. That a result is taken once for each future is a
budget: what was taken of a state, the futures of it that the program still has, the threads in `get()` on it and the
continuations that will take it (`Claims`) are together no more than the futures ever made of it (`ClaimInv`). Each step moves a
claim from one sort to another. The delicate one is the `then()` that returns a future: nobody has had one of that
state before, and no other `then()` returns it (`ReturnInv`).
For the refinement a promise has one of six fates (`FateOf`), and each action either changes the fate of one promise
or none. What has to be known is that a state that gets a result had none: there is one thread or promise that may set it
(`ResolverInv`), and it knows which continuation it resolves (`OriginInv`). In `ThenReplace` the promise of the continuation
that is overwritten is broken inside the `then()`, while the mutex of the source is held (`LockInv`), so the source still
has no result, and what was dropped can be told from what has run (`DroppedInv`).

**FutureCombine.** The counter is a function of the *number* of continuations that have
decremented it (`CounterAfter`), wrapped values included; the function is zero for exactly
one number (`DecrementFacts`). Hence exactly one decrement fires (`FireInv`). `StageInv` keeps
the sets that the continuations pass through apart, and `Cardinality(Inputs) < CounterMod` is
what makes the wrap harmless. A consumer of the SharedFuture is resumed at most once since its place
tells how often it has been (`ConsumerInv`) and since the queue is empty from the moment the result is stored
(`QueueInv`). The composition inherits what is proved of its parts because it refines both.

**FutureBridge.** `Works` names the cases in which every adaptor forwards each kind of error that can come up
(`WorkingCasesForward` shows that from the table of adaptors); in the others the runs find counterexamples.
`ContInv` says what the place of a continuation tells of the results of the two states it joins and of its
promise; the steps that resolve a state share `UpdateStep`.

**The caches of JavaScript and Swift.** For C++ objects seen from JavaScript the count of an entry
is the *cardinality* of the proxies of that object that are not yet finalized: hence it reaches zero with the
last one, which still owns the object, and a reachable proxy is the one in the entry. For JavaScript
objects seen from C++ the invariant holds per object until it is overtaken: `CachedInv` (a live proxy is the
cached one), `EntryInv` (an entry was made for its object) and `DyingInv` (who destroys what). For Swift the
two dictionaries are the inverses of the back pointers of proxies and wrappers. With that each cache
implements `ProxyRegistry`: the proxy of an object is what the invariant says there is at most one of (`JsProxyIs`), making one
is `Create`, its collection by JavaScript or its `deinit` is `ReleaseLast`, and every other step, finalizers and
counts among them, leaves what the registry sees alone.

**DataRefs, JniThreads, CrossingErrors.** `BufferInv` says, buffer by buffer, which combinations of memory, foreign object,
finalizer and references exist; both properties are read off it. `AttachedHasKey`: an attached C++ thread
has the thread-specific value that detaches it, unless the key could not be made. `ErrorsInv` says in which shapes
(`SeenInCpp`, `SeenInForeign`) each platform's two languages can see an error, by where it began: an error wrapped once is
unwrapped or wrapped no deeper at the next border, so the shapes are finitely many at any depth. In WebAssembly the shape
depends on the static `exception_ptr`, which is why `GivenBack` names it.

**CObjects.** `RefCountExact` equates a count with the *cardinality* of its owners, and a step of one thread's `todo` list
moves the places of all later steps in it. So the owners are counted in five sorts (handles, slots, releases to do, stores
to do, the static reference), `StepsReplaced` says what a changed list does to the number of steps of a kind, and each
action moves an owner from one sort to another or takes one away with the count (`CountInv`). A destructor turns
the slots of an array into releases, one for each (`Destructor` lists them all, null ones too, as the code does). `LifeInv`:
the count is zero exactly while the object is free or has one deletion to come, so two cascades cannot
both destroy it; `StoreInv`: the array a setter stores into is owned by its thread and has no other store
under way, so no slot is released twice.

**The traversal.** `parseFile` is a depth-first search, and `PInv` is what one may believe in the middle of it. The files on the
stack are a path of references from the root (`Path`), which is why a reference to one of them closes a cycle. What a
finished file leads to is finished (`Acyclic`, `AcyclicClosed`), and `Acyclic` gives each finished file a set of finished files,
closed under references, that does not contain it: at the end that is the absence of cycles, without any induction over
paths. "Reachable" is the least closed set, so `ReachWithin` and `ReachStep` are all that is needed of it. `Declared`: the declarations
of a file are in one place of one activation; `Imported`: what an activation will leave to the back ends, its file
imports. The lemmas about the search are about any state of it (what has been read, what was visited, the
stack), and each action of the parser is shown to be one of their steps (`PushSearching`, `AdvanceSearching`, `PopSearching`).
`TraversalIsExact` is about `CompilerSpec`. In a whole run the rest leaves what the parser returned alone, and
`TraversalOfWholeRun` says so of `WritingSpec`.

**FileWriting.** The list is a function of how far the run has come: it is the paths of the calls made (`WritingInv`), and so is
what was written, in a run that writes and has met no exception. A second run makes the calls of the first from the
beginning; hence its list, its files and the list of the first are the paths of the same plan. That nothing is written
twice is what `AlreadyWritten` asks before each call; since `SamePath` is an equivalence whatever `LowerCased` is, a run that comes to the end
has met every pair of calls. A run that does not come to the end has met a call that throws, or a second
one for a path. `Generation` itself is out of the provers' reach, since the operators of the back
ends are recursive, as the types they are about; the `generation` run checks both properties there.

**Proved only.** `NeverBroken`, `HeldProxiesAreCached` and `SwiftImplementsRegistries` are in no run, though TLC
finds them true of the same instances: the runs check `ConsumersServed`, `ImplementsRegistry` and `MapsHoldLiveProxies`, which
are about the same hazards.

**Only model-checked.** All liveness, as `ENABLED` and fairness are beyond the provers. `OnlyKnownCrashes`,
`OutputSelfContained` and `DeclaredIsDefined` of the generator; `CallsArrive` (`ArgumentsArrive` and `ResultsArrive`), `ValuesComeBack`
and `OnlyMalformedTextFails` of the calls: types and values are nested to any depth, the operators on them are recursive, and
what such an operator computes for every input needs an induction over data that the provers cannot do. `FlagsEquivalent` and
the other properties of section 5 do not hold.

## 5. Findings

1. `future_wait_and_then`: resolving *either* calls a stored handler *or* notifies the
   condition variable (`cpp/Future.hpp:228`). A thread in `wait()` while another calls
   `then()` on the same state is not woken. With one owner per future
   (`future_one_owner`) it cannot happen.
2. `future_bridge_dangling`: `Future_c_translator.hpp:52` asks for the future of a promise
   that its continuation may have deleted.
3. `future_bridge_errors`: the Swift adaptor turns the failure of a void C++ future into
   success, and never resolves for an exception that is not an `ErrorValue`. The void
   adaptors of Java, Objective-C and Valdi do the first; `future_flows` therefore checks
   each platform for the results and errors it does forward (`WorkingCases`).
4. `compiler_flags`: `@flag` lines come after the values derived from the options have been
   computed, so some switches have no effect there, and `--cpp-out` alone aborts.
5. `outcome_of_optional`: `Outcome_jni.hpp:52` takes a null result for an error, so the success of an
   `outcome<optional<T>, E>` whose optional is empty comes back as an error in Java
   and Objective-C; JavaScript's side asserts that there is one, and Swift's `AnyValue` has no such member, so the
   conversion fails there. C marks the side and Valdi avoids it.

Not runs of their own:
- With `HandleMayOutliveAlloc`, `NewObject()` failing in
  `newCppProxy()` (`jni/djinni_support.hpp:460`) destroys a Handle under `m_mutex`, and
  `remove()` locks it again. `support_library` allows the step (the thread then stops
  for ever), and `NoRelock` carries the hypothesis that excludes it.
- In WebAssembly and Valdi, passing a JS object as another interface than its cached proxy has casts that proxy
  in vain; if this was its last reference, the destructor runs inside the critical section and locks the
  mutex its thread holds (`LoseCppProxy`, `djinni_valdi.hpp:556-563`).
- `emplace()` on an expired entry (`djinni_wasm.hpp:577`) leaves a live proxy uncached; from then on the object
  may have two. `OneCppProxyPerObject` names the exception.
- A Swift date that C++ receives or sends is off by a factor of 1000 (`swift/DJMarshal.swift:110`); it is undone when the
  value comes back, so `ValuesComeBack` does not see it, and `CallsArrive` counts Swift dates with that factor (`Scale`) and asks
  that they lose nothing else.
- `static_method_language.djinni:2-3` calls its method "callable only from c++"; the generated C has a function for it.
- The gaps of the generator are those listed in section 2; besides, two files of one path, which `createFile()`
  reports with a message, end the run with a stack trace when they belong to a declaration
  (`generator.scala:514` wraps the exception that line 386 waits for).

## 6. What is not modelled

- *Memory exhaustion* (`emplace`), exceptions thrown by destructors or by copying a value into
  a state, move assignment of a promise, the coroutine glue of `Future.hpp` (it calls
  `then()` and `setValue()`), time: `get(timeout)` of Java.
- *Local JNI references, class initialisation*; ARC beyond what a reference count says. A `GlobalRef` dropped on a
  thread that is not attached leaks (`jni/djinni_support.cpp:221`).
- *Two threads in the dictionaries of Swift*: undefined. The context of a wrapper, which nothing releases
  (`DjinniSupport.swift:168`), is taken as given, since it keeps the addresses in the keys from being used again.
- *Errors*: in WebAssembly one static `exception_ptr` serves all native exceptions (`djinni_wasm.cpp:218`):
  `SameErrorComesBack` grants an error that a later one has overwritten only to be what that pointer holds. The handler stack of C.
- *Cycles of containers* in the C API: they leak by design.
- *Adaptors*: conversions that throw where no adaptor catches, foreign promises dropped
  unresolved, cancelling a Swift subscription, WebAssembly with one thread only.
- *Marshalling*: the widths of numbers (`djinni_c_translators.hpp:89` converts a double through float), malformed wide
  strings and malformed text made by the foreign side, elements of sets and maps that become equal by conversion,
  strings of Valdi, `DataView`. A provider is what it returns.
- *Test suite*: constants; the generated C++ headers and foreign classes, whose members the glue names;
  the hand-written tests, which are read as evidence of what is intended. Valdi has no glue of its own in the
  test suite, so no call of it is checked.
- *Generator*: the grammar, the text it writes, configuration files, list files,
  `--verify-config`; duplicate members, enum options and their flags (more than 31 overflow), the
  values of constants; identifier converters, so that collisions made by them are only represented
  by names that differ in case; folders that cannot be made and output errors. The bridging
  header is not written by `createFile()`, not listed, and truncated even by a run with
  `--skip-generation` (`Main.scala:748`): the model has its imports only.
- *Other Bazel rules, native library loader, `tl::expected`, examples, performance tests*: no
  state of their own, or code from outside the repository.

## 7. Plan

Done: the generic proxy cache with its proofs; futures, combination, `SharedFuture`, the adaptors
and their composition; C objects; the generator from the command line to the files; the caches of
JavaScript and Swift, `DataRef`, JNI threads; errors across borders; the calls of the test suite
through the glue of every target; a proof of every safety invariant that is not about recursive
types, and of every refinement.

Next, in this order:
1. *Adaptors that throw*: conversions and dropped promises in FutureBridge.
2. *Numbers* with their widths in Marshalling; derived equality, order and hashes, compared across
   Java, Objective-C and C++.
3. *Generator*: identifier converters with their collisions, configuration files and
   `--verify-config`.
4. *Registries*: what `ScriptCppProxies` implements where no proxy overtakes the destructor of an older one.
