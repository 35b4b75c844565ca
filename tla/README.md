# TLA+ models of patina's component model, alignment and device-path helpers

This directory holds TLA+ specifications of parts of the repository:

- `src/sdk/patina/src/component/` is the dependency-injected component model:
  parameters, StructComponent and services.
- `src/sdk/patina/src/base.rs` holds the address alignment helpers.
- `src/sdk/patina/src/component/service.rs` also holds the `Service<T>` handle.
- `src/core/patina_internal_device_path/src/lib.rs` holds the UEFI device
  path utilities.

It also holds the TLC configurations that model-check these specifications on
small instances, and TLAPS proofs that hold for every value of the constants.
`PROJECT.json` lists:

- the components and the modules that model them;
- the runs and the mutants that show each property can fail;
- the source lines each definition translates;
- the findings, the hazards and the theorems.

## 1. The system

### Parts and their interaction

**Parameters** (`params.rs`, `service.rs`). An entry point takes up to five
parameters. Each parameter implements `Param`, and the parameter kinds are:

| kind | registration (`init_state`) | validity (`validate`) | extraction (`get_param`) |
|---|---|---|---|
| `Config<T>` | creates T's slot if missing; records a read of it | T's slot is locked | a shared borrow of the slot |
| `ConfigMut<T>` | creates the slot and **unlocks** it; records a write | the slot is unlocked | a mutable borrow of the slot |
| `Commands` | records use of the deferred queue | always true | `&mut` to the deferred queue |
| `Service<S>` | registers S's id | S has been published | the service; panics if missing |
| `Option<P>` | `P::init_state` | always true | `Some` if `P::validate` holds, else `None` |
| tuple `(P1..P5)` | each member's `init_state`, in order | **always true** (params.rs:700) | each member's `get_param` |

`init_state` checks each access against the component's access record, and a
conflict aborts. The conflicts are:

- `Config<T>` after `ConfigMut<T>`;
- `ConfigMut<T>` after `Config<T>` or `ConfigMut<T>`;
- a second `Commands`.

These checks are `debug_assert!`s. The entry point's parameter tuple overrides
`try_validate` so that it calls each member's `validate` and reports the first
member that fails.

**StructComponent** (`struct_component.rs`).

- `initialize` runs `init_state`.
- `run_unsafe` runs `try_validate`. On a failure it records the failing member
  (`set_failed_param`) and returns `Ok(false)`.
- Otherwise it calls `get_param` and then the entry point. A `RunOnce` entry
  point takes its input by value (`input.take().unwrap()`). A `RunMany` entry
  point borrows its input.

**Storage and the dispatcher** are not under `src/`, so they are modelled from
the spec (sections 4 to 6):

- one configuration slot per type, with a value and a locked flag;
- the published services;
- the deferred command queue, which `Commands::add_config` and
  `Commands::add_service` fill;
- `apply_deferred`, which runs the queued commands in order between rounds;
- the lock sweep, which locks every slot once no component can run.

Components interact only through storage:

- A producer's `ConfigMut<T>` keeps T unlocked until the producer locks it or
  the sweep does.
- Only then does a consumer's `Config<T>` validate.
- Services appear when a deferred `add_service` is applied.

**Alignment helpers** (`base.rs`) are pure functions on `T: PrimInt`:

- `is_power_of_two`;
- `align_down`, which computes `addr & !(align - 1)`;
- `align_up`, which computes `(addr | mask).checked_add(1)`;
- `align_range`, which calls `align_up(base + length)` and then `align_down(base)`,
  and returns `aligned_end - aligned_base`.

**Not modelled.**

- The text conversion of a device path (`From<DevicePathWalker> for String`,
  `protocol_to_subtype_str`): formatting, with no property about it.
- The aarch64 stack-trace test fixture: a Win32 loader used only by tests.
- `StandardBootServices` and `StandardRuntimeServices` parameters: these are
  valid once set, and nothing unsets them.
- `&Storage` and `&mut Storage` parameters, whose code is in `storage.rs`,
  which is not under src/.

**Service handles** (`service.rs`). A `Service<T>` wraps a
`OnceCell<&'static dyn Any>`. It is created empty by `new_uninit` (for a
static), full by `mock`, by `From<&'static dyn Any>` (which storage's lookup
and the parameter's `get_param` use), and by `clone`. `replace` fills an empty
handle from a full one and panics otherwise. `Deref` downcasts the Any to
`&'static T`: an empty cell panics, and a failed downcast is declared
`unreachable_unchecked`, so it is undefined behaviour. Services enter storage
through `IntoService::register`, which calls `register_service`.

**Device paths** (`lib.rs`). A device path is a run of nodes in memory, each a
4-byte header (type, sub-type, little-endian u16 length) and its data, ended by
an End Entire node (type 0x7F, sub-type 0xFF). A multi-instance path separates
its instances with End Instance nodes (sub-type 0x01). The functions take raw
pointers and trust the caller that the path is well formed:

- `device_path_node_count` steps over lengths until a node of type End;
- `device_path_as_slice` and `copy_device_path_to_boxed_slice` take that many
  bytes;
- `concat_device_path_to_boxed_slice` writes b over a's end node;
- `remaining_device_path(a, b)` compares node bytes until a's End Entire node;
- `DevicePathNode::new` copies a node, and `DevicePathWalker` yields nodes
  until End Entire.

### What makes it correct, and what is hard to test

- A component reads a configuration only when it is frozen (locked), and a
  locked slot is never unlocked again (params.rs doc, lines 80-89).
- The access record rules out two conflicting borrows within a component, so
  `get_param` never panics.
- The registration checks reject exactly the conflicting signatures, in
  whatever order the parameters appear.
- Alignment results are the arithmetic round-down and round-up. They never
  exceed `T::MAX`, and a range covers its request.
- Every Any a Service holds is a `&'static T` of its `T`, so no deref is
  undefined behaviour (the SAFETY comment of `Deref`). More than that, a
  Service behaves as the abstract `ServiceBinding` promises: bound at most
  once, `replace` panicking exactly as its doc says, a deref yielding the
  bound object or panicking.
- Under a scheduler that keeps offering runs, every RunOnce component whose
  services get published eventually runs: dependency order emerges from data
  availability (spec 3), with the lock sweep closing the slots that
  producers left open.
- On a well-formed path, the device-path functions agree with the node layout:
  the count and size include the end node, a copy is whole, a concatenation
  drops exactly a's end node, and the walker yields every node.

The hazards are listed in `PROJECT.json` with the lines where they bite:

- tuple members that are never validated;
- release builds without the conflict checks;
- late initialization unlocking a locked slot;
- deferred writes to locked slots;
- a retry of a `RunOnce` entry point after `Err`;
- mutual ConfigMut/Config blocking, and a second ConfigMut holder locking
  the slot before the first one ran;
- aliased `Commands`;
- overflow at the top of `T`;
- a Service holding a wrongly typed Any, and clones of a static taken before
  `replace`;
- End Instance nodes taken for the end of the path, zero-length nodes that
  never advance, and end nodes shorter than a header.

## 2. Modules

| module | models | state / content |
|---|---|---|
| `Params` | `params.rs`, `service.rs` | pure operators: signatures, footprints, the conflict checks, validate, try_validate, get_param |
| `Dispatch` | `struct_component.rs` with storage and the dispatcher | components, slots, services, the deferred queue, and the actions `Initialize`, `RunNotReady`, `RunInvoke`, `RetryFailed`, `StartDispatch`, `ApplyDeferred`, `LockConfigs`; `Fairness` of the scheduler |
| `MCDispatch` | (instances) | model values for configs and services; the scenario, tuple, double-ConfigMut and all-signatures instances |
| `DispatchProofs` | (proofs) | lemmas on `Params`; the theorems below |
| `DispatchAccessProofs` | (proofs) | the access-check lemmas; `InitAbortIffConflictHolds`, `NoRunPanicHolds` |
| `Align` | `base.rs` | the four helpers at width `W`, with debug or release arithmetic; one call action per helper |
| `ServiceHandle` | `service.rs` | handles with their OnceCell, storage's service slots; actions `NewUninit`, `Mock`, `FromAny`, `CloneHandle`, `GetParam`, `Register`, `Replace`, `Deref` |
| `ServiceBinding` | the docs of `new_uninit`, `replace`, `Deref` | the abstract handle: a binding to at most one object, actions `New`, `Bind`, `Use`; `ServiceHandle` instantiates it with the refinement mapping `Binding` (each cell's object) |
| `MCServiceHandle` | (instances) | two interfaces, two objects, three handles; typed or foreign `From` arguments |
| `ServiceHandleProofs` | (proofs) | `DerefSafe` and the refinement `RefinesBinding` |
| `DevicePath` | `patina_internal_device_path/src/lib.rs` | each loop of the code as a recursive operator over byte offsets of a buffer; one call action per public function; reference definitions on the layout of nodes |
| `MCDevicePath` | (instances) | node encodings: two PCI nodes, malformed lengths 0, 2 and 8, End Entire of length 4 and 0, End Instance |

### Device paths

A buffer is the concatenation of node encodings (byte sequences); the caller's
layout (the sequence of nodes) is kept in the call record so that the
properties can say what the functions should return. The header fields are
read at 0-based byte offsets as the code reads them, the length little-endian.
A read past the buffer, which the code performs on a malformed path, is the
outcome `UB`; a loop that runs more than `MaxSteps` iterations (a zero-length
node, which never advances) is the outcome `Hang`; an underflow in concat is
`Panic`. `WellFormed` is the reference: every length field is its node's size
and at least 4, and the path ends with its only End Entire node.

### Signatures

A signature is a sequence of members. A member is either a single leaf or a
tuple of leaves, and an `Option` can wrap a leaf or a whole tuple. A position
`<<i, j>>` names leaf `j` of member `i`, and positions are ordered
lexicographically. This is the order in which the tuple implementations call
`init_state` and `get_param`. Nesting is limited to one level, so that the
module needs no recursion and can be proved about.

### The debug_assert! checks

- `AbortPositions` checks each leaf against the footprint of the leaves before
  it, which is what the debug assertions do.
- `Registered` is what runs before the abort. The aborting leaf's own slot
  creation and unlock are included, since they happen before its assertions.

### Actions

`Initialize(k)` is `StructComponent::initialize`:

- it picks one of the component's possible signatures;
- it creates missing slots, locked and holding the default value;
- it unlocks the ConfigMut slots;
- it aborts when `DebugAsserts` holds and a check fails.

`RunNotReady(k)` is the failed `try_validate` path.

`RunInvoke(k)` is the rest of `run_unsafe`.

- It extracts the handles, and panics on a missing service or on a second
  borrow of one slot.
- Then the entry point runs, and may do any of the following:
  - write any slot it holds a ConfigMut for, and lock any such slot
    (`ConfigMut::lock`);
  - enqueue any batch of commands (`add_config`, `add_service`, in call
    order) if it holds `Commands`, as long as the queue stays within
    `MaxQueue`;
  - return `Ok` or `Err`.

A RunOnce entry point is done after it runs. A RunMany entry point stays ready.

`ApplyDeferred` runs the queue. `add_config` creates a missing slot locked, and
the last write to a slot wins. `add_service` publishes the service.

`LockConfigs` is the sweep. It is enabled when the queue is empty and no ready
component validates.

`LateInit` lets the dispatcher initialize a component after dispatch began.

`RetryFailed(k)` is the scheduler offering a run again to a component whose
entry point returned `Err`, allowed when `RetryOnError` holds (spec 7 leaves
retrying to the scheduler). `run_unsafe` validates first. A RunMany entry
point borrowed its input and is simply eligible again. A RunOnce one took
its input with `input.take()` on the first run, so the `debug_assert!` of
`run_unsafe` (or the `unwrap` in a release build) panics.

`Fairness` is weak fairness on `Initialize(k)` and `RunInvoke(k)` of every
component, on `StartDispatch`, on `ApplyDeferred` and on `LockConfigs`;
`FairSpec` is `Spec /\ Fairness`. Nothing is assumed of an entry point's
choices: it may write, lock, enqueue or fail as it likes in every run.

## 3. Runs

| run | module / cfg | expect | shows |
|---|---|---|---|
| `dispatch_scenario` | MCDispatch / MCDispatch.cfg | pass | a producer (ConfigMut c1, Commands), a consumer (Config c1, Service s1) and a watcher with optional parameters (RunMany): failed components retried (`RetryOnError`): `TypeOK`, `ConfigReadsFrozen` and `LockedConfigStable` |
| `dispatch_access` | MCDispatch / MCDispatchAccess.cfg | pass | `InitAbortIffConflict` over all 601 signatures of at most two members, built from single, optional and two-leaf tuple members |
| `dispatch_grouped` | MCDispatchGrouped.cfg | violation | a consumer taking `(Config<c1>, Commands)` reads c1 while it is unlocked |
| `dispatch_live` | MCDispatchLive.cfg | pass | the producer and the consumer under `FairSpec`, without retries: `RunOnceEventuallyRuns`, whatever the producer writes, locks, enqueues or returns, and `NoRunPanic` |
| `dispatch_live_watcher` | MCDispatchLiveWatcher.cfg | violation | with the RunMany watcher holding `Option<ConfigMut<c1>>`, the watcher locks c1 first and the producer never runs |
| `align_debug` | Align / MCAlign.cfg | pass | on every 4-bit argument, the helpers equal their arithmetic references, and every Ok range of `align_range` covers its request |
| `align_release` | Align / MCAlignRelease.cfg | violation | without overflow checks, `align_range(3, 14, 2)` returns `Ok((2, 0))` |
| `service_handle` | MCServiceHandle / MCServiceHandle.cfg | pass | handles created, cloned, replaced and dereferenced in every order, storage publishing `&'static S`: `DerefNeverUB` and `ImplementsBinding` (the refinement of `ServiceBinding`, checked as a PROPERTY) |
| `service_doc_register` | MCServiceHandleDocRegister.cfg | violation | a service registered as a `Box<dyn S>`, as `register_service`'s doc says, makes its deref undefined behaviour |
| `service_foreign_any` | MCServiceHandleForeign.cfg | violation | `Service::<dyn A>::from` a reference to a B, in safe code, then deref: undefined behaviour |
| `device_path` | MCDevicePath / MCDevicePath.cfg | pass | on the 62 buffers of up to three nodes and all 3844 pairs of them, well-formed or malformed, every call on well-formed paths returns what the layout says: `NodeCountCorrect`, `CopyCorrect`, `RemainingCorrect`, `ConcatCorrect`, `WalkerCorrect` |
| `device_path_multi` | MCDevicePath / MCDevicePathMulti.cfg | violation | on the two-instance path End Instance, End Entire, `device_path_node_count` returns (1, 4) instead of (2, 8) |

**Bounds.**

- One config type, one service, values {0, 1}, and at most two queued commands.
- These bounds are enough for the cases that matter:
  - both a producer and a consumer contend for the same slot;
  - a command is applied while the slot is locked, and while it is unlocked;
  - a service is published late;
  - the sweep fires both with a blocked component and with none.
- A second config type would only duplicate symmetric cases, except for the
  cross-dependency cycle (observation C below), which needs two (c1 and c2).
- The liveness runs check every behaviour of the finite graph, so every
  choice of the entry points (write, lock, enqueue, fail) in every order is
  covered. With `MaxQueue = 2` the producer can push two commands in one
  run: `add_config` and `add_service`, or two `add_config` of different
  values for c1, where `apply_deferred` keeps the last one.
- The all-signatures run covers every ordered pair of members, which is where
  the order of the checks matters.
- `W = 4` reaches every carry and overflow case of the masks: aligned and
  unaligned addresses, every power of two up to 8, and sums past `T::MAX`.
- Device paths of at most three nodes (`MaxBody = 2` nodes before the last)
  reach a prefix that is proper, equal or diverging in the data of a node,
  and every malformed length between two nodes; `MaxSteps = 4` exceeds the
  iterations any three-node path needs, so `Hang` means no progress.
- Three handles, two of one interface, let a handle be cloned, replaced from
  another handle of its interface, and taken from storage, and let a third
  handle be of the other interface. Two objects make an overwrite observable.
  The proofs cover every size.

**Fairness.** Only the liveness runs assume any, through `FairSpec`. The
spec's scheduling model (5) is an external scheduler that "repeatedly offers
each not-yet-completed component a chance to run", applies the deferred
commands between rounds and sweeps the locks once nothing can progress
(6). That is weak fairness on each component's run, on `apply_deferred` and
on the sweep: a step that stays enabled is eventually taken. Strong fairness
is not assumed, since a round-robin scheduler may keep offering a component
exactly when it does not validate. Abandoning a component (spec 5) is the
one policy the liveness runs exclude. The safety runs assume no fairness.

**Deadlock** checking is off in the Dispatch runs. The system really stops
there: every component is done, failed or blocked, or the program aborted.
It is also off in the ServiceHandle runs, where a panic ends the program.
The Align and DevicePath runs check deadlock, because the caller can always
make another call.

**Mutants.** Each property of a passing run fails when one mapped definition is
replaced by a plausible bug:

| mutant | property it breaks |
|---|---|
| Config::validate without the lock test | `ConfigReadsFrozen` |
| ConfigMut::validate without the lock test | `LockedConfigStable` |
| add_service results not filtered by command kind | `TypeOK` |
| Service::validate without the storage lookup | `NoRunPanic` |
| ConfigMut::init_state without the has_config_read check | `InitAbortIffConflict` |
| `x > 1` in is_power_of_two | `IsPowerOfTwoCorrect` |
| a mask built from `align` instead of `align - 1` | `AlignDownCorrect` |
| align_up with a wrapping add | `AlignUpCorrect` |
| `base + length` wrapping in a debug build | `AlignRangeCovers` |
| mock leaking the `Box<T>` itself as the Any | `DerefNeverUB` |
| node_count leaving the end node out | `NodeCountCorrect` |
| as_slice stopping before the end node | `CopyCorrect` |
| remaining_device_path comparing headers only | `RemainingCorrect` |
| concat appending b after a's end node | `ConcatCorrect` |
| the walker not yielding the end node | `WalkerCorrect` |
| replace without OnceCell::set's "already initialized" check | `ImplementsBinding` |
| the sweep sparing slots some ConfigMut claims ("lock everything not yet mutably claimed", spec 2) | `RunOnceEventuallyRuns` |

## 4. Findings

1. **Tuple members are never validated** (params.rs:700). This is a code bug.
   - The tuple impl's `validate` returns `true`, on the assumption that the
     overridden `try_validate` is the only caller. That holds only for the
     entry point's own tuple.
   - A tuple used as a member is validated through `validate`. The module doc
     shows such an entry point at params.rs:44-50.
   - Its leaves are then extracted unchecked. A `Config` is read while its slot
     is unlocked, a `ConfigMut` writes a locked slot, and `Service::get_param`
     panics.
2. **align_range wraps** (base.rs:318). This is a code bug.
   - `base + length` is unchecked, while align_up uses `checked_add`.
   - Without overflow checks, a range that ends past `T::MAX` yields
     `Ok((aligned_base, aligned_length))` not covering `[base, base + length)`.
   - With overflow checks the same call panics, although the doc lists
     "align not a power of two" as the only failure.

3. **Multi-instance paths are truncated** (lib.rs:86).
   - `device_path_node_count` breaks on type End whatever the sub-type, so it
     stops at the first End Instance node; `is_device_path_end`, used by
     `remaining_device_path` and the walker, requires End Entire.
   - UEFI 2.11 section 10.3.1 makes End Instance a separator inside a
     well-formed path, and the function's doc says the count and size include
     the terminating end node.
   - `device_path_as_slice`, `copy_device_path_to_boxed_slice` and
     `concat_device_path_to_boxed_slice` therefore return only the first
     instance. No test of the crate has an End Instance node.

4. **register_service's doc leads to undefined behaviour** (service.rs:141).
   - The doc requires the registered Any to be a `Box<dyn T>`, and its
     example leaks `Box::new(boxed)` with `boxed: Box<dyn Service>`.
   - `Deref` downcasts to `&'static T` (service.rs:277) and declares failure
     unreachable (service.rs:298). A service registered as documented makes
     every deref of it undefined behaviour.
5. **Safe code reaches unreachable_unchecked** (service.rs:264). This is a
   code bug.
   - `From<&'static dyn Any>` is a safe public impl. The SAFETY comment of
     `Deref` relies on `from` being "passed data from Storage".
   - A caller that passes a reference of another type gets a `Service<T>`
     whose deref is undefined behaviour.

6. **A second ConfigMut holder starves the first** (params.rs:511, 471).
   - `ConfigMut::validate` needs the slot unlocked, and `ConfigMut::lock`
     locks it for good.
   - In the spec's own scenario, a repeatable component taking
     `Option<ConfigMut<u32>>` can run first and lock the slot. The
     producer's `ConfigMut<u32>` then never validates, the producer never
     runs, and the service it would publish never appears.
   - The spec says dependency order emerges from data availability and is
     silent on a second mutable claimant (a spec gap).
### Observations without a run of their own

The project keeps at most twelve runs. Four more disagreements were found by
TLC while modelling; each is reproduced by changing the constants of
`MCDispatch.cfg` as stated and checking the property named.

A. **Conflicts go undetected in a release build** (params.rs:520-543, 627).
   Reproduced with `SigChoices <- MCSigDouble`, `DebugAsserts = FALSE`,
   `RetryOnError = FALSE` and `INVARIANT NoRunPanic`.
   - The spec says a footprint conflict aborts at initialize. The code uses
     `debug_assert!`, so a release build initializes the component.
   - With two `ConfigMut<T>` the component then panics on the second
     `borrow_mut` when it runs.
   - With two `Commands` it receives aliasing `&mut`, which no run can show.
B. **Late initialization unlocks a locked slot** (params.rs:518).
   Reproduced with `LateInit = TRUE`, `RetryOnError = FALSE` and
   `PROPERTY LockedConfigStable`.
   - `ConfigMut::init_state` unlocks its slot unconditionally.
   - If a component is initialized after dispatch began, a slot that consumers
     already read locked becomes unlocked again. The doc says this cannot
     happen (params.rs:88).
C. **Crossed ConfigMut/Config components never run** (params.rs:509).
   Reproduced with `Cfg <- MCCfgTwo`, `Comp <- MCCompCross`,
   `SigChoices <- MCSigCross`, `Mode <- MCModeOnce`, `SPECIFICATION FairSpec`
   and `PROPERTY RunOnceEventuallyRuns`.
   - `a` holds ConfigMut<A> and Config<B>, `b` holds ConfigMut<B> and
     Config<A>. Both pass initialize, since conflicts are checked only within
     a component.
   - Neither validates while the other's slot is unlocked, and after the
     lock sweep neither ConfigMut validates. Neither ever runs, and nothing
     reports it (a spec gap).
D. **Retrying a failed RunOnce component panics** (params.rs:254).
   Reproduced by `MCDispatch.cfg` itself with `INVARIANT NoRunPanic`: the
   producer fails, is retried and panics.
   - Spec 7 leaves the retry of an application failure to the scheduler, and
     4.4 completes a RunOnce component only on success.
   - The entry point took its input with `input.take()` before the user
     function returned `Err`, so a retry panics in the `debug_assert!` of
     `run_unsafe` (struct_component.rs:87), or at `unwrap` without it.

## 5. Proofs (`DispatchProofs.tla`, `DispatchAccessProofs.tla`, `ServiceHandleProofs.tla`, TLAPS)

### DispatchProofs

**`TypeCorrect`**: `Spec => []TypeOK` holds for all constants that satisfy
`ParamsAssumption` and `DispatchAssumption`. The proof rests on these lemmas:

- `MinExists`: a non-empty set of naturals has a least element. It follows from
  `WFMin` and `NatLessThanWellFounded` of WellFoundedInduction.
- `FirstInvalidType`: try_validate's index lies in `0..Len(s)`, and it is 0
  exactly when no member fails.
- `LeafAtType`, `FootprintType`, `ExtractedType` and the related lemmas: the
  ids read and written are configuration types.
- `LastWriteUnique` and `LastWriteExists`: the position `LastConfigWrite(c)`
  names is unique, and there is one exactly when the queue holds an
  `add_config` for `c`. So `apply_deferred`'s CHOOSE picks the last queued
  write, as running the closures in order does. The second lemma takes the
  maximum of the positions as the least element of `Len(queue) - i`, using
  `MinExists`.
- `BatchType`: a run's batch of commands is a sequence of commands.
- `TypeInit`: the initial state is well typed.
- `TypeStep`: every step keeps the state well typed. It has one step per
  action; `RetryFailed` has one sub-step per arm of its CASE.

**`ConfigReadsFrozenHolds`**: `Spec => []ConfigReadsFrozen` holds under two
hypotheses, `~LateInit` and `NoTupleMembers`. These are exactly the two
conditions whose violation runs break the property. `ConfigReadsFrozen` alone
is not inductive, so the proof uses this strengthening:

```
ReadsInv == TypeOK
         /\ every sig[k] is a flat signature
         /\ (some component has read something) => dispatching
         /\ ConfigReadsFrozen
```

The strengthening is needed for three reasons:

- Only flat signatures let `try_validate` vouch for every extracted leaf. The
  lemmas `ReadsLocked` and `WritesUnlocked` establish this.
- Initialize, the only action that unlocks, runs only before dispatch, and
  before dispatch nothing has been read.
- Every other action only locks.

TLC checked `ReadsInv` as an invariant of `dispatch_scenario` before it was
proved.

**`LockedConfigStableHolds`**: `Spec => LockedConfigStable`, an action
property, holds under the same hypotheses. It follows from
`[]ReadsInv`:

- an entry point writes only the slots its ConfigMut validated as unlocked;
- `apply_deferred` shortens the queue;
- the sweep only locks.

### DispatchAccessProofs

**`InitAbortIffConflictHolds`**: `Spec => []InitAbortIffConflict` holds under
`DebugAsserts`, for all constants. The release build needs no proof that it
fails: observation A is its counterexample.

- The core is `AbortIffConflict`, a lemma about signatures alone:
  `AbortPositions(s) # {}` (some leaf's `init_state` assertion fails against
  the access record of the leaves before it) holds exactly when
  `PairwiseConflict(s)` holds (two distinct leaves clash, order-free).
- One direction is `AbortHasClash`: a failing leaf names an earlier one it
  clashes with.
- The other is `LaterClashAborts`: of two clashing leaves, the later one
  fails. `BeforeTotal` says that of two distinct positions one comes first,
  and `ClashSymmetric` lets either be the later one.
- `AccessInv` is the inductive invariant: an aborted component's signature
  has a failing position, and a ready, done or failed one has none. Only
  `Initialize` sets a signature; every other step moves a status only among
  ready, done and failed. The step lemma needs `TypeOK`, so the temporal
  step combines `TypeStep` and `AccessStep`.

TLC checked `AccessInv` as an invariant of the access and scenario
instances, retries included, before it was proved.

**`NoRunPanicHolds`**: `Spec => []NoRunPanic` holds under three
hypotheses: `DebugAsserts`, `~RetryOnError` and `NoTupleMembers`. Each is
necessary: observation A, finding 1 and observation D violate the property
without it. `LateInit` is not assumed.

- The inductive invariant is `PanicInv`, the conjunction of `TypeOK`,
  `AccessInv`, `FlatInv` (every signature is flat) and `NoRunPanic`.
- In `RunInvoke`, `ExtractedValid` says every extracted leaf passed its own
  validate. A service is therefore published (`NoMissingService`).
- A double borrow would be a pairwise conflict (`BorrowClashConflict`).
  `AccessInv` and `AbortIffConflict` exclude it for a ready component.
- `RetryFailed` is disabled by `~RetryOnError`.

TLC checked the property with `LateInit = TRUE` (791 states) before the
proof.

### ServiceHandleProofs

`TypeOK` (a OnceCell or a slot holds at most one value) is a conjunct of
the invariant below, but it is neither checked by a run nor stated as a
theorem: it holds by the model's encoding of a OnceCell, which Rust's type
already guarantees.

**`DerefSafe`**: `Spec => []DerefNeverUB` holds under the hypothesis
`TypedSources`: every Any that an IntoService impl publishes, or that a caller
gives `Service::from`, is a `&'static T` of the handle's `T`. The two
violation runs break exactly this hypothesis. `DerefNeverUB` is not inductive
(a deref of a wrongly typed cell is one step away), so the proof uses

```
Inv == TypeOK /\ DerefNeverUB
    /\ every value in cell[h] downcasts to HandleTy[h]
    /\ every value in slot[t] downcasts to t
```

The lemma `CreateInv` covers the five ways a handle is created. Clone and
get_param copy a cell or a slot of the same interface. `replace` copies a
cell of the same `T`. A deref of a full cell takes the cell's one value, which
downcasts by `Inv`. TLC checked `Inv` on the `service_handle` instance before
it was proved.

**`RefinesBinding`**: `Spec => ImplementsBinding`, where `ImplementsBinding`
is `ServiceBinding`'s `Spec` under the refinement mapping

```
created <- live
bound   <- Binding   (Binding[h] == {p.inst : p \in cell[h]})
outcome <- Outcome   ("none" and "ok" both map to "ok")
```

holds under `TypedSources`. The initial states map to the initial state
(`InitRefines`). Under `Inv`, every step maps to a step or a stutter
(`StepRefines`): the five ways of creating a handle are `New`, with a
binding of at most one object (`BindingShape`, `CreateRefines`); `replace`
is `Bind`, with one sub-step for the panic and one for the copy; a deref is
`Use`, and needs `Inv` because the abstract spec has no undefined-behaviour
outcome; a publication leaves the abstract state alone. The temporal step
is the standard one: `[]Inv`, the step lemma and the initial condition
combined by PTL.

### Only model-checked

- Everything about `Align`, because Bitwise is recursive, and tlapm cannot use
  a module that reaches it.
- Everything about `DevicePath`, whose loops are RECURSIVE operators: what a
  loop computes for every buffer is induction over data, beyond the provers.
- Liveness: `RunOnceEventuallyRuns` under `FairSpec`, which needs ENABLED
  and fairness, out of the provers' reach.

## 6. Next steps

- An abstract spec of the deferred queue (every command is applied exactly
  once, in order) with a refinement mapping from `Dispatch`.
- Liveness of RunMany components (that they run again and again), which
  needs a per-run counter in `Dispatch`.
- `&Storage` and `&mut Storage` parameters, modelled from the spec.
- A component that calls `replace` on a static Service on each run, under a
  scheduler that runs RunMany components more than once: a composition of
  `Dispatch` and `ServiceHandle`.
- Proofs for `DevicePath` on a version of its loops written as recursive
  functions over a bounded number of steps, so that the module has no
  RECURSIVE operator.
