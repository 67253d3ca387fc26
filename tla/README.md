# TLA+ model of the boost-dbus object server

This directory models `src/include/dbus/properties.hpp`. That file is the
service-side object model of boost-dbus. It provides objects, interfaces,
property tables, generic method dispatch, and the `DbusObjectServer`. The
server answers Introspect, GetManagedObjects and ordinary method calls
through three one-shot `dbus::filter` subscriptions. The transport
(`dbus::connection`, `dbus::filter`, `dbus::message`) is not under `src/`.
It is modelled from `spec.md` sections 5 and 6.

## 1. Inventory

### Components and their state

| Component | Source lines | State | Operations |
|---|---|---|---|
| Signature derivation: `function_traits`, `arg_types`, `DbusArgument` | 12-19, 33-133 | none; compile-time | `arg_types<I>` recursion, `get_args` |
| MethodHandler: `DbusMethod`, `LambdaDbusMethod` | 21-29, 76-164 | the bound handler `h` | `call`: unpack args, apply, `new_return`, pack, `send`; `get_args` |
| `DbusSignal` | 166-172 | name | `get_args` (always empty) |
| `DbusInterface` | 174-271 | `properties_map`, `dbus_methods`, `dbus_signals`, `object_name`, `conn` | `set_property`, `set_properties` (VALUE_CHANGE_ONLY / FORCE), `register_method` (two overloads), `call` |
| `DbusObject` | 273-377 | `interfaces`, `object_name`, `properties_iface` | constructor (installs Properties Get/GetAll/Set), `add_interface`, `register_interface`, `call` |
| `DbusObjectServer` | 379-635 | `objects` (a vector), three filters | constructor (arms the filters), `on_introspect`, `on_get_managed_objects`, `on_method_call`, `add_object`, `register_object`, `get_xml_for_path` |
| Transport (outside `src/`) | spec 6 | per-filter queue of matched messages, the armed handler | offer a message to the filters, `async_dispatch`, `send`, `async_send` |

Two pieces of process-global state are easy to miss. Both are
function-local statics:
- the `dbus::endpoint` in `set_properties` (line 233);
- the `dbus::endpoint` in `register_interface` (line 342).

Each static is built once, by the first call in the process. It keeps the
`object_name` of that first call for the rest of the process.

### How the components interact

- The client sends a method call. The connection offers it to each filter.
  Each filter whose predicate matches queues it.
- Every filter has at most one handler armed by `async_dispatch`. The handler
  runs to completion on the single io_service thread. Its last statement
  re-arms the filter.
- `on_method_call` routes the call in three steps:
  1. It picks the first object in `objects` whose `object_name` equals the
     call's path.
  2. `DbusObject::call` picks the interface by the call's header interface.
  3. `DbusInterface::call` picks the method by member.

  If any of the three lookups fails, nothing is sent.
- A `LambdaDbusMethod::call` unpacks the arguments and runs the handler. It
  then packs the result into a method return and sends it. If the handler
  throws, the exception propagates out of `on_method_call`. The re-arm is
  skipped. A plain `DbusMethod`, registered through
  `register_method(shared_ptr<DbusMethod>&&)`, has a `call` that does
  nothing: the call is dispatched, nothing is sent, and the filter re-arms.
- The application runs on the same thread between handlers. It adds objects
  and interfaces, registers methods and calls `set_properties`.
  - `register_interface` sends InterfacesAdded.
  - `set_properties` sends PropertiesChanged.
  - The Properties.Set handler also calls `set_properties`.

### What is hard

- **One-shot filters.** A handler that does not reach its re-arm stops that
  protocol surface for good. The Properties handlers throw on an unknown
  interface or property, which skips the re-arm.
- **Process-global statics.** They are initialised by whichever object acts
  first.
- **Change diffing.** A client cache stays in step only if every change is
  signalled with the new value and nothing else is signalled.
- **Duplicate paths.** They are accepted without a check. Routing is
  first-match. Introspection prefix tests work on characters.
- **Interleavings.** Application updates interleave with client Set calls and
  with snapshot requests.

### Correctness properties, per component

- **DbusInterface.** VALUE_CHANGE_ONLY signals exactly the changed entries
  with their new values. FORCE writes and signals every entry. An empty
  change-set is not signalled. PropertiesChanged comes from the owner's path.
- **DbusObject.** Get/GetAll/Set act on the named interface. An unknown
  interface or property is an error reply, not a dead server. Registration
  announces the interface's table.
- **DbusObjectServer.**
  - Every Introspect and GetManagedObjects call is answered.
  - Every routed method call is dispatched.
  - A call is answered at most once, by the first object at its path.
  - A client's cache built from the signals equals the server's tables.
  - Introspection lists exactly the immediate children of the requested path.
- **Signature derivation.** n `in` arguments then m `out` arguments, named
  `arg_i` and `out_j`, in declaration order.

## 2. Modules

| Module | Models | Kind |
|---|---|---|
| `DbusInterface` | `DbusInterface`: tables, `set_properties` change-set and table per UpdateType, `register_method`, `call` by member | operators over an interface record |
| `DbusObject` | `DbusObject`: constructor, `add_interface`/`register_interface`, `call` by interface, the Get/GetAll/Set lambdas (reply or throw) | operators over an object record; EXTENDS DbusInterface |
| `DbusObjectServer` | the composition: `objects`, filter queues and armed handlers, the two static endpoints, the application, a client with an ObjectManager cache; `LambdaDbusMethod::call` (unpack, apply, pack); the Introspect reply built from `Introspection` and `ArgTypes` | state machine; EXTENDS DbusObject, INSTANCEs Introspection, ArgTypes, ObjectManagerCache |
| `Introspection` | `get_xml_for_path` over names written as character sequences: the `/` rewrite, the exact-match test, `starts_with`, the `find`/`substr` cut, the `node_names` set; `register_object` and `on_introspect` as the actions | recursive operator plus a small state machine |
| `MC_Introspection` | names `/`, `/a`, `/ab`, `/a/b`, `/a/c/d`, `/a/c/e` and requests `/`, `/a`, `/a/c`, `/a/b` | MC module |
| `ObjectManagerCache` | the contract an ObjectManager client relies on: a registry of tables, a cache built from notifications that may be lost, and a resync | abstract specification |
| `ArgTypes` | `arg_types<I>` (the recursion, `to_string` of the index), `LambdaDbusMethod::get_args`, `register_method`'s emplace | recursive operator plus a registration step |
| `MC_ArgTypes` | every signature of up to 11 parameters and 2 results over codes `s`, `v`, plus the Get/GetAll/Set handlers | MC module |
| `MC_DbusObjectServer` | constants for TLC: paths `/a` and `/a/b` as character sequences; interface `i1`; method `m1` with a one-string or a parameterless handler; property `x`; values `v1` (a string) and `v2` (a `uint32`); call payloads of no argument or one string | MC module |

### Correspondence to the code (DbusObjectServer)

| Variable | Code |
|---|---|
| `objects` | `DbusObjectServer::objects`. Each object is `[path, interfaces]` and each interface is `[props, methods]`. |
| `fq`, `armed` | The queue of each `dbus::filter` and whether `async_dispatch` has a pending handler. |
| `pcEndpoint`, `iaEndpoint` | The two function-local statics. The model value `Unset` means not yet built. |
| `sent` | The messages sent by the last step, in order. Each message has a ghost `owner` field: the index of the object whose interface sent it. |
| `replyCount` | The number of method returns sent for each call id. |
| `mirror` | The cache of a client that applies InterfacesAdded (keyed by the object_path argument) and PropertiesChanged (keyed by the signal's path). The connection delivers the messages in order. |
| `calls`, `appSteps` | The client's calls and the application's step count. Both are bounded. |
| `handles` | Interfaces the application holds through a `shared_ptr` that no object holds. These are built with `make_shared` and not yet registered, or kept after `add_interface` replaced them. Each has its name, its `object_name` (`EmptyPath` until stamped), the object it came from, its table and its methods. The constant `HandleSources` enables each kind, and `MaxHandles` bounds them. |
| `running` | Whether `io_service::run()` is executing handlers. An exception from a handler leaves `run()`; the constant `RestartRun` says whether the application's main loop (outside `src/`) calls it again. |
| `synced` | Whether the client has lost no signal since its last GetManagedObjects reply. It is a ghost of the client, used by the refinement. |

The constant `Lossy` lets the transport lose messages. `Send` then delivers any
subsequence of a step's messages (`AllSubSeqs`), because `async_send` has an
empty completion and nothing is retried. The client replaces its whole cache
with a GetManagedObjects reply.

Actions:

| Action | Code |
|---|---|
| `AddObject` | `add_object`: the constructor, then `register_object` |
| `AppAddInterface` | `add_interface` |
| `AppRegisterMethod` | `register_method` |
| `AppSetProperties` | `set_property` and `set_properties`, in both modes |
| `AppNewInterface` | `std::make_shared<DbusInterface>(name, conn)` |
| `AppHandleSetProperties` | `set_properties` through a held interface |
| `AppRegisterInterface` | `register_interface` of a held interface, whose table goes into InterfacesAdded |
| `ClientCall` | the connection offering a call to the filters |
| `OnIntrospect` | `on_introspect`: the reply is `Document(path)`, see below |
| `OnGetManagedObjects` | `on_get_managed_objects` |
| `RestartIoService` | the application calling `io_service::run()` again after it exited with an exception (outside `src/`, enabled by `RestartRun`) |
| `OnMethodDropped`, `OnHandlerThrow`, `OnGet`, `OnGetAll`, `OnSet`, `OnUserMethod`, `OnDbusMethod` | the outcomes of `on_method_call`; `OnUserMethod` is `LambdaDbusMethod::call` of an application handler, `OnDbusMethod` the empty `DbusMethod::call` |

Each action is one whole handler. Its trailing sends and re-arm are part of
the same step.

Abstractions:
- Property values are model values compared by equality, which is all that
  `set_properties` uses of `dbus_variant`.
- Values are model values. `ValueType` gives the signature of the
  `dbus_variant` alternative each holds. `get_xml_for_path`'s visitor writes
  that signature as a property's type.
- An application method has a declared signature (`Signature`): the type codes
  of its parameters and of its result tuple. A call to it carries a list of
  argument types (`Payloads`). `UnpackIntoTuple` is `unpack_into_tuple`. Its
  overload for the empty tuple accepts any payload. Otherwise
  `dbus::message::unpack` (outside `src/`) accepts exactly the parameter
  types, as spec 4.2 (a) requires. A failed unpack throws. The handler
  itself may also throw. A handler that returns sends a return carrying its
  result's types. Calls of Get, GetAll and Set are always well typed.
- The `interface_name` argument of Get, GetAll and Set ranges over every
  interface an object can hold (`ArgIfaces`): the application's, the
  Properties interface itself, and one that no object has.
- The Introspect reply is `Document(path)`, the name-dependent parts of the
  XML in order. Each exact match becomes an object block: per interface, its
  methods with the descriptors `ArgTypes`' `GetArgs` derives, and its
  properties with their value's signature. Each `<node>` stub becomes its
  name. `Introspection`'s `GetXmlForPath` chooses the parts, over the object
  names, so paths are character sequences. The fixed Peer and ObjectManager
  blocks and the XML text are left out. No `<signal>` is ever written,
  because nothing fills `dbus_signals`.
- A call's argument vector to `set_properties` has distinct names.

## 3. Runs

| Run | cfg | Expect | Checks |
|---|---|---|---|
| core | `MC_core.cfg` | pass | `TypeOK`, `DocumentedMethodsCallable`, `AnsweredAsDocumented`, `AnnouncedChanges` |
| force_mirror | `MC_force_mirror.cfg` | violation | `MirrorConsistent` |
| static_endpoint | `MC_static_endpoint.cfg` | violation | `SignalFromOwner` |
| getall_table | `MC_getall_table.cfg` | violation | `GetAllReplyCurrent` |
| fault_stops_dispatch | `MC_fault_stops_dispatch.cfg` | violation | `MethodCallsDispatched` |
| introspect | `MC_introspect.cfg` | pass | `TypeOK`, `NodesListedOnce`, `ChildrenListed` |
| introspect_sibling | `MC_introspect_sibling.cfg` | violation | `OnlyChildrenListed` |
| introspect_root | `MC_introspect_root.cfg` | violation | `ExactMatchDescribed` |
| cache_refinement | `MC_cache_refinement.cfg` | pass | `CacheRefinement`, `StandardCallsAnswered` |
| argtypes | `MC_argtypes.cfg` | pass | `GetArgsMatchesDeclaration` |
| stale_handle | `MC_stale_handle.cfg` | violation | `CacheRefinement` |
| argument_mismatch | `MC_argument_mismatch.cfg` | violation | `ArgumentsMatchSignature` |

### What the core run shows

The core run has 2 paths (`/a` and `/a/b`), at most 2 objects, 3
application steps, at most one interface the application holds (built with
`make_shared`, or kept after a replacement), one handler method `m1`, one
plain `DbusMethod` `m2` and 2 client calls. A throwing handler stops
`io_service::run()`, and the application restarts it. It explores 832,082
distinct states in about 1 minute. It checks only safety and action
properties; the liveness property runs in `cache_refinement`, where the
smaller state graph keeps it fast.

- **`TypeOK`.** No call id is ever answered twice.
- **`DocumentedMethodsCallable`.** Every method an Introspect reply documents
  for a path can be called as documented. A call to that path, with the
  interface, the member and the `in` argument types of the document, is
  routed by `on_method_call`, `DbusObject::call` and `DbusInterface::call`,
  and the handler's unpack accepts it. This is where `get_xml_for_path`'s
  exact-match test, `arg_types`' descriptors and the routing must agree.
  Paths at which two objects are registered are left out: spec 4.6.1 has
  every such object documented, while a call reaches only the first.
- **`AnsweredAsDocumented`.** The converse. An application method call is
  answered only when the Introspect document of its path, at that moment,
  lists the call's interface and member with `in` arguments of exactly the
  call's types. No path is left out here: the first object at a path is
  always among the exact matches the document describes. The run holds
  only because its instance avoids the two cases where the code breaks
  this property: an object at `/` (the document does not describe it, see
  introspect_root), and a handler without parameters called with
  arguments (it is answered anyway, see argument_mismatch). Both are
  reported as violation runs.
- **`AnnouncedChanges`.** Every change to a stored table is announced in the
  same step, by a signal from which a client holding the old table computes
  the new one. The change can come from an application update, a client Set,
  or an interface being replaced.

Each property has a mutant that the run catches:
- `on_method_call` without its `break`;
- `get_xml_for_path`'s exact-match test written as `starts_with`, so
  introspecting `/a` documents the interfaces of `/a/b`;
- the "exists and differs" branch of the diff not recording its update;
- `unpack_into_tuple` accepting any payload.

### The violation runs

Each violation run is a disagreement between the code and `spec.md`. The
findings in `PROJECT.json` describe them.

- **force_mirror.** FORCE signals values it never stores. 3 steps.
- **static_endpoint.** A registered object's PropertiesChanged is sent from
  a path fixed by the first `set_properties` call. That call can be on another
  object (two objects) or on an interface not yet registered (the empty path).
  TLC reports the second case, in 6 steps; see below.
- The missing "only if non-empty" guard on PropertiesChanged (line 236) is
  not checked. It is visible in the code, a unit test reaches it with one
  call, and an empty signal leaves every client cache as it was.
- **getall_table.** GetAll returns the Properties interface's own table.
- **fault_stops_dispatch.** A Get on an unknown interface throws. The
  exception leaves `on_method_call` before its re-arm and leaves
  `io_service::run()`. Even when the application calls `run()` again, no
  method call is ever dispatched again, although the handler is weakly
  fair. A failed unpack of an application method's arguments throws
  the same way.
- **argument_mismatch.** `m1`'s handler takes no parameters, and a client
  calls it with one string. `unpack_into_tuple`'s overload for the empty
  tuple (line 99) does nothing, so the handler runs and the call gets a
  normal return. Spec 4.2 (a) says unmarshalling fails with ArgumentMismatch
  when the payload's arity differs (6 steps).

### What the introspection runs show

`Introspection` computes the document for every sequence of up to 4
registrations of the 6 names (duplicates included) and each of the 4
requests: 7,775 distinct states. The document is kept as its name-dependent
parts, in order: an object block per exact match and a `<node>` stub per
`node_names` insertion. It is compared with a reference definition of the
immediate children of a path (spec 4.6.1).

- **`TypeOK`.** Every object block is a registered object, and every stub is
  one path segment (no `/`).
- **`NodesListedOnce`.** No stub appears twice, even when `/a/b` and
  `/a/c/d` both lie below `/a`, or `/a/c/d` and `/a/c/e` both cut to the
  stub `c`.
- **`ChildrenListed`.** Every immediate child has its stub. This exercises
  the `find`/`substr` arithmetic, including `npos`.

Mutants: `substr` taking the rest of the name (caught by `TypeOK`), the
`node_names` check removed (`NodesListedOnce`), and `substr` starting one
character early (`ChildrenListed`).

The violation runs:
- **introspect_sibling.** With `/ab` registered, introspecting `/a` lists a
  stub `<node name="">`, which is not a child of `/a`. `starts_with` has no
  `/` boundary (line 612), and `substr(newpath.size() + 1)` skips the
  character after the prefix: for `/ab` it starts past the end and
  yields the empty name (for `/abc` it would yield `c`).
- **introspect_root.** An object at `/` is not described when `/` is
  introspected. The request is rewritten to `""` (line 516) before the
  exact-match test, so the object becomes a stub with an empty name.

### The refinement: what a client's cache is promised

`ObjectManagerCache` is the abstract contract. Its state is:
- `registry`: path to interface to table;
- `cache`: the client's copy;
- `synced`: whether the client has lost nothing since its last fetch.

Its steps are:
- `Change`: register or replace an interface with an empty table, or update
  a registered one. The notification is either delivered or lost. A synced
  client that receives it holds the new registry.
- `Drop`: a notification that changes nothing is lost.
- `Resync`: the client fetches the whole registry.

`DbusObjectServer` instantiates it (`OMC == INSTANCE ObjectManagerCache
WITH ...`). The refinement mapping is:
- `registry` is `Registry`: the tables of the first object at each path;
- `cache` is `mirror`;
- `synced` is `synced`.

The run `cache_refinement` checks `CacheRefinement == OMC!Spec` as a
PROPERTY. It explores 115,479 distinct states in about 1.5 minutes. Its setting:
- one path and one object, so both static endpoints are that object's path;
- VALUE_CHANGE_ONLY updates, because FORCE is the separate finding
  `force_mirror`;
- `Lossy = TRUE`;
- 3 application steps and 2 client calls. After adding the object and an
  interface, the third step can be an application `set_properties` or an
  `add_interface` that replaces an interface a client Set has filled. Both
  are reached; a fourth step makes the run take several minutes.

The refinement holds across every interleaving of application updates,
client Set calls, interface replacement, lost signals and resyncs. Its
mutant is a GetManagedObjects snapshot without the inner loop over
`get_properties_map`. TLC finds a synced client whose cache differs from the
registry after a resync.

With two objects the refinement fails for the reasons `static_endpoint` and
`force_mirror` already show. Those are not repeated as further runs.

The same run checks **`StandardCallsAnswered`**: every Introspect and
GetManagedObjects call is eventually answered. A Get on an unknown
interface is reachable in this run, and its exception leaves
`io_service::run()`, so nothing is answered until the application calls
`run()` again. The run sets `RestartRun = TRUE`, the assumption under which
the property holds: `on_introspect` and `on_get_managed_objects` re-arm
their filters after every dispatch, and the throw leaves them armed. With
`RestartRun = FALSE` TLC finds the property violated: one bad Properties
call stops every protocol surface. Mutant: `on_introspect` not re-arming.
Two Introspect calls then leave the second one queued forever.

### Interfaces the application holds

The core run allows one held interface of either kind, so `AnnouncedChanges`
is checked when an application registers an interface it built and when it
keeps a replaced one. Three application steps do not reach an interface that
is filled before it is registered: that needs a fourth step, which makes the
core run take minutes.

Two violation runs reach these hazards:
- **static_endpoint.** Its cfg allows a `make_shared` interface. TLC's
  shortest trace calls `set_properties` on that interface before it is
  registered. That first call builds the static endpoint from the empty
  `object_name`. From then on, a Properties.Set on a registered object
  signals from the empty path (6 steps).
- **stale_handle.** `add_interface` replaces `i1`. The application then calls
  `set_properties` through the old pointer. That changes a table no object
  holds, but the signal names the object's path and `i1`. The client applies
  it to the new `i1`, so the refinement fails.

### Signature derivation

`ArgTypes` translates `arg_types<I>` into a RECURSIVE operator.
- The base case is `I = Len(t)`.
- Otherwise the step appends a `DbusArgument` named `"arg_"` or `"out_"`
  followed by the decimal digits of `I` (`Decimal`, i.e. `std::to_string`).
  It then recurses with `I + 1`.
- `GetArgs` runs it on the parameters and then on the result components.

`GetArgsMatchesDeclaration` compares the result with the reference list of
spec 8. The run `argtypes` covers every signature of up to 11 parameters, so
names reach two digits, and up to 2 results, including the empty signature:
28,667 states. `register_method` uses `flat_map::emplace`, which keeps an
existing method. So a name is registered once, and the run stops there
(`CHECK_DEADLOCK FALSE`). Mutant: names counted from 1.

### Why the bounds are enough

- Two paths and two objects allow both a duplicate path and two distinct
  objects. The second path is a child of the first, so introspecting `/a`
  writes a `<node>` stub and an exact-match test that is too loose would
  describe `/a/b` there.
- Two call payloads (none, one string) against a one-string handler give
  both an unpack that succeeds and one that fails.
- Three application steps can add two objects and one interface, or add an
  object and an interface and register a method or set a property. Every
  action fires in the core run.
- Two calls allow a Set followed by a Get or GetAll. They also allow a
  faulting call followed by one that must still be dispatched.
- One property with two values distinguishes "new", "changed" and
  "unchanged".

### Fairness and deadlock

While `io_service::run()` executes, it runs every ready handler. So each of
the three filter handlers is weakly fair; each is enabled only while
`running`. An exception from a handler leaves `run()`. Whether the
application calls it again is its own code, outside `src/`: the constant
`RestartRun` makes the assumption explicit, and `RestartIoService` is weakly
fair when it holds. The application and the client are not fair: they may
stop at any time.

`CHECK_DEADLOCK FALSE` is set because a server with no further input waits
in `io_service::run`. That is a legitimate final state.

## 4. Not modelled (yet), and why

- **The fixed parts of the introspection document.** The DOCTYPE header,
  the Peer and ObjectManager blocks and the XML text do not depend on the
  registrations. The server's document keeps the parts that do.
- **Duplicate paths in `DocumentedMethodsCallable`.** With two objects at one
  path, the document describes both (as spec 4.6.1 says) and a call reaches
  the first. The property leaves such paths out. `TypeOK` checks that such
  a call is answered once.
- **A client that resyncs while other objects exist.** The lossy transport is
  checked only in the one-object refinement run. With more objects, the
  static-endpoint bug already breaks the client's cache.
- **What `dbus::message::unpack` really does.** It is outside `src/`. The
  model follows spec 4.2 (a): it fails unless the payload has exactly the
  parameter types.
- **What a subclass of `DbusMethod` does in `call`.** Such a subclass is
  application code, not under `src/`. The model registers the base class,
  whose `call` does nothing and whose `get_args` is empty.
- **`DbusSignal`.** It has no state-changing operation, and no code registers
  a signal.
- **`dbus_variant` (PropertyValue) beyond its two uses.** Values are model
  values compared by equality, with their signature from `ValueType`. The
  encoding is the external message layer's.
- **Methods registered on a held interface before `register_interface`.** A
  held interface keeps its methods: a replaced one keeps those it had, and
  one built with `make_shared` has none. No action registers a method on it
  while it is held. Such methods would only change routing, which
  `AppRegisterMethod` already covers.
- **`set_properties` with duplicate names in one vector.**
- **Which filters see a call.** The model queues a call on every filter
  whose predicate matches it, as spec 6 describes. libdbus stops its filter
  chain at the first filter that handles a message; how `dbus::filter` uses
  it is outside `src/`.
- **`on_method_call`'s error-code branch.** It only fires when the filter's
  queue is cancelled.
- **The order between `send` and `async_send`.** `register_interface`
  (line 356) and `LambdaDbusMethod::call` (line 150) use the blocking
  `conn->send`; `set_properties` and the filter handlers use
  `conn->async_send`. Which reaches the bus first is decided by
  `dbus::connection`, outside `src/`. The model delivers messages in the
  order the code issues them. If an async send is deferred, an
  InterfacesAdded for a replacement can overtake a PropertiesChanged of the
  old table, and `CacheRefinement` would fail. Nothing under `src/` shows
  such a reordering, so it is not listed as a hazard.

## 5. Plan

1. **`Introspection`.** Model `get_xml_for_path` as a RECURSIVE operator over
   object names written as sequences of characters, because the prefix test
   works on characters. Check it against a reference definition of
   "immediate children" over all small name sets:
   - node stubs unique;
   - every child listed;
   - no non-child listed: violated for `/a` vs `/ab`;
   - the root object `/` exact-matched: violated.

   Done: runs introspect, introspect_sibling and introspect_root. The
   document is now the server's Introspect reply (`DocumentedMethodsCallable`
   in core).
2. **`ArgTypes`.** Done: run argtypes. Typed payloads are now in the server:
   `unpack_into_tuple` with unpack modelled from spec 4.2 (a) (run
   argument_mismatch). The original plan: Model `arg_types` and `get_args` as RECURSIVE operators
   over tuples of type codes. Check them against the spec's reference list
   (`arg_i`, `out_j`). Add typed payloads to the server so that an unpack
   mismatch is a third throw path.
3. **`ObjectManagerCache`.** Done: run cache_refinement. The original plan: An abstract specification of what a client sees:
   the registry, changed only by announced operations. Show with INSTANCE
   ... WITH that the server's signal stream implements it, under a refinement
   mapping from `mirror`. Run it as a PROPERTY in a configuration without
   FORCE, where the endpoint bug is shown separately.
4. **A lossy send variant.** Done: it is part of cache_refinement. The original plan: PropertiesChanged may be lost, with the cache
   reconciled by GetManagedObjects. Then check that a snapshot taken after the
   last change agrees with the server.
5. Done: run stale_handle, the unregistered-interface case of static_endpoint, and held interfaces in core.
   **Application steps on stale and unregistered interfaces**, and
   `register_interface` of a prebuilt interface. These cover the remaining
   stale-state hazards.
