-------------------------- MODULE DbusObjectServer --------------------------
(***************************************************************************)
(* DbusObjectServer (src/include/dbus/properties.hpp) composed with the   *)
(* objects and interfaces it owns, the application that registers them    *)
(* and sets properties, and a bus client that sends method calls and      *)
(* keeps an ObjectManager-style cache of the signals it receives.          *)
(*                                                                         *)
(* The connection's three dbus::filter objects each hold a FIFO of the    *)
(* calls their predicate matched (fq) and a handler armed by              *)
(* async_dispatch (armed).  A handler runs to completion on the single    *)
(* io_service thread and re-arms its filter as its last statement; a      *)
(* handler that throws skips that statement.                              *)
(*                                                                         *)
(* sent holds the messages the last step sent, in order; the client's     *)
(* cache (mirror) is updated from them in the same step, since the        *)
(* connection delivers one sender's messages in order.                     *)
(***************************************************************************)
EXTENDS DbusObject, Naturals, Sequences, SequencesExt

CONSTANTS
    Paths,         \* object paths the application and the client use
    UserMethods,   \* method names the application registers with a handler
    BaseMethods,   \* method names it registers as a plain DbusMethod object
    UpdateModes,   \* the UpdateType values the application passes
    Unset,         \* model value: a function-local static not yet initialised
    MaxObjects,    \* bound on add_object calls
    MaxCalls,      \* bound on method calls the client sends
    MaxAppSteps,   \* bound on application steps (add/register/set)
    Lossy,         \* whether the transport may lose a sent message
    RestartRun,    \* whether the application calls io_service::run() again after it throws
    EmptyPath,     \* model value: the empty object_name of an unregistered interface
    HandleSources, \* how the application comes to hold an interface outside objects
    MaxHandles,    \* bound on such interfaces
    Signature,     \* per application method, its handler's [in, out] type codes
    Payloads,      \* argument type lists a client's call to such a method carries
    ValueType      \* per value, the signature of the dbus_variant alternative it holds

ASSUME /\ UserMethods \subseteq Members \ StandardMembers
       /\ BaseMethods \subseteq Members \ (StandardMembers \cup UserMethods)
       /\ UpdateModes \subseteq UpdateTypes
       /\ Unset \notin Paths
       /\ MaxObjects \in Nat /\ MaxCalls \in Nat /\ MaxAppSteps \in Nat
       /\ Lossy \in BOOLEAN /\ RestartRun \in BOOLEAN
       /\ EmptyPath \notin Paths \cup {Unset}
       /\ HandleSources \subseteq {"make_shared", "replaced"}
       /\ MaxHandles \in Nat
       /\ UserMethods \subseteq DOMAIN Signature

IntrospectableIface == "org.freedesktop.DBus.Introspectable"
ObjectManagerIface  == "org.freedesktop.DBus.ObjectManager"

Filters == {"introspect", "object_manager", "method"}
CallIds == 1..MaxCalls

\* Interface names a client may pass as the interface_name argument.
ArgIfaces == AllIfaces \cup {UnknownIface}

(***************************************************************************)
(* The method calls a client can send: header interface and member, the  *)
(* object path, the Properties arguments (NoValue where unused), and for *)
(* an application method the types of the arguments it carries.          *)
(***************************************************************************)
Calls ==
    [member : {"Get"}, iface : {PropsIface}, path : Paths, arg : ArgIfaces,
     prop : PropNames, value : {NoValue}]
    \cup [member : {"GetAll"}, iface : {PropsIface}, path : Paths, arg : ArgIfaces,
          prop : {NoValue}, value : {NoValue}]
    \cup [member : {"Set"}, iface : {PropsIface}, path : Paths, arg : ArgIfaces,
          prop : PropNames, value : Values]
    \cup [member : UserMethods \cup BaseMethods, iface : UserIfaces, path : Paths, arg : Payloads,
          prop : {NoValue}, value : {NoValue}]
    \cup [member : {"Introspect"}, iface : {IntrospectableIface}, path : Paths,
          arg : {NoValue}, prop : {NoValue}, value : {NoValue}]
    \cup [member : {"GetManagedObjects"}, iface : {ObjectManagerIface}, path : Paths,
          arg : {NoValue}, prop : {NoValue}, value : {NoValue}]

(***************************************************************************)
(* The predicates the constructor gives the three filters.  Every call is *)
(* a method_call, so the method filter matches all of them.               *)
(***************************************************************************)
FilterMatches(f, c) ==
    CASE f = "introspect"     -> c.iface = IntrospectableIface /\ c.member = "Introspect"
      [] f = "object_manager" -> c.iface = ObjectManagerIface /\ c.member = "GetManagedObjects"
      [] f = "method"         -> TRUE

VARIABLES
    objects,      \* DbusObjectServer::objects, in registration order
    calls,        \* the method calls sent so far; a call's id is its index
    fq,           \* per filter, the ids of matched calls not yet dispatched
    armed,        \* per filter, whether async_dispatch has a pending handler
    pcEndpoint,   \* the function-local static endpoint in set_properties
    iaEndpoint,   \* the function-local static endpoint in register_interface
    sent,         \* the messages the last step sent
    replyCount,   \* per call id, the method returns sent for it
    mirror,       \* the client's cache: path -> interface -> table
    appSteps,     \* application steps taken
    synced,       \* the client lost no signal since its last GetManagedObjects
    handles,      \* interfaces the application holds that no object holds
    running       \* io_service::run() is executing handlers

vars == <<running, objects, calls, fq, armed, pcEndpoint, iaEndpoint, sent, replyCount,
          mirror, appSteps, synced, handles>>

-----------------------------------------------------------------------------
(* Messages and the client's view of them. *)

\* A function-local static: the first initialisation wins for the process.
EndpointFor(static, own) == IF static = Unset THEN own ELSE static

PropertiesChangedMsg(path, o, i, u) ==
    [kind |-> "PropertiesChanged", path |-> path, objPath |-> NoValue,
     owner |-> o, iface |-> i, call |-> 0, body |-> u]

InterfacesAddedMsg(path, objPath, o, i, t) ==
    [kind |-> "InterfacesAdded", path |-> path, objPath |-> objPath,
     owner |-> o, iface |-> i, call |-> 0, body |-> t]

ReplyMsg(id, b) ==
    [kind |-> "return", path |-> NoValue, objPath |-> NoValue,
     owner |-> 0, iface |-> NoValue, call |-> id, body |-> b]

\* The reply of on_get_managed_objects; iface marks it for the client.
ManagedObjectsReply(id, snap) == [ReplyMsg(id, snap) EXCEPT !.iface = ObjectManagerIface]

\* The client's cache rebuilt from a GetManagedObjects reply: for each path,
\* the interfaces of the first entry with that path.
SnapshotCache(snap) ==
    [p \in Paths |->
        LET k == SelectInSeq(snap, LAMBDA e : e[1] = p)
        IN  [i \in AllIfaces |->
                IF k # 0 /\ i \in DOMAIN snap[k][2] THEN snap[k][2][i] ELSE NoValue]]

(***************************************************************************)
(* The client caches an interface's table from InterfacesAdded (keyed by  *)
(* the object_path argument), merges PropertiesChanged into the cached    *)
(* table of the signal's sender path and interface_name argument, and     *)
(* replaces its whole cache with a GetManagedObjects reply.                *)
(***************************************************************************)
IsResync(msg) == msg.kind = "return" /\ msg.iface = ObjectManagerIface

Observe(m, msg) ==
    CASE IsResync(msg) -> SnapshotCache(msg.body)
      [] msg.kind = "InterfacesAdded" ->
            [m EXCEPT ![msg.objPath][msg.iface] = msg.body]
      [] msg.kind = "PropertiesChanged" /\ msg.path \in DOMAIN m
                                         /\ m[msg.path][msg.iface] # NoValue ->
            [m EXCEPT ![msg.path][msg.iface] = ApplyUpdates(@, msg.body)]
      [] OTHER -> m

\* The cache after the client receives msgs in order.
RECURSIVE ObserveAll(_, _)
ObserveAll(m, msgs) ==
    IF msgs = <<>> THEN m ELSE ObserveAll(Observe(m, Head(msgs)), Tail(msgs))

\* The messages of msgs that are signals.
Signals(msgs) == {k \in DOMAIN msgs : msgs[k].kind # "return"}

(***************************************************************************)
(* Send msgs in order: what the step sent, the client's cache, reply      *)
(* counts.  async_send's completion handlers are empty, so a lossy        *)
(* transport delivers any subsequence of msgs and nothing is retried.     *)
(***************************************************************************)
Send(msgs) ==
    /\ sent' = msgs
    /\ \E got \in IF Lossy THEN AllSubSeqs(msgs) ELSE {msgs} :
          /\ mirror' = ObserveAll(mirror, got)
          /\ synced' = /\ synced \/ \E k \in DOMAIN got : IsResync(got[k])
                       /\ Cardinality(Signals(got)) = Cardinality(Signals(msgs))
    /\ replyCount' = [id \in CallIds |->
                        replyCount[id] + Cardinality({k \in DOMAIN msgs :
                            msgs[k].kind = "return" /\ msgs[k].call = id})]

-----------------------------------------------------------------------------
(* Routing helpers. *)

\* on_method_call's loop: the first object whose object_name equals the path.
FirstObj(p) == SelectInSeq(objects, LAMBDA ob : ob.path = p)

(***************************************************************************)
(* LambdaDbusMethod::call unpacks the call into its handler's decayed     *)
(* parameter types before it applies the handler.  dbus::message::unpack  *)
(* (outside src/) fails unless the call carries exactly those types, in   *)
(* order (spec 4.2 (a)); unpack_into_tuple's overload for the empty tuple *)
(* never calls it.                                                         *)
(***************************************************************************)
Unpack(in, payload) == payload = in

\* mutant: unpack errors are ignored and the handler runs anyway.
UnpackIntoTupleLenient(in, payload) == TRUE

UnpackIntoTuple(in, payload) == in = <<>> \/ Unpack(in, payload)

\* DbusMethod::get_args: a plain DbusMethod declares no arguments.
DbusMethodSignature == [in |-> <<>>, out |-> <<>>]

\* The signature of a registered method: the Properties lambdas', a plain
\* DbusMethod's, or the application handler's.
MethodSignature(m) ==
    CASE m \in StandardMembers -> StandardSignature(m)
      [] m \in BaseMethods     -> DbusMethodSignature
      [] OTHER                 -> Signature[m]

\* mutant: the inner loop over get_properties_map is missing.
SnapshotNoProps ==
    [k \in 1..Len(objects) |->
        <<objects[k].path, [i \in DOMAIN objects[k].interfaces |-> EmptyTable]>>]

\* GetManagedObjects: object path -> interface name -> property table.
Snapshot ==
    [k \in 1..Len(objects) |->
        <<objects[k].path,
          [i \in DOMAIN objects[k].interfaces |-> objects[k].interfaces[i].props]>>]

(***************************************************************************)
(* set_properties(e, mode) on interface i of object o, then the messages  *)
(* in after: the new table, the static endpoint initialised on the first  *)
(* call, and a PropertiesChanged signal sent whether or not it is empty.  *)
(***************************************************************************)
ChangeSignal(objectName, o, i, t, e, mode) ==
    PropertiesChangedMsg(EndpointFor(pcEndpoint, objectName), o, i,
                         SetPropertiesUpdates(t, e, mode))

SetPropertiesThen(o, i, e, mode, after) ==
    LET t   == objects[o].interfaces[i].props
        sig == ChangeSignal(objects[o].path, o, i, t, e, mode)
    IN  /\ objects' = [objects EXCEPT ![o].interfaces[i].props =
                                          SetPropertiesTable(t, e, mode)]
        /\ pcEndpoint' = sig.path
        /\ Send(<<sig>> \o after)

\* mutant: register_interface's loop over get_properties_map is missing.
AddedPropsEmpty(t) == EmptyTable
\* register_interface copies the interface's table into InterfacesAdded.
AddedProps(t) == t

(***************************************************************************)
(* An interface the application holds outside every object: its name,     *)
(* its object_name (EmptyPath until register_interface stamps it), the     *)
(* object it was replaced from (0 if none), its table and its methods.    *)
(***************************************************************************)
Handle(i, path, o, iface) == [name |-> i, path |-> path, owner |-> o,
                              props |-> iface.props, methods |-> iface.methods]

-----------------------------------------------------------------------------
(* Initial state: DbusObjectServer's constructor has armed its three filters. *)

Init ==
    /\ objects = <<>>
    /\ calls = <<>>
    /\ fq = [f \in Filters |-> <<>>]
    /\ armed = [f \in Filters |-> TRUE]
    /\ pcEndpoint = Unset
    /\ iaEndpoint = Unset
    /\ sent = <<>>
    /\ replyCount = [id \in CallIds |-> 0]
    /\ mirror = [p \in Paths |-> [i \in AllIfaces |-> NoValue]]
    /\ appSteps = 0
    /\ synced = TRUE
    /\ handles = <<>>
    /\ running = TRUE

-----------------------------------------------------------------------------
(* The application, on the io_service thread between handlers. *)

AppStep == running /\ appSteps < MaxAppSteps /\ appSteps' = appSteps + 1

\* add_object(name): the DbusObject constructor registers its Properties
\* interface (InterfacesAdded, from the static endpoint), then register_object
\* appends the object.
AddObject(p) ==
    /\ AppStep
    /\ Len(objects) < MaxObjects
    /\ LET ep == EndpointFor(iaEndpoint, p)
       IN  /\ objects' = Append(objects, NewObject(p))
           /\ iaEndpoint' = ep
           /\ Send(<<InterfacesAddedMsg(ep, p, Len(objects) + 1, PropsIface, EmptyTable)>>)
    /\ UNCHANGED <<running, calls, fq, armed, pcEndpoint, handles>>

(***************************************************************************)
(* DbusObject::add_interface(name) -> register_interface.  interfaces[name] *)
(* = x drops the object's pointer to an interface of that name; the        *)
(* shared_ptr an earlier add_interface returned keeps it alive if the      *)
(* application kept it.                                                    *)
(***************************************************************************)
AppAddInterface(o, i) ==
    /\ AppStep
    /\ objects' = [objects EXCEPT ![o] = AddInterface(@, i)]
    /\ Send(<<InterfacesAddedMsg(iaEndpoint, objects[o].path, o, i,
                                 AddedProps(EmptyTable))>>)
    /\ handles' \in {handles} \cup
           IF /\ i \in DOMAIN objects[o].interfaces
              /\ "replaced" \in HandleSources /\ Len(handles) < MaxHandles
           THEN {Append(handles, Handle(i, objects[o].path, o,
                                        objects[o].interfaces[i]))}
           ELSE {}
    /\ UNCHANGED <<running, calls, fq, armed, pcEndpoint, iaEndpoint>>

\* std::make_shared<DbusInterface>(name, conn): object_name is empty.
AppNewInterface(i) ==
    /\ AppStep
    /\ "make_shared" \in HandleSources /\ Len(handles) < MaxHandles
    /\ handles' = Append(handles, Handle(i, EmptyPath, 0, NewInterface))
    /\ Send(<<>>)
    /\ UNCHANGED <<running, objects, calls, fq, armed, pcEndpoint, iaEndpoint>>

\* set_properties through a held interface: its own table and the static
\* endpoint, built from its object_name if this is the first call.
AppHandleSetProperties(h, e, mode) ==
    /\ AppStep
    /\ LET hd  == handles[h]
           sig == ChangeSignal(hd.path, hd.owner, hd.name, hd.props, e, mode)
       IN  /\ handles' = [handles EXCEPT ![h].props = SetPropertiesTable(hd.props, e, mode)]
           /\ pcEndpoint' = sig.path
           /\ Send(<<sig>>)
    /\ UNCHANGED <<running, objects, calls, fq, armed, iaEndpoint>>

(***************************************************************************)
(* DbusObject::register_interface(x) of a held interface: it replaces any  *)
(* interface of its name, object_name is stamped, and InterfacesAdded      *)
(* carries its table.  The application's pointer now aliases the           *)
(* registered interface, which AppSetProperties acts on.                   *)
(***************************************************************************)
AppRegisterInterface(o, h) ==
    /\ AppStep
    /\ LET hd == handles[h]
       IN  /\ objects' = [objects EXCEPT ![o].interfaces =
                              (hd.name :> [props |-> hd.props, methods |-> hd.methods]) @@ @]
           /\ Send(<<InterfacesAddedMsg(iaEndpoint, objects[o].path, o, hd.name,
                                        AddedProps(hd.props))>>)
    /\ handles' = RemoveAt(handles, h)
    /\ UNCHANGED <<running, calls, fq, armed, pcEndpoint, iaEndpoint>>

\* DbusInterface::register_method on an added interface, either overload:
\* (name, handler) wraps a LambdaDbusMethod, (shared_ptr<DbusMethod>&&)
\* takes the object's name.  Both emplace, keeping an existing entry.
AppRegisterMethod(o, i, m) ==
    /\ AppStep
    /\ i \in DOMAIN objects[o].interfaces \cap UserIfaces
    /\ objects' = [objects EXCEPT ![o].interfaces[i] = RegisterMethod(@, m)]
    /\ Send(<<>>)
    /\ UNCHANGED <<running, calls, fq, armed, pcEndpoint, iaEndpoint, handles>>

\* DbusInterface::set_properties(v, mode), and set_property (one entry).
AppSetProperties(o, i, e, mode) ==
    /\ AppStep
    /\ i \in DOMAIN objects[o].interfaces \cap UserIfaces
    /\ SetPropertiesThen(o, i, e, mode, <<>>)
    /\ UNCHANGED <<running, calls, fq, armed, iaEndpoint, handles>>

-----------------------------------------------------------------------------
(* The client: a method call reaches the connection, which offers it to    *)
(* every filter; each filter whose predicate matches queues it.            *)

ClientCall(c) ==
    /\ Len(calls) < MaxCalls
    /\ calls' = Append(calls, c)
    /\ fq' = [f \in Filters |->
                IF FilterMatches(f, c) THEN Append(fq[f], Len(calls) + 1) ELSE fq[f]]
    /\ Send(<<>>)
    /\ UNCHANGED <<running, objects, armed, pcEndpoint, iaEndpoint, appSteps, handles>>

-----------------------------------------------------------------------------
(* The filter handlers.  Each takes the head of its filter's queue. *)

\* A handler runs only inside io_service::run(), once its filter has
\* dispatched to it and a call is queued.
Ready(f) == running /\ armed[f] /\ fq[f] # <<>>
Pop(f) == fq' = [fq EXCEPT ![f] = Tail(@)]
HeadId(f) == Head(fq[f])

(***************************************************************************)
(* get_xml_for_path(path) over the registered objects: the loop of        *)
(* Introspection chooses the exact matches and the <node> stubs, each      *)
(* exact match contributes its interface blocks, and the descriptors of   *)
(* each method are get_args' (ArgTypes).                                   *)
(***************************************************************************)
ObjectNames == [k \in 1..Len(objects) |-> objects[k].path]

XML == INSTANCE Introspection WITH Names <- Paths, Requests <- Paths,
                                   objects <- ObjectNames, request <- <<>>

AT == INSTANCE ArgTypes WITH Handlers <- {}, NoHandler <- NoValue, method <- NoValue

(***************************************************************************)
(* One <interface> block: a <method> per registered method with its       *)
(* argument descriptors, no <signal> (no code fills dbus_signals), and a  *)
(* <property> per table entry typed by the signature of the variant's     *)
(* alternative.  The fixed Peer and ObjectManager blocks are left out.     *)
(***************************************************************************)
InterfaceBlock(iface) ==
    [methods    |-> [m \in iface.methods |-> AT!GetArgs(MethodSignature(m))],
     properties |-> [p \in {q \in PropNames : iface.props[q] # NoValue} |->
                        ValueType[iface.props[p]]]]

ObjectBlock(ob) == [i \in DOMAIN ob.interfaces |-> InterfaceBlock(ob.interfaces[i])]

\* The document's parts in order: each exact match's interface blocks and
\* each <node> stub's name.
Document(path) ==
    LET items == XML!GetXmlForPath(ObjectNames, path)
    IN  [k \in DOMAIN items |->
            IF items[k].kind = "object"
            THEN [items[k] EXCEPT !.obj = ObjectBlock(objects[@])]
            ELSE items[k]]

\* mutant: on_introspect returns without calling async_dispatch again.
OnIntrospectNoRearm ==
    /\ Ready("introspect")
    /\ Pop("introspect")
    /\ armed' = [armed EXCEPT !["introspect"] = FALSE]
    /\ Send(<<ReplyMsg(HeadId("introspect"), Document(calls[HeadId("introspect")].path))>>)
    /\ UNCHANGED <<running, objects, calls, pcEndpoint, iaEndpoint, appSteps, handles>>

\* on_introspect: reply with get_xml_for_path(m.get_path()), then re-arm.
OnIntrospect ==
    /\ Ready("introspect")
    /\ Pop("introspect")
    /\ Send(<<ReplyMsg(HeadId("introspect"), Document(calls[HeadId("introspect")].path))>>)
    /\ UNCHANGED <<running, objects, calls, armed, pcEndpoint, iaEndpoint, appSteps, handles>>

\* on_get_managed_objects: reply with every object, interface and table.
OnGetManagedObjects ==
    /\ Ready("object_manager")
    /\ Pop("object_manager")
    /\ Send(<<ManagedObjectsReply(HeadId("object_manager"), Snapshot)>>)
    /\ UNCHANGED <<running, objects, calls, armed, pcEndpoint, iaEndpoint, appSteps, handles>>

(***************************************************************************)
(* on_method_call: route to the first object with the call's path, then   *)
(* by interface and member.  The actions below are its outcomes.          *)
(***************************************************************************)
MCall == calls[HeadId("method")]
Target == FirstObj(MCall.path)
Routed == Target # 0 /\ Routes(objects[Target], MCall.iface, MCall.member)
Throws == HandlerThrows(objects[Target], MCall.member, MCall.arg, MCall.prop)

\* Served calls leave armed as it is: the handler re-arms at its end.
Served == UNCHANGED <<running, calls, armed, iaEndpoint, appSteps, handles>>

\* No object, interface or method: nothing is sent; re-arm.
OnMethodDropped ==
    /\ Ready("method") /\ ~Routed
    /\ Pop("method")
    /\ Send(<<>>)
    /\ UNCHANGED objects /\ UNCHANGED pcEndpoint /\ Served

\* A handler throws: the exception leaves on_method_call before it re-arms,
\* and leaves io_service::run(), which stops running every handler.
\* The Properties handlers throw per HandlerThrows; an application method
\* throws when unpack fails, and its handler may throw whatever its
\* arguments.
OnHandlerThrow ==
    /\ Ready("method") /\ Routed
    /\ MCall.member \in UserMethods \/ Throws
    /\ Pop("method")
    /\ armed' = [armed EXCEPT !["method"] = FALSE]
    /\ running' = FALSE
    /\ Send(<<>>)
    /\ UNCHANGED <<objects, calls, pcEndpoint, iaEndpoint, appSteps, handles>>

\* mutant: the loop lacks its break, so every object with the path answers.
OnGetNoBreak ==
    /\ Ready("method") /\ Routed /\ MCall.member = "Get" /\ ~Throws
    /\ Pop("method")
    /\ Send([k \in 1..Cardinality({j \in 1..Len(objects) : objects[j].path = MCall.path}) |->
               ReplyMsg(HeadId("method"), GetReply(objects[Target], MCall.arg, MCall.prop))])
    /\ UNCHANGED objects /\ UNCHANGED pcEndpoint /\ Served

OnGet ==
    /\ Ready("method") /\ Routed /\ MCall.member = "Get" /\ ~Throws
    /\ Pop("method")
    /\ Send(<<ReplyMsg(HeadId("method"), GetReply(objects[Target], MCall.arg, MCall.prop))>>)
    /\ UNCHANGED objects /\ UNCHANGED pcEndpoint /\ Served

OnGetAll ==
    /\ Ready("method") /\ Routed /\ MCall.member = "GetAll" /\ ~Throws
    /\ Pop("method")
    /\ Send(<<ReplyMsg(HeadId("method"), GetAllReply(objects[Target], MCall.arg))>>)
    /\ UNCHANGED objects /\ UNCHANGED pcEndpoint /\ Served

\* Set: set_properties of one entry, VALUE_CHANGE_ONLY, then the empty reply.
OnSet ==
    /\ Ready("method") /\ Routed /\ MCall.member = "Set" /\ ~Throws
    /\ Pop("method")
    /\ SetPropertiesThen(Target, MCall.arg, MCall.prop :> MCall.value,
                         "VALUE_CHANGE_ONLY", <<ReplyMsg(HeadId("method"), <<>>)>>)
    /\ Served

\* An application method: LambdaDbusMethod::call unpacks the arguments,
\* applies the handler, packs the result tuple's components (of the types
\* the handler declares) into the return and sends it.
OnUserMethod ==
    /\ Ready("method") /\ Routed /\ MCall.member \in UserMethods
    /\ UnpackIntoTuple(Signature[MCall.member].in, MCall.arg)
    /\ Pop("method")
    /\ Send(<<ReplyMsg(HeadId("method"), Signature[MCall.member].out)>>)
    /\ UNCHANGED objects /\ UNCHANGED pcEndpoint /\ Served

\* A plain DbusMethod: its call does nothing, so nothing is sent and
\* on_method_call re-arms.
OnDbusMethod ==
    /\ Ready("method") /\ Routed /\ MCall.member \in BaseMethods
    /\ Pop("method")
    /\ Send(<<>>)
    /\ UNCHANGED objects /\ UNCHANGED pcEndpoint /\ Served

(***************************************************************************)
(* The application's main loop (outside src/) calls io_service::run()    *)
(* again after it exits with an exception, if it is written to.  Filters  *)
(* keep their queues and armed handlers across the restart.               *)
(***************************************************************************)
RestartIoService ==
    /\ RestartRun /\ ~running
    /\ running' = TRUE
    /\ Send(<<>>)
    /\ UNCHANGED <<objects, calls, fq, armed, pcEndpoint, iaEndpoint, appSteps, handles>>

OnMethodCall ==
    \/ OnMethodDropped
    \/ OnDbusMethod
    \/ OnHandlerThrow
    \/ OnGet
    \/ OnGetAll
    \/ OnSet
    \/ OnUserMethod

-----------------------------------------------------------------------------
Next ==
    \/ \E p \in Paths : AddObject(p)
    \/ \E o \in 1..Len(objects), i \in UserIfaces : AppAddInterface(o, i)
    \/ \E o \in 1..Len(objects), i \in UserIfaces, m \in UserMethods \cup BaseMethods :
           AppRegisterMethod(o, i, m)
    \/ \E o \in 1..Len(objects), i \in UserIfaces, e \in Entries, mode \in UpdateModes :
           AppSetProperties(o, i, e, mode)
    \/ \E i \in UserIfaces : AppNewInterface(i)
    \/ \E h \in 1..Len(handles), e \in Entries, mode \in UpdateModes :
           AppHandleSetProperties(h, e, mode)
    \/ \E o \in 1..Len(objects), h \in 1..Len(handles) : AppRegisterInterface(o, h)
    \/ \E c \in Calls : ClientCall(c)
    \/ OnIntrospect
    \/ OnGetManagedObjects
    \/ OnMethodCall
    \/ RestartIoService

\* While io_service::run() executes, it runs every ready handler: each armed
\* filter with a queued call is eventually dispatched.  An application
\* that restarts run() does so eventually.  Client and application steps
\* are not fair.
Spec ==
    /\ Init /\ [][Next]_vars
    /\ WF_vars(OnIntrospect)
    /\ WF_vars(OnGetManagedObjects)
    /\ WF_vars(OnMethodCall)
    /\ WF_vars(RestartIoService)

-----------------------------------------------------------------------------
(* Properties. *)

\* Every variable keeps its type; in particular no call is ever answered
\* twice, which on_method_call's break after the first matching object and
\* each handler's single send ensure.
TypeOK ==
    /\ Len(objects) <= MaxObjects
    /\ \A k \in 1..Len(objects) :
          /\ objects[k].path \in Paths
          /\ PropsIface \in DOMAIN objects[k].interfaces
          /\ DOMAIN objects[k].interfaces \subseteq AllIfaces
          /\ \A i \in DOMAIN objects[k].interfaces : objects[k].interfaces[i] \in Interfaces
    /\ Len(calls) <= MaxCalls /\ \A k \in 1..Len(calls) : calls[k] \in Calls
    /\ fq \in [Filters -> Seq(CallIds)]
    /\ armed \in [Filters -> BOOLEAN]
    /\ pcEndpoint \in Paths \cup {Unset, EmptyPath}
    /\ iaEndpoint \in Paths \cup {Unset}
    /\ replyCount \in [CallIds -> 0..1]
    /\ mirror \in [Paths -> [AllIfaces -> Tables \cup {NoValue}]]
    /\ appSteps \in 0..MaxAppSteps
    /\ synced \in BOOLEAN
    /\ running \in BOOLEAN
    /\ Len(handles) <= MaxHandles
    /\ \A h \in 1..Len(handles) :
          /\ handles[h].name \in UserIfaces /\ handles[h].props \in Tables
          /\ handles[h].methods \subseteq Members
          /\ handles[h].path \in Paths \cup {EmptyPath}

\* The table of interface i of the k-th object in obs, NoValue if none.
TableOf(obs, k, i) ==
    IF k <= Len(obs) /\ i \in DOMAIN obs[k].interfaces
    THEN obs[k].interfaces[i].props ELSE NoValue

\* A signal sent in this step from which a client that held interface i's
\* old table of object k can compute its new one.
Announces(k, i) ==
    \E j \in DOMAIN sent' :
        /\ sent'[j].owner = k /\ sent'[j].iface = i
        /\ \/ /\ sent'[j].kind = "InterfacesAdded"
              /\ sent'[j].body = TableOf(objects', k, i)
           \/ /\ sent'[j].kind = "PropertiesChanged"
              /\ TableOf(objects, k, i) # NoValue
              /\ ApplyUpdates(TableOf(objects, k, i), sent'[j].body) = TableOf(objects', k, i)

(***************************************************************************)
(* Every change to a registered property table, by the application's      *)
(* set_properties, by a client's Properties.Set or by add_interface       *)
(* replacing an interface, is announced in the same step by a signal that *)
(* carries the new contents (set_properties' change vector, or            *)
(* register_interface's InterfacesAdded).                                  *)
(***************************************************************************)
AnnouncedChanges ==
    [][\A k \in 1..Len(objects'), i \in AllIfaces :
          TableOf(objects', k, i) # TableOf(objects, k, i) => Announces(k, i)]_vars

\* The earliest-registered object with path p (defined independently of the
\* routing code).
EarliestAt(p) ==
    CHOOSE k \in 1..Len(objects) :
        /\ objects[k].path = p
        /\ \A j \in 1..(k - 1) : objects[j].path # p

\* The call with this id matched the Introspect or the ObjectManager filter.
IsStandardCall(id) ==
    /\ id <= Len(calls)
    /\ FilterMatches("introspect", calls[id]) \/ FilterMatches("object_manager", calls[id])

(***************************************************************************)
(* Every Introspect and GetManagedObjects call is eventually answered,    *)
(* even after a method handler threw out of io_service::run(), provided   *)
(* the application calls run() again: on_introspect and                  *)
(* on_get_managed_objects re-arm their one-shot filter after every         *)
(* dispatch, and the throw leaves their filters armed.                     *)
(***************************************************************************)
StandardCallsAnswered ==
    \A id \in CallIds : IsStandardCall(id) ~> replyCount[id] > 0

(***************************************************************************)
(* Every Properties call that on_method_call takes into a handler is      *)
(* eventually taken off the method filter's queue: a handler fault must   *)
(* become an error reply (spec section 7), not stop the dispatch loop.    *)
(* The code's Get/GetAll/Set lambdas throw std::runtime_error, which      *)
(* leaves on_method_call before its async_dispatch and leaves             *)
(* io_service::run(); restarting run() does not re-arm the method filter. *)
(***************************************************************************)
Queued(f, id) == \E k \in DOMAIN fq[f] : fq[f][k] = id

MethodCallsDispatched ==
    \A id \in CallIds : Queued("method", id) ~> ~Queued("method", id)

(***************************************************************************)
(* A client that builds its cache from InterfacesAdded and               *)
(* PropertiesChanged holds, for every path registered once, exactly the   *)
(* tables the server stores (spec 4.4: FORCE writes every entry to the    *)
(* table and signals it).  set_properties in FORCE mode signals the       *)
(* entries without writing them.                                           *)
(***************************************************************************)
MirrorConsistent ==
    \A p \in Paths :
        Cardinality({k \in 1..Len(objects) : objects[k].path = p}) = 1 =>
            LET k == EarliestAt(p)
            IN  \A i \in DOMAIN objects[k].interfaces :
                    mirror[p][i] = objects[k].interfaces[i].props

(***************************************************************************)
(* PropertiesChanged of an object's interface is addressed to that        *)
(* object's path (spec 4.4).  set_properties builds its endpoint in a     *)
(* function-local static, fixed by the first call in the process: on      *)
(* another object's interface, or on an interface not yet registered,     *)
(* whose object_name is empty.                                             *)
(***************************************************************************)
SignalFromOwner ==
    \A j \in DOMAIN sent :
        sent[j].kind = "PropertiesChanged" /\ sent[j].owner \in 1..Len(objects) =>
            sent[j].path = objects[sent[j].owner].path

(***************************************************************************)
(* Refinement.  The server's registry, as a client addressing objects by  *)
(* path sees it: the tables of the first object registered at each path.  *)
(***************************************************************************)
Registry ==
    [p \in Paths |->
        [i \in AllIfaces |->
            IF \E k \in 1..Len(objects) : objects[k].path = p
            THEN TableOf(objects, EarliestAt(p), i) ELSE NoValue]]

OMC == INSTANCE ObjectManagerCache
           WITH Ifaces <- AllIfaces, registry <- Registry, cache <- mirror

(***************************************************************************)
(* The server, its signals and a lossy transport implement the            *)
(* ObjectManager cache contract: set_properties' change vectors,          *)
(* register_interface's InterfacesAdded and on_get_managed_objects'       *)
(* snapshot keep every client that lost no signal since its last          *)
(* GetManagedObjects equal to the server's tables, across interleavings   *)
(* of application updates, Properties.Set and interface replacement.      *)
(***************************************************************************)
CacheRefinement == OMC!Spec

(***************************************************************************)
(* A reply to Properties.GetAll(interface_name) carries that interface's  *)
(* table (spec 4.5).  The GetAll lambda iterates properties_iface's own   *)
(* table instead.                                                          *)
(***************************************************************************)
GetAllReplyCurrent ==
    [][\A j \in DOMAIN sent' :
          sent'[j].kind = "return" /\ calls[sent'[j].call].member = "GetAll" =>
              LET c == calls[sent'[j].call]
                  k == EarliestAt(c.path)
              IN  /\ c.arg \in DOMAIN objects[k].interfaces
                  /\ sent'[j].body = objects[k].interfaces[c.arg].props
      ]_vars

\* The types of a documented method's "in" descriptors, in order.
InTypes(args) ==
    LET ins == SelectSeq(args, LAMBDA a : a.direction = "in")
    IN  [k \in DOMAIN ins |-> ins[k].type]

\* A call of member m on interface i at path p with arguments of these
\* types reaches its handler, and the handler's unpack accepts them.
CallReaches(p, i, m, payload) ==
    /\ FirstObj(p) # 0
    /\ Routes(objects[FirstObj(p)], i, m)
    /\ UnpackIntoTuple(MethodSignature(m).in, payload)

(***************************************************************************)
(* Every method an Introspect reply documents can be called as            *)
(* documented: a call to the introspected path, with the interface,       *)
(* member and "in" argument types of the document, is routed by           *)
(* on_method_call and DbusObject::call and accepted by the handler's      *)
(* unpack.  get_xml_for_path's exact-match test, arg_types' descriptors   *)
(* and the routing must agree.  Paths at which several objects are        *)
(* registered are excluded: spec 4.6.1 documents each of them while a    *)
(* call reaches the first.                                                 *)
(***************************************************************************)
DocumentedMethodsCallable ==
    \A j \in DOMAIN sent :
        LET c == calls[sent[j].call]
        IN  /\ sent[j].kind = "return" /\ sent[j].call \in 1..Len(calls)
            /\ c.member = "Introspect"
            /\ Cardinality({k \in 1..Len(objects) : objects[k].path = c.path}) <= 1
            => \A d \in DOMAIN sent[j].body :
                   sent[j].body[d].kind = "object" =>
                       LET blk == sent[j].body[d].obj
                       IN  \A i \in DOMAIN blk :
                               \A m \in DOMAIN blk[i].methods :
                                   CallReaches(c.path, i, m, InTypes(blk[i].methods[m]))

(***************************************************************************)
(* The converse: an application method call is answered only when the     *)
(* Introspect document of its path, at that moment, lists the call's      *)
(* interface and member with "in" arguments of exactly the call's types.  *)
(* on_method_call's first-match loop, DbusInterface::call's lookup, the   *)
(* handler's unpack and get_xml_for_path's exact matches must agree.      *)
(***************************************************************************)
AnsweredAsDocumented ==
    \A j \in DOMAIN sent :
        LET c == calls[sent[j].call]
            doc == Document(c.path)
        IN  /\ sent[j].kind = "return" /\ sent[j].call \in 1..Len(calls)
            /\ c.member \in UserMethods \cup BaseMethods
            => \E d \in DOMAIN doc :
                   /\ doc[d].kind = "object"
                   /\ c.iface \in DOMAIN doc[d].obj
                   /\ c.member \in DOMAIN doc[d].obj[c.iface].methods
                   /\ InTypes(doc[d].obj[c.iface].methods[c.member]) = c.arg

(***************************************************************************)
(* A call to an application method is answered only when its arguments    *)
(* have the handler's parameter types: unmarshalling fails with            *)
(* ArgumentMismatch when the payload's arity or types differ (spec 4.2    *)
(* (a)).  unpack_into_tuple's overload for a handler without parameters   *)
(* never looks at the payload.                                             *)
(***************************************************************************)
ArgumentsMatchSignature ==
    \A j \in DOMAIN sent :
        LET c == calls[sent[j].call]
        IN  /\ sent[j].kind = "return" /\ sent[j].call \in 1..Len(calls)
            /\ c.member \in UserMethods
            => c.arg = Signature[c.member].in
=============================================================================
