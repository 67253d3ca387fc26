----------------------------- MODULE DbusObject -----------------------------
(***************************************************************************)
(* The operations of one DbusObject (src/include/dbus/properties.hpp): the *)
(* constructor that installs org.freedesktop.DBus.Properties with Get,    *)
(* GetAll and Set, add_interface / register_interface, the routing of a   *)
(* call by interface name, and the three Properties handlers.  An object  *)
(* is a record [path |-> p, interfaces |-> f] where f maps each           *)
(* registered interface name to a DbusInterface record.                   *)
(*                                                                         *)
(* A handler either returns a reply body or throws std::runtime_error;    *)
(* HandlerThrows says when the code throws, the *Reply operators what a   *)
(* handler that does not throw returns.                                    *)
(***************************************************************************)
EXTENDS DbusInterface, TLC

CONSTANTS
    UserIfaces,    \* interface names the application adds with add_interface
    UnknownIface   \* an interface name no object registers

PropsIface == "org.freedesktop.DBus.Properties"
StandardMembers == {"Get", "GetAll", "Set"}

ASSUME /\ StandardMembers \subseteq Members
       /\ PropsIface \notin UserIfaces \cup {UnknownIface}

AllIfaces == UserIfaces \cup {PropsIface}

(***************************************************************************)
(* DbusObject(conn, object_name): add_interface("...Properties") and the  *)
(* registration of Get, GetAll and Set on it.                              *)
(***************************************************************************)
NewObject(p) ==
    [path |-> p,
     interfaces |-> PropsIface :> [NewInterface EXCEPT !.methods = StandardMembers]]

(***************************************************************************)
(* add_interface(name) -> register_interface: interfaces[name] = x with a *)
(* fresh interface, replacing one already registered under that name.     *)
(***************************************************************************)
AddInterface(obj, i) ==
    [obj EXCEPT !.interfaces = (i :> NewInterface) @@ @]

\* DbusObject::call followed by DbusInterface::call: the call reaches a
\* handler only if its interface and its member are both registered.
Routes(obj, iface, member) ==
    /\ iface \in DOMAIN obj.interfaces
    /\ HasMethod(obj.interfaces[iface], member)

(***************************************************************************)
(* The Get, GetAll and Set lambdas throw when interface_name is not in    *)
(* interfaces; Get also throws when property_name is not in its table.    *)
(***************************************************************************)
HandlerThrows(obj, member, argIface, prop) ==
    \/ /\ member \in StandardMembers
       /\ argIface \notin DOMAIN obj.interfaces
    \/ /\ member = "Get"
       /\ argIface \in DOMAIN obj.interfaces
       /\ obj.interfaces[argIface].props[prop] = NoValue

(***************************************************************************)
(* The handler signatures of the three Properties lambdas, as the codes   *)
(* of their decayed parameter types and of their result tuple's           *)
(* components: std::string is "s", dbus_variant "v", and GetAll's         *)
(* vector<pair<string, dbus_variant>> "a{sv}".                             *)
(***************************************************************************)
StandardSignature(m) ==
    CASE m = "Get"    -> [in |-> <<"s", "s">>, out |-> <<"v">>]
      [] m = "GetAll" -> [in |-> <<"s">>, out |-> <<"a{sv}">>]
      [] m = "Set"    -> [in |-> <<"s", "s", "v">>, out |-> <<>>]

\* Get: std::tuple<dbus_variant>(property->second).
GetReply(obj, argIface, prop) == obj.interfaces[argIface].props[prop]

\* GetAll: the loop copies properties_iface->get_properties_map(), the
\* table of the object's own Properties interface, whatever interface_name
\* the caller asked about.
GetAllReply(obj, argIface) == obj.interfaces[PropsIface].props
=============================================================================
