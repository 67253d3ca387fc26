---------------------------- MODULE DbusInterface ----------------------------
(***************************************************************************)
(* The operations of one DbusInterface (src/include/dbus/properties.hpp): *)
(* its property table, the change-set that set_properties computes in     *)
(* each UpdateType, its method table and the routing of an incoming call  *)
(* by member name.  An interface is a record                              *)
(*     [props |-> Table, methods |-> SUBSET Members]                      *)
(* and the operators below compute the interface after an operation and   *)
(* what the operation sends.  The composition that holds many interfaces  *)
(* and the connection is DbusObjectServer.                                 *)
(*                                                                         *)
(* Property names and values are model values: the properties only tell   *)
(* values apart by equality, which is what dbus_variant's operator!= is   *)
(* used for in set_properties.                                             *)
(***************************************************************************)
EXTENDS FiniteSets

CONSTANTS
    PropNames,   \* names a property table may hold
    Values,      \* dbus_variant values, compared only for equality
    NoValue,     \* model value: the name is absent from properties_map
    Members      \* method names an interface may register

ASSUME NoValue \notin Values

\* enum class UpdateType { VALUE_CHANGE_ONLY, FORCE }
UpdateTypes == {"VALUE_CHANGE_ONLY", "FORCE"}

\* A properties_map: a flat_map from name to value, NoValue where absent.
Tables == [PropNames -> Values \cup {NoValue}]
EmptyTable == [p \in PropNames |-> NoValue]

\* The argument v of set_properties: a vector of (name, value) pairs with
\* distinct names, as a function from the names it carries to the values.
Entries == UNION {[S -> Values] : S \in SUBSET PropNames}

\* A freshly constructed DbusInterface: empty tables.
NewInterface == [props |-> EmptyTable, methods |-> {}]

Interfaces == [props : Tables, methods : SUBSET Members]

(***************************************************************************)
(* set_properties, VALUE_CHANGE_ONLY branch: an entry is an update when   *)
(* its name is absent (the "must be new" branch) or the stored value      *)
(* differs; both branches write the value and record (name, value).       *)
(***************************************************************************)
VcoUpdatesNewOnly(t, e) ==          \* mutant: the "exists and differs" branch drops its update
    [p \in {q \in DOMAIN e : t[q] = NoValue} |-> e[p]]
VcoUpdates(t, e) ==
    [p \in {q \in DOMAIN e : t[q] # e[q]} |-> e[p]]

\* A table with the entries of u written over it.
ApplyUpdates(t, u) ==
    [p \in PropNames |-> IF p \in DOMAIN u THEN u[p] ELSE t[p]]

(***************************************************************************)
(* set_properties(v, update_mode): the change vector it signals and the   *)
(* table it leaves.  VALUE_CHANGE_ONLY writes every entry that is new or  *)
(* differs, so the table ends with all of v written over it.  In FORCE    *)
(* mode the code copies v into the change vector (updates = v) and never  *)
(* writes properties_map.                                                  *)
(***************************************************************************)
SetPropertiesUpdates(t, e, mode) ==
    IF mode = "FORCE" THEN e ELSE VcoUpdates(t, e)

SetPropertiesTable(t, e, mode) ==
    IF mode = "FORCE" THEN t ELSE ApplyUpdates(t, e)

\* register_method(name, handler): flat_map::emplace keeps an existing entry.
RegisterMethod(iface, m) ==
    [iface EXCEPT !.methods = @ \cup {m}]

\* DbusInterface::call: the member is dispatched only if it is registered;
\* otherwise nothing happens and nothing is sent.
HasMethod(iface, m) == m \in iface.methods
=============================================================================
