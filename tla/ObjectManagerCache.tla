------------------------- MODULE ObjectManagerCache -------------------------
(***************************************************************************)
(* What a D-Bus ObjectManager client is promised about its cache of a     *)
(* server's objects (spec 4.4, 4.5, 4.6, 5).                               *)
(*                                                                         *)
(* registry is the server's state: object path -> interface name ->       *)
(* property table, NoValue where no such interface is registered.  cache  *)
(* is the client's copy, built from the notifications it receives.        *)
(* Notifications are fire-and-forget, so one may be lost; synced is FALSE *)
(* from such a loss until the client next fetches the whole registry.     *)
(*                                                                         *)
(* The promise: every change of one interface's table is notified, and a  *)
(* client that has lost nothing since its last fetch holds the registry.   *)
(***************************************************************************)
CONSTANTS
    Paths,        \* object paths
    Ifaces,       \* interface names
    Tables,       \* property tables
    EmptyTable,   \* the table of a freshly registered interface
    NoValue       \* no interface of that name at that path

VARIABLES registry, cache, synced

vars == <<registry, cache, synced>>

Absent == [p \in Paths |-> [i \in Ifaces |-> NoValue]]

Init == registry = Absent /\ cache = Absent /\ synced = TRUE

(***************************************************************************)
(* The notification of a change at (p, i) reaches the client, which       *)
(* updates that entry of its cache (from a correct cache, to the new      *)
(* table), or is lost.                                                     *)
(***************************************************************************)
Notify(p, i) ==
    \/ /\ cache' \in {[cache EXCEPT ![p][i] = t] : t \in Tables \cup {NoValue}}
       /\ synced' = synced
       /\ synced => cache' = registry'
    \/ /\ cache' = cache
       /\ synced' = FALSE

\* Interface i at path p is registered (with an empty table) or replaced,
\* or its registered table is updated to t.
Change(p, i, t) ==
    /\ registry[p][i] # NoValue \/ t = EmptyTable
    /\ registry' = [registry EXCEPT ![p][i] = t]
    /\ Notify(p, i)

\* A notification that changes nothing is lost.
Drop ==
    /\ synced' = FALSE
    /\ UNCHANGED <<registry, cache>>

\* The client fetches the whole registry.
Resync ==
    /\ cache' = registry
    /\ synced' = TRUE
    /\ UNCHANGED registry

Next ==
    \/ \E p \in Paths, i \in Ifaces, t \in Tables : Change(p, i, t)
    \/ Drop
    \/ Resync

Spec == Init /\ [][Next]_vars

\* A client that has lost no notification holds the server's registry.
CacheCurrentWhenSynced == synced => cache = registry
=============================================================================
