---------------------------- MODULE Introspection ----------------------------
(***************************************************************************)
(* DbusObjectServer::get_xml_for_path (src/include/dbus/properties.hpp)    *)
(* as an operator over the registered object names, checked against a    *)
(* reference definition of "the objects at a path" and "its immediate     *)
(* children" (spec 4.6.1).                                                 *)
(*                                                                         *)
(* Object names and request paths are sequences of characters, because    *)
(* the code's prefix test (boost::starts_with), find and substr work on   *)
(* characters.  The document is abstracted to the sequence of its parts   *)
(* that depend on the names: one ObjectItem per exact match (the Peer,    *)
(* ObjectManager and interface blocks of that object) and one NodeItem    *)
(* per <node name="..."> stub, in output order.  The fixed header and     *)
(* the XML text around the parts are left out.                            *)
(***************************************************************************)
EXTENDS Naturals, Sequences, SequencesExt

CONSTANTS
    Names,        \* object names the application registers
    Requests,     \* paths a client introspects
    MaxObjects    \* bound on register_object calls

Slash == "/"

ObjectItem(k) == [kind |-> "object", obj |-> k]
NodeItem(s)   == [kind |-> "node", name |-> s]

(***************************************************************************)
(* The code's subnode: newpath.size() is L; substr starts one character   *)
(* past it (0-based L + 1, 1-based L + 2) without checking that the       *)
(* skipped character is '/', and runs up to the next '/' found from that  *)
(* position, or to the end when find returns npos.                        *)
(***************************************************************************)
SubnodeOffByOne(name, L) ==      \* mutant: substr starts at the separator
    LET f == SelectInSubSeq(name, L + 1, Len(name), LAMBDA ch : ch = Slash)
    IN  IF f = 0 THEN SubSeq(name, L + 1, Len(name)) ELSE SubSeq(name, L + 1, f - 1)
SubnodeNoFind(name, L) ==        \* mutant: the length from find is ignored
    SubSeq(name, L + 2, Len(name))
Subnode(name, L) ==
    LET f == SelectInSubSeq(name, L + 2, Len(name), LAMBDA ch : ch = Slash)
    IN  IF f = 0 THEN SubSeq(name, L + 2, Len(name)) ELSE SubSeq(name, L + 2, f - 1)

(***************************************************************************)
(* The loop over objects from index k on, with node_names so far in seen. *)
(***************************************************************************)
RECURSIVE WalkNoDedup(_, _, _, _)
WalkNoDedup(objs, newpath, k, seen) ==    \* mutant: node_names is not consulted
    IF k > Len(objs) THEN <<>>
    ELSE CASE objs[k] = newpath ->
                  <<ObjectItem(k)>> \o WalkNoDedup(objs, newpath, k + 1, seen)
           [] IsPrefix(newpath, objs[k]) ->
                  <<NodeItem(Subnode(objs[k], Len(newpath)))>>
                      \o WalkNoDedup(objs, newpath, k + 1, seen)
           [] OTHER -> WalkNoDedup(objs, newpath, k + 1, seen)

RECURSIVE WalkPrefixMatch(_, _, _, _)
WalkPrefixMatch(objs, newpath, k, seen) ==   \* mutant: the exact-match test is starts_with
    IF k > Len(objs) THEN <<>>
    ELSE IF IsPrefix(newpath, objs[k])
         THEN <<ObjectItem(k)>> \o WalkPrefixMatch(objs, newpath, k + 1, seen)
         ELSE WalkPrefixMatch(objs, newpath, k + 1, seen)

RECURSIVE Walk(_, _, _, _)
Walk(objs, newpath, k, seen) ==
    IF k > Len(objs) THEN <<>>
    ELSE LET sub == Subnode(objs[k], Len(newpath))
         IN  CASE objs[k] = newpath ->
                      <<ObjectItem(k)>> \o Walk(objs, newpath, k + 1, seen)
               [] IsPrefix(newpath, objs[k]) /\ sub \notin seen ->
                      <<NodeItem(sub)>> \o Walk(objs, newpath, k + 1, seen \cup {sub})
               [] OTHER -> Walk(objs, newpath, k + 1, seen)

\* The request path "/" is rewritten to the empty string.
NewPath(path) == IF path = <<Slash>> THEN <<>> ELSE path

GetXmlForPath(objs, path) == Walk(objs, NewPath(path), 1, {})

-----------------------------------------------------------------------------
VARIABLES
    objects,   \* DbusObjectServer::objects, as their object_name
    request    \* the path of the last Introspect call, <<>> before the first

vars == <<objects, request>>

Init == objects = <<>> /\ request = <<>>

\* add_object / register_object: objects.emplace_back.
RegisterObject(n) ==
    /\ Len(objects) < MaxObjects
    /\ objects' = Append(objects, n)
    /\ UNCHANGED request

\* on_introspect(m): get_xml_for_path(m.get_path()).
Introspect(p) ==
    /\ request' = p
    /\ UNCHANGED objects

Next == (\E n \in Names : RegisterObject(n)) \/ (\E p \in Requests : Introspect(p))

Spec == Init /\ [][Next]_vars

-----------------------------------------------------------------------------
(* The reference definitions of spec 4.6.1 and the properties. *)

Doc == GetXmlForPath(objects, request)
DocNodes == {Doc[i].name : i \in {j \in DOMAIN Doc : Doc[j].kind = "node"}}
DocObjects == {Doc[i].obj : i \in {j \in DOMAIN Doc : Doc[j].kind = "object"}}

\* The first segment of r: everything before its first '/'.
FirstSegment(r) ==
    LET f == SelectInSeq(r, LAMBDA ch : ch = Slash)
    IN  IF f = 0 THEN r ELSE SubSeq(r, 1, f - 1)

\* The immediate child segments of p: objects strictly below p + "/".
ImmediateChildren(objs, p) ==
    LET base == NewPath(p) \o <<Slash>>
    IN  {FirstSegment(SubSeq(n, Len(base) + 1, Len(n))) :
            n \in {m \in Range(objs) : IsStrictPrefix(base, m)}}

\* The characters of names other than the separator.
Letters == UNION {Range(n) : n \in Names} \ {Slash}

\* The variables keep their types and the document is a sequence of object
\* blocks of registered objects and node stubs named by one path segment.
TypeOK ==
    /\ objects \in Seq(Names) /\ Len(objects) <= MaxObjects
    /\ request \in Requests \cup {<<>>}
    /\ \A i \in DOMAIN Doc :
          \/ Doc[i].kind = "object" /\ Doc[i].obj \in 1..Len(objects)
          \/ Doc[i].kind = "node" /\ Doc[i].name \in Seq(Letters)

(***************************************************************************)
(* No <node> stub appears twice in one document, however many registered  *)
(* objects lie below the same child (get_xml_for_path's node_names set).  *)
(***************************************************************************)
NodesListedOnce ==
    \A i, j \in DOMAIN Doc :
        i < j /\ Doc[i].kind = "node" /\ Doc[j].kind = "node" => Doc[i].name # Doc[j].name

(***************************************************************************)
(* Every immediate child of the introspected path has its <node> stub,    *)
(* named by its own segment: the substr/find arithmetic cuts the right    *)
(* characters out of each descendant's object_name.                       *)
(***************************************************************************)
ChildrenListed ==
    request # <<>> => ImmediateChildren(objects, request) \subseteq DocNodes

(***************************************************************************)
(* Every <node> stub names an immediate child (spec 4.6.1: prefix match   *)
(* on P + "/").  starts_with(object_name, newpath) has no '/' boundary.   *)
(***************************************************************************)
OnlyChildrenListed ==
    request # <<>> => DocNodes \subseteq ImmediateChildren(objects, request)

(***************************************************************************)
(* Every object whose path equals the request is described (spec 4.6.1). *)
(* For "/" the code compares object names with the rewritten empty path. *)
(***************************************************************************)
ExactMatchDescribed ==
    request # <<>> => DocObjects = {k \in 1..Len(objects) : objects[k] = request}
=============================================================================
