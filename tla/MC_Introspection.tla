------------------------- MODULE MC_Introspection -------------------------
(***************************************************************************)
(* Object names for checking get_xml_for_path: the example of spec 8      *)
(* (/a, /a/b, /a/c/d) with a second grandchild /a/c/e below the same      *)
(* child, the root, a sibling sharing the prefix /a (/ab), and            *)
(* intermediate paths that no object has (/a/c).                           *)
(***************************************************************************)
EXTENDS Introspection

Root  == <<"/">>
A     == <<"/", "a">>
AB    == <<"/", "a", "b">>
A_B   == <<"/", "a", "/", "b">>
A_C   == <<"/", "a", "/", "c">>
A_C_D == <<"/", "a", "/", "c", "/", "d">>
A_C_E == <<"/", "a", "/", "c", "/", "e">>

\* All shapes: root, children, two grandchildren below one child, a
\* prefix-sharing sibling.
MCNames    == {Root, A, AB, A_B, A_C_D, A_C_E}
MCRequests == {Root, A, A_C, A_B}

\* Only well-separated names: /a and its descendants, and the sibling /ab.
SiblingNames    == {A, AB, A_B}
SiblingRequests == {A}

\* The root object and one child.
RootNames    == {Root, A}
RootRequests == {Root}
=============================================================================
