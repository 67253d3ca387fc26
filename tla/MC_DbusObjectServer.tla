------------------------ MODULE MC_DbusObjectServer ------------------------
(***************************************************************************)
(* Model-checking instance of DbusObjectServer: two object paths, /a and  *)
(* its child /a/b, as the character sequences get_xml_for_path works on   *)
(* (so two objects can share a path or not, and introspecting /a lists a  *)
(* node), one application interface with one handler method and, in the *)
(* core run, one plain DbusMethod, one property with two values, and the  *)
(* bounds in the .cfg files.  Other names are model values declared       *)
(* there.                                                                  *)
(***************************************************************************)
EXTENDS DbusObjectServer

CONSTANTS i1, m1, m2, x, v1, v2

MCPaths == {<<"/", "a">>, <<"/", "a", "/", "b">>}
\* The refinement run's single path.
MCOnePath == {<<"/", "a">>}
MCUserIfaces == {i1}
MCUserMethods == {m1}
MCMembers == StandardMembers \cup MCUserMethods
MCPropNames == {x}
MCValues == {v1, v2}
MCAllModes == UpdateTypes
MCChangeOnly == {"VALUE_CHANGE_ONLY"}
MCNoUserMethods == {}
\* m2 is a plain DbusMethod registered through register_method(shared_ptr).
MCBaseMethods == {m2}
MCNoBaseMethods == {}
MCMembersWithBase == MCMembers \cup MCBaseMethods

\* m1 is a handler (const std::string&) -> std::tuple<std::string>.
MCSignature == m1 :> [in |-> <<"s">>, out |-> <<"s">>]
\* m1 is a handler () -> std::tuple<>.
MCNoArgSignature == m1 :> [in |-> <<>>, out |-> <<>>]
\* A client passes no argument or one string.
MCPayloads == {<<>>, <<"s">>}
\* v1 holds a std::string, v2 a uint32_t.
MCValueType == (v1 :> "s") @@ (v2 :> "u")
=============================================================================
