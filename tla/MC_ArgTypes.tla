----------------------------- MODULE MC_ArgTypes -----------------------------
(***************************************************************************)
(* Every handler of up to 11 parameters and 2 results over the codes "s"  *)
(* and "v" (so that to_string reaches two digits for arg_10), and the     *)
(* three Properties handlers the DbusObject constructor registers.        *)
(***************************************************************************)
EXTENDS ArgTypes

Codes == {"s", "v"}

\* Get(s, s) -> (v), GetAll(s) -> (a{sv}), Set(s, s, v) -> ().
PropertiesHandlers ==
    {[in |-> <<"s", "s">>, out |-> <<"v">>],
     [in |-> <<"s">>, out |-> <<"a{sv}">>],
     [in |-> <<"s", "s", "v">>, out |-> <<>>]}

MCHandlers ==
    [in : BoundedSeq(Codes, 11), out : BoundedSeq(Codes, 2)] \cup PropertiesHandlers
=============================================================================
