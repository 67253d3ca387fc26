------------------------------ MODULE ArgTypes ------------------------------
(***************************************************************************)
(* The argument descriptors of a registered method                         *)
(* (src/include/dbus/properties.hpp): the compile-time recursion           *)
(* arg_types<I> over a tuple type and LambdaDbusMethod::get_args, checked *)
(* against the reference list of spec 8 ("Signature derivation            *)
(* determinism").  The base DbusMethod::get_args and DbusSignal::get_args  *)
(* return an empty vector and are not modelled further.                    *)
(*                                                                         *)
(* A handler's decayed parameter types and its result tuple's components  *)
(* are sequences of type signature codes: element_signature<T>::code is   *)
(* the external message layer's mapping, so a type is represented by its  *)
(* code.  The names "arg_" + std::to_string(I) and "out_" + ... are built *)
(* as character sequences, with to_string's decimal digits.               *)
(***************************************************************************)
EXTENDS Naturals, Sequences, SequencesExt

CONSTANTS
    Handlers,    \* handler signatures: [in : Seq(codes), out : Seq(codes)]
    NoHandler    \* model value: no method registered yet

Digit(d) == <<"0", "1", "2", "3", "4", "5", "6", "7", "8", "9">>[d + 1]

\* std::to_string on a size_t: its decimal digits, most significant first.
RECURSIVE Decimal(_)
Decimal(n) == IF n < 10 THEN <<Digit(n)>> ELSE Decimal(n \div 10) \o <<Digit(n % 10)>>

ArgPrefix == <<"a", "r", "g", "_">>
OutPrefix == <<"o", "u", "t", "_">>

\* DbusArgument(direction, name, type).
DbusArgument(dir, name, type) == [direction |-> dir, name |-> name, type |-> type]

(***************************************************************************)
(* arg_types<I>(in, t, v): when I < size, emplace_back a descriptor for   *)
(* element I named by I, then recurse with I + 1; at I = size, stop.      *)
(* The result is v with the descriptors of t[I+1..] appended.            *)
(***************************************************************************)
RECURSIVE ArgTypesNameFromOne(_, _, _, _)
ArgTypesNameFromOne(in, t, I, v) ==      \* mutant: names count from 1
    IF I = Len(t) THEN v
    ELSE ArgTypesNameFromOne(in, t, I + 1,
            Append(v, IF in THEN DbusArgument("in", ArgPrefix \o Decimal(I + 1), t[I + 1])
                            ELSE DbusArgument("out", OutPrefix \o Decimal(I + 1), t[I + 1])))

RECURSIVE ArgTypes(_, _, _, _)
ArgTypes(in, t, I, v) ==
    IF I = Len(t) THEN v
    ELSE ArgTypes(in, t, I + 1,
            Append(v, IF in THEN DbusArgument("in", ArgPrefix \o Decimal(I), t[I + 1])
                            ELSE DbusArgument("out", OutPrefix \o Decimal(I), t[I + 1])))

\* LambdaDbusMethod::get_args: the input tuple's descriptors, then the
\* result tuple's, into one vector.
GetArgs(h) == ArgTypes(FALSE, h.out, 0, ArgTypes(TRUE, h.in, 0, <<>>))

-----------------------------------------------------------------------------
VARIABLE method   \* the handler signature of the registered method

Init == method = NoHandler

\* register_method(name, handler): a LambdaDbusMethod<Handler> is built and
\* emplaced; flat_map::emplace keeps a method already registered by name.
RegisterMethod(h) ==
    /\ method = NoHandler
    /\ method' = h

Next == \E h \in Handlers : RegisterMethod(h)

Spec == Init /\ [][Next]_method

\* The arguments get_xml_for_path lists for the registered method.
Args == GetArgs(method)

-----------------------------------------------------------------------------
(* The reference list of spec 8 and the property. *)

\* n In descriptors arg_0..arg_{n-1} of the parameter types, then m Out
\* descriptors out_0..out_{m-1} of the result's components, in order.
Declared(h) ==
    [k \in 1..(Len(h.in) + Len(h.out)) |->
        IF k <= Len(h.in)
        THEN DbusArgument("in", ArgPrefix \o Decimal(k - 1), h.in[k])
        ELSE DbusArgument("out", OutPrefix \o Decimal(k - Len(h.in) - 1),
                          h.out[k - Len(h.in)])]

(***************************************************************************)
(* The descriptors introspection reports for a registered method are     *)
(* exactly its declared parameters then its declared results, named      *)
(* arg_i / out_j from 0 in declaration order (get_args' two arg_types     *)
(* recursions, each counting I from 0), for every arity including none.   *)
(***************************************************************************)
GetArgsMatchesDeclaration ==
    method # NoHandler => Args = Declared(method)
=============================================================================
