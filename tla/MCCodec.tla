------------------------------- MODULE MCCodec -------------------------------
(***************************************************************************)
(* A schema with the shapes of sep.xsd that matter: required and optional  *)
(* attributes, an unbounded list, optional and repeated elements in the    *)
(* middle and at the end, a type with nothing optional.  n counts the      *)
(* events that are possible where the element may come.                    *)
(***************************************************************************)
EXTENDS Codec

Attr(name, str, min, n) ==
    [name |-> name, attr |-> TRUE, simple |-> TRUE, str |-> str, min |-> min, max |-> 1,
     unbounded |-> FALSE, type |-> "", n |-> n]
Simple(name, str, min, n) ==
    [name |-> name, attr |-> FALSE, simple |-> TRUE, str |-> str, min |-> min, max |-> 1,
     unbounded |-> FALSE, type |-> "", n |-> n]
Complex(name, type, min, max, n) ==
    [name |-> name, attr |-> FALSE, simple |-> FALSE, str |-> FALSE, min |-> min, max |-> max,
     unbounded |-> max = 0, type |-> type, n |-> n]

MCTypes == <<"List", "Curve", "Data">>

MCSchema ==
    [List  |-> <<Attr("all", FALSE, 1, 1), Complex("Curve", "Curve", 0, 0, 2)>>,
     Curve |-> <<Attr("href", TRUE, 0, 2), Simple("m", FALSE, 1, 1), Simple("d", TRUE, 0, 2),
                 Complex("c", "Data", 1, 2, 3), Simple("k", TRUE, 0, 2)>>,
     Data  |-> <<Simple("x", FALSE, 1, 1)>>]

List == <<<<"List", 1>>>>
Curve(k) == Append(List, <<"Curve", k>>)
In(base, name, k) == Append(base, <<name, k>>)
Data(base, k) == In(base, "c", k) :> "-" @@ In(In(base, "c", k), "x", 1) :> "4"
Base(all) == List :> "-" @@ In(List, "all", 1) :> all
Plain(base) == base :> "-" @@ In(base, "m", 1) :> "1" @@ Data(base, 1)
Opt(base, name, s) == In(base, name, 1) :> s

Listed(val) == [type |-> "List", val |-> val]

Empty == Listed(Base("0"))
Bare == Listed(Base("1") @@ Plain(Curve(1)))
Full == Listed(Base("2") @@ Plain(Curve(1)) @@ Opt(Curve(1), "d", "a") @@ Opt(Curve(1), "href", "u")
               @@ Data(Curve(1), 2) @@ Opt(Curve(1), "k", "a")
               @@ Plain(Curve(2)) @@ Opt(Curve(2), "href", "u") @@ Opt(Curve(2), "d", ""))
Single == [type |-> "Curve", val |-> LET c == <<<<"Curve", 1>>>>
                                     IN  Plain(c) @@ Opt(c, "href", "v") @@ Opt(c, "k", "v")]
\* The second element has none of the attributes of the first.
Mixed == Listed(Base("2") @@ Plain(Curve(1)) @@ Opt(Curve(1), "href", "u") @@ Plain(Curve(2)))

MCObjects == {Empty, Bare, Full, Single}
MCMixed == {Mixed}

MCForeign == <<[k |-> "open", name |-> "z"], [k |-> "gt"], [k |-> "simple", name |-> "y"],
               [k |-> "text", v |-> "t"], [k |-> "close", name |-> "y"],
               [k |-> "close", name |-> "z"]>>
=============================================================================
