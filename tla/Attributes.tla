---------------------------- MODULE Attributes -----------------------------
(***************************************************************************)
(* How the decoders read one attribute group of an IPP reply               *)
(* (ipp-async/src/attrs.rs).                                               *)
(*                                                                         *)
(* A group is a function from attribute names to values.  A value is of    *)
(* one of the tags the code tells apart: "text" stands for the seven text, *)
(* name, keyword, URI and MIME types, "int" for integer and enum, "other"  *)
(* for all the rest; an "array" holds a sequence of values.  None is the   *)
(* Rust `None', and the Err of the operators that require an attribute.    *)
(***************************************************************************)
EXTENDS Integers, Sequences

CONSTANT None

Value(tag, v) == [tag |-> tag, v |-> v]

\* The value of a scalar of this tag; arrays are not scalars.
Scalar(g, n, tag) ==
    IF n \in DOMAIN g /\ g[n].tag = tag THEN g[n].v ELSE None

TextOf(g, n) == Scalar(g, n, "text")
IntOf(g, n) == Scalar(g, n, "int")
BoolOf(g, n) == Scalar(g, n, "bool")

\* Mutant: only an array reads as a list.
ItemsOfArray(g, n) ==
    IF n \in DOMAIN g /\ g[n].tag = "array" THEN g[n].v ELSE <<>>

\* A scalar reads as a list of one.
Items(g, n) ==
    IF n \notin DOMAIN g THEN <<>>
    ELSE IF g[n].tag = "array" THEN g[n].v ELSE <<g[n]>>

\* `filter_map', `filter': the items whose indices are in I, in order.
Kept(s, I) ==
    LET kept[n \in 0..Len(s)] ==
            IF n = 0 THEN <<>>
            ELSE IF n \in I THEN Append(kept[n - 1], s[n]) ELSE kept[n - 1]
    IN  kept[Len(s)]

\* Items of another tag are left out.
Readable(g, n, tag) ==
    LET items == Items(g, n)
    IN  Kept([i \in DOMAIN items |-> items[i].v],
             {i \in DOMAIN items : items[i].tag = tag})

Texts(g, n) == Readable(g, n, "text")
Ints(g, n) == Readable(g, n, "int")

\* `unwrap_or', `unwrap_or_default'.
OrElse(x, default) == IF x = None THEN default ELSE x
=============================================================================
