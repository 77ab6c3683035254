--------------------------- MODULE MCPayloadCodec ---------------------------
(***************************************************************************)
(* An instance of PayloadCodec for TLC: a byte of four values, integers    *)
(* on both sides of the limits of the narrowest and the widest types, and   *)
(* one that sets the sign bit of two bytes.                                *)
(***************************************************************************)
EXTENDS PayloadCodec

Limits == UNION {{-Half(s), Half(s), Span(s)} : s \in {1, 8}}
IntValues == {0, Half(2)} \cup {n - 1 : n \in Limits} \cup Limits
SomeValues == [type : {"int"}, n : IntValues]
               \cup [type : {"bool", "float"}, n : {0, 1}]
               \cup [type : {"str", "bytes", "list"}, n : {1, 4}]
AllHints == TypeHints \cup OtherHints
=============================================================================
