------------------------ MODULE PayloadCodec_proofs ------------------------
(***************************************************************************)
(* Theorems about PayloadCodec, for a byte of any even number of values    *)
(* (256 in the code, where TLC's integers end), any values of the sender,  *)
(* and messages and handlers of any length.                                *)
(***************************************************************************)
EXTENDS PayloadCodec, FiniteSetTheorems, TLAPS

-----------------------------------------------------------------------------
(* Widths. *)

LEMMA Product == ASSUME NEW a \in Nat \ {0}, NEW b \in Nat \ {0}
                 PROVE  a * b \in Nat \ {0}
OBVIOUS

\* A width has as many integers as twice its half.
LEMMA Spans ==
  ASSUME ConstantsAssumption, NEW s \in Widths
  PROVE  Span(s) \in Nat \ {0, 1} /\ Half(s) \in Nat \ {0} /\ Span(s) = 2 * Half(s)
<1> DEFINE two == Byte * Byte
           four == two * two
           h == Byte \div 2
<1>1. Byte \in Nat \ {0} /\ h \in Nat \ {0} /\ Byte = 2 * h
  BY DEF ConstantsAssumption
<1>2. two \in Nat \ {0} /\ four \in Nat \ {0}
  BY <1>1, Product
<1>3. h * Byte \in Nat \ {0} /\ two = 2 * (h * Byte)
  BY <1>1, Product
<1>4. (h * Byte) * two \in Nat \ {0} /\ four = 2 * ((h * Byte) * two)
  <2> DEFINE x == h * Byte
  <2> HIDE DEF x, two
  <2>1. x \in Nat \ {0} /\ two \in Nat \ {0} /\ two = 2 * x
    BY <1>2, <1>3 DEF x
  <2>2. x * two \in Nat \ {0}
    BY <2>1, Product
  <2>3. (2 * x) * two = 2 * (x * two)
    BY <2>1
  <2> QED BY <2>1, <2>2, <2>3 DEF x, two
<1>5. ((h * Byte) * two) * four \in Nat \ {0} /\ four * four = 2 * (((h * Byte) * two) * four)
  <2> DEFINE x == (h * Byte) * two
  <2> HIDE DEF x, four
  <2>1. x \in Nat \ {0} /\ four \in Nat \ {0} /\ four = 2 * x
    BY <1>2, <1>4 DEF x
  <2>2. x * four \in Nat \ {0}
    BY <2>1, Product
  <2>3. (2 * x) * four = 2 * (x * four)
    BY <2>1
  <2> QED BY <2>1, <2>2, <2>3 DEF x, four
<1>6. ASSUME NEW n \in Nat \ {0} PROVE (2 * n) \div 2 = n /\ 2 * n \in Nat \ {0, 1}
  OBVIOUS
<1>7. \E n \in Nat \ {0} : Span(s) = 2 * n
  <2>1. CASE s = 1 BY <2>1, <1>1 DEF Span
  <2>2. CASE s = 2 BY <2>2, <1>3 DEF Span
  <2>3. CASE s = 4 BY <2>3, <1>4 DEF Span
  <2>4. CASE s = 8 BY <2>4, <1>5 DEF Span
  <2> QED BY <2>1, <2>2, <2>3, <2>4 DEF Widths
<1> QED BY <1>6, <1>7 DEF Half

\* What is cut to a width it fits keeps its two's complement.
LEMMA Cut ==
  ASSUME NEW s \in Nat \ {0}, NEW n \in Int, -s <= n, n < s
  PROVE  n % s = IF n >= 0 THEN n ELSE n + s
OBVIOUS

-----------------------------------------------------------------------------
(* The overload that pybind11 chooses. *)

LEMMA OverloadList ==
  /\ DOMAIN Overloads = 1..14
  /\ \A i \in 1..14 : /\ Overloads[i].kind \in {"bytes", "str", "cstr", "bool", "signed", "unsigned", "float"}
                      /\ Overloads[i].size \in {0} \cup Widths
                      /\ i > 3 => Overloads[i].size \in Widths
  /\ Overloads[1] = [kind |-> "bytes", size |-> 0]
  /\ Overloads[2] = [kind |-> "str", size |-> 0]
  /\ Overloads[3] = [kind |-> "cstr", size |-> 0]
  /\ Overloads[4] = [kind |-> "bool", size |-> 1]
  /\ \A i \in 5..12 : Overloads[i].kind \in {"signed", "unsigned"}
  /\ Overloads[11] = [kind |-> "signed", size |-> 8]
  /\ Overloads[12] = [kind |-> "unsigned", size |-> 8]
  /\ Overloads[13] = [kind |-> "float", size |-> 4]
  /\ Overloads[14] = [kind |-> "float", size |-> 8]
BY DEF Overloads, Overload, Widths

LEMMA Least ==
  ASSUME NEW S \in SUBSET (1..14), S # {}
  PROVE  \E i \in S : \A j \in S : i <= j
<1> SUFFICES ASSUME \A i \in S : \E j \in S : j < i
             PROVE  FALSE
  OBVIOUS
<1>1. \A i \in S : i > 5
  OBVIOUS
<1>2. \A i \in S : i > 10
  BY <1>1
<1>3. \A i \in S : i > 14
  BY <1>2
<1>4. PICK i \in S : TRUE
  OBVIOUS
<1> QED BY <1>3, <1>4

LEMMA Intervals ==
  ASSUME NEW o
  PROVE  /\ o.kind = "signed" => Interval(o) = -Half(o.size) .. Half(o.size) - 1
         /\ o.kind = "unsigned" => Interval(o) = 0 .. Span(o.size) - 1
         /\ o.kind \notin {"signed", "unsigned"} => Interval(o) = {}
BY Zenon DEF Interval

LEMMA ValueParts ==
  ASSUME NEW v \in PyValues
  PROVE  /\ v.type \in Types /\ v.n \in Int /\ v = [type |-> v.type, n |-> v.n]
         /\ v.type \in {"bool", "float"} => v.n \in {0, 1}
         /\ v.type \in {"str", "bytes", "list"} => v.n \in Nat
BY DEF PyValues, Types

\* Where some overload accepts a value as it is, the first of these is chosen.
LEMMA ChosenExact ==
  ASSUME NEW v, NEW n \in 1..14, Accepts(Overloads[n], v, FALSE)
  PROVE  \E k \in 1..n : /\ Accepts(Overloads[k], v, FALSE) /\ Chosen(v) = Overloads[k]
                         /\ \A i \in 1..(k - 1) : ~Accepts(Overloads[i], v, FALSE)
<1> DEFINE exact == {i \in DOMAIN Overloads : Accepts(Overloads[i], v, FALSE)}
           first == CHOOSE i \in exact : \A j \in exact : i <= j
<1>1. exact \in SUBSET (1..14) /\ n \in exact
  BY OverloadList
<1>2. first \in exact /\ \A j \in exact : first <= j
  <2> HIDE DEF exact
  <2> QED BY <1>1, Least
<1>3. Chosen(v) = Overloads[first]
  BY <1>1 DEF Chosen
<1>4. first \in 1..n /\ \A i \in 1..(first - 1) : i \notin exact
  <2> HIDE DEF exact, first
  <2> QED BY <1>1, <1>2
<1>5. \A i \in 1..(first - 1) : i \in DOMAIN Overloads
  <2> HIDE DEF first
  <2> QED BY <1>4, OverloadList
<1>6. Accepts(Overloads[first], v, FALSE) /\ \A i \in 1..(first - 1) : ~Accepts(Overloads[i], v, FALSE)
  BY <1>2, <1>4, <1>5
<1> QED BY <1>3, <1>4, <1>6

\* Where there is none, the first that accepts it converted.
LEMMA ChosenConverted ==
  ASSUME NEW v, \A i \in 1..14 : ~Accepts(Overloads[i], v, FALSE),
         NEW k \in 1..14, Accepts(Overloads[k], v, TRUE),
         \A i \in 1..(k - 1) : ~Accepts(Overloads[i], v, TRUE)
  PROVE  Chosen(v) = Overloads[k]
<1> DEFINE exact == {i \in DOMAIN Overloads : Accepts(Overloads[i], v, FALSE)}
           converted == {i \in DOMAIN Overloads : Accepts(Overloads[i], v, TRUE)}
           first == CHOOSE i \in converted : \A j \in converted : i <= j
<1>1. exact = {}
  BY OverloadList
<1>2. Chosen(v) = Overloads[first]
  BY <1>1 DEF Chosen
<1>3. converted \in SUBSET (1..14) /\ k \in converted /\ \A i \in 1..(k - 1) : i \notin converted
  BY OverloadList
<1>4. first = k
  <2> HIDE DEF converted
  <2>1. \A j \in converted : k <= j
    BY <1>3
  <2>2. first \in converted /\ \A j \in converted : first <= j
    BY <1>3, <2>1
  <2> HIDE DEF first
  <2> QED BY <1>3, <2>1, <2>2
<1> QED BY <1>2, <1>4

LEMMA ChosenForInt ==
  ASSUME ConstantsAssumption, NEW v \in PyValues, v.type = "int"
  PROVE  /\ Chosen(v).size \in Widths
         /\ WithinRange(v) => Number(Chosen(v))
         /\ Number(Chosen(v)) => v.n \in Interval(Chosen(v))
         /\ ~Number(Chosen(v)) => Chosen(v) = Overloads[4]
<1>0. v.n \in Int
  BY ValueParts
<1>1. ASSUME NEW i \in 1..14, Accepts(Overloads[i], v, FALSE)
      PROVE  i \in 5..12 /\ v.n \in Interval(Overloads[i])
  <2>1. v.n \in Interval(Overloads[i])
    BY <1>1, OverloadList DEF Accepts
  <2>2. Number(Overloads[i])
    BY <2>1, Intervals DEF Number
  <2> QED BY <2>1, <2>2, OverloadList DEF Number
<1>2. CASE \E n \in 1..14 : Accepts(Overloads[n], v, FALSE)
  <2>0. PICK n \in 1..14 : Accepts(Overloads[n], v, FALSE)
    BY <1>2
  <2>1. PICK k \in 1..n : Accepts(Overloads[k], v, FALSE) /\ Chosen(v) = Overloads[k]
    BY <2>0, ChosenExact
  <2>. k \in 1..14
    OBVIOUS
  <2>2. k \in 5..12 /\ v.n \in Interval(Overloads[k])
    BY <1>1, <2>1
  <2>3. Overloads[k].size \in Widths /\ Number(Overloads[k])
    BY <2>2, OverloadList DEF Number
  <2> QED BY <2>1, <2>2, <2>3
<1>3. CASE \A n \in 1..14 : ~Accepts(Overloads[n], v, FALSE)
  <2>1. Accepts(Overloads[4], v, TRUE)
    BY OverloadList DEF Accepts
  <2>2. \A i \in 1..3 : ~Accepts(Overloads[i], v, TRUE)
    <3>1. \A i \in 1..3 : Overloads[i].kind \in {"bytes", "str", "cstr"}
      BY OverloadList
    <3> QED BY <3>1, Intervals DEF Accepts
  <2>3. Chosen(v) = Overloads[4]
    <3>1. 4 \in 1..14 /\ 4 - 1 = 3
      OBVIOUS
    <3> QED BY <1>3, <2>1, <2>2, <3>1, ChosenConverted
  <2>4. ~WithinRange(v)
    <3>1. v.n \notin Interval(Overloads[11]) /\ v.n \notin Interval(Overloads[12])
      BY <1>3 DEF Accepts
    <3>2. /\ v.n \notin -Half(8) .. Half(8) - 1
          /\ v.n \notin 0 .. Span(8) - 1
      <4>1. /\ Overloads[11].kind = "signed" /\ Overloads[11].size = 8
            /\ Overloads[12].kind = "unsigned" /\ Overloads[12].size = 8
        BY OverloadList
      <4> QED BY <3>1, <4>1, Intervals
    <3>3. Half(8) \in Nat \ {0} /\ Span(8) \in Nat
      BY Spans DEF Widths
    <3> QED BY <1>0, <3>2, <3>3 DEF WithinRange
  <2> QED BY <2>3, <2>4, OverloadList DEF Number
<1> QED BY <1>2, <1>3

LEMMA ChosenForOthers ==
  ASSUME NEW v \in PyValues, v.type # "int"
  PROVE  Chosen(v) = Overloads[CASE v.type = "list" -> 1 [] v.type \in {"str", "bytes"} -> 2
                                 [] v.type = "bool" -> 4 [] OTHER -> 13]
<1>0. v.type \in Types
  BY ValueParts
<1>1. ASSUME NEW n \in 1..14, Accepts(Overloads[n], v, FALSE),
             \A i \in 1..(n - 1) : ~Accepts(Overloads[i], v, FALSE)
      PROVE  Chosen(v) = Overloads[n]
  <2>1. PICK k \in 1..n : Accepts(Overloads[k], v, FALSE) /\ Chosen(v) = Overloads[k]
    BY <1>1, ChosenExact
  <2>2. k \notin 1..(n - 1)
    BY <1>1, <2>1
  <2>3. k = n
    BY <2>2
  <2> QED BY <2>1, <2>3
<1>2. CASE v.type = "list"
  <2>1. Accepts(Overloads[1], v, FALSE)
    BY <1>2, OverloadList DEF Accepts
  <2>2. 1 \in 1..14 /\ 1..(1 - 1) = {}
    OBVIOUS
  <2> QED BY <1>1, <1>2, <2>1, <2>2
<1>3. CASE v.type \in {"str", "bytes"}
  <2>1. Accepts(Overloads[2], v, FALSE) /\ ~Accepts(Overloads[1], v, FALSE)
    BY <1>3, OverloadList, Intervals DEF Accepts
  <2>2. 2 \in 1..14 /\ 1..(2 - 1) = {1}
    OBVIOUS
  <2>3. Chosen(v) = Overloads[2]
    BY <1>1, <2>1, <2>2
  <2> QED BY <1>3, <2>3
<1>4. ASSUME v.type \in {"bool", "float"}, NEW i \in 1..3
      PROVE  ~Accepts(Overloads[i], v, FALSE)
  <2>1. Overloads[i].kind \in {"bytes", "str", "cstr"}
    BY OverloadList
  <2> QED BY <1>4, <2>1, Intervals DEF Accepts
<1>5. CASE v.type = "bool"
  <2>1. Accepts(Overloads[4], v, FALSE)
    BY <1>5, OverloadList DEF Accepts
  <2>2. 4 \in 1..14 /\ 4 - 1 = 3
    OBVIOUS
  <2>3. Chosen(v) = Overloads[4]
    BY <1>1, <1>4, <1>5, <2>1, <2>2
  <2> QED BY <1>5, <2>3
<1>6. CASE v.type = "float"
  <2>1. Accepts(Overloads[13], v, FALSE)
    BY <1>6, OverloadList DEF Accepts
  <2>2. \A i \in 4..12 : ~Accepts(Overloads[i], v, FALSE)
    <3>1. \A i \in 4..12 : Overloads[i].kind \in {"bool", "signed", "unsigned"}
      BY OverloadList
    <3> QED BY <1>6, <3>1 DEF Accepts
  <2>3. 13 \in 1..14 /\ \A i \in 1..(13 - 1) : i \in 1..3 \/ i \in 4..12
    OBVIOUS
  <2>4. Chosen(v) = Overloads[13]
    BY <1>1, <1>4, <1>6, <2>1, <2>2, <2>3
  <2> QED BY <1>6, <2>4
<1> QED BY <1>0, <1>2, <1>3, <1>5, <1>6 DEF Types

-----------------------------------------------------------------------------
(* What a parameter holds, and what a reader makes of it. *)

\* The bits of an integer that was not turned into a bool.
LEMMA IntBits ==
  ASSUME ConstantsAssumption, NEW v \in PyValues, v.type = "int", Number(Chosen(v))
  PROVE  LET p == Encode(v) IN
         /\ p.size \in Widths /\ p.bits \in 0..(Span(p.size) - 1)
         /\ p.bits = IF v.n >= 0 THEN v.n ELSE v.n + Span(p.size)
         /\ v.n >= -Half(p.size)
<1> DEFINE s == Chosen(v).size
<1>1. v.n \in Int
  BY ValueParts
<1>2. s \in Widths /\ v.n \in Interval(Chosen(v))
  BY ChosenForInt
<1>3. Span(s) \in Nat \ {0, 1} /\ Half(s) \in Nat \ {0} /\ Span(s) = 2 * Half(s)
  BY <1>2, Spans
<1>4. -Half(s) <= v.n /\ v.n < Span(s)
  <2> HIDE DEF s
  <2>1. v.n \in -Half(s) .. Half(s) - 1 \/ v.n \in 0 .. Span(s) - 1
    BY <1>2, Intervals DEF Number, s
  <2> QED BY <1>1, <1>3, <2>1
<1>5. v.n % Span(s) = IF v.n >= 0 THEN v.n ELSE v.n + Span(s)
  <2> HIDE DEF s
  <2>1. Span(s) \in Nat \ {0} /\ -Span(s) <= v.n /\ v.n < Span(s)
    BY <1>1, <1>3, <1>4
  <2> QED BY <1>1, <2>1, Cut
<1>6. Encode(v).size = s /\ Encode(v).bits = v.n % Span(s)
  BY <1>2 DEF Encode, Parameter, Widths
<1> HIDE DEF s
<1> QED BY <1>1, <1>2, <1>3, <1>4, <1>5, <1>6

LEMMA OtherBits ==
  ASSUME ConstantsAssumption, NEW v \in PyValues, v.type = "int" => ~Number(Chosen(v))
  PROVE  LET p == Encode(v) IN
         /\ p.size \in Nat /\ p.bits \in {0, 1}
         /\ v.type = "int" => p.size \in Widths
         /\ v.type = "bool" => p.size = 1 /\ p.bits = v.n
         /\ v.type = "float" => p.size = 4
         /\ v.type \in {"str", "bytes", "list"} => p.size = v.n
<1>1. v.type \in Types /\ v.n \in Int /\ (v.type \in {"bool", "float"} => v.n \in {0, 1})
      /\ (v.type \in {"str", "bytes", "list"} => v.n \in Nat)
  BY ValueParts
<1>2. CASE v.type \in {"int", "bool"}
  <2>1. Chosen(v) = Overloads[4]
    BY <1>2, ChosenForInt, ChosenForOthers
  <2>2. Chosen(v).kind = "bool" /\ Chosen(v).size = 1
    BY <2>1, OverloadList
  <2>3. Encode(v).size = 1 /\ Encode(v).bits = IF v.n # 0 THEN 1 ELSE 0
    BY <2>2 DEF Encode, Parameter, Number
  <2> QED BY <1>1, <1>2, <2>3 DEF Widths
<1>3. CASE v.type = "float"
  <2>1. Chosen(v) = Overloads[13]
    BY <1>3, ChosenForOthers
  <2>2. Chosen(v).kind = "float" /\ Chosen(v).size = 4
    BY <2>1, OverloadList
  <2>3. Encode(v).size = 4 /\ Encode(v).bits = 0
    BY <2>2 DEF Encode, Parameter, Number
  <2> QED BY <1>3, <2>3
<1>4. CASE v.type \in {"str", "bytes", "list"}
  <2>1. Chosen(v) = Overloads[1] \/ Chosen(v) = Overloads[2]
    BY <1>4, ChosenForOthers
  <2>2. Chosen(v).kind \in {"bytes", "str"} /\ Chosen(v).size = 0
    BY <2>1, OverloadList
  <2>3. Encode(v).size = v.n /\ Encode(v).bits = 0
    BY <2>2 DEF Encode, Parameter, Number
  <2> QED BY <1>1, <1>4, <2>3
<1> QED BY <1>1, <1>2, <1>3, <1>4 DEF Types

LEMMA EncodeType ==
  ASSUME ConstantsAssumption, NEW v \in PyValues
  PROVE  /\ Encode(v) \in [size : Nat, bits : Nat, text : BOOLEAN]
         /\ Encode(v).size \in Widths => Encode(v).bits < Span(Encode(v).size)
         /\ Encode(v).text <=> v.type = "str"
<1>1. Encode(v) = [size |-> Encode(v).size, bits |-> Encode(v).bits, text |-> Encode(v).text]
  BY DEF Encode, Parameter
<1>t. Encode(v).text = (v.type = "str")
  BY DEF Encode, Parameter
<1>r. ASSUME NEW a \in Nat, NEW b \in Nat, NEW t \in BOOLEAN
      PROVE  [size |-> a, bits |-> b, text |-> t] \in [size : Nat, bits : Nat, text : BOOLEAN]
  OBVIOUS
<1>2. CASE v.type = "int" /\ Number(Chosen(v))
  <2>1. /\ Encode(v).size \in Widths /\ Encode(v).bits \in 0..(Span(Encode(v).size) - 1)
    BY <1>2, IntBits
  <2>2. Span(Encode(v).size) \in Nat
    BY <2>1, Spans
  <2>3. Encode(v).size \in Nat /\ Encode(v).bits \in Nat /\ Encode(v).bits < Span(Encode(v).size)
    BY <2>1, <2>2 DEF Widths
  <2> QED BY <1>1, <1>t, <1>r, <2>3
<1>3. CASE v.type = "int" => ~Number(Chosen(v))
  <2>1. Encode(v).size \in Nat /\ Encode(v).bits \in {0, 1}
    BY <1>3, OtherBits
  <2>2. ASSUME Encode(v).size \in Widths PROVE Encode(v).bits < Span(Encode(v).size)
    <3>1. Span(Encode(v).size) \in Nat \ {0, 1}
      BY <2>2, Spans
    <3> QED BY <2>1, <3>1
  <2>3. Encode(v).bits \in Nat
    BY <2>1
  <2> QED BY <1>1, <1>t, <1>r, <2>1, <2>2, <2>3
<1> QED BY <1>2, <1>3

\* Whatever width add_param chose, the reader of the type takes it.
LEMMA SizeFits ==
  ASSUME ConstantsAssumption, NEW v \in PyValues, NEW h \in TypeHints, Matches(v, h)
  PROVE  Encode(v).size \in Sizes(h)
<1>1. CASE h \in {"int", "uint"}
  <2>1. v.type = "int"
    BY <1>1 DEF Matches
  <2>2. Encode(v).size \in Widths
    BY <2>1, IntBits, OtherBits
  <2> QED BY <1>1, <2>2 DEF Sizes
<1>2. CASE h = "float"
  <2>1. v.type = "float"
    BY <1>2 DEF Matches
  <2>2. Encode(v).size = 4
    BY <2>1, OtherBits
  <2> QED BY <1>2, <2>2 DEF Sizes
<1>3. CASE h = "bool"
  <2>1. v.type = "bool"
    BY <1>3 DEF Matches
  <2>2. Encode(v).size = 1
    BY <2>1, OtherBits
  <2> QED BY <1>3, <2>2 DEF Sizes
<1>4. CASE h \in {"str", "bytes"}
  <2>1. Encode(v).size \in Nat
    BY EncodeType
  <2> QED BY <1>4, <2>1 DEF Sizes
<1> QED BY <1>1, <1>2, <1>3, <1>4 DEF TypeHints

\* A value that is added, sent and read comes back, but for the exceptions.
LEMMA RoundTrip ==
  ASSUME ConstantsAssumption, NEW v \in PyValues, NEW h \in TypeHints,
         Matches(v, h), Kept(v, h)
  PROVE  Decode(h, Encode(v)) = Received(v, h)
<1>0. v = [type |-> v.type, n |-> v.n] /\ v.type \in Types /\ v.n \in Int
      /\ (v.type \in {"bool", "float"} => v.n \in {0, 1})
  BY ValueParts
<1>1. CASE h \in {"int", "uint"}
  <2> DEFINE p == Encode(v)
  <2>1. v.type = "int" /\ (h = "uint" => v.n >= 0)
    BY <1>1 DEF Matches
  <2>2. Number(Chosen(v))
    BY <2>1, ChosenForInt DEF Kept
  <2>3. /\ p.size \in Widths /\ p.bits \in 0..(Span(p.size) - 1)
        /\ p.bits = IF v.n >= 0 THEN v.n ELSE v.n + Span(p.size)
        /\ v.n >= -Half(p.size)
    BY <2>1, <2>2, IntBits
  <2>4. Span(p.size) \in Nat \ {0, 1} /\ Half(p.size) \in Nat \ {0} /\ Span(p.size) = 2 * Half(p.size)
    BY <2>3, Spans
  <2>5. h = "int" => v.n < Half(p.size)
    BY DEF Kept, SignSafe
  <2>6. h = "int" => Signed(p.bits, p.size) = v.n
    <3> HIDE DEF p
    <3> QED BY <1>0, <2>3, <2>4, <2>5 DEF Signed
  <2>7. h = "uint" => p.bits = v.n
    <3> HIDE DEF p
    <3> QED BY <2>1, <2>3
  <2>8. Decode(h, p) = [type |-> "int", n |-> v.n]
    <3> HIDE DEF p
    <3> QED BY <1>1, <2>6, <2>7 DEF Decode
  <2>9. Received(v, h) = v
    BY <1>1 DEF Received
  <2> QED BY <1>0, <2>1, <2>8, <2>9
<1>2. CASE h = "bytes"
  <2>1. v.type \in {"bytes", "list"}
    BY <1>2 DEF Matches
  <2>2. Encode(v).size = v.n
    BY <2>1, OtherBits
  <2>3. Decode(h, Encode(v)) = [type |-> "list", n |-> v.n]
    BY <1>2, <2>2 DEF Decode
  <2>4. Received(v, h) = [type |-> "list", n |-> v.n]
    BY <1>0, <1>2 DEF Received
  <2> QED BY <2>3, <2>4
<1>3. CASE h \in {"str", "bool", "float"}
  <2>1. v.type = h /\ Received(v, h) = v
    BY <1>3 DEF Matches, Received
  <2>2. Decode(h, Encode(v)) = [type |-> h, n |-> v.n]
    <3>1. CASE h = "str"
      <4>1. Encode(v).size = v.n
        BY <2>1, <3>1, OtherBits
      <4> QED BY <3>1, <4>1 DEF Decode
    <3>2. CASE h = "bool"
      <4>1. Encode(v).bits = v.n /\ v.n \in {0, 1}
        BY <1>0, <2>1, <3>2, OtherBits
      <4> QED BY <3>2, <4>1 DEF Decode
    <3>3. CASE h = "float"
      <4>1. v.n = 0
        BY <2>1, <3>3 DEF Kept
      <4> QED BY <3>3, <4>1 DEF Decode
    <3> QED BY <1>3, <3>1, <3>2, <3>3
  <2> QED BY <1>0, <2>1, <2>2
<1> QED BY <1>1, <1>2, <1>3 DEF TypeHints

-----------------------------------------------------------------------------
(* Handlers and messages. *)

LEMMA HintsShape ==
  ASSUME ConstantsAssumption, NEW h \in HintLists
  PROVE  Len(h) \in 0..MaxArgs /\ DOMAIN h = 1..Len(h) /\ \A i \in 1..Len(h) : h[i] \in Hints
<1>1. PICK k \in 0..MaxArgs : h \in [1..k -> Hints]
  BY DEF HintLists
<1>2. k \in Nat /\ DOMAIN h = 1..k
  BY <1>1 DEF ConstantsAssumption
<1>3. Len(h) = k
  BY <1>1, <1>2
<1> QED BY <1>1, <1>2, <1>3

LEMMA HandlerShape ==
  ASSUME ConstantsAssumption, TypeOK
  PROVE  /\ Len(handler.hints) \in 0..MaxArgs /\ DOMAIN handler.hints = 1..Len(handler.hints)
         /\ \A i \in 1..Len(handler.hints) : handler.hints[i] \in Hints
<1>2. CASE handler = NoHandler
  <2>1. handler.hints = <<>> /\ MaxArgs \in Nat
    BY <1>2 DEF NoHandler, ConstantsAssumption
  <2> QED BY <2>1
<1>3. CASE handler \in Handlers
  <2>1. handler.hints \in HintLists
    BY <1>3 DEF Handlers
  <2> QED BY <2>1, HintsShape
<1> QED BY <1>2, <1>3 DEF TypeOK

LEMMA MessageShape ==
  ASSUME ConstantsAssumption, TypeOK
  PROVE  /\ Len(params) \in Nat /\ Len(given) = Len(params)
         /\ DOMAIN params = 1..Len(params) /\ DOMAIN given = 1..Len(params)
         /\ \A i \in 1..Len(params) : /\ params[i] \in [size : Nat, bits : Nat, text : BOOLEAN]
                                       /\ given[i] \in PyValues
<1>1. params \in Seq([size : Nat, bits : Nat, text : BOOLEAN]) /\ given \in Seq(Values)
      /\ Len(params) = Len(given) /\ Values \subseteq PyValues
  BY DEF TypeOK, ConstantsAssumption
<1>2. /\ Len(params) \in Nat
      /\ DOMAIN params = 1..Len(params) /\ DOMAIN given = 1..Len(given)
  BY <1>1
<1>3. ASSUME NEW i \in 1..Len(params)
      PROVE  params[i] \in [size : Nat, bits : Nat, text : BOOLEAN]
  <2> DEFINE R == [size : Nat, bits : Nat, text : BOOLEAN]
  <2> HIDE DEF R
  <2>1. params \in Seq(R)
    BY <1>1 DEF R
  <2>2. params[i] \in R
    BY <1>3, <2>1
  <2> QED BY <2>2 DEF R
<1>4. ASSUME NEW i \in 1..Len(given) PROVE given[i] \in Values
  BY <1>1, <1>4
<1> QED BY <1>1, <1>2, <1>3, <1>4

\* One parameter more for each argument that is unpacked.
LEMMA Counting ==
  ASSUME NEW i \in Nat \ {0}
  PROVE  /\ ParameterOf(i) \in Nat \ {0} /\ ParameterOf(1) = 1
         /\ ParameterOf(i + 1) = IF Unpacked(i) THEN ParameterOf(i) + 1 ELSE ParameterOf(i)
<1> DEFINE Before(n) == {j \in 1..(n - 1) : Unpacked(j)}
<1>1. IsFiniteSet(Before(i))
  <2>1. Before(i) \in SUBSET (1..(i - 1)) /\ IsFiniteSet(1..(i - 1))
    BY FS_Interval
  <2> QED BY <2>1, FS_Subset
<1>2. Cardinality(Before(i)) \in Nat
  BY <1>1, FS_CardinalityType
<1>3. Before(1) = {} /\ Cardinality({}) = 0
  BY FS_EmptySet
<1>4. Before(i + 1) = IF Unpacked(i) THEN Before(i) \cup {i} ELSE Before(i)
  OBVIOUS
<1>5. i \notin Before(i)
  OBVIOUS
<1>6. Cardinality(Before(i) \cup {i}) = Cardinality(Before(i)) + 1
  <2> HIDE DEF Before
  <2> QED BY <1>1, <1>5, FS_AddElement
<1>7. \A n : ParameterOf(n) = 1 + Cardinality(Before(n))
  BY DEF ParameterOf
<1> HIDE DEF Before
<1> QED BY <1>2, <1>3, <1>4, <1>6, <1>7

\* Where every argument is unpacked, each is from the parameter in its place.
LEMMA CountingAll ==
  ASSUME NEW i \in Nat \ {0}, \A j \in 1..(i - 1) : Unpacked(j)
  PROVE  ParameterOf(i) = i
<1>1. {j \in 1..(i - 1) : Unpacked(j)} = 1..(i - 1)
  OBVIOUS
<1>2. Cardinality(1..(i - 1)) = i - 1
  BY FS_Interval
<1>3. ParameterOf(i) = 1 + Cardinality(1..(i - 1))
  BY <1>1 DEF ParameterOf
<1> QED BY <1>2, <1>3

LEMMA SameHandler ==
  ASSUME handler' = handler, NEW i
  PROVE  ParameterOf(i)' = ParameterOf(i) /\ (Unpacked(i)' <=> Unpacked(i))
BY DEF ParameterOf, Unpacked

-----------------------------------------------------------------------------
(* Types. *)

LEMMA DecodeType ==
  ASSUME ConstantsAssumption, NEW h, NEW p \in [size : Nat, bits : Nat, text : BOOLEAN],
         p.size \in Sizes(h), h \in TypeHints
  PROVE  Decode(h, p) \in [type : Types, n : Int]
<1>1. p.size \in Nat /\ p.bits \in Nat
  OBVIOUS
<1>2. h = "int" => Signed(p.bits, p.size) \in Int
  <2>1. ASSUME h = "int" PROVE Span(p.size) \in Nat
    BY <2>1, Spans DEF Sizes
  <2> QED BY <1>1, <2>1 DEF Signed
<1>3. ASSUME NEW t \in Types, NEW n \in Int PROVE [type |-> t, n |-> n] \in [type : Types, n : Int]
  OBVIOUS
<1>4. PICK t \in Types, n \in Int : Decode(h, p) = [type |-> t, n |-> n]
  <2>1. CASE h = "int"   BY <1>2, <2>1 DEF Decode, Types
  <2>2. CASE h = "uint"  BY <1>1, <2>2 DEF Decode, Types
  <2>3. CASE h = "bytes" BY <1>1, <2>3 DEF Decode, Types
  <2>4. CASE h = "str"   BY <1>1, <2>4 DEF Decode, Types
  <2>5. CASE h = "bool"
    <3>1. Decode(h, p) = [type |-> "bool", n |-> IF p.bits = 0 THEN 0 ELSE 1]
      BY <2>5 DEF Decode
    <3>2. (IF p.bits = 0 THEN 0 ELSE 1) \in Int /\ "bool" \in Types
      BY DEF Types
    <3> QED BY <3>1, <3>2
  <2>6. CASE h = "float"
    <3>1. Decode(h, p) = [type |-> "float", n |-> 0]
      BY <2>6 DEF Decode
    <3> QED BY <3>1 DEF Types
  <2> QED BY <2>1, <2>2, <2>3, <2>4, <2>5, <2>6 DEF TypeHints
<1> QED BY <1>3, <1>4

\* One argument more.
LEMMA Preparing ==
  ASSUME NEW x, Prepare(x)
  PROVE  /\ arg' = arg + 1 /\ DOMAIN kwargs' = DOMAIN kwargs \cup {arg}
         /\ kwargs'[arg] = x /\ \A i \in DOMAIN kwargs : i # arg => kwargs'[i] = kwargs[i]
BY DEF Prepare

LEMMA TypePrepared ==
  ASSUME ConstantsAssumption, TypeOK, arg <= Len(handler.hints),
         NEW x \in [type : Types, n : Int] \cup Native, Prepare(x)
  PROVE  /\ arg' \in Nat \ {0} /\ DOMAIN kwargs' \subseteq 1..MaxArgs
         /\ \A i \in DOMAIN kwargs' : kwargs'[i] \in [type : Types, n : Int] \cup Native
<1> DEFINE V == [type : Types, n : Int] \cup Native
<1>1. arg \in Nat \ {0} /\ arg \in 1..MaxArgs /\ DOMAIN kwargs \subseteq 1..MaxArgs
  BY HandlerShape DEF TypeOK
<1>2. \A i \in DOMAIN kwargs : kwargs[i] \in V
  BY DEF TypeOK
<1> HIDE DEF V
<1>3. x \in V
  BY DEF V
<1>4. \A i \in DOMAIN kwargs' : kwargs'[i] \in V
  BY <1>2, <1>3, Preparing
<1>5. arg' \in Nat \ {0} /\ DOMAIN kwargs' \subseteq 1..MaxArgs
  BY <1>1, Preparing
<1> QED BY <1>4, <1>5 DEF V

LEMMA TypeStep ==
  ASSUME ConstantsAssumption, IInv, [Next]_vars
  PROVE  TypeOK'
<1>0. TypeOK /\ WrapperInv
  BY DEF IInv
<1>1. ASSUME NEW v \in Values, AddParam(v) PROVE TypeOK'
  <2> DEFINE R == [size : Nat, bits : Nat, text : BOOLEAN]
  <2>1. v \in PyValues
    BY DEF ConstantsAssumption
  <2>2. Encode(v) \in R /\ (Encode(v).size \in Widths => Encode(v).bits < Span(Encode(v).size))
    BY <2>1, EncodeType
  <2>3. params \in Seq(R) /\ given \in Seq(Values) /\ Len(params) = Len(given)
    BY <1>0 DEF TypeOK
  <2>4. \A i \in DOMAIN params : params[i].size \in Widths => params[i].bits < Span(params[i].size)
    BY <1>0 DEF TypeOK
  <2>5. params' = Append(params, Encode(v)) /\ given' = Append(given, v)
    BY <1>1 DEF AddParam
  <2>6. /\ params' \in Seq(R) /\ given' \in Seq(Values) /\ Len(params') = Len(given')
        /\ DOMAIN params = 1..Len(params) /\ DOMAIN params' = 1..(Len(params) + 1)
        /\ params'[Len(params) + 1] = Encode(v) /\ \A i \in 1..Len(params) : params'[i] = params[i]
    <3> HIDE DEF R
    <3> QED BY <2>2, <2>3, <2>5
  <2>7. Len(params) \in Nat
    BY <1>0, MessageShape
  <2>8. ASSUME NEW i \in DOMAIN params', params'[i].size \in Widths
        PROVE  params'[i].bits < Span(params'[i].size)
    <3>1. i \in 1..Len(params) \/ i = Len(params) + 1
      BY <2>6, <2>7
    <3>2. CASE i \in 1..Len(params)
      BY <2>4, <2>6, <2>8, <3>2
    <3>3. CASE i = Len(params) + 1
      BY <2>2, <2>6, <2>8, <3>3
    <3> QED BY <3>1, <3>2, <3>3
  <2>9. UNCHANGED <<handler, arg, pos, kwargs, outcome>>
    BY <1>1 DEF AddParam
  <2> QED BY <1>0, <2>6, <2>8, <2>9 DEF TypeOK
<1>2. ASSUME NEW h \in Handlers, Deliver(h) PROVE TypeOK'
  BY <1>0, <1>2 DEF Deliver, TypeOK
<1>3. ASSUME PassOn PROVE TypeOK'
  <2>1. [type |-> Hint, n |-> 0] \in Native
    BY <1>3 DEF PassOn, IsGiven, Native
  <2>2. arg <= Len(handler.hints) /\ Prepare([type |-> Hint, n |-> 0])
    BY <1>3 DEF PassOn, MayUnpack
  <2>3. /\ arg' \in Nat \ {0} /\ DOMAIN kwargs' \subseteq 1..MaxArgs
        /\ \A i \in DOMAIN kwargs' : kwargs'[i] \in [type : Types, n : Int] \cup Native
    BY <1>0, <2>1, <2>2, TypePrepared
  <2>4. UNCHANGED <<given, params, handler, pos, outcome>>
    BY <1>3 DEF PassOn
  <2> QED BY <1>0, <2>3, <2>4 DEF TypeOK
<1>4. ASSUME LeaveOut PROVE TypeOK'
  BY <1>0, <1>4 DEF LeaveOut, TypeOK
<1>5. ASSUME Unpack PROVE TypeOK'
  <2> DEFINE x == Decode(Hint, params[pos])
  <2>1. /\ arg <= Len(handler.hints) /\ Prepare(x) /\ Hint \in TypeHints
        /\ pos <= Len(params) /\ params[pos].size \in Sizes(Hint) /\ pos' = pos + 1
    BY <1>5 DEF Unpack, MayUnpack, Readable
  <2>2. pos \in Nat \ {0} /\ params[pos] \in [size : Nat, bits : Nat, text : BOOLEAN]
    <3>1. pos \in Nat \ {0} /\ pos \in 1..Len(params)
      BY <1>0, <2>1, MessageShape DEF TypeOK
    <3> QED BY <1>0, <3>1, MessageShape
  <2>3. x \in [type : Types, n : Int]
    BY <2>1, <2>2, DecodeType
  <2>4. /\ arg' \in Nat \ {0} /\ DOMAIN kwargs' \subseteq 1..MaxArgs
        /\ \A i \in DOMAIN kwargs' : kwargs'[i] \in [type : Types, n : Int] \cup Native
    <3> HIDE DEF x
    <3> QED BY <1>0, <2>1, <2>3, TypePrepared
  <2>5. UNCHANGED <<given, params, handler, outcome>> /\ pos' \in Nat \ {0}
    BY <1>5, <2>1, <2>2 DEF Unpack
  <2> QED BY <1>0, <2>4, <2>5 DEF TypeOK
<1>6. ASSUME UnpackFails PROVE TypeOK'
  BY <1>0, <1>6 DEF UnpackFails, TypeOK
<1>7. ASSUME CallHandler PROVE TypeOK'
  BY <1>0, <1>7 DEF CallHandler, TypeOK
<1>8. ASSUME CheckResult PROVE TypeOK'
  BY <1>0, <1>8 DEF CheckResult, TypeOK
<1>9. CASE UNCHANGED vars
  BY <1>0, <1>9 DEF vars, TypeOK
<1> QED BY <1>1, <1>2, <1>3, <1>4, <1>5, <1>6, <1>7, <1>8, <1>9 DEF Next

-----------------------------------------------------------------------------
(* The message and the wrapper. *)

LEMMA MessageStep ==
  ASSUME ConstantsAssumption, IInv, [Next]_vars
  PROVE  MessageInv'
<1>0. TypeOK /\ MessageInv
  BY DEF IInv
<1>1. ASSUME NEW v \in Values, AddParam(v) PROVE MessageInv'
  <2>1. /\ params \in Seq([size : Nat, bits : Nat, text : BOOLEAN]) /\ given \in Seq(Values)
        /\ Len(params) = Len(given)
    BY <1>0 DEF TypeOK
  <2>2. params' = Append(params, Encode(v)) /\ given' = Append(given, v)
    BY <1>1 DEF AddParam
  <2>3. /\ Len(params) \in Nat /\ DOMAIN params = 1..Len(params)
        /\ DOMAIN params' = 1..(Len(params) + 1)
        /\ params'[Len(params) + 1] = Encode(v) /\ given'[Len(params) + 1] = v
        /\ \A i \in 1..Len(params) : params'[i] = params[i] /\ given'[i] = given[i]
    BY <2>1, <2>2
  <2>4. ASSUME NEW i \in DOMAIN params' PROVE params'[i] = Encode(given'[i])
    <3>1. i \in 1..Len(params) \/ i = Len(params) + 1
      BY <2>3
    <3>2. CASE i \in 1..Len(params)
      BY <1>0, <2>3, <3>2 DEF MessageInv
    <3>3. CASE i = Len(params) + 1
      BY <2>3, <3>3
    <3> QED BY <3>1, <3>2, <3>3
  <2> QED BY <2>4 DEF MessageInv
<1>2. CASE UNCHANGED <<given, params>>
  BY <1>0, <1>2 DEF MessageInv
<1> QED BY <1>1, <1>2 DEF Next, vars, Deliver, PassOn, LeaveOut, Unpack, UnpackFails, CallHandler, CheckResult

\* The wrapper goes on to the next argument.
LEMMA WrapperGoesOn ==
  ASSUME ConstantsAssumption, TypeOK, WrapperInv,
         UNCHANGED <<params, handler, outcome>>, MayUnpack, arg' = arg + 1,
         pos' = ParameterOf(arg + 1),
         DOMAIN kwargs' \subseteq DOMAIN kwargs \cup {arg},
         \A i \in DOMAIN kwargs : i # arg => i \in DOMAIN kwargs' /\ kwargs'[i] = kwargs[i],
         Unpacked(arg) => /\ arg \in DOMAIN kwargs' /\ ParameterOf(arg) <= Len(params)
                          /\ params[ParameterOf(arg)].size \in Sizes(handler.hints[arg])
                          /\ kwargs'[arg] = Decode(handler.hints[arg], params[ParameterOf(arg)])
  PROVE  WrapperInv'
<1>1. arg \in Nat \ {0} /\ Len(handler.hints) \in Nat /\ arg <= Len(handler.hints) /\ outcome = "unpacking"
  BY HandlerShape DEF TypeOK, MayUnpack
<1>2. \A i : ParameterOf(i)' = ParameterOf(i) /\ (Unpacked(i)' <=> Unpacked(i))
  BY SameHandler
<1>3. /\ outcome' = "unpacking" /\ handler' # NoHandler /\ arg' <= Len(handler'.hints) + 1
      /\ DOMAIN kwargs' \subseteq 1..(arg' - 1)
  BY <1>1 DEF WrapperInv
<1>4. ParameterOf(arg)' = ParameterOf(arg + 1)
  BY DEF ParameterOf, Unpacked
<1>5. ASSUME NEW i \in 1..(arg' - 1), Unpacked(i)
      PROVE  /\ i \in DOMAIN kwargs' /\ ParameterOf(i) <= Len(params)
             /\ params[ParameterOf(i)].size \in Sizes(handler.hints[i])
             /\ kwargs'[i] = Decode(handler.hints[i], params[ParameterOf(i)])
  <2>1. CASE i = arg
    BY <1>5, <2>1
  <2>2. CASE i # arg
    <3>1. i \in 1..(arg - 1)
      BY <1>1, <2>2
    <3> QED BY <1>5, <2>2, <3>1 DEF WrapperInv
  <2> QED BY <2>1, <2>2
<1>6. ASSUME NEW i \in 1..(arg' - 1), Unpacked(i)'
      PROVE  /\ i \in DOMAIN kwargs' /\ ParameterOf(i)' <= Len(params')
             /\ params'[ParameterOf(i)'].size \in Sizes(handler'.hints[i])
             /\ kwargs'[i] = Decode(handler'.hints[i], params'[ParameterOf(i)'])
  <2>1. Unpacked(i) /\ ParameterOf(i)' = ParameterOf(i)
    BY <1>2, <1>6
  <2> QED BY <1>5, <2>1
<1> QED BY <1>3, <1>4, <1>6 DEF WrapperInv

LEMMA WrapperStep ==
  ASSUME ConstantsAssumption, IInv, [Next]_vars
  PROVE  WrapperInv'
<1>0. TypeOK /\ WrapperInv
  BY DEF IInv
<1>c. arg \in Nat \ {0} /\ ParameterOf(arg + 1) = IF Unpacked(arg) THEN pos + 1 ELSE pos
  BY <1>0, Counting DEF TypeOK, WrapperInv
<1>1. ASSUME NEW v \in Values, AddParam(v) PROVE WrapperInv'
  <2>1. outcome = "building" /\ UNCHANGED <<handler, arg, pos, kwargs, outcome>> /\ arg = 1
    BY <1>0, <1>1 DEF AddParam, WrapperInv
  <2>2. ParameterOf(arg)' = ParameterOf(arg) /\ 1..(arg' - 1) = {}
    BY <2>1 DEF ParameterOf, Unpacked
  <2> QED BY <1>0, <2>1, <2>2 DEF WrapperInv
<1>2. ASSUME NEW h \in Handlers, Deliver(h) PROVE WrapperInv'
  <2>1. /\ outcome = "building" /\ arg' = 1 /\ kwargs' = <<>> /\ pos' = pos
        /\ handler' = h /\ outcome' \in {"refused", "unpacking"} /\ arg = 1
    BY <1>0, <1>2 DEF Deliver, WrapperInv
  <2>2. h # NoHandler /\ h.hints \in HintLists
    BY DEF Handlers, NoHandler
  <2>3. Len(h.hints) \in Nat
    BY <2>2, HintsShape DEF ConstantsAssumption
  <2>4. pos = 1
    <3>1. ParameterOf(1) = 1
      BY Counting
    <3> QED BY <1>0, <2>1, <3>1 DEF WrapperInv
  <2>5. ParameterOf(arg)' = 1
    <3>1. {j \in 1..(arg' - 1) : Unpacked(j)'} = {}
      BY <2>1
    <3>2. ParameterOf(arg)' = 1 + Cardinality({j \in 1..(arg' - 1) : Unpacked(j)'})
      BY DEF ParameterOf
    <3> QED BY <3>1, <3>2, FS_EmptySet
  <2>6. DOMAIN kwargs' = {} /\ 1..(arg' - 1) = {}
    BY <2>1
  <2> QED BY <2>1, <2>2, <2>3, <2>4, <2>5, <2>6 DEF WrapperInv
<1>3. ASSUME PassOn PROVE WrapperInv'
  <2>1. /\ UNCHANGED <<params, handler, pos, outcome>> /\ MayUnpack
        /\ Hint \in {"hdl", "payload", "reader"} /\ Prepare([type |-> Hint, n |-> 0])
    BY <1>3 DEF PassOn, IsGiven
  <2>2. ~Unpacked(arg)
    BY <2>1 DEF Hint, Unpacked, TypeHints
  <2>3. /\ arg' = arg + 1 /\ DOMAIN kwargs' = DOMAIN kwargs \cup {arg}
        /\ \A i \in DOMAIN kwargs : i # arg => kwargs'[i] = kwargs[i]
    BY <2>1, Preparing
  <2> QED BY <1>0, <1>c, <2>1, <2>2, <2>3, WrapperGoesOn
<1>4. ASSUME LeaveOut PROVE WrapperInv'
  <2>1. /\ UNCHANGED <<params, handler, pos, kwargs, outcome>> /\ MayUnpack
        /\ Hint \in {"none", "hdl", "payload"} /\ arg' = arg + 1
    BY <1>4 DEF LeaveOut, IsLeftOut
  <2>2. ~Unpacked(arg)
    BY <2>1 DEF Hint, Unpacked, TypeHints
  <2> QED BY <1>0, <1>c, <2>1, <2>2, WrapperGoesOn
<1>5. ASSUME Unpack PROVE WrapperInv'
  <2>1. /\ UNCHANGED <<params, handler, outcome>> /\ MayUnpack
        /\ Prepare(Decode(Hint, params[pos])) /\ Hint \in TypeHints
        /\ pos <= Len(params) /\ params[pos].size \in Sizes(Hint) /\ pos' = pos + 1
    BY <1>5 DEF Unpack, Readable
  <2>2. Unpacked(arg) /\ Hint = handler.hints[arg] /\ ParameterOf(arg) = pos
    BY <1>0, <2>1 DEF Hint, Unpacked, WrapperInv
  <2>3. /\ arg' = arg + 1 /\ DOMAIN kwargs' = DOMAIN kwargs \cup {arg}
        /\ kwargs'[arg] = Decode(Hint, params[pos])
        /\ \A i \in DOMAIN kwargs : i # arg => kwargs'[i] = kwargs[i]
    BY <2>1, Preparing
  <2> QED BY <1>0, <1>c, <2>1, <2>2, <2>3, WrapperGoesOn
<1>6. ASSUME UNCHANGED <<given, params, handler, arg, pos, kwargs>>,
             outcome = "building" <=> outcome' = "building",
             outcome' \notin {"building", "unpacking", "refused", "raised", "error_payload"} =>
               arg = Len(handler.hints) + 1
      PROVE  WrapperInv'
  <2>1. /\ ParameterOf(arg)' = ParameterOf(arg)
        /\ \A i : ParameterOf(i)' = ParameterOf(i)
        /\ \A i : Unpacked(i)' <=> Unpacked(i)
    BY <1>6 DEF ParameterOf, Unpacked
  <2> QED BY <1>0, <1>6, <2>1 DEF WrapperInv
<1>7. ASSUME UnpackFails PROVE WrapperInv'
  BY <1>6, <1>7 DEF UnpackFails, MayUnpack
<1>8. ASSUME CallHandler PROVE WrapperInv'
  <2>1. Len(handler.hints) \in Nat
    BY <1>0, HandlerShape
  <2>2. arg = Len(handler.hints) + 1
    BY <1>0, <1>8, <1>c, <2>1 DEF CallHandler, WrapperInv
  <2> QED BY <1>6, <1>8, <2>2 DEF CallHandler
<1>9. ASSUME CheckResult PROVE WrapperInv'
  <2>1. arg = Len(handler.hints) + 1
    BY <1>0, <1>9 DEF CheckResult, WrapperInv
  <2> QED BY <1>6, <1>9, <2>1 DEF CheckResult
<1>10. CASE UNCHANGED vars
  BY <1>0, <1>6, <1>10 DEF vars, WrapperInv
<1> QED BY <1>1, <1>2, <1>3, <1>4, <1>5, <1>7, <1>8, <1>9, <1>10 DEF Next

LEMMA MatchingUnpacks ==
  ASSUME ConstantsAssumption, IInv, Matching
  PROVE  /\ pos = arg /\ \A i \in 1..(arg - 1) : i \in DOMAIN kwargs
         /\ arg <= Len(handler.hints) =>
              /\ Readable /\ (Hint = "str" => params[pos].text)
<1>0. TypeOK /\ MessageInv /\ WrapperInv
  BY DEF IInv
<1>1. arg \in Nat \ {0} /\ Len(handler.hints) \in Nat /\ arg <= Len(handler.hints) + 1
      /\ DOMAIN handler.hints = 1..Len(handler.hints)
  BY <1>0, HandlerShape DEF TypeOK, WrapperInv
<1>2. \A i \in 1..Len(handler.hints) : Unpacked(i)
  BY <1>1 DEF Matching, Annotations, Unpacked
<1>3. \A i \in 1..(arg - 1) : Unpacked(i)
  BY <1>1, <1>2
<1>4. pos = arg
  BY <1>0, <1>1, <1>3, CountingAll DEF WrapperInv
<1>5. ASSUME arg <= Len(handler.hints)
      PROVE  Readable /\ (Hint = "str" => params[pos].text)
  <2>1. arg \in 1..Len(handler.hints)
    BY <1>1, <1>5
  <2>2. Hint \in TypeHints /\ Matches(given[arg], Hint)
    BY <1>1, <1>2, <2>1 DEF Matching, Hint, Unpacked
  <2>3. arg \in 1..Len(params) /\ pos <= Len(params)
    BY <1>0, <1>1, <1>4, <2>1, MessageShape DEF Matching
  <2>4. given[arg] \in PyValues /\ params[arg] = Encode(given[arg])
    BY <1>0, <2>3, MessageShape DEF MessageInv
  <2>5. params[pos].size \in Sizes(Hint)
    BY <1>4, <2>2, <2>4, SizeFits
  <2>6. Hint = "str" => given[arg].type = "str"
    BY <2>2 DEF Matches
  <2>7. Hint = "str" => params[pos].text
    BY <1>4, <2>4, <2>6, EncodeType
  <2> QED BY <2>2, <2>3, <2>5, <2>7 DEF Readable
<1> QED BY <1>0, <1>3, <1>4, <1>5 DEF WrapperInv

LEMMA AcceptedStep ==
  ASSUME ConstantsAssumption, IInv, [Next]_vars
  PROVE  MatchingIsAccepted'
<1>0. TypeOK /\ WrapperInv /\ (Matching => outcome \notin {"raised", "error_payload"})
  BY DEF IInv, MatchingIsAccepted
<1>1. SUFFICES ASSUME Matching', outcome' \in {"raised", "error_payload"}
               PROVE  FALSE
  BY DEF MatchingIsAccepted
<1>2. ASSUME UNCHANGED <<given, params, handler>> PROVE Matching
  BY <1>1, <1>2 DEF Matching, Annotations
<1>3. CASE UnpackFails
  <2>1. Matching /\ arg <= Len(handler.hints) /\ (Readable => Hint = "str" /\ ~params[pos].text)
    BY <1>2, <1>3 DEF UnpackFails, MayUnpack
  <2> QED BY <2>1, MatchingUnpacks
<1>4. CASE CallHandler
  <2>1. /\ Matching /\ ~(arg <= Len(handler.hints))
        /\ DOMAIN kwargs # DOMAIN handler.hints
    <3>1. Matching /\ arg > Len(handler.hints) /\ DOMAIN kwargs # DOMAIN handler.hints
      BY <1>1, <1>2, <1>4 DEF CallHandler
    <3> QED BY <1>0, <3>1, HandlerShape DEF TypeOK
  <2>2. /\ arg \in Nat \ {0} /\ Len(handler.hints) \in Nat /\ arg <= Len(handler.hints) + 1
        /\ DOMAIN handler.hints = 1..Len(handler.hints) /\ DOMAIN kwargs \subseteq 1..(arg - 1)
    BY <1>0, HandlerShape DEF TypeOK, WrapperInv
  <2>3. DOMAIN kwargs = 1..(arg - 1)
    BY <2>1, <2>2, MatchingUnpacks
  <2>4. arg - 1 = Len(handler.hints)
    BY <2>1, <2>2
  <2> QED BY <2>1, <2>2, <2>3, <2>4
<1>5. CASE UNCHANGED vars
  BY <1>0, <1>1, <1>2, <1>5 DEF vars
<1>6. ASSUME NEW v \in Values, AddParam(v) PROVE FALSE
  BY <1>1, <1>6 DEF AddParam
<1>7. ASSUME NEW h \in Handlers, Deliver(h) PROVE FALSE
  BY <1>1, <1>7 DEF Deliver
<1>8. CASE PassOn \/ LeaveOut \/ Unpack \/ CheckResult
  BY <1>1, <1>8 DEF PassOn, LeaveOut, Unpack, CheckResult, MayUnpack
<1> QED BY <1>3, <1>4, <1>5, <1>6, <1>7, <1>8 DEF Next

-----------------------------------------------------------------------------
(* Theorems. *)

\* The invariant holds at the start and is preserved by every step: the message
\* holds what was added, and a wrapper has prepared each argument from its own
\* parameter.
THEOREM Invariance == Spec => []IInv
<1>1. Init => IInv
  <2> SUFFICES ASSUME Init PROVE IInv
    OBVIOUS
  <2>1. /\ given = <<>> /\ params = <<>> /\ handler = NoHandler /\ handler.hints = <<>>
        /\ arg = 1 /\ pos = 1 /\ kwargs = <<>> /\ outcome = "building"
    BY DEF Init, NoHandler
  <2>2. TypeOK
    BY <2>1 DEF TypeOK
  <2>3. MessageInv
    BY <2>1 DEF MessageInv
  <2>4. ParameterOf(1) = 1
    BY Counting
  <2>5. WrapperInv
    BY <2>1, <2>4 DEF WrapperInv
  <2>6. MatchingIsAccepted
    BY <2>1 DEF MatchingIsAccepted
  <2> QED BY <2>2, <2>3, <2>5, <2>6 DEF IInv
<1>2. IInv /\ [Next]_vars => IInv'
  BY ConstantsAssumption, TypeStep, MessageStep, WrapperStep, AcceptedStep DEF IInv
<1> QED BY <1>1, <1>2, PTL DEF Spec

\* Messages, handlers and wrappers keep their types, and a parameter's bits fit
\* its size.
THEOREM TypeCorrect == Spec => []TypeOK
<1>1. IInv => TypeOK
  BY DEF IInv
<1> QED BY <1>1, Invariance, PTL

\* What was added is what arrives, with a byte of 256 values as with any other:
\* a handler that is called gets each argument from its own parameter, unchanged
\* but for the exceptions Kept names.
THEOREM Arrival == Spec => []ArgumentsArrive
<1>1. IInv => ArgumentsArrive
  <2> SUFFICES ASSUME IInv PROVE ArgumentsArrive
    OBVIOUS
  <2>0. TypeOK /\ MessageInv /\ WrapperInv /\ ConstantsAssumption
    BY ConstantsAssumption DEF IInv
  <2> SUFFICES ASSUME outcome \in {"called", "answered", "scheduled", "bad_result"},
                      NEW i \in DOMAIN handler.hints, Unpacked(i)
               PROVE  /\ ParameterOf(i) <= Len(given)
                      /\ Matches(given[ParameterOf(i)], handler.hints[i])
                         /\ Kept(given[ParameterOf(i)], handler.hints[i]) =>
                           kwargs[i] = Received(given[ParameterOf(i)], handler.hints[i])
    BY DEF ArgumentsArrive
  <2> DEFINE k == ParameterOf(i)
  <2>1. arg = Len(handler.hints) + 1 /\ i \in 1..Len(handler.hints) /\ Len(handler.hints) \in Nat
    BY <2>0, HandlerShape DEF WrapperInv
  <2>2. i \in 1..(arg - 1) /\ i \in Nat \ {0}
    BY <2>1
  <2>3. k <= Len(params) /\ kwargs[i] = Decode(handler.hints[i], params[k])
    BY <2>0, <2>2 DEF WrapperInv
  <2>4. k \in Nat \ {0}
    BY <2>2, Counting
  <2> HIDE DEF k
  <2>5. k \in 1..Len(params) /\ Len(given) = Len(params)
    BY <2>0, <2>3, <2>4, MessageShape
  <2>6. given[k] \in PyValues /\ params[k] = Encode(given[k])
    BY <2>0, <2>5, MessageShape DEF MessageInv
  <2>7. Matches(given[k], handler.hints[i]) /\ Kept(given[k], handler.hints[i]) =>
          kwargs[i] = Received(given[k], handler.hints[i])
    <3>1. handler.hints[i] \in TypeHints
      BY DEF Unpacked
    <3> QED BY <2>0, <2>3, <2>6, <3>1, RoundTrip
  <2> QED BY <2>3, <2>5, <2>7 DEF k
<1> QED BY <1>1, Invariance, PTL

\* A message whose values have the annotated types is never refused for its
\* content, whatever widths add_param chose.
THEOREM Acceptance == Spec => []MatchingIsAccepted
<1>1. IInv => MatchingIsAccepted
  BY DEF IInv
<1> QED BY <1>1, Invariance, PTL
=============================================================================
