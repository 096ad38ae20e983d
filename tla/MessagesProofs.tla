--------------------------- MODULE MessagesProofs ---------------------------
(***************************************************************************)
(* Proofs about Messages, for messages with any bytes in their numbers.    *)
(*                                                                         *)
(* A conversion does what the structure means, field by field (Converts),  *)
(* and undoes itself, because the tag of a union is one byte and stays as  *)
(* it is (MeantTwice). An action decides by the order of its length which  *)
(* of the two it is, and is right in both (ActionBothWays). From this      *)
(* follow the properties of whole messages, once it is known that what the *)
(* switch holds is a message of the wire, parsed (MessageInv).             *)
(***************************************************************************)
EXTENDS Messages, SeqLemmas
-----------------------------------------------------------------------------
(* The bytes of one number.                                                *)

\* n bytes in memory; which values a byte has does not matter.
Field(n, S) == [1..n -> S]

LEMMA FieldLen ==
    ASSUME NEW S, NEW n \in Nat, NEW b \in Field(n, S)
    PROVE  Len(b) = n /\ b \in Seq(S) /\ DOMAIN b = 1..n
<1>1. b \in Seq(S)
  BY SeqDef DEF Field
<1>2. Len(b) \in Nat /\ 1..Len(b) = 1..n
  BY <1>1, LenProperties DEF Field
<1> QED
  BY <1>1, <1>2 DEF Field

\* NTOHS and its like reverse the bytes, and undo what they did.
LEMMA ReverseField ==
    ASSUME NEW S, NEW n \in Nat, NEW b \in Field(n, S)
    PROVE  /\ Reverse(b) \in Field(n, S)
           /\ \A i \in 1..n : Reverse(b)[i] = b[n - i + 1]
           /\ Reverse(Reverse(b)) = b
<1>1. ASSUME NEW c \in Field(n, S)
      PROVE  Reverse(c) \in Field(n, S) /\ \A i \in 1..n : Reverse(c)[i] = c[n - i + 1]
  <2>1. Reverse(c) = [i \in 1..n |-> c[n - i + 1]]
    BY FieldLen DEF Reverse
  <2>2. \A i \in 1..n : n - i + 1 \in 1..n
    OBVIOUS
  <2> QED
    BY <2>1, <2>2 DEF Field
<1>2. PICK c : c = Reverse(b)
  OBVIOUS
<1>3. c \in Field(n, S) /\ \A i \in 1..n : c[i] = b[n - i + 1]
  BY <1>1, <1>2
<1>4. PICK d : d = Reverse(c)
  OBVIOUS
<1>5. d \in Field(n, S) /\ \A i \in 1..n : d[i] = c[n - i + 1]
  BY <1>1, <1>3, <1>4
<1>6. \A i \in 1..n : d[i] = b[i]
  <2> SUFFICES ASSUME NEW i \in 1..n PROVE d[i] = b[i]
    OBVIOUS
  <2>1. n - i + 1 \in 1..n /\ n - (n - i + 1) + 1 = i
    OBVIOUS
  <2> QED
    BY <1>3, <1>5, <2>1
<1>7. d = b
  BY <1>5, <1>6 DEF Field
<1> QED
  BY <1>2, <1>3, <1>4, <1>7

\* What a number of n bytes means in the other order.
LEMMA NumberOrder ==
    ASSUME NEW S, NEW n \in Nat, NEW b \in Field(n, S)
    PROVE  OtherOrder(b, {<<1, n>>}) = Reverse(b)
<1>1. PICK c : c = Reverse(b)
  OBVIOUS
<1>2. c \in Field(n, S) /\ \A i \in 1..n : c[i] = b[n - i + 1]
  BY <1>1, ReverseField
<1>3. ASSUME NEW i \in 1..n
      PROVE  (LET v == CHOOSE v \in {<<1, n>>} : v[1] <= i /\ i <= v[2] IN b[v[1] + v[2] - i]) = c[i]
  <2>1. PICK v : v = CHOOSE w \in {<<1, n>>} : w[1] <= i /\ i <= w[2]
    OBVIOUS
  <2>2. <<1, n>>[1] <= i /\ i <= <<1, n>>[2]
    OBVIOUS
  <2>3. v = <<1, n>>
    BY <2>1, <2>2
  <2>4. v[1] + v[2] - i = n - i + 1
    BY <2>3
  <2> QED
    BY <1>2, <2>1, <2>4
<1>4. OtherOrder(b, {<<1, n>>}) =
        [i \in 1..n |-> LET v == CHOOSE v \in {<<1, n>>} : v[1] <= i /\ i <= v[2] IN b[v[1] + v[2] - i]]
  BY FieldLen DEF OtherOrder
<1>5. OtherOrder(b, {<<1, n>>}) = [i \in 1..n |-> c[i]]
  BY <1>3, <1>4
<1>6. c = [i \in 1..n |-> c[i]]
  BY <1>2 DEF Field
<1> QED
  BY <1>1, <1>5, <1>6

\* Where the numbers of a pof_match and of an immediate value begin and end.
MatchNumbers == {<<1, 2>>, <<3, 4>>, <<5, 6>>, <<7, 7>>, <<8, 8>>}
ImmediateNumbers == {<<1, 4>>, <<5, 5>>, <<6, 6>>, <<7, 7>>, <<8, 8>>}

\* The number that byte i belongs to, v, is unique.
LEMMA ByteOfNumber ==
    ASSUME NEW V, NEW first, NEW last, NEW i, <<first, last>> \in V, first <= i /\ i <= last,
           \A v \in V : v[1] <= i /\ i <= v[2] => v = <<first, last>>,
           NEW b, i \in DOMAIN b
    PROVE  OtherOrder(b, V)[i] = b[first + last - i]
<1>1. PICK v : v = CHOOSE w \in V : w[1] <= i /\ i <= w[2]
  OBVIOUS
<1>2. <<first, last>>[1] <= i /\ i <= <<first, last>>[2]
  OBVIOUS
<1>3. v \in V /\ v[1] <= i /\ i <= v[2]
  BY <1>1, <1>2
<1>4. v = <<first, last>>
  BY <1>3
<1>5. OtherOrder(b, V)[i] = b[v[1] + v[2] - i]
  BY <1>1 DEF OtherOrder
<1> QED
  BY <1>4, <1>5

LEMMA ByteAlone ==
    ASSUME NEW V, NEW i \in Nat, <<i, i>> \in V,
           \A v \in V : v[1] <= i /\ i <= v[2] => v = <<i, i>>,
           NEW b, i \in DOMAIN b
    PROVE  OtherOrder(b, V)[i] = b[i]
<1>1. i <= i /\ i + i - i = i
  OBVIOUS
<1>2. OtherOrder(b, V)[i] = b[i + i - i]
  BY <1>1, ByteOfNumber
<1> QED
  BY <1>1, <1>2

LEMMA MatchOrder ==
    ASSUME NEW S, NEW b \in Field(8, S)
    PROVE  /\ OtherOrder(b, MatchNumbers) = match(b)
           /\ match(b) \in Field(8, S)
           /\ match(match(b)) = b
<1>1. DOMAIN b = 1..8
  BY DEF Field
<1>2. PICK o : o = OtherOrder(b, MatchNumbers)
  OBVIOUS
<1>3. o[1] = b[2]
  <2>1. <<1, 2>> \in MatchNumbers /\ \A v \in MatchNumbers : v[1] <= 1 /\ 1 <= v[2] => v = <<1, 2>>
    BY DEF MatchNumbers
  <2>2. 1 <= 1 /\ 1 <= 2 /\ 1 \in DOMAIN b /\ 1 + 2 - 1 = 2
    BY <1>1
  <2>3. o[1] = b[1 + 2 - 1]
    BY <1>2, <2>1, <2>2, ByteOfNumber
  <2> QED
    BY <2>2, <2>3
<1>4. o[2] = b[1]
  <2>1. <<1, 2>> \in MatchNumbers /\ \A v \in MatchNumbers : v[1] <= 2 /\ 2 <= v[2] => v = <<1, 2>>
    BY DEF MatchNumbers
  <2>2. 1 <= 2 /\ 2 <= 2 /\ 2 \in DOMAIN b /\ 1 + 2 - 2 = 1
    BY <1>1
  <2>3. o[2] = b[1 + 2 - 2]
    BY <1>2, <2>1, <2>2, ByteOfNumber
  <2> QED
    BY <2>2, <2>3
<1>5. o[3] = b[4]
  <2>1. <<3, 4>> \in MatchNumbers /\ \A v \in MatchNumbers : v[1] <= 3 /\ 3 <= v[2] => v = <<3, 4>>
    BY DEF MatchNumbers
  <2>2. 3 <= 3 /\ 3 <= 4 /\ 3 \in DOMAIN b /\ 3 + 4 - 3 = 4
    BY <1>1
  <2>3. o[3] = b[3 + 4 - 3]
    BY <1>2, <2>1, <2>2, ByteOfNumber
  <2> QED
    BY <2>2, <2>3
<1>6. o[4] = b[3]
  <2>1. <<3, 4>> \in MatchNumbers /\ \A v \in MatchNumbers : v[1] <= 4 /\ 4 <= v[2] => v = <<3, 4>>
    BY DEF MatchNumbers
  <2>2. 3 <= 4 /\ 4 <= 4 /\ 4 \in DOMAIN b /\ 3 + 4 - 4 = 3
    BY <1>1
  <2>3. o[4] = b[3 + 4 - 4]
    BY <1>2, <2>1, <2>2, ByteOfNumber
  <2> QED
    BY <2>2, <2>3
<1>7. o[5] = b[6]
  <2>1. <<5, 6>> \in MatchNumbers /\ \A v \in MatchNumbers : v[1] <= 5 /\ 5 <= v[2] => v = <<5, 6>>
    BY DEF MatchNumbers
  <2>2. 5 <= 5 /\ 5 <= 6 /\ 5 \in DOMAIN b /\ 5 + 6 - 5 = 6
    BY <1>1
  <2>3. o[5] = b[5 + 6 - 5]
    BY <1>2, <2>1, <2>2, ByteOfNumber
  <2> QED
    BY <2>2, <2>3
<1>8. o[6] = b[5]
  <2>1. <<5, 6>> \in MatchNumbers /\ \A v \in MatchNumbers : v[1] <= 6 /\ 6 <= v[2] => v = <<5, 6>>
    BY DEF MatchNumbers
  <2>2. 5 <= 6 /\ 6 <= 6 /\ 6 \in DOMAIN b /\ 5 + 6 - 6 = 5
    BY <1>1
  <2>3. o[6] = b[5 + 6 - 6]
    BY <1>2, <2>1, <2>2, ByteOfNumber
  <2> QED
    BY <2>2, <2>3
<1>9. o[7] = b[7]
  <2>1. <<7, 7>> \in MatchNumbers /\ \A v \in MatchNumbers : v[1] <= 7 /\ 7 <= v[2] => v = <<7, 7>>
    BY DEF MatchNumbers
  <2>2. 7 \in DOMAIN b
    BY <1>1
  <2> QED
    BY <1>2, <2>1, <2>2, ByteAlone
<1>10. o[8] = b[8]
  <2>1. <<8, 8>> \in MatchNumbers /\ \A v \in MatchNumbers : v[1] <= 8 /\ 8 <= v[2] => v = <<8, 8>>
    BY DEF MatchNumbers
  <2>2. 8 \in DOMAIN b
    BY <1>1
  <2> QED
    BY <1>2, <2>1, <2>2, ByteAlone
<1>11. o = [i \in 1..8 |-> o[i]]
  BY <1>1, <1>2 DEF OtherOrder
<1>12. PICK c : c = match(b)
  OBVIOUS
<1>13. /\ c = [i \in 1..8 |-> c[i]]
       /\ c[1] = b[2]
       /\ c[2] = b[1]
       /\ c[3] = b[4]
       /\ c[4] = b[3]
       /\ c[5] = b[6]
       /\ c[6] = b[5]
       /\ c[7] = b[7]
       /\ c[8] = b[8]
  BY <1>12 DEF match
<1>14. \A i \in 1..8 : i = 1 \/ i = 2 \/ i = 3 \/ i = 4 \/ i = 5 \/ i = 6 \/ i = 7 \/ i = 8
  OBVIOUS
<1>15. \A i \in 1..8 : o[i] = c[i]
  BY <1>3, <1>4, <1>5, <1>6, <1>7, <1>8, <1>9, <1>10, <1>13, <1>14
<1>16. o = c
  BY <1>11, <1>13, <1>15
<1>17. c \in Field(8, S)
  <2>1. \A i \in 1..8 : b[i] \in S
    BY DEF Field
  <2>2. \A i \in 1..8 : c[i] \in S
    BY <1>13, <1>14, <2>1
  <2> QED
    BY <1>13, <2>2 DEF Field
<1>18. PICK d : d = match(c)
  OBVIOUS
<1>19. /\ d = [i \in 1..8 |-> d[i]]
       /\ d[1] = c[2]
       /\ d[2] = c[1]
       /\ d[3] = c[4]
       /\ d[4] = c[3]
       /\ d[5] = c[6]
       /\ d[6] = c[5]
       /\ d[7] = c[7]
       /\ d[8] = c[8]
  BY <1>18 DEF match
<1>20. \A i \in 1..8 : d[i] = b[i]
  BY <1>13, <1>14, <1>19
<1>21. d = b
  BY <1>19, <1>20 DEF Field
<1> QED
  BY <1>2, <1>12, <1>16, <1>17, <1>18, <1>21

LEMMA ImmediateOrder ==
    ASSUME NEW S, NEW b \in Field(8, S)
    PROVE  /\ OtherOrder(b, ImmediateNumbers) = value(<<0>>, b)
           /\ value(<<0>>, b) \in Field(8, S)
           /\ value(<<0>>, value(<<0>>, b)) = b
<1>1. DOMAIN b = 1..8
  BY DEF Field
<1>2. PICK o : o = OtherOrder(b, ImmediateNumbers)
  OBVIOUS
<1>3. o[1] = b[4]
  <2>1. <<1, 4>> \in ImmediateNumbers /\ \A v \in ImmediateNumbers : v[1] <= 1 /\ 1 <= v[2] => v = <<1, 4>>
    BY DEF ImmediateNumbers
  <2>2. 1 <= 1 /\ 1 <= 4 /\ 1 \in DOMAIN b /\ 1 + 4 - 1 = 4
    BY <1>1
  <2>3. o[1] = b[1 + 4 - 1]
    BY <1>2, <2>1, <2>2, ByteOfNumber
  <2> QED
    BY <2>2, <2>3
<1>4. o[2] = b[3]
  <2>1. <<1, 4>> \in ImmediateNumbers /\ \A v \in ImmediateNumbers : v[1] <= 2 /\ 2 <= v[2] => v = <<1, 4>>
    BY DEF ImmediateNumbers
  <2>2. 1 <= 2 /\ 2 <= 4 /\ 2 \in DOMAIN b /\ 1 + 4 - 2 = 3
    BY <1>1
  <2>3. o[2] = b[1 + 4 - 2]
    BY <1>2, <2>1, <2>2, ByteOfNumber
  <2> QED
    BY <2>2, <2>3
<1>5. o[3] = b[2]
  <2>1. <<1, 4>> \in ImmediateNumbers /\ \A v \in ImmediateNumbers : v[1] <= 3 /\ 3 <= v[2] => v = <<1, 4>>
    BY DEF ImmediateNumbers
  <2>2. 1 <= 3 /\ 3 <= 4 /\ 3 \in DOMAIN b /\ 1 + 4 - 3 = 2
    BY <1>1
  <2>3. o[3] = b[1 + 4 - 3]
    BY <1>2, <2>1, <2>2, ByteOfNumber
  <2> QED
    BY <2>2, <2>3
<1>6. o[4] = b[1]
  <2>1. <<1, 4>> \in ImmediateNumbers /\ \A v \in ImmediateNumbers : v[1] <= 4 /\ 4 <= v[2] => v = <<1, 4>>
    BY DEF ImmediateNumbers
  <2>2. 1 <= 4 /\ 4 <= 4 /\ 4 \in DOMAIN b /\ 1 + 4 - 4 = 1
    BY <1>1
  <2>3. o[4] = b[1 + 4 - 4]
    BY <1>2, <2>1, <2>2, ByteOfNumber
  <2> QED
    BY <2>2, <2>3
<1>7. o[5] = b[5]
  <2>1. <<5, 5>> \in ImmediateNumbers /\ \A v \in ImmediateNumbers : v[1] <= 5 /\ 5 <= v[2] => v = <<5, 5>>
    BY DEF ImmediateNumbers
  <2>2. 5 \in DOMAIN b
    BY <1>1
  <2> QED
    BY <1>2, <2>1, <2>2, ByteAlone
<1>8. o[6] = b[6]
  <2>1. <<6, 6>> \in ImmediateNumbers /\ \A v \in ImmediateNumbers : v[1] <= 6 /\ 6 <= v[2] => v = <<6, 6>>
    BY DEF ImmediateNumbers
  <2>2. 6 \in DOMAIN b
    BY <1>1
  <2> QED
    BY <1>2, <2>1, <2>2, ByteAlone
<1>9. o[7] = b[7]
  <2>1. <<7, 7>> \in ImmediateNumbers /\ \A v \in ImmediateNumbers : v[1] <= 7 /\ 7 <= v[2] => v = <<7, 7>>
    BY DEF ImmediateNumbers
  <2>2. 7 \in DOMAIN b
    BY <1>1
  <2> QED
    BY <1>2, <2>1, <2>2, ByteAlone
<1>10. o[8] = b[8]
  <2>1. <<8, 8>> \in ImmediateNumbers /\ \A v \in ImmediateNumbers : v[1] <= 8 /\ 8 <= v[2] => v = <<8, 8>>
    BY DEF ImmediateNumbers
  <2>2. 8 \in DOMAIN b
    BY <1>1
  <2> QED
    BY <1>2, <2>1, <2>2, ByteAlone
<1>11. o = [i \in 1..8 |-> o[i]]
  BY <1>1, <1>2 DEF OtherOrder
<1>12. PICK c : c = value(<<0>>, b)
  OBVIOUS
<1>13. /\ c = [i \in 1..8 |-> c[i]]
       /\ c[1] = b[4]
       /\ c[2] = b[3]
       /\ c[3] = b[2]
       /\ c[4] = b[1]
       /\ c[5] = b[5]
       /\ c[6] = b[6]
       /\ c[7] = b[7]
       /\ c[8] = b[8]
  BY <1>12 DEF value, POFVT_IMMEDIATE_NUM
<1>14. \A i \in 1..8 : i = 1 \/ i = 2 \/ i = 3 \/ i = 4 \/ i = 5 \/ i = 6 \/ i = 7 \/ i = 8
  OBVIOUS
<1>15. \A i \in 1..8 : o[i] = c[i]
  BY <1>3, <1>4, <1>5, <1>6, <1>7, <1>8, <1>9, <1>10, <1>13, <1>14
<1>16. o = c
  BY <1>11, <1>13, <1>15
<1>17. c \in Field(8, S)
  <2>1. \A i \in 1..8 : b[i] \in S
    BY DEF Field
  <2>2. \A i \in 1..8 : c[i] \in S
    BY <1>13, <1>14, <2>1
  <2> QED
    BY <1>13, <2>2 DEF Field
<1>18. PICK d : d = value(<<0>>, c)
  OBVIOUS
<1>19. /\ d = [i \in 1..8 |-> d[i]]
       /\ d[1] = c[4]
       /\ d[2] = c[3]
       /\ d[3] = c[2]
       /\ d[4] = c[1]
       /\ d[5] = c[5]
       /\ d[6] = c[6]
       /\ d[7] = c[7]
       /\ d[8] = c[8]
  BY <1>18 DEF value, POFVT_IMMEDIATE_NUM
<1>20. \A i \in 1..8 : d[i] = b[i]
  BY <1>13, <1>14, <1>19
<1>21. d = b
  BY <1>19, <1>20 DEF Field
<1> QED
  BY <1>2, <1>12, <1>16, <1>17, <1>18, <1>21
-----------------------------------------------------------------------------
(* The fields of a structure.                                              *)

Byte == 0..255
Plain == {U8, U16, U32, U64}
Tag == {<<POFVT_IMMEDIATE_NUM>>, <<POFVT_FIELD>>}

\* A structure has numbers, matches and unions with a tag beside them.
IsStruct(struct) ==
    \A f \in DOMAIN struct :
        \/ struct[f] \in Plain
        \/ struct[f] = Match
        \/ \E t \in DOMAIN struct : struct[t] = U8 /\ t # "match" /\ struct[f] = Value(t)

\* p is such a structure in memory.
Fits(p, struct) ==
    /\ p = [f \in DOMAIN struct |-> p[f]]
    /\ \A f \in DOMAIN struct : /\ p[f] \in Field(struct[f].size, Byte)
                                /\ struct[f] = U8 => p[f] \in Tag

LEMMA PlainTypes ==
    /\ \A t \in Plain : DOMAIN t = {"size"} /\ t.size \in Nat
    /\ \A t \in Plain : t = U8 \/ t.size # 1
    /\ U8.size = 1
  BY DEF Plain, U8, U16, U32, U64

LEMMA UnionTypes ==
    /\ Match \notin Plain /\ DOMAIN Match # {"size"} /\ Match.size = 8 /\ Match.of = "match"
    /\ \A t : /\ Value(t) \notin Plain /\ DOMAIN Value(t) # {"size"}
              /\ Value(t).size = 8 /\ Value(t).of = t
<1>1. DOMAIN Match = {"size", "of"} /\ \A t : DOMAIN Value(t) = {"size", "of"}
  BY DEF Match, Value
<1>2. DOMAIN Match # {"size"} /\ \A t : DOMAIN Value(t) # {"size"}
  BY <1>1
<1>3. Match.size = 8 /\ Match.of = "match" /\ \A t : Value(t).size = 8 /\ Value(t).of = t
  BY DEF Match, Value
<1> QED
  BY <1>2, <1>3, PlainTypes

\* What each type of field means in the other order.
LEMMA MeantPlain ==
    ASSUME NEW t \in Plain, NEW p, NEW b \in Field(t.size, Byte)
    PROVE  OtherOrder(b, Numbers(t, p)) = Reverse(b)
<1>1. Numbers(t, p) = {<<1, t.size>>}
  BY PlainTypes DEF Numbers
<1> QED
  BY <1>1, PlainTypes, NumberOrder

LEMMA OneByte ==
    ASSUME NEW b \in Field(1, Byte)
    PROVE  Reverse(b) = b
<1>1. PICK c : c = Reverse(b)
  OBVIOUS
<1>2. c \in Field(1, Byte) /\ \A i \in 1..1 : c[i] = b[1 - i + 1]
  BY <1>1, ReverseField
<1>3. \A i \in 1..1 : c[i] = b[i]
  <2>1. \A i \in 1..1 : 1 - i + 1 = i
    OBVIOUS
  <2> QED
    BY <1>2, <2>1
<1> QED
  BY <1>1, <1>2, <1>3 DEF Field

LEMMA MeantMatch ==
    ASSUME NEW p, NEW b \in Field(8, Byte)
    PROVE  OtherOrder(b, Numbers(Match, p)) = match(b)
<1>1. Numbers(Match, p) = MatchNumbers
  BY UnionTypes DEF Numbers, MatchNumbers
<1> QED
  BY <1>1, MatchOrder

LEMMA MeantValue ==
    ASSUME NEW p, NEW t, t # "match", p[t] \in Tag, NEW b \in Field(8, Byte)
    PROVE  /\ OtherOrder(b, Numbers(Value(t), p)) = value(p[t], b)
           /\ value(p[t], b) \in Field(8, Byte)
           /\ value(p[t], value(p[t], b)) = b
<1>1. <<0>> # <<1>>
  <2>1. <<0>>[1] = 0 /\ <<1>>[1] = 1
    OBVIOUS
  <2> QED
    BY <2>1
<1>2. CASE p[t] = <<0>>
  <2>1. Numbers(Value(t), p) = ImmediateNumbers
    BY <1>1, <1>2, UnionTypes DEF Numbers, ImmediateNumbers, POFVT_FIELD
  <2> QED
    BY <1>2, <2>1, ImmediateOrder
<1>3. CASE p[t] = <<1>>
  <2>1. Numbers(Value(t), p) = MatchNumbers
    BY <1>3, UnionTypes DEF Numbers, MatchNumbers, POFVT_FIELD
  <2>2. \A c : value(p[t], c) = match(c)
    BY <1>1, <1>3 DEF value, POFVT_IMMEDIATE_NUM
  <2> QED
    BY <2>1, <2>2, MatchOrder
<1> QED
  BY <1>2, <1>3 DEF Tag, POFVT_IMMEDIATE_NUM, POFVT_FIELD

\* The other order of the other order is the first one.
LEMMA MeantTwice ==
    ASSUME NEW struct, IsStruct(struct), NEW p, Fits(p, struct)
    PROVE  /\ Fits(Meant(struct, p), struct)
           /\ Meant(struct, Meant(struct, p)) = p
<1>1. PICK q : q = Meant(struct, p)
  OBVIOUS
<1>2. DOMAIN p = DOMAIN struct
  BY DEF Fits
<1>3. q = [f \in DOMAIN struct |-> OtherOrder(p[f], Numbers(struct[f], p))]
  BY <1>1, <1>2 DEF Meant
<1>4. PICK r : r = Meant(struct, q)
  OBVIOUS
<1>5. r = [f \in DOMAIN struct |-> OtherOrder(q[f], Numbers(struct[f], q))]
  BY <1>3, <1>4 DEF Meant
<1>6. ASSUME NEW f \in DOMAIN struct, struct[f] = U8 PROVE q[f] = p[f] /\ q[f] \in Tag
  <2>1. U8 \in Plain /\ U8.size = 1
    BY PlainTypes DEF Plain
  <2>2. p[f] \in Field(1, Byte) /\ p[f] \in Tag
    BY <1>6, <2>1 DEF Fits
  <2>3. q[f] = Reverse(p[f])
    BY <1>3, <1>6, <2>1, <2>2, MeantPlain
  <2> QED
    BY <2>2, <2>3, OneByte
<1>7. ASSUME NEW f \in DOMAIN struct
      PROVE  q[f] \in Field(struct[f].size, Byte) /\ r[f] = p[f]
  <2>1. p[f] \in Field(struct[f].size, Byte)
    BY DEF Fits
  <2>2. CASE struct[f] \in Plain
    <3>1. q[f] = Reverse(p[f])
      BY <1>3, <2>1, <2>2, MeantPlain
    <3>2. struct[f].size \in Nat
      BY <2>2, PlainTypes
    <3>3. q[f] \in Field(struct[f].size, Byte) /\ Reverse(q[f]) = p[f]
      BY <2>1, <3>1, <3>2, ReverseField
    <3> QED
      BY <1>5, <2>2, <3>3, MeantPlain
  <2>3. CASE struct[f] = Match
    <3>1. p[f] \in Field(8, Byte)
      BY <2>1, <2>3, UnionTypes
    <3>2. q[f] = match(p[f])
      BY <1>3, <2>3, <3>1, MeantMatch
    <3>3. q[f] \in Field(8, Byte) /\ match(q[f]) = p[f]
      BY <3>1, <3>2, MatchOrder
    <3> QED
      BY <1>5, <2>3, <3>3, UnionTypes, MeantMatch
  <2>4. ASSUME NEW t \in DOMAIN struct, struct[t] = U8, t # "match", struct[f] = Value(t)
        PROVE  q[f] \in Field(struct[f].size, Byte) /\ r[f] = p[f]
    <3>1. p[f] \in Field(8, Byte)
      BY <2>1, <2>4, UnionTypes
    <3>2. q[t] = p[t] /\ p[t] \in Tag
      BY <1>6, <2>4
    <3>3. q[f] = value(p[t], p[f])
      BY <1>3, <2>4, <3>1, <3>2, MeantValue
    <3>4. q[f] \in Field(8, Byte) /\ value(q[t], q[f]) = p[f]
      BY <2>4, <3>1, <3>2, <3>3, MeantValue
    <3>5. r[f] = value(q[t], q[f])
      BY <1>5, <2>4, <3>2, <3>4, MeantValue
    <3> QED
      BY <2>4, <3>4, <3>5, UnionTypes
  <2> QED
    BY <2>2, <2>3, <2>4 DEF IsStruct
<1>8. Fits(q, struct)
  <2>1. q = [f \in DOMAIN struct |-> q[f]]
    BY <1>3
  <2> QED
    BY <1>6, <1>7, <2>1 DEF Fits
<1>9. r = p
  <2>1. p = [f \in DOMAIN struct |-> p[f]]
    BY DEF Fits
  <2>2. r = [f \in DOMAIN struct |-> r[f]]
    BY <1>5
  <2> QED
    BY <1>7, <2>1, <2>2
<1> QED
  BY <1>1, <1>4, <1>8, <1>9
-----------------------------------------------------------------------------
(* The conversions.                                                        *)

\* q is p with every field converted as its type asks for.
Converts(struct, p, q) ==
    /\ q = [f \in DOMAIN struct |-> q[f]]
    /\ \A f \in DOMAIN struct :
          \/ struct[f] \in Plain /\ q[f] = Reverse(p[f])
          \/ struct[f] = U8 /\ q[f] = p[f]
          \/ struct[f] = Match /\ q[f] = match(p[f])
          \/ \E t \in DOMAIN struct : /\ struct[t] = U8 /\ t # "match" /\ struct[f] = Value(t)
                                      /\ q[f] = value(p[t], p[f])

LEMMA ConvertsIsMeant ==
    ASSUME NEW struct, NEW p, NEW q, Fits(p, struct), Converts(struct, p, q)
    PROVE  q = Meant(struct, p)
<1>1. DOMAIN p = DOMAIN struct
  BY DEF Fits
<1>2. ASSUME NEW f \in DOMAIN struct PROVE q[f] = OtherOrder(p[f], Numbers(struct[f], p))
  <2>1. p[f] \in Field(struct[f].size, Byte)
    BY DEF Fits
  <2>2. CASE struct[f] \in Plain /\ q[f] = Reverse(p[f])
    BY <2>1, <2>2, MeantPlain
  <2>3. CASE struct[f] = U8 /\ q[f] = p[f]
    <3>1. U8 \in Plain /\ U8.size = 1
      BY PlainTypes DEF Plain
    <3>2. Reverse(p[f]) = p[f]
      BY <2>1, <2>3, <3>1, OneByte
    <3> QED
      BY <2>1, <2>3, <3>1, <3>2, MeantPlain
  <2>4. CASE struct[f] = Match /\ q[f] = match(p[f])
    BY <2>1, <2>4, MeantMatch, UnionTypes
  <2>5. ASSUME NEW t \in DOMAIN struct, struct[t] = U8, t # "match", struct[f] = Value(t),
               q[f] = value(p[t], p[f])
        PROVE  q[f] = OtherOrder(p[f], Numbers(struct[f], p))
    <3>1. p[t] \in Tag
      BY <2>5 DEF Fits
    <3>2. p[f] \in Field(8, Byte)
      BY <2>1, <2>5, UnionTypes
    <3> QED
      BY <2>5, <3>1, <3>2, MeantValue
  <2> QED
    BY <2>2, <2>3, <2>4, <2>5 DEF Converts
<1>3. Meant(struct, p) = [f \in DOMAIN struct |-> OtherOrder(p[f], Numbers(struct[f], p))]
  BY <1>1 DEF Meant
<1>4. q = [f \in DOMAIN struct |-> q[f]]
  BY DEF Converts
<1> QED
  BY <1>2, <1>3, <1>4

\* A structure of numbers, those of more than a byte in fields.
Covers(struct, fields) ==
    \A f \in DOMAIN struct : struct[f] \in Plain /\ (f \in fields \/ struct[f] = U8)

LEMMA NtohMeant ==
    ASSUME NEW struct, NEW fields, Covers(struct, fields), NEW p, Fits(p, struct)
    PROVE  NTOH(p, fields) = Meant(struct, p)
<1>1. PICK q : q = NTOH(p, fields)
  OBVIOUS
<1>2. q = [f \in DOMAIN struct |-> IF f \in fields THEN Reverse(p[f]) ELSE p[f]]
  BY <1>1 DEF NTOH, Fits
<1>3. q = [f \in DOMAIN struct |-> q[f]]
  BY <1>2
<1>4. ASSUME NEW f \in DOMAIN struct
      PROVE  \/ struct[f] \in Plain /\ q[f] = Reverse(p[f])
             \/ struct[f] = U8 /\ q[f] = p[f]
  <2>1. struct[f] \in Plain /\ (f \in fields \/ struct[f] = U8)
    BY DEF Covers
  <2>2. q[f] = IF f \in fields THEN Reverse(p[f]) ELSE p[f]
    BY <1>2
  <2> QED
    BY <2>1, <2>2, Zenon
<1>5. Converts(struct, p, q)
  BY <1>3, <1>4, Zenon DEF Converts
<1> QED
  BY <1>1, <1>5, ConvertsIsMeant

LEMMA OutputMeant ==
    ASSUME NEW p, Fits(p, pof_action_output)
    PROVE  action_OUTPUT(p) = Meant(pof_action_output, p)
<1>1. DOMAIN pof_action_output =
           {"portId_type", "metadata_offset", "metadata_len", "packet_offset",
            "outputPortId"}
  BY DEF pof_action_output
<1>2. /\ pof_action_output.portId_type = U8 /\ pof_action_output.metadata_offset = U16
      /\ pof_action_output.metadata_len = U16 /\ pof_action_output.packet_offset = U16
      /\ pof_action_output.outputPortId = Value("portId_type")
  BY DEF pof_action_output
<1>3. DOMAIN p = DOMAIN pof_action_output
  BY DEF Fits
<1>4. PICK q : q = action_OUTPUT(p)
  OBVIOUS
<1>5. q = [f \in DOMAIN p |-> q[f]]
  BY <1>4 DEF action_OUTPUT, NTOH
<1>6. /\ q.portId_type = p.portId_type /\ q.metadata_offset = Reverse(p.metadata_offset)
      /\ q.metadata_len = Reverse(p.metadata_len) /\ q.packet_offset = Reverse(p.packet_offset)
      /\ q.outputPortId = value(p.portId_type, p.outputPortId)
  BY <1>1, <1>3, <1>4 DEF action_OUTPUT, NTOH
<1>7. Converts(pof_action_output, p, q)
  BY <1>1, <1>2, <1>3, <1>5, <1>6 DEF Converts, Plain
<1> QED
  BY <1>4, <1>7, ConvertsIsMeant

LEMMA SetFieldMeant ==
    ASSUME NEW p, Fits(p, pof_action_set_field)
    PROVE  action_SET_FIELD(p) = Meant(pof_action_set_field, p)
<1>1. DOMAIN pof_action_set_field =
           {"match"}
  BY DEF pof_action_set_field, pof_match_x
<1>2. pof_action_set_field.match = Match
  BY DEF pof_action_set_field, pof_match_x
<1>3. DOMAIN p = DOMAIN pof_action_set_field
  BY DEF Fits
<1>4. PICK q : q = action_SET_FIELD(p)
  OBVIOUS
<1>5. q = [f \in DOMAIN p |-> q[f]]
  BY <1>4 DEF action_SET_FIELD, match_x
<1>6. q.match = match(p.match)
  BY <1>1, <1>3, <1>4 DEF action_SET_FIELD, match_x
<1>7. Converts(pof_action_set_field, p, q)
  BY <1>1, <1>2, <1>3, <1>5, <1>6 DEF Converts, Plain
<1> QED
  BY <1>4, <1>7, ConvertsIsMeant

LEMMA SetFromMetadataMeant ==
    ASSUME NEW p, Fits(p, pof_action_set_field_from_metadata)
    PROVE  action_SET_FIELD_FROM_METADATA(p) = Meant(pof_action_set_field_from_metadata, p)
<1>1. DOMAIN pof_action_set_field_from_metadata =
           {"field_setting", "metadata_offset"}
  BY DEF pof_action_set_field_from_metadata
<1>2. /\ pof_action_set_field_from_metadata.field_setting = Match /\ pof_action_set_field_from_metadata.metadata_offset = U16
  BY DEF pof_action_set_field_from_metadata
<1>3. DOMAIN p = DOMAIN pof_action_set_field_from_metadata
  BY DEF Fits
<1>4. PICK q : q = action_SET_FIELD_FROM_METADATA(p)
  OBVIOUS
<1>5. q = [f \in DOMAIN p |-> q[f]]
  BY <1>4 DEF action_SET_FIELD_FROM_METADATA, NTOH
<1>6. /\ q.field_setting = match(p.field_setting) /\ q.metadata_offset = Reverse(p.metadata_offset)
  BY <1>1, <1>3, <1>4 DEF action_SET_FIELD_FROM_METADATA, NTOH
<1>7. Converts(pof_action_set_field_from_metadata, p, q)
  BY <1>1, <1>2, <1>3, <1>5, <1>6 DEF Converts, Plain
<1> QED
  BY <1>4, <1>7, ConvertsIsMeant

LEMMA ModifyFieldMeant ==
    ASSUME NEW p, Fits(p, pof_action_modify_field)
    PROVE  action_MODIFY_FIELD(p) = Meant(pof_action_modify_field, p)
<1>1. DOMAIN pof_action_modify_field =
           {"field", "increment"}
  BY DEF pof_action_modify_field
<1>2. /\ pof_action_modify_field.field = Match /\ pof_action_modify_field.increment = U32
  BY DEF pof_action_modify_field
<1>3. DOMAIN p = DOMAIN pof_action_modify_field
  BY DEF Fits
<1>4. PICK q : q = action_MODIFY_FIELD(p)
  OBVIOUS
<1>5. q = [f \in DOMAIN p |-> q[f]]
  BY <1>4 DEF action_MODIFY_FIELD, NTOH
<1>6. /\ q.field = match(p.field) /\ q.increment = Reverse(p.increment)
  BY <1>1, <1>3, <1>4 DEF action_MODIFY_FIELD, NTOH
<1>7. Converts(pof_action_modify_field, p, q)
  BY <1>1, <1>2, <1>3, <1>5, <1>6 DEF Converts, Plain
<1> QED
  BY <1>4, <1>7, ConvertsIsMeant

LEMMA DeleteFieldMeant ==
    ASSUME NEW p, Fits(p, pof_action_delete_field)
    PROVE  action_DELETE_FIELD(p) = Meant(pof_action_delete_field, p)
<1>1. DOMAIN pof_action_delete_field =
           {"tag_pos", "len_type", "tag_len"}
  BY DEF pof_action_delete_field
<1>2. /\ pof_action_delete_field.tag_pos = U16 /\ pof_action_delete_field.len_type = U8
      /\ pof_action_delete_field.tag_len = Value("len_type")
  BY DEF pof_action_delete_field
<1>3. DOMAIN p = DOMAIN pof_action_delete_field
  BY DEF Fits
<1>4. PICK q : q = action_DELETE_FIELD(p)
  OBVIOUS
<1>5. q = [f \in DOMAIN p |-> q[f]]
  BY <1>4 DEF action_DELETE_FIELD, NTOH
<1>6. /\ q.tag_pos = Reverse(p.tag_pos) /\ q.len_type = p.len_type
      /\ q.tag_len = value(p.len_type, p.tag_len)
  BY <1>1, <1>3, <1>4 DEF action_DELETE_FIELD, NTOH
<1>7. Converts(pof_action_delete_field, p, q)
  BY <1>1, <1>2, <1>3, <1>5, <1>6 DEF Converts, Plain
<1> QED
  BY <1>4, <1>7, ConvertsIsMeant

LEMMA GotoTableMeant ==
    ASSUME NEW p, Fits(p, pof_instruction_goto_table)
    PROVE  instruction_GOTO_TABLE(p) = Meant(pof_instruction_goto_table, p)
<1>1. DOMAIN pof_instruction_goto_table =
           {"next_table_id", "match_field_num", "packet_offset", "match1",
            "match2"}
  BY DEF pof_instruction_goto_table
<1>2. /\ pof_instruction_goto_table.next_table_id = U8 /\ pof_instruction_goto_table.match_field_num = U8
      /\ pof_instruction_goto_table.packet_offset = U16 /\ pof_instruction_goto_table.match1 = Match
      /\ pof_instruction_goto_table.match2 = Match
  BY DEF pof_instruction_goto_table
<1>3. DOMAIN p = DOMAIN pof_instruction_goto_table
  BY DEF Fits
<1>4. PICK q : q = instruction_GOTO_TABLE(p)
  OBVIOUS
<1>5. q = [f \in DOMAIN p |-> q[f]]
  BY <1>4 DEF instruction_GOTO_TABLE, NTOH
<1>6. /\ q.next_table_id = p.next_table_id /\ q.match_field_num = p.match_field_num
      /\ q.packet_offset = Reverse(p.packet_offset) /\ q.match1 = match(p.match1)
      /\ q.match2 = match(p.match2)
  BY <1>1, <1>3, <1>4 DEF instruction_GOTO_TABLE, NTOH
<1>7. Converts(pof_instruction_goto_table, p, q)
  BY <1>1, <1>2, <1>3, <1>5, <1>6 DEF Converts, Plain
<1> QED
  BY <1>4, <1>7, ConvertsIsMeant

LEMMA GotoDirectMeant ==
    ASSUME NEW p, Fits(p, pof_instruction_goto_direct_table)
    PROVE  instruction_GOTO_DIRECT_TABLE(p) = Meant(pof_instruction_goto_direct_table, p)
<1>1. DOMAIN pof_instruction_goto_direct_table =
           {"next_table_id", "index_type", "packet_offset", "table_entry_index"}
  BY DEF pof_instruction_goto_direct_table
<1>2. /\ pof_instruction_goto_direct_table.next_table_id = U8 /\ pof_instruction_goto_direct_table.index_type = U8
      /\ pof_instruction_goto_direct_table.packet_offset = U16 /\ pof_instruction_goto_direct_table.table_entry_index = Value("index_type")
  BY DEF pof_instruction_goto_direct_table
<1>3. DOMAIN p = DOMAIN pof_instruction_goto_direct_table
  BY DEF Fits
<1>4. PICK q : q = instruction_GOTO_DIRECT_TABLE(p)
  OBVIOUS
<1>5. q = [f \in DOMAIN p |-> q[f]]
  BY <1>4 DEF instruction_GOTO_DIRECT_TABLE, NTOH
<1>6. /\ q.next_table_id = p.next_table_id /\ q.index_type = p.index_type
      /\ q.packet_offset = Reverse(p.packet_offset) /\ q.table_entry_index = value(p.index_type, p.table_entry_index)
  BY <1>1, <1>3, <1>4 DEF instruction_GOTO_DIRECT_TABLE, NTOH
<1>7. Converts(pof_instruction_goto_direct_table, p, q)
  BY <1>1, <1>2, <1>3, <1>5, <1>6 DEF Converts, Plain
<1> QED
  BY <1>4, <1>7, ConvertsIsMeant

LEMMA JumpMeant ==
    ASSUME NEW p, Fits(p, pof_instruction_conditional_jump)
    PROVE  instruction_CONDITIONAL_JMP(p) = Meant(pof_instruction_conditional_jump, p)
<1>1. DOMAIN pof_instruction_conditional_jump =
           {"field2_type", "offset1_direction", "offset1_type", "offset2_direction",
            "offset2_type", "offset3_direction", "offset3_type", "compare_field1",
            "compare_field2", "offset1", "offset2", "offset3"}
  BY DEF pof_instruction_conditional_jump
<1>2. /\ pof_instruction_conditional_jump.field2_type = U8 /\ pof_instruction_conditional_jump.offset1_direction = U8
      /\ pof_instruction_conditional_jump.offset1_type = U8 /\ pof_instruction_conditional_jump.offset2_direction = U8
      /\ pof_instruction_conditional_jump.offset2_type = U8 /\ pof_instruction_conditional_jump.offset3_direction = U8
      /\ pof_instruction_conditional_jump.offset3_type = U8 /\ pof_instruction_conditional_jump.compare_field1 = Match
      /\ pof_instruction_conditional_jump.compare_field2 = Value("field2_type") /\ pof_instruction_conditional_jump.offset1 = Value("offset1_type")
      /\ pof_instruction_conditional_jump.offset2 = Value("offset2_type") /\ pof_instruction_conditional_jump.offset3 = Value("offset3_type")
  BY DEF pof_instruction_conditional_jump
<1>3. DOMAIN p = DOMAIN pof_instruction_conditional_jump
  BY DEF Fits
<1>4. PICK q : q = instruction_CONDITIONAL_JMP(p)
  OBVIOUS
<1>5. q = [f \in DOMAIN p |-> q[f]]
  BY <1>4 DEF instruction_CONDITIONAL_JMP
<1>6. /\ q.field2_type = p.field2_type /\ q.offset1_direction = p.offset1_direction
      /\ q.offset1_type = p.offset1_type /\ q.offset2_direction = p.offset2_direction
      /\ q.offset2_type = p.offset2_type /\ q.offset3_direction = p.offset3_direction
      /\ q.offset3_type = p.offset3_type /\ q.compare_field1 = match(p.compare_field1)
      /\ q.compare_field2 = value(p.field2_type, p.compare_field2) /\ q.offset1 = value(p.offset1_type, p.offset1)
      /\ q.offset2 = value(p.offset2_type, p.offset2) /\ q.offset3 = value(p.offset3_type, p.offset3)
  BY <1>1, <1>3, <1>4 DEF instruction_CONDITIONAL_JMP
<1>7. Converts(pof_instruction_conditional_jump, p, q)
  BY <1>1, <1>2, <1>3, <1>5, <1>6 DEF Converts, Plain
<1> QED
  BY <1>4, <1>7, ConvertsIsMeant

LEMMA CalculateMeant ==
    ASSUME NEW p, Fits(p, pof_instruction_calc_field)
    PROVE  instruction_CALCULATE_FIELD(p) = Meant(pof_instruction_calc_field, p)
<1>1. DOMAIN pof_instruction_calc_field =
           {"calc_type", "src_type", "dst_field", "src_operand"}
  BY DEF pof_instruction_calc_field
<1>2. /\ pof_instruction_calc_field.calc_type = U16 /\ pof_instruction_calc_field.src_type = U8
      /\ pof_instruction_calc_field.dst_field = Match /\ pof_instruction_calc_field.src_operand = Value("src_type")
  BY DEF pof_instruction_calc_field
<1>3. DOMAIN p = DOMAIN pof_instruction_calc_field
  BY DEF Fits
<1>4. PICK q : q = instruction_CALCULATE_FIELD(p)
  OBVIOUS
<1>5. q = [f \in DOMAIN p |-> q[f]]
  BY <1>4 DEF instruction_CALCULATE_FIELD, NTOH
<1>6. /\ q.calc_type = Reverse(p.calc_type) /\ q.src_type = p.src_type
      /\ q.dst_field = match(p.dst_field) /\ q.src_operand = value(p.src_type, p.src_operand)
  BY <1>1, <1>3, <1>4 DEF instruction_CALCULATE_FIELD, NTOH
<1>7. Converts(pof_instruction_calc_field, p, q)
  BY <1>1, <1>2, <1>3, <1>5, <1>6 DEF Converts, Plain
<1> QED
  BY <1>4, <1>7, ConvertsIsMeant

LEMMA MoveMeant ==
    ASSUME NEW p, Fits(p, pof_instruction_mov_packet_offset)
    PROVE  instruction_MOVE_PACKET_OFFSET(p) = Meant(pof_instruction_mov_packet_offset, p)
<1>1. DOMAIN pof_instruction_mov_packet_offset =
           {"direction", "value_type", "movement"}
  BY DEF pof_instruction_mov_packet_offset
<1>2. /\ pof_instruction_mov_packet_offset.direction = U8 /\ pof_instruction_mov_packet_offset.value_type = U8
      /\ pof_instruction_mov_packet_offset.movement = Value("value_type")
  BY DEF pof_instruction_mov_packet_offset
<1>3. DOMAIN p = DOMAIN pof_instruction_mov_packet_offset
  BY DEF Fits
<1>4. PICK q : q = instruction_MOVE_PACKET_OFFSET(p)
  OBVIOUS
<1>5. q = [f \in DOMAIN p |-> q[f]]
  BY <1>4 DEF instruction_MOVE_PACKET_OFFSET
<1>6. /\ q.direction = p.direction /\ q.value_type = p.value_type
      /\ q.movement = value(p.value_type, p.movement)
  BY <1>1, <1>3, <1>4 DEF instruction_MOVE_PACKET_OFFSET
<1>7. Converts(pof_instruction_mov_packet_offset, p, q)
  BY <1>1, <1>2, <1>3, <1>5, <1>6 DEF Converts, Plain
<1> QED
  BY <1>4, <1>7, ConvertsIsMeant

\* The structures that have numbers only: none of more than a byte is left out.
LEMMA Covered ==
    /\ Covers(pof_flow_table, {"size", "key_len", "slotID"})
    /\ Covers(pof_flow_entry, EntryFields)
    /\ Covers(pof_group, {"group_id", "counter_id", "slotID"})
    /\ Covers(pof_meter, {"slotID", "rate", "meter_id"})
    /\ Covers(pof_counter, {"counter_id", "slotID", "value", "byte_value"})
    /\ Covers(pof_port, PortNumbers)
    /\ Covers(pof_packet_out, {"bufferId", "inPort", "packetLen"})
    /\ Covers(pof_switch_config, {"dev_id", "flags", "miss_send_len"})
    /\ Covers(pof_queryall_request, {"slotID"})
    /\ Covers(pof_header, {"length", "xid"})
    /\ Covers(pof_switch_features,
              {"dev_id", "slotID", "port_num", "table_num", "capabilities"})
    /\ Covers(pof_flow_table_resource, {"slotID", "counter_num", "meter_num", "group_num"})
    /\ Covers(pof_table_resource_desc, {"device_id", "key_len", "total_size"})
    /\ Covers(pof_packet_in,
              {"buffer_id", "total_len", "cookie", "device_id", "slotID", "port_id"})
    /\ Covers(pof_error, {"slotID", "type", "code", "device_id"})
    /\ Covers(pof_action_add_field, {"tag_pos", "tag_id", "tag_len"})
    /\ Covers(pof_action_calculate_checksum,
              {"checksum_pos", "checksum_len", "cal_startpos", "cal_len"})
    /\ Covers(pof_action_group, {"group_id"})
    /\ Covers(pof_action_drop, {"reason_code"})
    /\ Covers(pof_action_packet_in, {"reason_code"})
    /\ Covers(pof_action_counter, {"counter_id"})
    /\ Covers(pof_instruction_write_metadata, {"metadata_offset", "len"})
    /\ Covers(pof_instruction_meter, {"meter_id"})
    /\ Covers(pof_instruction_write_metadata_from_packet,
              {"metadata_offset", "packet_offset", "len"})
<1>1. Covers(pof_flow_table, {"size", "key_len", "slotID"})
  BY DEF Covers, Plain, pof_flow_table
<1>2. Covers(pof_flow_entry, EntryFields)
  BY DEF Covers, Plain, pof_flow_entry, EntryFields
<1>3. Covers(pof_group, {"group_id", "counter_id", "slotID"})
  BY DEF Covers, Plain, pof_group
<1>4. Covers(pof_meter, {"slotID", "rate", "meter_id"})
  BY DEF Covers, Plain, pof_meter
<1>5. Covers(pof_counter, {"counter_id", "slotID", "value", "byte_value"})
  BY DEF Covers, Plain, pof_counter
<1>6. Covers(pof_port, PortNumbers)
  BY DEF Covers, Plain, pof_port, PortNumbers
<1>7. Covers(pof_packet_out, {"bufferId", "inPort", "packetLen"})
  BY DEF Covers, Plain, pof_packet_out
<1>8. Covers(pof_switch_config, {"dev_id", "flags", "miss_send_len"})
  BY DEF Covers, Plain, pof_switch_config
<1>9. Covers(pof_queryall_request, {"slotID"})
  BY DEF Covers, Plain, pof_queryall_request
<1>10. Covers(pof_header, {"length", "xid"})
  BY DEF Covers, Plain, pof_header
<1>11. Covers(pof_switch_features, {"dev_id", "slotID", "port_num", "table_num", "capabilities"})
  BY DEF Covers, Plain, pof_switch_features
<1>12. Covers(pof_flow_table_resource, {"slotID", "counter_num", "meter_num", "group_num"})
  BY DEF Covers, Plain, pof_flow_table_resource
<1>13. Covers(pof_table_resource_desc, {"device_id", "key_len", "total_size"})
  BY DEF Covers, Plain, pof_table_resource_desc
<1>14. Covers(pof_packet_in, {"buffer_id", "total_len", "cookie", "device_id", "slotID", "port_id"})
  BY DEF Covers, Plain, pof_packet_in
<1>15. Covers(pof_error, {"slotID", "type", "code", "device_id"})
  BY DEF Covers, Plain, pof_error
<1>16. Covers(pof_action_add_field, {"tag_pos", "tag_id", "tag_len"})
  BY DEF Covers, Plain, pof_action_add_field
<1>17. Covers(pof_action_calculate_checksum, {"checksum_pos", "checksum_len", "cal_startpos", "cal_len"})
  BY DEF Covers, Plain, pof_action_calculate_checksum
<1>18. Covers(pof_action_group, {"group_id"})
  BY DEF Covers, Plain, pof_action_group
<1>19. Covers(pof_action_drop, {"reason_code"})
  BY DEF Covers, Plain, pof_action_drop
<1>20. Covers(pof_action_packet_in, {"reason_code"})
  BY DEF Covers, Plain, pof_action_packet_in
<1>21. Covers(pof_action_counter, {"counter_id"})
  BY DEF Covers, Plain, pof_action_counter
<1>22. Covers(pof_instruction_write_metadata, {"metadata_offset", "len"})
  BY DEF Covers, Plain, pof_instruction_write_metadata
<1>23. Covers(pof_instruction_meter, {"meter_id"})
  BY DEF Covers, Plain, pof_instruction_meter
<1>24. Covers(pof_instruction_write_metadata_from_packet, {"metadata_offset", "packet_offset", "len"})
  BY DEF Covers, Plain, pof_instruction_write_metadata_from_packet
<1> QED
  BY <1>1, <1>2, <1>3, <1>4, <1>5, <1>6, <1>7, <1>8, <1>9, <1>10, <1>11, <1>12, <1>13, <1>14, <1>15, <1>16, <1>17, <1>18, <1>19, <1>20, <1>21, <1>22, <1>23, <1>24

LEMMA CoveredStruct ==
    ASSUME NEW struct, NEW fields, Covers(struct, fields)
    PROVE  IsStruct(struct)
  BY DEF Covers, IsStruct

\* The structures with matches and unions.
LEMMA UnionStructs ==
    /\ IsStruct(pof_action_output)
    /\ IsStruct(pof_action_set_field)
    /\ IsStruct(pof_action_set_field_from_metadata)
    /\ IsStruct(pof_action_modify_field)
    /\ IsStruct(pof_action_delete_field)
    /\ IsStruct(pof_instruction_goto_table)
    /\ IsStruct(pof_instruction_goto_direct_table)
    /\ IsStruct(pof_instruction_conditional_jump)
    /\ IsStruct(pof_instruction_calc_field)
    /\ IsStruct(pof_instruction_mov_packet_offset)
<1>1. IsStruct(pof_action_output)
  BY DEF IsStruct, Plain, pof_action_output
<1>2. IsStruct(pof_action_set_field)
  BY DEF IsStruct, Plain, pof_match_x, pof_action_set_field
<1>3. IsStruct(pof_action_set_field_from_metadata)
  BY DEF IsStruct, Plain, pof_action_set_field_from_metadata
<1>4. IsStruct(pof_action_modify_field)
  BY DEF IsStruct, Plain, pof_action_modify_field
<1>5. IsStruct(pof_action_delete_field)
  BY DEF IsStruct, Plain, pof_action_delete_field
<1>6. IsStruct(pof_instruction_goto_table)
  BY DEF IsStruct, Plain, pof_instruction_goto_table
<1>7. IsStruct(pof_instruction_goto_direct_table)
  BY DEF IsStruct, Plain, pof_instruction_goto_direct_table
<1>8. IsStruct(pof_instruction_conditional_jump)
  BY DEF IsStruct, Plain, pof_instruction_conditional_jump
<1>9. IsStruct(pof_instruction_calc_field)
  BY DEF IsStruct, Plain, pof_instruction_calc_field
<1>10. IsStruct(pof_instruction_mov_packet_offset)
  BY DEF IsStruct, Plain, pof_instruction_mov_packet_offset
<1> QED
  BY <1>1, <1>2, <1>3, <1>4, <1>5, <1>6, <1>7, <1>8, <1>9, <1>10

\* What is filled with bytes is a structure in memory.
LEMMA FillFits ==
    ASSUME NEW struct, IsStruct(struct), NEW byte, \A f \in BytesOf(struct) : byte[f] \in {0, 1},
           NEW c \in [DOMAIN struct -> Contents]
    PROVE  Fits(Fill(struct, byte, c), struct)
<1>1. PICK p : p = Fill(struct, byte, c)
  OBVIOUS
<1>2. p = [f \in DOMAIN struct |->
              IF struct[f].size = 1 THEN <<byte[f]>> ELSE [i \in 1..struct[f].size |-> c[f][i]]]
  BY <1>1 DEF Fill
<1>3. ASSUME NEW f \in DOMAIN struct
      PROVE  p[f] \in Field(struct[f].size, Byte) /\ (struct[f] = U8 => p[f] \in Tag)
  <2>1. CASE struct[f].size = 1
    <3>1. p[f] = <<byte[f]>> /\ byte[f] \in {0, 1}
      BY <1>2, <2>1 DEF BytesOf
    <3>2. <<0>> \in Field(1, Byte) /\ <<1>> \in Field(1, Byte)
      BY DEF Field, Byte
    <3> QED
      BY <2>1, <3>1, <3>2 DEF Tag, POFVT_IMMEDIATE_NUM, POFVT_FIELD
  <2>2. CASE struct[f].size # 1
    <3>1. struct[f] # U8
      BY <2>2, PlainTypes
    <3>2. struct[f].size \in 1..8
      <4>1. \A t \in Plain : t.size \in 1..8
        BY DEF Plain, U8, U16, U32, U64
      <4> QED
        BY <4>1, UnionTypes DEF IsStruct
    <3>3. c[f] \in [1..8 -> Byte]
      BY MessagesAssumption DEF Byte
    <3>4. p[f] = [i \in 1..struct[f].size |-> c[f][i]]
      BY <1>2, <2>2
    <3>5. \A i \in 1..struct[f].size : i \in 1..8
      BY <3>2
    <3>6. p[f] \in Field(struct[f].size, Byte)
      BY <3>3, <3>4, <3>5 DEF Field
    <3> QED
      BY <3>1, <3>6
  <2> QED
    BY <2>1, <2>2
<1>4. p = [f \in DOMAIN struct |-> p[f]]
  BY <1>2
<1> QED
  BY <1>1, <1>3, <1>4 DEF Fits

LEMMA FilledFits ==
    ASSUME NEW struct, IsStruct(struct)
    PROVE  /\ \A p \in Filled(struct) : Fits(p, struct)
           /\ \A p \in Ones(struct) : Fits(p, struct)
<1>1. ASSUME NEW p \in Filled(struct) PROVE Fits(p, struct)
  <2>1. PICK b \in [BytesOf(struct) -> {POFVT_IMMEDIATE_NUM, POFVT_FIELD}],
             c \in [DOMAIN struct -> Contents] : p = Fill(struct, b, c)
    BY DEF Filled
  <2>2. \A f \in BytesOf(struct) : b[f] \in {0, 1}
    BY DEF POFVT_IMMEDIATE_NUM, POFVT_FIELD
  <2> QED
    BY <2>1, <2>2, FillFits
<1>2. ASSUME NEW p \in Ones(struct) PROVE Fits(p, struct)
  <2>1. PICK b : b = [f \in BytesOf(struct) |-> 1]
    OBVIOUS
  <2>3. PICK c \in [DOMAIN struct -> Contents] : p = Fill(struct, b, c)
    BY <2>1 DEF Ones
  <2>2. \A f \in BytesOf(struct) : b[f] \in {0, 1}
    BY <2>1
  <2> QED
    BY <2>3, <2>2, FillFits
<1> QED
  BY <1>1, <1>2
-----------------------------------------------------------------------------
(* Actions and instructions: a type, a length and data.                    *)

Uint16 == 0..65535
Small(n) == <<n % 256, n \div 256>>
HostItem(type, len, data) == [type |-> Small(type), len |-> Small(len), data |-> data]

LEMMA TwoBytes ==
    ASSUME NEW n \in Uint16
    PROVE  /\ Reverse(Big(n)) = Small(n) /\ Reverse(Small(n)) = Big(n)
           /\ Number(Small(n)) = n
           /\ Big(n)[1] * 256 + Big(n)[2] = n
           /\ Number(Big(n)) = (n \div 256) + 256 * (n % 256)
<1>1. n \in Nat
  BY DEF Uint16
<1>2. n % 256 \in Nat /\ n \div 256 \in Nat /\ n = 256 * (n \div 256) + (n % 256)
  BY <1>1
<1>3. PICK h \in Nat : h = n \div 256
  BY <1>2
<1>4. PICK l \in Nat : l = n % 256
  BY <1>2
<1>5. ASSUME NEW x \in Nat, NEW y \in Nat PROVE Reverse(<<x, y>>) = <<y, x>>
  <2>1. Len(<<x, y>>) = 2 /\ 2 - 1 + 1 = 2 /\ 2 - 2 + 1 = 1 /\ 1..2 = {1, 2}
    OBVIOUS
  <2>2. PICK r : r = Reverse(<<x, y>>)
    OBVIOUS
  <2>3. r = [i \in 1..2 |-> <<x, y>>[2 - i + 1]]
    BY <2>1, <2>2 DEF Reverse
  <2>4. r[1] = y /\ r[2] = x
    BY <2>1, <2>3
  <2>5. r = <<r[1], r[2]>>
    BY <2>3
  <2> QED
    BY <2>2, <2>4, <2>5
<1>6. Big(n) = <<h, l>> /\ Small(n) = <<l, h>>
  BY <1>3, <1>4 DEF Big, Small
<1>7. Number(Small(n)) = l + 256 * h /\ Number(Big(n)) = h + 256 * l
  BY <1>6 DEF Number
<1>8. Big(n)[1] * 256 + Big(n)[2] = h * 256 + l
  BY <1>6
<1>9. n = 256 * h + l
  BY <1>2, <1>3, <1>4
<1> QED
  BY <1>3, <1>4, <1>5, <1>6, <1>7, <1>8, <1>9

\* The header of an item is converted, to the host's order and back.
LEMMA HeadConverted ==
    ASSUME NEW t \in Uint16, NEW n \in Uint16, NEW d
    PROVE  /\ NTOH(Item(t, n, d), {"type", "len"}) = HostItem(t, n, d)
           /\ NTOH(HostItem(t, n, d), {"type", "len"}) = Item(t, n, d)
<1>1. /\ Reverse(Big(t)) = Small(t) /\ Reverse(Small(t)) = Big(t)
      /\ Reverse(Big(n)) = Small(n) /\ Reverse(Small(n)) = Big(n)
  BY TwoBytes
<1>2. ASSUME NEW x, NEW y
      PROVE  NTOH([type |-> x, len |-> y, data |-> d], {"type", "len"})
                = [type |-> Reverse(x), len |-> Reverse(y), data |-> d]
  BY DEF NTOH
<1>3. NTOH(Item(t, n, d), {"type", "len"}) = [type |-> Small(t), len |-> Small(n), data |-> d]
  BY <1>1, <1>2, Zenon DEF Item
<1>4. NTOH(HostItem(t, n, d), {"type", "len"}) = [type |-> Big(t), len |-> Big(n), data |-> d]
  BY <1>1, <1>2, Zenon DEF HostItem
<1> QED
  BY <1>3, <1>4 DEF Item, HostItem

\* What a converted item means.
LEMMA ItemMeant ==
    ASSUME NEW t \in Uint16, NEW n \in Uint16, NEW d, NEW e
    PROVE  MeantItem(Item(t, n, d), e) = HostItem(t, n, e) /\ TypeOf(Item(t, n, d)) = t
<1>1. Item(t, n, d).type = Big(t) /\ Item(t, n, d).len = Big(n)
  BY DEF Item
<1> QED
  BY <1>1, TwoBytes DEF MeantItem, HostItem, TypeOf

LEMMA HostFields ==
    ASSUME NEW t, NEW n, NEW d
    PROVE  /\ HostItem(t, n, d).type = Small(t) /\ HostItem(t, n, d).len = Small(n)
           /\ HostItem(t, n, d).data = d
           /\ \A e : [HostItem(t, n, d) EXCEPT !.data = e] = HostItem(t, n, e)
  BY DEF HostItem

\* The structures of the actions and of the instructions.
LEMMA ActionStructs == \A t \in 0..10 : IsStruct(ActionStructure[t])
<1> SUFFICES ASSUME NEW t \in 0..10 PROVE IsStruct(ActionStructure[t])
  OBVIOUS
<1>1. CASE t = 0
  <2>1. ActionStructure[t] = pof_action_output
    BY <1>1 DEF ActionStructure
  <2> QED
    BY <2>1, UnionStructs
<1>2. CASE t = 1
  <2>1. ActionStructure[t] = pof_action_set_field
    BY <1>2 DEF ActionStructure
  <2> QED
    BY <2>1, UnionStructs
<1>3. CASE t = 2
  <2>1. ActionStructure[t] = pof_action_set_field_from_metadata
    BY <1>3 DEF ActionStructure
  <2> QED
    BY <2>1, UnionStructs
<1>4. CASE t = 3
  <2>1. ActionStructure[t] = pof_action_modify_field
    BY <1>4 DEF ActionStructure
  <2> QED
    BY <2>1, UnionStructs
<1>5. CASE t = 4
  <2>1. ActionStructure[t] = pof_action_add_field
    BY <1>5 DEF ActionStructure
  <2> QED
    BY <2>1, Covered, CoveredStruct
<1>6. CASE t = 5
  <2>1. ActionStructure[t] = pof_action_delete_field
    BY <1>6 DEF ActionStructure
  <2> QED
    BY <2>1, UnionStructs
<1>7. CASE t = 6
  <2>1. ActionStructure[t] = pof_action_calculate_checksum
    BY <1>7 DEF ActionStructure
  <2> QED
    BY <2>1, Covered, CoveredStruct
<1>8. CASE t = 7
  <2>1. ActionStructure[t] = pof_action_group
    BY <1>8 DEF ActionStructure
  <2> QED
    BY <2>1, Covered, CoveredStruct
<1>9. CASE t = 8
  <2>1. ActionStructure[t] = pof_action_drop
    BY <1>9 DEF ActionStructure
  <2> QED
    BY <2>1, Covered, CoveredStruct
<1>10. CASE t = 9
  <2>1. ActionStructure[t] = pof_action_packet_in
    BY <1>10 DEF ActionStructure
  <2> QED
    BY <2>1, Covered, CoveredStruct
<1>11. CASE t = 10
  <2>1. ActionStructure[t] = pof_action_counter
    BY <1>11 DEF ActionStructure
  <2> QED
    BY <2>1, Covered, CoveredStruct
<1> QED
  BY <1>1, <1>2, <1>3, <1>4, <1>5, <1>6, <1>7, <1>8, <1>9, <1>10, <1>11

LEMMA InstructionStructs == \A t \in (1..11) \ {3, 4, 5} : IsStruct(InstructionStructure[t])
<1> SUFFICES ASSUME NEW t \in (1..11) \ {3, 4, 5} PROVE IsStruct(InstructionStructure[t])
  OBVIOUS
<1>1. CASE t = 1
  <2>1. InstructionStructure[t] = pof_instruction_goto_table
    BY <1>1 DEF InstructionStructure
  <2> QED
    BY <2>1, UnionStructs
<1>2. CASE t = 2
  <2>1. InstructionStructure[t] = pof_instruction_write_metadata
    BY <1>2 DEF InstructionStructure
  <2> QED
    BY <2>1, Covered, CoveredStruct
<1>3. CASE t = 6
  <2>1. InstructionStructure[t] = pof_instruction_meter
    BY <1>3 DEF InstructionStructure
  <2> QED
    BY <2>1, Covered, CoveredStruct
<1>4. CASE t = 7
  <2>1. InstructionStructure[t] = pof_instruction_write_metadata_from_packet
    BY <1>4 DEF InstructionStructure
  <2> QED
    BY <2>1, Covered, CoveredStruct
<1>5. CASE t = 8
  <2>1. InstructionStructure[t] = pof_instruction_goto_direct_table
    BY <1>5 DEF InstructionStructure
  <2> QED
    BY <2>1, UnionStructs
<1>6. CASE t = 9
  <2>1. InstructionStructure[t] = pof_instruction_conditional_jump
    BY <1>6 DEF InstructionStructure
  <2> QED
    BY <2>1, UnionStructs
<1>7. CASE t = 10
  <2>1. InstructionStructure[t] = pof_instruction_calc_field
    BY <1>7 DEF InstructionStructure
  <2> QED
    BY <2>1, UnionStructs
<1>8. CASE t = 11
  <2>1. InstructionStructure[t] = pof_instruction_mov_packet_offset
    BY <1>8 DEF InstructionStructure
  <2> QED
    BY <2>1, UnionStructs
<1> QED
  BY <1>1, <1>2, <1>3, <1>4, <1>5, <1>6, <1>7, <1>8

\* The data of every action is converted as its structure says.
LEMMA ActionDataMeant ==
    ASSUME NEW t \in 0..10, NEW d, Fits(d, ActionStructure[t])
    PROVE  action_data(t, d) = Meant(ActionStructure[t], d)
<1>1. CASE t = 0
  <2>1. ActionStructure[t] = pof_action_output
    BY <1>1 DEF ActionStructure
  <2>2. action_data(t, d) = action_OUTPUT(d)
    BY <1>1 DEF action_data
  <2> QED
    BY <2>1, <2>2, OutputMeant
<1>2. CASE t = 1
  <2>1. ActionStructure[t] = pof_action_set_field
    BY <1>2 DEF ActionStructure
  <2>2. action_data(t, d) = action_SET_FIELD(d)
    BY <1>2 DEF action_data
  <2> QED
    BY <2>1, <2>2, SetFieldMeant
<1>3. CASE t = 2
  <2>1. ActionStructure[t] = pof_action_set_field_from_metadata
    BY <1>3 DEF ActionStructure
  <2>2. action_data(t, d) = action_SET_FIELD_FROM_METADATA(d)
    BY <1>3 DEF action_data
  <2> QED
    BY <2>1, <2>2, SetFromMetadataMeant
<1>4. CASE t = 3
  <2>1. ActionStructure[t] = pof_action_modify_field
    BY <1>4 DEF ActionStructure
  <2>2. action_data(t, d) = action_MODIFY_FIELD(d)
    BY <1>4 DEF action_data
  <2> QED
    BY <2>1, <2>2, ModifyFieldMeant
<1>5. CASE t = 4
  <2>1. ActionStructure[t] = pof_action_add_field
    BY <1>5 DEF ActionStructure
  <2>2. action_data(t, d) = action_ADD_FIELD(d)
    BY <1>5 DEF action_data
  <2> QED
    BY <2>1, <2>2, Covered, NtohMeant DEF action_ADD_FIELD
<1>6. CASE t = 5
  <2>1. ActionStructure[t] = pof_action_delete_field
    BY <1>6 DEF ActionStructure
  <2>2. action_data(t, d) = action_DELETE_FIELD(d)
    BY <1>6 DEF action_data
  <2> QED
    BY <2>1, <2>2, DeleteFieldMeant
<1>7. CASE t = 6
  <2>1. ActionStructure[t] = pof_action_calculate_checksum
    BY <1>7 DEF ActionStructure
  <2>2. action_data(t, d) = action_CALCULATE_CHECKSUM(d)
    BY <1>7 DEF action_data
  <2> QED
    BY <2>1, <2>2, Covered, NtohMeant DEF action_CALCULATE_CHECKSUM
<1>8. CASE t = 7
  <2>1. ActionStructure[t] = pof_action_group
    BY <1>8 DEF ActionStructure
  <2>2. action_data(t, d) = action_GROUP(d)
    BY <1>8 DEF action_data
  <2> QED
    BY <2>1, <2>2, Covered, NtohMeant DEF action_GROUP
<1>9. CASE t = 8
  <2>1. ActionStructure[t] = pof_action_drop
    BY <1>9 DEF ActionStructure
  <2>2. action_data(t, d) = action_DROP(d)
    BY <1>9 DEF action_data
  <2> QED
    BY <2>1, <2>2, Covered, NtohMeant DEF action_DROP
<1>10. CASE t = 9
  <2>1. ActionStructure[t] = pof_action_packet_in
    BY <1>10 DEF ActionStructure
  <2>2. action_data(t, d) = action_PACKET_IN(d)
    BY <1>10 DEF action_data
  <2> QED
    BY <2>1, <2>2, Covered, NtohMeant DEF action_PACKET_IN
<1>11. CASE t = 10
  <2>1. ActionStructure[t] = pof_action_counter
    BY <1>11 DEF ActionStructure
  <2>2. action_data(t, d) = action_COUNTER(d)
    BY <1>11 DEF action_data
  <2> QED
    BY <2>1, <2>2, Covered, NtohMeant DEF action_COUNTER
<1> QED
  BY <1>1, <1>2, <1>3, <1>4, <1>5, <1>6, <1>7, <1>8, <1>9, <1>10, <1>11

\* So is the data of every instruction but APPLY_ACTIONS.
LEMMA InstructionDataMeant ==
    ASSUME NEW t \in (1..11) \ {3, 4, 5}, NEW d, Fits(d, InstructionStructure[t])
    PROVE  instruction_data(t, d) = Meant(InstructionStructure[t], d)
<1>1. CASE t = 1
  <2>1. InstructionStructure[t] = pof_instruction_goto_table
    BY <1>1 DEF InstructionStructure
  <2>2. instruction_data(t, d) = instruction_GOTO_TABLE(d)
    BY <1>1 DEF instruction_data
  <2> QED
    BY <2>1, <2>2, GotoTableMeant
<1>2. CASE t = 2
  <2>1. InstructionStructure[t] = pof_instruction_write_metadata
    BY <1>2 DEF InstructionStructure
  <2>2. instruction_data(t, d) = instruction_WRITE_METADATA(d)
    BY <1>2 DEF instruction_data
  <2> QED
    BY <2>1, <2>2, Covered, NtohMeant DEF instruction_WRITE_METADATA
<1>3. CASE t = 6
  <2>1. InstructionStructure[t] = pof_instruction_meter
    BY <1>3 DEF InstructionStructure
  <2>2. instruction_data(t, d) = instruction_METER(d)
    BY <1>3 DEF instruction_data
  <2> QED
    BY <2>1, <2>2, Covered, NtohMeant DEF instruction_METER
<1>4. CASE t = 7
  <2>1. InstructionStructure[t] = pof_instruction_write_metadata_from_packet
    BY <1>4 DEF InstructionStructure
  <2>2. instruction_data(t, d) = instruction_WRITE_METADATA_FROM_PACKET(d)
    BY <1>4 DEF instruction_data
  <2> QED
    BY <2>1, <2>2, Covered, NtohMeant DEF instruction_WRITE_METADATA_FROM_PACKET
<1>5. CASE t = 8
  <2>1. InstructionStructure[t] = pof_instruction_goto_direct_table
    BY <1>5 DEF InstructionStructure
  <2>2. instruction_data(t, d) = instruction_GOTO_DIRECT_TABLE(d)
    BY <1>5 DEF instruction_data
  <2> QED
    BY <2>1, <2>2, GotoDirectMeant
<1>6. CASE t = 9
  <2>1. InstructionStructure[t] = pof_instruction_conditional_jump
    BY <1>6 DEF InstructionStructure
  <2>2. instruction_data(t, d) = instruction_CONDITIONAL_JMP(d)
    BY <1>6 DEF instruction_data
  <2> QED
    BY <2>1, <2>2, JumpMeant
<1>7. CASE t = 10
  <2>1. InstructionStructure[t] = pof_instruction_calc_field
    BY <1>7 DEF InstructionStructure
  <2>2. instruction_data(t, d) = instruction_CALCULATE_FIELD(d)
    BY <1>7 DEF instruction_data
  <2> QED
    BY <2>1, <2>2, CalculateMeant
<1>8. CASE t = 11
  <2>1. InstructionStructure[t] = pof_instruction_mov_packet_offset
    BY <1>8 DEF InstructionStructure
  <2>2. instruction_data(t, d) = instruction_MOVE_PACKET_OFFSET(d)
    BY <1>8 DEF instruction_data
  <2> QED
    BY <2>1, <2>2, MoveMeant
<1> QED
  BY <1>1, <1>2, <1>3, <1>4, <1>5, <1>6, <1>7, <1>8

\* action() guesses the direction right: an action of the controller becomes
\* what it means, and comes back as it was.
LEMMA ActionBothWays ==
    ASSUME NEW a \in ActionWires
    PROVE  action(a) = MeantAction(a) /\ action(action(a)) = a
<1> PICK t \in 0..10 : a \in {Item(t, n, d) : n \in ActionLens, d \in Filled(ActionStructure[t])}
  BY DEF ActionWires
<1>1. PICK n \in ActionLens, d \in Filled(ActionStructure[t]) : a = Item(t, n, d)
  OBVIOUS
<1>2. PICK s : s = ActionStructure[t]
  OBVIOUS
<1>3. n \in Uint16 /\ t \in Uint16 /\ n \in 4..48
  BY MessagesAssumption DEF Uint16
<1>4. IsStruct(s)
  BY <1>2, ActionStructs
<1>5. Fits(d, s)
  BY <1>2, <1>4, FilledFits
<1>6. PICK e : e = Meant(s, d)
  OBVIOUS
<1>7. Fits(e, s) /\ Meant(s, e) = d
  BY <1>4, <1>5, <1>6, MeantTwice
<1>8. action_data(t, d) = e /\ action_data(t, e) = d
  BY <1>2, <1>5, <1>6, <1>7, ActionDataMeant
<1>9. action(a) = HostItem(t, n, e)
  <2>1. Item(t, n, d).len = Big(n)
    BY DEF Item
  <2>2. Number(Big(n)) > 255
    <3>1. Number(Big(n)) = (n \div 256) + 256 * (n % 256)
      BY <1>3, TwoBytes
    <3>2. n \div 256 = 0 /\ n % 256 = n
      BY <1>3
    <3> QED
      BY <1>3, <3>1, <3>2
  <2>3. PICK q : q = NTOH(a, {"type", "len"})
    OBVIOUS
  <2>4. q = HostItem(t, n, d)
    BY <1>1, <1>3, <2>3, HeadConverted
  <2>5. q.type = Small(t) /\ q.data = d /\ Number(Small(t)) = t
    BY <1>3, <2>4, HostFields, TwoBytes
  <2>6. action(a) = [q EXCEPT !.data = action_data(Number(q.type), @)]
    BY <1>1, <2>1, <2>2, <2>3 DEF action
  <2>7. action(a) = [q EXCEPT !.data = e]
    BY <1>8, <2>5, <2>6
  <2> QED
    BY <2>4, <2>7, HostFields
<1>10. MeantAction(a) = HostItem(t, n, e)
  <2>1. TypeOf(a) = t /\ MeantItem(a, e) = HostItem(t, n, e)
    BY <1>1, <1>3, ItemMeant
  <2>2. a.data = d
    BY <1>1 DEF Item
  <2> QED
    BY <1>2, <1>6, <2>1, <2>2 DEF MeantAction
<1>11. action(HostItem(t, n, e)) = Item(t, n, d)
  <2>1. PICK h : h = HostItem(t, n, e)
    OBVIOUS
  <2>2. h.type = Small(t) /\ h.len = Small(n) /\ h.data = e
    BY <2>1, HostFields
  <2>3. Number(Small(n)) = n /\ Number(Small(t)) = t /\ ~(n > 255)
    BY <1>3, TwoBytes
  <2>4. action(h) = NTOH([h EXCEPT !.data = action_data(Number(h.type), @)], {"type", "len"})
    BY <2>2, <2>3 DEF action
  <2>5. [h EXCEPT !.data = action_data(Number(h.type), @)] = [h EXCEPT !.data = d]
    BY <1>8, <2>2, <2>3
  <2>6. [h EXCEPT !.data = d] = HostItem(t, n, d)
    BY <2>1, HostFields
  <2> QED
    BY <1>3, <2>1, <2>4, <2>5, <2>6, HeadConverted
<1> QED
  BY <1>1, <1>9, <1>10, <1>11

\* instruction_NtoH and instruction_HtoN, given what they do to the data.
LEMMA InstructionConverted ==
    ASSUME NEW t \in Uint16, NEW n \in Uint16, NEW d, NEW e,
           instruction_data(t, d) = e
    PROVE  /\ instruction_NtoH(Item(t, n, d)) = HostItem(t, n, e)
           /\ t \in Instructions => instruction_HtoN(HostItem(t, n, d)) = Item(t, n, e)
           /\ t \notin Instructions => instruction_HtoN(HostItem(t, n, d)) = HostItem(t, n, d)
<1>1. PICK h : h = HostItem(t, n, d)
  OBVIOUS
<1>2. h.type = Small(t) /\ h.data = d /\ Number(Small(t)) = t
  BY <1>1, HostFields, TwoBytes
<1>3. [h EXCEPT !.data = instruction_data(Number(h.type), @)] = [h EXCEPT !.data = e]
  BY <1>2
<1>4. [h EXCEPT !.data = e] = HostItem(t, n, e)
  BY <1>1, HostFields
<1>5. NTOH(Item(t, n, d), {"type", "len"}) = h
  BY <1>1, HeadConverted
<1>6. instruction_NtoH(Item(t, n, d)) = HostItem(t, n, e)
  BY <1>3, <1>4, <1>5 DEF instruction_NtoH
<1>7. ASSUME t \in Instructions PROVE instruction_HtoN(h) = Item(t, n, e)
  <2>1. Number(h.type) \in Instructions
    BY <1>2, <1>7
  <2>2. instruction_HtoN(h) = NTOH(HostItem(t, n, e), {"type", "len"})
    BY <1>3, <1>4, <2>1 DEF instruction_HtoN
  <2> QED
    BY <2>2, HeadConverted
<1>8. ASSUME t \notin Instructions PROVE instruction_HtoN(h) = h
  BY <1>2, <1>8 DEF instruction_HtoN
<1> QED
  BY <1>1, <1>6, <1>7, <1>8

\* The actions in an APPLY_ACTIONS: the one that is used is converted.
LEMMA ApplyConverted ==
    ASSUME NEW a, NEW u
    PROVE  /\ instruction_APPLY_ACTIONS(ApplyActions(a, u)) = ApplyActions(action(a), u)
           /\ \A b : [ApplyActions(a, u) EXCEPT !.action[1] = b] = ApplyActions(b, u)
<1>1. PICK s : s = <<a, u>>
  OBVIOUS
<1>2. DOMAIN s = 1..2 /\ s[1] = a /\ s[2] = u
  BY <1>1
<1>3. PICK r : r = actions(s, 1)
  OBVIOUS
<1>4. r = [i \in 1..2 |-> IF i <= 1 THEN action(s[i]) ELSE s[i]]
  BY <1>2, <1>3 DEF actions
<1>5. r[1] = action(a) /\ r[2] = u /\ r = <<r[1], r[2]>>
  BY <1>2, <1>4
<1>6. r = <<action(a), u>>
  BY <1>5
<1>7. PICK p : p = ApplyActions(a, u)
  OBVIOUS
<1>8. p = [action_num |-> <<1>>, action |-> s] /\ p.action_num[1] = 1 /\ p.action = s
  BY <1>1, <1>7 DEF ApplyActions
<1>9. instruction_APPLY_ACTIONS(p) = [p EXCEPT !.action = r]
  BY <1>3, <1>8 DEF instruction_APPLY_ACTIONS
<1>10. [p EXCEPT !.action = r] = [action_num |-> <<1>>, action |-> r]
  BY <1>8
<1>11. instruction_APPLY_ACTIONS(p) = ApplyActions(action(a), u)
  BY <1>6, <1>9, <1>10 DEF ApplyActions
<1>12. ASSUME NEW b PROVE [p EXCEPT !.action[1] = b] = ApplyActions(b, u)
  <2>1. [s EXCEPT ![1] = b] = <<b, u>>
    BY <1>1
  <2>2. [p EXCEPT !.action[1] = b] = [p EXCEPT !.action = [s EXCEPT ![1] = b]]
    BY <1>8
  <2>3. [p EXCEPT !.action = [s EXCEPT ![1] = b]] = [action_num |-> <<1>>, action |-> [s EXCEPT ![1] = b]]
    BY <1>8
  <2> QED
    BY <2>1, <2>2, <2>3 DEF ApplyActions
<1> QED
  BY <1>7, <1>11, <1>12

LEMMA StructuredTypes ==
    \A t \in (1..11) \ {3, 4, 5} : t \in Uint16 /\ t # 4 /\ t \in Instructions
  BY DEF Uint16, Instructions

\* An instruction of the controller becomes what it means, and comes back as
\* it was, if its type is known.
LEMMA InstructionBothWays ==
    ASSUME NEW x \in InstructionWires
    PROVE  /\ instruction_NtoH(x) = MeantInstruction(x)
           /\ TypeOf(x) \in Instructions => instruction_HtoN(instruction_NtoH(x)) = x
           /\ TypeOf(x) \notin Instructions => instruction_HtoN(instruction_NtoH(x)).data = x.data
<1>1. PICK n \in Uint16 : n = InstructionLen
  BY DEF InstructionLen, Uint16
<1>2. ASSUME NEW t \in Uint16, NEW d, NEW e, x = Item(t, n, d),
             instruction_data(t, d) = e, instruction_data(t, e) = d,
             e = IF t = 4 THEN [d EXCEPT !.action[1] = MeantAction(@)]
                 ELSE IF t \in DOMAIN InstructionStructure THEN Meant(InstructionStructure[t], d)
                 ELSE d,
             t \notin Instructions => e = d
      PROVE  /\ instruction_NtoH(x) = MeantInstruction(x)
             /\ TypeOf(x) \in Instructions => instruction_HtoN(instruction_NtoH(x)) = x
             /\ TypeOf(x) \notin Instructions => instruction_HtoN(instruction_NtoH(x)).data = x.data
  <2>1. instruction_NtoH(x) = HostItem(t, n, e)
    BY <1>2, InstructionConverted
  <2>2. x.data = d
    BY <1>2 DEF Item
  <2>3. TypeOf(x) = t /\ MeantItem(x, e) = HostItem(t, n, e)
    BY <1>2, ItemMeant
  <2>4. MeantInstruction(x) = MeantItem(x, e)
    BY <1>2, <2>2, <2>3 DEF MeantInstruction
  <2>5. /\ t \in Instructions => instruction_HtoN(HostItem(t, n, e)) = Item(t, n, d)
        /\ t \notin Instructions => instruction_HtoN(HostItem(t, n, e)) = HostItem(t, n, e)
    BY <1>2, InstructionConverted
  <2>6. HostItem(t, n, e).data = e
    BY HostFields
  <2> QED
    BY <1>2, <2>1, <2>2, <2>3, <2>4, <2>5, <2>6
<1>3. DOMAIN InstructionStructure = (1..11) \ {3, 4, 5}
  BY DEF InstructionStructure
<1>4. ASSUME NEW t \in DOMAIN InstructionStructure, NEW d \in Filled(InstructionStructure[t]),
             x = Item(t, n, d)
      PROVE  /\ instruction_NtoH(x) = MeantInstruction(x)
             /\ TypeOf(x) \in Instructions => instruction_HtoN(instruction_NtoH(x)) = x
             /\ TypeOf(x) \notin Instructions => instruction_HtoN(instruction_NtoH(x)).data = x.data
  <2>1. PICK s : s = InstructionStructure[t]
    OBVIOUS
  <2>2. IsStruct(s)
    BY <1>3, <2>1, InstructionStructs
  <2>3. Fits(d, s)
    BY <2>1, <2>2, FilledFits
  <2>4. PICK e : e = Meant(s, d)
    OBVIOUS
  <2>5. Fits(e, s) /\ Meant(s, e) = d
    BY <2>2, <2>3, <2>4, MeantTwice
  <2>6. instruction_data(t, d) = e /\ instruction_data(t, e) = d
    BY <1>3, <2>1, <2>3, <2>4, <2>5, InstructionDataMeant
  <2>7. t \in Uint16 /\ t # 4 /\ t \in Instructions
    BY <1>3, StructuredTypes, Zenon
  <2> QED
    BY <1>2, <1>4, <2>1, <2>4, <2>6, <2>7
<1>5. ASSUME NEW a \in ActionWires, NEW u, x = Item(4, n, ApplyActions(a, u))
      PROVE  /\ instruction_NtoH(x) = MeantInstruction(x)
             /\ TypeOf(x) \in Instructions => instruction_HtoN(instruction_NtoH(x)) = x
             /\ TypeOf(x) \notin Instructions => instruction_HtoN(instruction_NtoH(x)).data = x.data
  <2>1. PICK d : d = ApplyActions(a, u)
    OBVIOUS
  <2>2. PICK e : e = ApplyActions(MeantAction(a), u)
    OBVIOUS
  <2>3. action(a) = MeantAction(a) /\ action(MeantAction(a)) = a
    BY ActionBothWays
  <2>4. \A p : instruction_data(4, p) = instruction_APPLY_ACTIONS(p)
    BY DEF instruction_data
  <2>5. instruction_data(4, d) = e /\ instruction_data(4, e) = d
    BY <2>1, <2>2, <2>3, <2>4, ApplyConverted
  <2>6. d.action[1] = a
    BY <2>1 DEF ApplyActions
  <2>7. [d EXCEPT !.action[1] = MeantAction(@)] = [d EXCEPT !.action[1] = MeantAction(a)]
    BY <2>6
  <2>8. [d EXCEPT !.action[1] = MeantAction(@)] = e
    BY <2>1, <2>2, <2>7, ApplyConverted
  <2>9. 4 \in Uint16 /\ 4 \in Instructions
    BY DEF Uint16, Instructions
  <2> QED
    BY <1>2, <1>5, <2>1, <2>5, <2>8, <2>9
<1>6. ASSUME NEW t \in Unsupported \cup {UnknownInstruction}, NEW d, x = Item(t, n, d)
      PROVE  /\ instruction_NtoH(x) = MeantInstruction(x)
             /\ TypeOf(x) \in Instructions => instruction_HtoN(instruction_NtoH(x)) = x
             /\ TypeOf(x) \notin Instructions => instruction_HtoN(instruction_NtoH(x)).data = x.data
  <2>1. t = 3 \/ t = 5 \/ t = 65535 \/ t = 12
    BY DEF Unsupported, UnknownInstruction
  <2>2. t \in Uint16 /\ t # 4 /\ t \notin DOMAIN InstructionStructure
    <3>1. t \in Int /\ 0 <= t /\ t <= 65535 /\ t # 4
      BY <2>1
    <3>2. t \notin (1..11) \ {3, 4, 5}
      BY <2>1
    <3> QED
      BY <1>3, <3>1, <3>2 DEF Uint16
  <2>3. instruction_data(t, d) = d
    BY <2>1 DEF instruction_data
  <2> QED
    BY <1>2, <1>6, <2>2, <2>3
<1>7. CASE x \in StructuredWires
  <2>1. PICK t \in DOMAIN InstructionStructure :
            x \in {Item(t, InstructionLen, d) : d \in Filled(InstructionStructure[t])}
    BY <1>7 DEF StructuredWires
  <2> QED
    BY <1>1, <1>4, <2>1
<1>8. CASE x \in ApplyWires
  <2>1. PICK a \in ActionWires, u \in Unused : x = Item(4, InstructionLen, ApplyActions(a, u))
    BY <1>8 DEF ApplyWires
  <2> QED
    BY <1>1, <1>5, <2>1
<1>9. CASE x \in RawWires
  <2>1. PICK t \in Unsupported \cup {UnknownInstruction}, c \in Contents :
            x = Item(t, InstructionLen, [raw |-> c])
    BY <1>9 DEF RawWires
  <2>2. PICK d : d = [raw |-> c]
    OBVIOUS
  <2>3. x = Item(t, n, d)
    BY <1>1, <2>1, <2>2
  <2> QED
    BY <1>6, <2>3
<1> QED
  BY <1>7, <1>8, <1>9, Zenon DEF InstructionWires
-----------------------------------------------------------------------------
(* Whole messages.                                                         *)

LEMMA PairOf ==
    ASSUME NEW r, DOMAIN r = 1..2, r = [i \in DOMAIN r |-> r[i]]
    PROVE  r = <<r[1], r[2]>>
  OBVIOUS

LEMMA TransferBody ==
    ASSUME NEW b, NEW fields
    PROVE  Body([body |-> b], fields) = [body |-> NTOH(b, fields)]
  BY DEF Body

\* The body, and the elements of the array that the message uses.
LEMMA TransferTable ==
    ASSUME NEW b, NEW x, NEW y
    PROVE  pof_NtoH_transfer_flow_table([body |-> b, match |-> <<x, y>>]) =
             [body |-> NTOH(b, {"size", "key_len", "slotID"}),
              match |-> <<match(x), match(y)>>]
<1>1. PICK s : s = <<x, y>>
  OBVIOUS
<1>2. DOMAIN s = 1..2 /\ s[1] = x /\ s[2] = y /\ Len(s) = 2
  BY <1>1
<1>3. PICK r : r = [i \in 1..2 |-> IF i <= 2 THEN match(s[i]) ELSE s[i]]
  OBVIOUS
<1>4. r = <<match(x), match(y)>>
  <2>1. 1 \in 1..2 /\ 2 \in 1..2 /\ 1 <= 2 /\ 2 <= 2
    OBVIOUS
  <2>2. r[1] = match(x) /\ r[2] = match(y)
    BY <1>2, <1>3, <2>1
  <2>3. DOMAIN r = 1..2 /\ r = [i \in DOMAIN r |-> r[i]]
    BY <1>3
  <2>4. r = <<r[1], r[2]>>
    BY <2>3, PairOf
  <2> QED
    BY <2>2, <2>4
<1>5. PICK c : c = NTOH(b, {"size", "key_len", "slotID"})
  OBVIOUS
<1>6. PICK m : m = [body |-> b, match |-> s]
  OBVIOUS
<1>7. PICK q : q = Body(m, {"size", "key_len", "slotID"})
  OBVIOUS
<1>8. q = [body |-> c, match |-> s] /\ q.match = s /\ m.body = b
  BY <1>5, <1>6, <1>7 DEF Body
<1>9. pof_NtoH_transfer_flow_table(m) = [q EXCEPT !.match = r]
  BY <1>2, <1>3, <1>7, <1>8 DEF pof_NtoH_transfer_flow_table, First
<1>10. [q EXCEPT !.match = r] = [body |-> c, match |-> r]
  BY <1>8
<1> QED
  BY <1>1, <1>4, <1>5, <1>6, <1>9, <1>10

LEMMA TransferGroup ==
    ASSUME NEW b, NEW x, NEW y
    PROVE  pof_NtoH_transfer_group([body |-> b, action |-> <<x, y>>]) =
             [body |-> NTOH(b, {"group_id", "counter_id", "slotID"}),
              action |-> <<action(x), action(y)>>]
<1>1. PICK s : s = <<x, y>>
  OBVIOUS
<1>2. DOMAIN s = 1..2 /\ s[1] = x /\ s[2] = y /\ Len(s) = 2
  BY <1>1
<1>3. PICK r : r = [i \in 1..2 |-> IF i <= 2 THEN action(s[i]) ELSE s[i]]
  OBVIOUS
<1>4. r = <<action(x), action(y)>>
  <2>1. 1 \in 1..2 /\ 2 \in 1..2 /\ 1 <= 2 /\ 2 <= 2
    OBVIOUS
  <2>2. r[1] = action(x) /\ r[2] = action(y)
    BY <1>2, <1>3, <2>1
  <2>3. DOMAIN r = 1..2 /\ r = [i \in DOMAIN r |-> r[i]]
    BY <1>3
  <2>4. r = <<r[1], r[2]>>
    BY <2>3, PairOf
  <2> QED
    BY <2>2, <2>4
<1>5. PICK c : c = NTOH(b, {"group_id", "counter_id", "slotID"})
  OBVIOUS
<1>6. PICK m : m = [body |-> b, action |-> s]
  OBVIOUS
<1>7. PICK q : q = Body(m, {"group_id", "counter_id", "slotID"})
  OBVIOUS
<1>8. q = [body |-> c, action |-> s] /\ q.action = s /\ m.body = b
  BY <1>5, <1>6, <1>7 DEF Body
<1>9. pof_NtoH_transfer_group(m) = [q EXCEPT !.action = r]
  BY <1>2, <1>3, <1>7, <1>8 DEF pof_NtoH_transfer_group, actions
<1>10. [q EXCEPT !.action = r] = [body |-> c, action |-> r]
  BY <1>8
<1> QED
  BY <1>1, <1>4, <1>5, <1>6, <1>9, <1>10

LEMMA TransferPacketOut ==
    ASSUME NEW b, NEW x, NEW y, b.actionNum[1] = 1
    PROVE  pof_NtoH_transfer_packet_out([body |-> b, action |-> <<x, y>>]) =
             [body |-> NTOH(b, {"bufferId", "inPort", "packetLen"}),
              action |-> <<action(x), y>>]
<1>1. PICK s : s = <<x, y>>
  OBVIOUS
<1>2. DOMAIN s = 1..2 /\ s[1] = x /\ s[2] = y /\ Len(s) = 2
  BY <1>1
<1>3. PICK r : r = [i \in 1..2 |-> IF i <= 1 THEN action(s[i]) ELSE s[i]]
  OBVIOUS
<1>4. r = <<action(x), y>>
  <2>1. 1 \in 1..2 /\ 2 \in 1..2 /\ 1 <= 1 /\ ~(2 <= 1)
    OBVIOUS
  <2>2. r[1] = action(x) /\ r[2] = y
    BY <1>2, <1>3, <2>1
  <2>3. DOMAIN r = 1..2 /\ r = [i \in DOMAIN r |-> r[i]]
    BY <1>3
  <2>4. r = <<r[1], r[2]>>
    BY <2>3, PairOf
  <2> QED
    BY <2>2, <2>4
<1>5. PICK c : c = NTOH(b, {"bufferId", "inPort", "packetLen"})
  OBVIOUS
<1>6. PICK m : m = [body |-> b, action |-> s]
  OBVIOUS
<1>7. PICK q : q = Body(m, {"bufferId", "inPort", "packetLen"})
  OBVIOUS
<1>8. q = [body |-> c, action |-> s] /\ q.action = s /\ m.body = b
  BY <1>5, <1>6, <1>7 DEF Body
<1>9. pof_NtoH_transfer_packet_out(m) = [q EXCEPT !.action = r]
  BY <1>2, <1>3, <1>7, <1>8 DEF pof_NtoH_transfer_packet_out, actions
<1>10. [q EXCEPT !.action = r] = [body |-> c, action |-> r]
  BY <1>8
<1> QED
  BY <1>1, <1>4, <1>5, <1>6, <1>9, <1>10

LEMMA TransferResource ==
    ASSUME NEW b, NEW x, NEW y
    PROVE  pof_HtoN_transfer_flow_table_resource([body |-> b, tbl_rsc_desc |-> <<x, y>>]) =
             [body |-> NTOH(b, {"slotID", "counter_num", "meter_num", "group_num"}),
              tbl_rsc_desc |-> <<pof_HtoN_transfer_table_resource_desc(x), pof_HtoN_transfer_table_resource_desc(y)>>]
<1>1. PICK s : s = <<x, y>>
  OBVIOUS
<1>2. DOMAIN s = 1..2 /\ s[1] = x /\ s[2] = y /\ Len(s) = 2
  BY <1>1
<1>3. PICK r : r = [i \in 1..2 |-> IF i <= 2 THEN pof_HtoN_transfer_table_resource_desc(s[i]) ELSE s[i]]
  OBVIOUS
<1>4. r = <<pof_HtoN_transfer_table_resource_desc(x), pof_HtoN_transfer_table_resource_desc(y)>>
  <2>1. 1 \in 1..2 /\ 2 \in 1..2 /\ 1 <= 2 /\ 2 <= 2
    OBVIOUS
  <2>2. r[1] = pof_HtoN_transfer_table_resource_desc(x) /\ r[2] = pof_HtoN_transfer_table_resource_desc(y)
    BY <1>2, <1>3, <2>1
  <2>3. DOMAIN r = 1..2 /\ r = [i \in DOMAIN r |-> r[i]]
    BY <1>3
  <2>4. r = <<r[1], r[2]>>
    BY <2>3, PairOf
  <2> QED
    BY <2>2, <2>4
<1>5. PICK c : c = NTOH(b, {"slotID", "counter_num", "meter_num", "group_num"})
  OBVIOUS
<1>6. PICK m : m = [body |-> b, tbl_rsc_desc |-> s]
  OBVIOUS
<1>7. PICK q : q = Body(m, {"slotID", "counter_num", "meter_num", "group_num"})
  OBVIOUS
<1>8. q = [body |-> c, tbl_rsc_desc |-> s] /\ q.tbl_rsc_desc = s /\ m.body = b
  BY <1>5, <1>6, <1>7 DEF Body
<1>9. pof_HtoN_transfer_flow_table_resource(m) = [q EXCEPT !.tbl_rsc_desc = r]
  BY <1>2, <1>3, <1>7, <1>8 DEF pof_HtoN_transfer_flow_table_resource, First
<1>10. [q EXCEPT !.tbl_rsc_desc = r] = [body |-> c, tbl_rsc_desc |-> r]
  BY <1>8
<1> QED
  BY <1>1, <1>4, <1>5, <1>6, <1>9, <1>10

LEMMA TransferEntryNtoH ==
    ASSUME NEW b, NEW x, NEW y, NEW i1, NEW i2,
           b.match_field_num[1] = 1, b.instruction_num[1] = 1
    PROVE  pof_NtoH_transfer_flow_entry([body |-> b, match |-> <<x, y>>, instruction |-> <<i1, i2>>]) =
             [body |-> NTOH(b, EntryFields),
              match |-> <<match_x(x), y>>, instruction |-> <<instruction_NtoH(i1), i2>>]
<1>1. PICK s : s = <<x, y>>
  OBVIOUS
<1>2. DOMAIN s = 1..2 /\ s[1] = x /\ s[2] = y /\ Len(s) = 2
  BY <1>1
<1>3. PICK r : r = [i \in 1..2 |-> IF i <= 1 THEN match_x(s[i]) ELSE s[i]]
  OBVIOUS
<1>4. r = <<match_x(x), y>>
  <2>1. 1 \in 1..2 /\ 2 \in 1..2 /\ 1 <= 1 /\ ~(2 <= 1)
    OBVIOUS
  <2>2. r[1] = match_x(x) /\ r[2] = y
    BY <1>2, <1>3, <2>1
  <2>3. DOMAIN r = 1..2 /\ r = [i \in DOMAIN r |-> r[i]]
    BY <1>3
  <2>4. r = <<r[1], r[2]>>
    BY <2>3, PairOf
  <2> QED
    BY <2>2, <2>4
<1>5. PICK u : u = <<i1, i2>>
  OBVIOUS
<1>6. DOMAIN u = 1..2 /\ u[1] = i1 /\ u[2] = i2 /\ Len(u) = 2
  BY <1>5
<1>7. PICK v : v = [i \in 1..2 |-> IF i <= 1 THEN instruction_NtoH(u[i]) ELSE u[i]]
  OBVIOUS
<1>8. v = <<instruction_NtoH(i1), i2>>
  <2>1. 1 \in 1..2 /\ 2 \in 1..2 /\ 1 <= 1 /\ ~(2 <= 1)
    OBVIOUS
  <2>2. v[1] = instruction_NtoH(i1) /\ v[2] = i2
    BY <1>6, <1>7, <2>1
  <2>3. DOMAIN v = 1..2 /\ v = [i \in DOMAIN v |-> v[i]]
    BY <1>7
  <2>4. v = <<v[1], v[2]>>
    BY <2>3, PairOf
  <2> QED
    BY <2>2, <2>4
<1>9. PICK c : c = NTOH(b, EntryFields)
  OBVIOUS
<1>10. PICK m : m = [body |-> b, match |-> s, instruction |-> u]
  OBVIOUS
<1>11. PICK q : q = Body(m, EntryFields)
  OBVIOUS
<1>12. /\ q = [body |-> c, match |-> s, instruction |-> u]
       /\ q.match = s /\ q.instruction = u /\ m.body = b
  BY <1>9, <1>10, <1>11 DEF Body
<1>13. PICK z : z = [q EXCEPT !.match = r]
  OBVIOUS
<1>14. z = [body |-> c, match |-> r, instruction |-> u]
  BY <1>12, <1>13
<1>15. pof_NtoH_transfer_flow_entry(m) = [z EXCEPT !.instruction = v]
  BY <1>2, <1>3, <1>6, <1>7, <1>11, <1>12, <1>13 DEF pof_NtoH_transfer_flow_entry, First
<1>16. pof_NtoH_transfer_flow_entry(m) = [body |-> c, match |-> r, instruction |-> v]
  BY <1>14, <1>15
<1> QED
  BY <1>1, <1>4, <1>5, <1>8, <1>9, <1>10, <1>16, Zenon

LEMMA TransferEntryHtoN ==
    ASSUME NEW b, NEW x, NEW y, NEW i1, NEW i2,
           b.match_field_num[1] = 1, b.instruction_num[1] = 1
    PROVE  pof_HtoN_transfer_flow_entry([body |-> b, match |-> <<x, y>>, instruction |-> <<i1, i2>>]) =
             [body |-> NTOH(b, EntryFields),
              match |-> <<match_x(x), y>>, instruction |-> <<instruction_HtoN(i1), i2>>]
<1>1. PICK s : s = <<x, y>>
  OBVIOUS
<1>2. DOMAIN s = 1..2 /\ s[1] = x /\ s[2] = y /\ Len(s) = 2
  BY <1>1
<1>3. PICK r : r = [i \in 1..2 |-> IF i <= 1 THEN match_x(s[i]) ELSE s[i]]
  OBVIOUS
<1>4. r = <<match_x(x), y>>
  <2>1. 1 \in 1..2 /\ 2 \in 1..2 /\ 1 <= 1 /\ ~(2 <= 1)
    OBVIOUS
  <2>2. r[1] = match_x(x) /\ r[2] = y
    BY <1>2, <1>3, <2>1
  <2>3. DOMAIN r = 1..2 /\ r = [i \in DOMAIN r |-> r[i]]
    BY <1>3
  <2>4. r = <<r[1], r[2]>>
    BY <2>3, PairOf
  <2> QED
    BY <2>2, <2>4
<1>5. PICK u : u = <<i1, i2>>
  OBVIOUS
<1>6. DOMAIN u = 1..2 /\ u[1] = i1 /\ u[2] = i2 /\ Len(u) = 2
  BY <1>5
<1>7. PICK v : v = [i \in 1..2 |-> IF i <= 1 THEN instruction_HtoN(u[i]) ELSE u[i]]
  OBVIOUS
<1>8. v = <<instruction_HtoN(i1), i2>>
  <2>1. 1 \in 1..2 /\ 2 \in 1..2 /\ 1 <= 1 /\ ~(2 <= 1)
    OBVIOUS
  <2>2. v[1] = instruction_HtoN(i1) /\ v[2] = i2
    BY <1>6, <1>7, <2>1
  <2>3. DOMAIN v = 1..2 /\ v = [i \in DOMAIN v |-> v[i]]
    BY <1>7
  <2>4. v = <<v[1], v[2]>>
    BY <2>3, PairOf
  <2> QED
    BY <2>2, <2>4
<1>9. PICK c : c = NTOH(b, EntryFields)
  OBVIOUS
<1>10. PICK m : m = [body |-> b, match |-> s, instruction |-> u]
  OBVIOUS
<1>11. PICK q : q = Body(m, EntryFields)
  OBVIOUS
<1>12. /\ q = [body |-> c, match |-> s, instruction |-> u]
       /\ q.match = s /\ q.instruction = u /\ m.body = b
  BY <1>9, <1>10, <1>11 DEF Body
<1>13. PICK z : z = [q EXCEPT !.match = r]
  OBVIOUS
<1>14. z = [body |-> c, match |-> r, instruction |-> u]
  BY <1>12, <1>13
<1>15. pof_HtoN_transfer_flow_entry(m) = [z EXCEPT !.instruction = v]
  BY <1>2, <1>3, <1>6, <1>7, <1>11, <1>12, <1>13 DEF pof_HtoN_transfer_flow_entry, First
<1>16. pof_HtoN_transfer_flow_entry(m) = [body |-> c, match |-> r, instruction |-> v]
  BY <1>14, <1>15
<1> QED
  BY <1>1, <1>4, <1>5, <1>8, <1>9, <1>10, <1>16, Zenon

-----------------------------------------------------------------------------
(* Whole messages.                                                         *)

LEMMA OnesOne ==
    ASSUME NEW struct, NEW b \in Ones(struct), NEW f \in DOMAIN struct, struct[f].size = 1
    PROVE  b[f] = <<1>>
<1>1. PICK c \in [DOMAIN struct -> Contents] :
         b = Fill(struct, [g \in BytesOf(struct) |-> 1], c)
  BY DEF Ones
<1>2. f \in BytesOf(struct)
  BY DEF BytesOf
<1> QED
  BY <1>1, <1>2 DEF Fill

\* The fields that a body is converted by.
LEMMA BodyMeant ==
    ASSUME NEW struct, NEW fields, Covers(struct, fields), NEW b \in Ones(struct)
    PROVE  NTOH(b, fields) = Meant(struct, b) /\ Fits(b, struct)
<1>1. IsStruct(struct)
  BY CoveredStruct
<1>2. Fits(b, struct)
  BY <1>1, FilledFits
<1> QED
  BY <1>2, NtohMeant

\* A field of a body that the answer has from the converted message.
LEMMA FieldBack ==
    ASSUME NEW struct, NEW fields, Covers(struct, fields), NEW b \in Ones(struct),
           NEW q, NEW f \in DOMAIN struct, f \in DOMAIN q, q[f] = NTOH(b, fields)[f]
    PROVE  NTOH(q, fields)[f] = b[f]
<1>1. Fits(b, struct)
  BY BodyMeant
<1>2. b[f] \in Field(struct[f].size, Byte) /\ struct[f] \in Plain /\ f \in DOMAIN b
  BY <1>1 DEF Fits, Covers
<1>3. Reverse(Reverse(b[f])) = b[f]
  BY <1>2, PlainTypes, ReverseField
<1>4. NTOH(b, fields)[f] = IF f \in fields THEN Reverse(b[f]) ELSE b[f]
  BY <1>2 DEF NTOH
<1>5. NTOH(q, fields)[f] = IF f \in fields THEN Reverse(q[f]) ELSE q[f]
  BY DEF NTOH
<1> QED
  BY <1>3, <1>4, <1>5

\* The structure of each kind of message.
LEMMA Structures ==
    /\ Structure["table"] = pof_flow_table
    /\ Structure["entry"] = pof_flow_entry
    /\ Structure["group"] = pof_group
    /\ Structure["meter"] = pof_meter
    /\ Structure["counter"] = pof_counter
    /\ Structure["port"] = pof_port
    /\ Structure["packet_out"] = pof_packet_out
    /\ Structure["config"] = pof_switch_config
    /\ Structure["queryall"] = pof_queryall_request
    /\ Structure["header"] = pof_header
    /\ Structure["features"] = pof_switch_features
    /\ Structure["resource"] = pof_flow_table_resource
    /\ Structure["packet_in"] = pof_packet_in
    /\ Structure["error"] = pof_error
  BY DEF Structure

LEMMA Kinds ==
    /\ Messages("table") = [body : Ones(pof_flow_table), match : Contents \X Contents]
    /\ Messages("entry") = [body : Ones(pof_flow_entry), match : MatchX \X MatchX, instruction : InstructionWires \X UnusedInstruction]
    /\ Messages("group") = [body : Ones(pof_group), action : ActionWires \X {NoAction}]
    /\ Messages("meter") = [body : Ones(pof_meter)]
    /\ Messages("counter") = [body : Ones(pof_counter)]
    /\ Messages("port") = [body : Ones(pof_port)]
    /\ Messages("packet_out") = [body : Ones(pof_packet_out), action : ActionWires \X Unused]
    /\ Messages("config") = [body : Ones(pof_switch_config)]
    /\ Messages("queryall") = [body : Ones(pof_queryall_request)]
    /\ Messages("header") = [body : Ones(pof_header)]
    /\ Messages("features") = [body : Ones(pof_switch_features)]
    /\ Messages("resource") = [body : Ones(pof_flow_table_resource), tbl_rsc_desc : Desc \X Desc]
    /\ Messages("packet_in") = [body : Ones(pof_packet_in)]
    /\ Messages("error") = [body : Ones(pof_error)]
<1>1. Messages("table") = [body : Ones(pof_flow_table), match : Contents \X Contents]
  BY Structures DEF Messages
<1>2. Messages("entry") = [body : Ones(pof_flow_entry), match : MatchX \X MatchX, instruction : InstructionWires \X UnusedInstruction]
  BY Structures DEF Messages
<1>3. Messages("group") = [body : Ones(pof_group), action : ActionWires \X {NoAction}]
  BY Structures DEF Messages
<1>4. Messages("meter") = [body : Ones(pof_meter)]
  BY Structures DEF Messages
<1>5. Messages("counter") = [body : Ones(pof_counter)]
  BY Structures DEF Messages
<1>6. Messages("port") = [body : Ones(pof_port)]
  BY Structures DEF Messages
<1>7. Messages("packet_out") = [body : Ones(pof_packet_out), action : ActionWires \X Unused]
  BY Structures DEF Messages
<1>8. Messages("config") = [body : Ones(pof_switch_config)]
  BY Structures DEF Messages
<1>9. Messages("queryall") = [body : Ones(pof_queryall_request)]
  BY Structures DEF Messages
<1>10. Messages("header") = [body : Ones(pof_header)]
  BY Structures DEF Messages
<1>11. Messages("features") = [body : Ones(pof_switch_features)]
  BY Structures DEF Messages
<1>12. Messages("resource") = [body : Ones(pof_flow_table_resource), tbl_rsc_desc : Desc \X Desc]
  BY Structures DEF Messages
<1>13. Messages("packet_in") = [body : Ones(pof_packet_in)]
  BY Structures DEF Messages
<1>14. Messages("error") = [body : Ones(pof_error)]
  BY Structures DEF Messages
<1> QED
  BY <1>1, <1>2, <1>3, <1>4, <1>5, <1>6, <1>7, <1>8, <1>9, <1>10, <1>11, <1>12, <1>13, <1>14

\* The parts of a message with arrays.
LEMMA TableParts ==
    ASSUME NEW m \in Messages("table")
    PROVE  \E b \in Ones(pof_flow_table), x \in Contents, y \in Contents :
              m = [body |-> b, match |-> <<x, y>>]
<1>1. m \in [body : Ones(pof_flow_table), match : Contents \X Contents]
  BY Kinds
<1>2. PICK b, s : b \in Ones(pof_flow_table) /\ s \in Contents \X Contents /\ m = [body |-> b, match |-> s]
  BY <1>1
<1>3. PICK x \in Contents, y \in Contents : s = <<x, y>>
  BY <1>2
<1> QED
  BY <1>2, <1>3, Zenon

LEMMA GroupParts ==
    ASSUME NEW m \in Messages("group")
    PROVE  \E b \in Ones(pof_group), x \in ActionWires :
              m = [body |-> b, action |-> <<x, NoAction>>]
<1>1. m \in [body : Ones(pof_group), action : ActionWires \X {NoAction}]
  BY Kinds
<1>2. PICK b, s : b \in Ones(pof_group) /\ s \in ActionWires \X {NoAction} /\ m = [body |-> b, action |-> s]
  BY <1>1
<1>3. PICK x \in ActionWires : s = <<x, NoAction>>
  BY <1>2
<1> QED
  BY <1>2, <1>3, Zenon

LEMMA PacketOutParts ==
    ASSUME NEW m \in Messages("packet_out")
    PROVE  \E b \in Ones(pof_packet_out), x \in ActionWires, y \in Unused :
              m = [body |-> b, action |-> <<x, y>>]
<1>1. m \in [body : Ones(pof_packet_out), action : ActionWires \X Unused]
  BY Kinds
<1>2. PICK b, s : b \in Ones(pof_packet_out) /\ s \in ActionWires \X Unused /\ m = [body |-> b, action |-> s]
  BY <1>1
<1>3. PICK x \in ActionWires, y \in Unused : s = <<x, y>>
  BY <1>2
<1> QED
  BY <1>2, <1>3, Zenon

LEMMA ResourceParts ==
    ASSUME NEW m \in Messages("resource")
    PROVE  \E b \in Ones(pof_flow_table_resource), x \in Desc, y \in Desc :
              m = [body |-> b, tbl_rsc_desc |-> <<x, y>>]
<1>1. m \in [body : Ones(pof_flow_table_resource), tbl_rsc_desc : Desc \X Desc]
  BY Kinds
<1>2. PICK b, s : b \in Ones(pof_flow_table_resource) /\ s \in Desc \X Desc /\ m = [body |-> b, tbl_rsc_desc |-> s]
  BY <1>1
<1>3. PICK x \in Desc, y \in Desc : s = <<x, y>>
  BY <1>2
<1> QED
  BY <1>2, <1>3, Zenon

LEMMA EntryParts ==
    ASSUME NEW m \in Messages("entry")
    PROVE  \E b \in Ones(pof_flow_entry), x \in MatchX, y \in MatchX,
              i \in InstructionWires, j \in UnusedInstruction :
              m = [body |-> b, match |-> <<x, y>>, instruction |-> <<i, j>>]
<1>0. m \in [body : Ones(pof_flow_entry), match : MatchX \X MatchX,
              instruction : InstructionWires \X UnusedInstruction]
  BY Kinds
<1>1. PICK b, s, u : /\ b \in Ones(pof_flow_entry) /\ s \in MatchX \X MatchX
                     /\ u \in InstructionWires \X UnusedInstruction
                     /\ m = [body |-> b, match |-> s, instruction |-> u]
  BY <1>0
<1>2. PICK x \in MatchX, y \in MatchX : s = <<x, y>>
  BY <1>1
<1>3. PICK i \in InstructionWires, j \in UnusedInstruction : u = <<i, j>>
  BY <1>1
<1> QED
  BY <1>1, <1>2, <1>3, Zenon

\* The bytes of a match.
LEMMA ContentsFields == \A c \in Contents : c \in Field(8, Byte)
  BY MessagesAssumption DEF Field, Byte

LEMMA MatchXConverted ==
    ASSUME NEW c
    PROVE  match_x([match |-> c]) = [match |-> match(c)]
<1>1. PICK d : d = match(c)
  OBVIOUS
<1>2. PICK p : p = [match |-> c]
  OBVIOUS
<1>3. p.match = c
  BY <1>2
<1>4. match_x(p) = [p EXCEPT !.match = d]
  BY <1>1, <1>3 DEF match_x
<1>5. [p EXCEPT !.match = d] = [match |-> d]
  BY <1>2
<1> QED
  BY <1>1, <1>2, <1>4, <1>5

LEMMA MatchXMeant ==
    ASSUME NEW x \in MatchX
    PROVE  match_x(x) = Meant(pof_match_x, x) /\ match_x(match_x(x)) = x
<1>1. PICK c \in Contents : x = [match |-> c]
  BY DEF MatchX
<1>2. c \in Field(8, Byte)
  BY ContentsFields
<1>3. match_x(x) = [match |-> match(c)]
  BY <1>1, MatchXConverted
<1>4. match_x(match_x(x)) = [match |-> match(match(c))]
  BY <1>3, MatchXConverted
<1>5. match(match(c)) = c
  BY <1>2, MatchOrder
<1>6. Meant(pof_match_x, x) = [f \in {"match"} |-> OtherOrder(c, Numbers(Match, x))]
  BY <1>1 DEF Meant, pof_match_x
<1>7. OtherOrder(c, Numbers(Match, x)) = match(c)
  BY <1>2, MeantMatch
<1>8. Meant(pof_match_x, x) = [match |-> match(c)]
  BY <1>6, <1>7
<1> QED
  BY <1>1, <1>3, <1>4, <1>5, <1>8

\* The numbers of used elements.
LEMMA Used ==
    /\ \A b \in Ones(pof_flow_table) : b.match_field_num = <<1>>
    /\ \A b \in Ones(pof_flow_entry) : b.match_field_num = <<1>> /\ b.instruction_num = <<1>>
    /\ \A b \in Ones(pof_group) : b.action_number = <<1>>
    /\ \A b \in Ones(pof_packet_out) : b.actionNum = <<1>>
<1>1. \A b \in Ones(pof_flow_table) : b.match_field_num = <<1>>
  <2>1. "match_field_num" \in DOMAIN pof_flow_table /\ pof_flow_table["match_field_num"].size = 1
    BY DEF pof_flow_table, U8
  <2> QED
    BY <2>1, OnesOne
<1>2. \A b \in Ones(pof_flow_entry) : b.match_field_num = <<1>>
  <2>1. "match_field_num" \in DOMAIN pof_flow_entry /\ pof_flow_entry["match_field_num"].size = 1
    BY DEF pof_flow_entry, U8
  <2> QED
    BY <2>1, OnesOne
<1>3. \A b \in Ones(pof_flow_entry) : b.instruction_num = <<1>>
  <2>1. "instruction_num" \in DOMAIN pof_flow_entry /\ pof_flow_entry["instruction_num"].size = 1
    BY DEF pof_flow_entry, U8
  <2> QED
    BY <2>1, OnesOne
<1>4. \A b \in Ones(pof_group) : b.action_number = <<1>>
  <2>1. "action_number" \in DOMAIN pof_group /\ pof_group["action_number"].size = 1
    BY DEF pof_group, U8
  <2> QED
    BY <2>1, OnesOne
<1>5. \A b \in Ones(pof_packet_out) : b.actionNum = <<1>>
  <2>1. "actionNum" \in DOMAIN pof_packet_out /\ pof_packet_out["actionNum"].size = 1
    BY DEF pof_packet_out, U8
  <2> QED
    BY <2>1, OnesOne
<1> QED
  BY <1>1, <1>2, <1>3, <1>4, <1>5

\* What HostOrder says of a message m of kind k that has become h.
Understood(k, m, h) ==
    /\ h.body = Meant(Structure[k], m.body)
    /\ k = "table" => h.match[1] = OtherOrder(m.match[1], Numbers(Match, m.match))
    /\ k = "entry" =>
          /\ h.match[1] = Meant(pof_match_x, m.match[1])
          /\ h.instruction[1] = MeantInstruction(m.instruction[1])
    /\ k \in {"group", "packet_out"} => h.action[1] = MeantAction(m.action[1])

LEMMA ParseTable ==
    ASSUME NEW m \in Messages("table")
    PROVE  Understood("table", m, parse("table", m))
<1>1. PICK b \in Ones(pof_flow_table), x \in Contents, y \in Contents :
         m = [body |-> b, match |-> <<x, y>>]
  BY TableParts
<1>2. parse("table", m) = pof_NtoH_transfer_flow_table(m)
  BY DEF parse
<1>3. PICK c : c = NTOH(b, {"size", "key_len", "slotID"})
  OBVIOUS
<1>4. c = Meant(pof_flow_table, b)
  BY <1>3, Covered, BodyMeant
<1>5. parse("table", m) = [body |-> c, match |-> <<match(x), match(y)>>]
  BY <1>1, <1>2, <1>3, TransferTable
<1>6. m.match[1] = x /\ m.body = b
  BY <1>1
<1>7. parse("table", m).match[1] = match(x) /\ parse("table", m).body = c
  <2>1. PICK x1, y1 : x1 = match(x) /\ y1 = match(y)
    OBVIOUS
  <2>2. PICK h : h = parse("table", m)
    OBVIOUS
  <2>3. h = [body |-> c, match |-> <<x1, y1>>]
    BY <1>5, <2>1, <2>2, Zenon
  <2>4. h.match[1] = x1 /\ h.body = c
    BY <2>3
  <2> QED
    BY <2>1, <2>2, <2>4, Zenon
<1>8. match(x) = OtherOrder(x, Numbers(Match, m.match))
  BY ContentsFields, MeantMatch
<1> QED
  BY <1>4, <1>6, <1>7, <1>8, Structures DEF Understood

LEMMA ParseEntry ==
    ASSUME NEW m \in Messages("entry")
    PROVE  Understood("entry", m, parse("entry", m))
<1>1. PICK b \in Ones(pof_flow_entry), x \in MatchX, y \in MatchX,
           i \in InstructionWires, j \in UnusedInstruction :
         m = [body |-> b, match |-> <<x, y>>, instruction |-> <<i, j>>]
  BY EntryParts
<1>2. parse("entry", m) = pof_NtoH_transfer_flow_entry(m)
  BY DEF parse
<1>3. PICK c : c = NTOH(b, EntryFields)
  OBVIOUS
<1>4. c = Meant(pof_flow_entry, b)
  BY <1>3, Covered, BodyMeant
<1>5. b.match_field_num[1] = 1 /\ b.instruction_num[1] = 1
  BY Used
<1>6. parse("entry", m) = [body |-> c, match |-> <<match_x(x), y>>,
                           instruction |-> <<instruction_NtoH(i), j>>]
  BY <1>1, <1>2, <1>3, <1>5, TransferEntryNtoH
<1>7. m.match[1] = x /\ m.body = b /\ m.instruction[1] = i
  BY <1>1
<1>8. /\ parse("entry", m).match[1] = match_x(x) /\ parse("entry", m).body = c
      /\ parse("entry", m).instruction[1] = instruction_NtoH(i)
  BY <1>6
<1>9. match_x(x) = Meant(pof_match_x, x) /\ instruction_NtoH(i) = MeantInstruction(i)
  BY MatchXMeant, InstructionBothWays
<1> QED
  BY <1>4, <1>7, <1>8, <1>9, Structures DEF Understood

LEMMA ParseGroup ==
    ASSUME NEW m \in Messages("group")
    PROVE  Understood("group", m, parse("group", m))
<1>1. PICK b \in Ones(pof_group), x \in ActionWires :
         m = [body |-> b, action |-> <<x, NoAction>>]
  BY GroupParts
<1>2. parse("group", m) = pof_NtoH_transfer_group(m)
  BY DEF parse
<1>3. PICK c : c = NTOH(b, {"group_id", "counter_id", "slotID"})
  OBVIOUS
<1>4. c = Meant(pof_group, b)
  BY <1>3, Covered, BodyMeant
<1>5. parse("group", m) = [body |-> c, action |-> <<action(x), action(NoAction)>>]
  BY <1>1, <1>2, <1>3, TransferGroup
<1>6. m.action[1] = x /\ m.body = b
  BY <1>1
<1>7. parse("group", m).action[1] = action(x) /\ parse("group", m).body = c
  BY <1>5
<1>8. action(x) = MeantAction(x)
  BY ActionBothWays
<1> QED
  BY <1>4, <1>6, <1>7, <1>8, Structures DEF Understood

LEMMA ParsePacketOut ==
    ASSUME NEW m \in Messages("packet_out")
    PROVE  Understood("packet_out", m, parse("packet_out", m))
<1>1. PICK b \in Ones(pof_packet_out), x \in ActionWires, y \in Unused :
         m = [body |-> b, action |-> <<x, y>>]
  BY PacketOutParts
<1>2. parse("packet_out", m) = pof_NtoH_transfer_packet_out(m)
  BY DEF parse
<1>3. PICK c : c = NTOH(b, {"bufferId", "inPort", "packetLen"})
  OBVIOUS
<1>4. c = Meant(pof_packet_out, b)
  BY <1>3, Covered, BodyMeant
<1>5. b.actionNum[1] = 1
  BY Used
<1>6. parse("packet_out", m) = [body |-> c, action |-> <<action(x), y>>]
  BY <1>1, <1>2, <1>3, <1>5, TransferPacketOut
<1>7. m.action[1] = x /\ m.body = b
  BY <1>1
<1>8. parse("packet_out", m).action[1] = action(x) /\ parse("packet_out", m).body = c
  BY <1>6
<1>9. action(x) = MeantAction(x)
  BY ActionBothWays
<1> QED
  BY <1>4, <1>7, <1>8, <1>9, Structures DEF Understood

\* A message without arrays.
LEMMA ParseBody ==
    ASSUME NEW struct, NEW fields, Covers(struct, fields), NEW m \in [body : Ones(struct)]
    PROVE  Body(m, fields).body = Meant(struct, m.body)
<1>1. PICK b \in Ones(struct) : m = [body |-> b]
  OBVIOUS
<1>2. NTOH(b, fields) = Meant(struct, b)
  BY BodyMeant
<1>3. Body(m, fields) = [body |-> NTOH(b, fields)]
  BY <1>1, TransferBody
<1> QED
  BY <1>1, <1>2, <1>3

LEMMA ParseMeans ==
    ASSUME NEW k \in Incoming, NEW m \in Messages(k)
    PROVE  Understood(k, m, parse(k, m))
<1>1. CASE k = "table"
  BY <1>1, ParseTable
<1>2. CASE k = "entry"
  BY <1>2, ParseEntry
<1>3. CASE k = "group"
  BY <1>3, ParseGroup
<1>4. CASE k = "packet_out"
  BY <1>4, ParsePacketOut
<1>5. CASE k = "meter"
  <2>1. m \in [body : Ones(pof_meter)]
    BY <1>5, Kinds
  <2>2. Covers(pof_meter, {"slotID", "rate", "meter_id"})
    BY Covered
  <2>3. Body(m, {"slotID", "rate", "meter_id"}).body = Meant(pof_meter, m.body)
    BY <2>1, <2>2, ParseBody
  <2>4. parse(k, m) = Body(m, {"slotID", "rate", "meter_id"})
    BY <1>5 DEF parse, pof_NtoH_transfer_meter
  <2> QED
    BY <1>5, <2>3, <2>4, Structures DEF Understood
<1>6. CASE k = "counter"
  <2>1. m \in [body : Ones(pof_counter)]
    BY <1>6, Kinds
  <2>2. Covers(pof_counter, {"counter_id", "slotID", "value", "byte_value"})
    BY Covered
  <2>3. Body(m, {"counter_id", "slotID", "value", "byte_value"}).body = Meant(pof_counter, m.body)
    BY <2>1, <2>2, ParseBody
  <2>4. parse(k, m) = Body(m, {"counter_id", "slotID", "value", "byte_value"})
    BY <1>6 DEF parse, pof_NtoH_transfer_counter
  <2> QED
    BY <1>6, <2>3, <2>4, Structures DEF Understood
<1>7. CASE k = "port"
  <2>1. m \in [body : Ones(pof_port)]
    BY <1>7, Kinds
  <2>2. Covers(pof_port, PortNumbers)
    BY Covered
  <2>3. Body(m, PortNumbers).body = Meant(pof_port, m.body)
    BY <2>1, <2>2, ParseBody
  <2>4. parse(k, m) = Body(m, PortNumbers)
    BY <1>7 DEF parse, pof_NtoH_transfer_port
  <2> QED
    BY <1>7, <2>3, <2>4, Structures DEF Understood
<1>8. CASE k = "config"
  <2>1. m \in [body : Ones(pof_switch_config)]
    BY <1>8, Kinds
  <2>2. Covers(pof_switch_config, {"dev_id", "flags", "miss_send_len"})
    BY Covered
  <2>3. Body(m, {"dev_id", "flags", "miss_send_len"}).body = Meant(pof_switch_config, m.body)
    BY <2>1, <2>2, ParseBody
  <2>4. parse(k, m) = Body(m, {"dev_id", "flags", "miss_send_len"})
    BY <1>8 DEF parse, pof_HtoN_transfer_switch_config
  <2> QED
    BY <1>8, <2>3, <2>4, Structures DEF Understood
<1>9. CASE k = "queryall"
  <2>1. m \in [body : Ones(pof_queryall_request)]
    BY <1>9, Kinds
  <2>2. Covers(pof_queryall_request, {"slotID"})
    BY Covered
  <2>3. Body(m, {"slotID"}).body = Meant(pof_queryall_request, m.body)
    BY <2>1, <2>2, ParseBody
  <2>4. parse(k, m) = Body(m, {"slotID"})
    BY <1>9 DEF parse, pof_HtoN_transfer_queryall_request
  <2> QED
    BY <1>9, <2>3, <2>4, Structures DEF Understood
<1>10. CASE k = "header"
  <2>1. m \in [body : Ones(pof_header)]
    BY <1>10, Kinds
  <2>2. Covers(pof_header, {"length", "xid"})
    BY Covered
  <2>3. Body(m, {"length", "xid"}).body = Meant(pof_header, m.body)
    BY <2>1, <2>2, ParseBody
  <2>4. parse(k, m) = Body(m, {"length", "xid"})
    BY <1>10 DEF parse, pof_HtoN_transfer_header
  <2> QED
    BY <1>10, <2>3, <2>4, Structures DEF Understood
<1> QED
  BY <1>1, <1>2, <1>3, <1>4, <1>5, <1>6, <1>7, <1>8, <1>9, <1>10 DEF Incoming

\* What WireOrder says of a message m of kind k that leaves as r.
Sent(k, m, r) ==
    /\ r.body = Meant(Structure[k], m.body)
    /\ k = "resource" =>
          \A i \in DOMAIN m.tbl_rsc_desc :
             r.tbl_rsc_desc[i] = Meant(pof_table_resource_desc, m.tbl_rsc_desc[i])

LEMMA SendResource ==
    ASSUME NEW m \in Messages("resource")
    PROVE  Sent("resource", m, transfer("resource", m))
<1>1. PICK b \in Ones(pof_flow_table_resource), x \in Desc, y \in Desc :
         m = [body |-> b, tbl_rsc_desc |-> <<x, y>>]
  BY ResourceParts
<1>2. transfer("resource", m) = pof_HtoN_transfer_flow_table_resource(m)
  BY DEF transfer
<1>3. PICK c : c = NTOH(b, {"slotID", "counter_num", "meter_num", "group_num"})
  OBVIOUS
<1>4. c = Meant(pof_flow_table_resource, b)
  BY <1>3, Covered, BodyMeant
<1>5. transfer("resource", m) =
        [body |-> c, tbl_rsc_desc |-> <<pof_HtoN_transfer_table_resource_desc(x),
                                        pof_HtoN_transfer_table_resource_desc(y)>>]
  BY <1>1, <1>2, <1>3, TransferResource
<1>6. \A d \in Desc : pof_HtoN_transfer_table_resource_desc(d) = Meant(pof_table_resource_desc, d)
  <2> TAKE d \in Desc
  <2>1. d \in Ones(pof_table_resource_desc)
    BY DEF Desc
  <2>2. Covers(pof_table_resource_desc, {"device_id", "key_len", "total_size"})
    BY Covered
  <2>3. NTOH(d, {"device_id", "key_len", "total_size"}) = Meant(pof_table_resource_desc, d)
    BY <2>1, <2>2, BodyMeant
  <2> QED
    BY <2>3 DEF pof_HtoN_transfer_table_resource_desc
<1>7. /\ transfer("resource", m).body = c /\ m.body = b
      /\ m.tbl_rsc_desc = <<x, y>>
      /\ transfer("resource", m).tbl_rsc_desc =
           <<Meant(pof_table_resource_desc, x), Meant(pof_table_resource_desc, y)>>
  BY <1>1, <1>5, <1>6
<1>8. \A i \in DOMAIN m.tbl_rsc_desc : transfer("resource", m).tbl_rsc_desc[i] =
                                         Meant(pof_table_resource_desc, m.tbl_rsc_desc[i])
  BY <1>7
<1> QED
  BY <1>4, <1>7, <1>8, Structures DEF Sent

LEMMA SendMeans ==
    ASSUME NEW k \in Outgoing, NEW m \in Messages(k)
    PROVE  Sent(k, m, transfer(k, m))
<1>1. CASE k = "resource"
  BY <1>1, SendResource
<1>2. CASE k = "features"
  <2>1. m \in [body : Ones(pof_switch_features)]
    BY <1>2, Kinds
  <2>2. Covers(pof_switch_features, {"dev_id", "slotID", "port_num", "table_num", "capabilities"})
    BY Covered
  <2>3. Body(m, {"dev_id", "slotID", "port_num", "table_num", "capabilities"}).body = Meant(pof_switch_features, m.body)
    BY <2>1, <2>2, ParseBody
  <2>4. transfer(k, m) = Body(m, {"dev_id", "slotID", "port_num", "table_num", "capabilities"})
    BY <1>2 DEF transfer, pof_HtoN_transfer_switch_features
  <2> QED
    BY <1>2, <2>3, <2>4, Structures DEF Sent
<1>3. CASE k = "port"
  <2>1. m \in [body : Ones(pof_port)]
    BY <1>3, Kinds
  <2>2. Covers(pof_port, PortNumbers)
    BY Covered
  <2>3. Body(m, PortNumbers).body = Meant(pof_port, m.body)
    BY <2>1, <2>2, ParseBody
  <2>4. transfer(k, m) = Body(m, PortNumbers)
    BY <1>3 DEF transfer, pof_HtoN_transfer_port_status
  <2> QED
    BY <1>3, <2>3, <2>4, Structures DEF Sent
<1>4. CASE k = "packet_in"
  <2>1. m \in [body : Ones(pof_packet_in)]
    BY <1>4, Kinds
  <2>2. Covers(pof_packet_in, {"buffer_id", "total_len", "cookie", "device_id", "slotID", "port_id"})
    BY Covered
  <2>3. Body(m, {"buffer_id", "total_len", "cookie", "device_id", "slotID", "port_id"}).body = Meant(pof_packet_in, m.body)
    BY <2>1, <2>2, ParseBody
  <2>4. transfer(k, m) = Body(m, {"buffer_id", "total_len", "cookie", "device_id", "slotID", "port_id"})
    BY <1>4 DEF transfer, pof_NtoH_transfer_packet_in
  <2> QED
    BY <1>4, <2>3, <2>4, Structures DEF Sent
<1>5. CASE k = "error"
  <2>1. m \in [body : Ones(pof_error)]
    BY <1>5, Kinds
  <2>2. Covers(pof_error, {"slotID", "type", "code", "device_id"})
    BY Covered
  <2>3. Body(m, {"slotID", "type", "code", "device_id"}).body = Meant(pof_error, m.body)
    BY <2>1, <2>2, ParseBody
  <2>4. transfer(k, m) = Body(m, {"slotID", "type", "code", "device_id"})
    BY <1>5 DEF transfer, pof_NtoH_transfer_error
  <2> QED
    BY <1>5, <2>3, <2>4, Structures DEF Sent
<1>6. CASE k = "config"
  <2>1. m \in [body : Ones(pof_switch_config)]
    BY <1>6, Kinds
  <2>2. Covers(pof_switch_config, {"dev_id", "flags", "miss_send_len"})
    BY Covered
  <2>3. Body(m, {"dev_id", "flags", "miss_send_len"}).body = Meant(pof_switch_config, m.body)
    BY <2>1, <2>2, ParseBody
  <2>4. transfer(k, m) = Body(m, {"dev_id", "flags", "miss_send_len"})
    BY <1>6 DEF transfer, pof_HtoN_transfer_switch_config
  <2> QED
    BY <1>6, <2>3, <2>4, Structures DEF Sent
<1>7. CASE k = "counter"
  <2>1. m \in [body : Ones(pof_counter)]
    BY <1>7, Kinds
  <2>2. Covers(pof_counter, {"counter_id", "slotID", "value", "byte_value"})
    BY Covered
  <2>3. Body(m, {"counter_id", "slotID", "value", "byte_value"}).body = Meant(pof_counter, m.body)
    BY <2>1, <2>2, ParseBody
  <2>4. transfer(k, m) = Body(m, {"counter_id", "slotID", "value", "byte_value"})
    BY <1>7 DEF transfer, pof_NtoH_transfer_counter
  <2> QED
    BY <1>7, <2>3, <2>4, Structures DEF Sent
<1>8. CASE k = "header"
  <2>1. m \in [body : Ones(pof_header)]
    BY <1>8, Kinds
  <2>2. Covers(pof_header, {"length", "xid"})
    BY Covered
  <2>3. Body(m, {"length", "xid"}).body = Meant(pof_header, m.body)
    BY <2>1, <2>2, ParseBody
  <2>4. transfer(k, m) = Body(m, {"length", "xid"})
    BY <1>8 DEF transfer, pof_HtoN_transfer_header
  <2> QED
    BY <1>8, <2>3, <2>4, Structures DEF Sent
<1> QED
  BY <1>1, <1>2, <1>3, <1>4, <1>5, <1>6, <1>7, <1>8 DEF Outgoing

\* An answer has the body of the message apart from the command and the slot.
Answered(b, c) ==
    /\ DOMAIN c = DOMAIN b
    /\ \A f \in DOMAIN b : f \notin {"command", "slotID"} => c[f] = b[f]

LEMMA AnswerBody ==
    ASSUME NEW m, NEW v, m = [f \in DOMAIN m |-> m[f]], "body" \in DOMAIN m
    PROVE  \E c : Answer(m, v) = [m EXCEPT !.body = c] /\ Answered(m.body, c)
<1>1. PICK b : b = m.body
  OBVIOUS
<1>2. PICK c1 : c1 = [b EXCEPT !.command = <<v>>]
  OBVIOUS
<1>3. PICK c2 : c2 = [c1 EXCEPT !.slotID = <<0, 0>>]
  OBVIOUS
<1>4. PICK m1 : m1 = [m EXCEPT !.body = c1]
  OBVIOUS
<1>5. m1.body = c1
  BY <1>4
<1>6. Answer(m, v) = [m1 EXCEPT !.body = c2]
  BY <1>1, <1>2, <1>3, <1>4, <1>5 DEF Answer
<1>7. [m1 EXCEPT !.body = c2] = [m EXCEPT !.body = c2]
  BY <1>4
<1>8. DOMAIN c2 = DOMAIN b
  BY <1>2, <1>3
<1>9. ASSUME NEW f \in DOMAIN b, f \notin {"command", "slotID"}
      PROVE  c2[f] = b[f]
  BY <1>2, <1>3, <1>9
<1> QED
  BY <1>1, <1>6, <1>7, <1>8, <1>9 DEF Answered

LEMMA BodyBack ==
    ASSUME NEW struct, NEW fields, Covers(struct, fields), NEW b \in Ones(struct),
           NEW c, Answered(NTOH(b, fields), c)
    PROVE  \A f \in DOMAIN b \ {"command", "slotID"} : NTOH(c, fields)[f] = b[f]
<1> TAKE f \in DOMAIN b \ {"command", "slotID"}
<1>1. DOMAIN b = DOMAIN struct
  BY BodyMeant DEF Fits
<1>2. DOMAIN NTOH(b, fields) = DOMAIN b
  BY DEF NTOH
<1>3. f \in DOMAIN c /\ c[f] = NTOH(b, fields)[f]
  BY <1>2 DEF Answered
<1> QED
  BY <1>1, <1>3, FieldBack

\* A number of used elements is not converted.
LEMMA UsedKept ==
    ASSUME NEW b, NEW fields, NEW f \in DOMAIN b, f \notin fields
    PROVE  NTOH(b, fields)[f] = b[f]
  BY DEF NTOH

\* What QueryReturnsWhatWasInstalled says of the answer r about a message w.
Returned(k, w, r) ==
    /\ \A f \in DOMAIN w.body \ ({"command", "slotID"} \cup NotKept) :
          r.body[f] = w.body[f]
    /\ k = "table" => r.match[1] = w.match[1]
    /\ k = "group" => r.action[1] = w.action[1]
    /\ k = "entry" =>
          /\ r.match = w.match
          /\ LET i == w.instruction[1]
             IN  IF TypeOf(i) \in Instructions
                 THEN r.instruction = w.instruction
                 ELSE r.instruction[1].data = i.data

LEMMA KeepFirst ==
    ASSUME NEW x, NEW y, NEW zero
    PROVE  Keep(<<x, y>>, 1, zero) = <<x, zero>>
<1>1. PICK s : s = <<x, y>>
  OBVIOUS
<1>2. DOMAIN s = 1..2 /\ s[1] = x
  BY <1>1
<1>3. PICK r : r = [i \in 1..2 |-> IF i <= 1 THEN s[i] ELSE zero]
  OBVIOUS
<1>4. r = Keep(s, 1, zero)
  BY <1>2, <1>3 DEF Keep
<1>5. 1 \in 1..2 /\ 2 \in 1..2 /\ 1 <= 1 /\ ~(2 <= 1)
  OBVIOUS
<1>6. r[1] = x /\ r[2] = zero
  BY <1>2, <1>3, <1>5
<1>7. DOMAIN r = 1..2 /\ r = [i \in DOMAIN r |-> r[i]]
  BY <1>3
<1>8. r = <<r[1], r[2]>>
  BY <1>7, PairOf
<1> QED
  BY <1>1, <1>4, <1>6, <1>8

LEMMA ReplyMeter ==
    ASSUME NEW m \in Messages("meter")
    PROVE  Returned("meter", m, pof_NtoH_transfer_meter(
                                    Answer(parse("meter", m), QUERY_RESULT.meter)))
<1>1. PICK b \in Ones(pof_meter) : m = [body |-> b]
  <2>1. m \in [body : Ones(pof_meter)]
    BY Kinds
  <2> QED
    BY <2>1
<1>2. PICK F : F = {"slotID", "rate", "meter_id"}
  OBVIOUS
<1>3. PICK h : h = parse("meter", m)
  OBVIOUS
<1>4. h = [body |-> NTOH(b, F)]
  BY <1>1, <1>2, <1>3, TransferBody DEF parse, pof_NtoH_transfer_meter
<1>5. PICK c : Answer(h, QUERY_RESULT.meter) = [h EXCEPT !.body = c] /\ Answered(h.body, c)
  <2>1. h = [f \in DOMAIN h |-> h[f]] /\ "body" \in DOMAIN h
    BY <1>4
  <2> QED
    BY <2>1, AnswerBody
<1>6. [h EXCEPT !.body = c] = [body |-> c] /\ h.body = NTOH(b, F)
  BY <1>4
<1>7. PICK r : r = pof_NtoH_transfer_meter(Answer(h, QUERY_RESULT.meter))
  OBVIOUS
<1>8. r = [body |-> NTOH(c, F)]
  BY <1>2, <1>5, <1>6, <1>7, TransferBody DEF pof_NtoH_transfer_meter
<1>9. \A f \in DOMAIN b \ {"command", "slotID"} : NTOH(c, F)[f] = b[f]
  <2>1. Covers(pof_meter, F)
    BY <1>2, Covered
  <2> QED
    BY <1>5, <1>6, <2>1, BodyBack
<1>10. r.body = NTOH(c, F) /\ m.body = b
  BY <1>1, <1>8
<1>11. Returned("meter", m, r)
  BY <1>9, <1>10 DEF Returned
<1> QED
  BY <1>3, <1>7, <1>11, Zenon

LEMMA ReplyTable ==
    ASSUME NEW m \in Messages("table"), NEW h, h = parse("table", m), NEW a,
           a = Answer(h, QUERY_RESULT.table)
    PROVE  Returned("table", m, pof_NtoH_transfer_flow_table(
             [a EXCEPT !.match = Keep(@, h.body.match_field_num[1], [i \in 1..8 |-> 0])]))
<1>1. PICK b \in Ones(pof_flow_table), x \in Contents, y \in Contents :
         m = [body |-> b, match |-> <<x, y>>]
  BY TableParts
<1>2. PICK F : F = {"size", "key_len", "slotID"}
  OBVIOUS
<1>3. PICK x1, y1 : x1 = match(x) /\ y1 = match(y)
  OBVIOUS
<1>4. h = [body |-> NTOH(b, F), match |-> <<x1, y1>>]
  <2>1. parse("table", m) = pof_NtoH_transfer_flow_table(m)
    BY DEF parse
  <2> QED
    BY <1>1, <1>2, <1>3, <2>1, TransferTable, Zenon
<1>5. PICK c : a = [h EXCEPT !.body = c] /\ Answered(h.body, c)
  <2>1. h = [f \in DOMAIN h |-> h[f]] /\ "body" \in DOMAIN h
    BY <1>4
  <2> QED
    BY <2>1, AnswerBody
<1>6. /\ a = [body |-> c, match |-> <<x1, y1>>]
      /\ h.body = NTOH(b, F)
  BY <1>4, <1>5
<1>7. h.body.match_field_num[1] = 1
  <2>1. "match_field_num" \in DOMAIN b
    <3>1. Fits(b, pof_flow_table)
      BY Covered, BodyMeant
    <3> QED
      BY <3>1 DEF Fits, pof_flow_table
  <2>2. "match_field_num" \notin F
    BY <1>2
  <2>3. NTOH(b, F).match_field_num = b.match_field_num
    BY <2>1, <2>2, UsedKept
  <2> QED
    BY <1>6, <2>3, Used
<1>8. PICK zero : zero = [i \in 1..8 |-> 0]
  OBVIOUS
<1>9. PICK p : p = [a EXCEPT !.match = Keep(@, h.body.match_field_num[1], zero)]
  OBVIOUS
<1>10. p = [body |-> c, match |-> <<x1, zero>>]
  <2>1. a.match = <<x1, y1>>
    BY <1>6
  <2>2. Keep(a.match, 1, zero) = <<x1, zero>>
    BY <2>1, KeepFirst
  <2>3. p = [a EXCEPT !.match = <<x1, zero>>]
    BY <1>7, <1>9, <2>2
  <2> QED
    BY <1>6, <2>3
<1>11. PICK r : r = pof_NtoH_transfer_flow_table(p)
  OBVIOUS
<1>12. PICK x2, y2 : x2 = match(x1) /\ y2 = match(zero)
  OBVIOUS
<1>13. r = [body |-> NTOH(c, F), match |-> <<x2, y2>>]
  BY <1>2, <1>10, <1>11, <1>12, TransferTable, Zenon
<1>14. x2 = x
  BY <1>3, <1>12, ContentsFields, MatchOrder, Zenon
<1>15. \A f \in DOMAIN b \ {"command", "slotID"} : NTOH(c, F)[f] = b[f]
  <2>1. Covers(pof_flow_table, F)
    BY <1>2, Covered
  <2> QED
    BY <1>5, <1>6, <2>1, BodyBack
<1>16. r.body = NTOH(c, F) /\ m.body = b /\ r.match[1] = x /\ m.match[1] = x
  BY <1>1, <1>13, <1>14
<1>17. Returned("table", m, r)
  BY <1>15, <1>16 DEF Returned
<1> QED
  BY <1>8, <1>9, <1>11, <1>17, Zenon

LEMMA ReplyGroup ==
    ASSUME NEW m \in Messages("group"), NEW h, h = parse("group", m), NEW a,
           a = Answer(h, QUERY_RESULT.group)
    PROVE  Returned("group", m, pof_NtoH_transfer_group(
             [a EXCEPT !.action = Keep(@, h.body.action_number[1], NoAction)]))
<1>1. PICK b \in Ones(pof_group), x \in ActionWires :
         m = [body |-> b, action |-> <<x, NoAction>>]
  BY GroupParts
<1>2. PICK F : F = {"group_id", "counter_id", "slotID"}
  OBVIOUS
<1>3. PICK x1, y1 : x1 = action(x) /\ y1 = action(NoAction)
  OBVIOUS
<1>4. h = [body |-> NTOH(b, F), action |-> <<x1, y1>>]
  <2>1. parse("group", m) = pof_NtoH_transfer_group(m)
    BY DEF parse
  <2> QED
    BY <1>1, <1>2, <1>3, <2>1, TransferGroup, Zenon
<1>5. PICK c : a = [h EXCEPT !.body = c] /\ Answered(h.body, c)
  <2>1. h = [f \in DOMAIN h |-> h[f]] /\ "body" \in DOMAIN h
    BY <1>4
  <2> QED
    BY <2>1, AnswerBody
<1>6. /\ a = [body |-> c, action |-> <<x1, y1>>]
      /\ h.body = NTOH(b, F)
  BY <1>4, <1>5
<1>7. h.body.action_number[1] = 1
  <2>1. "action_number" \in DOMAIN b
    <3>1. Fits(b, pof_group)
      BY Covered, BodyMeant
    <3> QED
      BY <3>1 DEF Fits, pof_group
  <2>2. "action_number" \notin F
    BY <1>2
  <2>3. NTOH(b, F).action_number = b.action_number
    BY <2>1, <2>2, UsedKept
  <2> QED
    BY <1>6, <2>3, Used
<1>8. PICK p : p = [a EXCEPT !.action = Keep(@, h.body.action_number[1], NoAction)]
  OBVIOUS
<1>9. p = [body |-> c, action |-> <<x1, NoAction>>]
  <2>1. a.action = <<x1, y1>>
    BY <1>6
  <2>2. Keep(a.action, 1, NoAction) = <<x1, NoAction>>
    BY <2>1, KeepFirst
  <2>3. p = [a EXCEPT !.action = <<x1, NoAction>>]
    BY <1>7, <1>8, <2>2
  <2> QED
    BY <1>6, <2>3
<1>10. PICK r : r = pof_NtoH_transfer_group(p)
  OBVIOUS
<1>11. PICK x2 : x2 = action(x1)
  OBVIOUS
<1>12. r = [body |-> NTOH(c, F), action |-> <<x2, y1>>]
  BY <1>2, <1>3, <1>9, <1>10, <1>11, TransferGroup, Zenon
<1>13. x2 = x
  BY <1>3, <1>11, ActionBothWays, Zenon
<1>14. \A f \in DOMAIN b \ {"command", "slotID"} : NTOH(c, F)[f] = b[f]
  <2>1. Covers(pof_group, F)
    BY <1>2, Covered
  <2> QED
    BY <1>5, <1>6, <2>1, BodyBack
<1>15. r.body = NTOH(c, F) /\ m.body = b /\ r.action[1] = x /\ m.action[1] = x
  BY <1>1, <1>12, <1>13
<1>16. Returned("group", m, r)
  BY <1>14, <1>15 DEF Returned
<1> QED
  BY <1>8, <1>10, <1>16, Zenon

\* The body of an entry in which the fields that are not kept are junk.
Forgotten(b, junk) ==
    [f \in DOMAIN b |-> IF f \in NotKept THEN [i \in DOMAIN b[f] |-> junk] ELSE b[f]]

LEMMA ReplyEntry ==
    ASSUME NEW m \in Messages("entry"), NEW h, h = parse("entry", m), NEW a,
           a = Answer(h, QUERY_RESULT.entry), NEW junk, NEW e, e = Forgotten(a.body, junk)
    PROVE  Returned("entry", m, pof_HtoN_transfer_flow_entry([a EXCEPT !.body = e]))
<1>1. PICK b \in Ones(pof_flow_entry), x \in MatchX, y \in MatchX,
           i \in InstructionWires, j \in UnusedInstruction :
         m = [body |-> b, match |-> <<x, y>>, instruction |-> <<i, j>>]
  BY EntryParts
<1>2. PICK x1, i1 : x1 = match_x(x) /\ i1 = instruction_NtoH(i)
  OBVIOUS
<1>3. b.match_field_num = <<1>> /\ b.instruction_num = <<1>>
  BY Used
<1>4. h = [body |-> NTOH(b, EntryFields), match |-> <<x1, y>>, instruction |-> <<i1, j>>]
  <2>1. parse("entry", m) = pof_NtoH_transfer_flow_entry(m)
    BY DEF parse
  <2>2. b.match_field_num[1] = 1 /\ b.instruction_num[1] = 1
    BY <1>3
  <2> QED
    BY <1>1, <1>2, <2>1, <2>2, TransferEntryNtoH, Zenon
<1>5. PICK c : a = [h EXCEPT !.body = c] /\ Answered(h.body, c)
  <2>1. h = [f \in DOMAIN h |-> h[f]] /\ "body" \in DOMAIN h
    BY <1>4
  <2> QED
    BY <2>1, AnswerBody
<1>6. /\ a = [body |-> c, match |-> <<x1, y>>, instruction |-> <<i1, j>>]
      /\ h.body = NTOH(b, EntryFields)
  BY <1>4, <1>5
<1>7. DOMAIN b = DOMAIN pof_flow_entry
  <2>1. Fits(b, pof_flow_entry)
    BY Covered, BodyMeant
  <2> QED
    BY <2>1 DEF Fits
<1>8. DOMAIN NTOH(b, EntryFields) = DOMAIN b
  BY DEF NTOH
<1>9. a.body = c
  BY <1>6
<1>10. ASSUME NEW f \in DOMAIN b, f \notin {"command", "slotID"}, f \notin NotKept
       PROVE  f \in DOMAIN e /\ e[f] = NTOH(b, EntryFields)[f]
  <2>1. f \in DOMAIN c /\ c[f] = NTOH(b, EntryFields)[f]
    BY <1>5, <1>6, <1>8, <1>10 DEF Answered
  <2> QED
    BY <1>9, <1>10, <2>1 DEF Forgotten
<1>11. ASSUME NEW f \in {"match_field_num", "instruction_num"}
       PROVE  e[f] = b[f]
  <2>1. f \in DOMAIN b /\ f \notin EntryFields /\ f \notin {"command", "slotID"} /\ f \notin NotKept
    BY <1>7 DEF pof_flow_entry, EntryFields, NotKept
  <2>2. NTOH(b, EntryFields)[f] = b[f]
    BY <2>1, UsedKept
  <2> QED
    BY <1>10, <2>1, <2>2
<1>12. e.match_field_num[1] = 1 /\ e.instruction_num[1] = 1
  BY <1>3, <1>11
<1>13. PICK p : p = [a EXCEPT !.body = e]
  OBVIOUS
<1>14. p = [body |-> e, match |-> <<x1, y>>, instruction |-> <<i1, j>>]
  BY <1>6, <1>13
<1>15. PICK r : r = pof_HtoN_transfer_flow_entry(p)
  OBVIOUS
<1>16. PICK x2, i2 : x2 = match_x(x1) /\ i2 = instruction_HtoN(i1)
  OBVIOUS
<1>17. r = [body |-> NTOH(e, EntryFields), match |-> <<x2, y>>, instruction |-> <<i2, j>>]
  BY <1>12, <1>14, <1>15, <1>16, TransferEntryHtoN
<1>18. x2 = x
  BY <1>2, <1>16, MatchXMeant, Zenon
<1>19. /\ TypeOf(i) \in Instructions => i2 = i
       /\ TypeOf(i) \notin Instructions => i2.data = i.data
  BY <1>2, <1>16, InstructionBothWays, Zenon
<1>20. \A f \in DOMAIN b \ ({"command", "slotID"} \cup NotKept) : NTOH(e, EntryFields)[f] = b[f]
  <2> TAKE f \in DOMAIN b \ ({"command", "slotID"} \cup NotKept)
  <2>1. Covers(pof_flow_entry, EntryFields)
    BY Covered
  <2>2. f \in DOMAIN b /\ f \in DOMAIN e /\ e[f] = NTOH(b, EntryFields)[f]
    BY <1>10
  <2> QED
    BY <1>7, <2>1, <2>2, FieldBack
<1>21. /\ r.body = NTOH(e, EntryFields) /\ m.body = b
       /\ r.match = m.match
       /\ r.instruction = <<i2, j>> /\ m.instruction = <<i, j>>
       /\ r.instruction[1] = i2 /\ m.instruction[1] = i
  BY <1>1, <1>17, <1>18
<1>22. Returned("entry", m, r)
  <2>1. TypeOf(i) \in Instructions => r.instruction = m.instruction
    BY <1>19, <1>21
  <2>2. TypeOf(i) \notin Instructions => r.instruction[1].data = i.data
    BY <1>19, <1>21
  <2> QED
    BY <1>20, <1>21, <2>1, <2>2 DEF Returned
<1> QED
  BY <1>13, <1>15, <1>22, Zenon
-----------------------------------------------------------------------------
(* The reachable states. What the switch holds is the message it was sent, *)
(* parsed; an answer is about that message.                                *)

Received == /\ kind \in Incoming /\ wire \in Messages(kind)
            /\ host = parse(kind, wire)
            /\ reply # Nothing => Returned(kind, wire, reply)

Made == /\ kind \in Outgoing /\ host \in Messages(kind) /\ reply = transfer(kind, host)

MessageInv ==
    \/ kind = "none" /\ wire = Nothing /\ host = Nothing
    \/ wire # Nothing /\ Received
    \/ wire = Nothing /\ Made

LEMMA MessageBody == \A k \in Incoming : \A m \in Messages(k) : m # Nothing
<1> SUFFICES ASSUME NEW k \in Incoming, NEW m \in Messages(k)
             PROVE  m # Nothing
  OBVIOUS
<1>1. "body" \in DOMAIN m
  <2>1. CASE k = "table"
    <3>1. m \in [body : Ones(pof_flow_table), match : Contents \X Contents]
      BY <2>1, Kinds
    <3> QED
      BY <3>1
  <2>2. CASE k = "entry"
    <3>1. m \in [body : Ones(pof_flow_entry), match : MatchX \X MatchX, instruction : InstructionWires \X UnusedInstruction]
      BY <2>2, Kinds
    <3> QED
      BY <3>1
  <2>3. CASE k = "group"
    <3>1. m \in [body : Ones(pof_group), action : ActionWires \X {NoAction}]
      BY <2>3, Kinds
    <3> QED
      BY <3>1
  <2>4. CASE k = "meter"
    <3>1. m \in [body : Ones(pof_meter)]
      BY <2>4, Kinds
    <3> QED
      BY <3>1
  <2>5. CASE k = "counter"
    <3>1. m \in [body : Ones(pof_counter)]
      BY <2>5, Kinds
    <3> QED
      BY <3>1
  <2>6. CASE k = "port"
    <3>1. m \in [body : Ones(pof_port)]
      BY <2>6, Kinds
    <3> QED
      BY <3>1
  <2>7. CASE k = "packet_out"
    <3>1. m \in [body : Ones(pof_packet_out), action : ActionWires \X Unused]
      BY <2>7, Kinds
    <3> QED
      BY <3>1
  <2>8. CASE k = "config"
    <3>1. m \in [body : Ones(pof_switch_config)]
      BY <2>8, Kinds
    <3> QED
      BY <3>1
  <2>9. CASE k = "queryall"
    <3>1. m \in [body : Ones(pof_queryall_request)]
      BY <2>9, Kinds
    <3> QED
      BY <3>1
  <2>10. CASE k = "header"
    <3>1. m \in [body : Ones(pof_header)]
      BY <2>10, Kinds
    <3> QED
      BY <3>1
  <2> QED
    BY <2>1, <2>2, <2>3, <2>4, <2>5, <2>6, <2>7, <2>8, <2>9, <2>10 DEF Incoming
<1>2. DOMAIN Nothing = {}
  BY DEF Nothing
<1> QED
  BY <1>1, <1>2

LEMMA MessageInit == Init => MessageInv
  BY DEF Init, MessageInv

LEMMA MessageNext == MessageInv /\ [Next]_vars => MessageInv'
<1> SUFFICES ASSUME MessageInv, [Next]_vars
             PROVE  MessageInv'
  OBVIOUS
<1>1. ASSUME NEW k \in Incoming, parse_msg_from_controller(k)
      PROVE  MessageInv'
  <2>1. wire' # Nothing
    BY <1>1, MessageBody DEF parse_msg_from_controller
  <2> QED
    BY <1>1, <2>1 DEF parse_msg_from_controller, MessageInv, Received
<1>2. ASSUME NEW k \in Outgoing, send(k)
      PROVE  MessageInv'
  BY <1>2 DEF send, MessageInv, Made
<1>3. ASSUME kind \in {"table", "entry", "group", "meter"}, host # Nothing
      PROVE  wire # Nothing /\ Received
  BY <1>3 DEF MessageInv, Made, Outgoing
<1>4. ASSUME kind \in {"table", "entry", "group", "meter"}, host # Nothing,
             UNCHANGED <<kind, wire, host>>, Returned(kind, wire, reply')
      PROVE  MessageInv'
  <2>1. wire # Nothing /\ Received
    BY <1>3, <1>4
  <2>2. kind' = kind /\ wire' = wire /\ host' = host
    BY <1>4
  <2> QED
    BY <1>4, <2>1, <2>2 DEF MessageInv, Received
<1>5. ASSUME reply_table PROVE MessageInv'
  <2>1. /\ kind = "table" /\ host # Nothing /\ UNCHANGED <<kind, wire, host>>
    BY <1>5 DEF reply_table
  <2>2. Received
    BY <1>3, <2>1
  <2>3. PICK a : a = Answer(host, QUERY_RESULT.table)
    OBVIOUS
  <2>4. reply' = pof_NtoH_transfer_flow_table(
          [a EXCEPT !.match = Keep(@, host.body.match_field_num[1], [i \in 1..8 |-> 0])])
    BY <1>5, <2>3, Zenon DEF reply_table
  <2>5. Returned("table", wire, reply')
    BY <2>1, <2>2, <2>3, <2>4, ReplyTable, Zenon DEF Received
  <2> QED
    BY <1>4, <2>1, <2>5
<1>6. ASSUME reply_entry PROVE MessageInv'
  <2>1. /\ kind = "entry" /\ host # Nothing /\ UNCHANGED <<kind, wire, host>>
    BY <1>6 DEF reply_entry
  <2>2. Received
    BY <1>3, <2>1
  <2>3. PICK a : a = Answer(host, QUERY_RESULT.entry)
    OBVIOUS
  <2>4. PICK junk \in Junk :
          reply' = pof_HtoN_transfer_flow_entry([a EXCEPT !.body =
             [f \in DOMAIN a.body |-> IF f \in NotKept THEN [i \in DOMAIN a.body[f] |-> junk]
                                                       ELSE a.body[f]]])
    BY <1>6, <2>3, Zenon DEF reply_entry
  <2>5. PICK e : e = Forgotten(a.body, junk)
    OBVIOUS
  <2>6. reply' = pof_HtoN_transfer_flow_entry([a EXCEPT !.body = e])
    BY <2>4, <2>5, Zenon DEF Forgotten
  <2>7. Returned("entry", wire, reply')
    <3>1. kind \in Incoming /\ wire \in Messages("entry") /\ host = parse("entry", wire)
      BY <2>1, <2>2 DEF Received
    <3>2. Returned("entry", wire, pof_HtoN_transfer_flow_entry([a EXCEPT !.body = e]))
      BY <3>1, <2>3, <2>5, ReplyEntry
    <3> QED
      BY <2>6, <3>2
  <2> QED
    BY <1>4, <2>1, <2>7
<1>7. ASSUME reply_group PROVE MessageInv'
  <2>1. /\ kind = "group" /\ host # Nothing /\ UNCHANGED <<kind, wire, host>>
    BY <1>7 DEF reply_group
  <2>2. Received
    BY <1>3, <2>1
  <2>3. PICK a : a = Answer(host, QUERY_RESULT.group)
    OBVIOUS
  <2>4. reply' = pof_NtoH_transfer_group(
          [a EXCEPT !.action = Keep(@, host.body.action_number[1], NoAction)])
    BY <1>7, <2>3, Zenon DEF reply_group
  <2>5. Returned("group", wire, reply')
    BY <2>1, <2>2, <2>3, <2>4, ReplyGroup, Zenon DEF Received
  <2> QED
    BY <1>4, <2>1, <2>5
<1>8. ASSUME reply_meter PROVE MessageInv'
  <2>1. /\ kind = "meter" /\ host # Nothing /\ UNCHANGED <<kind, wire, host>>
    BY <1>8 DEF reply_meter
  <2>2. Received
    BY <1>3, <2>1
  <2>3. reply' = pof_NtoH_transfer_meter(Answer(host, QUERY_RESULT.meter))
    BY <1>8 DEF reply_meter
  <2>4. Returned("meter", wire, reply')
    BY <2>1, <2>2, <2>3, ReplyMeter, Zenon DEF Received
  <2> QED
    BY <1>4, <2>1, <2>4
<1>9. ASSUME UNCHANGED vars PROVE MessageInv'
  BY <1>9 DEF vars, MessageInv, Received, Made
<1> QED
  BY <1>1, <1>2, <1>5, <1>6, <1>7, <1>8, <1>9 DEF Next

LEMMA MessageInvHolds == Spec => []MessageInv
  BY MessageInit, MessageNext, PTL DEF Spec

\* Every number of every message that the controller sends has, in what the
\* conversions of pof_parse.c leave in memory, the value that its structure
\* gives it, whatever the bytes are: in the bodies, in the unions by their
\* tags, and in the actions inside instructions.
THEOREM HostMeant == Spec => []HostOrder
<1>1. MessageInv => HostOrder
  <2> SUFFICES ASSUME MessageInv, wire # Nothing
               PROVE  HostOrder
    BY DEF HostOrder
  <2>1. Received
    BY DEF MessageInv
  <2>2. Understood(kind, wire, host)
    BY <2>1, ParseMeans DEF Received
  <2> QED
    BY <2>2 DEF Understood, HostOrder
<1> QED
  BY <1>1, MessageInvHolds, PTL

\* Every number of every message that the switch makes by itself leaves in
\* network order.
THEOREM WireMeant == Spec => []WireOrder
<1>1. MessageInv => WireOrder
  <2> SUFFICES ASSUME MessageInv, wire = Nothing, kind # "none"
               PROVE  WireOrder
    BY DEF WireOrder
  <2>1. Made
    BY DEF MessageInv
  <2>2. Sent(kind, host, reply)
    BY <2>1, SendMeans DEF Made
  <2> QED
    BY <2>2 DEF Sent, WireOrder
<1> QED
  BY <1>1, MessageInvHolds, PTL

\* The reply functions, which convert what the switch keeps once more, give
\* the controller the bytes it installed: a conversion undoes itself, also
\* action(), which has to guess its direction.
THEOREM QueriesTruthful == Spec => []QueryReturnsWhatWasInstalled
<1>1. MessageInv => QueryReturnsWhatWasInstalled
  <2> SUFFICES ASSUME MessageInv, wire # Nothing, reply # Nothing
               PROVE  QueryReturnsWhatWasInstalled
    BY DEF QueryReturnsWhatWasInstalled
  <2>1. Received
    BY DEF MessageInv
  <2>2. Returned(kind, wire, reply)
    BY <2>1 DEF Received
  <2> QED
    BY <2>2, Zenon DEF Returned, QueryReturnsWhatWasInstalled
<1> QED
  BY <1>1, MessageInvHolds, PTL
=============================================================================
