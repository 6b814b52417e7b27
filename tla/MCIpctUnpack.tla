---------------------------- MODULE MCIpctUnpack ----------------------------
(***************************************************************************)
(* Instances of IpctUnpack for TLC: messages put together from pieces,     *)
(* tuples of every type among them, under headers that need not agree with *)
(* what follows.                                                           *)
(***************************************************************************)
EXTENDS IpctUnpack

E(id, type, at, value1, value2) ==
  [id |-> id, type |-> type, offset |-> at, value1 |-> value1, value2 |-> value2]

Mandatory == { E(0, "uint16_value", 0, 1, 3),
               E(1, "uint16_mask", 2, 5, 0),
               E(2, "int16_value", 4, 65535, 1),      \* -1 .. 1
               E(3, "uint32_value", 8, 65537, 131072) }
Optional  == { E(5, "data", 12, 2, 4),
               E(6, "uint8_value", 16, 1, 2) }

D == [size |-> 20, mandatory |-> Mandatory, optional |-> Optional]

Tabulated(f) == CHOOSE g \in {f} : g = f

TheTable == Tabulated([key \in {<<0, 0, 0>>} |-> D])
MCRegistry == TheTable

(* Pieces: a tuple, its first cell carrying type and ID, or an array's     *)
(* header, whose nested tuples the next pieces make.                       *)
Word(type, id) == type + 8 * id

Accepted == { <<Word(HD, 0), 2>>,                       \* single data
              <<Word(HD, 2), 65535>>,
              <<Word(HD, 6), 2>>,
              <<Word(STD, 3), 1, 1, 1>>,
              <<Word(STD, 5), 1, 9, 9>>,
              <<Word(HD_ARRAY, 0), 3, 1, 4, 1>>,        \* an odd run
              <<Word(VAR_ARRAY, 3), 2, 4, 0, 2, 7, 7>>, \* item 4 is unknown
              <<Word(HD, 7), 1>> }                      \* unknown

Refused ==  { <<Word(HD, 1), 32772>>,                   \* bit 15 not in mask
              <<Word(HD, 2), 2>>,
              <<Word(HD, 6), 256>>,
              <<Word(HD_ARRAY, 2), 2, 1, 1>>,           \* item 3 is a word
              <<Word(HD_ARRAY, 0), 0>>,
              <<Word(VAR_ARRAY, 0), 2, 0, 2>>,
              <<6, 0>> }                                \* reserved type

(* Arrays: of two tuples and as long as they are; longer than what is      *)
(* left; of no length at all, its tuples being walked again as its         *)
(* successors.                                                             *)
Arrays == { <<TUPLE_ARRAY, 2, 4>>, <<TUPLE_ARRAY, 1, 31>>, <<TUPLE_ARRAY, 2, 0>> }

Pieces == Accepted \cup Refused \cup Arrays

Bodies == {<<p, q>> : p \in Pieces, q \in Pieces}
            \cup {<<a, p, q>> : a \in Arrays, p \in Accepted \cup Arrays,
                                q \in Accepted}

Cat(b) == IF Len(b) = 2 THEN b[1] \o b[2] ELSE b[1] \o b[2] \o b[3]

MCCells == 32

(* The header is three words, the last with the size in its upper bits. *)
Message(body, n, words) ==
  LET head == <<0, ElemsBit, n, 0, 256 * words, 0>>
      all  == head \o body
  IN [c \in 0 .. MCCells - 1 |-> IF c < Len(all) THEN all[c + 1] ELSE 0]

(* A message with the optional route, and headers without the elems        *)
(* structure, with no tuples and with no size.                             *)
OddHeaders ==
  { [c \in 0 .. MCCells - 1 |->
       CASE c = 1 -> ElemsBit + RouteBit [] c = 6 -> 1 [] c = 8 -> 256
         [] c = 10 -> Word(HD, 0) [] c = 11 -> 1 [] OTHER -> 0],
    [Message(<<Word(HD, 0), 2>>, 1, 1) EXCEPT ![1] = 0],
    Message(<<Word(HD, 0), 2>>, 0, 1),
    Message(<<Word(HD, 0), 2>>, 1, 0) }

EvenTuples(m) ==
  \A c \in HdrSize(m) \div 2 .. MCCells - 4 :
    TupleType(m, 2 * c) \in {VAR_ARRAY, TUPLE_ARRAY} =>
      tuple_size(m, 2 * c) % 2 = 0

(* The count is one to four, the size that of the body rounded down, as    *)
(* the packer does, or up.                                                 *)
AllMessages ==
  OddHeaders \cup
  { m \in {Message(Cat(b), n, (Len(Cat(b)) + up) \div 2) :
             b \in Bodies, n \in 1 .. 4, up \in {0, 1}} : EvenTuples(m) }

MCMessages == AllMessages

MCSrcSizes  == {20, 64}
MCDestSizes == {20}
MCStructCells == 10
MCStructs == {[c \in 0 .. 9 |-> 2827]}

(* Well-formed messages of one to four single tuples, as an action's       *)
(* sender would pack them, and one of a class the registry does not have.  *)
Halves(n) == LET cells == <<Word(HD, 0), 2, Word(HD, 2), 1,
                            Word(HD, 6), 1, Word(HD, 0), 3>>
             IN SubSeq(cells, 1, 2 * n)

PlainMessages == {Message(Halves(n), n, n) : n \in 1 .. 4}
OtherClass    == {[m EXCEPT ![0] = 5] : m \in PlainMessages}

(* A structure that ends before the last members of the action's. *)
ShortDestSizes == {16}

NoFloats(e, c) == FALSE

=============================================================================
