----------------------------- MODULE MCIpctPack -----------------------------
(***************************************************************************)
(* Instances of IpctPack for TLC.                                          *)
(***************************************************************************)
EXTENDS IpctPack

(* An element whose member lies at byte at of the structure; data are      *)
(* eight bytes long.                                                       *)
E(id, type, at) ==
  [id |-> id, type |-> type, offset |-> at, value1 |-> 0,
   value2 |-> IF type \in SizedTypes THEN 8 ELSE 65535]

D(size, mandatory, optional) ==
  [size |-> size, mandatory |-> mandatory, optional |-> optional]

(* The IDs the walk is tried on: a dense range.                            *)
Slots == 0 .. 3

(* A table n gives each slot no element, a half-word, a word or eight      *)
(* bytes of data; the element of slot i lies at byte 8 * i.                *)
Kind(n, i) == (n \div (4 ^ i)) % 4

ElemType(kind) == IF kind = 1 THEN "uint16_value"
                  ELSE IF kind = 2 THEN "uint32_value" ELSE "data"

ElemsOf(n) == {E(i, ElemType(Kind(n, i)), 8 * i) :
                 i \in {k \in Slots : Kind(n, k) # 0}}

(* The tables in which no eight-byte element joins an array.               *)
WideAlone(n) == \A i \in Slots, j \in Slots :
                  (j = i + 1 \/ i = j + 1) /\ Kind(n, i) = 3 => Kind(n, j) < 2

Tables == {n \in 0 .. 255 : WideAlone(n)}

(* Every table, all of it mandatory; and every table with the elements     *)
(* after its lowest one optional when their ID is odd, in a structure      *)
(* declared too small for the last slot's data.                            *)
AllMandatory(n) == D(32, ElemsOf(n), {})

SomeOptional(n) ==
  LET opt == {e \in ElemsOf(n) : e.id % 2 = 1
                /\ \E f \in ElemsOf(n) : f.id < e.id}
  IN D(24, ElemsOf(n) \ opt, opt)

(* TLC tabulates a definition once, but not the one that replaces a        *)
(* constant, nor a function that is not the member of a set.               *)
Tabulated(f) == CHOOSE g \in {f} : g = f

AllTables ==
  Tabulated([key \in {<<1, s, n>> : s \in {0, 1}, n \in Tables} |->
     IF key[2] = 0 THEN AllMandatory(key[3]) ELSE SomeOptional(key[3])])

MCRegistry == AllTables

(* The IDs of the actions, one of no action, and one with the route bit.   *)
MCIds == {ACTION_ID(1, s, n) : s \in {0, 1}, n \in Tables}
           \cup {ACTION_ID(2, 0, 1),
                 ACTION_ID(1, 1, 170) + 65536 * RouteBit}

(* The cells of member i differ from those of every other member and from  *)
(* zero.                                                                   *)
MCSources == {[at \in {0, 8, 16, 24} |-> [k \in 0 .. 3 |-> 10 * at + k + 8]]}

MCSrcSizes  == {31, 32}
MCDestSizes == {4, 20, 21, 28, 29, 33, 56}
MCCells     == 32

Zeroed == [c \in 0 .. MCCells - 1 |-> 0]
MCZeroedMailbox == {Zeroed}

(***************************************************************************)
(* A client that packs one message after the other into one static buffer, *)
(* as the mailbox of example/sw/stream.c: three actions with different     *)
(* layouts, and structures whose cells, left behind in the buffer, read as *)
(* tuples of every type.                                                   *)
(***************************************************************************)
ReuseTables ==
  Tabulated(
    << D(32, {E(0, "uint16_value", 0), E(1, "uint16_value", 8),
              E(2, "uint16_value", 16)}, {E(3, "uint32_value", 24)}),
       D(32, {E(0, "uint32_value", 0), E(2, "uint16_value", 8)},
             {E(1, "uint32_value", 16), E(3, "uint16_value", 24)}),
       D(32, {E(1, "data", 0), E(4, "uint32_value", 8)},
             {E(3, "uint16_value", 16)}) >>)

ReuseRegistry == [key \in {<<1, 1, n>> : n \in 1 .. 3} |-> ReuseTables[key[3]]]

ReuseIds == {ACTION_ID(1, 1, n) : n \in 1 .. 3}

ReuseSources ==
  { [at \in {0, 8, 16, 24} |-> [k \in 0 .. 3 |-> base + (at \div 8) + k]] :
      base \in {0, 4} }

ReuseSrcSizes  == {32}
ReuseDestSizes == {33, 40}
ReuseCells     == 24
ReuseMailbox   == {[c \in 0 .. ReuseCells - 1 |-> 0]}

(***************************************************************************)
(* Tables on which the packer and what is said of it part: an optional     *)
(* element below every mandatory one; two eight-byte elements in a row.    *)
(***************************************************************************)
OddRegistry ==
  [key \in {<<1, 1, n>> : n \in 1 .. 2} |->
     IF key[3] = 1
     THEN D(32, {E(2, "uint32_value", 0)}, {E(1, "uint32_value", 8)})
     ELSE D(32, {E(1, "uint64_value", 0), E(2, "uint64_value", 8)}, {})]

(* Six bytes of data, which are one word and a half, and a word behind.    *)
SixBytes == [E(1, "data", 0) EXCEPT !.value2 = 6]

OverlapRegistry ==
  [key \in {<<1, 1, 1>>} |-> D(32, {SixBytes, E(3, "uint32_value", 8)}, {})]

OverlapIds == {ACTION_ID(1, 1, 1)}

OddIds == {ACTION_ID(1, 1, n) : n \in 1 .. 2}

=============================================================================
