----------------------------- MODULE MCIpctPair -----------------------------
(***************************************************************************)
(* Instances of IpctPair for TLC: a sender with many actions, each packing *)
(* other members of one structure, and the receiver of their messages.     *)
(***************************************************************************)
EXTENDS IpctPair

E(id, type, at, value1, value2) ==
  [id |-> id, type |-> type, offset |-> at, value1 |-> value1, value2 |-> value2]

Tabulated(f) == CHOOSE g \in {f} : g = f

(* An action with these elements: the lowest and those with an even ID are *)
(* mandatory.                                                              *)
Action(elems, size) ==
  LET must == {e \in elems : e.id % 2 = 0 \/ \A f \in elems : e.id <= f.id}
  IN [size |-> size, mandatory |-> must, optional |-> elems \ must]

(* What a program receives by: action 0 of class 0.                        *)
ReceiveBy(elems, size) ==
  [key \in {<<0, 0, 0>>} |-> Action(elems, size)]

(* The tuple IDs: a pair of half-words that a pair of words follows at     *)
(* once, and a pair of half-words after a gap.                             *)
Slots == {0, 1, 2, 3, 5, 6}

SlotType(id) == IF id \in {2, 3} THEN "uint32_value" ELSE "uint16_value"

Forward(id) == CASE id = 0 -> 0 [] id = 1 -> 2 [] id = 2 -> 4
                 [] id = 3 -> 8 [] id = 5 -> 12 [] id = 6 -> 14

Backward(id) == CASE id = 6 -> 0 [] id = 5 -> 2 [] id = 3 -> 4
                  [] id = 2 -> 8 [] id = 1 -> 12 [] id = 0 -> 14

Loose(id)  == E(id, SlotType(id), Forward(id), 0, 65536 * 9)
Strict(id) == E(id, SlotType(id), Backward(id), 1, 65536 + 60)

(* Every way to have some of the members, to send: action n of class 0 has *)
(* the members whose bits are set in n.                                    *)
Has(n, id) ==
  LET bit == CASE id = 0 -> 1 [] id = 1 -> 2 [] id = 2 -> 4
               [] id = 3 -> 8 [] id = 5 -> 16 [] id = 6 -> 32
  IN (n \div bit) % 2 = 1

Senders ==
  Tabulated([key \in {<<0, 0, n>> : n \in 1 .. 63} |->
               Action({Loose(id) : id \in {s \in Slots : Has(key[3], s)}}, 16)])

(* The receiver has narrower limits and its members in another order; it   *)
(* lacks the second of the half-words and has a word none of the senders   *)
(* has.                                                                    *)
Receiver ==
  Tabulated(ReceiveBy({Strict(id) : id \in Slots \ {1}}
                        \cup {E(4, "uint32_value", 16, 0, 9)}, 20))

MCRegistry         == Senders
MCReceiverRegistry == Receiver

MCIds ==
  {65536 * n : n \in {k \in 1 .. 63 :
                        Compatible(Senders[<<0, 0, k>>], Receiver[<<0, 0, 0>>])}}

MCStructCells == 10
MCCells       == 32
MCSrcSizes    == {16}
MCSizes       == {14, 16, 20, 21, 24, 26, 29, 33, 44}
MCSizeLimit   == 16777216

(* A structure as the packer reads it: cell k at offset at.                *)
View(c) == [at \in {2 * i : i \in 0 .. MCStructCells - 1} |->
              [k \in 0 .. MCStructCells - 1 - (at \div 2) |->
                 c[(at \div 2) + k]]]

(* Cell i of a structure: every member within every limit; the last        *)
(* half-word too large for the narrow ones; a word too large.              *)
Plain     == [c \in 0 .. 9 |-> IF c \in {3, 5} THEN 1 ELSE 20 + c]
MCSources == {View(Plain), View([Plain EXCEPT ![7] = 500]),
              View([Plain EXCEPT ![5] = 2])}

Zeroed      == [c \in 0 .. MCCells - 1 |-> 0]
MCMailboxes == {Zeroed}

MCStructs == {[c \in 0 .. 9 |-> 7]}

NoFloats(e, c) == FALSE

(***************************************************************************)
(* Tables that are not compatible, each for one reason.                    *)
(***************************************************************************)
Half2(id, at) == E(id, "uint16_value", at, 0, 65535)
Word4(id, at) == E(id, "uint32_value", at, 0, 65536 * 9)

OddId == {0}

(* Three half-words in a row, with or without a tuple behind them.         *)
ThreeHalves == {Half2(0, 0), Half2(1, 2), Half2(2, 4)}
Three       == ReceiveBy(ThreeHalves, 8)
ThreeAndOne == ReceiveBy(ThreeHalves \cup {Word4(3, 8)}, 12)

(* Three words, and without the second of them.                            *)
Words      == {Word4(0, 0), Word4(1, 4), Word4(2, 8)}
AllWords   == ReceiveBy(Words, 12)
Deprecated == ReceiveBy({e \in Words : e.id # 1}, 12)

Long == ReceiveBy({E(0, "uint64_value", 0, 0, 9)}, 8)
Near == ReceiveBy({Half2(0, 0)}, 2)
Far  == ReceiveBy({Half2(0, 16)}, 18)

SignedByte == ReceiveBy({E(0, "int8_value", 0, 254, 2)}, 2)

(* Small values, and a structure that starts with the byte -1.             *)
StartingWith(cell) == View([c \in 0 .. 9 |-> IF c = 0 THEN cell ELSE 0])
SmallSources == {StartingWith(3)}
ByteSources  == {StartingWith(255 + 256 * 3)}

OddSrcSizes == {12}
AmpleSizes  == {44}

(* Header, one array and three half-words.                                 *)
ExactSizes  == {12 + 4 + 3 * 2}

=============================================================================
