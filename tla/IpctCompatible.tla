--------------------------- MODULE IpctCompatible ---------------------------
(***************************************************************************)
(* The tables between which a structure gets across, and what its members  *)
(* are to the clients on either side.  d is the descriptor a structure is  *)
(* packed by, r the one its message is unpacked by.                        *)
(***************************************************************************)
EXTENDS IpctHeader, IpctElem, FiniteSets

MemberIds(d) == {e.id : e \in Elems(d)}

ElemWith(d, id) == CHOOSE e \in Elems(d) : e.id = id

-----------------------------------------------------------------------------
(***************************************************************************)
(* What a member is to its client: a byte-wide one is only the low byte of *)
(* the cell it lies in, and an int8_t is signed.                           *)
(***************************************************************************)
ClientValue(e, v) ==
  [k \in 0 .. CellsOf(e) - 1 |->
     IF e.type \in ByteTypes THEN v[k] % 256 ELSE v[k]]

InRange(e, v) ==
  IF e.type = "int8_value"
  THEN AsInt8(e.value1) <= AsInt8(v[0]) /\ AsInt8(v[0]) <= AsInt8(e.value2)
  ELSE ValueOk(e, v)

AllowedBy(d, id, v) == InRange(ElemWith(d, id), v)

(* Of a structure as the packer reads it, and as the unpacker leaves it.   *)
SentFrom(d, src, id) ==
  LET e == ElemWith(d, id) IN ClientValue(e, src[e.offset])

HeldIn(r, cells, id) ==
  LET e == ElemWith(r, id)
  IN ClientValue(e, [k \in 0 .. CellsOf(e) - 1 |-> cells[(e.offset \div 2) + k]])

-----------------------------------------------------------------------------
(***************************************************************************)
(* The message of a descriptor.                                            *)
(***************************************************************************)
(* The elements that share a tuple with e, by IpctPack's rule.             *)
SameTuple(d, e) ==
  {f \in Elems(d) :
     \A j \in (e.id .. f.id) \cup (f.id .. e.id) :
       \E g \in Elems(d) :
         g.id = j /\ ipct_get_type(g.type) = ipct_get_type(e.type)}

Heads(d) == {e \in Elems(d) : \A f \in SameTuple(d, e) : e.id <= f.id}

Halves(d) == {e \in Elems(d) : ipct_get_type(e.type) = HD}

(* The header, one word to start each tuple, one for each word and half a  *)
(* one for each half-word in an array.                                     *)
MessageLength(d) ==
  SizeofHdr + SizeofElems + 4 * Cardinality(Heads(d))
    + 4 * Cardinality(Elems(d) \ Halves(d))
    + 2 * Cardinality({e \in Halves(d) : SameTuple(d, e) # {e}})

-----------------------------------------------------------------------------
(***************************************************************************)
(* Every condition is one the library needs and does not check: a          *)
(* configuration of its own shows, for most of them, what happens without  *)
(* it.                                                                     *)
(***************************************************************************)
(* The walk starts at the lowest ID only if that is mandatory, and ends    *)
(* before the highest a tuple can have.                                    *)
PacksAll(d) ==
  /\ \E e \in d.mandatory : \A f \in Elems(d) : e.id <= f.id
  /\ \A f \in Elems(d) : f.id < IPCT_TUPLE_MAX_ID

(* Items are words and half-words, and no array ends on a half word.       *)
WholeWords(d) ==
  \A e \in Elems(d) :
    /\ e.type \in HalfWordTypes \cup WordTypes
    /\ e \in Halves(d) /\ SameTuple(d, e) # {e}
         => Cardinality(SameTuple(d, e)) % 2 = 0

(* The number of tuples, read as a tuple's first word by the check of the  *)
(* header's minimum size, is not that of a variable array.                 *)
CountReads(d) == Cardinality(Heads(d)) % 8 \notin {4, 5}

(* The receiver's members of both tables have the same type and end within *)
(* the first bytes of the structure, as many as the message has.           *)
MembersMatch(d, r) ==
  \A id \in MemberIds(d) \cap MemberIds(r) :
    /\ ElemWith(d, id).type = ElemWith(r, id).type
    /\ ElemWith(r, id).type \notin ByteTypes
    /\ ElemWith(r, id).offset + elem_get_data_size(ElemWith(r, id))
         <= MessageLength(d)

(* A member the receiver does not know is not followed, in its tuple, by   *)
(* one that it does.                                                       *)
KnowsPrefixes(d, r) ==
  \A e \in Elems(d) : e.id \in MemberIds(r) =>
    \A f \in SameTuple(d, e) : f.id < e.id => f.id \in MemberIds(r)

Compatible(d, r) ==
  /\ PacksAll(d) /\ WholeWords(d) /\ CountReads(d)
  /\ MembersMatch(d, r) /\ KnowsPrefixes(d, r)

=============================================================================
