------------------------------ MODULE IpctTuple ------------------------------
(***************************************************************************)
(* The tuple ABI: how a tuple lies in a message buffer and the inline      *)
(* helpers that read and change one (abi/message.h, private/message.h and  *)
(* the element helpers of ipct/builder.h).                                 *)
(*                                                                         *)
(* A buffer is a function from cell numbers to 16-bit values: every field  *)
(* of every tuple layout is 16 bits wide and lies on an even byte.         *)
(* Addresses stay in bytes, as in the code, so the byte address a is cell  *)
(* a \div 2.  A 16-bit value is read little endian, and the first cell of  *)
(* a tuple packs the two bit fields of struct ipct_tuple: the type in its  *)
(* three low bits and the ID in the thirteen above.                        *)
(***************************************************************************)
EXTENDS Integers

U16 == {v \in Nat : v < 65536}

(***************************************************************************)
(* enum ipct_tuple_elem_type and the limit on tuple IDs.                   *)
(***************************************************************************)
STD         == 0
HD          == 1
STD_ARRAY   == 2
HD_ARRAY    == 3
VAR_ARRAY   == 4
TUPLE_ARRAY == 5

IPCT_TUPLE_MAX_ID == 8191

(* sizeof of the packed, 4-aligned layouts; the data of a variable array   *)
(* starts at VarData, inside the padding that rounds its header up to 8.   *)
SizeofStd   == 4
SizeofMicro == 4
SizeofVar   == 8
VarData     == 6

-----------------------------------------------------------------------------
(***************************************************************************)
(* Buffer access.                                                          *)
(***************************************************************************)
Half(m, a) == m[a \div 2]

Store(m, a, v) == [m EXCEPT ![a \div 2] = v % 65536]

(* A C member is known by its cells: v[k] is the k-th.  memcpy of a member *)
(* v of size bytes to address a.                                           *)
CopyIn(m, a, v, size) ==
  [c \in DOMAIN m |-> IF c >= a \div 2 /\ c < (a + size) \div 2
                      THEN v[c - (a \div 2)]
                      ELSE m[c]]

(* Do the size bytes at address a hold the member v? *)
Holds(m, a, v, size) ==
  \A k \in 0 .. (size \div 2) - 1 : Half(m, a + 2 * k) = v[k]

-----------------------------------------------------------------------------
(***************************************************************************)
(* The fields of the tuple at address t.                                   *)
(***************************************************************************)
TupleType(m, t) == Half(m, t) % 8
TupleId(m, t)   == Half(m, t) \div 8
Count(m, t)     == Half(m, t + 2)     \* union of size, count (and micro data)
ElemBytes(m, t) == Half(m, t + 4)     \* of a variable array only

(* The first cell of a tuple. *)
TupleWord(type, id) == type + 8 * (id % 8192)

(* Mutant: the header of an array is not part of its size. *)
array_size_of_data(m, t) ==
  CASE TupleType(m, t) = STD                   -> SizeofStd + 4 * Count(m, t)
    [] TupleType(m, t) = HD                    -> SizeofMicro
    [] TupleType(m, t) = STD_ARRAY             -> 4 * Count(m, t)
    [] TupleType(m, t) = HD_ARRAY              -> 2 * Count(m, t)
    [] OTHER                                   -> 0

tuple_size(m, t) ==
  CASE TupleType(m, t) \in {STD, STD_ARRAY} -> SizeofStd + 4 * Count(m, t)
    [] TupleType(m, t) = HD                 -> SizeofMicro
    [] TupleType(m, t) = HD_ARRAY           -> SizeofMicro + 2 * Count(m, t)
    [] TupleType(m, t) \in {VAR_ARRAY, TUPLE_ARRAY}
                                 -> SizeofVar + Count(m, t) + ElemBytes(m, t)
    [] OTHER                                -> 0

tuple_data_size(m, t) ==
  CASE TupleType(m, t) \in {STD, STD_ARRAY}         -> 4
    [] TupleType(m, t) \in {HD, HD_ARRAY}           -> 2
    [] TupleType(m, t) \in {VAR_ARRAY, TUPLE_ARRAY} -> ElemBytes(m, t)
    [] OTHER                                        -> 0

tuple_data_count(m, t) ==
  CASE TupleType(m, t) \in {STD, HD}                     -> 1
    [] TupleType(m, t) \in
         {STD_ARRAY, HD_ARRAY, VAR_ARRAY, TUPLE_ARRAY}   -> Count(m, t)
    [] OTHER                                             -> 0

(* Address of data item i; only evaluated for the six types in use, the    *)
(* others make the code return NULL.                                       *)
tuple_get_data(m, t, i) ==
  CASE TupleType(m, t) \in {STD, STD_ARRAY} -> t + SizeofStd + 4 * i
    [] TupleType(m, t) = HD                 -> t + 2
    [] TupleType(m, t) = HD_ARRAY           -> t + SizeofMicro + 2 * i
    [] OTHER                          -> t + VarData + i * ElemBytes(m, t)

ipc_next_tuple(m, t) == t + tuple_size(m, t)

-----------------------------------------------------------------------------
(***************************************************************************)
(* tuple_init switches on the type that is ALREADY in the buffer at t, not *)
(* on the type it is asked to create: what it writes besides the type and  *)
(* the ID depends on what the buffer held before.                          *)
(***************************************************************************)
TupleInitOk(m, t) == TupleType(m, t) <= TUPLE_ARRAY

(* Mutant: a tuple that has a type keeps it. *)
init_keeping_type(m, t, type, id, size) ==
  LET kept == IF TupleType(m, t) = STD THEN type ELSE TupleType(m, t)
  IN Store(m, t, TupleWord(kept, id))

tuple_init(m, t, type, id, size) ==
  LET m1 == Store(m, t, TupleWord(type, id))
      sz == size % 65536                       \* the parameter is uint16_t
  IN CASE TupleType(m, t) = STD -> Store(m1, t + 2, sz \div 4)
       [] TupleType(m, t) = HD  -> m1
       [] TupleType(m, t) \in {STD_ARRAY, HD_ARRAY}    -> Store(m1, t + 2, sz)
       [] TupleType(m, t) \in {VAR_ARRAY, TUPLE_ARRAY} -> Store(m1, t + 4, sz)
       [] OTHER                 -> m

(* The bytes from t that tuple_init may have written. *)
TupleInitExtent(m, t) ==
  CASE TupleType(m, t) = HD                         -> 2
    [] TupleType(m, t) \in {VAR_ARRAY, TUPLE_ARRAY} -> 6
    [] OTHER                                        -> 4

(* Mutant: the datum of a micro tuple stays where it was. *)
inc_elems_in_place(m, t) ==
  CASE TupleType(m, t) = STD ->
         Store(Store(m, t, Half(m, t) + 2), t + 2, Count(m, t) + 1)
    [] TupleType(m, t) = HD ->
         Store(Store(m, t, Half(m, t) + 2), t + 2, 2)
    [] TupleType(m, t) \in {STD_ARRAY, HD_ARRAY, VAR_ARRAY, TUPLE_ARRAY} ->
         Store(m, t + 2, Count(m, t) + 1)
    [] OTHER -> m

(***************************************************************************)
(* tuple_inc_elems adds one item to a tuple, first turning a single tuple  *)
(* into an array.  A micro tuple keeps its datum in the count field, so it *)
(* is moved to data[0] and the data now starts two bytes later.            *)
(***************************************************************************)
tuple_inc_elems(m, t) ==
  CASE TupleType(m, t) = STD ->
         Store(Store(m, t, Half(m, t) + 2), t + 2, Count(m, t) + 1)
    [] TupleType(m, t) = HD ->
         Store(Store(Store(m, t, Half(m, t) + 2), t + 4, Half(m, t + 2)),
               t + 2, 2)
    [] TupleType(m, t) \in {STD_ARRAY, HD_ARRAY, VAR_ARRAY, TUPLE_ARRAY} ->
         Store(m, t + 2, Count(m, t) + 1)
    [] OTHER -> m

SizeIncrease(m, t) == IF TupleType(m, t) = HD THEN 2 ELSE 0

-----------------------------------------------------------------------------
(***************************************************************************)
(* Elements: struct ipct_tuple_elem maps a C member to a tuple ID.         *)
(***************************************************************************)
HalfWordTypes == {"int8_value", "uint8_value", "uint8_mask", "int16_value",
                  "uint16_value", "uint16_mask", "boolean"}
WordTypes     == {"int32_value", "uint32_value", "uint32_mask", "enum",
                  "float_value"}
LongTypes     == {"int64_value", "uint64_value", "uint64_mask",
                  "double_value"}
SizedTypes    == {"string", "data"}
DataTypes     == HalfWordTypes \cup WordTypes \cup LongTypes
                   \cup SizedTypes \cup {"uuid"}

Elem == [id : U16, type : DataTypes, offset : Nat, value1 : Nat, value2 : Nat]

(* An action descriptor, struct ipct_action_struct_desc: the size of the C *)
(* structure and the two sets of elements.  Its subactions are left out:   *)
(* packing never reads them, and get_tuple_elem drops what it finds there. *)
Desc == [size : Nat, mandatory : SUBSET Elem, optional : SUBSET Elem]

Elems(d) == d.mandatory \cup d.optional

ipct_get_type(type) == IF type \in HalfWordTypes THEN HD ELSE STD

elem_get_data_size(e) ==
  CASE e.type \in HalfWordTypes -> 2
    [] e.type \in WordTypes     -> 4
    [] e.type \in LongTypes     -> 8
    [] e.type = "uuid"          -> 16
    [] OTHER                    -> e.value2

=============================================================================
