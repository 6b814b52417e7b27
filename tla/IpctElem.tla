------------------------------ MODULE IpctElem ------------------------------
(***************************************************************************)
(* Validating and storing one datum: the ipc_data_*_get functions of       *)
(* unpack.c and the switch of elem_insert_data that chooses among them.    *)
(*                                                                         *)
(* A datum is known by its 16-bit cells, lowest first: c[k] is the k-th.   *)
(* Values of 32 and 64 bits are compared cell by cell, which is what the   *)
(* comparison of the integers comes to.                                    *)
(***************************************************************************)
EXTENDS IpctTuple

(* The comparison of floating-point values is the compiler's: is the datum *)
(* c between the element's bounds, converted to its type?                  *)
CONSTANT FloatInRange(_, _)

(* The types whose datum is checked against a mask.                        *)
MaskTypes == {"uint8_mask", "uint16_mask", "uint32_mask", "uint64_mask"}

(* The types whose datum is compared as a signed number.                   *)
SignedTypes == {"int16_value", "int32_value", "int64_value"}

FloatTypes == {"float_value", "double_value"}

(* Blocks of bytes: copied up to value1 and padded with zeros to the size. *)
BlockTypes == SizedTypes \cup {"uuid"}

ByteTypes == {"int8_value", "uint8_value", "uint8_mask"}

CellsOf(e) == elem_get_data_size(e) \div 2

-----------------------------------------------------------------------------
(* Cell k of a validation value, an unsigned long of which as many bits    *)
(* are used as the type has.                                               *)
ValueCell(v, k) ==
  CASE k = 0 -> v % 65536
    [] k = 1 -> (v \div 65536) % 65536
    [] k = 2 -> ((v \div 65536) \div 65536) % 65536
    [] OTHER -> (((v \div 65536) \div 65536) \div 65536) % 65536

(* The top cell of a signed number, so that signed order becomes unsigned. *)
Biased(e, k, cell) ==
  IF e.type \in SignedTypes /\ k = CellsOf(e) - 1 THEN (cell + 32768) % 65536
                                                  ELSE cell

(* Is the number of n cells x less than y? *)
Less(x, y, n) ==
  \E k \in 0 .. n - 1 : /\ x[k] < y[k]
                        /\ \A j \in k + 1 .. n - 1 : x[j] = y[j]

(* A byte-wide bound as the signed number it is for an int8_t. *)
AsInt8(v) == IF v % 256 >= 128 THEN (v % 256) - 256 ELSE v % 256

Bit(cell, i) == (cell \div (2 ^ i)) % 2

-----------------------------------------------------------------------------
(* ipc_data_int8_get and ipc_data_uint8_get compare all sixteen bits of    *)
(* the datum with byte-wide bounds.                                        *)
ByteInRange(e, c) ==
  IF e.type = "int8_value"
  THEN AsInt8(e.value1) <= c[0] /\ c[0] <= AsInt8(e.value2)
  ELSE e.value1 % 256 <= c[0] /\ c[0] <= e.value2 % 256

(* The other integer comparisons, enum and boolean among them. *)
IntInRange(e, c) ==
  LET n    == CellsOf(e)
      x    == [k \in 0 .. n - 1 |-> Biased(e, k, c[k])]
      low  == [k \in 0 .. n - 1 |-> Biased(e, k, ValueCell(e.value1, k))]
      high == [k \in 0 .. n - 1 |-> Biased(e, k, ValueCell(e.value2, k))]
  IN ~ Less(x, low, n) /\ ~ Less(high, x, n)

(* ipc_data_*_mask_get: valid bits are in the mask only; the 8-bit mask    *)
(* looks at the low byte of the datum.                                     *)
InMask(e, c) ==
  \A k \in 0 .. CellsOf(e) - 1 :
    \A i \in 0 .. IF e.type = "uint8_mask" THEN 7 ELSE 15 :
      Bit(c[k], i) = 1 => Bit(ValueCell(e.value1, k), i) = 1

(* Is the datum c one the element accepts? *)
ValueOk(e, c) ==
  CASE e.type \in MaskTypes                   -> InMask(e, c)
    [] e.type \in FloatTypes                  -> FloatInRange(e, c)
    [] e.type \in {"int8_value", "uint8_value"} -> ByteInRange(e, c)
    [] e.type \in BlockTypes                  -> e.value1 <= elem_get_data_size(e)
    [] OTHER                                  -> IntInRange(e, c)

-----------------------------------------------------------------------------
(* Cell k of the member after the datum c is stored over old: one byte of  *)
(* an 8-bit value; of a block, value1 bytes and then zeros; otherwise the  *)
(* datum.                                                                  *)
StoredCell(e, c, old, k) ==
  IF e.type \in ByteTypes THEN (c[k] % 256) + 256 * (old \div 256)
  ELSE IF e.type \in BlockTypes
  THEN IF 2 * k + 1 < e.value1 THEN c[k]
       ELSE IF 2 * k < e.value1 THEN c[k] % 256 ELSE 0
  ELSE c[k]

=============================================================================
