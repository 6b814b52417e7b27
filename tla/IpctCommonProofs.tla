-------------------------- MODULE IpctCommonProofs --------------------------
(***************************************************************************)
(* Lemmas about the tuple ABI, the header and the tables that the proofs   *)
(* about packing and unpacking share.                                      *)
(***************************************************************************)
EXTENDS IpctRegistry, TLAPS

(* The 16-bit values, as the arithmetic below needs them. *)
LEMMA U16Elim ==
  ASSUME NEW x \in U16
  PROVE  x \in Nat /\ x \in Int /\ x < 65536
BY SMT DEF U16

(* A number that fits 16 bits is one of them. *)
LEMMA U16Intro ==
  ASSUME NEW x \in Nat, x < 65536
  PROVE  x \in U16
BY SMT DEF U16

(* The bit fields of the first cell. *)
LEMMA BitFields ==
  ASSUME NEW x \in U16
  PROVE  /\ x % 8 \in Nat /\ x % 8 < 8
         /\ x \div 8 \in Nat /\ x \div 8 < 8192
<1>1. x \in Nat /\ x < 65536
  BY U16Elim
<1>2. QED
  BY <1>1, SMT

(* A byte address below the end of n cells reads as a 16-bit value. *)
LEMMA CellType ==
  ASSUME NEW n \in Nat, NEW m \in [0 .. n - 1 -> U16],
         NEW a \in Nat, a < 2 * n
  PROVE  Half(m, a) \in U16
<1>1. a \div 2 \in 0 .. n - 1
  OBVIOUS
<1>2. QED
  BY <1>1 DEF Half

-----------------------------------------------------------------------------
(* The header's sizes are a whole number of cells. *)
LEMMA HdrSizeType ==
  ASSUME NEW m
  PROVE  /\ HdrSize(m) \in Nat /\ HdrSize(m) % 2 = 0
         /\ ElemsPtr(m) \in {4, 12}
BY SMT DEF HdrSize, ElemsPtr, RouteAdd, ElemsAdd, SizeofHdr, SizeofRoute,
           SizeofElems

(* Descriptors come from the registry; their elements are typed, and NULL  *)
(* is not one of them.                                                     *)
LEMMA KnownElems ==
  ASSUME NEW d, Known(d)
  PROVE  /\ d \in Desc
         /\ Elems(d) \subseteq Elem
         /\ Elems(d) \subseteq AllElems
         /\ \A e \in Elems(d) : e # NULL /\ e.id \in Nat /\ e.offset \in Nat
         /\ \A e, f \in Elems(d) : e.id = f.id => e = f
<1>1. PICK key \in DOMAIN Registry : d = Registry[key]
  BY DEF Known
<1>2. d \in Desc
  BY <1>1, RegistryAssumption
<1>3. Elems(d) \subseteq Elem
  BY <1>2 DEF Desc, Elems
<1>4. Elems(d) \subseteq AllElems
  BY <1>1 DEF AllElems
<1>5. \A e \in Elems(d) : e # NULL
  BY <1>4, RegistryAssumption
<1>6. \A e \in Elem : e.id \in Nat /\ e.offset \in Nat
  BY DEF Elem, U16
<1>7. \A e, f \in Elems(d) : e.id = f.id => e = f
  BY <1>1, RegistryAssumption
<1>8. QED
  BY <1>2, <1>3, <1>4, <1>5, <1>6, <1>7

(* What the lookup of an action returns is one of the registry's. *)
LEMMA GetActionDef ==
  ASSUME NEW id, get_action_def(id) # NULL
  PROVE  Known(get_action_def(id))
BY DEF get_action_def, Known

(* The size of an element is a number of bytes. *)
LEMMA DataSizeType ==
  ASSUME NEW e, e.value2 \in Nat
  PROVE  elem_get_data_size(e) \in Nat
<1> DEFINE n == e.value2
           type == e.type
<1>1. elem_get_data_size(e) =
        CASE type \in HalfWordTypes -> 2
          [] type \in WordTypes     -> 4
          [] type \in LongTypes     -> 8
          [] type = "uuid"          -> 16
          [] OTHER                  -> n
  BY SMT DEF elem_get_data_size
<1>2. n \in Nat
  OBVIOUS
<1> HIDE DEF n, type
<1>3. QED
  BY <1>1, <1>2, SMT

=============================================================================
