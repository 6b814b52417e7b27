--------------------------- MODULE IpctPackProofs ---------------------------
(***************************************************************************)
(* Proofs about the packer, for every registry, structure, buffer size and *)
(* buffer content; and about the message it leaves behind: which elements  *)
(* share a tuple, whatever the tables and the buffer hold, and what the    *)
(* tuples of a message packed into a cleared buffer say.                   *)
(***************************************************************************)
EXTENDS IpctPack, IpctCommonProofs, FiniteSetTheorems, WellFoundedInduction

(***************************************************************************)
(* Buffer access.                                                          *)
(***************************************************************************)

(* What a 16-bit field keeps of a number. *)
LEMMA Mod16 ==
  ASSUME NEW v \in Int
  PROVE  v % 65536 \in U16
<1>1. v % 65536 \in Nat /\ v % 65536 < 65536
  BY SMT
<1>2. QED
  BY <1>1, U16Intro

(* An address below the end of the memory reads as a 16-bit value. *)
LEMMA HalfType ==
  ASSUME NEW m \in Memory, NEW a \in Nat, a < 2 * Cells
  PROVE  Half(m, a) \in U16
<1>1. a \div 2 \in 0 .. Cells - 1
  BY MemoryAssumption
<1>2. QED
  BY <1>1 DEF Memory, Half

(* A store keeps the memory a memory. *)
LEMMA StoreType ==
  ASSUME NEW m \in Memory, NEW a \in Nat, NEW v \in Int
  PROVE  Store(m, a, v) \in Memory
<1>1. v % 65536 \in U16
  BY Mod16
<1>2. \A k, w : w \in U16 => [m EXCEPT ![k] = w] \in Memory
  BY DEF Memory
<1>3. QED
  BY <1>1, <1>2 DEF Store

(* It is read back from its own cell, and no other cell changes. *)
LEMMA StoreRead ==
  ASSUME NEW m \in Memory, NEW a \in Nat, NEW v \in Int,
         NEW b \in Nat, b < 2 * Cells
  PROVE  /\ a \div 2 = b \div 2 => Half(Store(m, a, v), b) = v % 65536
         /\ a \div 2 # b \div 2 => Half(Store(m, a, v), b) = Half(m, b)
<1>1. b \div 2 \in 0 .. Cells - 1
  BY MemoryAssumption
<1>2. QED
  BY <1>1 DEF Memory, Store, Half

(* Copying a member keeps the memory a memory ... *)
LEMMA CopyInType ==
  ASSUME NEW m \in Memory, NEW a \in Nat, NEW size \in Nat, NEW v,
         size % 2 = 0, \A k \in 0 .. (size \div 2) - 1 : v[k] \in U16
  PROVE  CopyIn(m, a, v, size) \in Memory
<1>1. ASSUME NEW c \in 0 .. Cells - 1, c >= a \div 2, c < (a + size) \div 2
      PROVE  v[c - (a \div 2)] \in U16
  <2>1. c - (a \div 2) \in 0 .. (size \div 2) - 1
    BY <1>1, MemoryAssumption
  <2>2. QED
    BY <2>1
<1>2. \A c \in 0 .. Cells - 1 : m[c] \in U16
  BY DEF Memory
<1>3. DOMAIN m = 0 .. Cells - 1
  BY DEF Memory
<1>4. QED
  BY <1>1, <1>2, <1>3 DEF Memory, CopyIn

(* ... and leaves the cells before it alone. *)
LEMMA CopyInRead ==
  ASSUME NEW m \in Memory, NEW a \in Nat, NEW size \in Nat, NEW v,
         NEW b \in Nat, b < 2 * Cells, b \div 2 < a \div 2
  PROVE  Half(CopyIn(m, a, v, size), b) = Half(m, b)
<1>1. b \div 2 \in 0 .. Cells - 1
  BY MemoryAssumption
<1>2. QED
  BY <1>1 DEF Memory, CopyIn, Half

-----------------------------------------------------------------------------
(***************************************************************************)
(* The helpers that read and change a tuple.                               *)
(***************************************************************************)

(* A tuple's header lies in memory when its first eight bytes do. *)
LEMMA HeaderType ==
  ASSUME NEW m \in Memory, NEW t \in Nat, t + 8 <= 2 * Cells
  PROVE  /\ Half(m, t) \in U16 /\ Count(m, t) \in U16 /\ ElemBytes(m, t) \in U16
         /\ TupleType(m, t) \in Nat /\ TupleType(m, t) < 8
         /\ TupleId(m, t) \in Nat /\ TupleId(m, t) < 8192
<1>1. /\ t < 2 * Cells /\ t + 2 \in Nat /\ t + 2 < 2 * Cells
      /\ t + 4 \in Nat /\ t + 4 < 2 * Cells
  BY MemoryAssumption, SMT
<1>2. /\ Half(m, t) \in U16 /\ Half(m, t + 2) \in U16 /\ Half(m, t + 4) \in U16
  BY <1>1, HalfType
<1>3. QED
  BY <1>2, BitFields DEF Count, ElemBytes, TupleType, TupleId

(* The type and ID of a tuple word are found again in it. *)
LEMMA TupleWordType ==
  ASSUME NEW type \in {STD, HD}, NEW id \in U16
  PROVE  /\ TupleWord(type, id) \in Int
         /\ (TupleWord(type, id) % 65536) % 8 = type
<1>1. type \in Nat /\ type < 8
  BY SMT DEF STD, HD
<1>2. ASSUME NEW k \in Nat, k < 8192
      PROVE  type + 8 * k \in Int /\ ((type + 8 * k) % 65536) % 8 = type
  BY <1>1, SMT
<1>3. id \in Int
  BY U16Elim
<1>4. id % 8192 \in Nat /\ id % 8192 < 8192
  BY <1>3, SMT
<1>5. QED
  BY <1>2, <1>4 DEF TupleWord

(* Whatever type the buffer held at t, after tuple_init it holds the one   *)
(* asked for.                                                              *)
LEMMA TupleInitType ==
  ASSUME NEW m \in Memory, NEW t \in Nat, t + 8 <= 2 * Cells,
         NEW type \in {STD, HD}, NEW id \in U16, NEW size \in Nat,
         TupleInitOk(m, t)
  PROVE  /\ tuple_init(m, t, type, id, size) \in Memory
         /\ TupleType(tuple_init(m, t, type, id, size), t) = type
<1> DEFINE m1 == Store(m, t, TupleWord(type, id))
           sz == size % 65536
<1>1. TupleWord(type, id) \in Int /\ (TupleWord(type, id) % 65536) % 8 = type
  BY TupleWordType
<1>2. t < 2 * Cells
  BY MemoryAssumption
<1>3. m1 \in Memory /\ TupleType(m1, t) = type
  BY <1>1, <1>2, StoreType, StoreRead DEF TupleType
<1>4. ASSUME NEW a \in {t + 2, t + 4}, NEW v \in Int
      PROVE  Store(m1, a, v) \in Memory /\ TupleType(Store(m1, a, v), t) = type
  <2>1. a \in Nat /\ a \div 2 # t \div 2
    OBVIOUS
  <2> HIDE DEF m1
  <2>2. Half(Store(m1, a, v), t) = Half(m1, t)
    BY <1>2, <1>3, <2>1, StoreRead
  <2>3. QED
    BY <1>3, <2>1, <2>2, StoreType DEF TupleType
<1>5. sz \in Int /\ sz \div 4 \in Int
  OBVIOUS
<1>6. TupleType(m, t) \in Nat
  BY HeaderType
<1>7. TupleType(m, t) \in {0, 1, 2, 3, 4, 5}
  BY <1>6, SMT DEF TupleInitOk, TUPLE_ARRAY
<1>8. tuple_init(m, t, type, id, size) \in
        {m1, Store(m1, t + 2, sz \div 4), Store(m1, t + 2, sz),
         Store(m1, t + 4, sz)}
  <2> HIDE DEF m1, sz
  <2>1. tuple_init(m, t, type, id, size) =
          CASE TupleType(m, t) = STD -> Store(m1, t + 2, sz \div 4)
            [] TupleType(m, t) = HD  -> m1
            [] TupleType(m, t) \in {STD_ARRAY, HD_ARRAY} -> Store(m1, t + 2, sz)
            [] TupleType(m, t) \in {VAR_ARRAY, TUPLE_ARRAY} ->
                 Store(m1, t + 4, sz)
            [] OTHER -> m
    BY DEF tuple_init, m1, sz
  <2>2. QED
    BY <1>7, <2>1 DEF STD, HD, STD_ARRAY, HD_ARRAY, VAR_ARRAY, TUPLE_ARRAY
<1>9. QED
  BY <1>3, <1>4, <1>5, <1>8

(* Growing a tuple of the four types the packer uses turns it into an      *)
(* array, or leaves it one.                                                *)
SingleTypes == {STD, HD}
ArrayTypes  == {STD_ARRAY, HD_ARRAY}

(* tuple_inc_elems leaves a memory whose tuple is an array. *)
LEMMA TupleIncType ==
  ASSUME NEW m \in Memory, NEW t \in Nat, t + 8 <= 2 * Cells,
         TupleType(m, t) \in SingleTypes \cup ArrayTypes
  PROVE  /\ tuple_inc_elems(m, t) \in Memory
         /\ TupleType(tuple_inc_elems(m, t), t) \in ArrayTypes
<1>1. t < 2 * Cells /\ t + 2 \in Nat /\ t + 4 \in Nat
  BY MemoryAssumption
<1>2. /\ Half(m, t) \in U16 /\ Count(m, t) \in U16 /\ Half(m, t + 2) \in U16
      /\ Half(m, t) \in Int /\ Count(m, t) + 1 \in Int /\ Half(m, t + 2) \in Int
  <2>1. Half(m, t) \in U16 /\ Count(m, t) \in U16 /\ Half(m, t + 2) \in U16
    BY HeaderType DEF Count
  <2>2. Half(m, t) \in Int /\ Count(m, t) \in Int /\ Half(m, t + 2) \in Int
    BY <2>1, U16Elim
  <2>3. QED
    BY <2>1, <2>2, SMT
<1> DEFINE grown == Store(m, t, Half(m, t) + 2)
           moved == Store(grown, t + 4, Half(m, t + 2))
<1>3. ASSUME NEW n \in Memory, NEW a \in {t + 2, t + 4}, NEW v \in Int
      PROVE  Store(n, a, v) \in Memory
             /\ TupleType(Store(n, a, v), t) = TupleType(n, t)
  <2>1. a \in Nat /\ a \div 2 # t \div 2
    OBVIOUS
  <2>2. Half(Store(n, a, v), t) = Half(n, t)
    BY <1>1, <2>1, StoreRead
  <2>3. QED
    BY <2>1, <2>2, StoreType DEF TupleType
<1>4. CASE TupleType(m, t) \in SingleTypes
  <2>1. ((Half(m, t) + 2) % 65536) % 8 = TupleType(m, t) + 2
    <3>1. ASSUME NEW x \in Nat, x < 65536, x % 8 \in {0, 1}
          PROVE  ((x + 2) % 65536) % 8 = (x % 8) + 2
      BY <3>1, SMT
    <3>2. Half(m, t) \in Nat /\ Half(m, t) < 65536
      BY <1>2, U16Elim
    <3>3. QED
      BY <1>4, <3>1, <3>2 DEF TupleType, SingleTypes, STD, HD
  <2>2. grown \in Memory /\ TupleType(grown, t) = TupleType(m, t) + 2
    <3>1. Half(m, t) + 2 \in Int
      BY <1>2, SMT
    <3>2. QED
      BY <1>1, <2>1, <3>1, StoreType, StoreRead DEF TupleType
  <2>3. TupleType(grown, t) \in ArrayTypes
    BY <1>4, <2>2 DEF SingleTypes, ArrayTypes, STD, HD, STD_ARRAY, HD_ARRAY
  <2> HIDE DEF grown
  <2>4. moved \in Memory /\ TupleType(moved, t) \in ArrayTypes
    BY <1>2, <1>3, <2>2, <2>3
  <2> HIDE DEF moved
  <2>5. tuple_inc_elems(m, t) \in
          {Store(grown, t + 2, Count(m, t) + 1), Store(moved, t + 2, 2)}
    BY <1>4 DEF tuple_inc_elems, grown, moved, SingleTypes, STD, HD,
                STD_ARRAY, HD_ARRAY, VAR_ARRAY, TUPLE_ARRAY
  <2>6. QED
    <3>1. \A n \in {grown, moved} : \A v \in Int :
            /\ Store(n, t + 2, v) \in Memory
            /\ TupleType(Store(n, t + 2, v), t) \in ArrayTypes
      BY <1>3, <2>2, <2>3, <2>4
    <3>2. 2 \in Int /\ Count(m, t) + 1 \in Int
      BY <1>2
    <3>3. QED
      BY <2>5, <3>1, <3>2
<1>5. CASE TupleType(m, t) \in ArrayTypes
  <2>1. tuple_inc_elems(m, t) = Store(m, t + 2, Count(m, t) + 1)
    BY <1>5 DEF tuple_inc_elems, ArrayTypes, STD, HD,
                STD_ARRAY, HD_ARRAY, VAR_ARRAY, TUPLE_ARRAY
  <2>2. QED
    BY <1>2, <1>3, <1>5, <2>1
<1>6. QED
  BY <1>4, <1>5

(* A tuple is at least its header long, and a whole number of cells. *)
LEMMA TupleSizeEven ==
  ASSUME NEW m \in Memory, NEW t \in Nat, t + 8 <= 2 * Cells,
         TupleType(m, t) \in SingleTypes \cup ArrayTypes
  PROVE  /\ tuple_size(m, t) \in Nat /\ tuple_size(m, t) >= 4
         /\ tuple_size(m, t) % 2 = 0
<1>1. Count(m, t) \in Nat
  BY HeaderType, U16Elim
<1>2. tuple_size(m, t) \in {4 + 4 * Count(m, t), 4, 4 + 2 * Count(m, t)}
  BY DEF tuple_size, SingleTypes, ArrayTypes, STD, HD, STD_ARRAY, HD_ARRAY,
         VAR_ARRAY, TUPLE_ARRAY, SizeofStd, SizeofMicro
<1>3. QED
  BY <1>1, <1>2

(* Items of arrays are half-words or words. *)
LEMMA ArrayDataSize ==
  ASSUME NEW m \in Memory, NEW t, TupleType(m, t) \in ArrayTypes
  PROVE  tuple_data_size(m, t) \in {2, 4}
<1> DEFINE type == TupleType(m, t)
<1>1. CASE type = STD_ARRAY
  <2>1. tuple_data_size(m, t) = 4
    BY <1>1, SMT DEF tuple_data_size, STD, HD, STD_ARRAY, HD_ARRAY, VAR_ARRAY,
                     TUPLE_ARRAY
  <2>2. QED
    BY <2>1
<1>2. CASE type = HD_ARRAY
  <2>1. tuple_data_size(m, t) = 2
    BY <1>2, SMT DEF tuple_data_size, STD, HD, STD_ARRAY, HD_ARRAY, VAR_ARRAY,
                     TUPLE_ARRAY
  <2>2. QED
    BY <2>1
<1>3. QED
  BY <1>1, <1>2 DEF ArrayTypes

-----------------------------------------------------------------------------
(***************************************************************************)
(* The tables of elements.                                                 *)
(***************************************************************************)

(* A set of elements that is not empty has one with the lowest ID. *)
LEMMA LowestIsLowest ==
  ASSUME NEW S, S # {}, \A e \in S : e.id \in Nat
  PROVE  Lowest(S) \in S /\ \A f \in S : Lowest(S).id <= f.id
<1> DEFINE ids == {e.id : e \in S}
           Less == OpToRel(<, Nat)
<1>1. ids \subseteq Nat /\ ids # {}
  OBVIOUS
<1>2. IsWellFoundedOn(Less, Nat)
  BY NatLessThanWellFounded
<1>3. PICK n \in ids : \A k \in ids : ~ (<<k, n>> \in Less)
  <2> HIDE DEF Less, ids
  <2>1. QED
    BY <1>1, <1>2, WFMin, Zenon
<1>4. \A k \in ids : n <= k
  <2>1. ASSUME NEW k \in ids PROVE ~ (k < n)
    <3> DEFINE ss == <<k, n>>
    <3>1. k \in Nat /\ n \in Nat /\ ss \notin Less
      BY <1>1, <1>3
    <3>2. ss \in Nat \X Nat /\ ss[1] = k /\ ss[2] = n
      BY <3>1
    <3> HIDE DEF ss
    <3>3. ss \in Less <=> ss[1] < ss[2]
      BY <3>2 DEF OpToRel
    <3>4. QED
      BY <3>1, <3>2, <3>3
  <2>2. QED
    <3> HIDE DEF ids
    <3>1. QED
      BY <1>1, <2>1, SMT
<1>5. PICK e \in S : e.id = n
  BY <1>3
<1>6. \A f \in S : e.id <= f.id
  BY <1>4, <1>5
<1>7. QED
  BY <1>5, <1>6 DEF Lowest

(* The first element is one of the table's, or NULL. *)
LEMMA FirstElem ==
  ASSUME NEW d, Known(d)
  PROVE  get_first_elem(d) \in Elems(d) \cup {NULL}
<1> DEFINE mandatory == {e \in d.mandatory : e.id < IPCT_TUPLE_MAX_ID}
           id == IF mandatory = {} THEN IPCT_TUPLE_MAX_ID
                                   ELSE Lowest(mandatory).id
           optional == {e \in d.optional : e.id = id}
<1>1. /\ mandatory \subseteq Elems(d) /\ optional \subseteq Elems(d)
      /\ \A e \in Elems(d) : e.id \in Nat
  BY KnownElems DEF Elems
<1>2. get_first_elem(d) = IF optional # {} THEN Lowest(optional)
                          ELSE LowestOrNull(mandatory)
  BY DEF get_first_elem
<1> HIDE DEF mandatory, id, optional
<1>3. optional # {} => Lowest(optional) \in Elems(d)
  BY <1>1, LowestIsLowest
<1>4. LowestOrNull(mandatory) \in Elems(d) \cup {NULL}
  BY <1>1, LowestIsLowest DEF LowestOrNull
<1>5. QED
  BY <1>2, <1>3, <1>4

(* The next element is the lowest above the current one, or NULL when      *)
(* there is none.                                                          *)
After(d, cur) == {e \in Elems(d) : e.id > cur.id /\ e.id < IPCT_TUPLE_MAX_ID}

(* get_next_elem returns the lowest element above the current one, or      *)
(* NULL.                                                                   *)
LEMMA NextElem ==
  ASSUME NEW d, Known(d), NEW cur
  PROVE  /\ get_next_elem(d, cur) = NULL <=> After(d, cur) = {}
         /\ get_next_elem(d, cur) # NULL =>
              /\ get_next_elem(d, cur) \in After(d, cur)
              /\ \A e \in After(d, cur) : get_next_elem(d, cur).id <= e.id
<1>1. /\ After(d, cur) \subseteq Elems(d)
      /\ \A e \in Elems(d) : e.id \in Nat /\ e # NULL
  BY KnownElems DEF After
<1>2. get_next_elem(d, cur) = LowestOrNull(After(d, cur))
  BY DEF get_next_elem, After
<1>3. After(d, cur) # {} =>
        /\ Lowest(After(d, cur)) \in After(d, cur)
        /\ \A e \in After(d, cur) : Lowest(After(d, cur)).id <= e.id
  BY <1>1, LowestIsLowest
<1>4. QED
  BY <1>1, <1>2, <1>3 DEF LowestOrNull

-----------------------------------------------------------------------------
(***************************************************************************)
(* Facts of one step.                                                      *)
(***************************************************************************)

(* Aligning an even offset gives a word address that is not lower. *)
LEMMA AlignIsWord ==
  ASSUME NEW o \in Nat, o % 2 = 0
  PROVE  Align(o) \in Nat /\ Align(o) % 4 = 0 /\ Align(o) >= o
BY SMT DEF Align

(* The larger of two numbers is one of them. *)
LEMMA MaxIsNat ==
  ASSUME NEW a \in Nat, NEW b \in Nat
  PROVE  MaxOf(a, b) \in Nat
BY DEF MaxOf

(* What the invariant says of the element a call is at. *)
LEMMA CurrentElem ==
  ASSUME AlignInv, pc = "pack"
  PROVE  /\ Known(action) /\ action # NULL
         /\ current \in Elems(action) /\ current \in Elem /\ current \in AllElems
         /\ current.id \in U16 /\ current.offset \in Nat
         /\ SizeOfCurrent \in Nat /\ SizeOfCurrent % 2 = 0
         /\ \A k \in 0 .. (SizeOfCurrent \div 2) - 1 :
              ctx.src[current.offset][k] \in U16
         /\ SingleType \in {STD, HD}
         /\ ctx \in Context
<1>1. /\ Known(action) /\ action # NULL /\ current \in Elems(action)
      /\ ctx \in Context
  BY DEF AlignInv, TypeOK, Registered
<1>2. current \in Elem /\ current \in AllElems
  BY <1>1, KnownElems
<1>3. /\ current.id \in U16 /\ current.offset \in Nat /\ current.value2 \in Nat
  BY <1>2 DEF Elem
<1>4. SizeOfCurrent \in Nat
  BY <1>3, DataSizeType DEF SizeOfCurrent
<1>5. SizeOfCurrent % 2 = 0
  BY <1>2, EvenAssumption DEF SizeOfCurrent
<1>6. \A k \in 0 .. (SizeOfCurrent \div 2) - 1 :
        ctx.src[current.offset][k] \in U16
  BY <1>1, <1>2, CallAssumption DEF Context, SizeOfCurrent
<1>7. SingleType \in {STD, HD}
  BY DEF SingleType, ipct_get_type
<1>8. QED
  BY <1>1, <1>2, <1>3, <1>4, <1>5, <1>6, <1>7

(* An address the buffer check accepts leaves room for a tuple's header.   *)
LEMMA AddressInMemory ==
  ASSUME ctx \in Context, NEW a \in Nat, is_ptr_valid(a)
  PROVE  a + 8 <= 2 * Cells
<1>1. ctx.dest_size \in DestSizes
  BY DEF Context
<1>2. ctx.dest_size + 8 <= 2 * Cells /\ ctx.dest_size \in Nat
  BY <1>1, MemoryAssumption
<1>3. QED
  BY <1>2, MemoryAssumption DEF is_ptr_valid

(* init_header keeps the memory a memory. *)
LEMMA InitHeaderType ==
  ASSUME NEW m \in Memory, NEW id \in Nat
  PROVE  init_header(m, id) \in Memory
<1> DEFINE high == (id \div 65536) % 65536
           flag == IF (high \div ElemsBit) % 2 = 1 THEN high ELSE high + ElemsBit
<1>1. high \in Int
  BY SMT
<1>2. flag \in Int
  BY <1>1, SMT DEF ElemsBit
<1>3. Store(m, 0, id) \in Memory
  BY StoreType
<1>4. Store(Store(m, 0, id), 2, flag) \in Memory
  <2> HIDE DEF flag
  <2>1. QED
    BY <1>2, <1>3, StoreType
<1>5. QED
  BY <1>4 DEF init_header

-----------------------------------------------------------------------------
(***************************************************************************)
(* Every step preserves AlignInv.                                          *)
(***************************************************************************)
USE DEF EINVAL

(* The invariant at the start. *)
LEMMA AlignInit == Init => AlignInv
<1> SUFFICES ASSUME Init PROVE AlignInv
  OBVIOUS
<1>1. TypeOK
  <2>1. mem \in Memory
    BY MemoryAssumption DEF Init
  <2>2. 0 + 8 <= 2 * Cells
    BY MemoryAssumption
  <2>3. QED
    BY <2>1, <2>2 DEF Init, TypeOK
<1>2. OpenTuple /\ Registered /\ TuplesWordAligned
  BY DEF Init, OpenTuple, Registered, TuplesWordAligned
<1>3. QED
  BY <1>1, <1>2 DEF AlignInv

(* A client's call, and the collection of its result. *)
LEMMA AlignClient ==
  ASSUME AlignInv, Client
  PROVE  AlignInv'
<1>1. CASE Collect
  <2>1. mem' \in Memory
    BY <1>1, MemoryAssumption DEF Collect, AlignInv, TypeOK
  <2>2. 0 + 8 <= 2 * Cells
    BY MemoryAssumption
  <2>3. TypeOK'
    BY <1>1, <2>1, <2>2 DEF Collect, TypeOK
  <2>4. QED
    BY <1>1, <2>3 DEF Collect, AlignInv, OpenTuple, Registered, TuplesWordAligned
<1>2. ASSUME NEW id \in Ids, NEW src \in Sources, NEW ss \in SrcSizes,
             NEW ds \in DestSizes, ipct_msg_pack(id, src, ss, ds)
      PROVE  AlignInv'
  <2>1. ctx' \in Context
    BY <1>2 DEF ipct_msg_pack, Context
  <2>2. TypeOK'
    BY <1>2, <2>1 DEF ipct_msg_pack, AlignInv, TypeOK
  <2>3. QED
    BY <1>2, <2>2
    DEF ipct_msg_pack, AlignInv, OpenTuple, Registered, TuplesWordAligned
<1>3. QED
  BY <1>1, <1>2 DEF Client

(* A call refused before the walk. *)
LEMMA AlignBadCall ==
  ASSUME AlignInv, BadCall
  PROVE  AlignInv'
<1>1. TypeOK'
  BY DEF BadCall, Return, AlignInv, TypeOK
<1>2. QED
  BY <1>1
  DEF BadCall, Return, AlignInv, OpenTuple, Registered, TuplesWordAligned

(* The walk begins behind the header, on a word. *)
LEMMA AlignBegin ==
  ASSUME AlignInv, BeginPack
  PROVE  AlignInv'
<1>1. ctx \in Context
  BY DEF AlignInv, TypeOK, BeginPack
<1>2. mem' \in Memory
  <2>1. ctx.id \in Nat
    BY <1>1, CallAssumption DEF Context
  <2>2. QED
    BY <2>1, InitHeaderType DEF BeginPack, AlignInv, TypeOK
<1>3. offset' \in Nat /\ offset' % 2 = 0
  BY HdrSizeType DEF BeginPack
<1>4. Known(action') /\ action' # NULL
  BY GetActionDef DEF BeginPack
<1>5. current' \in Elems(action') \cup {NULL} /\ action' \in Desc
  BY <1>4, FirstElem, KnownElems DEF BeginPack
<1>6. pc' \in {"pack", "done"} /\ ret' \in Int /\ (pc' = "pack" => current' # NULL)
  BY DEF BeginPack, Return, AlignInv, TypeOK
<1>7. TypeOK'
  <2>1. /\ ctx' = ctx /\ cont' = cont /\ cont_tuple' = cont_tuple
        /\ tuples' = tuples /\ placed' = placed /\ top' \in Nat
    BY DEF BeginPack, SizeofHdr
  <2>2. QED
    BY <1>1, <1>2, <1>3, <1>4, <1>5, <1>6, <2>1 DEF AlignInv, TypeOK
<1>8. OpenTuple'
  BY DEF BeginPack, AlignInv, Registered, OpenTuple
<1>9. QED
  BY <1>3, <1>4, <1>7, <1>8
  DEF BeginPack, AlignInv, Registered, TuplesWordAligned

(* The checks that reject an element leave the message alone. *)
LEMMA AlignReject ==
  ASSUME AlignInv, RejectElem \/ RejectSingle
  PROVE  AlignInv'
<1>1. offset' \in Nat /\ ret' \in Int /\ pc' = "done"
  <2>1. Align(offset) \in Nat
    BY AlignIsWord DEF AlignInv, TypeOK, Registered, RejectElem, RejectSingle
  <2>2. QED
    BY <2>1 DEF RejectElem, RejectSingle, SingleStart, Return, AlignInv, TypeOK
<1>2. /\ mem' = mem /\ ctx' = ctx /\ action' = action /\ current' = current
      /\ cont' = cont /\ cont_tuple' = cont_tuple /\ tuples' = tuples
      /\ placed' = placed /\ top' = top /\ pc = "pack"
  BY DEF RejectElem, RejectSingle
<1>3. TypeOK'
  BY <1>1, <1>2 DEF AlignInv, TypeOK
<1>4. QED
  BY <1>1, <1>2, <1>3
  DEF AlignInv, OpenTuple, Registered, TuplesWordAligned

(* What holds at the start of a single tuple. *)
LEMMA SingleFacts ==
  ASSUME AlignInv, pc = "pack", is_ptr_valid(SingleStart),
         TupleInitOk(mem, SingleStart)
  PROVE  /\ SingleStart \in Nat /\ SingleStart % 4 = 0
         /\ SingleStart + 8 <= 2 * Cells
         /\ InitSingle \in Memory
         /\ TupleType(InitSingle, SingleStart) = SingleType
         /\ SingleData(InitSingle) \in {SingleStart + 2, SingleStart + 4}
         /\ SingleStart + TupleInitExtent(mem, SingleStart) \in Nat
<1>1. /\ mem \in Memory /\ offset \in Nat /\ offset % 2 = 0 /\ ctx \in Context
  BY DEF AlignInv, TypeOK, Registered
<1>2. SingleStart \in Nat /\ SingleStart % 4 = 0
  BY <1>1, AlignIsWord DEF SingleStart
<1>3. SingleStart + 8 <= 2 * Cells
  BY <1>1, <1>2, AddressInMemory
<1>4. /\ InitSingle \in Memory
      /\ TupleType(InitSingle, SingleStart) = SingleType
  BY <1>1, <1>2, <1>3, CurrentElem, TupleInitType DEF InitSingle
<1>5. SingleData(InitSingle) \in {SingleStart + 2, SingleStart + 4}
  <2>1. TupleType(InitSingle, SingleStart) \in {STD, HD}
    BY <1>4, CurrentElem
  <2>2. CASE TupleType(InitSingle, SingleStart) = STD
    BY <1>2, <2>2 DEF SingleData, tuple_get_data, SizeofStd, STD, HD,
                      STD_ARRAY, HD_ARRAY
  <2>3. CASE TupleType(InitSingle, SingleStart) = HD
    BY <2>3 DEF SingleData, tuple_get_data, STD, HD, STD_ARRAY, HD_ARRAY
  <2>4. QED
    BY <2>1, <2>2, <2>3
<1>6. TupleInitExtent(mem, SingleStart) \in {2, 4, 6}
  BY DEF TupleInitExtent
<1>7. QED
  BY <1>2, <1>3, <1>4, <1>5, <1>6

(* A tuple that does not fit: its header is stored all the same. *)
LEMMA AlignSingleOverflow ==
  ASSUME AlignInv, SingleOverflow
  PROVE  AlignInv'
<1>1. /\ pc = "pack" /\ is_ptr_valid(SingleStart)
      /\ TupleInitOk(mem, SingleStart)
  BY DEF SingleOverflow
<1>2. /\ SingleStart \in Nat /\ SingleStart + 8 <= 2 * Cells
      /\ InitSingle \in Memory
      /\ SingleStart + TupleInitExtent(mem, SingleStart) \in Nat
  BY <1>1, SingleFacts
<1>3. /\ mem' = InitSingle /\ offset' = SingleStart /\ cont_tuple' = SingleStart
      /\ top' = MaxOf(top, SingleStart + TupleInitExtent(mem, SingleStart))
      /\ pc' = "done" /\ ret' \in Int
      /\ ctx' = ctx /\ action' = action /\ current' = current /\ cont' = cont
      /\ tuples' = tuples /\ placed' = placed
  BY DEF SingleOverflow, Return
<1>4. top' \in Nat
  BY <1>2, <1>3, MaxIsNat DEF AlignInv, TypeOK
<1>5. TypeOK'
  BY <1>1, <1>2, <1>3, <1>4 DEF AlignInv, TypeOK
<1>6. QED
  BY <1>3, <1>5 DEF AlignInv, OpenTuple, Registered, TuplesWordAligned

(* Moving on to the next element keeps the walk inside the table. *)
LEMMA AdvanceFacts ==
  ASSUME AlignInv, pc = "pack", NEW o \in Nat, Advance(o)
  PROVE  /\ offset' = o /\ ctx' = ctx /\ action' = action /\ ret' = ret
         /\ current' # NULL => current' \in Elems(action)
         /\ pc' = IF current' = NULL THEN "complete" ELSE "pack"
         /\ cont' \in {0, 1} /\ tuples' \in Nat
<1>1. Known(action)
  BY CurrentElem
<1>2. current' = get_next_elem(action, current)
  BY DEF Advance
<1>3. current' # NULL => current' \in Elems(action)
  BY <1>1, <1>2, NextElem DEF After
<1>4. cont' \in {0, 1} /\ tuples' \in Nat
  BY DEF Advance, AlignInv, TypeOK
<1>5. QED
  BY <1>2, <1>3, <1>4 DEF Advance

(* Storing an element in tuple t keeps the history typed and aligned. *)
LEMMA PlacedFacts ==
  ASSUME AlignInv, pc = "pack", NEW t \in Nat, t % 4 = 0,
         placed' = Append(placed, [id |-> current.id, tuple |-> t])
  PROVE  placed' \in Seq(Placement) /\ TuplesWordAligned'
<1> DEFINE p == [id |-> current.id, tuple |-> t]
<1>1. p \in Placement /\ p.tuple = t
  BY CurrentElem DEF Placement
<1>2. placed \in Seq(Placement)
  BY DEF AlignInv, TypeOK
<1>3. placed' = Append(placed, p)
  OBVIOUS
<1> HIDE DEF p
<1>4. placed' \in Seq(Placement)
  BY <1>1, <1>2, <1>3
<1>5. \A i \in 1 .. Len(placed) : placed[i].tuple % 4 = 0
  BY DEF AlignInv, TuplesWordAligned
<1>6. ASSUME NEW i \in 1 .. Len(placed') PROVE placed'[i].tuple % 4 = 0
  <2>1. Len(placed') = Len(placed) + 1 /\ Len(placed) \in Nat
    BY <1>2, <1>3
  <2>2. CASE i \in 1 .. Len(placed)
    <3>1. placed'[i] = placed[i]
      BY <1>2, <1>3, <2>2
    <3>2. QED
      BY <1>5, <2>2, <3>1
  <2>3. CASE i = Len(placed) + 1
    <3>1. placed'[i] = p
      BY <1>2, <1>3, <2>3
    <3>2. QED
      BY <1>1, <3>1
  <2>4. QED
    BY <2>1, <2>2, <2>3
<1>7. QED
  BY <1>4, <1>6 DEF TuplesWordAligned

(* Once an element is stored in tuple t, which ends where the next one may *)
(* be appended, and the walk has moved on, the invariant holds again.      *)
LEMMA AlignStored ==
  ASSUME AlignInv, pc = "pack", NEW t \in Nat, t + 8 <= 2 * Cells, t % 4 = 0,
         mem' \in Memory, TupleType(mem', t) \in SingleTypes \cup ArrayTypes,
         cont_tuple' = t, top' \in Nat,
         placed' = Append(placed, [id |-> current.id, tuple |-> t]),
         NEW o \in Nat, o % 2 = 0, t + 4 <= o, Advance(o)
  PROVE  AlignInv'
<1>1. /\ offset' = o /\ ctx' = ctx /\ action' = action /\ ret' = ret
      /\ current' # NULL => current' \in Elems(action)
      /\ pc' = IF current' = NULL THEN "complete" ELSE "pack"
      /\ cont' \in {0, 1} /\ tuples' \in Nat
  BY AdvanceFacts
<1>2. placed' \in Seq(Placement) /\ TuplesWordAligned'
  BY PlacedFacts
<1>3. ctx' \in Context /\ action' \in Desc /\ action' # NULL /\ Known(action')
  BY <1>1, CurrentElem, KnownElems
<1>4. ret' \in Int
  BY <1>1 DEF AlignInv, TypeOK
<1>5. TypeOK'
  BY <1>1, <1>2, <1>3, <1>4 DEF TypeOK
<1>6. TupleType(mem', t) \in {STD, HD, STD_ARRAY, HD_ARRAY}
  BY DEF SingleTypes, ArrayTypes
<1>7. OpenTuple'
  <2>1. TupleType(mem, cont_tuple)' = TupleType(mem', t)
    BY DEF TupleType
  <2>2. QED
    BY <1>1, <1>6, <2>1 DEF OpenTuple
<1>8. Registered'
  BY <1>1, <1>3 DEF Registered
<1>9. QED
  BY <1>2, <1>5, <1>7, <1>8 DEF AlignInv

(* What a single tuple is after its datum is stored. *)
LEMMA SingleStored ==
  ASSUME AlignInv, PackSingle
  PROVE  /\ mem' \in Memory /\ top' \in Nat
         /\ TupleType(mem', SingleStart) \in SingleTypes
         /\ tuple_size(mem', SingleStart) \in Nat
         /\ tuple_size(mem', SingleStart) >= 4
         /\ tuple_size(mem', SingleStart) % 2 = 0
<1> DEFINE t == SingleStart
           data == SingleData(InitSingle)
           size == SizeOfCurrent
           v == ctx.src[current.offset]
<1>1. /\ pc = "pack" /\ is_ptr_valid(t) /\ TupleInitOk(mem, t)
      /\ mem' = CopyIn(InitSingle, data, v, size)
      /\ top' = MaxOf(MaxOf(top, data + size), t + TupleInitExtent(mem, t))
  BY DEF PackSingle
<1>2. /\ t \in Nat /\ t % 4 = 0 /\ t + 8 <= 2 * Cells
      /\ InitSingle \in Memory /\ TupleType(InitSingle, t) = SingleType
      /\ data \in {t + 2, t + 4} /\ t + TupleInitExtent(mem, t) \in Nat
  BY <1>1, SingleFacts
<1>3. /\ size \in Nat /\ size % 2 = 0 /\ SingleType \in {STD, HD}
      /\ \A k \in 0 .. (size \div 2) - 1 : v[k] \in U16
  BY <1>1, CurrentElem
<1> HIDE DEF t, data, size, v
<1>4. data \in Nat /\ t \div 2 < data \div 2 /\ t < 2 * Cells
  BY <1>2, MemoryAssumption
<1>5. mem' \in Memory
  BY <1>1, <1>2, <1>3, <1>4, CopyInType
<1>6. TupleType(mem', t) = SingleType
  <2>1. Half(mem', t) = Half(InitSingle, t)
    BY <1>1, <1>2, <1>3, <1>4, CopyInRead
  <2>2. QED
    BY <1>2, <2>1 DEF TupleType
<1>7. TupleType(mem', t) \in SingleTypes
  BY <1>3, <1>6 DEF SingleTypes
<1>8. /\ tuple_size(mem', t) \in Nat /\ tuple_size(mem', t) >= 4
      /\ tuple_size(mem', t) % 2 = 0
  BY <1>2, <1>5, <1>7, TupleSizeEven
<1>9. top' \in Nat
  <2>1. top \in Nat /\ data + size \in Nat
    BY <1>3, <1>4 DEF AlignInv, TypeOK
  <2>2. QED
    BY <1>1, <1>2, <2>1, MaxIsNat
<1>10. QED
  BY <1>5, <1>7, <1>8, <1>9 DEF t

(* An element in a tuple of its own. *)
LEMMA AlignPackSingle ==
  ASSUME AlignInv, PackSingle
  PROVE  AlignInv'
<1> DEFINE t == SingleStart
           o == t + tuple_size(mem', t)
<1>1. /\ pc = "pack" /\ is_ptr_valid(t) /\ TupleInitOk(mem, t)
      /\ cont_tuple' = t
      /\ placed' = Append(placed, [id |-> current.id, tuple |-> t])
      /\ Advance(o)
  BY DEF PackSingle
<1>2. t \in Nat /\ t % 4 = 0 /\ t + 8 <= 2 * Cells
  BY <1>1, SingleFacts
<1>3. /\ mem' \in Memory /\ top' \in Nat
      /\ TupleType(mem', t) \in SingleTypes \cup ArrayTypes
      /\ tuple_size(mem', t) \in Nat /\ tuple_size(mem', t) >= 4
      /\ tuple_size(mem', t) % 2 = 0
  BY SingleStored
<1> HIDE DEF t
<1>4. o \in Nat /\ o % 2 = 0 /\ t + 4 <= o
  BY <1>2, <1>3
<1> HIDE DEF o
<1>5. QED
  BY <1>1, <1>2, <1>3, <1>4, AlignStored

(* What holds at the end of the tuple that is grown. *)
LEMMA ContFacts ==
  ASSUME AlignInv, pc = "pack", cont = 1
  PROVE  /\ cont_tuple \in Nat /\ cont_tuple + 8 <= 2 * Cells
         /\ cont_tuple % 4 = 0
         /\ ContData \in Nat /\ ContData % 2 = 0 /\ cont_tuple + 4 <= ContData
         /\ GrownTuple \in Memory
         /\ TupleType(GrownTuple, cont_tuple) \in ArrayTypes
         /\ TopOfGrown \in Nat
<1>1. /\ mem \in Memory /\ offset \in Nat /\ offset % 2 = 0 /\ top \in Nat
      /\ cont_tuple \in Nat /\ cont_tuple + 8 <= 2 * Cells
  BY DEF AlignInv, TypeOK, Registered
<1>2. /\ TupleType(mem, cont_tuple) \in SingleTypes \cup ArrayTypes
      /\ cont_tuple + 4 <= offset /\ cont_tuple % 4 = 0
  BY DEF AlignInv, OpenTuple, SingleTypes, ArrayTypes
<1>3. SizeIncrease(mem, cont_tuple) \in {0, 2}
  BY DEF SizeIncrease
<1>4. /\ ContData \in Nat /\ ContData % 2 = 0 /\ cont_tuple + 4 <= ContData
  <2> DEFINE n == SizeIncrease(mem, cont_tuple)
  <2>1. n \in {0, 2} /\ ContData = offset + n
    BY <1>3 DEF ContData
  <2> HIDE DEF n
  <2>2. QED
    BY <1>1, <1>2, <2>1
<1>5. /\ GrownTuple \in Memory
      /\ TupleType(GrownTuple, cont_tuple) \in ArrayTypes
  BY <1>1, <1>2, TupleIncType DEF GrownTuple
<1>6. TopOfGrown \in Nat
  <2>1. cont_tuple + 4 + SizeIncrease(mem, cont_tuple) \in Nat
    BY <1>1, <1>3
  <2>2. QED
    BY <1>1, <2>1, MaxIsNat DEF TopOfGrown
<1>7. QED
  BY <1>1, <1>2, <1>4, <1>5, <1>6

(* An array grown beyond the buffer. *)
LEMMA AlignContOverflow ==
  ASSUME AlignInv, ContOverflow
  PROVE  AlignInv'
<1>1. pc = "pack" /\ cont = 1
  BY DEF ContOverflow
<1>2. ContData \in Nat /\ GrownTuple \in Memory /\ TopOfGrown \in Nat
  BY <1>1, ContFacts
<1>3. /\ mem' = GrownTuple /\ offset' = ContData /\ top' = TopOfGrown
      /\ pc' = "done" /\ ret' \in Int
      /\ ctx' = ctx /\ action' = action /\ current' = current /\ cont' = cont
      /\ cont_tuple' = cont_tuple /\ tuples' = tuples /\ placed' = placed
  BY DEF ContOverflow, Return
<1>4. TypeOK'
  BY <1>1, <1>2, <1>3 DEF AlignInv, TypeOK
<1>5. QED
  BY <1>3, <1>4 DEF AlignInv, OpenTuple, Registered, TuplesWordAligned

(* What the grown tuple is after the datum is appended. *)
LEMMA ContStored ==
  ASSUME AlignInv, PackCont
  PROVE  /\ mem' \in Memory /\ top' \in Nat
         /\ TupleType(mem', cont_tuple) \in ArrayTypes
         /\ tuple_data_size(mem', cont_tuple) \in {2, 4}
<1> DEFINE t == cont_tuple
           size == SizeOfCurrent
           v == ctx.src[current.offset]
<1>1. /\ pc = "pack" /\ cont = 1
      /\ mem' = CopyIn(GrownTuple, ContData, v, size)
      /\ top' = MaxOf(TopOfGrown, ContData + size)
  BY DEF PackCont
<1>2. /\ t \in Nat /\ t + 8 <= 2 * Cells /\ t % 4 = 0
      /\ ContData \in Nat /\ ContData % 2 = 0 /\ t + 4 <= ContData
      /\ GrownTuple \in Memory /\ TupleType(GrownTuple, t) \in ArrayTypes
      /\ TopOfGrown \in Nat
  BY <1>1, ContFacts
<1>3. /\ size \in Nat /\ size % 2 = 0
      /\ \A k \in 0 .. (size \div 2) - 1 : v[k] \in U16
  BY <1>1, CurrentElem
<1> HIDE DEF t, size, v
<1>4. t \div 2 < ContData \div 2 /\ t < 2 * Cells
  BY <1>2, MemoryAssumption
<1>5. mem' \in Memory
  BY <1>1, <1>2, <1>3, CopyInType
<1>6. TupleType(mem', t) \in ArrayTypes
  <2>1. Half(mem', t) = Half(GrownTuple, t)
    BY <1>1, <1>2, <1>3, <1>4, CopyInRead
  <2>2. QED
    BY <1>2, <2>1 DEF TupleType
<1>7. tuple_data_size(mem', t) \in {2, 4}
  BY <1>5, <1>6, ArrayDataSize
<1>8. top' \in Nat
  <2>1. ContData + size \in Nat
    BY <1>2, <1>3
  <2>2. QED
    BY <1>1, <1>2, <2>1, MaxIsNat
<1>9. QED
  BY <1>5, <1>6, <1>7, <1>8 DEF t

(* An element appended to the open tuple. *)
LEMMA AlignPackCont ==
  ASSUME AlignInv, PackCont
  PROVE  AlignInv'
<1> DEFINE t == cont_tuple
           n == tuple_data_size(mem', t)
<1>1. /\ pc = "pack" /\ cont = 1
      /\ placed' = Append(placed, [id |-> current.id, tuple |-> t])
      /\ cont_tuple' = t
      /\ Advance(ContData + n)
  BY DEF PackCont
<1>2. /\ t \in Nat /\ t + 8 <= 2 * Cells /\ t % 4 = 0
      /\ ContData \in Nat /\ ContData % 2 = 0 /\ t + 4 <= ContData
  BY <1>1, ContFacts
<1>3. /\ mem' \in Memory /\ TupleType(mem', t) \in ArrayTypes
      /\ n \in {2, 4} /\ top' \in Nat
  BY ContStored
<1> HIDE DEF t, n
<1> DEFINE o == ContData + n
<1>4. o \in Nat /\ o % 2 = 0 /\ t + 4 <= o
  BY <1>2, <1>3
<1> HIDE DEF o
<1>5. Advance(o)
  BY <1>1 DEF o
<1>6. QED
  BY <1>1, <1>2, <1>3, <1>4, <1>5, AlignStored

(* The header the packer completes lies in front of the tuples. *)
LEMMA AlignComplete ==
  ASSUME AlignInv, complete_header
  PROVE  AlignInv'
<1>1. /\ pc = "complete" /\ mem' \in {CountedHeader, SizedHeader}
      /\ top' = MaxOf(top, ElemsPtr(mem) + SizeofElems)
      /\ pc' = "done" /\ ret' \in {-EINVAL, offset}
      /\ ctx' = ctx /\ action' = action /\ current' = current /\ cont' = cont
      /\ cont_tuple' = cont_tuple /\ tuples' = tuples /\ placed' = placed
      /\ offset' = offset
  BY DEF complete_header, Return
<1>2. mem \in Memory /\ offset \in Nat /\ tuples \in Nat /\ top \in Nat
  BY DEF AlignInv, TypeOK
<1>3. ElemsPtr(mem) \in {4, 12} /\ HdrSize(mem) \in Nat
  BY HdrSizeType
<1> DEFINE e == ElemsPtr(mem)
           words == SizeInWords
           m == Store(Store(mem, e, tuples), e + 2, tuples \div 65536)
<1>4. words \in Int
  BY <1>2, <1>3 DEF SizeInWords
<1>5. e \in Nat /\ e + 2 \in Nat /\ e + 4 \in Nat /\ e + 6 \in Nat
      /\ e + 4 < 2 * Cells /\ e + SizeofElems \in Nat
  BY <1>3, MemoryAssumption DEF SizeofElems
<1>6. Half(mem, e + 4) - (Half(mem, e + 4) % 256) \in Int
  <2>1. Half(mem, e + 4) \in Int
    BY <1>2, <1>5, HalfType, U16Elim
  <2>2. QED
    BY <2>1
<1>7. m \in Memory
  <2>1. tuples \in Int /\ tuples \div 65536 \in Int
    BY <1>2
  <2>2. QED
    BY <1>2, <1>5, <2>1, StoreType
<1>8. CountedHeader \in Memory
  <2> HIDE DEF m
  <2>1. Store(m, e + 4, Half(mem, e + 4) - (Half(mem, e + 4) % 256)) \in Memory
    BY <1>5, <1>6, <1>7, StoreType
  <2>2. QED
    BY <2>1 DEF CountedHeader, m
<1>9. SizedHeader \in Memory
  <2>1. 256 * (words % 256) \in Int /\ words \div 256 \in Int
    BY <1>4
  <2> HIDE DEF words
  <2>2. Store(Store(CountedHeader, e + 4, 256 * (words % 256)),
              e + 6, words \div 256) \in Memory
    BY <1>5, <1>8, <2>1, StoreType
  <2>3. QED
    BY <2>2 DEF SizedHeader, words
<1>10. top' \in Nat /\ ret' \in Int
  BY <1>1, <1>2, <1>5, MaxIsNat
<1>11. TypeOK'
  BY <1>1, <1>2, <1>8, <1>9, <1>10 DEF AlignInv, TypeOK
<1>12. QED
  BY <1>1, <1>11 DEF AlignInv, OpenTuple, Registered, TuplesWordAligned

(* Nothing happens. *)
LEMMA AlignStutter ==
  ASSUME AlignInv, UNCHANGED vars
  PROVE  AlignInv'
<1>1. TypeOK'
  BY DEF vars, AlignInv, TypeOK
<1>2. OpenTuple'
  BY DEF vars, AlignInv, OpenTuple, TupleType, Half
<1>3. QED
  BY <1>1, <1>2 DEF vars, AlignInv, Registered, TuplesWordAligned

(* Every step keeps the invariant. *)
LEMMA AlignStep ==
  ASSUME AlignInv, [Next]_vars
  PROVE  AlignInv'
<1>1. CASE Client
  BY <1>1, AlignClient
<1>2. CASE BadCall
  BY <1>2, AlignBadCall
<1>3. CASE BeginPack
  BY <1>3, AlignBegin
<1>4. CASE RejectElem \/ RejectSingle
  BY <1>4, AlignReject
<1>5. CASE SingleOverflow
  BY <1>5, AlignSingleOverflow
<1>6. CASE PackSingle
  BY <1>6, AlignPackSingle
<1>7. CASE ContOverflow
  BY <1>7, AlignContOverflow
<1>8. CASE PackCont
  BY <1>8, AlignPackCont
<1>9. CASE complete_header
  BY <1>9, AlignComplete
<1>10. CASE UNCHANGED vars
  BY <1>10, AlignStutter
<1>11. QED
  BY <1>1, <1>2, <1>3, <1>4, <1>5, <1>6, <1>7, <1>8, <1>9, <1>10
  DEF Next, PackStep

(* The invariant of alignment holds throughout: whatever the tables, the   *)
(* structures, the buffer sizes and the bytes a buffer starts with, the    *)
(* tuple that may be grown is one tuple_inc_elems can grow, and lies before*)
(* the write offset.                                                       *)
THEOREM AlignInvariant == Spec => []AlignInv
<1>1. Init => AlignInv
  BY AlignInit
<1>2. AlignInv /\ [Next]_vars => AlignInv'
  BY AlignStep
<1>3. QED
  BY <1>1, <1>2, PTL DEF Spec

(* Type correctness of the packer. *)
THEOREM TypeCorrect == Spec => []TypeOK
<1>1. AlignInv => TypeOK
  BY DEF AlignInv
<1>2. QED
  BY <1>1, AlignInvariant, PTL

(* The tuple an element is appended to can be grown. *)
THEOREM GrowsOpenTuple == Spec => []OpenTuple
<1>1. AlignInv => OpenTuple
  BY DEF AlignInv
<1>2. QED
  BY <1>1, AlignInvariant, PTL

(* Every tuple starts on a word of the message. *)
THEOREM Aligned == Spec => []TuplesWordAligned
<1>1. AlignInv => TuplesWordAligned
  BY DEF AlignInv
<1>2. QED
  BY <1>1, AlignInvariant, PTL

-----------------------------------------------------------------------------
(***************************************************************************)
(* The walk places every element once, in ID order.                        *)
(***************************************************************************)

(* The history after one more element. *)
LEMMA PlacedGrows ==
  ASSUME NEW q \in Seq(Placement), NEW p \in Placement, NEW r, r = Append(q, p)
  PROVE  /\ {r[i].id : i \in 1 .. Len(r)}
              = {q[i].id : i \in 1 .. Len(q)} \cup {p.id}
         /\ /\ \A i \in 1 .. Len(q) : q[i].id < p.id
            /\ \A i, j \in 1 .. Len(q) : i < j => q[i].id < q[j].id
            => \A i, j \in 1 .. Len(r) : i < j => r[i].id < r[j].id
<1>1. Len(q) \in Nat /\ Len(r) = Len(q) + 1
  OBVIOUS
<1>2. \A i \in 1 .. Len(q) : r[i] = q[i]
  OBVIOUS
<1>3. r[Len(q) + 1] = p
  OBVIOUS
<1>4. 1 .. Len(r) = (1 .. Len(q)) \cup {Len(q) + 1}
  BY <1>1
<1>5. {r[i].id : i \in 1 .. Len(r)} = {q[i].id : i \in 1 .. Len(q)} \cup {p.id}
  <2>1. {r[i].id : i \in 1 .. Len(r)}
          = {r[i].id : i \in 1 .. Len(q)} \cup {r[Len(q) + 1].id}
    BY <1>4
  <2>2. {r[i].id : i \in 1 .. Len(q)} = {q[i].id : i \in 1 .. Len(q)}
    BY <1>2
  <2>3. QED
    BY <1>3, <2>1, <2>2
<1>6. ASSUME \A i \in 1 .. Len(q) : q[i].id < p.id,
             \A i, j \in 1 .. Len(q) : i < j => q[i].id < q[j].id,
             NEW i \in 1 .. Len(r), NEW j \in 1 .. Len(r), i < j
      PROVE  r[i].id < r[j].id
  <2>1. i \in 1 .. Len(q)
    BY <1>1, <1>6
  <2>2. CASE j \in 1 .. Len(q)
    BY <1>2, <1>6, <2>1, <2>2
  <2>3. CASE j = Len(q) + 1
    BY <1>2, <1>3, <1>6, <2>1, <2>3
  <2>4. QED
    BY <1>4, <2>2, <2>3
<1>7. QED
  BY <1>5, <1>6

(* The elements of the walk up to the next one are those up to the current *)
(* one and the current one itself.                                         *)
LEMMA WalkNext ==
  ASSUME AlignInv, pc = "pack", get_first_elem(action) # NULL,
         current \in PackedElems,
         NEW next, next = get_next_elem(action, current)
  PROVE  /\ next # NULL =>
              /\ next \in PackedElems
              /\ {f \in PackedElems : f.id < next.id}
                   = {f \in PackedElems : f.id < current.id} \cup {current}
         /\ next = NULL =>
              PackedElems = {f \in PackedElems : f.id < current.id} \cup {current}
<1> DEFINE first == get_first_elem(action)
<1>1. Known(action)
  BY CurrentElem
<1>2. /\ \A e \in Elems(action) : e.id \in Nat
      /\ \A e, f \in Elems(action) : e.id = f.id => e = f
  BY <1>1, KnownElems
<1>3. first \in Elems(action)
  BY <1>1, FirstElem
<1> HIDE DEF first
<1>4. PackedElems = {e \in Elems(action) : e = first \/
                       (e.id > first.id /\ e.id < IPCT_TUPLE_MAX_ID)}
  BY DEF PackedElems, first
<1>5. current \in Elems(action) /\ first.id <= current.id
  BY <1>2, <1>3, <1>4
<1>6. ASSUME NEW f \in PackedElems, f.id > current.id
      PROVE  f \in After(action, current)
  BY <1>2, <1>3, <1>4, <1>5, <1>6 DEF After
<1>7. \A f \in PackedElems : f.id < current.id \/ f = current \/ f.id > current.id
  BY <1>2, <1>4, <1>5
<1>8. CASE next = NULL
  <2>1. After(action, current) = {}
    BY <1>1, <1>8, NextElem
  <2>2. QED
    BY <1>6, <1>7, <1>8, <2>1
<1>9. CASE next # NULL
  <2>1. /\ next \in After(action, current)
        /\ \A e \in After(action, current) : next.id <= e.id
    BY <1>1, <1>9, NextElem
  <2>2. next \in Elems(action) /\ next.id > current.id
        /\ next.id < IPCT_TUPLE_MAX_ID
    BY <2>1 DEF After
  <2>3. next \in PackedElems
    BY <1>2, <1>3, <1>4, <1>5, <2>2
  <2>4. ASSUME NEW f \in PackedElems
        PROVE  f.id < next.id <=> f.id < current.id \/ f = current
    <3>1. f.id \in Nat /\ next.id \in Nat /\ current.id \in Nat
      BY <1>2, <1>4, <1>5, <2>2
    <3>2. f.id > current.id => next.id <= f.id
      BY <1>6, <2>1
    <3>3. QED
      BY <1>7, <2>2, <3>1, <3>2
  <2>5. {f \in PackedElems : f.id < next.id}
          = {f \in PackedElems : f.id < current.id} \cup {current}
    BY <2>4
  <2>6. QED
    BY <1>9, <2>3, <2>5
<1>10. QED
  BY <1>8, <1>9

(* Storing the current element and moving on keeps the walk's bookkeeping. *)
LEMMA WalkStored ==
  ASSUME WalkInv, AlignInv', pc = "pack", NEW o, Advance(o), NEW t \in Nat,
         placed' = Append(placed, [id |-> current.id, tuple |-> t])
  PROVE  WalkInv'
<1> DEFINE p == [id |-> current.id, tuple |-> t]
           Below(S, e) == {f \in S : f.id < e.id}
<1>1. AlignInv /\ placed \in Seq(Placement) /\ ret \in Int
  BY DEF WalkInv, AlignInv, TypeOK
<1>2. /\ get_first_elem(action) # NULL /\ current \in PackedElems
      /\ PlacedIds = {e.id : e \in Below(PackedElems, current)}
      /\ \A i, j \in 1 .. Len(placed) : i < j => placed[i].id < placed[j].id
  BY DEF WalkInv
<1>3. p \in Placement /\ p.id = current.id
  BY <1>1, CurrentElem DEF Placement
<1>4. /\ action' = action /\ current' = get_next_elem(action, current)
      /\ pc' = IF current' = NULL THEN "complete" ELSE "pack"
  BY DEF Advance
<1>5. \A i \in 1 .. Len(placed) : placed[i].id < p.id
  <2>1. \A n \in PlacedIds : n < current.id
    BY <1>2
  <2>2. QED
    BY <1>3, <2>1 DEF PlacedIds
<1> HIDE DEF p
<1>6. placed' = Append(placed, p)
  BY DEF p
<1>7. /\ {placed'[i].id : i \in 1 .. Len(placed')}
           = {placed[i].id : i \in 1 .. Len(placed)} \cup {p.id}
      /\ \A i, j \in 1 .. Len(placed') : i < j => placed'[i].id < placed'[j].id
  BY <1>1, <1>2, <1>3, <1>5, <1>6, PlacedGrows
<1>8. PlacedIds' = PlacedIds \cup {current.id}
  BY <1>3, <1>7 DEF PlacedIds
<1>9. PackedElems' = PackedElems
  BY <1>4 DEF PackedElems
<1>10. PlacedIds' = {e.id : e \in Below(PackedElems, current) \cup {current}}
  BY <1>2, <1>8
<1> HIDE DEF Below
<1>11. /\ current' # NULL =>
            /\ current' \in PackedElems
            /\ Below(PackedElems, current')
                 = Below(PackedElems, current) \cup {current}
       /\ current' = NULL =>
            PackedElems = Below(PackedElems, current) \cup {current}
  BY <1>1, <1>2, <1>4, WalkNext DEF Below
<1>12. current' # NULL =>
         /\ current' \in PackedElems'
         /\ PlacedIds' = {e.id : e \in Below(PackedElems', current')}
  BY <1>9, <1>10, <1>11
<1>13. current' = NULL => PlacedIds' = {e.id : e \in PackedElems'}
  BY <1>9, <1>10, <1>11
<1>14. /\ pc' = "pack" => current' # NULL
       /\ pc' # "pack" => current' = NULL
       /\ pc' # "done" /\ get_first_elem(action') # NULL
  BY <1>2, <1>4
<1>15. QED
  BY <1>7, <1>12, <1>13, <1>14 DEF WalkInv, Packed, Below

(* The invariant at the start. *)
LEMMA WalkInit == Init => WalkInv
BY AlignInit DEF Init, WalkInv, Packed

(* A step that ends the call with an error, or outside it, leaves nothing  *)
(* to show beyond the order of what is placed.                             *)
LEMMA WalkRest ==
  ASSUME WalkInv, AlignInv', pc' \in {"idle", "lookup", "done"},
         placed' \in {placed, <<>>}, pc' = "done" => ret' = -EINVAL
  PROVE  WalkInv'
<1>1. \A i, j \in 1 .. Len(placed') : i < j => placed'[i].id < placed'[j].id
  BY DEF WalkInv
<1>2. ~ Packed'
  BY DEF Packed
<1>3. QED
  BY <1>1, <1>2 DEF WalkInv

(* The walk begins at the first element, with nothing placed. *)
LEMMA WalkBegin ==
  ASSUME WalkInv, AlignInv', BeginPack, pc' = "pack"
  PROVE  WalkInv'
<1>1. /\ placed = <<>> /\ placed' = <<>>
      /\ current' = get_first_elem(action')
      /\ current' # NULL /\ action' # NULL /\ Known(action')
  BY DEF WalkInv, AlignInv, Registered, TypeOK, BeginPack
<1>2. current' \in Elems(action') /\ \A e \in Elems(action') : e.id \in Nat
  BY <1>1, FirstElem, KnownElems
<1> DEFINE W == {e \in Elems(action') : e = current' \/
                   (e.id > current'.id /\ e.id < IPCT_TUPLE_MAX_ID)}
<1>3. PackedElems' = W
  BY <1>1 DEF PackedElems
<1>4. current' \in PackedElems' /\ {f \in PackedElems' : f.id < current'.id} = {}
  BY <1>2, <1>3
<1>5. PlacedIds' = {}
  BY <1>1 DEF PlacedIds
<1>6. QED
  BY <1>1, <1>4, <1>5 DEF WalkInv, Packed

(* The header is completed when there is no element left. *)
LEMMA WalkComplete ==
  ASSUME WalkInv, AlignInv', complete_header
  PROVE  WalkInv'
<1>1. /\ pc = "complete" /\ pc' = "done" /\ placed' = placed /\ action' = action
  BY DEF complete_header, Return
<1>2. PlacedIds' = PlacedIds /\ PackedElems' = PackedElems
  BY <1>1 DEF PlacedIds, PackedElems
<1>3. QED
  BY <1>1, <1>2 DEF WalkInv

(* Nothing happens. *)
LEMMA WalkStutter ==
  ASSUME WalkInv, UNCHANGED vars
  PROVE  WalkInv'
<1>1. AlignInv'
  BY AlignStutter DEF WalkInv
<1>2. PlacedIds' = PlacedIds /\ PackedElems' = PackedElems /\ Packed' = Packed
  BY DEF vars, PlacedIds, PackedElems, Packed
<1>3. QED
  BY <1>1, <1>2 DEF WalkInv, vars

(* A message that is returned has every element of the action from the     *)
(* first one on, once and in ascending order.                              *)
THEOREM WalkInvariant == Spec => []WalkInv
<1>1. Init => WalkInv
  BY WalkInit
<1>2. WalkInv /\ [Next]_vars => WalkInv'
  <2> SUFFICES ASSUME WalkInv, [Next]_vars PROVE WalkInv'
    OBVIOUS
  <2>1. AlignInv'
    BY AlignStep DEF WalkInv
  <2>2. AlignInv /\ placed \in Seq(Placement)
    BY DEF WalkInv, AlignInv, TypeOK
  <2>3. CASE Client
    BY <2>1, <2>3, WalkRest DEF Client, Collect, ipct_msg_pack
  <2>4. CASE BadCall \/ RejectElem \/ RejectSingle
    BY <2>1, <2>4, WalkRest DEF BadCall, RejectElem, RejectSingle, Return
  <2>5. CASE SingleOverflow \/ ContOverflow
    BY <2>1, <2>5, WalkRest DEF SingleOverflow, ContOverflow, Return
  <2>6. CASE BeginPack
    <3>1. CASE pc' = "pack"
      BY <2>1, <2>6, <3>1, WalkBegin
    <3>2. CASE pc' # "pack"
      BY <2>1, <2>6, <3>2, WalkRest DEF BeginPack, Return
    <3>3. QED
      BY <3>1, <3>2
  <2>7. CASE PackSingle
    <3>1. SingleStart \in Nat
      BY <2>2, <2>7, SingleFacts DEF PackSingle
    <3>2. QED
      BY <2>1, <2>7, <3>1, WalkStored DEF PackSingle
  <2>8. CASE PackCont
    <3>1. cont_tuple \in Nat
      BY <2>2 DEF AlignInv, TypeOK
    <3>2. QED
      BY <2>1, <2>8, <3>1, WalkStored DEF PackCont
  <2>9. CASE complete_header
    BY <2>1, <2>9, WalkComplete
  <2>10. CASE UNCHANGED vars
    BY <2>10, WalkStutter
  <2>11. QED
    BY <2>3, <2>4, <2>5, <2>6, <2>7, <2>8, <2>9, <2>10 DEF Next, PackStep
<1>3. QED
  BY <1>1, <1>2, PTL DEF Spec

(* PacksEveryElemOnce, for every registry. *)
THEOREM EveryElemOnce == Spec => []PacksEveryElemOnce
<1>1. WalkInv => PacksEveryElemOnce
  BY DEF WalkInv, PacksEveryElemOnce
<1>2. QED
  BY <1>1, WalkInvariant, PTL

-----------------------------------------------------------------------------
(***************************************************************************)
(* Nothing is read from behind the client's structure.                     *)
(***************************************************************************)

(* An element lies in the structure the client passed. *)
InSource(e) == e.offset + elem_get_data_size(e) <= ctx.src_size

(* What is placed came out of the structure. *)
PlacedFromSource ==
  \A e \in Elems(action) : e.id \in PlacedIds => InSource(e)

Underway == pc \in {"pack", "complete"} \/ Packed

WholeInv == WalkInv /\ (Underway => action # NULL /\ PlacedFromSource)

(* An element is placed that passed the check of its own step. *)
LEMMA WholeStored ==
  ASSUME WholeInv, WalkInv', pc = "pack", ElemInStruct, NEW o, Advance(o),
         NEW t \in Nat,
         placed' = Append(placed, [id |-> current.id, tuple |-> t])
  PROVE  WholeInv'
<1> DEFINE p == [id |-> current.id, tuple |-> t]
<1>1. AlignInv /\ placed \in Seq(Placement)
  BY DEF WholeInv, WalkInv, AlignInv, TypeOK
<1>2. p \in Placement /\ p.id = current.id
  BY <1>1, CurrentElem DEF Placement
<1>3. placed' = Append(placed, p)
  OBVIOUS
<1> HIDE DEF p
<1>4. {placed'[i].id : i \in 1 .. Len(placed')}
        = {placed[i].id : i \in 1 .. Len(placed)} \cup {p.id}
  BY <1>1, <1>2, <1>3, PlacedGrows
<1>5. PlacedIds' = PlacedIds \cup {current.id}
  BY <1>2, <1>4 DEF PlacedIds
<1>6. /\ current \in Elems(action) /\ action # NULL
      /\ \A e, f \in Elems(action) : e.id = f.id => e = f
  BY <1>1, CurrentElem, KnownElems DEF AlignInv, TypeOK
<1>7. action' = action /\ ctx' = ctx
  BY DEF Advance
<1>8. PlacedFromSource
  BY DEF WholeInv, Underway
<1>9. ASSUME NEW e \in Elems(action), e.id \in PlacedIds'
      PROVE  InSource(e)'
  <2>1. CASE e.id \in PlacedIds
    BY <1>7, <1>8, <2>1 DEF PlacedFromSource, InSource
  <2>2. CASE e.id = current.id
    BY <1>6, <1>7, <2>2 DEF ElemInStruct, SizeOfCurrent, InSource
  <2>3. QED
    BY <1>5, <1>9, <2>1, <2>2
<1>10. QED
  BY <1>6, <1>7, <1>9 DEF WholeInv, PlacedFromSource

(* A step that places nothing. *)
LEMMA WholeQuiet ==
  ASSUME WholeInv, WalkInv', UNCHANGED <<ctx, action, placed>>,
         Underway' => Underway
  PROVE  WholeInv'
BY DEF WholeInv, PlacedFromSource, PlacedIds, InSource

(* A step that ends the call without a message. *)
LEMMA WholeRest ==
  ASSUME WalkInv', pc' \in {"idle", "lookup", "done"},
         pc' = "done" => ret' = -EINVAL
  PROVE  WholeInv'
BY DEF WholeInv, Underway, Packed

(* Every step keeps the invariant. *)
LEMMA WholeStep ==
  ASSUME WholeInv, WalkInv', [Next]_vars
  PROVE  WholeInv'
<1>1. WalkInv /\ AlignInv
  BY DEF WholeInv, WalkInv
<1>2. CASE Client
  BY <1>2, WholeRest DEF Client, Collect, ipct_msg_pack
<1>3. CASE BadCall \/ RejectElem \/ RejectSingle
  BY <1>3, WholeRest DEF BadCall, RejectElem, RejectSingle, Return
<1>4. CASE SingleOverflow \/ ContOverflow
  BY <1>4, WholeRest DEF SingleOverflow, ContOverflow, Return
<1>5. CASE BeginPack
  <2>1. CASE pc' = "pack"
    <3>1. placed' = <<>> /\ action' # NULL
      BY <1>1, <1>5 DEF BeginPack, AlignInv, Registered
    <3>2. PlacedIds' = {}
      BY <3>1 DEF PlacedIds
    <3>3. QED
      BY <3>1, <3>2 DEF WholeInv, PlacedFromSource
  <2>2. CASE pc' # "pack"
    BY <1>5, <2>2, WholeRest DEF BeginPack, Return
  <2>3. QED
    BY <2>1, <2>2
<1>6. CASE PackSingle
  <2>1. SingleStart \in Nat
    BY <1>1, <1>6, SingleFacts DEF PackSingle
  <2>2. QED
    BY <1>6, <2>1, WholeStored DEF PackSingle
<1>7. CASE PackCont
  <2>1. cont_tuple \in Nat
    BY <1>1 DEF AlignInv, TypeOK
  <2>2. QED
    BY <1>7, <2>1, WholeStored DEF PackCont
<1>8. CASE complete_header
  BY <1>8, WholeQuiet DEF complete_header, Underway
<1>9. CASE UNCHANGED vars
  BY <1>9, WholeQuiet DEF vars, Underway, Packed
<1>10. QED
  BY <1>2, <1>3, <1>4, <1>5, <1>6, <1>7, <1>8, <1>9 DEF Next, PackStep

(* The elements of a message under construction come from an action of the *)
(* registry, and their members lie in the client's structure.              *)
THEOREM WholeInvariant == Spec => []WholeInv
<1>1. Init => WholeInv
  BY WalkInit DEF Init, WholeInv, Underway, Packed
<1>2. WalkInv /\ WholeInv /\ WalkInv' /\ [Next]_vars => WholeInv'
  BY WholeStep
<1>3. QED
  BY <1>1, <1>2, WalkInvariant, PTL DEF Spec

(* OnlyWholeStructs, for every registry and every size a client may claim. *)
THEOREM WholeStructs == Spec => []OnlyWholeStructs
<1>1. WholeInv => OnlyWholeStructs
  <2> SUFFICES ASSUME WholeInv, Packed
               PROVE  OnlyWholeStructs
    BY DEF OnlyWholeStructs
  <2>1. /\ action # NULL /\ PlacedFromSource
        /\ PlacedIds = {e.id : e \in PackedElems}
    BY DEF WholeInv, WalkInv, Underway
  <2>2. PackedElems \subseteq Elems(action)
    BY DEF PackedElems
  <2>3. QED
    BY <2>1, <2>2 DEF OnlyWholeStructs, PlacedFromSource, InSource
<1>2. QED
  BY <1>1, WholeInvariant, PTL

-----------------------------------------------------------------------------
(***************************************************************************)
(* Which elements share a tuple.                                           *)
(***************************************************************************)

(* The element placed last.                                                *)
Latest == placed[Len(placed)]

(* The tuple elem_pack may continue is the latest one, it lies before the  *)
(* write offset, and it may be continued exactly when the current element  *)
(* follows the one placed last.                                            *)
ContinuesLatest ==
  pc = "pack" =>
    /\ placed = <<>> => cont = 0
    /\ placed # <<>> =>
         /\ cont = 1 <=> IsContinuous(ElemOf(Latest.id), current)
         /\ cont_tuple = Latest.tuple
         /\ cont_tuple + 4 <= offset

RunsInv == ArraysAreRuns /\ ContinuesLatest

(* The element of a table is found again by its ID.                        *)
LEMMA ElemById ==
  ASSUME Known(action), NEW e \in Elems(action)
  PROVE  ElemOf(e.id) = e
<1>1. \A f \in Elems(action) : f.id = e.id => f = e
  BY KnownElems
<1>2. QED
  BY <1>1 DEF ElemOf

(* ipct_get_type tells the half-word types from all others.                *)
LEMMA SameType ==
  ASSUME NEW e, NEW f, f # NULL
  PROVE  IsContinuous(e, f) <=>
           /\ f.id = e.id + 1
           /\ f.type \in HalfWordTypes <=> e.type \in HalfWordTypes
BY DEF IsContinuous, ipct_get_type, HD, STD

(* One more element keeps the grouping: it shares the latest tuple exactly *)
(* when cont says so.                                                      *)
LEMMA RunsStored ==
  ASSUME AlignInv, RunsInv, pc = "pack", NEW t \in Nat, NEW o \in Nat, t + 4 <= o,
         Advance(o), cont_tuple' = t,
         placed' = Append(placed, [id |-> current.id, tuple |-> t]),
         placed # <<>> => (Latest.tuple = t <=> cont = 1)
  PROVE  RunsInv'
<1> DEFINE p == [id |-> current.id, tuple |-> t]
           n == Len(placed)
<1>1. placed \in Seq(Placement) /\ n \in Nat
  BY DEF AlignInv, TypeOK
<1>2. p \in Placement /\ p.id = current.id /\ p.tuple = t
  BY <1>1, CurrentElem DEF Placement
<1>3. placed' = Append(placed, p)
  OBVIOUS
<1> HIDE DEF p
<1>4. /\ Len(placed') = n + 1
      /\ \A i \in 1 .. n : placed'[i] = placed[i]
      /\ placed'[n + 1] = p
      /\ placed' # <<>>
      /\ placed # <<>> <=> n >= 1
  BY <1>1, <1>2, <1>3
<1>5. action' = action /\ Known(action) /\ action # NULL
      /\ current \in Elems(action) /\ current # NULL
  BY CurrentElem, KnownElems DEF Advance
<1>6. ElemOf(current.id) = current
  BY <1>5, ElemById
<1>7. \A id : ElemOf(id)' = ElemOf(id)
  BY <1>5 DEF ElemOf
<1>8. Latest' = p
  BY <1>4 DEF Latest
<1>9. /\ current' = get_next_elem(action, current) /\ offset' = o
      /\ cont' = IF IsContinuous(current, current') THEN 1 ELSE 0
  BY DEF Advance
<1>10. ContinuesLatest'
  <2>1. ElemOf(Latest.id)' = current
    <3>1. (Latest.id)' = current.id
      BY <1>2, <1>8
    <3>2. ElemOf(Latest.id)' = ElemOf(current.id)
      BY <1>5, <3>1 DEF ElemOf
    <3>3. QED
      BY <1>6, <3>2
  <2>2. (Latest.tuple)' = t
    BY <1>2, <1>8
  <2>3. QED
    BY <1>4, <1>9, <2>1, <2>2 DEF ContinuesLatest
<1>11. ASSUME NEW i \in 1 .. n
       PROVE  LET e == ElemOf(placed'[i].id)
                  f == ElemOf(placed'[i + 1].id)
              IN (placed'[i].tuple = placed'[i + 1].tuple) <=>
                   /\ f.id = e.id + 1
                   /\ f.type \in HalfWordTypes <=> e.type \in HalfWordTypes
  <2>1. CASE i < n
    <3>1. i \in 1 .. n - 1 /\ i + 1 \in 1 .. n
      BY <1>1, <2>1
    <3>2. placed'[i] = placed[i] /\ placed'[i + 1] = placed[i + 1]
      BY <1>4, <3>1
    <3>3. QED
      BY <3>1, <3>2 DEF RunsInv, ArraysAreRuns
  <2>2. CASE i = n
    <3>1. /\ placed'[i] = Latest /\ placed'[i + 1] = p
          /\ placed # <<>>
      BY <1>1, <1>4, <2>2 DEF Latest
    <3>2. Latest.tuple = t <=> IsContinuous(ElemOf(Latest.id), current)
      BY <3>1 DEF RunsInv, ContinuesLatest
    <3>3. ElemOf(p.id) = current
      BY <1>2, <1>6
    <3>4. QED
      BY <1>2, <1>5, <3>1, <3>2, <3>3, SameType
  <2>3. QED
    BY <1>1, <2>1, <2>2
<1>12. ArraysAreRuns'
  <2>1. Len(placed') - 1 = n
    BY <1>1, <1>4
  <2>2. QED
    BY <1>7, <1>11, <2>1 DEF ArraysAreRuns
<1>13. QED
  BY <1>10, <1>12 DEF RunsInv

(* A step that stores nothing leaves the grouping alone.                   *)
LEMMA RunsQuiet ==
  ASSUME RunsInv, placed' = placed, action' = action, pc' # "pack"
  PROVE  RunsInv'
BY DEF RunsInv, ArraysAreRuns, ContinuesLatest, ElemOf

(* Nor does one that starts anew.                                          *)
LEMMA RunsAnew ==
  ASSUME placed' = <<>>, cont' = 0
  PROVE  RunsInv'
<1>1. Len(placed') = 0
  OBVIOUS
<1>2. 1 .. Len(placed') - 1 = {}
  BY <1>1
<1>3. QED
  BY <1>2 DEF RunsInv, ArraysAreRuns, ContinuesLatest

(* Every step keeps the grouping. *)
LEMMA RunsStep ==
  ASSUME AlignInv, RunsInv, [Next]_vars
  PROVE  RunsInv'
<1>1. pc \in {"idle", "lookup"} => placed = <<>> /\ cont = 0
  BY DEF AlignInv, Registered
<1>2. CASE Client
  BY <1>1, <1>2, RunsAnew DEF Client, Collect, ipct_msg_pack
<1>3. CASE BadCall \/ BeginPack
  BY <1>1, <1>3, RunsAnew DEF BadCall, BeginPack
<1>4. CASE RejectElem \/ RejectSingle
  BY <1>4, RunsQuiet DEF RejectElem, RejectSingle, Return
<1>5. CASE SingleOverflow \/ ContOverflow
  BY <1>5, RunsQuiet DEF SingleOverflow, ContOverflow, Return
<1>6. CASE PackSingle
  <2> DEFINE t == SingleStart
             o == t + tuple_size(mem', t)
  <2>1. /\ pc = "pack" /\ cont = 0 /\ cont_tuple' = t /\ Advance(o)
        /\ placed' = Append(placed, [id |-> current.id, tuple |-> t])
        /\ is_ptr_valid(t) /\ TupleInitOk(mem, t)
    BY <1>6 DEF PackSingle
  <2>2. offset \in Nat /\ offset % 2 = 0
    BY <2>1 DEF AlignInv, TypeOK, Registered
  <2>3. t \in Nat /\ offset <= t
    BY <2>2, AlignIsWord DEF SingleStart
  <2>4. tuple_size(mem', t) \in Nat /\ tuple_size(mem', t) >= 4
    BY <1>6, SingleStored
  <2>5. placed # <<>> => Latest.tuple # t
    <3>1. cont_tuple \in Nat
      BY DEF AlignInv, TypeOK
    <3> HIDE DEF t
    <3>2. placed # <<>> => Latest.tuple = cont_tuple /\ cont_tuple + 4 <= offset
      BY <2>1 DEF RunsInv, ContinuesLatest
    <3>3. QED
      BY <2>2, <2>3, <3>1, <3>2
  <2> HIDE DEF t
  <2>6. o \in Nat /\ t + 4 <= o
    BY <2>3, <2>4
  <2> HIDE DEF o
  <2>7. QED
    BY <2>1, <2>3, <2>5, <2>6, RunsStored
<1>7. CASE PackCont
  <2> DEFINE t == cont_tuple
             n == tuple_data_size(mem', t)
  <2>1. /\ pc = "pack" /\ cont = 1 /\ cont_tuple' = t /\ Advance(ContData + n)
        /\ placed' = Append(placed, [id |-> current.id, tuple |-> t])
    BY <1>7 DEF PackCont
  <2>2. t \in Nat /\ ContData \in Nat /\ t + 4 <= ContData
    BY <2>1, ContFacts
  <2>3. n \in {2, 4}
    BY <1>7, ContStored
  <2>4. placed # <<>> /\ Latest.tuple = t
    BY <2>1 DEF RunsInv, ContinuesLatest
  <2> HIDE DEF t, n
  <2> DEFINE o == ContData + n
  <2>5. o \in Nat /\ t + 4 <= o
    BY <2>2, <2>3
  <2> HIDE DEF o
  <2>6. Advance(o)
    BY <2>1 DEF o
  <2>7. QED
    BY <2>1, <2>2, <2>4, <2>5, <2>6, RunsStored
<1>8. CASE complete_header
  BY <1>8, RunsQuiet DEF complete_header, Return
<1>9. CASE UNCHANGED vars
  BY <1>9 DEF vars, RunsInv, ArraysAreRuns, ContinuesLatest, ElemOf, Latest
<1>10. QED
  BY <1>2, <1>3, <1>4, <1>5, <1>6, <1>7, <1>8, <1>9 DEF Next, PackStep

(* Before the first call nothing is grouped. *)
LEMMA RunsInit == Init => RunsInv
<1> SUFFICES ASSUME Init PROVE RunsInv
  OBVIOUS
<1>1. Len(placed) = 0 /\ pc = "idle"
  BY DEF Init
<1>2. 1 .. Len(placed) - 1 = {}
  BY <1>1
<1>3. QED
  BY <1>1, <1>2 DEF RunsInv, ArraysAreRuns, ContinuesLatest

(* ArraysAreRuns: two elements share a tuple exactly when their IDs follow *)
(* each other and their types agree - for every table, and whatever the    *)
(* buffer held.                                                            *)
THEOREM GroupsAreRuns == Spec => []ArraysAreRuns
<1>1. Init => RunsInv
  BY RunsInit
<1>2. AlignInv /\ RunsInv /\ [Next]_vars => RunsInv'
  BY RunsStep
<1>3. RunsInv => ArraysAreRuns
  BY DEF RunsInv
<1>4. QED
  BY <1>1, <1>2, <1>3, AlignInvariant, PTL DEF Spec

-----------------------------------------------------------------------------
(***************************************************************************)
(* One tuple: what it carries, and what a step of the packer makes of it.  *)
(***************************************************************************)

(* The sizes an element may have for its tuples to be told apart: a half   *)
(* word, or words of which tuple_init's 16-bit parameter can say how many. *)
Sized(e) ==
  /\ elem_get_data_size(e) \in Nat
  /\ e.type \in HalfWordTypes => elem_get_data_size(e) = 2
  /\ e.type \notin HalfWordTypes => /\ elem_get_data_size(e) % 4 = 0
                                    /\ elem_get_data_size(e) < 65536

(* The tuple at t has k items, and element e, whose member is v, is among  *)
(* them.                                                                   *)
Carries(m, t, k, e, v) ==
  LET size  == elem_get_data_size(e)
      type  == TupleType(m, t)
      index == e.id - TupleId(m, t)
  IN /\ type \in IF e.type \in HalfWordTypes THEN {HD, HD_ARRAY}
                                             ELSE {STD, STD_ARRAY}
     /\ type \in SingleTypes => k = 1
     /\ type \in ArrayTypes => Count(m, t) = k /\ k >= 2
     /\ type = STD => 4 * Count(m, t) = size
     /\ type = STD_ARRAY => size = 4
     /\ index \in 0 .. k - 1
     /\ Holds(m, tuple_get_data(m, t, index), v, size)

(* The accessors, type by type.                                            *)
LEMMA Accessors ==
  ASSUME NEW m, NEW t
  PROVE  /\ TupleType(m, t) = STD =>
              /\ tuple_size(m, t) = 4 + 4 * Count(m, t)
              /\ tuple_data_count(m, t) = 1
              /\ tuple_data_size(m, t) = 4
              /\ \A i : tuple_get_data(m, t, i) = t + 4 + 4 * i
         /\ TupleType(m, t) = HD =>
              /\ tuple_size(m, t) = 4
              /\ tuple_data_count(m, t) = 1
              /\ tuple_data_size(m, t) = 2
              /\ \A i : tuple_get_data(m, t, i) = t + 2
         /\ TupleType(m, t) = STD_ARRAY =>
              /\ tuple_size(m, t) = 4 + 4 * Count(m, t)
              /\ tuple_data_count(m, t) = Count(m, t)
              /\ tuple_data_size(m, t) = 4
              /\ \A i : tuple_get_data(m, t, i) = t + 4 + 4 * i
         /\ TupleType(m, t) = HD_ARRAY =>
              /\ tuple_size(m, t) = 4 + 2 * Count(m, t)
              /\ tuple_data_count(m, t) = Count(m, t)
              /\ tuple_data_size(m, t) = 2
              /\ \A i : tuple_get_data(m, t, i) = t + 4 + 2 * i
<1> DEFINE type == TupleType(m, t)
<1>1. type = STD => /\ tuple_size(m, t) = 4 + 4 * Count(m, t)
                    /\ tuple_data_count(m, t) = 1
                    /\ tuple_data_size(m, t) = 4
                    /\ \A i : tuple_get_data(m, t, i) = t + 4 + 4 * i
  BY SMT DEF tuple_size, tuple_data_count, tuple_data_size, tuple_get_data,
     SizeofStd, STD, HD, STD_ARRAY, HD_ARRAY, VAR_ARRAY, TUPLE_ARRAY
<1>2. type = HD => /\ tuple_size(m, t) = 4
                   /\ tuple_data_count(m, t) = 1
                   /\ tuple_data_size(m, t) = 2
                   /\ \A i : tuple_get_data(m, t, i) = t + 2
  BY SMT DEF tuple_size, tuple_data_count, tuple_data_size, tuple_get_data,
     SizeofMicro, STD, HD, STD_ARRAY, HD_ARRAY, VAR_ARRAY, TUPLE_ARRAY
<1>3. type = STD_ARRAY => /\ tuple_size(m, t) = 4 + 4 * Count(m, t)
                          /\ tuple_data_count(m, t) = Count(m, t)
                          /\ tuple_data_size(m, t) = 4
                          /\ \A i : tuple_get_data(m, t, i) = t + 4 + 4 * i
  BY SMT DEF tuple_size, tuple_data_count, tuple_data_size, tuple_get_data,
     SizeofStd, STD, HD, STD_ARRAY, HD_ARRAY, VAR_ARRAY, TUPLE_ARRAY
<1>4. type = HD_ARRAY => /\ tuple_size(m, t) = 4 + 2 * Count(m, t)
                         /\ tuple_data_count(m, t) = Count(m, t)
                         /\ tuple_data_size(m, t) = 2
                         /\ \A i : tuple_get_data(m, t, i) = t + 4 + 2 * i
  BY SMT DEF tuple_size, tuple_data_count, tuple_data_size, tuple_get_data,
     SizeofMicro, STD, HD, STD_ARRAY, HD_ARRAY, VAR_ARRAY, TUPLE_ARRAY
<1>5. QED
  BY <1>1, <1>2, <1>3, <1>4

(* A tuple that carries an element is one of four kinds.                   *)
LEMMA CarriesKinds ==
  ASSUME NEW m, NEW t, NEW k, NEW e, NEW v, Sized(e), Carries(m, t, k, e, v)
  PROVE  LET size == elem_get_data_size(e)
             type == TupleType(m, t)
         IN \/ type = STD /\ k = 1 /\ 4 * Count(m, t) = size
            \/ type = HD /\ k = 1 /\ size = 2
            \/ type = STD_ARRAY /\ Count(m, t) = k /\ size = 4
            \/ type = HD_ARRAY /\ Count(m, t) = k /\ size = 2
BY DEF Carries, Sized, SingleTypes, ArrayTypes, STD, HD, STD_ARRAY, HD_ARRAY

(* What the accessors say of it: it has k items, and it is as long as they *)
(* are.                                                                    *)
LEMMA CarriesSize ==
  ASSUME NEW m \in Memory, NEW t \in Nat, t + 8 <= 2 * Cells, NEW k \in Nat,
         NEW e, NEW v, Sized(e), Carries(m, t, k, e, v)
  PROVE  /\ tuple_data_count(m, t) = k
         /\ tuple_size(m, t) \in Nat /\ tuple_size(m, t) >= 4
         /\ TupleType(m, t) # HD =>
              tuple_size(m, t) = SizeofStd + k * elem_get_data_size(e)
<1> DEFINE size == elem_get_data_size(e)
           type == TupleType(m, t)
<1>1. Count(m, t) \in Nat
  BY HeaderType, U16Elim
<1>2. size \in Nat
  BY DEF Sized
<1>3. \/ type = STD /\ k = 1 /\ 4 * Count(m, t) = size
      \/ type = HD /\ k = 1 /\ size = 2
      \/ type = STD_ARRAY /\ Count(m, t) = k /\ size = 4
      \/ type = HD_ARRAY /\ Count(m, t) = k /\ size = 2
  BY CarriesKinds
<1>4. /\ type = STD => /\ tuple_size(m, t) = 4 + 4 * Count(m, t)
                       /\ tuple_data_count(m, t) = 1
      /\ type = HD => tuple_size(m, t) = 4 /\ tuple_data_count(m, t) = 1
      /\ type = STD_ARRAY => /\ tuple_size(m, t) = 4 + 4 * Count(m, t)
                             /\ tuple_data_count(m, t) = Count(m, t)
      /\ type = HD_ARRAY => /\ tuple_size(m, t) = 4 + 2 * Count(m, t)
                            /\ tuple_data_count(m, t) = Count(m, t)
  BY Accessors
<1> HIDE DEF size, type
<1>5. CASE type = STD /\ k = 1 /\ 4 * Count(m, t) = size
  BY <1>1, <1>2, <1>4, <1>5 DEF SizeofStd, size, type
<1>6. CASE type = HD /\ k = 1 /\ size = 2
  BY <1>4, <1>6 DEF type
<1>7. CASE type = STD_ARRAY /\ Count(m, t) = k /\ size = 4
  BY <1>1, <1>4, <1>7 DEF SizeofStd, size, type
<1>8. CASE type = HD_ARRAY /\ Count(m, t) = k /\ size = 2
  BY <1>1, <1>4, <1>8 DEF SizeofStd, size, type
<1>9. QED
  BY <1>3, <1>5, <1>6, <1>7, <1>8

(* The two memories are the same from a up to, but not including, b.       *)
Agree(m, n, a, b) == \A x \in Nat : a <= x /\ x < b => Half(n, x) = Half(m, x)

(* What a tuple says depends on its own bytes only.                        *)
LEMMA CarriesKept ==
  ASSUME NEW m \in Memory, NEW t \in Nat, t + 8 <= 2 * Cells, NEW k \in Nat,
         NEW e, e.id \in Nat, NEW v, Sized(e), Carries(m, t, k, e, v),
         NEW n, Agree(m, n, t, t + tuple_size(m, t))
  PROVE  Carries(n, t, k, e, v) /\ tuple_size(n, t) = tuple_size(m, t)
<1> DEFINE size == elem_get_data_size(e)
           type == TupleType(m, t)
           i == e.id - TupleId(m, t)
           d == tuple_get_data(m, t, i)
<1>1. Count(m, t) \in Nat /\ TupleId(m, t) \in Nat /\ type \in Nat
  BY HeaderType, U16Elim
<1>2. size \in Nat
  BY DEF Sized
<1>3. \/ type = STD /\ k = 1 /\ 4 * Count(m, t) = size
      \/ type = HD /\ k = 1 /\ size = 2
      \/ type = STD_ARRAY /\ Count(m, t) = k /\ size = 4
      \/ type = HD_ARRAY /\ Count(m, t) = k /\ size = 2
  BY CarriesKinds
<1>4. tuple_size(m, t) \in Nat /\ tuple_size(m, t) >= 4
  BY CarriesSize
<1>5. i \in 0 .. k - 1 /\ i \in Int
  BY DEF Carries
<1>6. Half(n, t) = Half(m, t) /\ Half(n, t + 2) = Half(m, t + 2)
  <2>1. t < t + tuple_size(m, t) /\ t + 2 \in Nat /\ t + 2 < t + tuple_size(m, t)
    BY <1>4
  <2>2. QED
    BY <2>1 DEF Agree
<1>7. /\ TupleType(n, t) = type /\ TupleId(n, t) = TupleId(m, t)
      /\ Count(n, t) = Count(m, t)
  BY <1>6 DEF TupleType, TupleId, Count
<1>8. tuple_size(n, t) = tuple_size(m, t)
  BY <1>3, <1>7, Accessors
<1>9. tuple_get_data(n, t, i) = d
  BY <1>3, <1>7, Accessors
<1>10. d \in Nat /\ d >= t /\ d + size <= t + tuple_size(m, t)
  <2>1. CASE type = STD /\ k = 1 /\ 4 * Count(m, t) = size
    <3>1. d = t + 4 + 4 * i /\ tuple_size(m, t) = 4 + 4 * Count(m, t)
      BY <2>1, Accessors
    <3> HIDE DEF d, i, size
    <3>2. QED
      BY <1>1, <1>2, <1>5, <2>1, <3>1
  <2>2. CASE type = HD /\ k = 1 /\ size = 2
    <3>1. d = t + 2 /\ tuple_size(m, t) = 4
      BY <2>2, Accessors
    <3> HIDE DEF d, i, size
    <3>2. QED
      BY <1>1, <1>2, <1>5, <2>2, <3>1
  <2>3. CASE type = STD_ARRAY /\ Count(m, t) = k /\ size = 4
    <3>1. d = t + 4 + 4 * i /\ tuple_size(m, t) = 4 + 4 * Count(m, t)
      BY <2>3, Accessors
    <3> HIDE DEF d, i, size
    <3>2. QED
      BY <1>1, <1>2, <1>5, <2>3, <3>1
  <2>4. CASE type = HD_ARRAY /\ Count(m, t) = k /\ size = 2
    <3>1. d = t + 4 + 2 * i /\ tuple_size(m, t) = 4 + 2 * Count(m, t)
      BY <2>4, Accessors
    <3> HIDE DEF d, i, size
    <3>2. QED
      BY <1>1, <1>2, <1>5, <2>4, <3>1
  <2>5. QED
    BY <1>3, <2>1, <2>2, <2>3, <2>4
<1>11. Holds(n, d, v, size)
  <2>1. Holds(m, d, v, size)
    BY DEF Carries
  <2>2. ASSUME NEW j \in 0 .. (size \div 2) - 1
        PROVE  Half(n, d + 2 * j) = v[j]
    <3> HIDE DEF d, size
    <3>1. d + 2 * j \in Nat /\ t <= d + 2 * j /\ d + 2 * j < t + tuple_size(m, t)
      BY <1>2, <1>4, <1>10
    <3>2. Half(n, d + 2 * j) = Half(m, d + 2 * j)
      BY <3>1 DEF Agree
    <3>3. QED
      BY <2>1, <3>2 DEF Holds
  <2>3. QED
    BY <2>2 DEF Holds
<1>12. QED
  BY <1>7, <1>8, <1>9, <1>11 DEF Carries

-----------------------------------------------------------------------------
(* Arithmetic that the lemmas below do not need to look into.              *)
Even(a) == a % 2 = 0
InMemory(a, size) == a + size <= 2 * Cells

(* Nothing but the bytes from a up to, but not including, b has changed.   *)
Outside(m, n, a, b) ==
  \A x \in Nat : x < 2 * Cells /\ (x < a \/ x >= b) => Half(n, x) = Half(m, x)

(* A member that is copied in is found again, and the bytes before and     *)
(* behind it are as they were.                                             *)
LEMMA CopyInData ==
  ASSUME NEW m \in Memory, NEW a \in Nat, Even(a), NEW size \in Nat,
         Even(size), NEW v, InMemory(a, size)
  PROVE  /\ Holds(CopyIn(m, a, v, size), a, v, size)
         /\ Outside(m, CopyIn(m, a, v, size), a, a + size)
<1> DEFINE n == CopyIn(m, a, v, size)
<1>1. \A c \in 0 .. Cells - 1 :
        n[c] = IF c >= a \div 2 /\ c < (a + size) \div 2
               THEN v[c - (a \div 2)] ELSE m[c]
  BY DEF Memory, CopyIn
<1> HIDE DEF n
<1>2. ASSUME NEW k \in 0 .. (size \div 2) - 1
      PROVE  Half(n, a + 2 * k) = v[k]
  <2> DEFINE c == (a + 2 * k) \div 2
  <2>1. /\ c \in 0 .. Cells - 1 /\ c >= a \div 2 /\ c < (a + size) \div 2
        /\ c - (a \div 2) = k
    BY MemoryAssumption DEF Even, InMemory
  <2>2. n[c] = v[k]
    <3> HIDE DEF c
    <3>1. QED
      BY <1>1, <2>1
  <2>3. QED
    BY <2>2 DEF Half
<1>3. ASSUME NEW b \in Nat, b < 2 * Cells, b < a \/ b >= a + size
      PROVE  Half(n, b) = Half(m, b)
  <2> DEFINE c == b \div 2
  <2>1. /\ c \in 0 .. Cells - 1
        /\ ~ (c >= a \div 2 /\ c < (a + size) \div 2)
    BY <1>3, MemoryAssumption DEF Even, InMemory
  <2>2. n[c] = m[c]
    <3> HIDE DEF c
    <3>1. QED
      BY <1>1, <2>1
  <2>3. QED
    BY <2>2 DEF Half
<1>4. QED
  BY <1>2, <1>3 DEF n, Holds, Outside

(* The fields of the word tuple_init writes.                               *)
LEMMA TupleWordFields ==
  ASSUME NEW type \in {STD, HD}, NEW id \in Nat, id < 8192
  PROVE  /\ TupleWord(type, id) \in Int
         /\ (TupleWord(type, id) % 65536) % 8 = type
         /\ (TupleWord(type, id) % 65536) \div 8 = id
<1>1. type \in {0, 1}
  BY DEF STD, HD
<1>2. ASSUME NEW x \in {0, 1}
      PROVE  /\ x + 8 * id \in Int
             /\ ((x + 8 * id) % 65536) % 8 = x
             /\ ((x + 8 * id) % 65536) \div 8 = id
  BY SMT
<1>3. id % 8192 = id
  BY SMT
<1>4. QED
  BY <1>1, <1>2, <1>3 DEF TupleWord

(* One store.                                                              *)
LEMMA StoreCell ==
  ASSUME NEW m \in Memory, NEW a \in Nat, Even(a), InMemory(a, 2), NEW x \in Int
  PROVE  LET n == Store(m, a, x)
         IN /\ n \in Memory /\ Half(n, a) = x % 65536
            /\ Outside(m, n, a, a + 2)
<1> DEFINE n == Store(m, a, x)
<1>1. a < 2 * Cells
  BY MemoryAssumption DEF InMemory
<1>2. n \in Memory /\ Half(n, a) = x % 65536
  BY <1>1, StoreType, StoreRead
<1>3. \A b \in Nat : b < 2 * Cells /\ b \div 2 # a \div 2 =>
        Half(n, b) = Half(m, b)
  BY StoreRead
<1> HIDE DEF n
<1>4. ASSUME NEW b \in Nat, b < 2 * Cells, b < a \/ b >= a + 2
      PROVE  Half(n, b) = Half(m, b)
  <2>1. b \div 2 # a \div 2
    BY <1>4 DEF Even
  <2>2. QED
    BY <1>3, <1>4, <2>1
<1>5. QED
  BY <1>2, <1>4 DEF Outside, n

(* Two stores side by side. *)
LEMMA StorePair ==
  ASSUME NEW m \in Memory, NEW a \in Nat, Even(a), InMemory(a, 4),
         NEW x \in Int, NEW y \in Int
  PROVE  LET n == Store(Store(m, a, x), a + 2, y)
         IN /\ n \in Memory
            /\ Half(n, a) = x % 65536 /\ Half(n, a + 2) = y % 65536
            /\ Outside(m, n, a, a + 4)
<1> DEFINE a2 == a + 2
           m1 == Store(m, a, x)
           n == Store(m1, a2, y)
<1>1. a < 2 * Cells /\ a2 \in Nat /\ a2 < 2 * Cells /\ a2 \div 2 # a \div 2
  BY MemoryAssumption DEF Even, InMemory
<1>2. m1 \in Memory
  BY StoreType
<1>3. Half(m1, a) = x % 65536
  BY <1>1, StoreRead
<1>4. \A b \in Nat : b < 2 * Cells /\ b \div 2 # a \div 2 =>
        Half(m1, b) = Half(m, b)
  BY StoreRead
<1> HIDE DEF m1, a2
<1>5. n = Store(m1, a2, y)
  OBVIOUS
<1> HIDE DEF n
<1>6. n \in Memory
  BY <1>1, <1>2, <1>5, StoreType
<1>7. Half(n, a2) = y % 65536
  BY <1>1, <1>2, <1>5, StoreRead
<1>8. \A b \in Nat : b < 2 * Cells /\ b \div 2 # a2 \div 2 =>
        Half(n, b) = Half(m1, b)
  BY <1>1, <1>2, <1>5, StoreRead
<1>9. Half(n, a) = x % 65536
  BY <1>1, <1>3, <1>8
<1>10. ASSUME NEW b \in Nat, b < 2 * Cells, b < a \/ b >= a + 4
       PROVE  Half(n, b) = Half(m, b)
  <2>1. b \div 2 # a \div 2 /\ b \div 2 # a2 \div 2
    BY <1>10 DEF a2, Even
  <2>2. QED
    BY <1>4, <1>8, <1>10, <2>1
<1>11. Outside(m, n, a, a + 4)
  BY <1>10 DEF Outside
<1>12. QED
  BY <1>6, <1>7, <1>9, <1>11 DEF n, m1, a2

(* What tuple_init makes of a size in bytes.                               *)
InWords(size) == (size % 65536) \div 4

(* tuple_init where no type was left in the buffer. *)
LEMMA FreshInit ==
  ASSUME NEW m \in Memory, NEW t \in Nat, Even(t), InMemory(t, 8),
         TupleType(m, t) = STD, NEW type \in {STD, HD},
         NEW id \in Nat, id < 8192, NEW size \in Nat
  PROVE  LET i == tuple_init(m, t, type, id, size)
         IN /\ i \in Memory /\ TupleType(i, t) = type /\ TupleId(i, t) = id
            /\ Count(i, t) = InWords(size)
            /\ Outside(m, i, t, t + 4)
<1> DEFINE i == tuple_init(m, t, type, id, size)
           word == TupleWord(type, id)
           words == (size % 65536) \div 4
<1>1. /\ word \in Int /\ (word % 65536) % 8 = type
      /\ (word % 65536) \div 8 = id
  BY TupleWordFields
<1>2. i = Store(Store(m, t, word), t + 2, words)
  BY SMT DEF tuple_init, STD, HD, STD_ARRAY, HD_ARRAY, VAR_ARRAY, TUPLE_ARRAY
<1>3. word \in Int
  BY <1>1
<1>4. words \in Int
  OBVIOUS
<1>5. InMemory(t, 4)
  BY MemoryAssumption DEF InMemory
<1> HIDE DEF word, words, i
<1>6. /\ i \in Memory
      /\ Half(i, t) = word % 65536 /\ Half(i, t + 2) = words % 65536
      /\ Outside(m, i, t, t + 4)
  BY <1>2, <1>3, <1>4, <1>5, StorePair
<1>7. words % 65536 = InWords(size)
  BY DEF words, InWords
<1>8. QED
  BY <1>1, <1>6, <1>7 DEF TupleType, TupleId, Count, i

(* The members an element may hold.                                        *)
Member(e, v) ==
  \A k \in 0 .. (elem_get_data_size(e) \div 2) - 1 : v[k] \in U16

(* A single tuple on a word that held no type: it carries the element,     *)
(* ends where the member does, and nothing else changed.                   *)
LEMMA SingleMade ==
  ASSUME NEW m \in Memory, NEW t \in Nat, Even(t), InMemory(t, 8),
         TupleType(m, t) = STD,
         NEW e, e.id \in Nat, e.id < 8192, Sized(e), NEW v, Member(e, v),
         NEW size, size = elem_get_data_size(e),
         NEW i, i = tuple_init(m, t, ipct_get_type(e.type), e.id, size),
         NEW d, d = tuple_get_data(i, t, 0), InMemory(d, size),
         NEW n, n = CopyIn(i, d, v, size)
  PROVE  /\ n \in Memory /\ d \in Nat /\ d > t /\ Even(d)
         /\ Carries(n, t, 1, e, v) /\ TupleId(n, t) = e.id
         /\ t + tuple_size(n, t) = d + size /\ d + size >= t + 4
         /\ Outside(m, n, t, d + size)
<1> DEFINE type == ipct_get_type(e.type)
<1>1. /\ type \in {STD, HD}
      /\ e.type \in HalfWordTypes <=> type = HD
  BY DEF ipct_get_type, STD, HD
<1>2. /\ size \in Nat
      /\ type = HD => size = 2
      /\ type = STD => size % 4 = 0 /\ size < 65536
  BY <1>1 DEF Sized, STD, HD
<1> HIDE DEF type
<1>3. size \in Nat /\ size % 2 = 0 /\ Even(size)
  BY <1>1, <1>2 DEF Even
<1>4. i = tuple_init(m, t, type, e.id, size)
  BY DEF type
<1>5. /\ i \in Memory /\ TupleType(i, t) = type /\ TupleId(i, t) = e.id
      /\ Count(i, t) = InWords(size)
      /\ Outside(m, i, t, t + 4)
  BY <1>1, <1>3, <1>4, FreshInit
<1>6. /\ type = STD => d = t + 4
      /\ type = HD => d = t + 2
  <2>1. type = STD => d = t + 4 + 4 * 0
    BY <1>5, Accessors
  <2>2. type = HD => d = t + 2
    BY <1>5, Accessors
  <2>3. QED
    BY <2>1, <2>2
<1>7. d \in Nat /\ Even(d) /\ d > t
  <2>1. d \in {t + 2, t + 4}
    BY <1>1, <1>6
  <2>2. QED
    BY <2>1 DEF Even
<1>8. \A k \in 0 .. (size \div 2) - 1 : v[k] \in U16
  BY DEF Member
<1>9. n \in Memory
  BY <1>3, <1>5, <1>7, <1>8, CopyInType
<1>10. Holds(n, d, v, size) /\ Outside(i, n, d, d + size)
  <2>1. i \in Memory
    BY <1>5
  <2>2. QED
    BY <1>3, <1>7, <2>1, CopyInData
<1>11. t < 2 * Cells /\ t + 2 \in Nat /\ t + 2 < 2 * Cells
  BY MemoryAssumption DEF InMemory
<1>12. Half(n, t) = Half(i, t)
  BY <1>7, <1>10, <1>11 DEF Outside
<1>13. TupleType(n, t) = type /\ TupleId(n, t) = e.id
  BY <1>5, <1>12 DEF TupleType, TupleId
<1>14. type = STD => Count(n, t) = size \div 4
  <2>1. type = STD => Half(n, t + 2) = Half(i, t + 2)
    BY <1>6, <1>10, <1>11 DEF Outside
  <2>2. type = STD => InWords(size) = size \div 4
    BY <1>2 DEF InWords
  <2>3. QED
    BY <1>5, <2>1, <2>2 DEF Count
<1>15. t + tuple_size(n, t) = d + size /\ d + size >= t + 4
  <2>1. CASE type = STD
    <3>1. tuple_size(n, t) = 4 + 4 * Count(n, t)
      BY <1>13, <2>1, Accessors
    <3>2. size = 4 * (size \div 4)
      BY <1>2, <2>1
    <3>3. QED
      BY <1>2, <1>6, <1>14, <2>1, <3>1, <3>2
  <2>2. CASE type = HD
    <3>1. tuple_size(n, t) = 4
      BY <1>13, <2>2, Accessors
    <3>2. QED
      BY <1>2, <1>6, <2>2, <3>1
  <2>3. QED
    BY <1>1, <2>1, <2>2
<1>16. tuple_get_data(n, t, 0) = d
  <2>1. type = STD => tuple_get_data(n, t, 0) = t + 4 + 4 * 0
    BY <1>13, Accessors
  <2>2. type = HD => tuple_get_data(n, t, 0) = t + 2
    BY <1>13, Accessors
  <2>3. QED
    BY <1>1, <1>6, <2>1, <2>2
<1>17. Carries(n, t, 1, e, v)
  <2>1. e.id - TupleId(n, t) = 0 /\ 0 \in 0 .. 1 - 1
    BY <1>13
  <2>2. type = STD => 4 * Count(n, t) = size
    BY <1>2, <1>14
  <2>3. /\ TupleType(n, t) \in IF e.type \in HalfWordTypes THEN {HD, HD_ARRAY}
                                                          ELSE {STD, STD_ARRAY}
        /\ TupleType(n, t) \notin ArrayTypes /\ TupleType(n, t) # STD_ARRAY
    BY <1>1, <1>13 DEF STD, HD, ArrayTypes, STD_ARRAY, HD_ARRAY
  <2>4. Holds(n, tuple_get_data(n, t, e.id - TupleId(n, t)), v,
              elem_get_data_size(e))
    BY <1>10, <1>16, <2>1
  <2>5. QED
    BY <1>13, <2>1, <2>2, <2>3, <2>4 DEF Carries
<1>18. ASSUME NEW b \in Nat, b < 2 * Cells, b < t \/ b >= d + size
       PROVE  Half(n, b) = Half(m, b)
  <2>1. (b < d \/ b >= d + size) /\ (b < t \/ b >= t + 4)
    BY <1>3, <1>7, <1>15, <1>18
  <2>2. QED
    BY <1>5, <1>10, <1>18, <2>1 DEF Outside
<1>19. Outside(m, n, t, d + size)
  BY <1>18 DEF Outside
<1>20. QED
  BY <1>7, <1>9, <1>13, <1>15, <1>17, <1>19

-----------------------------------------------------------------------------
(* A tuple with k items, of the four kinds the packer makes; a word that   *)
(* is to be joined by another holds no more than that.                     *)
Growable(m, t, k) ==
  /\ TupleType(m, t) \in SingleTypes \cup ArrayTypes
  /\ TupleType(m, t) \in SingleTypes => k = 1
  /\ TupleType(m, t) = STD => Count(m, t) = 1
  /\ TupleType(m, t) \in ArrayTypes => Count(m, t) = k

(* The array a type grows into.                                            *)
ArrayOf(type) == IF type \in {STD, STD_ARRAY} THEN STD_ARRAY ELSE HD_ARRAY

(* Adding two to the first cell of a single tuple makes it an array and    *)
(* keeps its ID.                                                           *)
LEMMA GrownWord ==
  ASSUME NEW x \in U16, x % 8 \in SingleTypes
  PROVE  /\ x + 2 \in Int
         /\ ((x + 2) % 65536) % 8 = ArrayOf(x % 8)
         /\ ((x + 2) % 65536) \div 8 = x \div 8
<1>1. x \in Nat /\ x < 65536
  BY U16Elim
<1>2. x % 8 = 0 \/ x % 8 = 1
  BY DEF SingleTypes, STD, HD
<1>3. /\ ((x + 2) % 65536) % 8 = (x % 8) + 2
      /\ ((x + 2) % 65536) \div 8 = x \div 8
  BY <1>1, <1>2
<1>4. ArrayOf(x % 8) = (x % 8) + 2
  BY <1>2 DEF ArrayOf, STD, HD, STD_ARRAY, HD_ARRAY
<1>5. QED
  BY <1>1, <1>3, <1>4

(* tuple_inc_elems counts one item more and moves the datum of a half-word *)
(* tuple behind the count it makes room for.                               *)
LEMMA Incremented ==
  ASSUME NEW m \in Memory, NEW t \in Nat, Even(t), InMemory(t, 8),
         NEW k \in Nat, k < 65535, Growable(m, t, k)
  PROVE  LET n == tuple_inc_elems(m, t)
         IN /\ n \in Memory /\ TupleType(n, t) = ArrayOf(TupleType(m, t))
            /\ TupleId(n, t) = TupleId(m, t) /\ Count(n, t) = k + 1
            /\ Outside(m, n, t, t + 4 + SizeIncrease(m, t))
            /\ TupleType(m, t) = HD => Half(n, t + 4) = Half(m, t + 2)
<1> DEFINE n == tuple_inc_elems(m, t)
           type == TupleType(m, t)
           x == Half(m, t)
           word == x + 2
           t2 == t + 2
           t4 == t + 4
           c == Count(m, t)
<1>1. x \in U16 /\ c \in U16
  BY HeaderType DEF InMemory
<1>2. c \in Int /\ x \in Int /\ word \in Int /\ c + 1 \in Int /\ 2 \in Int
      /\ k + 1 \in Int
  BY <1>1, U16Elim
<1>3. type \in SingleTypes => /\ (word % 65536) % 8 = ArrayOf(type)
                              /\ (word % 65536) \div 8 = TupleId(m, t)
  BY <1>1, GrownWord DEF TupleType, TupleId
<1>4. /\ t2 \in Nat /\ t4 \in Nat /\ t < 2 * Cells /\ t2 < 2 * Cells
      /\ t4 < 2 * Cells /\ InMemory(t, 4)
  BY MemoryAssumption DEF InMemory
<1>5. CASE type = STD
  <2>1. n = Store(Store(m, t, word), t + 2, c + 1)
    BY <1>5 DEF tuple_inc_elems, STD, HD, STD_ARRAY, HD_ARRAY, VAR_ARRAY,
                TUPLE_ARRAY
  <2>2. c = 1 /\ k = 1
    BY <1>5 DEF Growable, SingleTypes
  <2> HIDE DEF n, type, x, word, c
  <2>3. /\ n \in Memory /\ Half(n, t) = word % 65536
        /\ Half(n, t + 2) = (c + 1) % 65536 /\ Outside(m, n, t, t + 4)
    BY <1>2, <1>4, <2>1, StorePair
  <2>4. (c + 1) % 65536 = k + 1
    BY <2>2
  <2>5. SizeIncrease(m, t) = 0 /\ t + 4 + 0 = t + 4
    BY <1>5 DEF SizeIncrease, type, STD, HD
  <2>6. type \in SingleTypes /\ type # HD
    BY <1>5 DEF SingleTypes, STD, HD
  <2>7. Outside(m, n, t, t + 4 + SizeIncrease(m, t))
    BY <2>3, <2>5
  <2>8. /\ TupleType(n, t) = ArrayOf(type) /\ TupleId(n, t) = TupleId(m, t)
        /\ Count(n, t) = k + 1
    BY <1>3, <2>3, <2>4, <2>6 DEF TupleType, TupleId, Count
  <2>9. QED
    BY <2>3, <2>6, <2>7, <2>8 DEF n, type
<1>6. CASE type = HD
  <2> DEFINE m1 == Store(m, t, word)
             d == Half(m, t2)
             m2 == Store(m1, t4, d)
  <2>1. n = Store(m2, t2, 2)
    BY <1>6 DEF tuple_inc_elems, STD, HD, STD_ARRAY, HD_ARRAY, VAR_ARRAY,
                TUPLE_ARRAY
  <2>2. k = 1
    BY <1>6 DEF Growable, SingleTypes
  <2>3. d \in U16 /\ d \in Int
    BY <1>1, U16Elim DEF Count
  <2>4. d % 65536 = d
    <3> HIDE DEF d
    <3>1. d \in Nat /\ d < 65536
      BY <2>3, U16Elim
    <3>2. QED
      BY <3>1
  <2>5. /\ Even(t4) /\ Even(t2)
        /\ InMemory(t, 2) /\ InMemory(t4, 2) /\ InMemory(t2, 2)
    BY MemoryAssumption DEF Even, InMemory
  <2> HIDE DEF n, type, x, word, c, d, t2, t4
  <2>6. m1 \in Memory /\ Half(m1, t) = word % 65536 /\ Outside(m, m1, t, t + 2)
    BY <1>2, <2>5, StoreCell
  <2> HIDE DEF m1
  <2>7. m2 \in Memory /\ Half(m2, t4) = d /\ Outside(m1, m2, t4, t4 + 2)
    BY <1>4, <2>3, <2>4, <2>5, <2>6, StoreCell
  <2> HIDE DEF m2
  <2>8. n \in Memory /\ Half(n, t2) = 2 % 65536 /\ Outside(m2, n, t2, t2 + 2)
    BY <1>2, <1>4, <2>1, <2>5, <2>7, StoreCell
  <2>9. Half(n, t) = word % 65536
    BY <1>4, <2>6, <2>7, <2>8 DEF Outside, t2, t4
  <2>10. Half(n, t4) = d
    BY <1>4, <2>7, <2>8 DEF Outside, t2, t4
  <2>12. SizeIncrease(m, t) = 2
    BY <1>6 DEF SizeIncrease, type
  <2>13. ASSUME NEW b \in Nat, b < 2 * Cells, b < t \/ b >= t + 4 + 2
         PROVE  Half(n, b) = Half(m, b)
    <3>1. /\ b < t \/ b >= t + 2
          /\ b < t4 \/ b >= t4 + 2
          /\ b < t2 \/ b >= t2 + 2
      BY <2>13 DEF t2, t4
    <3>2. QED
      BY <2>6, <2>7, <2>8, <2>13, <3>1 DEF Outside
  <2>14. Outside(m, n, t, t + 4 + SizeIncrease(m, t))
    BY <2>12, <2>13 DEF Outside
  <2>15. type \in SingleTypes
    BY <1>6 DEF SingleTypes
  <2>16. 2 % 65536 = k + 1
    BY <2>2
  <2>17. /\ TupleType(n, t) = ArrayOf(type) /\ TupleId(n, t) = TupleId(m, t)
         /\ Count(n, t) = k + 1
    BY <1>3, <2>8, <2>9, <2>15, <2>16 DEF TupleType, TupleId, Count, t2
  <2>18. QED
    BY <2>8, <2>10, <2>14, <2>17 DEF n, type, t4, d, t2
<1>7. CASE type \in ArrayTypes
  <2>1. n = Store(m, t2, c + 1)
    BY <1>7 DEF tuple_inc_elems, ArrayTypes, STD, HD, STD_ARRAY, HD_ARRAY,
                VAR_ARRAY, TUPLE_ARRAY
  <2>2. c = k
    BY <1>7 DEF Growable
  <2> HIDE DEF n, type, x, word, c, t2, t4
  <2>3. Even(t2) /\ InMemory(t2, 2)
    BY MemoryAssumption DEF Even, InMemory, t2
  <2>4. n \in Memory /\ Half(n, t2) = (c + 1) % 65536 /\ Outside(m, n, t2, t2 + 2)
    BY <1>2, <1>4, <2>1, <2>3, StoreCell
  <2>5. (c + 1) % 65536 = k + 1
    BY <2>2
  <2>6. Half(n, t) = Half(m, t)
    BY <1>4, <2>4 DEF Outside, t2
  <2>7. type # HD /\ type # STD /\ ArrayOf(type) = type
    BY <1>7 DEF ArrayTypes, ArrayOf, STD, HD, STD_ARRAY, HD_ARRAY
  <2>8. SizeIncrease(m, t) = 0 /\ t + 4 + 0 = t + 4
    BY <2>7 DEF SizeIncrease, type
  <2>9. ASSUME NEW b \in Nat, b < 2 * Cells, b < t \/ b >= t + 4
        PROVE  Half(n, b) = Half(m, b)
    <3>1. b < t2 \/ b >= t2 + 2
      BY <2>9 DEF t2
    <3>2. QED
      BY <2>4, <2>9, <3>1 DEF Outside
  <2>10. Outside(m, n, t, t + 4 + SizeIncrease(m, t))
    BY <2>8, <2>9 DEF Outside
  <2>11. /\ TupleType(n, t) = type /\ TupleId(n, t) = TupleId(m, t)
         /\ Count(n, t) = k + 1
    BY <2>4, <2>5, <2>6 DEF TupleType, TupleId, Count, t2, type
  <2>12. QED
    BY <2>4, <2>7, <2>10, <2>11 DEF n, type
<1>8. QED
  BY <1>5, <1>6, <1>7 DEF Growable, SingleTypes

(* Growing a tuple and appending a datum: the address of the datum.        *)
LEMMA GrownData ==
  ASSUME NEW m \in Memory, NEW t \in Nat, InMemory(t, 8),
         NEW k \in Nat, Growable(m, t, k)
  PROVE  LET d == t + tuple_size(m, t) + SizeIncrease(m, t)
             array == ArrayOf(TupleType(m, t))
         IN /\ array \in {STD_ARRAY, HD_ARRAY}
            /\ array = STD_ARRAY => d = t + 4 + 4 * k
            /\ array = HD_ARRAY => d = t + 4 + 2 * k
            /\ t + 4 + SizeIncrease(m, t) <= d
<1> DEFINE type == TupleType(m, t)
           inc == SizeIncrease(m, t)
           size == tuple_size(m, t)
           d == t + size + inc
           array == ArrayOf(type)
<1>1. Count(m, t) \in Nat
  BY HeaderType, U16Elim DEF InMemory
<1>2. CASE type = STD
  <2>1. /\ inc = 0 /\ size = 4 + 4 * Count(m, t) /\ array = STD_ARRAY
        /\ array # HD_ARRAY
    BY <1>2, Accessors DEF SizeIncrease, ArrayOf, STD, HD, STD_ARRAY, HD_ARRAY
  <2>2. Count(m, t) = 1 /\ k = 1
    BY <1>2 DEF Growable, SingleTypes
  <2> HIDE DEF type, inc, size, array
  <2>3. d = t + 4 + 4 * k /\ t + 4 + inc <= d
    BY <1>1, <2>1, <2>2
  <2>4. QED
    BY <2>1, <2>3 DEF type, inc, size, array
<1>3. CASE type = HD
  <2>1. inc = 2 /\ size = 4 /\ array = HD_ARRAY /\ array # STD_ARRAY
    BY <1>3, Accessors DEF SizeIncrease, ArrayOf, STD, HD, STD_ARRAY, HD_ARRAY
  <2>2. k = 1
    BY <1>3 DEF Growable, SingleTypes
  <2> HIDE DEF type, inc, size, array
  <2>3. d = t + 4 + 2 * k /\ t + 4 + inc <= d
    BY <2>1, <2>2
  <2>4. QED
    BY <2>1, <2>3 DEF type, inc, size, array
<1>4. CASE type = STD_ARRAY
  <2>1. /\ inc = 0 /\ size = 4 + 4 * Count(m, t) /\ array = STD_ARRAY
        /\ array # HD_ARRAY
    BY <1>4, Accessors DEF SizeIncrease, ArrayOf, STD, HD, STD_ARRAY, HD_ARRAY
  <2>2. Count(m, t) = k
    BY <1>4 DEF Growable, ArrayTypes
  <2> HIDE DEF type, inc, size, array
  <2>3. d = t + 4 + 4 * k /\ t + 4 + inc <= d
    BY <1>1, <2>1, <2>2
  <2>4. QED
    BY <2>1, <2>3 DEF type, inc, size, array
<1>5. CASE type = HD_ARRAY
  <2>1. /\ inc = 0 /\ size = 4 + 2 * Count(m, t) /\ array = HD_ARRAY
        /\ array # STD_ARRAY
    BY <1>5, Accessors DEF SizeIncrease, ArrayOf, STD, HD, STD_ARRAY, HD_ARRAY
  <2>2. Count(m, t) = k
    BY <1>5 DEF Growable, ArrayTypes
  <2> HIDE DEF type, inc, size, array
  <2>3. d = t + 4 + 2 * k /\ t + 4 + inc <= d
    BY <1>1, <2>1, <2>2
  <2>4. QED
    BY <2>1, <2>3 DEF type, inc, size, array
<1>6. QED
  BY <1>2, <1>3, <1>4, <1>5 DEF Growable, SingleTypes, ArrayTypes

(* The items a growable tuple had are found in the array it grew into: the *)
(* memory o, which holds the array, agrees with m on all but the header    *)
(* and has the moved datum.                                                *)
LEMMA GrownKeeps ==
  ASSUME NEW m \in Memory, NEW t \in Nat, Even(t), InMemory(t, 8),
         NEW k \in Nat, Growable(m, t, k),
         NEW d, d = t + tuple_size(m, t) + SizeIncrease(m, t), d < 2 * Cells,
         NEW o, TupleType(o, t) = ArrayOf(TupleType(m, t)),
         TupleId(o, t) = TupleId(m, t), Count(o, t) = k + 1,
         TupleType(m, t) = HD => Half(o, t + 4) = Half(m, t + 2),
         Agree(m, o, t + 4 + SizeIncrease(m, t), d),
         NEW e, e.id \in Nat, NEW v, Sized(e), Carries(m, t, k, e, v)
  PROVE  Carries(o, t, k + 1, e, v)
<1> DEFINE size == elem_get_data_size(e)
           type == TupleType(m, t)
           i == e.id - TupleId(m, t)
           a == tuple_get_data(m, t, i)
           b == tuple_get_data(o, t, i)
<1>1. TupleId(m, t) \in Nat /\ Count(m, t) \in Nat
  BY HeaderType, U16Elim DEF InMemory
<1>2. size \in Nat
  BY DEF Sized
<1>3. i \in 0 .. k - 1 /\ i \in Int /\ Holds(m, a, v, size)
  BY <1>1 DEF Carries
<1>4. /\ ArrayOf(type) = STD_ARRAY => d = t + 4 + 4 * k
      /\ ArrayOf(type) = HD_ARRAY => d = t + 4 + 2 * k
  BY GrownData
<1>5. i \in 0 .. (k + 1) - 1 /\ k + 1 >= 2
  BY <1>3
<1>6. CASE type = HD
  <2>1. size = 2 /\ k = 1
    BY <1>6, CarriesKinds DEF STD, HD, STD_ARRAY, HD_ARRAY
  <2>2. ArrayOf(type) = HD_ARRAY
    BY <1>6 DEF ArrayOf, STD, HD, STD_ARRAY
  <2>3. i = 0
    BY <1>3, <2>1
  <2>4. a = t + 2 /\ b = t + 4 + 2 * i
    BY <1>6, <2>2, Accessors
  <2>5. b = t + 4
    BY <2>3, <2>4
  <2>6. Holds(o, b, v, size)
    <3> SUFFICES ASSUME NEW j \in 0 .. (size \div 2) - 1
                 PROVE  Half(o, b + 2 * j) = v[j]
      BY DEF Holds
    <3>1. j = 0
      BY <2>1
    <3> HIDE DEF a, b, size
    <3>2. Half(m, a + 2 * j) = v[j]
      BY <1>3 DEF Holds
    <3>3. a + 2 * j = t + 2 /\ b + 2 * j = t + 4
      BY <2>4, <2>5, <3>1
    <3>4. QED
      BY <1>6, <3>2, <3>3
  <2>7. QED
    BY <1>5, <1>6, <2>1, <2>2, <2>6
    DEF Carries, STD, HD, STD_ARRAY, HD_ARRAY, SingleTypes, ArrayTypes
<1>7. CASE type \in {STD, STD_ARRAY}
  <2>1. size = 4
    <3>1. type = STD => size = 4 * Count(m, t) /\ Count(m, t) = 1
      BY DEF Carries, Growable
    <3>2. type = STD_ARRAY => size = 4
      BY DEF Carries
    <3>3. QED
      BY <1>7, <3>1, <3>2
  <2>2. ArrayOf(type) = STD_ARRAY
    BY <1>7 DEF ArrayOf
  <2>3. a = t + 4 + 4 * i /\ b = t + 4 + 4 * i
    BY <1>7, <2>2, Accessors
  <2>4. SizeIncrease(m, t) = 0
    BY <1>7 DEF SizeIncrease, STD, HD, STD_ARRAY
  <2>5. Holds(o, b, v, size)
    <3> SUFFICES ASSUME NEW j \in 0 .. (size \div 2) - 1
                 PROVE  Half(o, b + 2 * j) = v[j]
      BY DEF Holds
    <3> HIDE DEF a, b, i
    <3>1. Half(m, a + 2 * j) = v[j] /\ a = b
      BY <1>3, <2>3 DEF Holds
    <3>2. j \in {0, 1}
      BY <2>1
    <3> HIDE DEF size
    <3>3. a + 2 * j \in Nat /\ t + 4 <= a + 2 * j /\ a + 2 * j < d
      BY <1>3, <1>4, <2>2, <2>3, <3>2
    <3>4. Half(o, a + 2 * j) = Half(m, a + 2 * j)
      BY <2>4, <3>3 DEF Agree
    <3>5. QED
      BY <3>1, <3>4
  <2>6. QED
    BY <1>5, <1>7, <2>1, <2>2, <2>5
    DEF Carries, STD, HD, STD_ARRAY, HD_ARRAY, SingleTypes, ArrayTypes
<1>8. CASE type = HD_ARRAY
  <2>1. size = 2
    BY <1>8, CarriesKinds DEF STD, HD, STD_ARRAY, HD_ARRAY
  <2>2. ArrayOf(type) = HD_ARRAY
    BY <1>8 DEF ArrayOf, STD, HD, STD_ARRAY, HD_ARRAY
  <2>3. a = t + 4 + 2 * i /\ b = t + 4 + 2 * i
    BY <1>8, <2>2, Accessors
  <2>4. SizeIncrease(m, t) = 0
    BY <1>8 DEF SizeIncrease, HD, HD_ARRAY
  <2>5. Holds(o, b, v, size)
    <3> SUFFICES ASSUME NEW j \in 0 .. (size \div 2) - 1
                 PROVE  Half(o, b + 2 * j) = v[j]
      BY DEF Holds
    <3> HIDE DEF a, b, i
    <3>1. Half(m, a + 2 * j) = v[j] /\ a = b
      BY <1>3, <2>3 DEF Holds
    <3>2. j = 0
      BY <2>1
    <3> HIDE DEF size
    <3>3. a + 2 * j \in Nat /\ t + 4 <= a + 2 * j /\ a + 2 * j < d
      BY <1>3, <1>4, <2>2, <2>3, <3>2
    <3>4. Half(o, a + 2 * j) = Half(m, a + 2 * j)
      BY <2>4, <3>3 DEF Agree
    <3>5. QED
      BY <3>1, <3>4
  <2>6. QED
    BY <1>5, <1>8, <2>1, <2>2, <2>5
    DEF Carries, STD, HD, STD_ARRAY, HD_ARRAY, SingleTypes, ArrayTypes
<1>9. QED
  BY <1>6, <1>7, <1>8 DEF Growable, SingleTypes, ArrayTypes

(* What ipc_pack_cont leaves behind: the tuple carries what it carried,    *)
(* and the new element as its last item; it ends with the new datum, and   *)
(* nothing else changed.                                                   *)
LEMMA TupleGrown ==
  ASSUME NEW m \in Memory, NEW t \in Nat, Even(t), InMemory(t, 8),
         NEW k \in Nat, k >= 1, k < 65535, Growable(m, t, k),
         NEW d, d = t + tuple_size(m, t) + SizeIncrease(m, t),
         NEW e, e.id \in Nat, Sized(e), NEW v, Member(e, v),
         e.id = TupleId(m, t) + k,
         e.type \in HalfWordTypes <=> ArrayOf(TupleType(m, t)) = HD_ARRAY,
         e.type \notin HalfWordTypes => elem_get_data_size(e) = 4,
         NEW size, size = elem_get_data_size(e), InMemory(d, size),
         NEW o, o = CopyIn(tuple_inc_elems(m, t), d, v, size)
  PROVE  /\ o \in Memory
         /\ Carries(o, t, k + 1, e, v)
         /\ TupleId(o, t) = TupleId(m, t)
         /\ t + tuple_size(o, t) = d + size
         /\ tuple_data_size(o, t) = size
         /\ Outside(m, o, t, d + size)
         /\ \A f, w : f.id \in Nat /\ Sized(f) /\ Carries(m, t, k, f, w) =>
              Carries(o, t, k + 1, f, w)
<1> DEFINE n == tuple_inc_elems(m, t)
           inc == SizeIncrease(m, t)
           array == ArrayOf(TupleType(m, t))
<1>1. /\ n \in Memory /\ TupleType(n, t) = array
      /\ TupleId(n, t) = TupleId(m, t) /\ Count(n, t) = k + 1
      /\ Outside(m, n, t, t + 4 + inc)
      /\ TupleType(m, t) = HD => Half(n, t + 4) = Half(m, t + 2)
  BY Incremented
<1>2. /\ array \in {STD_ARRAY, HD_ARRAY}
      /\ array = STD_ARRAY => d = t + 4 + 4 * k
      /\ array = HD_ARRAY => d = t + 4 + 2 * k
      /\ t + 4 + inc <= d
  BY GrownData
<1>3. inc \in {0, 2} /\ (TupleType(m, t) = HD => inc = 2)
  BY DEF SizeIncrease
<1>4. o = CopyIn(n, d, v, size)
  OBVIOUS
<1> HIDE DEF n, inc, array
<1>5. /\ array = STD_ARRAY => size = 4
      /\ array = HD_ARRAY => size = 2
  BY DEF Sized, array, STD_ARRAY, HD_ARRAY
<1>6. size \in Nat /\ Even(size) /\ d \in Nat /\ Even(d)
  <2>1. size \in {2, 4}
    BY <1>2, <1>5
  <2>2. d \in {t + 4 + 4 * k, t + 4 + 2 * k}
    BY <1>2
  <2>3. QED
    BY <2>1, <2>2 DEF Even
<1>7. o \in Memory
  <2>1. \A j \in 0 .. (size \div 2) - 1 : v[j] \in U16
    BY DEF Member
  <2>2. size % 2 = 0
    BY <1>6 DEF Even
  <2>3. QED
    BY <1>1, <1>4, <1>6, <2>1, <2>2, CopyInType
<1>8. Holds(o, d, v, size) /\ Outside(n, o, d, d + size)
  BY <1>1, <1>4, <1>6, CopyInData
<1>9. d < 2 * Cells /\ d >= t + 4 + inc /\ inc \in Nat
  BY <1>2, <1>3, <1>5, <1>6, MemoryAssumption DEF InMemory
<1>10. \A x \in Nat : x < d => Half(o, x) = Half(n, x)
  BY <1>6, <1>8, <1>9, MemoryAssumption DEF Outside
<1>11. Half(o, t) = Half(n, t) /\ Half(o, t + 2) = Half(n, t + 2)
  <2>1. t < d /\ t + 2 \in Nat /\ t + 2 < d
    BY <1>6, <1>9
  <2>2. QED
    BY <1>10, <2>1
<1>12. /\ TupleType(o, t) = array /\ TupleId(o, t) = TupleId(m, t)
       /\ Count(o, t) = k + 1
  BY <1>1, <1>11 DEF TupleType, TupleId, Count
<1>13. TupleType(m, t) = HD => Half(o, t + 4) = Half(m, t + 2)
  <2> SUFFICES ASSUME TupleType(m, t) = HD
               PROVE  Half(o, t + 4) = Half(m, t + 2)
    OBVIOUS
  <2>1. t + 4 \in Nat /\ t + 4 < d
    BY <1>3, <1>6, <1>9
  <2>2. QED
    BY <1>1, <1>10, <2>1
<1>14. Agree(m, o, t + 4 + inc, d)
  <2> SUFFICES ASSUME NEW x \in Nat, t + 4 + inc <= x, x < d
               PROVE  Half(o, x) = Half(m, x)
    BY DEF Agree
  <2>1. x < 2 * Cells
    BY <1>6, <1>9, MemoryAssumption
  <2>2. Half(n, x) = Half(m, x)
    BY <1>1, <2>1 DEF Outside
  <2>3. QED
    BY <1>10, <2>2
<1>15. ASSUME NEW f, NEW w, f.id \in Nat, Sized(f), Carries(m, t, k, f, w)
       PROVE  Carries(o, t, k + 1, f, w)
  BY <1>9, <1>12, <1>13, <1>14, <1>15, GrownKeeps DEF array, inc
<1>16. Outside(m, o, t, d + size)
  <2> SUFFICES ASSUME NEW x \in Nat, x < 2 * Cells, x < t \/ x >= d + size
               PROVE  Half(o, x) = Half(m, x)
    BY DEF Outside
  <2>1. /\ x < d \/ x >= d + size
        /\ x < t \/ x >= t + 4 + inc
    BY <1>6, <1>9
  <2>2. QED
    BY <1>1, <1>8, <2>1 DEF Outside
<1>17. /\ tuple_get_data(o, t, k) = d
       /\ t + tuple_size(o, t) = d + size
       /\ tuple_data_size(o, t) = size
  <2>1. CASE array = STD_ARRAY
    <3>1. /\ tuple_get_data(o, t, k) = t + 4 + 4 * k
          /\ tuple_size(o, t) = 4 + 4 * Count(o, t)
          /\ tuple_data_size(o, t) = 4
      BY <1>12, <2>1, Accessors
    <3>2. QED
      BY <1>2, <1>5, <1>12, <2>1, <3>1
  <2>2. CASE array = HD_ARRAY
    <3>1. /\ tuple_get_data(o, t, k) = t + 4 + 2 * k
          /\ tuple_size(o, t) = 4 + 2 * Count(o, t)
          /\ tuple_data_size(o, t) = 2
      BY <1>12, <2>2, Accessors
    <3>2. QED
      BY <1>2, <1>5, <1>12, <2>2, <3>1
  <2>3. QED
    BY <1>2, <2>1, <2>2
<1>18. Carries(o, t, k + 1, e, v)
  <2>1. TupleId(m, t) \in Nat
    BY HeaderType DEF InMemory
  <2>2. e.id - TupleId(o, t) = k /\ k \in 0 .. (k + 1) - 1 /\ k + 1 >= 2
    BY <1>12, <2>1
  <2>3. Holds(o, tuple_get_data(o, t, e.id - TupleId(o, t)), v,
              elem_get_data_size(e))
    BY <1>8, <1>17, <2>2
  <2>4. /\ TupleType(o, t) \in IF e.type \in HalfWordTypes THEN {HD, HD_ARRAY}
                                                          ELSE {STD, STD_ARRAY}
        /\ TupleType(o, t) \notin SingleTypes /\ TupleType(o, t) # STD
    BY <1>2, <1>12 DEF array, STD, HD, SingleTypes, STD_ARRAY, HD_ARRAY
  <2>5. TupleType(o, t) = STD_ARRAY => elem_get_data_size(e) = 4
    BY <1>5, <1>12
  <2>6. QED
    BY <1>12, <2>2, <2>3, <2>4, <2>5 DEF Carries
<1>19. QED
  BY <1>7, <1>12, <1>15, <1>16, <1>17, <1>18

-----------------------------------------------------------------------------
(***************************************************************************)
(* What is assumed of the tables and the buffers.                          *)
(***************************************************************************)

(* No word of the memory from a on reads as a tuple of another type than   *)
(* the one tuple_init expects: zeroed memory, for one.                     *)
Untyped(m, a) ==
  \A x \in 0 .. 2 * Cells - 1 : a <= x /\ x % 4 = 0 => TupleType(m, x) = STD

(* Every call gets a buffer that nothing was packed into before.           *)
FreshBuffers == /\ ~ ReuseDest
                /\ \A m \in InitialMailboxes : Untyped(m, 0)

(* The number of words of a message fits the header's 24-bit field.        *)
SizeFits == SizeLimit <= 16777216

(* Elements wider than a half word are whole words, and single words where *)
(* two of them follow each other, as abi/message.h has it of arrays.       *)
TablesInWords ==
  /\ \A e \in AllElems : Sized(e)
  /\ \A key \in DOMAIN Registry : \A e, f \in Elems(Registry[key]) :
       e.type \notin HalfWordTypes /\ IsContinuous(e, f) =>
         elem_get_data_size(e) = 4 /\ elem_get_data_size(f) = 4

-----------------------------------------------------------------------------
(***************************************************************************)
(* What a message under construction carries.                              *)
(***************************************************************************)

(* Of a history q: the addresses of its tuples, and the elements of one.   *)
StartsIn(q)   == {q[i].tuple : i \in 1 .. Len(q)}
MatesIn(q, t) == {j \in 1 .. Len(q) : q[j].tuple = t}

Start(i) == placed[i].tuple
Datum(i) == ctx.src[ElemOf(placed[i].id).offset]

TupleEnd(t) == t + tuple_size(mem, t)

(* Every element placed is an item of its tuple, which has as many items   *)
(* as elements were placed in it.                                          *)
ItemsCarried ==
  \A i \in 1 .. Len(placed) :
    Carries(mem, Start(i), Cardinality(MatesIn(placed, Start(i))),
            ElemOf(placed[i].id), Datum(i))

(* The tuples lie behind each other, the first on the end of the header,   *)
(* each on the first word behind the one before it.                        *)
Chained ==
  /\ \A i \in 1 .. Len(placed) : Start(i) >= HdrSize(mem) /\ InMemory(Start(i), 8)
  /\ \A i, j \in 1 .. Len(placed) :
       i < j => Start(i) = Start(j) \/ TupleEnd(Start(i)) <= Start(j)
  /\ \A i \in 1 .. Len(placed) - 1 :
       Start(i + 1) \in {Start(i), Align(TupleEnd(Start(i)))}
  /\ placed # <<>> => /\ Start(1) = HdrSize(mem)
                      /\ TupleEnd(Latest.tuple) = offset
                      /\ offset < ctx.dest_size

(* The write offset lies behind everything stored, and the tuples counted  *)
(* are those begun, less the one still open.                               *)
Counted ==
  /\ HasElems(mem) /\ HdrSize(mem) <= offset /\ top <= offset
  /\ tuples + cont = Cardinality(StartsIn(placed))

(* A call under way: the buffer is fresh from the write offset on, which   *)
(* starts behind the header, and the current element is the next item of   *)
(* the tuple it continues.                                                 *)
Open ==
  /\ Untyped(mem, offset)
  /\ placed = <<>> => offset = HdrSize(mem)
  /\ tuples <= current.id
  /\ cont = 1 => current.id = TupleId(mem, cont_tuple)
                                + Cardinality(MatesIn(placed, cont_tuple))

(* The header of a packed message.                                         *)
Headed ==
  /\ ipct_get_tuples(mem) = Cardinality(StartsIn(placed))
  /\ ipct_get_size(mem) = 4 * ((offset - HdrSize(mem)) \div 4)
  /\ ret = offset

CarryInv ==
  /\ pc \in {"idle", "lookup"} => Untyped(mem, 0) /\ tuples = 0
  /\ Underway => ItemsCarried /\ Chained /\ Counted
  /\ pc = "pack" => Open
  /\ pc = "complete" => placed # <<>> /\ tuples <= 65536 /\ cont = 0
  /\ Packed => placed # <<>> /\ Headed

-----------------------------------------------------------------------------
(* The history after one more element: its tuples, and those it shares one *)
(* with.                                                                   *)
LEMMA HistoryGrows ==
  ASSUME NEW q \in Seq(Placement), NEW p \in Placement, NEW r, r = Append(q, p)
  PROVE  /\ StartsIn(r) = StartsIn(q) \cup {p.tuple}
         /\ IsFiniteSet(StartsIn(q))
         /\ \A t : t # p.tuple => MatesIn(r, t) = MatesIn(q, t)
         /\ Cardinality(MatesIn(q, p.tuple)) \in Nat
         /\ Cardinality(MatesIn(r, p.tuple)) = Cardinality(MatesIn(q, p.tuple)) + 1
<1> DEFINE n == Len(q)
<1>1. /\ n \in Nat /\ Len(r) = n + 1 /\ r[n + 1] = p
      /\ \A i \in 1 .. n : r[i] = q[i]
  OBVIOUS
<1>2. 1 .. Len(r) = (1 .. n) \cup {n + 1} /\ n + 1 \notin 1 .. n
  BY <1>1
<1>3. IsFiniteSet(1 .. n)
  BY <1>1, FS_Interval
<1>4. StartsIn(r) = StartsIn(q) \cup {p.tuple}
  <2>1. StartsIn(r) = {r[i].tuple : i \in 1 .. n} \cup {r[n + 1].tuple}
    BY <1>2 DEF StartsIn
  <2>2. {r[i].tuple : i \in 1 .. n} = StartsIn(q)
    BY <1>1 DEF StartsIn
  <2>3. QED
    BY <1>1, <2>1, <2>2
<1>5. IsFiniteSet(StartsIn(q))
  <2> DEFINE f == [i \in 1 .. n |-> q[i].tuple]
  <2>1. f \in Surjection(1 .. n, StartsIn(q))
    BY DEF Surjection, StartsIn
  <2>2. QED
    BY <1>3, <2>1, FS_Surjection
<1>6. ASSUME NEW t, t # p.tuple PROVE MatesIn(r, t) = MatesIn(q, t)
  BY <1>1, <1>2, <1>6 DEF MatesIn
<1> DEFINE M == MatesIn(q, p.tuple)
<1>7. MatesIn(r, p.tuple) = M \cup {n + 1} /\ n + 1 \notin M
  BY <1>1, <1>2 DEF MatesIn
<1>8. IsFiniteSet(M)
  <2>1. M \subseteq 1 .. n
    BY DEF MatesIn
  <2>2. QED
    BY <1>3, <2>1, FS_Subset
<1> HIDE DEF M
<1>9. Cardinality(M) \in Nat /\ Cardinality(M \cup {n + 1}) = Cardinality(M) + 1
  BY <1>7, <1>8, FS_CardinalityType, FS_AddElement
<1>10. QED
  BY <1>4, <1>5, <1>6, <1>7, <1>9 DEF M

(* No element of a walk has an ID the 13 bits of a tuple cannot hold.      *)
LEMMA FirstElemId ==
  ASSUME NEW d, Known(d), get_first_elem(d) # NULL
  PROVE  get_first_elem(d).id <= IPCT_TUPLE_MAX_ID
<1> DEFINE mandatory == {e \in d.mandatory : e.id < IPCT_TUPLE_MAX_ID}
           id == IF mandatory = {} THEN IPCT_TUPLE_MAX_ID
                                   ELSE Lowest(mandatory).id
           optional == {e \in d.optional : e.id = id}
<1>1. \A e \in mandatory \cup optional : e.id \in Nat
  BY KnownElems DEF Elems
<1>2. \A e \in mandatory : e.id < IPCT_TUPLE_MAX_ID
  OBVIOUS
<1>3. \A e \in optional : e.id = id
  OBVIOUS
<1>4. id = IF mandatory = {} THEN IPCT_TUPLE_MAX_ID ELSE Lowest(mandatory).id
  OBVIOUS
<1>5. get_first_elem(d) = IF optional # {} THEN Lowest(optional)
                          ELSE LowestOrNull(mandatory)
  BY DEF get_first_elem
<1> HIDE DEF mandatory, id, optional
<1>6. mandatory # {} => Lowest(mandatory) \in mandatory
  BY <1>1, LowestIsLowest
<1>7. optional # {} => Lowest(optional) \in optional
  BY <1>1, LowestIsLowest
<1>8. id <= IPCT_TUPLE_MAX_ID
  BY <1>1, <1>2, <1>4, <1>6 DEF IPCT_TUPLE_MAX_ID
<1>9. CASE optional # {}
  BY <1>3, <1>5, <1>7, <1>8, <1>9
<1>10. CASE optional = {}
  <2>1. get_first_elem(d) = Lowest(mandatory) /\ mandatory # {}
    BY <1>5, <1>10 DEF LowestOrNull
  <2>2. QED
    BY <1>1, <1>2, <1>6, <2>1 DEF IPCT_TUPLE_MAX_ID
<1>11. QED
  BY <1>9, <1>10

(* What the assumptions say of an element of the registry.                 *)
LEMMA ElemFacts ==
  ASSUME TablesInWords, ctx \in Context, NEW e \in AllElems
  PROVE  Sized(e) /\ Member(e, ctx.src[e.offset])
BY CallAssumption DEF TablesInWords, Member, Context

(* The element a call is at has a size in cells, and the data for it. *)
LEMMA PackingElem ==
  ASSUME TablesInWords, WalkInv, pc = "pack"
  PROVE  /\ current.id \in Nat /\ current.id < 8192
         /\ Sized(current) /\ Member(current, ctx.src[current.offset])
<1>1. AlignInv /\ current \in PackedElems /\ get_first_elem(action) # NULL
  BY DEF WalkInv
<1>2. /\ Known(action) /\ current \in AllElems /\ ctx \in Context
      /\ \A e \in Elems(action) : e.id \in Nat
  BY <1>1, CurrentElem, KnownElems
<1>3. get_first_elem(action).id <= IPCT_TUPLE_MAX_ID
  BY <1>1, <1>2, FirstElemId
<1>4. current.id \in Nat /\ current.id <= IPCT_TUPLE_MAX_ID
  BY <1>1, <1>2, <1>3 DEF PackedElems, IPCT_TUPLE_MAX_ID
<1>5. QED
  BY <1>2, <1>4, ElemFacts DEF IPCT_TUPLE_MAX_ID

(* The element behind an entry of the history.                             *)
LEMMA PlacedElem ==
  ASSUME TablesInWords, WholeInv, Underway, NEW i \in 1 .. Len(placed)
  PROVE  LET e == ElemOf(placed[i].id)
         IN /\ e \in Elems(action) /\ e.id = placed[i].id /\ e.id \in Nat
            /\ Sized(e) /\ Member(e, Datum(i))
<1>1. /\ WalkInv /\ AlignInv /\ action # NULL
  BY DEF WholeInv, WalkInv
<1>2. Known(action) /\ ctx \in Context
  BY <1>1 DEF AlignInv, TypeOK, Registered, Underway, Packed
<1>3. \E e \in Elems(action) : e.id = placed[i].id
  <2>1. placed[i].id \in PlacedIds
    BY DEF PlacedIds
  <2>2. \/ PlacedIds = {e.id : e \in {f \in PackedElems : f.id < current.id}}
        \/ PlacedIds = {e.id : e \in PackedElems}
    BY <1>1 DEF WalkInv, Underway
  <2>3. PackedElems \subseteq Elems(action)
    BY DEF PackedElems
  <2>4. QED
    BY <2>1, <2>2, <2>3
<1>4. PICK e \in Elems(action) : e.id = placed[i].id
  BY <1>3
<1>5. ElemOf(placed[i].id) = e
  BY <1>2, <1>4, ElemById
<1>6. e \in AllElems /\ e.id \in Nat
  BY <1>2, <1>4, KnownElems
<1>7. QED
  BY <1>2, <1>4, <1>5, <1>6, ElemFacts DEF Datum

(* A tuple of the history lies in memory, in front of the write offset.    *)
LEMMA PlacedTuple ==
  ASSUME TablesInWords, WholeInv, CarryInv, Underway, NEW i \in 1 .. Len(placed)
  PROVE  /\ Start(i) \in Nat /\ InMemory(Start(i), 8) /\ Start(i) >= HdrSize(mem)
         /\ Cardinality(MatesIn(placed, Start(i))) \in Nat
         /\ tuple_size(mem, Start(i)) \in Nat
         /\ tuple_size(mem, Start(i)) >= 4
         /\ TupleEnd(Start(i)) <= offset
         /\ offset < ctx.dest_size
<1> DEFINE n == Len(placed)
<1>1. /\ mem \in Memory /\ placed \in Seq(Placement) /\ offset \in Nat
      /\ ctx \in Context
  BY DEF WholeInv, WalkInv, AlignInv, TypeOK, Underway, Packed
<1>2. n \in Nat /\ n \in 1 .. n /\ placed # <<>> /\ Latest = placed[n]
  BY <1>1 DEF Latest
<1>3. ItemsCarried /\ Chained
  BY DEF CarryInv
<1>4. TupleEnd(Start(n)) = offset /\ offset < ctx.dest_size
  BY <1>2, <1>3 DEF Chained, Start
<1>5. \A j \in 1 .. n : /\ Start(j) \in Nat /\ Start(j) >= HdrSize(mem)
                        /\ InMemory(Start(j), 8)
  <2>1. \A j \in 1 .. n : Start(j) \in Nat
    <3>1. \A j \in 1 .. n : placed[j] \in Placement
      BY <1>1
    <3>2. \A p \in Placement : p.tuple \in Nat
      BY DEF Placement
    <3>3. QED
      BY <3>1, <3>2 DEF Start
  <2>2. \A j \in 1 .. n : Start(j) >= HdrSize(mem) /\ InMemory(Start(j), 8)
    BY <1>3 DEF Chained
  <2>3. QED
    BY <2>1, <2>2
<1>6. \A j \in 1 .. n : Cardinality(MatesIn(placed, Start(j))) \in Nat
  <2>1. IsFiniteSet(1 .. n)
    BY <1>2, FS_Interval
  <2>2. \A j \in 1 .. n : MatesIn(placed, Start(j)) \subseteq 1 .. n
    BY DEF MatesIn
  <2>3. QED
    BY <2>1, <2>2, FS_Subset, FS_CardinalityType
<1>7. ASSUME NEW j \in 1 .. n
      PROVE  tuple_size(mem, Start(j)) \in Nat /\ tuple_size(mem, Start(j)) >= 4
  <2> DEFINE k == Cardinality(MatesIn(placed, Start(j)))
             e == ElemOf(placed[j].id)
  <2>1. k \in Nat
    BY <1>6
  <2>2. Sized(e)
    BY PlacedElem
  <2>3. Carries(mem, Start(j), k, e, Datum(j))
    BY <1>3 DEF ItemsCarried
  <2>4. Start(j) \in Nat /\ Start(j) + 8 <= 2 * Cells
    BY <1>5 DEF InMemory
  <2> HIDE DEF k, e
  <2>5. QED
    BY <1>1, <2>1, <2>2, <2>3, <2>4, CarriesSize
<1>8. TupleEnd(Start(i)) <= offset
  <2>1. Start(n) <= offset
    BY <1>2, <1>4, <1>5, <1>7 DEF TupleEnd
  <2>2. CASE i = n
    BY <1>1, <1>4, <2>2
  <2>3. CASE i < n
    <3>1. Start(i) = Start(n) \/ TupleEnd(Start(i)) <= Start(n)
      BY <1>2, <1>3, <2>3 DEF Chained
    <3>2. TupleEnd(Start(i)) \in Nat /\ Start(n) \in Nat
      BY <1>2, <1>5, <1>7 DEF TupleEnd
    <3>3. QED
      BY <1>1, <1>4, <2>1, <3>1, <3>2
  <2>4. QED
    BY <1>2, <2>2, <2>3
<1>9. QED
  BY <1>4, <1>5, <1>6, <1>7, <1>8
-----------------------------------------------------------------------------
(* The current element goes into tuple t, which ends at o.                 *)
StoredIn(t, o) ==
  LET k == Cardinality(MatesIn(placed, t)) + 1
  IN /\ t \in Nat /\ InMemory(t, 8) /\ t >= HdrSize(mem)
     /\ o \in Nat /\ t + 4 <= o /\ offset <= o
     /\ mem' \in Memory /\ Outside(mem, mem', t, o)
     /\ t + tuple_size(mem', t) = o
     /\ Carries(mem', t, k, current, ctx.src[current.offset])
     /\ TupleId(mem', t) + k = current.id + 1
     /\ \A i \in 1 .. Len(placed) :
          IF Start(i) = t
          THEN Carries(mem', t, k, ElemOf(placed[i].id), Datum(i))
          ELSE TupleEnd(Start(i)) <= t

(* What lies in front of the tuple stays as it was.                        *)
LEMMA HeaderKept ==
  ASSUME NEW m \in Memory, NEW n \in Memory, NEW t \in Nat, NEW o,
         InMemory(t, 8), t >= HdrSize(m), Outside(m, n, t, o)
  PROVE  /\ HdrSize(n) = HdrSize(m)
         /\ HasElems(n) <=> HasElems(m)
<1>1. 2 < t /\ 2 < 2 * Cells /\ t \in Nat
  <2>1. HdrSize(m) \in Nat /\ HdrSize(m) >= 4
    BY SMT DEF HdrSize, RouteAdd, ElemsAdd, SizeofHdr, SizeofRoute, SizeofElems
  <2>2. QED
    BY <2>1, MemoryAssumption
<1>2. Half(n, 2) = Half(m, 2)
  BY <1>1 DEF Outside
<1>3. QED
  BY <1>2 DEF HdrSize, HasElems, RouteAdd, ElemsAdd, HasRoute

(* A store changes no tuple but the one it is made to. *)
LEMMA OthersKept ==
  ASSUME TablesInWords, WholeInv, CarryInv, pc = "pack", NEW t, NEW o,
         StoredIn(t, o), NEW i \in 1 .. Len(placed), Start(i) # t
  PROVE  /\ Carries(mem', Start(i), Cardinality(MatesIn(placed, Start(i))),
                    ElemOf(placed[i].id), Datum(i))
         /\ tuple_size(mem', Start(i)) = tuple_size(mem, Start(i))
<1> DEFINE s == Start(i)
           k == Cardinality(MatesIn(placed, s))
           e == ElemOf(placed[i].id)
           v == Datum(i)
           b == s + tuple_size(mem, s)
<1>1. Underway
  BY DEF Underway
<1>2. /\ s \in Nat /\ InMemory(s, 8) /\ k \in Nat
      /\ tuple_size(mem, s) \in Nat
  BY <1>1, PlacedTuple
<1>3. Sized(e) /\ e.id \in Nat
  BY <1>1, PlacedElem
<1>4. mem \in Memory /\ Carries(mem, s, k, e, v)
  BY <1>1 DEF WholeInv, WalkInv, AlignInv, TypeOK, CarryInv, ItemsCarried
<1>5. /\ t \in Nat /\ InMemory(t, 8) /\ Outside(mem, mem', t, o)
      /\ b <= t
  BY DEF StoredIn, TupleEnd
<1> HIDE DEF s, k, e, v
<1>6. ASSUME NEW x \in Nat, s <= x, x < b PROVE Half(mem', x) = Half(mem, x)
  <2>1. x < t /\ x < 2 * Cells
    BY <1>2, <1>5, <1>6, MemoryAssumption DEF InMemory
  <2>2. QED
    BY <1>5, <2>1 DEF Outside
<1>7. Agree(mem, mem', s, s + tuple_size(mem, s))
  BY <1>6 DEF Agree
<1>8. s + 8 <= 2 * Cells
  BY <1>2 DEF InMemory
<1>9. Carries(mem', s, k, e, v) /\ tuple_size(mem', s) = tuple_size(mem, s)
  BY <1>2, <1>3, <1>4, <1>7, <1>8, CarriesKept
<1>10. QED
  BY <1>9 DEF s, k, e, v

(* The history and the walk after the element.                             *)
LEMMA StoredFacts ==
  ASSUME WholeInv, CarryInv, pc = "pack", NEW t, NEW o, StoredIn(t, o), Advance(o),
         placed' = Append(placed, [id |-> current.id, tuple |-> t])
  PROVE  LET n == Len(placed)
         IN /\ n \in Nat /\ Len(placed') = n + 1
            /\ \A i \in 1 .. n : placed'[i] = placed[i]
            /\ \A i \in 1 .. n : Start(i)' = Start(i) /\ Datum(i)' = Datum(i)
            /\ \A id : ElemOf(id)' = ElemOf(id)
            /\ \A i : i = n + 1 =>
                 Start(i)' = t /\ Datum(i)' = ctx.src[current.offset]
            /\ (Latest.tuple)' = t
            /\ placed'[n + 1].id = current.id
            /\ ElemOf(current.id) = current
            /\ placed' # <<>>
            /\ placed # <<>> => n \in 1 .. n /\ Latest.tuple = Start(n)
            /\ StartsIn(placed') = StartsIn(placed) \cup {t}
            /\ IsFiniteSet(StartsIn(placed))
            /\ \A s : s # t => MatesIn(placed', s) = MatesIn(placed, s)
            /\ Cardinality(MatesIn(placed, t)) \in Nat
            /\ Cardinality(MatesIn(placed', t))
                 = Cardinality(MatesIn(placed, t)) + 1
<1> DEFINE p == [id |-> current.id, tuple |-> t]
           n == Len(placed)
<1>1. AlignInv /\ placed \in Seq(Placement) /\ n \in Nat
  BY DEF WholeInv, WalkInv, AlignInv, TypeOK
<1>2. t \in Nat /\ action' = action /\ ctx' = ctx
  BY DEF StoredIn, Advance
<1>3. p \in Placement /\ p.id = current.id /\ p.tuple = t
  BY <1>1, <1>2, CurrentElem DEF Placement
<1>4. placed' = Append(placed, p)
  OBVIOUS
<1> HIDE DEF p
<1>5. /\ Len(placed') = n + 1
      /\ \A i \in 1 .. n : placed'[i] = placed[i]
      /\ placed'[n + 1] = p
      /\ placed' # <<>>
      /\ placed # <<>> => n \in 1 .. n
  BY <1>1, <1>3, <1>4
<1>6. ElemOf(current.id) = current
  BY <1>1, CurrentElem, ElemById
<1>7. \A id : ElemOf(id)' = ElemOf(id)
  BY <1>2 DEF ElemOf
<1>8. \A i \in 1 .. n : Start(i)' = Start(i)
  BY <1>5 DEF Start
<1>9. \A i \in 1 .. n : Datum(i)' = Datum(i)
  BY <1>2, <1>5 DEF Datum, ElemOf
<1>10. (Latest.tuple)' = t
  BY <1>3, <1>5 DEF Latest
<1>11. ASSUME NEW i, i = n + 1
       PROVE  Start(i)' = t /\ Datum(i)' = ctx.src[current.offset]
  <2>1. placed'[i] = p
    BY <1>5, <1>11
  <2>2. Datum(i)' = ctx.src[ElemOf(current.id).offset]
    BY <1>2, <1>3, <2>1 DEF Datum, ElemOf
  <2>3. QED
    BY <1>3, <1>6, <2>1, <2>2 DEF Start
<1>12. Latest.tuple = Start(n)
  BY DEF Latest, Start
<1>13. /\ StartsIn(placed') = StartsIn(placed) \cup {p.tuple}
       /\ IsFiniteSet(StartsIn(placed))
       /\ \A s : s # p.tuple => MatesIn(placed', s) = MatesIn(placed, s)
       /\ Cardinality(MatesIn(placed, p.tuple)) \in Nat
       /\ Cardinality(MatesIn(placed', p.tuple))
            = Cardinality(MatesIn(placed, p.tuple)) + 1
  BY <1>1, <1>3, <1>4, HistoryGrows
<1>14. QED
  BY <1>1, <1>3, <1>5, <1>6, <1>7, <1>8, <1>9, <1>10, <1>11, <1>12, <1>13

(* ItemsCarried: the items of the other tuples stay where they are, those  *)
(* of this one are joined by one more.                                     *)
LEMMA ItemsStored ==
  ASSUME TablesInWords, WholeInv, CarryInv, pc = "pack", NEW t, NEW o,
         StoredIn(t, o), Advance(o),
         placed' = Append(placed, [id |-> current.id, tuple |-> t])
  PROVE  ItemsCarried'
<1> DEFINE n == Len(placed)
           Item(i) == Carries(mem', Start(i)',
                              Cardinality(MatesIn(placed', Start(i)')),
                              ElemOf(placed'[i].id), Datum(i)')
<1>1. /\ n \in Nat /\ Len(placed') = n + 1
      /\ \A i \in 1 .. n : /\ Start(i)' = Start(i) /\ Datum(i)' = Datum(i)
                           /\ placed'[i] = placed[i]
      /\ \A i : i = n + 1 =>
           Start(i)' = t /\ Datum(i)' = ctx.src[current.offset]
      /\ placed'[n + 1].id = current.id /\ ElemOf(current.id) = current
      /\ \A s : s # t => MatesIn(placed', s) = MatesIn(placed, s)
      /\ Cardinality(MatesIn(placed', t)) = Cardinality(MatesIn(placed, t)) + 1
      /\ \A id : ElemOf(id)' = ElemOf(id)
  BY StoredFacts
<1>2. ASSUME NEW i \in 1 .. n, Start(i) # t PROVE Item(i)
  <2>1. Carries(mem', Start(i), Cardinality(MatesIn(placed, Start(i))),
                ElemOf(placed[i].id), Datum(i))
    BY <1>2, OthersKept
  <2>2. QED
    BY <1>1, <1>2, <2>1
<1>3. ASSUME NEW i \in 1 .. n, Start(i) = t PROVE Item(i)
  <2>1. Carries(mem', t, Cardinality(MatesIn(placed, t)) + 1,
                ElemOf(placed[i].id), Datum(i))
    BY <1>3 DEF StoredIn
  <2>2. QED
    BY <1>1, <1>3, <2>1
<1>4. ASSUME NEW i, i = n + 1 PROVE Item(i)
  <2>1. Carries(mem', t, Cardinality(MatesIn(placed, t)) + 1, current,
                ctx.src[current.offset])
    BY DEF StoredIn
  <2>2. QED
    BY <1>1, <1>4, <2>1
<1>5. ASSUME NEW i \in 1 .. Len(placed') PROVE Item(i)
  <2>1. i \in 1 .. n \/ i = n + 1
    BY <1>1
  <2> HIDE DEF Item
  <2>2. QED
    BY <1>2, <1>3, <1>4, <2>1
<1>6. action' = action
  BY DEF Advance
<1>7. QED
  BY <1>5, <1>6 DEF ItemsCarried, ElemOf
(* Chained: the tuple is the latest, or follows it.                        *)
LEMMA ChainStored ==
  ASSUME TablesInWords, WholeInv, CarryInv, pc = "pack", NEW t, NEW o,
         StoredIn(t, o), Advance(o), o < ctx.dest_size,
         placed = <<>> => t = HdrSize(mem),
         placed # <<>> => t \in {Latest.tuple, Align(TupleEnd(Latest.tuple))},
         placed' = Append(placed, [id |-> current.id, tuple |-> t])
  PROVE  Chained'
<1> DEFINE n == Len(placed)
<1>1. /\ n \in Nat /\ Len(placed') = n + 1
      /\ \A i \in 1 .. n : Start(i)' = Start(i)
      /\ \A i : i = n + 1 => Start(i)' = t
      /\ (Latest.tuple)' = t /\ placed' # <<>>
      /\ placed # <<>> => n \in 1 .. n /\ Latest.tuple = Start(n)
  BY StoredFacts
<1>2. Chained /\ Underway
  BY DEF CarryInv, Underway
<1>3. /\ t \in Nat /\ InMemory(t, 8) /\ t >= HdrSize(mem) /\ o \in Nat
      /\ t + tuple_size(mem', t) = o
      /\ \A i \in 1 .. n : Start(i) # t => TupleEnd(Start(i)) <= t
  BY DEF StoredIn
<1>4. HdrSize(mem') = HdrSize(mem)
  <2>1. mem \in Memory /\ mem' \in Memory /\ Outside(mem, mem', t, o)
    BY DEF StoredIn, WholeInv, WalkInv, AlignInv, TypeOK
  <2>2. QED
    BY <1>3, <2>1, HeaderKept
<1>5. \A i \in 1 .. n : Start(i) \in Nat /\ TupleEnd(Start(i)) >= Start(i) + 4
                        /\ TupleEnd(Start(i)) \in Nat
  <2>1. \A i \in 1 .. n : /\ Start(i) \in Nat
                          /\ tuple_size(mem, Start(i)) \in Nat
                          /\ tuple_size(mem, Start(i)) >= 4
    BY <1>2, PlacedTuple
  <2>2. QED
    BY <2>1 DEF TupleEnd
<1>6. \A i \in 1 .. n : Start(i) # t => TupleEnd(Start(i))' = TupleEnd(Start(i))
  <2>1. \A i \in 1 .. n : Start(i) # t =>
          tuple_size(mem', Start(i)) = tuple_size(mem, Start(i))
    BY OthersKept
  <2>2. ASSUME NEW i \in 1 .. n, Start(i) # t
        PROVE  TupleEnd(Start(i))' = TupleEnd(Start(i))
    <3>1. TupleEnd(Start(i))' = Start(i)' + tuple_size(mem', Start(i)')
      BY DEF TupleEnd
    <3>2. QED
      BY <1>1, <2>1, <2>2, <3>1 DEF TupleEnd
  <2>3. QED
    BY <2>2
<1>7. ASSUME NEW i \in 1 .. n, NEW j \in 1 .. n, i < j, Start(i) = t
      PROVE  Start(j) = t
  <2>1. Start(i) = Start(j) \/ TupleEnd(Start(i)) <= Start(j)
    BY <1>2, <1>7 DEF Chained
  <2>2. Start(j) = t \/ TupleEnd(Start(j)) <= t
    BY <1>3
  <2>3. QED
    BY <1>3, <1>5, <1>7, <2>1, <2>2
<1>8. ASSUME NEW i \in 1 .. n + 1
      PROVE  Start(i)' >= HdrSize(mem') /\ InMemory(Start(i)', 8)
  <2>1. CASE i \in 1 .. n
    BY <1>1, <1>2, <1>4, <2>1 DEF Chained
  <2>2. CASE i = n + 1
    BY <1>1, <1>3, <1>4, <2>2
  <2>3. QED
    BY <1>1, <2>1, <2>2
<1>9. ASSUME NEW i \in 1 .. n + 1, NEW j \in 1 .. n + 1, i < j
      PROVE  Start(i)' = Start(j)' \/ TupleEnd(Start(i))' <= Start(j)'
  <2>1. i \in 1 .. n
    BY <1>1, <1>9
  <2>2. CASE j = n + 1
    BY <1>1, <1>3, <1>6, <2>1, <2>2
  <2>3. CASE j \in 1 .. n
    <3>1. Start(i) = Start(j) \/ TupleEnd(Start(i)) <= Start(j)
      BY <1>2, <1>9, <2>1, <2>3 DEF Chained
    <3>2. Start(i) = t => Start(j) = t
      BY <1>7, <1>9, <2>1, <2>3
    <3>3. QED
      BY <1>1, <1>6, <2>1, <2>3, <3>1, <3>2
  <2>4. QED
    BY <1>1, <2>2, <2>3
<1>10. ASSUME NEW i \in 1 .. n, NEW j, j = i + 1
       PROVE  Start(j)' \in {Start(i)', Align(TupleEnd(Start(i)))'}
  <2>1. \A x, y : x = y => Align(x) = Align(y)
    OBVIOUS
  <2>2. Start(i) # t => Align(TupleEnd(Start(i)))' = Align(TupleEnd(Start(i)))
    BY <1>6
  <2>3. CASE i = n
    <3>1. placed # <<>> /\ Start(j)' = t /\ Start(i)' = Latest.tuple
          /\ Start(i) = Latest.tuple
      BY <1>1, <1>10, <2>3
    <3>2. QED
      BY <2>2, <3>1
  <2>4. CASE i # n
    <3>1. i \in 1 .. n - 1 /\ j \in 1 .. n /\ i < j
      BY <1>1, <1>10, <2>4
    <3>2. Start(j) \in {Start(i), Align(TupleEnd(Start(i)))}
      BY <1>2, <1>10, <3>1 DEF Chained
    <3>3. Start(i) = t => Start(j) = t
      BY <1>7, <3>1
    <3>4. QED
      BY <1>1, <2>2, <3>1, <3>2, <3>3
  <2>5. QED
    BY <2>3, <2>4
<1>11. Start(1)' = HdrSize(mem')
  <2>1. CASE placed = <<>>
    <3>1. n = 0
      BY <2>1
    <3>2. QED
      BY <1>1, <1>4, <2>1, <3>1
  <2>2. CASE placed # <<>>
    <3>1. Start(1) = HdrSize(mem) /\ 1 \in 1 .. n
      BY <1>1, <1>2, <2>2 DEF Chained
    <3>2. QED
      BY <1>1, <1>4, <3>1
  <2>3. QED
    BY <2>1, <2>2
<1>12. TupleEnd(Latest.tuple)' = offset' /\ offset' < ctx'.dest_size
  <2>1. offset' = o /\ ctx' = ctx
    BY DEF Advance
  <2>2. TupleEnd(Latest.tuple)' = t + tuple_size(mem', t)
    BY <1>1 DEF TupleEnd
  <2>3. QED
    BY <1>3, <2>1, <2>2
<1>13. QED
  <2>1. Len(placed') = n + 1 /\ Len(placed') - 1 = n
    BY <1>1
  <2> HIDE DEF n
  <2>2. \A i \in 1 .. Len(placed') - 1 :
          Start(i + 1)' \in {Start(i)', Align(TupleEnd(Start(i)))'}
    BY <1>10, <2>1
  <2>3. QED
    BY <1>1, <1>8, <1>9, <1>11, <1>12, <2>1, <2>2 DEF Chained

(* Counted and Open: the walk moved on, behind what was stored.            *)
LEMMA CountedStored ==
  ASSUME WholeInv, CarryInv, pc = "pack", NEW t, NEW o,
         StoredIn(t, o), Advance(o), top' <= o, cont_tuple' = t,
         Cardinality(StartsIn(placed')) = tuples + 1,
         placed' = Append(placed, [id |-> current.id, tuple |-> t])
  PROVE  /\ Counted'
         /\ pc' = "pack" => Open'
         /\ pc' = "complete" => placed' # <<>> /\ tuples' <= 65536 /\ cont' = 0
         /\ pc' \in {"pack", "complete"}
<1>1. AlignInv /\ Open /\ Counted /\ Underway
  BY DEF WholeInv, WalkInv, CarryInv, Underway
<1>2. /\ mem \in Memory /\ mem' \in Memory /\ Outside(mem, mem', t, o)
      /\ t \in Nat /\ InMemory(t, 8) /\ t >= HdrSize(mem)
      /\ o \in Nat /\ t + 4 <= o /\ t + tuple_size(mem', t) = o
      /\ TupleId(mem', t) + (Cardinality(MatesIn(placed, t)) + 1)
           = current.id + 1
  BY <1>1 DEF AlignInv, TypeOK, StoredIn
<1>3. HdrSize(mem') = HdrSize(mem) /\ (HasElems(mem') <=> HasElems(mem))
  BY <1>2, HeaderKept
<1>4. /\ Known(action) /\ current.id \in U16 /\ tuples \in Nat
  BY <1>1, CurrentElem DEF AlignInv, TypeOK
<1>5. current.id \in Nat /\ current.id < 65536 /\ tuples <= current.id
  BY <1>1, <1>4, U16Elim DEF Open
<1>6. /\ offset' = o /\ current' = get_next_elem(action, current)
      /\ cont' = IF IsContinuous(current, current') THEN 1 ELSE 0
      /\ tuples' = IF cont' = 1 THEN tuples ELSE tuples + 1
      /\ pc' = IF current' = NULL THEN "complete" ELSE "pack"
  BY DEF Advance
<1>7. tuples' + cont' = tuples + 1 /\ tuples' \in Nat /\ tuples' <= tuples + 1
  BY <1>4, <1>6
<1>8. Counted'
  <2>1. HdrSize(mem') \in Nat
    BY HdrSizeType
  <2>2. HdrSize(mem') <= o
    BY <1>2, <1>3, <2>1
  <2>3. HasElems(mem')
    BY <1>1, <1>3 DEF Counted
  <2>4. QED
    BY <1>6, <1>7, <2>2, <2>3 DEF Counted
<1>9. ASSUME current' # NULL PROVE Open'
  <2>1. current'.id \in Nat /\ current'.id > current.id
    <3>1. current' \in After(action, current)
      BY <1>4, <1>6, <1>9, NextElem
    <3>2. QED
      BY <1>4, <3>1, KnownElems DEF After
  <2>2. tuples' <= current'.id
    BY <1>4, <1>5, <1>7, <2>1
  <2>3. Untyped(mem', o)
    <3>1. offset \in Nat /\ offset <= o /\ Untyped(mem, offset)
      <4>1. offset \in Nat
        BY <1>1 DEF AlignInv, TypeOK
      <4>2. Untyped(mem, offset)
        BY <1>1 DEF Open
      <4>3. offset <= o
        BY DEF StoredIn
      <4>4. QED
        BY <4>1, <4>2, <4>3
    <3>2. ASSUME NEW x \in 0 .. 2 * Cells - 1, o <= x, x % 4 = 0
          PROVE  TupleType(mem', x) = STD
      <4>1. x \in Nat /\ x < 2 * Cells /\ offset <= x
        BY <1>2, <3>1, <3>2, MemoryAssumption
      <4>2. Half(mem', x) = Half(mem, x)
        BY <1>2, <3>2, <4>1 DEF Outside
      <4>3. TupleType(mem, x) = STD
        BY <3>1, <3>2, <4>1 DEF Untyped
      <4>4. QED
        BY <4>2, <4>3 DEF TupleType
    <3>3. QED
      BY <3>2 DEF Untyped
  <2>4. Cardinality(MatesIn(placed', t)) = Cardinality(MatesIn(placed, t)) + 1
    BY StoredFacts
  <2>5. cont' = 1 => current'.id = TupleId(mem', t)
                                     + Cardinality(MatesIn(placed', t))
    BY <1>2, <1>6, <2>4 DEF IsContinuous
  <2>6. placed' # <<>>
    BY StoredFacts
  <2>7. QED
    BY <1>6, <2>2, <2>3, <2>5, <2>6 DEF Open
<1>10. ASSUME current' = NULL
       PROVE  placed' # <<>> /\ tuples' <= 65536 /\ cont' = 0
  <2>1. placed' # <<>>
    BY StoredFacts
  <2>2. tuples' <= 65536
    BY <1>4, <1>5, <1>7
  <2>3. cont' = 0
    BY <1>6, <1>10 DEF IsContinuous
  <2>4. QED
    BY <2>1, <2>2, <2>3
<1>11. QED
  BY <1>6, <1>8, <1>9, <1>10

(* One more element keeps the invariant.                                   *)
LEMMA CarryStored ==
  ASSUME TablesInWords, WholeInv, CarryInv, pc = "pack", NEW t, NEW o,
         StoredIn(t, o), Advance(o), o < ctx.dest_size, top' <= o,
         cont_tuple' = t, Cardinality(StartsIn(placed')) = tuples + 1,
         placed = <<>> => t = HdrSize(mem),
         placed # <<>> => t \in {Latest.tuple, Align(TupleEnd(Latest.tuple))},
         placed' = Append(placed, [id |-> current.id, tuple |-> t])
  PROVE  CarryInv'
<1>1. ItemsCarried' /\ Chained'
  BY ItemsStored, ChainStored
<1>2. /\ Counted' /\ (pc' = "pack" => Open')
      /\ pc' = "complete" => placed' # <<>> /\ tuples' <= 65536 /\ cont' = 0
      /\ pc' \in {"pack", "complete"}
  BY CountedStored
<1>3. QED
  BY <1>1, <1>2 DEF CarryInv, Packed

(* The header's size is a whole number of words.                           *)
LEMMA HdrSizeWords ==
  ASSUME NEW m
  PROVE  HdrSize(m) \in Nat /\ HdrSize(m) >= 4 /\ Align(HdrSize(m)) = HdrSize(m)
BY SMT DEF HdrSize, RouteAdd, ElemsAdd, SizeofHdr, SizeofRoute, SizeofElems, Align

(* An element that starts a tuple of its own: it is stored behind all the  *)
(* others.                                                                 *)
LEMMA CarrySingle ==
  ASSUME TablesInWords, WholeInv, RunsInv, CarryInv, PackSingle
  PROVE  /\ CarryInv'
         /\ StoredIn(SingleStart, offset')
         /\ MatesIn(placed, SingleStart) = {}
<1> DEFINE t == SingleStart
           d == SingleData(InitSingle)
           size == SizeOfCurrent
           v == ctx.src[current.offset]
           o == t + tuple_size(mem', t)
<1>1. /\ pc = "pack" /\ cont = 0 /\ is_ptr_valid(t) /\ TupleInitOk(mem, t)
      /\ FitsBuffer(d, size) /\ mem' = CopyIn(InitSingle, d, v, size)
      /\ top' = MaxOf(MaxOf(top, d + size), t + TupleInitExtent(mem, t))
      /\ cont_tuple' = t /\ Advance(o)
      /\ placed' = Append(placed, [id |-> current.id, tuple |-> t])
  BY DEF PackSingle
<1>2. /\ WalkInv /\ AlignInv /\ Underway /\ Open /\ Counted /\ Chained
      /\ mem \in Memory /\ offset \in Nat /\ offset % 2 = 0 /\ top \in Nat
      /\ placed \in Seq(Placement) /\ tuples \in Nat
  BY <1>1 DEF WholeInv, WalkInv, CarryInv, Underway, AlignInv, TypeOK, Registered
<1>3. /\ t \in Nat /\ Even(t) /\ InMemory(t, 8) /\ t % 4 = 0
      /\ d \in Nat /\ offset <= t /\ t = Align(offset)
  <2>1. t \in Nat /\ t % 4 = 0 /\ t + 8 <= 2 * Cells /\ d \in {t + 2, t + 4}
    BY <1>1, <1>2, SingleFacts
  <2>2. offset <= t /\ t = Align(offset)
    BY <1>2, AlignIsWord DEF SingleStart
  <2> HIDE DEF t, d
  <2>3. QED
    BY <2>1, <2>2 DEF Even, InMemory
<1>4. TupleType(mem, t) = STD
  <2>1. t \in 0 .. 2 * Cells - 1
    BY <1>3, MemoryAssumption DEF InMemory
  <2>2. QED
    BY <1>2, <1>3, <2>1 DEF Open, Untyped
<1>5. /\ current.id \in Nat /\ current.id < 8192
      /\ Sized(current) /\ Member(current, v) /\ size \in Nat
  <2>1. /\ current.id \in Nat /\ current.id < 8192
        /\ Sized(current) /\ Member(current, v)
    BY <1>1, <1>2, PackingElem
  <2>2. QED
    BY <2>1 DEF Sized, SizeOfCurrent
<1>6. size = elem_get_data_size(current)
  BY DEF SizeOfCurrent
<1>7. InitSingle = tuple_init(mem, t, ipct_get_type(current.type), current.id, size)
  BY DEF InitSingle, SingleType
<1>8. d = tuple_get_data(InitSingle, t, 0)
  BY DEF SingleData
<1>9. d + size < ctx.dest_size /\ InMemory(d, size)
  <2>1. ctx.dest_size \in Nat /\ ctx.dest_size + 8 <= 2 * Cells
    BY <1>1, <1>2, CurrentElem, MemoryAssumption DEF Context
  <2>2. d + size < ctx.dest_size
    BY <1>1 DEF FitsBuffer
  <2> HIDE DEF d, size
  <2>3. QED
    BY <1>3, <1>5, <2>1, <2>2, MemoryAssumption DEF InMemory
<1> HIDE DEF t, d, size, v
<1>10. /\ mem' \in Memory /\ Carries(mem', t, 1, current, v)
       /\ TupleId(mem', t) = current.id
       /\ o = d + size /\ d + size >= t + 4
       /\ Outside(mem, mem', t, d + size)
  BY <1>1, <1>2, <1>3, <1>4, <1>5, <1>6, <1>7, <1>8, <1>9, SingleMade DEF o
<1> HIDE DEF o
<1>11. o \in Nat /\ t + 4 <= o /\ o < ctx.dest_size
  BY <1>3, <1>5, <1>9, <1>10
<1>12. \A i \in 1 .. Len(placed) : Start(i) # t /\ TupleEnd(Start(i)) <= t
  <2>1. \A i \in 1 .. Len(placed) :
          /\ Start(i) \in Nat /\ tuple_size(mem, Start(i)) \in Nat
          /\ tuple_size(mem, Start(i)) >= 4 /\ TupleEnd(Start(i)) <= offset
    BY <1>2, PlacedTuple
  <2>2. offset \in Nat /\ t \in Nat /\ offset <= t
    BY <1>2, <1>3
  <2>3. QED
    BY <2>1, <2>2 DEF TupleEnd
<1>13. MatesIn(placed, t) = {} /\ Cardinality(MatesIn(placed, t)) + 1 = 1
  <2>1. MatesIn(placed, t) = {}
    BY <1>12 DEF MatesIn, Start
  <2>2. QED
    BY <2>1, FS_EmptySet
<1>14. StoredIn(t, o)
  <2>1. t >= HdrSize(mem)
    BY <1>2, <1>3, HdrSizeType DEF Counted
  <2>2. t + tuple_size(mem', t) = o
    BY DEF o
  <2>3. offset <= o
    BY <1>2, <1>3, <1>11
  <2>4. TupleId(mem', t) + 1 = current.id + 1
    BY <1>10
  <2>5. Outside(mem, mem', t, o)
    BY <1>10
  <2>6. QED
    BY <1>3, <1>10, <1>11, <1>12, <1>13, <2>1, <2>2, <2>3, <2>4, <2>5
    DEF StoredIn, v
<1>15. top' <= o
  <2>1. TupleInitExtent(mem, t) = 4
    BY <1>4, SMT DEF TupleInitExtent, STD, HD, VAR_ARRAY, TUPLE_ARRAY
  <2>2. top <= offset
    BY <1>2 DEF Counted
  <2>3. offset <= t /\ t + 4 <= o /\ d + size = o
    BY <1>3, <1>10, <1>11
  <2>4. top \in Nat /\ offset \in Nat /\ t \in Nat /\ o \in Nat
    BY <1>2, <1>3, <1>11
  <2>5. top' = MaxOf(MaxOf(top, o), t + 4)
    BY <1>1, <2>1, <2>3
  <2>6. QED
    BY <2>2, <2>3, <2>4, <2>5 DEF MaxOf
<1>16. Cardinality(StartsIn(placed')) = tuples + 1
  <2>1. /\ StartsIn(placed') = StartsIn(placed) \cup {t}
        /\ IsFiniteSet(StartsIn(placed))
    BY <1>1, <1>14, StoredFacts
  <2>2. t \notin StartsIn(placed)
    BY <1>12 DEF StartsIn, Start
  <2>3. Cardinality(StartsIn(placed)) = tuples
    BY <1>1, <1>2 DEF Counted
  <2>4. QED
    BY <2>1, <2>2, <2>3, FS_AddElement
<1>17. /\ placed = <<>> => t = HdrSize(mem)
       /\ placed # <<>> => t = Align(TupleEnd(Latest.tuple))
  BY <1>2, <1>3, HdrSizeWords DEF Open, Chained
<1>18. CarryInv'
  BY <1>1, <1>11, <1>14, <1>15, <1>16, <1>17, CarryStored
<1>19. offset' = o
  BY <1>1 DEF Advance
<1>20. QED
  BY <1>13, <1>14, <1>18, <1>19 DEF t

(* What the invariants say of the tuple an element is about to join: it is *)
(* the latest one, it can be grown, and the element is its next item.      *)
LEMMA JoinedTuple ==
  ASSUME TablesInWords, WholeInv, RunsInv, CarryInv, pc = "pack", cont = 1
  PROVE  LET t == cont_tuple
             k == Cardinality(MatesIn(placed, t))
             n == Len(placed)
         IN /\ placed # <<>> /\ n \in 1 .. n /\ Start(n) = t /\ Latest.tuple = t
            /\ k \in Nat /\ k >= 1 /\ k < 65535
            /\ current.id = TupleId(mem, t) + k
            /\ Growable(mem, t, k)
            /\ current.type \in HalfWordTypes <=>
                 ArrayOf(TupleType(mem, t)) = HD_ARRAY
            /\ current.type \notin HalfWordTypes =>
                 elem_get_data_size(current) = 4
<1> DEFINE t == cont_tuple
           k == Cardinality(MatesIn(placed, t))
           n == Len(placed)
           e == ElemOf(placed[n].id)
           type == TupleType(mem, t)
<1>1. /\ WalkInv /\ AlignInv /\ Underway /\ Open /\ ItemsCarried /\ Chained
      /\ mem \in Memory /\ placed \in Seq(Placement)
  BY DEF WholeInv, WalkInv, CarryInv, Underway, AlignInv, TypeOK
<1>2. placed # <<>> /\ Latest.tuple = t /\ IsContinuous(ElemOf(Latest.id), current)
  BY DEF RunsInv, ContinuesLatest
<1>3. n \in 1 .. n /\ Start(n) = t /\ IsContinuous(e, current)
  BY <1>1, <1>2 DEF Latest, Start
<1>4. t \in Nat /\ InMemory(t, 8) /\ k \in Nat
  BY <1>1, <1>3, PlacedTuple
<1>5. TupleId(mem, t) \in Nat
  BY <1>1, <1>4, HeaderType DEF InMemory
<1>6. current.id = TupleId(mem, t) + k
  BY <1>1 DEF Open
<1>7. current.id < 8192 /\ current.id \in Nat
  BY <1>1, PackingElem
<1>8. k < 65535
  BY <1>4, <1>5, <1>6, <1>7
<1>9. Carries(mem, t, k, e, Datum(n)) /\ Sized(e) /\ e \in Elems(action)
  BY <1>1, <1>3, PlacedElem DEF ItemsCarried
<1>17. k >= 1
  <2>1. e.id - TupleId(mem, t) \in 0 .. k - 1
    BY <1>9 DEF Carries
  <2> HIDE DEF k
  <2>2. QED
    BY <1>4, <2>1
<1>10. Known(action) /\ current \in Elems(action) /\ current # NULL
  BY <1>1, CurrentElem, KnownElems
<1>11. e.type \notin HalfWordTypes =>
         elem_get_data_size(e) = 4 /\ elem_get_data_size(current) = 4
  <2>1. PICK key \in DOMAIN Registry : action = Registry[key]
    BY <1>10 DEF Known
  <2>2. e \in Elems(Registry[key]) /\ current \in Elems(Registry[key])
    BY <1>9, <1>10, <2>1
  <2> HIDE DEF e
  <2>3. QED
    BY <1>3, <2>2 DEF TablesInWords
<1>12. current.type \in HalfWordTypes <=> e.type \in HalfWordTypes
  BY <1>3, <1>10, SameType
<1> HIDE DEF e
<1>13. type \in IF e.type \in HalfWordTypes THEN {HD, HD_ARRAY}
                                            ELSE {STD, STD_ARRAY}
  BY <1>9 DEF Carries
<1>14. e.type \in HalfWordTypes <=> ArrayOf(type) = HD_ARRAY
  <2> HIDE DEF type
  <2>1. QED
    BY <1>13 DEF ArrayOf, STD, HD, STD_ARRAY, HD_ARRAY
<1>15. Growable(mem, t, k)
  <2>1. type \in SingleTypes \cup ArrayTypes
    BY <1>13 DEF SingleTypes, ArrayTypes
  <2>2. type \in SingleTypes => k = 1
    BY <1>9 DEF Carries
  <2>3. type \in ArrayTypes => Count(mem, t) = k
    BY <1>9 DEF Carries
  <2>4. type = STD => Count(mem, t) = 1
    <3>1. type = STD => e.type \notin HalfWordTypes
      <4> HIDE DEF type
      <4>1. QED
        BY <1>13 DEF STD, HD, HD_ARRAY
    <3>2. type = STD => 4 * Count(mem, t) = elem_get_data_size(e)
      BY <1>9 DEF Carries
    <3>3. Count(mem, t) \in Nat
      BY <1>1, <1>4, HeaderType, U16Elim DEF InMemory
    <3> HIDE DEF type
    <3>4. QED
      BY <1>11, <3>1, <3>2, <3>3
  <2>5. QED
    BY <2>1, <2>2, <2>3, <2>4 DEF Growable
<1>16. QED
  BY <1>2, <1>3, <1>4, <1>6, <1>8, <1>17, <1>11, <1>12, <1>14, <1>15

(* An element that joins the tuple before it.                              *)
LEMMA CarryCont ==
  ASSUME TablesInWords, WholeInv, RunsInv, CarryInv, PackCont
  PROVE  CarryInv' /\ StoredIn(cont_tuple, offset')
<1> DEFINE t == cont_tuple
           k == Cardinality(MatesIn(placed, t))
           n == Len(placed)
           d == ContData
           inc == SizeIncrease(mem, t)
           size == SizeOfCurrent
           v == ctx.src[current.offset]
           o == d + tuple_data_size(mem', t)
<1>1. /\ pc = "pack" /\ cont = 1 /\ FitsBuffer(d, size)
      /\ mem' = CopyIn(tuple_inc_elems(mem, t), d, v, size)
      /\ top' = MaxOf(TopOfGrown, d + size)
      /\ cont_tuple' = t /\ Advance(o)
      /\ placed' = Append(placed, [id |-> current.id, tuple |-> t])
  BY DEF PackCont, GrownTuple
<1>2. /\ WalkInv /\ AlignInv /\ Underway /\ OpenTuple
      /\ ItemsCarried /\ Counted /\ Chained
      /\ mem \in Memory /\ offset \in Nat /\ top \in Nat
      /\ tuples \in Nat
  BY <1>1 DEF WholeInv, WalkInv, CarryInv, Underway, AlignInv, TypeOK
<1>3. /\ placed # <<>> /\ n \in 1 .. n /\ Start(n) = t /\ Latest.tuple = t
      /\ k \in Nat /\ k >= 1 /\ k < 65535
      /\ current.id = TupleId(mem, t) + k
      /\ Growable(mem, t, k)
      /\ current.type \in HalfWordTypes <=>
           ArrayOf(TupleType(mem, t)) = HD_ARRAY
      /\ current.type \notin HalfWordTypes =>
           elem_get_data_size(current) = 4
  BY <1>1, JoinedTuple
<1>4. /\ t \in Nat /\ InMemory(t, 8) /\ t >= HdrSize(mem)
      /\ tuple_size(mem, t) \in Nat /\ TupleEnd(t) = offset
  <2>1. /\ t \in Nat /\ InMemory(t, 8) /\ t >= HdrSize(mem)
        /\ tuple_size(mem, t) \in Nat
    BY <1>2, <1>3, PlacedTuple
  <2>2. TupleEnd(t) = offset
    BY <1>2, <1>3 DEF Chained
  <2>3. QED
    BY <2>1, <2>2
<1>5. Even(t)
  <2>1. t % 4 = 0
    BY <1>1, <1>2 DEF OpenTuple
  <2>2. QED
    BY <1>4, <2>1 DEF Even
<1>6. inc \in Nat /\ d = offset + inc
  BY DEF SizeIncrease, ContData
<1>7. d = t + tuple_size(mem, t) + inc /\ d \in Nat /\ offset <= d
  <2>1. offset = t + tuple_size(mem, t)
    BY <1>4 DEF TupleEnd
  <2> HIDE DEF t, d, inc
  <2>2. QED
    BY <1>2, <1>6, <2>1
<1>8. /\ current.id \in Nat
      /\ Sized(current) /\ Member(current, v) /\ size \in Nat
  <2>1. current.id \in Nat /\ Sized(current) /\ Member(current, v)
    BY <1>1, <1>2, PackingElem
  <2>2. QED
    BY <2>1 DEF Sized, SizeOfCurrent
<1>9. size = elem_get_data_size(current)
  BY DEF SizeOfCurrent
<1>10. d + size < ctx.dest_size /\ InMemory(d, size)
  <2>1. ctx.dest_size \in Nat /\ ctx.dest_size + 8 <= 2 * Cells
    BY <1>1, <1>2, CurrentElem, MemoryAssumption DEF Context
  <2>2. d + size < ctx.dest_size
    BY <1>1 DEF FitsBuffer
  <2> HIDE DEF d, size
  <2>3. QED
    BY <1>7, <1>8, <2>1, <2>2, MemoryAssumption DEF InMemory
<1>11. t + 4 + inc <= d
  BY <1>2, <1>3, <1>4, <1>7, GrownData
<1>12. TopOfGrown = MaxOf(top, t + 4 + inc)
  BY DEF TopOfGrown
<1> HIDE DEF d, inc, size, v
<1>13. /\ mem' \in Memory
       /\ Carries(mem', t, k + 1, current, v)
       /\ TupleId(mem', t) = TupleId(mem, t)
       /\ t + tuple_size(mem', t) = d + size
       /\ tuple_data_size(mem', t) = size
       /\ Outside(mem, mem', t, d + size)
       /\ \A f, w : f.id \in Nat /\ Sized(f) /\ Carries(mem, t, k, f, w) =>
            Carries(mem', t, k + 1, f, w)
  <2> HIDE DEF k
  <2>1. d = t + tuple_size(mem, t) + SizeIncrease(mem, t)
    BY <1>7 DEF inc
  <2>2. QED
    BY <1>1, <1>2, <1>3, <1>4, <1>5, <1>7, <1>8, <1>9, <1>10, <2>1, TupleGrown
<1>14. /\ o = d + size /\ o \in Nat /\ o < ctx.dest_size
       /\ t + 4 <= o /\ offset <= o
  <2>1. o = d + size
    BY <1>13
  <2> HIDE DEF o
  <2>2. QED
    BY <1>2, <1>4, <1>6, <1>7, <1>8, <1>10, <1>11, <2>1
<1> HIDE DEF o
<1>15. \A i \in 1 .. Len(placed) :
         IF Start(i) = t
         THEN Carries(mem', t, k + 1, ElemOf(placed[i].id), Datum(i))
         ELSE TupleEnd(Start(i)) <= t
  <2>1. ASSUME NEW i \in 1 .. Len(placed), Start(i) = t
        PROVE  Carries(mem', t, k + 1, ElemOf(placed[i].id), Datum(i))
    <3>1. ElemOf(placed[i].id).id \in Nat /\ Sized(ElemOf(placed[i].id))
      BY <1>2, PlacedElem
    <3>2. Carries(mem, t, k, ElemOf(placed[i].id), Datum(i))
      BY <1>2, <2>1 DEF ItemsCarried
    <3>3. QED
      BY <1>13, <3>1, <3>2
  <2>2. ASSUME NEW i \in 1 .. Len(placed), Start(i) # t
        PROVE  TupleEnd(Start(i)) <= t
    <3>1. i # n /\ i < n
      BY <1>3, <2>2
    <3>2. Start(i) = Start(n) \/ TupleEnd(Start(i)) <= Start(n)
      BY <1>2, <1>3, <3>1 DEF Chained
    <3>3. QED
      BY <1>3, <2>2, <3>2
  <2>3. QED
    BY <2>1, <2>2
<1>16. StoredIn(t, o)
  <2>1. TupleId(mem', t) + (k + 1) = current.id + 1
    <3>1. TupleId(mem, t) \in Nat
      BY <1>2, <1>4, HeaderType DEF InMemory
    <3> HIDE DEF k
    <3>2. QED
      BY <1>3, <1>13, <3>1
  <2>2. t + tuple_size(mem', t) = o /\ Outside(mem, mem', t, o)
    BY <1>13, <1>14
  <2>3. QED
    BY <1>4, <1>13, <1>14, <1>15, <2>1, <2>2 DEF StoredIn, v
<1>17. top' <= o
  <2>1. top <= offset
    BY <1>2 DEF Counted
  <2>2. top \in Nat /\ offset \in Nat /\ t \in Nat /\ o \in Nat /\ inc \in Nat
    BY <1>2, <1>4, <1>6, <1>14
  <2>3. top' = MaxOf(MaxOf(top, t + 4 + inc), o)
    BY <1>1, <1>12, <1>14
  <2>4. t + 4 + inc <= o /\ offset <= o
    BY <1>4, <1>6, <1>7, <1>8, <1>11, <1>14
  <2>5. QED
    BY <2>1, <2>2, <2>3, <2>4 DEF MaxOf
<1>18. Cardinality(StartsIn(placed')) = tuples + 1
  <2>1. StartsIn(placed') = StartsIn(placed) \cup {t}
    BY <1>1, <1>16, StoredFacts
  <2>2. t \in StartsIn(placed)
    BY <1>3 DEF StartsIn, Start
  <2>3. Cardinality(StartsIn(placed)) = tuples + 1
    BY <1>1, <1>2 DEF Counted
  <2>4. QED
    BY <2>1, <2>2, <2>3
<1>19. CarryInv'
  BY <1>1, <1>3, <1>14, <1>16, <1>17, <1>18, CarryStored
<1>20. offset' = o
  BY <1>1 DEF Advance
<1>21. QED
  BY <1>16, <1>19, <1>20

-----------------------------------------------------------------------------
(* The two halves of the header.                                           *)

(* init_header sets the elems bit, and stores into the first word only.    *)
LEMMA HeaderMade ==
  ASSUME NEW m \in Memory, NEW id \in Nat
  PROVE  /\ HasElems(init_header(m, id))
         /\ Outside(m, init_header(m, id), 0, 4)
<1> DEFINE high == (id \div 65536) % 65536
           flag == IF (high \div ElemsBit) % 2 = 1 THEN high ELSE high + ElemsBit
           n == init_header(m, id)
<1>1. high \in Nat /\ high < 65536
  BY SMT
<1> HIDE DEF high
<1>2. flag \in Int /\ ((flag % 65536) \div 4096) % 2 = 1
  <2>1. CASE (high \div 4096) % 2 = 1
    <3>1. flag = high
      BY <2>1 DEF ElemsBit
    <3>2. high % 65536 = high
      BY <1>1
    <3>3. QED
      BY <1>1, <2>1, <3>1, <3>2
  <2>2. CASE (high \div 4096) % 2 # 1
    <3>1. flag = high + 4096
      BY <2>2 DEF ElemsBit
    <3> DEFINE q == high \div 4096
    <3>2. q \in Nat /\ q <= 15 /\ high = 4096 * q + (high % 4096)
          /\ high % 4096 \in Nat /\ high % 4096 < 4096
      BY <1>1
    <3>3. q % 2 = 0 /\ q + 1 <= 15
      BY <2>2, <3>2
    <3> HIDE DEF q
    <3>4. (high + 4096) \div 4096 = q + 1 /\ high + 4096 < 65536
      BY <1>1, <3>2, <3>3
    <3>5. (q + 1) % 2 = 1
      BY <3>2, <3>3
    <3>6. (high + 4096) % 65536 = high + 4096
      BY <1>1, <3>4
    <3>7. QED
      BY <1>1, <3>1, <3>4, <3>5, <3>6
  <2>3. QED
    BY <2>1, <2>2
<1>3. n = Store(Store(m, 0, id), 0 + 2, flag)
  BY DEF init_header, high
<1>4. /\ 0 \in Nat /\ Even(0) /\ InMemory(0, 4) /\ id \in Int /\ flag \in Int
      /\ 0 + 2 = 2 /\ 0 + 4 = 4
  BY <1>2, MemoryAssumption DEF Even, InMemory
<1> HIDE DEF flag, n
<1>5. Half(n, 0 + 2) = flag % 65536 /\ Outside(m, n, 0, 0 + 4)
  BY <1>3, <1>4, StorePair
<1>6. HasElems(n)
  BY <1>2, <1>4, <1>5 DEF HasElems, ElemsBit
<1>7. QED
  BY <1>4, <1>5, <1>6 DEF n

(* The call that finds its action starts on an empty message.              *)
LEMMA CarryBegin ==
  ASSUME WholeInv, CarryInv, BeginPack
  PROVE  CarryInv'
<1>1. CASE pc' # "pack"
  <2>1. pc' = "done" /\ ret' = -EINVAL
    BY <1>1 DEF BeginPack, Return
  <2>2. ~ Packed'
    BY <2>1 DEF Packed, EINVAL
  <2>3. QED
    BY <2>1, <2>2 DEF CarryInv, Underway
<1>2. CASE pc' = "pack"
  <2>1. /\ pc = "lookup" /\ placed' = <<>> /\ cont' = 0 /\ tuples' = 0
        /\ Untyped(mem, 0) /\ mem \in Memory /\ ctx.id \in Nat
    <3>1. AlignInv /\ pc = "lookup" /\ Untyped(mem, 0) /\ tuples = 0
      BY DEF BeginPack, WholeInv, WalkInv, CarryInv
    <3>2. ctx.id \in Nat
      BY <3>1, CallAssumption DEF AlignInv, TypeOK, Context
    <3>3. QED
      BY <3>1, <3>2 DEF BeginPack, AlignInv, TypeOK, Registered
  <2>2. /\ mem' = init_header(mem, ctx.id) /\ offset' = HdrSize(mem') /\ top' = 4
        /\ current' = get_first_elem(action') /\ current' # NULL
        /\ action' # NULL /\ action' = get_action_def(ctx.id)
    BY <1>2 DEF BeginPack, SizeofHdr, Return
  <2>3. HasElems(mem') /\ Outside(mem, mem', 0, 4)
    BY <2>1, <2>2, HeaderMade
  <2>4. HdrSize(mem') \in Nat /\ HdrSize(mem') >= 4
    BY HdrSizeWords
  <2>5. Len(placed') = 0 /\ 1 .. Len(placed') = {} /\ 1 .. Len(placed') - 1 = {}
    BY <2>1
  <2>6. ItemsCarried' /\ Chained'
    BY <2>1, <2>5 DEF ItemsCarried, Chained
  <2>7. Counted'
    <3>1. StartsIn(placed') = {}
      BY <2>5 DEF StartsIn
    <3>2. Cardinality(StartsIn(placed')) = 0
      BY <3>1, FS_EmptySet
    <3>3. QED
      BY <2>1, <2>2, <2>3, <2>4, <3>2 DEF Counted
  <2>8. Untyped(mem', offset')
    <3>1. ASSUME NEW x \in 0 .. 2 * Cells - 1, offset' <= x, x % 4 = 0
          PROVE  TupleType(mem', x) = STD
      <4>1. x \in Nat /\ x < 2 * Cells /\ x >= 4 /\ 0 <= x
        BY <2>2, <2>4, <3>1, MemoryAssumption
      <4>2. Half(mem', x) = Half(mem, x)
        BY <2>3, <4>1 DEF Outside
      <4>3. TupleType(mem, x) = STD
        BY <2>1, <3>1, <4>1 DEF Untyped
      <4>4. QED
        BY <4>2, <4>3 DEF TupleType
    <3>2. QED
      BY <3>1 DEF Untyped
  <2>9. current'.id \in Nat
    BY <2>2, GetActionDef, FirstElem, KnownElems
  <2>10. Open'
    BY <2>1, <2>2, <2>8, <2>9 DEF Open
  <2>11. ~ Packed'
    BY <1>2 DEF Packed
  <2>12. QED
    BY <1>2, <2>6, <2>7, <2>10, <2>11 DEF CarryInv
<1>3. QED
  BY <1>1, <1>2

(* A header rewritten in front of the tuples leaves them as they are.      *)
LEMMA TuplesStay ==
  ASSUME TablesInWords, WholeInv, CarryInv, Underway,
         NEW a, NEW b, mem' \in Memory, Outside(mem, mem', a, b),
         b \in Nat, b <= HdrSize(mem), HdrSize(mem') = HdrSize(mem),
         UNCHANGED <<ctx, action, offset, placed>>
  PROVE  ItemsCarried' /\ Chained'
<1>1. ItemsCarried /\ Chained /\ mem \in Memory /\ HdrSize(mem) \in Nat
  BY HdrSizeType DEF CarryInv, WholeInv, WalkInv, AlignInv, TypeOK
<1>2. ASSUME NEW i \in 1 .. Len(placed)
      PROVE  /\ Carries(mem', Start(i), Cardinality(MatesIn(placed, Start(i))),
                        ElemOf(placed[i].id), Datum(i))
             /\ tuple_size(mem', Start(i)) = tuple_size(mem, Start(i))
  <2> DEFINE s == Start(i)
             k == Cardinality(MatesIn(placed, s))
             e == ElemOf(placed[i].id)
             v == Datum(i)
  <2>1. /\ s \in Nat /\ InMemory(s, 8) /\ k \in Nat /\ s >= HdrSize(mem)
        /\ tuple_size(mem, s) \in Nat /\ TupleEnd(s) <= offset
        /\ offset < ctx.dest_size
    BY PlacedTuple
  <2>2. Sized(e) /\ e.id \in Nat
    BY PlacedElem
  <2>3. Carries(mem, s, k, e, v)
    BY <1>1 DEF ItemsCarried
  <2>4. offset \in Nat /\ ctx.dest_size \in Nat /\ ctx.dest_size + 8 <= 2 * Cells
    <3>1. offset \in Nat /\ ctx \in Context
      BY DEF WholeInv, WalkInv, AlignInv, TypeOK, Underway, Packed
    <3>2. QED
      BY <3>1, MemoryAssumption DEF Context
  <2> HIDE DEF s, k, e, v
  <2>5. ASSUME NEW x \in Nat, s <= x, x < s + tuple_size(mem, s)
        PROVE  Half(mem', x) = Half(mem, x)
    <3>1. x >= b
      BY <1>1, <2>1, <2>5
    <3>2. x < 2 * Cells
      BY <2>1, <2>4, <2>5, MemoryAssumption DEF TupleEnd
    <3>3. QED
      BY <3>1, <3>2 DEF Outside
  <2>6. Agree(mem, mem', s, s + tuple_size(mem, s))
    BY <2>5 DEF Agree
  <2>7. s + 8 <= 2 * Cells
    BY <2>1 DEF InMemory
  <2>8. Carries(mem', s, k, e, v) /\ tuple_size(mem', s) = tuple_size(mem, s)
    BY <1>1, <2>1, <2>2, <2>3, <2>6, <2>7, CarriesKept
  <2>9. QED
    BY <2>8 DEF s, k, e, v
<1>3. ItemsCarried'
  <2>1. ASSUME NEW i \in 1 .. Len(placed)
        PROVE  /\ Start(i)' = Start(i) /\ Datum(i)' = Datum(i)
               /\ ElemOf(placed[i].id)' = ElemOf(placed[i].id)
    BY DEF Start, Datum, ElemOf
  <2>2. QED
    BY <1>2, <2>1 DEF ItemsCarried, ElemOf
<1>4. Chained'
  <2>1. \A i : Start(i)' = Start(i)
    BY DEF Start
  <2>2. \A i \in 1 .. Len(placed) : TupleEnd(Start(i))' = TupleEnd(Start(i))
    <3>1. ASSUME NEW i \in 1 .. Len(placed)
          PROVE  TupleEnd(Start(i))' = TupleEnd(Start(i))
      <4>1. TupleEnd(Start(i))' = Start(i)' + tuple_size(mem', Start(i)')
        BY DEF TupleEnd
      <4>2. QED
        BY <1>2, <2>1, <4>1 DEF TupleEnd
    <3>2. QED
      BY <3>1
  <2>3. \A i \in 1 .. Len(placed) : Align(TupleEnd(Start(i)))' = Align(TupleEnd(Start(i)))
    BY <2>2
  <2>4. placed # <<>> => TupleEnd(Latest.tuple)' = TupleEnd(Latest.tuple)
    <3>1. placed # <<>> => Len(placed) \in 1 .. Len(placed)
      BY DEF WholeInv, WalkInv, AlignInv, TypeOK
    <3>2. \A i : i = Len(placed) => /\ Start(i) = Latest.tuple
                                    /\ Start(i)' = (Latest.tuple)'
      BY DEF Start, Latest
    <3>3. ASSUME placed # <<>>
          PROVE  TupleEnd(Latest.tuple)' = TupleEnd(Latest.tuple)
      <4>1. TupleEnd(Latest.tuple)' = (Latest.tuple)' + tuple_size(mem', (Latest.tuple)')
        BY DEF TupleEnd
      <4>2. (Latest.tuple)' = Latest.tuple
        BY DEF Latest
      <4>3. tuple_size(mem', Latest.tuple) = tuple_size(mem, Latest.tuple)
        BY <1>2, <3>1, <3>2, <3>3
      <4>4. QED
        BY <4>1, <4>2, <4>3 DEF TupleEnd
    <3>4. QED
      BY <3>3
  <2>5. Start(1)' = Start(1)
    BY <2>1
  <2>6. \A i \in 1 .. Len(placed) :
          Start(i)' >= HdrSize(mem') /\ InMemory(Start(i)', 8)
    BY <1>1, <2>1 DEF Chained
  <2>7. \A i, j \in 1 .. Len(placed) :
          i < j => Start(i)' = Start(j)' \/ TupleEnd(Start(i))' <= Start(j)'
    BY <1>1, <2>1, <2>2 DEF Chained
  <2>8. \A i \in 1 .. Len(placed) - 1 :
          Start(i + 1)' \in {Start(i)', Align(TupleEnd(Start(i)))'}
    <3>1. \A i \in 1 .. Len(placed) - 1 : i \in 1 .. Len(placed)
      BY DEF WholeInv, WalkInv, AlignInv, TypeOK
    <3>2. QED
      BY <1>1, <2>1, <2>3, <3>1 DEF Chained
  <2>9. placed # <<>> => /\ Start(1)' = HdrSize(mem')
                         /\ TupleEnd(Latest.tuple)' = offset
                         /\ offset < ctx.dest_size
    BY <1>1, <2>4, <2>5 DEF Chained
  <2>10. QED
    BY <2>6, <2>7, <2>8, <2>9 DEF Chained
<1>5. QED
  BY <1>3, <1>4

(* The fields the two header words are split into are put together again.  *)
LEMMA CountWords ==
  ASSUME NEW x \in Nat, x <= 65536
  PROVE  (x % 65536) + 65536 * ((x \div 65536) % 65536) = x
<1>1. CASE x < 65536
  <2>1. x % 65536 = x /\ x \div 65536 = 0 /\ 0 % 65536 = 0
    BY <1>1
  <2>2. QED
    BY <2>1
<1>2. CASE x = 65536
  <2>1. x % 65536 = 0 /\ x \div 65536 = 1 /\ 1 % 65536 = 1
    BY <1>2
  <2>2. QED
    BY <1>2, <2>1
<1>3. QED
  BY <1>1, <1>2

(* A number of 24 bits is split into the two cells of the header's size    *)
(* and read back from them.                                                *)
LEMMA SizeWords ==
  ASSUME NEW x \in Nat, x < 16777216
  PROVE  ((256 * (x % 256)) % 65536) \div 256 + 256 * ((x \div 256) % 65536) = x
<1> DEFINE r == x % 256
           q == x \div 256
<1>1. x = 256 * q + r /\ r \in 0 .. 255 /\ q \in Nat
  BY SMT
<1> HIDE DEF r, q
<1>2. q < 65536 /\ q % 65536 = q
  BY <1>1
<1>3. (256 * r) % 65536 = 256 * r
  BY <1>1
<1>4. (256 * r) \div 256 = r
  BY <1>1
<1>5. QED
  BY <1>1, <1>2, <1>3, <1>4 DEF r, q

(* What complete_header stores is what the header's accessors return.      *)
LEMMA HeaderFields ==
  ASSUME mem \in Memory, HasElems(mem), InMemory(HdrSize(mem), 0),
         tuples \in Nat,
         NEW w, w = SizeInWords, w \in Nat, w < 16777216
  PROVE  LET n == SizedHeader
         IN /\ n \in Memory /\ HdrSize(n) = HdrSize(mem) /\ HasElems(n)
            /\ Outside(mem, n, ElemsPtr(mem), HdrSize(mem))
            /\ HdrSize(mem) = ElemsPtr(mem) + 8
            /\ tuples <= 65536 => ipct_get_tuples(n) = tuples
            /\ ipct_get_size(n) = 4 * w
<1> DEFINE e == ElemsPtr(mem)
           f == e + 4
           p == Store(Store(mem, e, tuples), e + 2, tuples \div 65536)
           x == Half(mem, e + 4) - (Half(mem, e + 4) % 256)
           c == Store(p, f, x)
           n == Store(Store(c, f, 256 * (w % 256)), f + 2, w \div 256)
<1>1. e \in {4, 12} /\ HdrSize(mem) = e + 8
  BY SMT DEF ElemsPtr, HdrSize, RouteAdd, ElemsAdd, SizeofHdr, SizeofRoute,
             SizeofElems
<1>2. /\ e \in Nat /\ f \in Nat /\ e + 2 \in Nat /\ f + 2 \in Nat
      /\ Even(e) /\ Even(f) /\ f = e + 4 /\ f + 2 = e + 6
      /\ InMemory(e, 4) /\ InMemory(f, 2) /\ InMemory(f, 4)
      /\ e < 2 * Cells /\ e + 2 < 2 * Cells /\ f < 2 * Cells
      /\ f + 2 < 2 * Cells /\ 2 < 2 * Cells /\ 2 < e
  <2> HIDE DEF e
  <2>1. e + 8 <= 2 * Cells
    BY <1>1 DEF InMemory
  <2>2. QED
    BY <1>1, <2>1, MemoryAssumption DEF Even, InMemory
<1>3. n = SizedHeader
  <2>1. CountedHeader = c
    BY DEF CountedHeader
  <2>2. SizedHeader = Store(Store(CountedHeader, e + 4, 256 * (w % 256)), e + 6, w \div 256)
    BY DEF SizedHeader
  <2> HIDE DEF e, c
  <2>3. QED
    BY <1>2, <2>1, <2>2
<1>4. /\ tuples \in Int /\ tuples \div 65536 \in Int
      /\ 256 * (w % 256) \in Int /\ w \div 256 \in Int
  OBVIOUS
<1> HIDE DEF e, f
<1>5. x \in Int
  <2>1. Half(mem, e + 4) \in U16
    BY <1>2, HalfType
  <2>2. Half(mem, e + 4) \in Int
    BY <2>1, U16Elim
  <2>3. QED
    BY <2>2
<1> HIDE DEF p, x, c, n
<1>6. /\ p \in Memory /\ Half(p, e) = tuples % 65536
      /\ Half(p, e + 2) = (tuples \div 65536) % 65536
      /\ Outside(mem, p, e, e + 4)
  <2> DEFINE high == tuples \div 65536
  <2>1. p = Store(Store(mem, e, tuples), e + 2, high) /\ high \in Int
    BY <1>4 DEF p
  <2> HIDE DEF high
  <2>2. /\ p \in Memory /\ Half(p, e) = tuples % 65536
        /\ Half(p, e + 2) = high % 65536
        /\ Outside(mem, p, e, e + 4)
    BY <1>2, <1>4, <2>1, StorePair
  <2>3. QED
    BY <2>2 DEF high
<1>7. c \in Memory /\ Outside(p, c, f, f + 2)
  BY <1>2, <1>5, <1>6, StoreCell DEF c
<1>8. /\ n \in Memory /\ Half(n, f) = (256 * (w % 256)) % 65536
      /\ Half(n, f + 2) = (w \div 256) % 65536
      /\ Outside(c, n, f, f + 4)
  <2> DEFINE low == 256 * (w % 256)
             high == w \div 256
  <2>1. /\ n = Store(Store(c, f, low), f + 2, high) /\ low \in Int
        /\ high \in Int
    BY <1>4 DEF n
  <2> HIDE DEF low, high
  <2>2. /\ n \in Memory /\ Half(n, f) = low % 65536
        /\ Half(n, f + 2) = high % 65536
        /\ Outside(c, n, f, f + 4)
    BY <1>2, <1>7, <2>1, StorePair
  <2>3. QED
    BY <2>2 DEF low, high
<1>9. Half(n, e) = Half(p, e) /\ Half(n, e + 2) = Half(p, e + 2)
  <2>1. e < f /\ e + 2 < f
    BY <1>2
  <2>2. QED
    BY <1>2, <1>7, <1>8, <2>1 DEF Outside
<1>10. Outside(mem, n, e, e + 8)
  <2>1. ASSUME NEW b \in Nat, b < 2 * Cells, b < e \/ b >= e + 8
        PROVE  Half(n, b) = Half(mem, b)
    <3>1. /\ b < f \/ b >= f + 4
          /\ b < f \/ b >= f + 2
          /\ b < e \/ b >= e + 4
      BY <1>2, <2>1
    <3>2. Half(n, b) = Half(c, b)
      BY <1>8, <2>1, <3>1 DEF Outside
    <3>3. Half(c, b) = Half(p, b)
      BY <1>7, <2>1, <3>1 DEF Outside
    <3>4. Half(p, b) = Half(mem, b)
      BY <1>6, <2>1, <3>1 DEF Outside
    <3>5. QED
      BY <3>2, <3>3, <3>4
  <2>2. QED
    BY <2>1 DEF Outside
<1>11. Half(n, 2) = Half(mem, 2)
  BY <1>2, <1>10 DEF Outside
<1>12. HasElems(n) /\ HdrSize(n) = HdrSize(mem) /\ ElemsPtr(n) = e
  BY <1>11 DEF HasElems, HdrSize, ElemsPtr, RouteAdd, ElemsAdd, HasRoute, e
<1>13. tuples <= 65536 => ipct_get_tuples(n) = tuples
  <2>1. ipct_get_tuples(n)
          = (tuples % 65536) + 65536 * ((tuples \div 65536) % 65536)
    BY <1>6, <1>9, <1>12 DEF ipct_get_tuples
  <2>2. QED
    BY <2>1, CountWords
<1>14. ipct_get_size(n) = 4 * w
  <2>1. ipct_get_size(n) = 4 * (Half(n, f) \div 256 + 256 * Half(n, f + 2))
    <3>1. Half(n, e + 4) = Half(n, f) /\ Half(n, e + 6) = Half(n, f + 2)
      BY <1>2
    <3>2. ipct_get_size(n)
            = 4 * (Half(n, e + 4) \div 256 + 256 * Half(n, e + 6))
      BY <1>12 DEF ipct_get_size
    <3>3. QED
      BY <3>1, <3>2
  <2> DEFINE low == 256 * (w % 256)
             high == w \div 256
  <2>2. (low % 65536) \div 256 + 256 * (high % 65536) = w
    BY SizeWords
  <2>3. Half(n, f) = low % 65536 /\ Half(n, f + 2) = high % 65536
    BY <1>8
  <2> HIDE DEF low, high
  <2>4. Half(n, f) \div 256 + 256 * Half(n, f + 2) = w
    BY <2>2, <2>3
  <2>5. QED
    BY <2>1, <2>4
<1>15. QED
  BY <1>1, <1>3, <1>8, <1>10, <1>12, <1>13, <1>14 DEF e

(* The header of a finished message is completed, or found too long.       *)
LEMMA CarryComplete ==
  ASSUME TablesInWords, SizeFits, WholeInv, CarryInv,
         complete_header
  PROVE  CarryInv'
<1> DEFINE e == ElemsPtr(mem)
           w == SizeInWords
<1>1. /\ pc = "complete" /\ Underway /\ pc' = "done"
      /\ UNCHANGED <<ctx, action, offset, placed, cont, tuples>>
      /\ placed # <<>> /\ tuples <= 65536 /\ cont = 0
      /\ ItemsCarried /\ Chained /\ Counted
  BY DEF complete_header, Return, CarryInv, Underway
<1>2. /\ mem \in Memory /\ offset \in Nat /\ top \in Nat /\ tuples \in Nat
      /\ ctx \in Context
  BY <1>1 DEF WholeInv, WalkInv, AlignInv, TypeOK
<1>3. /\ HasElems(mem) /\ HdrSize(mem) <= offset /\ top <= offset
      /\ tuples = Cardinality(StartsIn(placed)) /\ HdrSize(mem) \in Nat
  BY <1>1, <1>2, HdrSizeType DEF Counted
<1>4. InMemory(HdrSize(mem), 0)
  <2>1. offset < ctx.dest_size
    BY <1>1 DEF Chained
  <2>2. ctx.dest_size \in Nat /\ ctx.dest_size + 8 <= 2 * Cells
    BY <1>2, MemoryAssumption DEF Context
  <2>3. QED
    BY <1>2, <1>3, <2>1, <2>2, MemoryAssumption DEF InMemory
<1>5. w \in Nat
  BY <1>2, <1>3 DEF SizeInWords
<1>6. CASE TooBig
  <2>1. ret' = -EINVAL
    BY <1>6 DEF complete_header, Return
  <2>2. ~ Packed'
    BY <2>1 DEF Packed, EINVAL
  <2>3. QED
    BY <1>1, <2>2 DEF CarryInv, Underway
<1>7. CASE ~ TooBig
  <2>1. /\ mem' = SizedHeader /\ ret' = offset
        /\ top' = MaxOf(top, e + SizeofElems)
    BY <1>7 DEF complete_header, Return
  <2>2. w < 16777216
    <3>0. w = SizeInWords
      OBVIOUS
    <3> HIDE DEF w
    <3>1. QED
      BY <1>5, <1>7, <3>0, LimitAssumption, SMT DEF SizeFits, TooBig
  <2>3. /\ mem' \in Memory /\ HdrSize(mem') = HdrSize(mem) /\ HasElems(mem')
        /\ Outside(mem, mem', e, HdrSize(mem))
        /\ HdrSize(mem) = e + 8
        /\ ipct_get_tuples(mem') = tuples
        /\ ipct_get_size(mem') = 4 * w
    <3> HIDE DEF e
    <3>1. w = SizeInWords
      OBVIOUS
    <3> HIDE DEF w
    <3>2. QED
      BY <1>1, <1>2, <1>3, <1>4, <1>5, <2>1, <2>2, <3>1, HeaderFields, SMT DEF e
  <2>4. ItemsCarried' /\ Chained'
    BY <1>1, <1>3, <2>3, TuplesStay
  <2>5. top' <= offset
    BY <1>2, <1>3, <2>1, <2>3 DEF MaxOf, SizeofElems
  <2>6. Counted'
    BY <1>1, <1>3, <2>3, <2>5 DEF Counted
  <2>7. Headed'
    BY <1>1, <1>3, <2>1, <2>3 DEF Headed, SizeInWords
  <2>8. QED
    BY <1>1, <2>4, <2>6, <2>7 DEF CarryInv, Underway
<1>8. QED
  BY <1>6, <1>7

(* A step that fails leaves no message to speak of.                        *)
LEMMA CarryFails ==
  ASSUME pc' = "done", ret' = -EINVAL
  PROVE  CarryInv'
<1>1. ~ Packed'
  BY DEF Packed, EINVAL
<1>2. QED
  BY <1>1 DEF CarryInv, Underway

(* At the start no message is underway. *)
LEMMA CarryInit ==
  ASSUME FreshBuffers, Init
  PROVE  CarryInv
<1>1. Untyped(mem, 0) /\ pc = "idle" /\ tuples = 0
  BY DEF Init, FreshBuffers
<1>2. ~ Underway
  BY <1>1 DEF Underway, Packed
<1>3. QED
  BY <1>1, <1>2 DEF CarryInv, Underway

(* A client's call or collection starts with a fresh buffer. *)
LEMMA CarryClient ==
  ASSUME FreshBuffers, CarryInv, Client
  PROVE  CarryInv'
<1>1. pc' \in {"idle", "lookup"} /\ Untyped(mem, 0)' /\ tuples' = 0
  <2>1. CASE Collect
    <3>1. mem' \in InitialMailboxes /\ pc' = "idle" /\ tuples' = 0
      BY <2>1 DEF Collect, FreshBuffers
    <3>2. Untyped(mem', 0)
      BY <3>1 DEF FreshBuffers
    <3>3. QED
      BY <3>1, <3>2
  <2>2. ASSUME NEW id, NEW src, NEW ss, NEW ds, ipct_msg_pack(id, src, ss, ds)
        PROVE  pc' \in {"idle", "lookup"} /\ Untyped(mem, 0)' /\ tuples' = 0
    <3>1. pc = "idle" /\ pc' = "lookup" /\ mem' = mem /\ tuples' = tuples
      BY <2>2 DEF ipct_msg_pack
    <3>2. Untyped(mem, 0) /\ tuples = 0
      BY <3>1 DEF CarryInv
    <3>3. Untyped(mem', 0)
      BY <3>1, <3>2
    <3>4. QED
      BY <3>1, <3>2, <3>3
  <2>3. QED
    BY <2>1, <2>2 DEF Client
<1>2. QED
  BY <1>1 DEF CarryInv, Underway, Packed

(* Nothing happens: the message stays. *)
LEMMA CarryStutter ==
  ASSUME CarryInv, UNCHANGED vars
  PROVE  CarryInv'
<1>1. /\ mem' = mem /\ pc' = pc /\ ctx' = ctx /\ action' = action
      /\ offset' = offset /\ current' = current /\ cont' = cont
      /\ cont_tuple' = cont_tuple /\ tuples' = tuples /\ ret' = ret
      /\ placed' = placed /\ top' = top
  BY DEF vars
<1>2. /\ ItemsCarried' = ItemsCarried /\ Chained' = Chained
      /\ Counted' = Counted /\ Open' = Open /\ Headed' = Headed
      /\ Underway' = Underway /\ Packed' = Packed
      /\ Untyped(mem, 0)' = Untyped(mem, 0)
  <2>1. ItemsCarried' = ItemsCarried
    BY <1>1 DEF ItemsCarried, Start, Datum, ElemOf
  <2>2. Chained' = Chained
    BY <1>1 DEF Chained, Start, TupleEnd, Latest
  <2>3. /\ Counted' = Counted /\ Open' = Open /\ Headed' = Headed
        /\ Untyped(mem, 0)' = Untyped(mem, 0)
    BY <1>1 DEF Counted, Open, Headed
  <2>4. Underway' = Underway /\ Packed' = Packed
    BY <1>1 DEF Underway, Packed
  <2>5. QED
    BY <2>1, <2>2, <2>3, <2>4
<1>3. QED
  BY <1>1, <1>2 DEF CarryInv

(* Every step keeps the message. *)
LEMMA CarryStep ==
  ASSUME FreshBuffers, TablesInWords, SizeFits,
         WholeInv, RunsInv, CarryInv, [Next]_vars
  PROVE  CarryInv'
<1>1. CASE Client
  BY <1>1, CarryClient
<1>2. CASE BadCall \/ RejectElem \/ RejectSingle
  BY <1>2, CarryFails DEF BadCall, RejectElem, RejectSingle, Return
<1>3. CASE SingleOverflow \/ ContOverflow
  BY <1>3, CarryFails DEF SingleOverflow, ContOverflow, Return
<1>4. CASE BeginPack
  BY <1>4, CarryBegin
<1>5. CASE PackSingle
  BY <1>5, CarrySingle
<1>6. CASE PackCont
  BY <1>6, CarryCont
<1>7. CASE complete_header
  BY <1>7, CarryComplete
<1>8. CASE UNCHANGED vars
  BY <1>8, CarryStutter
<1>9. QED
  BY <1>1, <1>2, <1>3, <1>4, <1>5, <1>6, <1>7, <1>8 DEF Next, PackStep

-----------------------------------------------------------------------------
(***************************************************************************)
(* What a packed message says, when the buffers are fresh and the tables   *)
(* keep to words.                                                          *)
(***************************************************************************)

(* The elements of a message, its tuples and its header, as they are while *)
(* it is being packed and when it is returned.                             *)
THEOREM CarryInvariant ==
  ASSUME FreshBuffers, TablesInWords, SizeFits
  PROVE  Spec => [](WholeInv /\ RunsInv /\ CarryInv)
<1>1. Init => RunsInv /\ CarryInv
  BY RunsInit, CarryInit
<1>2. AlignInv /\ WholeInv /\ RunsInv /\ CarryInv /\ [Next]_vars
        => RunsInv' /\ CarryInv'
  BY RunsStep, CarryStep
<1>3. QED
  BY <1>1, <1>2, AlignInvariant, WholeInvariant, PTL DEF Spec

(* MessageCarriesElems: through the ABI's accessors a reader finds every   *)
(* member of the client's structure at the index its element's ID says,    *)
(* and each tuple is as long as what was put into it.                      *)
THEOREM MessageCarries ==
  ASSUME FreshBuffers, TablesInWords, SizeFits
  PROVE  Spec => []MessageCarriesElems
<1>1. WholeInv /\ CarryInv => MessageCarriesElems
  <2> SUFFICES ASSUME WholeInv, CarryInv, Packed, NEW i \in 1 .. Len(placed)
               PROVE  LET e     == ElemOf(placed[i].id)
                          size  == elem_get_data_size(e)
                          t     == placed[i].tuple
                          index == e.id - TupleId(mem, t)
                          mates == Cardinality({j \in 1 .. Len(placed) :
                                                  placed[j].tuple = t})
                      IN /\ index \in 0 .. tuple_data_count(mem, t) - 1
                         /\ Holds(mem, tuple_get_data(mem, t, index),
                                  ctx.src[e.offset], size)
                         /\ TupleType(mem, t) # HD =>
                              tuple_size(mem, t) = SizeofStd + mates * size
    BY DEF MessageCarriesElems
  <2> DEFINE e == ElemOf(placed[i].id)
             t == placed[i].tuple
             k == Cardinality(MatesIn(placed, t))
             v == ctx.src[e.offset]
  <2>1. Underway
    BY DEF Underway
  <2>2. /\ t \in Nat /\ InMemory(t, 8) /\ k \in Nat
    BY <2>1, PlacedTuple DEF Start
  <2>3. Sized(e)
    BY <2>1, PlacedElem
  <2>4. Carries(mem, t, k, e, v) /\ mem \in Memory
    BY <2>1 DEF CarryInv, ItemsCarried, Start, Datum, WholeInv, WalkInv,
                AlignInv, TypeOK
  <2>5. t + 8 <= 2 * Cells
    BY <2>2 DEF InMemory
  <2>6. k = Cardinality({j \in 1 .. Len(placed) : placed[j].tuple = t})
    BY DEF MatesIn
  <2> HIDE DEF e, t, k, v
  <2>7. /\ tuple_data_count(mem, t) = k
        /\ TupleType(mem, t) # HD =>
             tuple_size(mem, t) = SizeofStd + k * elem_get_data_size(e)
    BY <2>2, <2>3, <2>4, <2>5, CarriesSize
  <2>8. /\ e.id - TupleId(mem, t) \in 0 .. k - 1
        /\ Holds(mem, tuple_get_data(mem, t, e.id - TupleId(mem, t)), v,
                 elem_get_data_size(e))
    BY <2>4 DEF Carries
  <2>9. QED
    BY <2>6, <2>7, <2>8 DEF e, t, v
<1>2. QED
  BY <1>1, CarryInvariant, PTL

(* TuplesChain: following each tuple's own size from the end of the header *)
(* leads through all tuples to the length the call returned, and the       *)
(* header has their number and the words they take.                        *)
THEOREM TuplesFollow ==
  ASSUME FreshBuffers, TablesInWords, SizeFits
  PROVE  Spec => []TuplesChain
<1>1. WholeInv /\ CarryInv => TuplesChain
  <2> SUFFICES ASSUME WholeInv, CarryInv, Packed PROVE TuplesChain
    BY DEF TuplesChain
  <2> DEFINE n == Len(placed)
  <2>1. Chained /\ Headed /\ placed # <<>>
    BY DEF CarryInv, Underway
  <2>2. Start(1) = HdrSize(mem) /\ TupleEnd(Latest.tuple) = offset
    BY <2>1 DEF Chained
  <2>3. \A i \in 1 .. n - 1 : Start(i + 1) \in {Start(i), Align(TupleEnd(Start(i)))}
    BY <2>1 DEF Chained
  <2>4. ret = offset /\ ipct_get_tuples(mem) = Cardinality(StartsIn(placed))
        /\ ipct_get_size(mem) = 4 * ((ret - HdrSize(mem)) \div 4)
    BY <2>1 DEF Headed
  <2>5. ret = Start(n) + tuple_size(mem, Start(n))
    BY <2>2, <2>4 DEF TupleEnd, Latest, Start
  <2>6. QED
    BY <2>2, <2>3, <2>4, <2>5 DEF TuplesChain, Start, TupleEnd, StartsIn
<1>2. QED
  BY <1>1, CarryInvariant, PTL

(* SuccessStaysInBuffer: a call that succeeds has stored nothing past the  *)
(* length it returns, which is within the client's buffer.                 *)
THEOREM SuccessInBuffer ==
  ASSUME FreshBuffers, TablesInWords, SizeFits
  PROVE  Spec => []SuccessStaysInBuffer
<1>1. WholeInv /\ CarryInv => SuccessStaysInBuffer
  <2> SUFFICES ASSUME WholeInv, CarryInv, Packed
               PROVE  top <= ret /\ ret <= ctx.dest_size
    BY DEF SuccessStaysInBuffer
  <2>1. /\ placed # <<>> /\ Headed /\ Chained /\ Counted
        /\ offset \in Nat /\ ctx.dest_size \in Nat
    <3>1. placed # <<>> /\ Headed /\ Chained /\ Counted
      BY DEF CarryInv, Underway
    <3>2. offset \in Nat /\ ctx \in Context
      BY DEF WholeInv, WalkInv, AlignInv, TypeOK, Packed
    <3>3. QED
      BY <3>1, <3>2, MemoryAssumption DEF Context
  <2>2. top <= offset /\ offset < ctx.dest_size /\ ret = offset
    BY <2>1 DEF Headed, Chained, Counted
  <2>3. QED
    BY <2>1, <2>2
<1>2. QED
  BY <1>1, CarryInvariant, PTL

-----------------------------------------------------------------------------
(***************************************************************************)
(* The size in the header, whatever the tables and the buffer hold: the    *)
(* tuples lie behind the header, so no store of the walk reaches the word  *)
(* that says how long the header is.                                       *)
(***************************************************************************)

(* The word with the header's flags is the one init_header wrote. *)
FlagsKept(n) == Half(n, 2) = Half(mem, 2)

(* The packer writes behind the header, and so does the open tuple lie. *)
BodyBehindHeader ==
  /\ pc \in {"pack", "complete"} => HasElems(mem) /\ HdrSize(mem) <= offset
  /\ pc = "pack" /\ cont = 1 => HdrSize(mem) <= cont_tuple

(* The inductive invariant of the header's size. *)
SizeInv == BodyBehindHeader /\ BodySizeCounted

(* The flags say how long the header is. *)
LEMMA SameFlags ==
  ASSUME NEW n, FlagsKept(n)
  PROVE  HdrSize(n) = HdrSize(mem) /\ (HasElems(n) <=> HasElems(mem))
BY DEF FlagsKept, HdrSize, HasElems, RouteAdd, ElemsAdd, HasRoute

(* A store behind the first word leaves the flags. *)
LEMMA FlagsStored ==
  ASSUME NEW m \in Memory, NEW a \in Nat, a >= 4, NEW v \in Int
  PROVE  Store(m, a, v) \in Memory /\ Half(Store(m, a, v), 2) = Half(m, 2)
<1>1. 2 < 2 * Cells /\ a \div 2 # 2 \div 2 /\ 2 \in Nat
  BY MemoryAssumption
<1>2. QED
  BY <1>1, StoreType, StoreRead

(* So does a tuple that is begun there ... *)
LEMMA FlagsBegun ==
  ASSUME NEW m \in Memory, NEW t \in Nat, t >= 4, NEW type, NEW id,
         TupleWord(type, id) \in Int, NEW size \in Nat
  PROVE  Half(tuple_init(m, t, type, id, size), 2) = Half(m, 2)
<1> DEFINE m1 == Store(m, t, TupleWord(type, id))
           sz == size % 65536
<1>1. m1 \in Memory /\ Half(m1, 2) = Half(m, 2)
  BY FlagsStored
<1>2. sz \in Int /\ sz \div 4 \in Int
  OBVIOUS
<1>3. tuple_init(m, t, type, id, size) =
        CASE TupleType(m, t) = STD -> Store(m1, t + 2, sz \div 4)
          [] TupleType(m, t) = HD  -> m1
          [] TupleType(m, t) \in {STD_ARRAY, HD_ARRAY} -> Store(m1, t + 2, sz)
          [] TupleType(m, t) \in {VAR_ARRAY, TUPLE_ARRAY} ->
               Store(m1, t + 4, sz)
          [] OTHER -> m
  BY DEF tuple_init, m1, sz
<1> HIDE DEF m1, sz
<1>4. \A a \in {t + 2, t + 4} : \A v \in Int : Half(Store(m1, a, v), 2) = Half(m, 2)
  <2>1. \A a \in {t + 2, t + 4} : a \in Nat /\ a >= 4
    OBVIOUS
  <2>2. QED
    BY <1>1, <2>1, FlagsStored
<1>5. /\ Half(Store(m1, t + 2, sz \div 4), 2) = Half(m, 2)
      /\ Half(Store(m1, t + 2, sz), 2) = Half(m, 2)
      /\ Half(Store(m1, t + 4, sz), 2) = Half(m, 2)
  BY <1>2, <1>4
<1>6. tuple_init(m, t, type, id, size) \in
        {m, m1, Store(m1, t + 2, sz \div 4), Store(m1, t + 2, sz),
         Store(m1, t + 4, sz)}
  BY <1>3 DEF STD, HD, STD_ARRAY, HD_ARRAY, VAR_ARRAY, TUPLE_ARRAY
<1>7. QED
  BY <1>1, <1>5, <1>6

(* ... or grown. *)
LEMMA FlagsGrown ==
  ASSUME NEW m \in Memory, NEW t \in Nat, t >= 4,
         Half(m, t) \in Int, Half(m, t + 2) \in Int
  PROVE  Half(tuple_inc_elems(m, t), 2) = Half(m, 2)
<1> DEFINE grown == Store(m, t, Half(m, t) + 2)
           moved == Store(grown, t + 4, Half(m, t + 2))
           more  == Half(m, t + 2) + 1
<1>1. Half(m, t) + 2 \in Int /\ more \in Int /\ t + 2 \in Nat /\ t + 2 >= 4
      /\ t + 4 \in Nat /\ t + 4 >= 4 /\ 2 \in Int
  OBVIOUS
<1>2. grown \in Memory /\ Half(grown, 2) = Half(m, 2)
  BY <1>1, FlagsStored
<1>3. tuple_inc_elems(m, t) \in
        {m, Store(grown, t + 2, more), Store(moved, t + 2, 2),
         Store(m, t + 2, more)}
  BY DEF tuple_inc_elems, Count, STD, HD, STD_ARRAY, HD_ARRAY, VAR_ARRAY,
         TUPLE_ARRAY
<1> HIDE DEF grown, more
<1>4. moved \in Memory /\ Half(moved, 2) = Half(m, 2)
  BY <1>1, <1>2, FlagsStored
<1> HIDE DEF moved
<1>5. /\ Half(Store(grown, t + 2, more), 2) = Half(m, 2)
      /\ Half(Store(moved, t + 2, 2), 2) = Half(m, 2)
      /\ Half(Store(m, t + 2, more), 2) = Half(m, 2)
  BY <1>1, <1>2, <1>4, FlagsStored
<1>6. QED
  BY <1>3, <1>5

(* The next element comes behind what is stored. *)
LEMMA BodyAdvances ==
  ASSUME AlignInv, pc = "pack", NEW o \in Nat, Advance(o), FlagsKept(mem'),
         HasElems(mem), HdrSize(mem) <= cont_tuple', HdrSize(mem) <= o
  PROVE  SizeInv'
<1>1. HasElems(mem') /\ HdrSize(mem') = HdrSize(mem)
  BY SameFlags
<1>2. offset' = o /\ pc' \in {"pack", "complete"}
  BY AdvanceFacts
<1>3. ~ Packed'
  BY <1>2 DEF Packed
<1>4. QED
  BY <1>1, <1>2, <1>3 DEF SizeInv, BodyBehindHeader, BodySizeCounted

(* The first word gets the elems bit, and the offset starts behind it. *)
LEMMA SizeBegin ==
  ASSUME AlignInv, BeginPack
  PROVE  SizeInv'
<1>1. mem \in Memory /\ ctx.id \in Nat /\ cont = 0
  BY CallAssumption DEF BeginPack, AlignInv, TypeOK, Registered, Context
<1>2. HasElems(mem')
  BY <1>1, HeaderMade DEF BeginPack
<1>3. offset' = HdrSize(mem') /\ HdrSize(mem') \in Nat /\ cont' = 0
  BY <1>1, HdrSizeWords DEF BeginPack
<1>4. ~ Packed'
  <2>1. pc' = "pack" \/ ret' = -EINVAL
    BY DEF BeginPack, Return
  <2>2. QED
    BY <2>1 DEF Packed, EINVAL
<1>5. QED
  BY <1>2, <1>3, <1>4 DEF SizeInv, BodyBehindHeader, BodySizeCounted

(* A tuple of its own starts behind the header. *)
LEMMA SizeSingle ==
  ASSUME AlignInv, SizeInv, PackSingle
  PROVE  SizeInv'
<1> DEFINE t == SingleStart
           data == SingleData(InitSingle)
           size == SizeOfCurrent
           v == ctx.src[current.offset]
           o == t + tuple_size(mem', t)
<1>1. /\ pc = "pack" /\ is_ptr_valid(t) /\ TupleInitOk(mem, t)
      /\ mem' = CopyIn(InitSingle, data, v, size)
      /\ cont_tuple' = t /\ Advance(o)
  BY DEF PackSingle
<1>2. /\ t \in Nat /\ t + 8 <= 2 * Cells /\ InitSingle \in Memory
      /\ data \in {t + 2, t + 4}
  BY <1>1, SingleFacts
<1>3. /\ size \in Nat /\ SingleType \in {STD, HD} /\ current.id \in U16
  BY <1>1, CurrentElem
<1>4. /\ HasElems(mem) /\ HdrSize(mem) <= t /\ t >= 4
  <2>1. HasElems(mem) /\ HdrSize(mem) <= offset /\ offset \in Nat /\ offset % 2 = 0
    BY <1>1 DEF SizeInv, BodyBehindHeader, AlignInv, TypeOK, Registered
  <2>2. t >= offset /\ HdrSize(mem) \in Nat /\ HdrSize(mem) >= 4
    BY <2>1, AlignIsWord, HdrSizeWords DEF SingleStart
  <2>3. QED
    BY <1>2, <2>1, <2>2
<1>5. Half(InitSingle, 2) = Half(mem, 2)
  <2>1. TupleWord(SingleType, current.id) \in Int
    BY <1>3, TupleWordType
  <2>2. mem \in Memory
    BY DEF AlignInv, TypeOK
  <2>3. QED
    BY <1>2, <1>3, <1>4, <2>1, <2>2, FlagsBegun DEF InitSingle
<1>6. tuple_size(mem', t) \in Nat
  BY SingleStored
<1> HIDE DEF t, data, size, v
<1>7. FlagsKept(mem')
  <2>1. data \in Nat /\ 2 \div 2 < data \div 2 /\ 2 < 2 * Cells
    BY <1>2, <1>4, MemoryAssumption
  <2>2. QED
    BY <1>1, <1>2, <1>3, <1>5, <2>1, CopyInRead DEF FlagsKept
<1>8. o \in Nat /\ HdrSize(mem) <= o
  <2>1. HdrSize(mem) \in Nat
    BY HdrSizeWords
  <2>2. QED
    BY <1>2, <1>4, <1>6, <2>1
<1> HIDE DEF o
<1>9. QED
  BY <1>1, <1>4, <1>7, <1>8, BodyAdvances

(* The open tuple grows behind it. *)
LEMMA SizeCont ==
  ASSUME AlignInv, SizeInv, PackCont
  PROVE  SizeInv'
<1> DEFINE t == cont_tuple
           size == SizeOfCurrent
           v == ctx.src[current.offset]
           n == tuple_data_size(mem', t)
           o == ContData + n
<1>1. /\ pc = "pack" /\ cont = 1 /\ cont_tuple' = t
      /\ mem' = CopyIn(GrownTuple, ContData, v, size)
      /\ Advance(o)
  BY DEF PackCont
<1>2. /\ t \in Nat /\ t + 8 <= 2 * Cells /\ ContData \in Nat
      /\ t + 4 <= ContData /\ GrownTuple \in Memory
  BY <1>1, ContFacts
<1>3. size \in Nat /\ mem \in Memory
  BY <1>1, CurrentElem DEF AlignInv, TypeOK
<1>4. HasElems(mem) /\ HdrSize(mem) <= t /\ HdrSize(mem) \in Nat /\ t >= 4
  <2>1. HdrSize(mem) \in Nat /\ HdrSize(mem) >= 4
    BY HdrSizeWords
  <2>2. QED
    BY <1>1, <1>2, <2>1 DEF SizeInv, BodyBehindHeader
<1>5. Half(GrownTuple, 2) = Half(mem, 2)
  <2>1. Half(mem, t) \in Int /\ Half(mem, t + 2) \in Int
    <3>1. Half(mem, t) \in U16 /\ Count(mem, t) \in U16
      BY <1>2, <1>3, HeaderType
    <3>2. QED
      BY <3>1, U16Elim DEF Count
  <2>2. QED
    BY <1>2, <1>3, <1>4, <2>1, FlagsGrown DEF GrownTuple
<1>6. n \in Nat
  BY ContStored
<1> HIDE DEF t, size, v, n
<1>7. FlagsKept(mem')
  <2>1. 2 \div 2 < ContData \div 2 /\ 2 < 2 * Cells
    BY <1>2, <1>4, MemoryAssumption
  <2>2. QED
    BY <1>1, <1>2, <1>3, <1>5, <2>1, CopyInRead DEF FlagsKept
<1>8. o \in Nat /\ HdrSize(mem) <= o
  BY <1>2, <1>4, <1>6
<1> HIDE DEF o
<1>9. QED
  BY <1>1, <1>4, <1>7, <1>8, BodyAdvances

(* The header is given the words behind it, or the message is refused. *)
LEMMA SizeComplete ==
  ASSUME SizeFits, AlignInv, SizeInv, complete_header
  PROVE  SizeInv'
<1> DEFINE w == SizeInWords
<1>1. /\ pc = "complete" /\ pc' = "done" /\ mem \in Memory /\ tuples \in Nat
      /\ offset \in Nat
  BY DEF complete_header, Return, AlignInv, TypeOK
<1>2. HasElems(mem) /\ HdrSize(mem) <= offset
  BY <1>1 DEF SizeInv, BodyBehindHeader
<1>3. HdrSize(mem) \in Nat /\ HdrSize(mem) <= 20
  BY HdrSizeWords, SMT
  DEF HdrSize, RouteAdd, ElemsAdd, SizeofHdr, SizeofRoute, SizeofElems
<1>4. InMemory(HdrSize(mem), 0)
  BY <1>3, MemoryAssumption DEF InMemory
<1>5. w \in Nat /\ w = SizeInWords
  BY <1>1, <1>2, <1>3 DEF SizeInWords
<1>6. CASE TooBig
  <2>1. ret' = -EINVAL
    BY <1>6 DEF complete_header, Return
  <2>2. ~ Packed'
    BY <2>1 DEF Packed, EINVAL
  <2>3. QED
    BY <1>1, <2>2 DEF SizeInv, BodyBehindHeader, BodySizeCounted
<1>7. CASE ~ TooBig
  <2>1. mem' = SizedHeader /\ ret' = offset
    BY <1>7 DEF complete_header, Return
  <2> HIDE DEF w
  <2>2. w < SizeLimit /\ w < 16777216
    BY <1>5, <1>7, LimitAssumption DEF SizeFits, TooBig
  <2>3. HdrSize(mem') = HdrSize(mem) /\ ipct_get_size(mem') = 4 * w
    BY <1>1, <1>2, <1>4, <1>5, <2>1, <2>2, HeaderFields
  <2>4. BodySizeCounted'
    BY <1>5, <2>1, <2>2, <2>3 DEF BodySizeCounted, SizeInWords
  <2>5. QED
    BY <1>1, <2>4 DEF SizeInv, BodyBehindHeader
<1>8. QED
  BY <1>6, <1>7

(* Steps that leave no message underway and none packed. *)
LEMMA SizeNone ==
  ASSUME pc' \in {"idle", "lookup"} \/ (pc' = "done" /\ ret' = -EINVAL)
  PROVE  SizeInv'
<1>1. ~ Packed'
  BY DEF Packed, EINVAL
<1>2. QED
  BY <1>1 DEF SizeInv, BodyBehindHeader, BodySizeCounted

(* BodySizeCounted: over whatever an earlier message left in the buffer, a *)
(* message is returned only with a size its 24-bit field can say, and says.*)
THEOREM SizeCounted ==
  ASSUME SizeFits
  PROVE  Spec => []BodySizeCounted
<1>1. Init => SizeInv
  BY DEF Init, SizeInv, BodyBehindHeader, BodySizeCounted, Packed
<1>2. AlignInv /\ SizeInv /\ [Next]_vars => SizeInv'
  <2> SUFFICES ASSUME AlignInv, SizeInv, [Next]_vars
               PROVE  SizeInv'
    OBVIOUS
  <2>1. CASE Client
    <3>1. pc' \in {"idle", "lookup"}
      BY <2>1 DEF Client, Collect, ipct_msg_pack
    <3>2. QED
      BY <3>1, SizeNone
  <2>2. CASE BadCall \/ RejectElem \/ RejectSingle
    BY <2>2, SizeNone DEF BadCall, RejectElem, RejectSingle, Return
  <2>3. CASE SingleOverflow \/ ContOverflow
    BY <2>3, SizeNone DEF SingleOverflow, ContOverflow, Return
  <2>4. CASE BeginPack
    BY <2>4, SizeBegin
  <2>5. CASE PackSingle
    BY <2>5, SizeSingle
  <2>6. CASE PackCont
    BY <2>6, SizeCont
  <2>7. CASE complete_header
    BY <2>7, SizeComplete
  <2>8. CASE UNCHANGED vars
    BY <2>8
    DEF vars, SizeInv, BodyBehindHeader, BodySizeCounted, Packed
  <2>9. QED
    BY <2>1, <2>2, <2>3, <2>4, <2>5, <2>6, <2>7, <2>8 DEF Next, PackStep
<1>3. SizeInv => BodySizeCounted
  BY DEF SizeInv
<1>4. QED
  BY <1>1, <1>2, <1>3, AlignInvariant, PTL DEF Spec

=============================================================================
