----------------------------- MODULE IpctHeader -----------------------------
(***************************************************************************)
(* The message header (abi/header.h) and the macros and inline helpers     *)
(* that read it (private/header.h).  The message starts at byte 0 of its   *)
(* buffer.  struct ipct_hdr is one word: the low cell holds class and      *)
(* subclass, the high cell the action in its low byte and, above it,       *)
(* status, priority, datagram, route, elems and three vendor bits.         *)
(***************************************************************************)
EXTENDS IpctTuple

SizeofHdr   == 4
SizeofRoute == 8
SizeofElems == 8

RouteBit == 2048     \* bit 27 of the word, in the high cell
ElemsBit == 4096     \* bit 28 of the word, in the high cell

HasRoute(m) == (Half(m, 2) \div RouteBit) % 2 = 1
HasElems(m) == (Half(m, 2) \div ElemsBit) % 2 = 1

RouteAdd(m) == IF HasRoute(m) THEN SizeofRoute ELSE 0
ElemsAdd(m) == IF HasElems(m) THEN SizeofElems ELSE 0

(* IPCT_HDR_GET_ELEM_PTR, when the header has the elems structure. *)
ElemsPtr(m) == SizeofHdr + RouteAdd(m)

(* IPCT_HDR_GET_HDR_SIZE, which is also where the first tuple starts. *)
HdrSize(m) == SizeofHdr + ElemsAdd(m) + RouteAdd(m)

(* IPCT_HDR_GET_ID: class, subclass and action of the header word. *)
HdrId(m) == Half(m, 0) + 65536 * (Half(m, 2) % 256)

(* struct sof_ipct_elems is num_tuples, then a word with the number of     *)
(* remaining chunks in its low byte and the body size in words above it.   *)
ipct_get_tuples(m) ==
  IF HasElems(m)
  THEN Half(m, ElemsPtr(m)) + 65536 * Half(m, ElemsPtr(m) + 2)
  ELSE 0

ipct_get_size(m) ==
  IF HasElems(m)
  THEN 4 * (Half(m, ElemsPtr(m) + 4) \div 256
              + 256 * Half(m, ElemsPtr(m) + 6))
  ELSE 0

-----------------------------------------------------------------------------
(* ipct/client.h, IPCT_ACTION_ID, and the IPCT_ID_GET_* macros. *)
ACTION_ID(klass, subklass, action) == klass + 256 * subklass + 65536 * action

IdKlass(id)    == id % 256
IdSubklass(id) == (id \div 256) % 256
IdAction(id)   == (id \div 65536) % 256

=============================================================================
