---------------------------- MODULE IpctRegistry ----------------------------
(***************************************************************************)
(* The tables an application declares with the macros of ipct/builder.h    *)
(* and the lookups of client.c: the action an ID names, and the element of *)
(* an action that a tuple carries.                                         *)
(***************************************************************************)
EXTENDS IpctHeader

CONSTANTS
  Registry,   \* <<klass, subklass, action>> -> action descriptor
  NULL

AllElems == UNION {Elems(Registry[key]) : key \in DOMAIN Registry}

(* Tuple IDs are unique within an action (abi/message.h).                  *)
ASSUME RegistryAssumption ==
  /\ \A key \in DOMAIN Registry : Registry[key] \in Desc
  /\ \A key \in DOMAIN Registry : \A e, f \in Elems(Registry[key]) :
       e.id = f.id => e = f
  /\ NULL \notin AllElems

(* A descriptor of the registry. *)
Known(d) == \E key \in DOMAIN Registry : d = Registry[key]

EINVAL == 22

-----------------------------------------------------------------------------
(* The action definition of an ID, or NULL. *)
get_action_def(id) ==
  LET key == <<IdKlass(id), IdSubklass(id), IdAction(id)>>
  IN IF key \in DOMAIN Registry THEN Registry[key] ELSE NULL

(* The element that item i of tuple t carries, or NULL. *)
get_tuple_elem(d, m, t, i) ==
  LET match == {e \in Elems(d) : e.id = TupleId(m, t) + i}
  IN IF match = {} THEN NULL ELSE CHOOSE e \in match : TRUE

=============================================================================
