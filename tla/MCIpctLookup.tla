---------------------------- MODULE MCIpctLookup ----------------------------
(***************************************************************************)
(* Instances of IpctLookup for TLC: three classes whose subclasses and     *)
(* actions have numbers in common, and actions with nested structures.  A  *)
(* class, a subclass and an action are declared twice: behind the second   *)
(* entry of each lies something that the first does not have.              *)
(***************************************************************************)
EXTENDS IpctLookup

Elem1(tid) == [id |-> tid, type |-> "uint32_value", offset |-> 4 * tid,
               value1 |-> 0, value2 |-> 9]

Desc1(mandatory, optional, subaction) ==
  [size |-> 64, mandatory |-> mandatory, optional |-> optional,
   subaction |-> subaction]

Color == Desc1(<<Elem1(8), Elem1(7)>>, <<>>, <<>>)
Chmap == Desc1(<<Elem1(6)>>, <<Elem1(2)>>, <<Color>>)

Params  == Desc1(<<Elem1(3), Elem1(1)>>, <<Elem1(4), Elem1(2)>>, <<Chmap, Color>>)
Trigger == Desc1(<<Elem1(1)>>, <<>>, <<>>)
Reply   == Desc1(<<>>, <<Elem1(5), Elem1(3)>>, <<Color>>)

Action(n, desc)     == [id |-> n, desc |-> desc]
Subklass(n, actions) == [id |-> n, actions |-> actions]
Klass(n, subs)      == [id |-> n, subklasses |-> subs]

AllKlasses ==
  << Klass(2, <<Subklass(1, <<Action(0, Trigger)>>), Subklass(0, <<>>)>>),
     Klass(0, <<Subklass(2, <<Action(1, Reply), Action(0, Trigger)>>),
                Subklass(0, <<Action(3, Trigger), Action(0, Params),
                              Action(1, Reply), Action(3, Reply)>>),
                Subklass(2, <<Action(2, Params), Action(0, Reply)>>)>>),
     Klass(1, <<>>),
     Klass(0, <<Subklass(0, <<Action(0, Trigger)>>),
                Subklass(1, <<Action(1, Trigger)>>)>>) >>

MCKlasses == AllKlasses

(* Every class, subclass and action number up to three; two with flags of  *)
(* the header word above the action.                                       *)
MCIds == {ACTION_ID(k, s, a) : k, s, a \in 0 .. 3}
           \cup {ACTION_ID(0, s, 1) + 65536 * RouteBit : s \in {0, 2}}

MCTupleIds == 0 .. 9

=============================================================================
