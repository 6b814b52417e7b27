----------------------------- MODULE IpctLookup -----------------------------
(***************************************************************************)
(* The searches of client.c over the tables as an application declares     *)
(* them: lists of classes, of their subclasses and of their actions, and   *)
(* an action's lists of mandatory and optional elements and of nested      *)
(* structures, which have such lists themselves.                           *)
(*                                                                         *)
(* A step is one iteration of one of the loops.  The recursion of          *)
(* get_tuple_elem is a stack of frames, one for each invocation.           *)
(***************************************************************************)
EXTENDS IpctHeader, Sequences

CONSTANTS
  Klasses,   \* builder_klasses: <<[id, subklasses : <<[id, actions :
             \*   <<[id, desc]>>]>>]>>; a desc has the lists mandatory and
             \*   optional, of elements, and subaction, of descs
  Ids,       \* the message IDs looked up
  TupleIds,  \* the tuple IDs looked up
  NULL

Items(list) == {list[n] : n \in 1 .. Len(list)}

ASSUME IdsAssumption == Ids \subseteq Nat /\ TupleIds \subseteq Nat

(* The tables are lists. *)
ASSUME ListsAssumption ==
  /\ Len(Klasses) \in Nat
  /\ \A k \in Items(Klasses) :
       /\ Len(k.subklasses) \in Nat
       /\ \A s \in Items(k.subklasses) : Len(s.actions) \in Nat

VARIABLES
  pc,        \* "idle", the list being searched, or "done"
  asked,     \* the call: "action", "elem" or "none"
  id,        \* the message ID or tuple ID sought
  i,         \* the loop's index
  klass,     \* the class found, or NULL
  subklass,  \* the subclass found, or NULL
  frames,    \* the invocations of get_tuple_elem: their desc and index
  result     \* what the call returns

vars == <<pc, asked, id, i, klass, subklass, frames, result>>

(* All action definitions, as places in the lists, and their descriptors.  *)
ActionsOf(k, s) ==
  {<<k, s, n>> : n \in 1 .. Len(Klasses[k].subklasses[s].actions)}

Paths == UNION {UNION {ActionsOf(k, s) : s \in 1 .. Len(Klasses[k].subklasses)} :
                  k \in 1 .. Len(Klasses)}

ActionAt(p) == Klasses[p[1]].subklasses[p[2]].actions[p[3]]

Descs == {ActionAt(p).desc : p \in Paths}

(* So are the elements of an action. *)
ASSUME ElemListsAssumption ==
  \A d \in Descs : Len(d.mandatory) \in Nat /\ Len(d.optional) \in Nat

-----------------------------------------------------------------------------
Init ==
  /\ pc = "idle" /\ asked = "none"
  /\ id = 0 /\ i = 1
  /\ klass = NULL /\ subklass = NULL
  /\ frames = <<>> /\ result = NULL

(* ipct_pack or ipct_unpack asks for the action of a message ID. *)
get_action_def(mid) ==
  /\ pc = "idle"
  /\ pc' = "klass" /\ asked' = "action"
  /\ id' = mid /\ i' = 1
  /\ UNCHANGED <<klass, subklass, frames, result>>

(* tuple_unpack asks for the element that carries a tuple ID. *)
get_tuple_elem(desc, tid) ==
  /\ pc = "idle"
  /\ pc' = "mandatory" /\ asked' = "elem"
  /\ id' = tid
  /\ frames' = <<[desc |-> desc, i |-> 1]>>
  /\ UNCHANGED <<i, klass, subklass, result>>

Collect ==
  /\ pc = "done"
  /\ pc' = "idle" /\ asked' = "none"
  /\ id' = 0 /\ i' = 1
  /\ klass' = NULL /\ subklass' = NULL
  /\ frames' = <<>> /\ result' = NULL

Return(value) == pc' = "done" /\ result' = value

-----------------------------------------------------------------------------
(* get_klass, get_subklass and get_action: three loops of one shape.       *)
Levels == {"klass", "subklass", "action"}

List == CASE pc = "klass"    -> Klasses
          [] pc = "subklass" -> klass.subklasses
          [] pc = "action"   -> subklass.actions

(* Mutant: a subclass is looked for by the class's number. *)
WantedShifted == CASE pc = "klass"    -> IdKlass(id)
                   [] pc = "subklass" -> IdKlass(id)
                   [] pc = "action"   -> IdAction(id)

Wanted == CASE pc = "klass"    -> IdKlass(id)
            [] pc = "subklass" -> IdSubklass(id)
            [] pc = "action"   -> IdAction(id)

(* Mutant: the index is that of the class. *)
FoundKlassKeepingIndex ==
  /\ pc = "klass" /\ i <= Len(Klasses) /\ Klasses[i].id = IdKlass(id)
  /\ pc' = "subklass"
  /\ klass' = Klasses[i]
  /\ UNCHANGED <<asked, id, i, subklass, frames, result>>

Matches == i <= Len(List) /\ List[i].id = Wanted

(* Mutant: the loop starts over. *)
SkipNothing ==
  /\ pc \in Levels
  /\ i <= Len(List) /\ ~ Matches
  /\ UNCHANGED vars

Skip ==
  /\ pc \in Levels
  /\ i <= Len(List) /\ ~ Matches
  /\ i' = i + 1
  /\ UNCHANGED <<pc, asked, id, klass, subklass, frames, result>>

FoundKlass ==
  /\ pc = "klass" /\ Matches
  /\ pc' = "subklass"
  /\ klass' = Klasses[i]
  /\ i' = 1
  /\ UNCHANGED <<asked, id, subklass, frames, result>>

FoundSubklass ==
  /\ pc = "subklass" /\ Matches
  /\ pc' = "action"
  /\ subklass' = klass.subklasses[i]
  /\ i' = 1
  /\ UNCHANGED <<asked, id, klass, frames, result>>

FoundAction ==
  /\ pc = "action" /\ Matches
  /\ Return(subklass.actions[i].desc)
  /\ UNCHANGED <<asked, id, i, klass, subklass, frames>>

(* A list without the ID ends the whole lookup. *)
NotFound ==
  /\ pc \in Levels
  /\ i > Len(List)
  /\ Return(NULL)
  /\ UNCHANGED <<asked, id, i, klass, subklass, frames>>

-----------------------------------------------------------------------------
(* get_tuple_elem: mandatory elements, then optional ones, then the nested *)
(* structures.                                                             *)
ElemLists == {"mandatory", "optional", "subaction"}

Current == frames[Len(frames)]

Elements == IF pc = "mandatory" THEN Current.desc.mandatory
                                ELSE Current.desc.optional

ElemMatches == /\ Current.i <= Len(Elements)
               /\ Elements[Current.i].id = id

WithIndex(n) == [frames EXCEPT ![Len(frames)].i = n]

(* An invocation returns elem.  A nested one's result goes into a variable *)
(* that the loop of the one around it does not look at.                    *)
ReturnElem(elem) ==
  IF Len(frames) = 1
  THEN Return(elem) /\ UNCHANGED frames
  ELSE /\ pc' = "subaction"
       /\ frames' = [SubSeq(frames, 1, Len(frames) - 1) EXCEPT
                       ![Len(frames) - 1].i = @ + 1]
       /\ UNCHANGED result

(* Mutant: a nested invocation's result is the outermost one's. *)
FoundElemAnywhere ==
  /\ pc \in {"mandatory", "optional"} /\ ElemMatches
  /\ Return(Elements[Current.i])
  /\ UNCHANGED <<asked, id, i, klass, subklass, frames>>

FoundElem ==
  /\ pc \in {"mandatory", "optional"} /\ ElemMatches
  /\ ReturnElem(Elements[Current.i])
  /\ UNCHANGED <<asked, id, i, klass, subklass>>

SkipElem ==
  /\ pc \in {"mandatory", "optional"}
  /\ Current.i <= Len(Elements) /\ ~ ElemMatches
  /\ frames' = WithIndex(Current.i + 1)
  /\ UNCHANGED <<pc, asked, id, i, klass, subklass, result>>

EndOfElems ==
  /\ pc \in {"mandatory", "optional"}
  /\ Current.i > Len(Elements)
  /\ pc' = IF pc = "mandatory" THEN "optional" ELSE "subaction"
  /\ frames' = WithIndex(1)
  /\ UNCHANGED <<asked, id, i, klass, subklass, result>>

SearchNested ==
  /\ pc = "subaction"
  /\ Current.i <= Len(Current.desc.subaction)
  /\ pc' = "mandatory"
  /\ frames' = Append(frames, [desc |-> Current.desc.subaction[Current.i], i |-> 1])
  /\ UNCHANGED <<asked, id, i, klass, subklass, result>>

ElemNotFound ==
  /\ pc = "subaction"
  /\ Current.i > Len(Current.desc.subaction)
  /\ ReturnElem(NULL)
  /\ UNCHANGED <<asked, id, i, klass, subklass>>

-----------------------------------------------------------------------------
LookupStep == \/ Skip \/ FoundKlass \/ FoundSubklass \/ FoundAction \/ NotFound
              \/ FoundElem \/ SkipElem \/ EndOfElems
              \/ SearchNested \/ ElemNotFound

Client == \/ \E mid \in Ids : get_action_def(mid)
          \/ \E desc \in Descs, tid \in TupleIds : get_tuple_elem(desc, tid)
          \/ Collect

Next == Client \/ LookupStep

Spec == Init /\ [][Next]_vars

(* A lookup is a plain call in its caller's thread. *)
FairSpec == Spec /\ WF_vars(LookupStep)

-----------------------------------------------------------------------------
(***************************************************************************)
(* Properties.                                                             *)
(***************************************************************************)
(* The registry that the modules of packing and unpacking look things up   *)
(* in, made from the lists: nested structures left out, lists as sets.     *)
KeyAt(p) == <<Klasses[p[1]].id, Klasses[p[1]].subklasses[p[2]].id, ActionAt(p).id>>

Flat(desc) == [size |-> desc.size, mandatory |-> Items(desc.mandatory),
               optional |-> Items(desc.optional)]

(* The actions that can be found: of two entries of one ID, the first hides*)
(* the second with all that it holds.                                      *)
IsFirstAt(n, list) == \A j \in 1 .. n - 1 : list[j].id # list[n].id

Findable ==
  {p \in Paths : LET k == Klasses[p[1]]
                     s == k.subklasses[p[2]]
                 IN /\ IsFirstAt(p[1], Klasses)
                    /\ IsFirstAt(p[2], k.subklasses)
                    /\ IsFirstAt(p[3], s.actions)}

FlatRegistry ==
  [key \in {KeyAt(p) : p \in Findable} |->
     Flat(ActionAt(CHOOSE p \in Findable : KeyAt(p) = key).desc)]

R == INSTANCE IpctRegistry WITH Registry <- FlatRegistry

(* e is the first entry of list with ID x. *)
IsFirst(e, list, x) ==
  \E n \in 1 .. Len(list) : /\ e = list[n] /\ e.id = x
                            /\ \A j \in 1 .. n - 1 : list[j].id # x

(* The loops of an action's lookup keep their index in their list. *)
IndexOK ==
  /\ id \in Nat /\ i \in Nat \ {0}
  /\ pc \in Levels => i <= Len(List) + 1
  /\ pc \in Levels => asked = "action"
  /\ pc \in ElemLists => asked = "elem"

(* Every variable stays in its range. *)
TypeOK ==
  /\ pc \in Levels \cup ElemLists \cup {"idle", "done"}
  /\ asked \in {"none", "action", "elem"}
  /\ IndexOK
  /\ frames = <<>> <=> asked # "elem"
  /\ \A n \in 1 .. Len(frames) - 1 :
       frames[n + 1].desc = frames[n].desc.subaction[frames[n].i]

(* What has been found so far is, at each level, the first entry with the  *)
(* ID's number, and nothing the loop has passed has it.                    *)
PathIsFirst ==
  /\ pc \in {"subklass", "action"} => IsFirst(klass, Klasses, IdKlass(id))
  /\ pc = "action" => IsFirst(subklass, klass.subklasses, IdSubklass(id))
  /\ pc \in Levels => \A j \in 1 .. i - 1 : List[j].id # Wanted

(* A lookup of an action ends with the first action of the first subclass  *)
(* of the first class that the ID names, or with none because one of the   *)
(* three lists lacks it.                                                   *)
ActionIsFirst ==
  pc = "done" /\ asked = "action" =>
    \/ \E k \in Items(Klasses) :
         /\ IsFirst(k, Klasses, IdKlass(id))
         /\ \/ \E s \in Items(k.subklasses) :
                 /\ IsFirst(s, k.subklasses, IdSubklass(id))
                 /\ \/ \E a \in Items(s.actions) :
                         /\ IsFirst(a, s.actions, IdAction(id))
                         /\ result = a.desc
                    \/ /\ \A a \in Items(s.actions) : a.id # IdAction(id)
                       /\ result = NULL
            \/ /\ \A s \in Items(k.subklasses) : s.id # IdSubklass(id)
               /\ result = NULL
    \/ /\ \A k \in Items(Klasses) : k.id # IdKlass(id)
       /\ result = NULL

(* The inductive invariant of the lookup of an action. *)
PathInv == IndexOK /\ PathIsFirst /\ ActionIsFirst

(* The three searches come to the lookup in a function, and where no action*)
(* has two elements of one ID the recursion through nested structures comes*)
(* to the choice from a set: so packing and unpacking are modelled.  A     *)
(* class, subclass or action declared twice is none but its first entry,   *)
(* even where only the second has what the rest of the ID names.           *)
TupleOf(tid) == [c \in {0} |-> TupleWord(STD, tid)]

LookupIsRegistrys ==
  pc = "done" =>
    IF asked = "action"
    THEN R!get_action_def(id) = IF result = NULL THEN NULL ELSE Flat(result)
    ELSE R!get_tuple_elem(Flat(frames[1].desc), TupleOf(id), 0, 0) = result

(* Every lookup comes back. *)
LookupEnds == pc \notin {"idle", "done"} ~> pc = "done"

-----------------------------------------------------------------------------
(* What the repository says of the lookup and the code does not do.        *)

(* client.c: "not found ? - check sub structures": an element is not found *)
(* only if no structure nested in the action's has it either.              *)
NestedElemsFound ==
  pc = "done" /\ asked = "elem" /\ result = NULL =>
    \A sub \in Items(frames[1].desc.subaction) :
      \A e \in Items(sub.mandatory) \cup Items(sub.optional) : e.id # id

=============================================================================
