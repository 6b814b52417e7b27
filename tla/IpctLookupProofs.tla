-------------------------- MODULE IpctLookupProofs --------------------------
(***************************************************************************)
(* Proofs about IpctLookup: for every choice of tables, the lookup of an   *)
(* action ends with the first entry of the ID at each of the three levels, *)
(* or with none because a list has no such entry.                          *)
(***************************************************************************)
EXTENDS IpctLookup, SequenceTheorems, TLAPS

(* The numbers in an ID are numbers. *)
LEMMA IdNumbers ==
  ASSUME NEW x \in Nat
  PROVE  IdKlass(x) \in Nat /\ IdSubklass(x) \in Nat /\ IdAction(x) \in Nat
BY DEF IdKlass, IdSubklass, IdAction

(* Where an entry matches and none before it did, it is the first.         *)
LEMMA MatchIsFirst ==
  ASSUME NEW list, NEW x, NEW n \in Nat \ {0}, Len(list) \in Nat,
         n <= Len(list), list[n].id = x,
         \A j \in 1 .. n - 1 : list[j].id # x
  PROVE  IsFirst(list[n], list, x) /\ list[n] \in Items(list)
BY DEF IsFirst, Items

(* A first entry is an entry. *)
LEMMA FirstIsItem ==
  ASSUME NEW list, NEW x, NEW e, IsFirst(e, list, x)
  PROVE  e \in Items(list)
BY DEF IsFirst, Items

(* The list being searched has a length.                                   *)
LEMMA ListHasLength ==
  ASSUME PathIsFirst, pc \in Levels
  PROVE  Len(List) \in Nat
<1>1. CASE pc = "klass"
  BY <1>1, ListsAssumption DEF List
<1>2. CASE pc = "subklass"
  <2>1. klass \in Items(Klasses)
    BY <1>2, FirstIsItem DEF PathIsFirst
  <2> QED  BY <1>2, <2>1, ListsAssumption DEF List
<1>3. CASE pc = "action"
  <2>1. klass \in Items(Klasses) /\ subklass \in Items(klass.subklasses)
    BY <1>3, FirstIsItem DEF PathIsFirst
  <2> QED  BY <1>3, <2>1, ListsAssumption DEF List
<1> QED  BY <1>1, <1>2, <1>3 DEF Levels

(* A search that has passed its whole list has found nothing in it.        *)
LEMMA PassedAll ==
  ASSUME NEW list, NEW x, NEW n \in Nat, Len(list) \in Nat, n > Len(list),
         \A j \in 1 .. n - 1 : list[j].id # x
  PROVE  \A e \in Items(list) : e.id # x
BY DEF Items

-----------------------------------------------------------------------------
(* The steps of an element's lookup leave alone what PathInv is about.     *)
LEMMA ElemStepPath ==
  ASSUME PathInv,
         FoundElem \/ SkipElem \/ EndOfElems \/ SearchNested \/ ElemNotFound
  PROVE  PathInv'
<1>1. pc \in ElemLists /\ pc' \in ElemLists \cup {"done"}
  BY DEF FoundElem, SkipElem, EndOfElems, SearchNested, ElemNotFound,
         ReturnElem, Return, ElemLists
<1>2. UNCHANGED <<asked, id, i, klass, subklass>>
  BY DEF FoundElem, SkipElem, EndOfElems, SearchNested, ElemNotFound
<1>3. asked = "elem"
  BY <1>1 DEF PathInv, IndexOK
<1>4. pc' \notin Levels
  BY <1>1 DEF ElemLists, Levels
<1>5. IndexOK'
  BY <1>2, <1>3, <1>4 DEF PathInv, IndexOK
<1>6. PathIsFirst'
  BY <1>4 DEF PathIsFirst, Levels
<1>7. ActionIsFirst'
  BY <1>2, <1>3 DEF ActionIsFirst
<1> QED  BY <1>5, <1>6, <1>7 DEF PathInv

(* A client's call or return starts or ends a lookup. *)
LEMMA ClientPath ==
  ASSUME PathInv, Client
  PROVE  PathInv'
<1>1. ASSUME NEW mid \in Ids, get_action_def(mid)
      PROVE  PathInv'
  <2>1. IndexOK'
    BY <1>1, IdsAssumption, ListsAssumption
    DEF get_action_def, IndexOK, List, Levels, ElemLists
  <2>2. PathIsFirst'
    BY <1>1 DEF get_action_def, PathIsFirst, Levels
  <2>3. ActionIsFirst'
    BY <1>1 DEF get_action_def, ActionIsFirst
  <2> QED  BY <2>1, <2>2, <2>3 DEF PathInv
<1>2. ASSUME NEW desc \in Descs, NEW tid \in TupleIds, get_tuple_elem(desc, tid)
      PROVE  PathInv'
  <2>1. IndexOK'
    BY <1>2, IdsAssumption DEF get_tuple_elem, PathInv, IndexOK, Levels, ElemLists
  <2>2. PathIsFirst'
    BY <1>2 DEF get_tuple_elem, PathIsFirst, Levels
  <2>3. ActionIsFirst'
    BY <1>2 DEF get_tuple_elem, ActionIsFirst
  <2> QED  BY <2>1, <2>2, <2>3 DEF PathInv
<1>3. CASE Collect
  BY <1>3 DEF Collect, PathInv, IndexOK, PathIsFirst, ActionIsFirst, Levels, ElemLists
<1> QED  BY <1>1, <1>2, <1>3 DEF Client

(* One iteration of get_klass, get_subklass or get_action. *)
LEMMA LevelStepPath ==
  ASSUME PathInv,
         Skip \/ FoundKlass \/ FoundSubklass \/ FoundAction \/ NotFound
  PROVE  PathInv'
<1> USE DEF PathInv
<1>0. pc \in Levels /\ asked = "action" /\ asked' = asked /\ id' = id
  BY DEF Skip, FoundKlass, FoundSubklass, FoundAction, NotFound, Levels, IndexOK
<1>a. Len(List) \in Nat /\ i \in Nat \ {0} /\ id \in Nat
  BY <1>0, ListHasLength DEF IndexOK
<1>b. \A j \in 1 .. i - 1 : List[j].id # Wanted
  BY <1>0 DEF PathIsFirst
<1>1. CASE Skip
  <2>1. pc' = pc /\ List' = List /\ Wanted' = Wanted
    BY <1>1, <1>0 DEF Skip, List, Wanted, Levels
  <2>2. IndexOK'
    BY <1>1, <1>0, <1>a, <2>1 DEF Skip, IndexOK
  <2>3. \A j \in 1 .. i' - 1 : List[j].id # Wanted
    BY <1>1, <1>a, <1>b DEF Skip, Matches
  <2>4. PathIsFirst'
    BY <1>1, <1>0, <2>1, <2>3 DEF Skip, PathIsFirst
  <2>5. ActionIsFirst'
    BY <1>0, <2>1 DEF ActionIsFirst, Levels
  <2> QED  BY <2>2, <2>4, <2>5
<1>2. CASE FoundKlass
  <2>1. IsFirst(klass', Klasses, IdKlass(id)) /\ klass' \in Items(Klasses)
    BY <1>2, <1>a, <1>b, MatchIsFirst DEF FoundKlass, Matches, List, Wanted
  <2>2. pc' = "subklass" /\ i' = 1 /\ Len(klass'.subklasses) \in Nat
    BY <1>2, <2>1, ListsAssumption DEF FoundKlass
  <2>3. IndexOK'
    BY <1>0, <1>a, <2>2 DEF IndexOK, List, Levels, ElemLists
  <2>4. PathIsFirst'
    BY <1>0, <2>1, <2>2 DEF PathIsFirst
  <2>5. ActionIsFirst'
    BY <2>2 DEF ActionIsFirst
  <2> QED  BY <2>3, <2>4, <2>5
<1>3. CASE FoundSubklass
  <2>1. IsFirst(klass, Klasses, IdKlass(id)) /\ klass \in Items(Klasses)
    BY <1>3, FirstIsItem DEF FoundSubklass, PathIsFirst
  <2>2. /\ IsFirst(subklass', klass.subklasses, IdSubklass(id))
        /\ subklass' \in Items(klass.subklasses)
    BY <1>3, <1>a, <1>b, MatchIsFirst DEF FoundSubklass, Matches, List, Wanted
  <2>3. /\ pc' = "action" /\ i' = 1 /\ klass' = klass
        /\ Len(subklass'.actions) \in Nat
    BY <1>3, <2>1, <2>2, ListsAssumption DEF FoundSubklass
  <2>4. IndexOK'
    BY <1>0, <1>a, <2>3 DEF IndexOK, List, Levels, ElemLists
  <2>5. PathIsFirst'
    BY <1>0, <2>1, <2>2, <2>3 DEF PathIsFirst
  <2>6. ActionIsFirst'
    BY <2>3 DEF ActionIsFirst
  <2> QED  BY <2>4, <2>5, <2>6
<1>4. CASE FoundAction
  <2>1. /\ IsFirst(klass, Klasses, IdKlass(id)) /\ klass \in Items(Klasses)
        /\ IsFirst(subklass, klass.subklasses, IdSubklass(id))
        /\ subklass \in Items(klass.subklasses)
    BY <1>4, FirstIsItem DEF FoundAction, PathIsFirst
  <2> DEFINE a == subklass.actions[i]
  <2>2. IsFirst(a, subklass.actions, IdAction(id)) /\ a \in Items(subklass.actions)
    BY <1>4, <1>a, <1>b, MatchIsFirst DEF FoundAction, Matches, List, Wanted
  <2>3. pc' = "done" /\ result' = a.desc
    BY <1>4 DEF FoundAction, Return
  <2> HIDE DEF a
  <2>4. ActionIsFirst'
    BY <1>0, <2>1, <2>2, <2>3 DEF ActionIsFirst
  <2>5. IndexOK'
    BY <1>4, <1>a, <2>3 DEF FoundAction, IndexOK, Levels, ElemLists
  <2>6. PathIsFirst'
    BY <2>3 DEF PathIsFirst, Levels
  <2> QED  BY <2>4, <2>5, <2>6
<1>5. CASE NotFound
  <2>1. \A e \in Items(List) : e.id # Wanted
    BY <1>5, <1>a, <1>b, PassedAll DEF NotFound
  <2>2. pc' = "done" /\ result' = NULL /\ i' = i
    BY <1>5 DEF NotFound, Return
  <2>3. ActionIsFirst'
    <3>1. CASE pc = "klass"
      BY <3>1, <1>0, <2>1, <2>2 DEF ActionIsFirst, List, Wanted
    <3>2. CASE pc = "subklass"
      <4>1. IsFirst(klass, Klasses, IdKlass(id)) /\ klass \in Items(Klasses)
        BY <3>2, FirstIsItem DEF PathIsFirst
      <4>2. \A s \in Items(klass.subklasses) : s.id # IdSubklass(id)
        BY <3>2, <2>1 DEF List, Wanted
      <4> QED  BY <1>0, <4>1, <4>2, <2>2 DEF ActionIsFirst
    <3>3. CASE pc = "action"
      <4>1. /\ IsFirst(klass, Klasses, IdKlass(id)) /\ klass \in Items(Klasses)
            /\ IsFirst(subklass, klass.subklasses, IdSubklass(id))
            /\ subklass \in Items(klass.subklasses)
        BY <3>3, FirstIsItem DEF PathIsFirst
      <4>2. \A a \in Items(subklass.actions) : a.id # IdAction(id)
        BY <3>3, <2>1 DEF List, Wanted
      <4> QED  BY <1>0, <4>1, <4>2, <2>2 DEF ActionIsFirst
    <3> QED  BY <3>1, <3>2, <3>3, <1>0 DEF Levels
  <2>4. IndexOK'
    BY <1>0, <1>a, <2>2 DEF IndexOK, Levels, ElemLists
  <2>5. PathIsFirst'
    BY <2>2 DEF PathIsFirst, Levels
  <2> QED  BY <2>3, <2>4, <2>5
<1> QED  BY <1>1, <1>2, <1>3, <1>4, <1>5

-----------------------------------------------------------------------------
(* In every reachable state of a lookup, what is found so far is the first *)
(* entry of its list, for all tables and IDs (get_klass, get_subklass and  *)
(* get_action of client.c).                                                *)
THEOREM PathInvariant == Spec => []PathInv
<1>1. Init => PathInv
  BY DEF Init, PathInv, IndexOK, PathIsFirst, ActionIsFirst, Levels, ElemLists
<1>2. PathInv /\ [Next]_vars => PathInv'
  <2> SUFFICES ASSUME PathInv, [Next]_vars
               PROVE  PathInv'
    OBVIOUS
  <2>1. CASE Client
    BY <2>1, ClientPath
  <2>2. CASE LookupStep
    BY <2>2, LevelStepPath, ElemStepPath DEF LookupStep
  <2>3. CASE UNCHANGED vars
    BY <2>3 DEF vars, PathInv, IndexOK, PathIsFirst, ActionIsFirst, List, Wanted,
                Levels, ElemLists
  <2> QED  BY <2>1, <2>2, <2>3 DEF Next
<1> QED  BY <1>1, <1>2, PTL DEF Spec

(* The lookup of an action returns the first match, or nothing because     *)
(* there is none, whatever the tables list and in whatever order.          *)
THEOREM FirstMatch == Spec => []ActionIsFirst
<1>1. PathInv => ActionIsFirst
  BY DEF PathInv
<1> QED  BY <1>1, PathInvariant, PTL

-----------------------------------------------------------------------------
(***************************************************************************)
(* The stack of get_tuple_elem's invocations.                              *)
(***************************************************************************)
(* Frames over descs in D. *)
Frames(D) == Seq([desc : D, i : Nat \ {0}])

FrameDescs == {frames[n].desc : n \in 1 .. Len(frames)}

(* The frames are a sequence of records. *)
Stacked == frames \in Frames(FrameDescs)

(* The desc of every frame but the outermost is the one that the frame     *)
(* below it has reached.                                                   *)
Linked == \A n \in 1 .. Len(frames) - 1 :
            frames[n + 1].desc = frames[n].desc.subaction[frames[n].i]

(* Which lists each kind of call goes through, and that only the lookup of *)
(* an element has frames.                                                  *)
Asked == /\ asked \in {"none", "action", "elem"}
         /\ asked = "none"   => pc = "idle"
         /\ asked = "action" => pc \in Levels \cup {"done"}
         /\ asked = "elem"   => pc \in ElemLists \cup {"done"}
         /\ frames = <<>> <=> asked # "elem"

StackInv == Asked /\ Stacked /\ Linked

(* The items of a sequence over a set are in the set. *)
LEMMA ItemOfSeq ==
  ASSUME NEW S, NEW s \in Seq(S)
  PROVE  \A k \in 1 .. Len(s) : s[k] \in S
OBVIOUS

(* The front of a sequence. *)
LEMMA FrontOf ==
  ASSUME NEW S, NEW s \in Seq(S), NEW n \in Nat, n <= Len(s)
  PROVE  /\ SubSeq(s, 1, n) \in Seq(S) /\ Len(SubSeq(s, 1, n)) = n
         /\ \A k \in 1 .. n : SubSeq(s, 1, n)[k] = s[k]
<1>1. \A k \in 1 .. n : s[k] \in S
  OBVIOUS
<1>2. 1 \in Int /\ n \in Int /\ n - 1 + 1 = n /\ (1 <= n \/ n = 0)
  OBVIOUS
<1>3. /\ SubSeq(s, 1, n) \in Seq(S)
      /\ Len(SubSeq(s, 1, n)) = IF 1 <= n THEN n - 1 + 1 ELSE 0
      /\ \A k \in 1 .. n - 1 + 1 : SubSeq(s, 1, n)[k] = s[1 + k - 1]
  BY <1>1, <1>2, SubSeqProperties
<1>4. \A k \in 1 .. n : 1 + k - 1 = k
  OBVIOUS
<1> QED  BY <1>2, <1>3, <1>4

(* A frame with another index. *)
AtIndex(f, n) == [f EXCEPT !.i = n]

(* A frame at another index is a frame, of the same descriptor. *)
LEMMA AtIndexFrame ==
  ASSUME NEW D, NEW f \in [desc : D, i : Nat \ {0}], NEW n \in Nat \ {0}
  PROVE  /\ AtIndex(f, n) \in [desc : D, i : Nat \ {0}]
         /\ AtIndex(f, n).desc = f.desc /\ AtIndex(f, n).i = n
BY DEF AtIndex

(* The top frame of a stack with another index. *)
TopAt(s, n) == [s EXCEPT ![Len(s)] = AtIndex(s[Len(s)], n)]

(* Moving the top frame's index changes nothing else of the stack. *)
LEMMA TopIndex ==
  ASSUME NEW D, NEW s \in Frames(D), s # <<>>, NEW n \in Nat \ {0},
         NEW t, t = TopAt(s, n)
  PROVE  /\ t \in Frames(D) /\ Len(t) = Len(s) /\ t # <<>>
         /\ \A k \in 1 .. Len(s) : /\ t[k].desc = s[k].desc
                                   /\ k # Len(s) => t[k].i = s[k].i
         /\ t[Len(s)].i = n
<1> DEFINE len == Len(s)
           top == AtIndex(s[len], n)
<1>1. s \in Seq([desc : D, i : Nat \ {0}]) /\ len \in Nat \ {0}
  BY DEF Frames
<1>2. \A k \in 1 .. len : s[k] \in [desc : D, i : Nat \ {0}]
  BY <1>1, ItemOfSeq
<1>3. /\ top \in [desc : D, i : Nat \ {0}]
      /\ top.desc = s[len].desc /\ top.i = n
  BY <1>1, <1>2, AtIndexFrame
<1> HIDE DEF top
<1>4. Len(t) = len /\ DOMAIN t = 1 .. len
  BY <1>1 DEF top, TopAt
<1>5. \A k \in 1 .. len : t[k] = IF k = len THEN top ELSE s[k]
  BY <1>1 DEF top, TopAt
<1>6. t \in Seq([desc : D, i : Nat \ {0}])
  BY <1>1, <1>3 DEF top, TopAt
<1>7. t \in Frames(D) /\ t # <<>>
  BY <1>1, <1>4, <1>6 DEF Frames
<1>8. \A k \in 1 .. len : /\ t[k].desc = s[k].desc
                          /\ k # len => t[k].i = s[k].i
  BY <1>3, <1>5
<1>9. t[len].i = n
  BY <1>1, <1>3, <1>5
<1> QED  BY <1>4, <1>7, <1>8, <1>9

(* Frames are frames over their own descs. *)
LEMMA OwnDescs ==
  ASSUME NEW D, NEW s \in Frames(D)
  PROVE  s \in Frames({s[n].desc : n \in 1 .. Len(s)})
<1> DEFINE Own == {s[n].desc : n \in 1 .. Len(s)}
<1>1. s \in Seq([desc : D, i : Nat \ {0}])
  BY DEF Frames
<1>2. \A k \in 1 .. Len(s) : s[k] \in [desc : D, i : Nat \ {0}]
  BY <1>1, ItemOfSeq
<1>3. \A k \in 1 .. Len(s) : s[k] \in [desc : Own, i : Nat \ {0}]
  BY <1>2
<1>4. Len(s) \in Nat /\ s = [k \in 1 .. Len(s) |-> s[k]]
  BY <1>1
<1>5. s \in Seq([desc : Own, i : Nat \ {0}])
  <2> DEFINE R1 == [desc : Own, i : Nat \ {0}]
  <2> HIDE DEF R1
  <2>1. \A k \in 1 .. Len(s) : s[k] \in R1
    BY <1>3 DEF R1
  <2>2. s \in Seq(R1)
    BY <1>4, <2>1
  <2> QED  BY <2>2 DEF R1
<1> QED  BY <1>5 DEF Frames

(* A stack whose top has another index is a stack of the same descs. *)
LEMMA TopMoved ==
  ASSUME Stacked, Linked, frames # <<>>, NEW n \in Nat \ {0},
         frames' = WithIndex(n)
  PROVE  /\ Stacked' /\ Linked' /\ frames' # <<>> /\ Len(frames') = Len(frames)
         /\ frames'[1].desc = frames[1].desc
         /\ Len(frames) = 1 => frames'[1].i = n
<1>1. frames \in Frames(FrameDescs) /\ Len(frames) \in Nat \ {0}
  BY DEF Stacked, Frames
<1>2. /\ frames' \in Frames(FrameDescs) /\ Len(frames') = Len(frames)
      /\ \A k \in 1 .. Len(frames) : /\ frames'[k].desc = frames[k].desc
                                     /\ k # Len(frames) => frames'[k].i = frames[k].i
      /\ frames'[Len(frames)].i = n /\ frames' # <<>>
  <2>1. frames' = TopAt(frames, n)
    BY Zenon DEF WithIndex, TopAt, AtIndex
  <2> QED  BY <1>1, <2>1, TopIndex
<1>3. Stacked'
  BY <1>2, OwnDescs DEF Stacked, FrameDescs
<1>4. Linked'
  BY <1>1, <1>2 DEF Linked
<1> QED  BY <1>1, <1>2, <1>3, <1>4

(* A nested invocation goes on top. *)
LEMMA Pushed ==
  ASSUME Stacked, Linked, frames # <<>>,
         frames' = Append(frames, [desc |-> Current.desc.subaction[Current.i], i |-> 1])
  PROVE  /\ Stacked' /\ Linked' /\ Len(frames') = Len(frames) + 1
         /\ frames' # <<>>
         /\ \A k \in 1 .. Len(frames) : frames'[k] = frames[k]
<1> DEFINE len == Len(frames)
           sub == Current.desc.subaction[Current.i]
           Old == [desc : FrameDescs, i : Nat \ {0}]
           New == [desc : FrameDescs', i : Nat \ {0}]
           top == [desc |-> sub, i |-> 1]
<1>1. frames \in Seq(Old) /\ len \in Nat \ {0}
  BY DEF Stacked, Frames
<1>2. frames' = Append(frames, top)
  OBVIOUS
<1>t. top.desc = sub /\ Current = frames[len]
  BY DEF Current
<1>w. \A k \in 1 .. len : frames[k] \in Old
  BY <1>1, ItemOfSeq
<1> HIDE DEF Old, top
<1>3. /\ Len(frames') = len + 1
      /\ \A k \in 1 .. len : frames'[k] = frames[k]
      /\ frames'[len + 1] = top
      /\ DOMAIN frames' = 1 .. len + 1
  BY <1>1, <1>2
<1>4. FrameDescs' = FrameDescs \cup {sub}
  BY <1>1, <1>3, <1>t DEF FrameDescs
<1>5. frames \in Seq(New) /\ top \in New
  <2>1. \A k \in 1 .. len : frames[k] \in New
    BY <1>w, <1>4 DEF Old
  <2>2. top \in New
    BY <1>4 DEF top
  <2> HIDE DEF New
  <2> QED  BY <1>1, <2>1, <2>2
<1>6. frames' \in Seq(New)
  <2> HIDE DEF New
  <2> QED  BY <1>2, <1>5
<1>7. Linked'
  BY <1>1, <1>3, <1>t DEF Linked
<1> QED  BY <1>1, <1>3, <1>6, <1>7 DEF Stacked, Frames

Below == [SubSeq(frames, 1, Len(frames) - 1) EXCEPT ![Len(frames) - 1].i = @ + 1]

(* A nested invocation returns to the one below it. *)
LEMMA Popped ==
  ASSUME Stacked, Linked, frames # <<>>, Len(frames) # 1,
         frames' = Below
  PROVE  /\ Stacked' /\ Linked' /\ frames' # <<>>
         /\ Len(frames') = Len(frames) - 1
         /\ frames'[1].desc = frames[1].desc
<1> DEFINE n == Len(frames) - 1
           below == SubSeq(frames, 1, n)
           Old == [desc : FrameDescs, i : Nat \ {0}]
<1>1. frames \in Seq(Old) /\ n \in Nat \ {0} /\ n <= Len(frames) /\ n + 1 = Len(frames)
  BY DEF Stacked, Frames
<1>2. /\ below \in Seq(Old) /\ Len(below) = n
      /\ \A k \in 1 .. n : below[k] = frames[k]
  <2> HIDE DEF Old, n
  <2> QED  BY <1>1, FrontOf
<1>3. below[n] \in Old /\ below # <<>>
  <2> HIDE DEF Old, n, below
  <2> QED  BY <1>1, <1>2
<1>4. below[n].i + 1 \in Nat \ {0}
  BY <1>3
<1>5. frames' = TopAt(below, below[n].i + 1)
  <2>1. frames' = [below EXCEPT ![n] = AtIndex(below[n], below[n].i + 1)]
    BY Zenon DEF Below, AtIndex
  <2> HIDE DEF below, n, Old
  <2> QED  BY <1>2, <2>1, Zenon DEF TopAt
<1>6. below \in Frames(FrameDescs)
  BY <1>2 DEF Frames
<1> HIDE DEF below
<1>7. /\ frames' \in Frames(FrameDescs) /\ Len(frames') = n /\ frames' # <<>>
      /\ \A k \in 1 .. n : /\ frames'[k].desc = below[k].desc
                           /\ k # n => frames'[k].i = below[k].i
  <2>1. /\ frames' \in Frames(FrameDescs) /\ Len(frames') = Len(below) /\ frames' # <<>>
        /\ \A k \in 1 .. Len(below) :
             /\ frames'[k].desc = below[k].desc
             /\ k # Len(below) => frames'[k].i = below[k].i
    <3> HIDE DEF n
    <3> QED  BY <1>3, <1>4, <1>5, <1>6, TopIndex
  <2> QED  BY <1>2, <2>1
<1>8. \A k \in 1 .. n : /\ frames'[k].desc = frames[k].desc
                        /\ k # n => frames'[k].i = frames[k].i
  BY <1>2, <1>7
<1>9. Stacked'
  BY <1>7, OwnDescs DEF Stacked, FrameDescs
<1>10. Linked'
  <2> HIDE DEF Old, n
  <2> QED  BY <1>1, <1>7, <1>8 DEF Linked
<1>11. frames'[1].desc = frames[1].desc
  <2> HIDE DEF Old, n
  <2> QED  BY <1>1, <1>8
<1>12. Len(frames') = Len(frames) - 1
  BY <1>7
<1> QED  BY <1>7, <1>9, <1>10, <1>11, <1>12

(* The top of a stack has an index. *)
LEMMA TopFrame ==
  ASSUME Stacked, frames # <<>>
  PROVE  Current.i \in Nat \ {0} /\ Len(frames) \in Nat \ {0}
<1> DEFINE Old == [desc : FrameDescs, i : Nat \ {0}]
<1>1. frames \in Seq(Old)
  BY DEF Stacked, Frames
<1>2. Len(frames) \in Nat \ {0} /\ frames[Len(frames)] \in Old
  <2> HIDE DEF Old
  <2> QED  BY <1>1
<1> QED  BY <1>2 DEF Current

(* No invocation is a stack, too. *)
LEMMA EmptyStack ==
  ASSUME frames' = <<>>
  PROVE  Stacked' /\ Linked'
BY DEF Stacked, Linked, FrameDescs, Frames

(* A call, a step or a return keeps the stack in order. *)
LEMMA StackStep ==
  ASSUME StackInv, LookupStep
  PROVE  StackInv'
<1>1. CASE Skip \/ FoundKlass \/ FoundSubklass \/ FoundAction \/ NotFound
  <2>1. pc \in Levels /\ pc' \in Levels \cup {"done"} /\ UNCHANGED <<asked, frames>>
    BY <1>1 DEF Skip, FoundKlass, FoundSubklass, FoundAction, NotFound, Return, Levels
  <2>2. asked = "action"
    BY <2>1 DEF StackInv, Asked, Levels, ElemLists
  <2> QED  BY <2>1, <2>2 DEF StackInv, Asked, Stacked, Linked, FrameDescs
<1>2. CASE SkipElem \/ EndOfElems
  <2>1. /\ pc \in ElemLists /\ pc' \in ElemLists /\ asked' = asked /\ frames # <<>>
        /\ asked = "elem"
    BY <1>2 DEF SkipElem, EndOfElems, StackInv, Asked, ElemLists, Levels
  <2>2. PICK n \in Nat \ {0} : frames' = WithIndex(n)
    <3>1. Current.i + 1 \in Nat \ {0}
      BY <2>1, TopFrame DEF StackInv
    <3> QED  BY <1>2, <3>1 DEF SkipElem, EndOfElems
  <2>3. Stacked' /\ Linked' /\ frames' # <<>>
    BY <2>1, <2>2, TopMoved DEF StackInv
  <2> QED  BY <2>1, <2>3 DEF StackInv, Asked
<1>3. CASE SearchNested
  <2>1. /\ pc \in ElemLists /\ pc' \in ElemLists /\ asked' = asked /\ frames # <<>>
        /\ asked = "elem"
    BY <1>3 DEF SearchNested, StackInv, Asked, ElemLists, Levels
  <2>2. Stacked' /\ Linked' /\ frames' # <<>>
    BY <1>3, <2>1, Pushed DEF SearchNested, StackInv
  <2> QED  BY <2>1, <2>2 DEF StackInv, Asked
<1>4. ASSUME NEW e, ReturnElem(e), pc \in ElemLists, asked' = asked
      PROVE  StackInv'
  <2>1. asked = "elem" /\ frames # <<>>
    BY <1>4 DEF StackInv, Asked, ElemLists, Levels
  <2>2. CASE Len(frames) = 1
    <3>1. pc' = "done" /\ frames' = frames
      BY <1>4, <2>2 DEF ReturnElem, Return
    <3> QED  BY <1>4, <2>1, <3>1 DEF StackInv, Asked, Stacked, Linked, FrameDescs
  <2>3. CASE Len(frames) # 1
    <3>1. pc' = "subaction" /\ frames' = Below
      BY <1>4, <2>3 DEF ReturnElem, Below
    <3>2. Stacked' /\ Linked' /\ frames' # <<>>
      BY <2>1, <2>3, <3>1, Popped DEF StackInv
    <3> QED  BY <1>4, <2>1, <3>1, <3>2 DEF StackInv, Asked, ElemLists
  <2> QED  BY <2>2, <2>3
<1>5. CASE FoundElem \/ ElemNotFound
  BY <1>4, <1>5 DEF FoundElem, ElemNotFound, ElemLists
<1> QED  BY <1>1, <1>2, <1>3, <1>5 DEF LookupStep

(* A call starts with an empty stack, and its end leaves one. *)
LEMMA StackClient ==
  ASSUME StackInv, Client
  PROVE  StackInv'
<1>1. ASSUME NEW mid \in Ids, get_action_def(mid)
      PROVE  StackInv'
  BY <1>1 DEF get_action_def, StackInv, Asked, Stacked, Linked, FrameDescs,
              Levels, ElemLists
<1>2. ASSUME NEW desc \in Descs, NEW tid \in TupleIds, get_tuple_elem(desc, tid)
      PROVE  StackInv'
  <2> DEFINE f == [desc |-> desc, i |-> 1]
  <2>1. frames' = <<f>> /\ pc' = "mandatory" /\ asked' = "elem"
    BY <1>2 DEF get_tuple_elem
  <2>2. f \in [desc : {desc}, i : Nat \ {0}] /\ f.desc = desc
    OBVIOUS
  <2>3. <<f>> \in Frames({desc})
    <3> DEFINE R1 == [desc : {desc}, i : Nat \ {0}]
    <3>1. f \in R1
      BY <2>2
    <3> HIDE DEF R1, f
    <3>2. <<f>> \in Seq(R1)
      BY <3>1
    <3> QED  BY <3>2 DEF Frames, R1
  <2>4. Stacked'
    BY <2>1, <2>3, OwnDescs DEF Stacked, FrameDescs
  <2> HIDE DEF f
  <2>5. Linked' /\ frames' # <<>>
    BY <2>1 DEF Linked
  <2> QED  BY <2>1, <2>4, <2>5 DEF StackInv, Asked, ElemLists
<1>3. CASE Collect
  <2>1. frames' = <<>> /\ pc' = "idle" /\ asked' = "none"
    BY <1>3 DEF Collect
  <2>2. Stacked' /\ Linked'
    BY <2>1, EmptyStack
  <2> QED  BY <2>1, <2>2 DEF StackInv, Asked
<1> QED  BY <1>1, <1>2, <1>3 DEF Client

(* In every reachable state the frames are the chain of descriptors from   *)
(* the one asked for down to the nested one being searched.                *)
THEOREM StackInvariant == Spec => []StackInv
<1>1. Init => StackInv
  BY DEF Init, StackInv, Asked, Stacked, Linked, FrameDescs, Frames, Levels, ElemLists
<1>2. StackInv /\ [Next]_vars => StackInv'
  <2> SUFFICES ASSUME StackInv, [Next]_vars
               PROVE  StackInv'
    OBVIOUS
  <2>1. CASE Client
    BY <2>1, StackClient
  <2>2. CASE LookupStep
    BY <2>2, StackStep
  <2>3. CASE UNCHANGED vars
    BY <2>3 DEF vars, StackInv, Asked, Stacked, Linked, FrameDescs
  <2> QED  BY <2>1, <2>2, <2>3 DEF Next
<1> QED  BY <1>1, <1>2, PTL DEF Spec

(* Every variable of the lookup stays in its range, and its frames are the *)
(* recursion of get_tuple_elem through the nested structures.              *)
THEOREM LookupTypes == Spec => []TypeOK
<1>1. PathInv /\ StackInv => TypeOK
  BY DEF PathInv, StackInv, Asked, Linked, TypeOK
<1> QED  BY <1>1, PathInvariant, StackInvariant, PTL

-----------------------------------------------------------------------------
(***************************************************************************)
(* The outermost invocation: only what it finds itself is returned.        *)
(***************************************************************************)
(* The first n - 1 entries of list have other IDs than the one sought. *)
Passed(list, n) == \A j \in 1 .. n - 1 : list[j].id # id

Without(list) == \A e \in Items(list) : e.id # id

(* What the outermost invocation has passed so far, and what it returned.  *)
Outermost(d, n) ==
  /\ Len(frames) = 1 /\ pc = "mandatory" => Passed(d.mandatory, n)
  /\ Len(frames) = 1 /\ pc = "optional" =>
       Without(d.mandatory) /\ Passed(d.optional, n)
  /\ pc = "subaction" \/ (pc \in ElemLists /\ Len(frames) # 1) =>
       Without(d.mandatory) /\ Without(d.optional)
  /\ pc = "done" => \/ /\ result \in Items(d.mandatory) \cup Items(d.optional)
                       /\ result.id = id
                    \/ /\ Without(d.mandatory) /\ Without(d.optional)
                       /\ result = NULL

OuterInv ==
  asked = "elem" => /\ frames[1].desc \in Descs /\ id \in TupleIds
                    /\ Outermost(frames[1].desc, frames[1].i)

(* A nested invocation, or its return, leaves what the outermost knows.    *)
LEMMA OuterStep ==
  ASSUME StackInv, OuterInv, LookupStep
  PROVE  OuterInv'
<1>1. CASE asked # "elem"
  <2>1. pc \in Levels /\ asked' = asked
    BY <1>1 DEF StackInv, Asked, LookupStep, Skip, FoundKlass, FoundSubklass,
       FoundAction, NotFound, FoundElem, SkipElem, EndOfElems, SearchNested,
       ElemNotFound, Levels, ElemLists
  <2> QED  BY <1>1, <2>1 DEF OuterInv
<1> SUFFICES ASSUME asked = "elem" PROVE OuterInv'
  BY <1>1
<1> DEFINE d == frames[1].desc
           n == frames[1].i
<1>2. /\ frames # <<>> /\ Stacked /\ Linked /\ pc \in ElemLists
      /\ d \in Descs /\ id \in TupleIds /\ Outermost(d, n)
      /\ FoundElem \/ SkipElem \/ EndOfElems \/ SearchNested \/ ElemNotFound
  BY DEF StackInv, Asked, OuterInv, LookupStep, Skip, FoundKlass, FoundSubklass,
     FoundAction, NotFound, FoundElem, SkipElem, EndOfElems, SearchNested,
     ElemNotFound, Levels, ElemLists
<1>3. /\ Len(frames) \in Nat \ {0}
      /\ Current.i \in Nat \ {0}
      /\ Len(frames) = 1 => Current.desc = d /\ Current.i = n
  BY <1>2, TopFrame DEF Current
<1>4. Len(d.mandatory) \in Nat /\ Len(d.optional) \in Nat
  BY <1>2, ElemListsAssumption
<1>5. asked' = asked /\ id' = id
  BY <1>2 DEF FoundElem, SkipElem, EndOfElems, SearchNested, ElemNotFound
<1>6. SUFFICES d' = d /\ Outermost(d, n)'
  BY <1>2, <1>5 DEF OuterInv
<1>7. CASE SkipElem
  <2>1. /\ d' = d /\ Len(frames') = Len(frames) /\ pc' = pc
        /\ Len(frames) = 1 => n' = n + 1
    BY <1>2, <1>3, <1>7, TopMoved DEF SkipElem
  <2>2. Len(frames) = 1 => Elements[n].id # id
    BY <1>3, <1>7 DEF SkipElem, ElemMatches
  <2>3. (pc \in {"mandatory", "optional"} /\ n \in Nat) \/ Len(frames) # 1
    BY <1>3, <1>7 DEF SkipElem
  <2> HIDE DEF d, n
  <2>4. Len(frames) = 1 /\ pc = "mandatory" => Passed(d.mandatory, n + 1)
    BY <1>2, <1>3, <2>2, <2>3 DEF Outermost, Passed, Elements
  <2>5. Len(frames) = 1 /\ pc = "optional" => Passed(d.optional, n + 1)
    BY <1>2, <1>3, <2>2, <2>3 DEF Outermost, Passed, Elements
  <2> QED  BY <1>2, <1>5, <1>7, <2>1, <2>4, <2>5 DEF Outermost, ElemLists, Passed, Without
<1>8. CASE EndOfElems
  <2>1. /\ d' = d /\ Len(frames') = Len(frames)
        /\ \/ pc = "mandatory" /\ pc' = "optional"
           \/ pc = "optional" /\ pc' = "subaction"
        /\ Len(frames) = 1 => n' = 1
    BY <1>2, <1>3, <1>8, TopMoved DEF EndOfElems
  <2>2. Len(frames) = 1 => n > Len(Elements)
    BY <1>3, <1>8 DEF EndOfElems
  <2> HIDE DEF d, n
  <2>3. Len(frames) = 1 /\ pc = "mandatory" => Without(d.mandatory)
    BY <1>2, <1>3, <1>4, <2>2, PassedAll DEF Outermost, Passed, Elements, Without
  <2>4. Len(frames) = 1 /\ pc = "optional" => Without(d.optional)
    BY <1>2, <1>3, <1>4, <2>2, PassedAll DEF Outermost, Passed, Elements, Without
  <2>5. Len(frames) = 1 /\ pc' = "optional" => Passed(d.optional, 1)
    BY DEF Passed
  <2> QED
    BY <1>2, <1>5, <2>1, <2>3, <2>4, <2>5 DEF Outermost, ElemLists, Passed, Without
<1>9. CASE SearchNested
  <2>1. /\ d' = d /\ Len(frames') = Len(frames) + 1 /\ pc = "subaction"
        /\ pc' = "mandatory"
    BY <1>2, <1>3, <1>9, Pushed DEF SearchNested
  <2> HIDE DEF d, n
  <2>2. Len(frames') # 1
    BY <1>3, <2>1
  <2> QED  BY <1>2, <1>5, <2>1, <2>2 DEF Outermost, ElemLists, Passed, Without
<1>10. ASSUME NEW e, ReturnElem(e),
              Len(frames) = 1 =>
                \/ (e \in Items(d.mandatory) \cup Items(d.optional) /\ e.id = id)
                \/ Without(d.mandatory) /\ Without(d.optional) /\ e = NULL,
              Len(frames) # 1 => Without(d.mandatory) /\ Without(d.optional)
       PROVE  d' = d /\ Outermost(d, n)'
  <2>1. CASE Len(frames) = 1
    <3>1. pc' = "done" /\ frames' = frames /\ result' = e
      BY <1>10, <2>1 DEF ReturnElem, Return
    <3>2. d' = d
      BY <3>1
    <3> HIDE DEF d, n
    <3> QED  BY <1>5, <1>10, <2>1, <3>1, <3>2 DEF Outermost, ElemLists, Passed, Without
  <2>2. CASE Len(frames) # 1
    <3>1. pc' = "subaction" /\ frames' = Below
      BY <1>10, <2>2 DEF ReturnElem, Below
    <3>2. d' = d
      BY <1>2, <2>2, <3>1, Popped
    <3> HIDE DEF d, n
    <3> QED  BY <1>5, <1>10, <2>2, <3>1, <3>2 DEF Outermost, ElemLists, Passed, Without
  <2> QED  BY <2>1, <2>2
<1>11. CASE FoundElem
  <2> DEFINE e == Elements[Current.i]
  <2>1. ReturnElem(e) /\ pc \in {"mandatory", "optional"} /\ ElemMatches
    BY <1>11 DEF FoundElem
  <2>2. Len(frames) # 1 => Without(d.mandatory) /\ Without(d.optional)
    BY <1>2 DEF Outermost
  <2>3. ASSUME Len(frames) = 1
        PROVE  e \in Items(d.mandatory) \cup Items(d.optional) /\ e.id = id
    <3> HIDE DEF d, n
    <3>1. Elements = (IF pc = "mandatory" THEN d.mandatory ELSE d.optional)
      BY <1>3, <2>3 DEF Elements
    <3>2. Current.i \in 1 .. Len(Elements) /\ e.id = id
      BY <1>3, <1>4, <2>1, <3>1 DEF ElemMatches
    <3> QED  BY <3>1, <3>2 DEF Items
  <2> HIDE DEF e, d, n
  <2> QED  BY <1>10, <2>1, <2>2, <2>3
<1>12. CASE ElemNotFound
  <2>1. ReturnElem(NULL) /\ pc = "subaction"
    BY <1>12 DEF ElemNotFound
  <2>2. Without(d.mandatory) /\ Without(d.optional)
    BY <1>2, <2>1 DEF Outermost
  <2> HIDE DEF d, n
  <2> QED  BY <1>10, <2>1, <2>2
<1> QED  BY <1>2, <1>7, <1>8, <1>9, <1>11, <1>12

(* In every reachable state, what the outermost invocation has passed is   *)
(* what it does not return, for all tables (get_tuple_elem of client.c).   *)
THEOREM OuterInvariant == Spec => []OuterInv
<1>1. Init => OuterInv
  BY DEF Init, OuterInv
<1>2. StackInv /\ OuterInv /\ [Next]_vars => OuterInv'
  <2> SUFFICES ASSUME StackInv, OuterInv, [Next]_vars
               PROVE  OuterInv'
    OBVIOUS
  <2>1. ASSUME NEW mid \in Ids, get_action_def(mid)
        PROVE  OuterInv'
    BY <2>1 DEF get_action_def, OuterInv
  <2>2. ASSUME NEW desc \in Descs, NEW tid \in TupleIds, get_tuple_elem(desc, tid)
        PROVE  OuterInv'
    <3>1. /\ pc' = "mandatory" /\ id' = tid
          /\ frames'[1].desc = desc /\ frames'[1].i = 1
      BY <2>2 DEF get_tuple_elem
    <3>2. Len(frames') = 1
      BY <2>2 DEF get_tuple_elem
    <3> QED  BY <3>1, <3>2 DEF OuterInv, Outermost, Passed
  <2>3. CASE Collect
    BY <2>3 DEF Collect, OuterInv
  <2>4. CASE LookupStep
    BY <2>4, OuterStep
  <2>5. CASE UNCHANGED vars
    BY <2>5 DEF vars, OuterInv, Outermost, Passed, Without
  <2> QED  BY <2>1, <2>2, <2>3, <2>4, <2>5 DEF Next, Client
<1> QED  BY <1>1, <1>2, StackInvariant, PTL DEF Spec

-----------------------------------------------------------------------------
(***************************************************************************)
(* The lookups of the registry.                                            *)
(***************************************************************************)
(* No two elements of an action have one ID (abi/message.h: an ID is       *)
(* unique), and neither they nor descriptors are the null pointer.         *)
UniqueElems ==
  /\ \A d \in Descs : \A e, f \in Items(d.mandatory) \cup Items(d.optional) :
       /\ e.id = f.id => e = f
       /\ e # NULL
  /\ NULL \notin Descs

(* A tuple's ID has thirteen bits. *)
IdsFit == TupleIds \subseteq 0 .. IPCT_TUPLE_MAX_ID

(* The places of the tables. *)
LEMMA PathPlaces ==
  ASSUME NEW p
  PROVE  p \in Paths <=>
           \E k \in 1 .. Len(Klasses) :
             \E s \in 1 .. Len(Klasses[k].subklasses) :
               \E n \in 1 .. Len(Klasses[k].subklasses[s].actions) :
                 p = <<k, s, n>>
BY DEF Paths, ActionsOf

(* Of two numbers one is before the other. *)
LEMMA FirstPlace ==
  ASSUME NEW list, NEW n \in Nat \ {0}, NEW m \in Nat \ {0},
         IsFirstAt(n, list), IsFirstAt(m, list), list[n].id = list[m].id
  PROVE  n = m
<1>1. ~ (n \in 1 .. m - 1) /\ ~ (m \in 1 .. n - 1)
  BY DEF IsFirstAt
<1> QED  BY <1>1

(* Findable places of one key are one place. *)
LEMMA KeysUnique ==
  ASSUME NEW p \in Findable, NEW q \in Findable, KeyAt(p) = KeyAt(q)
  PROVE  p = q
<1>0. /\ p \in Paths /\ q \in Paths
      /\ IsFirstAt(p[1], Klasses) /\ IsFirstAt(q[1], Klasses)
      /\ IsFirstAt(p[2], Klasses[p[1]].subklasses)
      /\ IsFirstAt(q[2], Klasses[q[1]].subklasses)
      /\ IsFirstAt(p[3], Klasses[p[1]].subklasses[p[2]].actions)
      /\ IsFirstAt(q[3], Klasses[q[1]].subklasses[q[2]].actions)
  BY DEF Findable
<1>1. PICK k \in 1 .. Len(Klasses) :
        \E s \in 1 .. Len(Klasses[k].subklasses) :
          \E n \in 1 .. Len(Klasses[k].subklasses[s].actions) : p = <<k, s, n>>
  BY <1>0, PathPlaces
<1>2. PICK s \in 1 .. Len(Klasses[k].subklasses) :
        \E n \in 1 .. Len(Klasses[k].subklasses[s].actions) : p = <<k, s, n>>
  BY <1>1
<1>3. PICK n \in 1 .. Len(Klasses[k].subklasses[s].actions) : p = <<k, s, n>>
  BY <1>2
<1>4. PICK kq \in 1 .. Len(Klasses) :
        \E sq \in 1 .. Len(Klasses[kq].subklasses) :
          \E nq \in 1 .. Len(Klasses[kq].subklasses[sq].actions) : q = <<kq, sq, nq>>
  BY <1>0, PathPlaces
<1>5. PICK sq \in 1 .. Len(Klasses[kq].subklasses) :
        \E nq \in 1 .. Len(Klasses[kq].subklasses[sq].actions) : q = <<kq, sq, nq>>
  BY <1>4
<1>6. PICK nq \in 1 .. Len(Klasses[kq].subklasses[sq].actions) : q = <<kq, sq, nq>>
  BY <1>5
<1>7. /\ Klasses[k].id = Klasses[kq].id
      /\ Klasses[k].subklasses[s].id = Klasses[kq].subklasses[sq].id
      /\ Klasses[k].subklasses[s].actions[n].id
           = Klasses[kq].subklasses[sq].actions[nq].id
  BY <1>3, <1>6 DEF KeyAt, ActionAt
<1>8. p[1] = k /\ p[2] = s /\ p[3] = n /\ q[1] = kq /\ q[2] = sq /\ q[3] = nq
  BY <1>3, <1>6
<1>9. k = kq
  BY <1>0, <1>7, <1>8, FirstPlace
<1>10. s = sq
  BY <1>0, <1>7, <1>8, <1>9, FirstPlace
<1>11. n = nq
  BY <1>0, <1>7, <1>8, <1>9, <1>10, FirstPlace
<1> QED  BY <1>3, <1>6, <1>9, <1>10, <1>11

(* The registry at the key of a findable place has its descriptor. *)
LEMMA RegistryAt ==
  ASSUME NEW p \in Findable
  PROVE  /\ KeyAt(p) \in DOMAIN FlatRegistry
         /\ FlatRegistry[KeyAt(p)] = Flat(ActionAt(p).desc)
<1> DEFINE q == CHOOSE q \in Findable : KeyAt(q) = KeyAt(p)
<1>1. q \in Findable /\ KeyAt(q) = KeyAt(p)
  OBVIOUS
<1>2. q = p
  <2> HIDE DEF q
  <2> QED  BY <1>1, KeysUnique
<1>3. KeyAt(p) \in {KeyAt(r) : r \in Findable}
  OBVIOUS
<1> QED  BY <1>2, <1>3 DEF FlatRegistry

(* The first entry of an ID has the ID. *)
LEMMA FirstHasId ==
  ASSUME NEW e, NEW list, NEW x, IsFirst(e, list, x)
  PROVE  e.id = x /\ e \in Items(list)
BY DEF IsFirst, Items

(* A list has one first entry of an ID. *)
LEMMA OneFirst ==
  ASSUME NEW list, NEW x, NEW e, IsFirst(e, list, x), NEW f, IsFirst(f, list, x)
  PROVE  e = f
<1>1. PICK n \in 1 .. Len(list) :
        e = list[n] /\ e.id = x /\ \A j \in 1 .. n - 1 : list[j].id # x
  BY DEF IsFirst
<1>2. PICK m \in 1 .. Len(list) :
        f = list[m] /\ f.id = x /\ \A j \in 1 .. m - 1 : list[j].id # x
  BY DEF IsFirst
<1>3. ~ (n \in 1 .. m - 1) /\ ~ (m \in 1 .. n - 1)
  BY <1>1, <1>2
<1> QED  BY <1>1, <1>2, <1>3

(* The entry at a place with none of its ID before it is the first. *)
LEMMA PlaceIsFirst ==
  ASSUME NEW list, NEW n \in 1 .. Len(list)
  PROVE  IsFirstAt(n, list) => IsFirst(list[n], list, list[n].id)
BY DEF IsFirstAt, IsFirst

(* The lookup of an action is that of the registry.                        *)
LEMMA ActionLookup ==
  ASSUME UniqueElems, ActionIsFirst, pc = "done", asked = "action"
  PROVE  R!get_action_def(id) = IF result = NULL THEN NULL ELSE Flat(result)
<1> DEFINE key == <<IdKlass(id), IdSubklass(id), IdAction(id)>>
<1>r. R!get_action_def(id) =
        IF key \in DOMAIN FlatRegistry THEN FlatRegistry[key] ELSE NULL
  <2>1. /\ R!IdKlass(id) = IdKlass(id) /\ R!IdSubklass(id) = IdSubklass(id)
        /\ R!IdAction(id) = IdAction(id)
    BY DEF R!IdKlass, IdKlass, R!IdSubklass, IdSubklass, R!IdAction, IdAction
  <2> QED  BY <2>1, Zenon DEF R!get_action_def
<1> DEFINE Found(p) == p \in Findable /\ KeyAt(p) = key /\ result = ActionAt(p).desc
<1>1. ASSUME NEW p, Found(p)
      PROVE  R!get_action_def(id) = IF result = NULL THEN NULL ELSE Flat(result)
  <2>1. key \in DOMAIN FlatRegistry /\ FlatRegistry[key] = Flat(result)
    BY <1>1, RegistryAt
  <2>2. result # NULL
    BY <1>1 DEF UniqueElems, Descs, Findable
  <2> QED  BY <1>r, <2>1, <2>2
<1>2. ASSUME result = NULL, \A p \in Findable : KeyAt(p) # key
      PROVE  R!get_action_def(id) = IF result = NULL THEN NULL ELSE Flat(result)
  <2>1. key \notin DOMAIN FlatRegistry
    BY <1>2 DEF FlatRegistry
  <2> QED  BY <1>r, <1>2, <2>1
<1>3. ASSUME NEW k \in Items(Klasses), IsFirst(k, Klasses, IdKlass(id)),
             NEW s \in Items(k.subklasses),
             IsFirst(s, k.subklasses, IdSubklass(id)),
             NEW a \in Items(s.actions), IsFirst(a, s.actions, IdAction(id)),
             result = a.desc
      PROVE  \E p : Found(p)
  <2>1. PICK n \in 1 .. Len(Klasses) :
          k = Klasses[n] /\ k.id = IdKlass(id) /\ IsFirstAt(n, Klasses)
    BY <1>3 DEF IsFirst, IsFirstAt
  <2>2. PICK m \in 1 .. Len(k.subklasses) :
          /\ s = k.subklasses[m] /\ s.id = IdSubklass(id)
          /\ IsFirstAt(m, k.subklasses)
    BY <1>3 DEF IsFirst, IsFirstAt
  <2>3. PICK l \in 1 .. Len(s.actions) :
          a = s.actions[l] /\ a.id = IdAction(id) /\ IsFirstAt(l, s.actions)
    BY <1>3 DEF IsFirst, IsFirstAt
  <2>4. <<n, m, l>> \in Findable
    BY <2>1, <2>2, <2>3, PathPlaces DEF Findable
  <2>5. ActionAt(<<n, m, l>>) = a /\ KeyAt(<<n, m, l>>) = key
    BY <2>1, <2>2, <2>3 DEF ActionAt, KeyAt
  <2> QED  BY <1>3, <2>4, <2>5
<1>4. ASSUME NEW p \in Findable, KeyAt(p) = key
      PROVE  \E k \in Items(Klasses) :
               /\ k.id = IdKlass(id) /\ IsFirst(k, Klasses, IdKlass(id))
               /\ k = Klasses[p[1]]
               /\ \E s \in Items(k.subklasses) :
                    /\ s.id = IdSubklass(id)
                    /\ IsFirst(s, k.subklasses, IdSubklass(id))
                    /\ \E a \in Items(s.actions) : a.id = IdAction(id)
  <2>0. /\ p \in Paths /\ IsFirstAt(p[1], Klasses)
        /\ IsFirstAt(p[2], Klasses[p[1]].subklasses)
    BY DEF Findable
  <2>1. PICK k \in 1 .. Len(Klasses) :
          \E s \in 1 .. Len(Klasses[k].subklasses) :
            \E n \in 1 .. Len(Klasses[k].subklasses[s].actions) : p = <<k, s, n>>
    BY <2>0, PathPlaces
  <2>2. PICK s \in 1 .. Len(Klasses[k].subklasses) :
          \E n \in 1 .. Len(Klasses[k].subklasses[s].actions) : p = <<k, s, n>>
    BY <2>1
  <2>3. PICK n \in 1 .. Len(Klasses[k].subklasses[s].actions) : p = <<k, s, n>>
    BY <2>2
  <2>4. /\ Klasses[k] \in Items(Klasses)
        /\ Klasses[k].subklasses[s] \in Items(Klasses[k].subklasses)
        /\ Klasses[k].subklasses[s].actions[n]
             \in Items(Klasses[k].subklasses[s].actions)
    BY DEF Items
  <2>5. /\ Klasses[k].id = IdKlass(id) /\ Klasses[k].subklasses[s].id = IdSubklass(id)
        /\ Klasses[k].subklasses[s].actions[n].id = IdAction(id)
    BY <1>4, <2>3 DEF KeyAt, ActionAt
  <2>6. p[1] = k /\ p[2] = s
    BY <2>3
  <2>7. /\ IsFirst(Klasses[k], Klasses, IdKlass(id))
        /\ IsFirst(Klasses[k].subklasses[s], Klasses[k].subklasses, IdSubklass(id))
    BY <2>0, <2>5, <2>6, PlaceIsFirst
  <2> QED  BY <2>4, <2>5, <2>6, <2>7
<1>5. CASE \A k \in Items(Klasses) : k.id # IdKlass(id)
  <2>1. \A p \in Findable : KeyAt(p) # key
    BY <1>4, <1>5
  <2>2. result = NULL
    BY <1>5, FirstHasId DEF ActionIsFirst
  <2> QED  BY <1>2, <2>1, <2>2
<1>6. ASSUME NEW k \in Items(Klasses), IsFirst(k, Klasses, IdKlass(id))
      PROVE  \A p \in Findable : KeyAt(p) = key => Klasses[p[1]] = k
  <2> SUFFICES ASSUME NEW p \in Findable, KeyAt(p) = key PROVE Klasses[p[1]] = k
    OBVIOUS
  <2>1. IsFirst(Klasses[p[1]], Klasses, IdKlass(id))
    BY <1>4
  <2> QED  BY <1>6, <2>1, OneFirst
<1> HIDE DEF Found, key
<1>7. ASSUME NEW k \in Items(Klasses), IsFirst(k, Klasses, IdKlass(id)),
             \A s \in Items(k.subklasses) : s.id # IdSubklass(id), result = NULL
      PROVE  \A p \in Findable : KeyAt(p) # key
  BY <1>4, <1>6, <1>7
<1>8. ASSUME NEW k \in Items(Klasses), IsFirst(k, Klasses, IdKlass(id)),
             NEW s \in Items(k.subklasses), IsFirst(s, k.subklasses, IdSubklass(id)),
             \A a \in Items(s.actions) : a.id # IdAction(id), result = NULL
      PROVE  \A p \in Findable : KeyAt(p) # key
  <2> SUFFICES ASSUME NEW p \in Findable, KeyAt(p) = key PROVE FALSE
    OBVIOUS
  <2>1. PICK t \in Items(k.subklasses) :
          /\ IsFirst(t, k.subklasses, IdSubklass(id))
          /\ \E a \in Items(t.actions) : a.id = IdAction(id)
    BY <1>4, <1>6, <1>8
  <2>2. t = s
    BY <1>8, <2>1, OneFirst
  <2> QED  BY <1>8, <2>1, <2>2
<1>9. \/ \A k \in Items(Klasses) : k.id # IdKlass(id)
      \/ \E p : Found(p)
      \/ result = NULL /\ \A p \in Findable : KeyAt(p) # key
  BY <1>3, <1>7, <1>8 DEF ActionIsFirst
<1> QED  BY <1>1, <1>2, <1>5, <1>9

(* The lookup of an element is that of the registry.                       *)
LEMMA ElementLookup ==
  ASSUME UniqueElems, IdsFit, OuterInv, pc = "done", asked = "elem"
  PROVE  R!get_tuple_elem(Flat(frames[1].desc), TupleOf(id), 0, 0) = result
<1> DEFINE d == frames[1].desc
           all == Items(d.mandatory) \cup Items(d.optional)
           match == {e \in all : e.id = id}
<1>1. d \in Descs /\ id \in 0 .. IPCT_TUPLE_MAX_ID /\ Outermost(d, frames[1].i)
  BY DEF OuterInv, IdsFit
<1>2. R!TupleId(TupleOf(id), 0) + 0 = id
  <2>1. id \in Nat /\ id < 8192
    BY <1>1 DEF IPCT_TUPLE_MAX_ID
  <2>2. TupleOf(id)[0] = STD + 8 * (id % 8192)
    BY DEF TupleOf, TupleWord
  <2>3. R!TupleId(TupleOf(id), 0) = TupleOf(id)[0 \div 2] \div 8
    BY DEF R!TupleId, R!Half
  <2>4. 0 \div 2 = 0 /\ id % 8192 = id
    BY <2>1
  <2>5. (8 * id) \div 8 = id
    BY <2>1
  <2> QED  BY <2>1, <2>2, <2>3, <2>4, <2>5 DEF STD
<1>3. R!Elems(Flat(d)) = all
  BY DEF R!Elems, Flat
<1>4. R!get_tuple_elem(Flat(d), TupleOf(id), 0, 0)
        = IF match = {} THEN NULL ELSE CHOOSE e \in match : TRUE
  <2> DEFINE carried == {e \in R!Elems(Flat(d)) :
                           e.id = R!TupleId(TupleOf(id), 0) + 0}
  <2>1. carried = match
    <3> HIDE DEF all
    <3> QED  BY <1>2, <1>3
  <2>2. R!get_tuple_elem(Flat(d), TupleOf(id), 0, 0)
          = IF carried = {} THEN NULL ELSE CHOOSE e \in carried : TRUE
    BY DEF R!get_tuple_elem
  <2> HIDE DEF match, carried
  <2> QED  BY <2>1, <2>2
<1>5. CASE result \in all /\ result.id = id
  <2>1. match = {result}
    BY <1>1, <1>5 DEF UniqueElems
  <2> QED  BY <1>4, <2>1
<1>6. CASE Without(d.mandatory) /\ Without(d.optional) /\ result = NULL
  <2>1. match = {}
    BY <1>6 DEF Without
  <2> QED  BY <1>4, <1>6, <2>1
<1> QED  BY <1>1, <1>5, <1>6 DEF Outermost

(* For all tables, classes, subclasses and actions declared twice among    *)
(* them, the three searches of client.c come to the lookup in a function;  *)
(* where no two elements of an action have one ID, and IDs fit in a tuple, *)
(* the recursion through nested structures comes to the choice from a set. *)
(* Both stand for them where packing and unpacking are modelled.           *)
THEOREM LookupsAgree ==
  ASSUME UniqueElems, IdsFit
  PROVE  Spec => []LookupIsRegistrys
<1>1. ActionIsFirst /\ StackInv /\ OuterInv => LookupIsRegistrys
  <2> SUFFICES ASSUME ActionIsFirst, StackInv, OuterInv, pc = "done"
               PROVE  LookupIsRegistrys
    BY DEF LookupIsRegistrys
  <2>1. asked \in {"action", "elem"}
    BY DEF StackInv, Asked
  <2> QED  BY <2>1, ActionLookup, ElementLookup DEF LookupIsRegistrys
<1> QED  BY <1>1, FirstMatch, StackInvariant, OuterInvariant, PTL

=============================================================================
