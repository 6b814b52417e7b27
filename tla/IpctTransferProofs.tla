------------------------- MODULE IpctTransferProofs -------------------------
(***************************************************************************)
(* Proofs about IpctTransfer: what the service that IpctPair is shown to   *)
(* implement promises its clients, for all builds, values and sizes.       *)
(***************************************************************************)
EXTENDS IpctTransfer, TLAPS

(* Tuple IDs are numbers. *)
IdsAreNumbers == \A b \in Builds : Ids(b) \subseteq Nat

(* The member whose turn it is: everything below it has arrived, nothing   *)
(* above it has.                                                           *)
LEMMA NextSplits ==
  ASSUME IdsAreNumbers, TypeOK, HeldIsPrefix, phase = "sent",
         NEW id, IsNext(id)
  PROVE  DOMAIN held = {j \in Common : j < id}
<1>1. Common \subseteq Nat /\ DOMAIN held \subseteq Common
  BY DEF TypeOK, Common, IdsAreNumbers
<1>2. id \in Common /\ id \notin DOMAIN held
  BY DEF IsNext, Missing
<1>3. ASSUME NEW j \in DOMAIN held PROVE j < id
  <2>1. j \in Nat /\ id \in Nat /\ j # id
    BY <1>1, <1>2
  <2>2. ~ id < j
    BY <1>2 DEF HeldIsPrefix
  <2> QED  BY <2>1, <2>2
<1>4. ASSUME NEW j \in Common, j < id PROVE j \in DOMAIN held
  BY <1>1, <1>2, <1>4 DEF IsNext, Missing
<1> QED  BY <1>1, <1>3, <1>4

(* A step that leaves the two sides' members alone. *)
LEMMA SamePhaseData ==
  ASSUME TransferInv, phase = "sent", phase' \in {"accepted", "refused"},
         UNCHANGED <<sender, receiver, size, sent, held>>
  PROVE  TypeOK' /\ HeldIsPrefix' /\ HeldIsSent'
<1>1. Common' = Common /\ Missing' = Missing
  BY DEF Common, Missing
<1> QED  BY <1>1 DEF TransferInv, Promise, TypeOK, HeldIsPrefix, HeldIsSent

(* A member arrives. *)
LEMMA ArriveKeeps ==
  ASSUME IdsAreNumbers, TransferInv, NEW id \in Missing, Arrive(id)
  PROVE  TransferInv'
<1> USE DEF TransferInv, Promise
<1>1. phase = "sent" /\ phase' = "sent" /\ Common' = Common
  BY DEF Arrive, Common
<1>2. id \in Common /\ DOMAIN held \subseteq Common /\ Common \subseteq Ids(sender)
  BY <1>1 DEF TypeOK, Missing, Common
<1>3. /\ DOMAIN held' = DOMAIN held \cup {id}
      /\ \A j \in DOMAIN held' : held'[j] = sent[j]
  BY DEF Arrive
<1>4. DOMAIN held = {j \in Common : j < id}
  BY <1>1, NextSplits DEF Arrive
<1>5. TypeOK'
  <2>1. held' \in [DOMAIN held' -> Values]
    BY <1>1, <1>2, <1>3 DEF Arrive, TypeOK
  <2> QED  BY <1>1, <1>2, <1>3, <2>1 DEF Arrive, TypeOK
<1>6. HeldIsPrefix'
  <2> SUFFICES ASSUME NEW i \in DOMAIN held', NEW j \in Common, j < i
               PROVE  j \in DOMAIN held'
    BY <1>1 DEF HeldIsPrefix
  <2>1. Common \subseteq Nat
    BY <1>1 DEF TypeOK, Common, IdsAreNumbers
  <2>2. CASE i = id
    BY <1>3, <1>4, <2>2
  <2>3. CASE i \in DOMAIN held
    BY <1>1, <1>3, <2>3 DEF HeldIsPrefix
  <2> QED  BY <1>3, <2>2, <2>3
<1>7. HeldIsSent'
  <2>1. sent' = sent /\ receiver' = receiver /\ Allowed(receiver, id, sent[id])
    BY DEF Arrive
  <2> QED  BY <1>1, <1>3, <2>1 DEF HeldIsSent
<1>8. AcceptedIsComplete' /\ RefusedForCause'
  BY <1>1 DEF AcceptedIsComplete, RefusedForCause
<1> QED  BY <1>5, <1>6, <1>7, <1>8

(* The receiver refuses a member. *)
LEMMA RefuseKeeps ==
  ASSUME IdsAreNumbers, TransferInv, NEW id \in Missing, Refuse(id)
  PROVE  TransferInv'
<1> USE DEF TransferInv, Promise
<1>1. /\ phase = "sent" /\ phase' = "refused"
      /\ UNCHANGED <<sender, receiver, size, sent, held>>
      /\ Common' = Common
  BY DEF Refuse, Common
<1>2. TypeOK' /\ HeldIsPrefix' /\ HeldIsSent'
  BY <1>1, SamePhaseData
<1>3. DOMAIN held = {j \in Common : j < id} /\ id \in Common
  BY <1>1, NextSplits DEF Refuse, Missing
<1>4. RefusedForCause'
  BY <1>1, <1>3 DEF Refuse, RefusedForCause
<1>5. AcceptedIsComplete'
  BY <1>1 DEF AcceptedIsComplete
<1> QED  BY <1>2, <1>4, <1>5

(* Every member has arrived. *)
LEMMA AcceptKeeps ==
  ASSUME TransferInv, Accept
  PROVE  TransferInv'
<1> USE DEF TransferInv, Promise
<1>1. /\ phase = "sent" /\ phase' = "accepted"
      /\ UNCHANGED <<sender, receiver, size, sent, held>>
      /\ Common' = Common
  BY DEF Accept, Common
<1>2. TypeOK' /\ HeldIsPrefix' /\ HeldIsSent'
  BY <1>1, SamePhaseData
<1>3. DOMAIN held = Common
  BY <1>1 DEF Accept, Missing, TypeOK
<1>4. held = [id \in Common |-> sent[id]]
  BY <1>1, <1>3 DEF TypeOK, HeldIsSent
<1>5. AcceptedIsComplete' /\ RefusedForCause'
  BY <1>1, <1>4 DEF AcceptedIsComplete, RefusedForCause
<1> QED  BY <1>2, <1>5

-----------------------------------------------------------------------------
(* What a transfer promises holds of every behaviour of the service: what  *)
(* arrives is what was sent and is allowed, acceptance means that all of   *)
(* it arrived, and refusal has a cause the clients can see.  The service   *)
(* is ipct_msg_pack followed by ipct_msg_unpack between compatible tables. *)
THEOREM PromiseKept ==
  ASSUME IdsAreNumbers
  PROVE  Spec => []Promise
<1>1. Init => TransferInv
  BY DEF Init, TransferInv, Promise, TypeOK, HeldIsPrefix, HeldIsSent,
         AcceptedIsComplete, RefusedForCause
<1>2. TransferInv /\ [Next]_vars => TransferInv'
  <2> SUFFICES ASSUME TransferInv, [Next]_vars
               PROVE  TransferInv'
    OBVIOUS
  <2>1. CASE Send
    <3>1. phase' = "sent" /\ held' = NoMembers
      BY <2>1 DEF Send, TransferInv, TypeOK
    <3>2. DOMAIN held' = {} /\ held' \in [DOMAIN held' -> Values]
      BY <3>1 DEF NoMembers
    <3> QED
      BY <2>1, <3>1, <3>2
      DEF Send, TransferInv, Promise, TypeOK, HeldIsPrefix, HeldIsSent,
          AcceptedIsComplete, RefusedForCause
  <2>2. CASE NoRoom
    <3>1. TypeOK' /\ HeldIsPrefix' /\ HeldIsSent'
      BY <2>2, SamePhaseData DEF NoRoom
    <3>2. AcceptedIsComplete' /\ RefusedForCause'
      BY <2>2 DEF NoRoom, Tight, AcceptedIsComplete, RefusedForCause
    <3> QED  BY <3>1, <3>2 DEF TransferInv, Promise
  <2>3. ASSUME NEW id \in Missing, Arrive(id) PROVE TransferInv'
    BY <2>3, ArriveKeeps
  <2>4. ASSUME NEW id \in Missing, Refuse(id) PROVE TransferInv'
    BY <2>4, RefuseKeeps
  <2>5. CASE Accept
    BY <2>5, AcceptKeeps
  <2>6. CASE Collect
    BY <2>6 DEF Collect, TransferInv, Promise, TypeOK, HeldIsPrefix, HeldIsSent,
                AcceptedIsComplete, RefusedForCause
  <2>7. CASE UNCHANGED vars
    BY <2>7 DEF vars, TransferInv, Promise, TypeOK, HeldIsPrefix, HeldIsSent,
                AcceptedIsComplete, RefusedForCause, Common, Tight
  <2> QED  BY <2>1, <2>2, <2>3, <2>4, <2>5, <2>6, <2>7 DEF Next
<1>3. TransferInv => Promise
  BY DEF TransferInv
<1> QED  BY <1>1, <1>2, <1>3, PTL DEF Spec

=============================================================================
