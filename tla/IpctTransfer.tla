---------------------------- MODULE IpctTransfer ----------------------------
(***************************************************************************)
(* What packing, a message and unpacking are for, seen from the two        *)
(* clients: the members of the sender's C structure reach the members with *)
(* the same tuple IDs of the receiver's, which may be another structure    *)
(* with other limits.                                                      *)
(*                                                                         *)
(* Nothing of tuples, buffers or headers is left here but the length of a  *)
(* message.  What is kept is what a client has to reckon with: members     *)
(* arrive in the order of their IDs, the first that the receiver's table   *)
(* does not allow ends the transfer, and those before it have arrived.     *)
(***************************************************************************)
EXTENDS Integers

CONSTANTS
  Builds,           \* programs: each has a table of its own
  Values,           \* what a member may hold
  Sizes,            \* sizes of message buffers, in bytes
  Ids(_),           \* the tuple IDs of a build's members
  Allowed(_, _, _), \* may the member of a build with an ID have a value?
  Length(_),        \* bytes of the message a build packs
  NULL

VARIABLES
  phase,     \* "idle", "sent", "accepted" or "refused"
  sender,    \* the build that sends
  receiver,  \* the build that receives
  size,      \* size of the message buffer
  sent,      \* the sender's members: ID -> value
  held       \* the members that arrived in the receiver's structure

vars == <<phase, sender, receiver, size, sent, held>>

NoMembers == [id \in {} |-> NULL]

Common == Ids(sender) \cap Ids(receiver)

Missing == Common \ DOMAIN held

(* The member whose turn it is. *)
IsNext(id) == id \in Missing /\ \A j \in Missing : id <= j

Fits == size >= Length(sender)

(* Not a byte to spare.  Whether a message exactly as long as its buffer   *)
(* is taken is left open: both Fits and Tight hold of it.                  *)
Tight == size <= Length(sender)

Init ==
  /\ phase = "idle"
  /\ sender = NULL /\ receiver = NULL /\ size = 0
  /\ sent = NoMembers /\ held = NoMembers

Send ==
  /\ phase = "idle"
  /\ phase' = "sent"
  /\ sender' \in Builds /\ receiver' \in Builds /\ size' \in Sizes
  /\ sent' \in [Ids(sender') -> Values]
  /\ UNCHANGED held

(* The buffer has no room for the message: nothing arrives. *)
NoRoom ==
  /\ phase = "sent" /\ phase' = "refused"
  /\ held = NoMembers /\ Tight
  /\ UNCHANGED <<sender, receiver, size, sent, held>>

Arrive(id) ==
  /\ phase = "sent"
  /\ IsNext(id) /\ Allowed(receiver, id, sent[id])
  /\ held' = [j \in DOMAIN held \cup {id} |-> sent[j]]
  /\ Fits
  /\ UNCHANGED <<phase, sender, receiver, size, sent>>

Refuse(id) ==
  /\ phase = "sent" /\ phase' = "refused"
  /\ IsNext(id) /\ ~ Allowed(receiver, id, sent[id])
  /\ Fits
  /\ UNCHANGED <<sender, receiver, size, sent, held>>

Accept ==
  /\ phase = "sent" /\ phase' = "accepted"
  /\ Missing = {}
  /\ Fits
  /\ UNCHANGED <<sender, receiver, size, sent, held>>

Collect ==
  /\ phase \in {"accepted", "refused"}
  /\ phase' = "idle"
  /\ sender' = NULL /\ receiver' = NULL /\ size' = 0
  /\ sent' = NoMembers /\ held' = NoMembers

Next == \/ Send
        \/ NoRoom
        \/ \E id \in Missing : Arrive(id) \/ Refuse(id)
        \/ Accept
        \/ Collect

Spec == Init /\ [][Next]_vars

-----------------------------------------------------------------------------
(* Every variable stays in its range, and what has arrived is common to    *)
(* both sides.                                                             *)
TypeOK ==
  /\ phase \in {"idle", "sent", "accepted", "refused"}
  /\ phase = "idle" => held = NoMembers
  /\ phase # "idle" => /\ sender \in Builds /\ receiver \in Builds
                       /\ size \in Sizes
                       /\ sent \in [Ids(sender) -> Values]
                       /\ held \in [DOMAIN held -> Values]
                       /\ DOMAIN held \subseteq Common

(* A member that has arrived is the sender's and one the receiver allows.  *)
HeldIsSent ==
  phase # "idle" =>
    \A id \in DOMAIN held : /\ held[id] = sent[id]
                            /\ Allowed(receiver, id, held[id])

(* Members arrive in the order of their IDs: no gap is ever visible.       *)
HeldIsPrefix ==
  phase # "idle" => \A id \in DOMAIN held, j \in Common :
                      j < id => j \in DOMAIN held

(* An accepted transfer leaves the receiver with exactly the members both  *)
(* sides know, as the sender had them.                                     *)
AcceptedIsComplete ==
  phase = "accepted" => held = [id \in Common |-> sent[id]]

(* A transfer is refused only for a reason a client can see: the buffer    *)
(* has not a byte to spare, or the receiver's table does not allow some    *)
(* common member, and then everything below it has arrived.                *)
RefusedForCause ==
  phase = "refused" =>
    \/ Tight /\ held = NoMembers
    \/ \E id \in Common : /\ ~ Allowed(receiver, id, sent[id])
                          /\ DOMAIN held = {j \in Common : j < id}

(* What the transfer promises the two clients, and the inductive invariant *)
(* that it follows from.                                                   *)
Promise == HeldIsSent /\ AcceptedIsComplete /\ RefusedForCause

TransferInv == TypeOK /\ HeldIsPrefix /\ Promise

=============================================================================
