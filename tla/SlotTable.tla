----------------------------- MODULE SlotTable -----------------------------
(***************************************************************************)
(* What the device slots promise: a guest that addresses the block of a    *)
(* slot speaks to the device that is plugged in there now, and to no other *)
(* one.                                                                    *)
(***************************************************************************)
CONSTANTS Slot, Device, NoSlot, NoDev

VARIABLES
  plugged,  \* the device in each slot
  asked,    \* the slot the guest addressed last, or NoSlot
  answer    \* the device that answered, or NoDev

tableVars == <<plugged, asked, answer>>

TableInit ==
  /\ plugged = [s \in Slot |-> NoDev]
  /\ asked = NoSlot /\ answer = NoDev

Plug(s, d) ==
  /\ plugged[s] = NoDev
  /\ plugged' = [plugged EXCEPT ![s] = d]
  /\ UNCHANGED <<asked, answer>>

Unplug(s) ==
  /\ plugged' = [plugged EXCEPT ![s] = NoDev]
  /\ UNCHANGED <<asked, answer>>

\* An access at a block, or (NoSlot) anywhere else.
Access(s) ==
  /\ asked' = s
  /\ answer' = IF s \in Slot THEN plugged[s] ELSE NoDev
  /\ UNCHANGED plugged

TableNext ==
  \/ \E s \in Slot : Unplug(s) \/ \E d \in Device : Plug(s, d)
  \/ \E s \in Slot \cup {NoSlot} : Access(s)

TableSpec == TableInit /\ [][TableNext]_tableVars
=============================================================================
