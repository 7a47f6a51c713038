--------------------------- MODULE InterruptQueue ---------------------------
(***************************************************************************)
(* What SendInterrupt of the DCPU-16N promises to devices.  As long as no  *)
(* message came too many and none was forgotten, the messages it accepts   *)
(* reach the interrupt handler in the order they were accepted, each once. *)
(* A queue that was overrun, or that has lost count of its place, still    *)
(* delivers as many messages as it accepted, but not the same.             *)
(***************************************************************************)
EXTENDS Naturals, Sequences

CONSTANTS Msg,    \* interrupt messages
          NoMsg,  \* register A before the first interrupt
          Size    \* messages the queue has room for

VARIABLES queue,    \* messages accepted and not delivered
          taken,    \* the message the last handler was entered with
          aligned   \* the next message goes to the end of the queue

queueVars == <<queue, taken, aligned>>

QueueInit == queue = << >> /\ taken = NoMsg /\ aligned = TRUE

Accept(m) == queue' = Append(queue, m) /\ UNCHANGED <<taken, aligned>>

Take ==
  /\ queue # << >>
  /\ taken' = Head(queue)
  /\ queue' = Tail(queue)
  /\ UNCHANGED aligned

\* The program has disabled interrupts: all that wait are forgotten, but their
\* places are not freed.
DropAll ==
  /\ queue' = << >>
  /\ aligned' \in BOOLEAN
  /\ aligned => aligned' = (Len(queue) % Size = 0)
  /\ UNCHANGED taken

PowerCycle == queue' = << >> /\ taken' = NoMsg /\ aligned' = TRUE

\* One message more than there is room for replaces the oldest one, and comes again
\* after all others.
Overrun(m) ==
  /\ Len(queue) = Size
  /\ queue' = Append([queue EXCEPT ![1] = m], m)
  /\ UNCHANGED <<taken, aligned>>

\* With places that were not freed the message goes beyond the end, where it may
\* replace one that waits, and a message of the past joins the queue.
Misfile(m) ==
  /\ ~aligned /\ Len(queue) <= Size
  /\ \E q \in {queue} \cup {[queue EXCEPT ![k] = m] : k \in DOMAIN queue} :
       \E old \in Msg \cup {NoMsg} : queue' = Append(q, old)
  /\ UNCHANGED <<taken, aligned>>

RingNext ==
  \/ Take \/ DropAll \/ PowerCycle
  \/ \E m \in Msg :
       \/ aligned /\ Len(queue) < Size /\ Accept(m)
       \/ aligned /\ Overrun(m)
       \/ Misfile(m)

\* A queue in a ring.
Spec == QueueInit /\ [][RingNext]_queueVars

\* A queue: every message accepted is delivered in its turn, or dropped with the
\* rest when interrupts are disabled.
FifoNext == Take \/ DropAll \/ PowerCycle \/ \E m \in Msg : Accept(m)

FifoSpec == QueueInit /\ [][FifoNext]_queueVars
=============================================================================
