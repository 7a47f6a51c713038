------------------------------ MODULE PitLine ------------------------------
(***************************************************************************)
(* The interrupt line of the Programmable Interval Timer, as the computer  *)
(* sees it: which channels are configured and which of them wait for an    *)
(* acknowledgement.  When a channel underflows is left open here; module   *)
(* Timer has the counters and implements this specification.               *)
(***************************************************************************)
EXTENDS Naturals

CONSTANT Chan   \* the timers in use: TMR0 alone, or TMR0 and TMR1

ASSUME ChanAssumption == Chan \in {{0}, {0, 1}}

VARIABLES
  en,       \* cfg bits 0 and 3: the channel counts
  ie,       \* cfg bits 1 and 4: the channel interrupts
  do_int    \* do_int_tmr0 and do_int_tmr1

pitVars == <<en, ie, do_int>>

PitTypeOK ==
  /\ en \in [Chan -> BOOLEAN]
  /\ ie \in [Chan -> BOOLEAN]
  /\ do_int \in [Chan -> BOOLEAN]

Asserts(c) == ie[c] /\ do_int[c]

\* The value DoesInterrupt returns.
PitDoesInterrupt == \E c \in Chan : Asserts(c)

\* The channel whose message DoesInterrupt writes: TMR0 goes first.
Reported == IF Asserts(0) THEN 0 ELSE 1

\* The channel whose flag IACK clears.  It looks at do_int_tmr0 alone, not at
\* the configuration DoesInterrupt looked at.
Acked == IF do_int[0] THEN 0 ELSE 1

PitOff == [c \in Chan |-> FALSE]

PitInit ==
  /\ en = PitOff
  /\ ie = PitOff
  /\ do_int = PitOff

PitReset ==
  /\ en' = PitOff
  /\ ie' = PitOff
  /\ do_int' = PitOff

\* Time passes and the channels in S underflow, which latches their request,
\* or drops an older one, according to the interrupt bit of the moment.
PitTick(S) ==
  /\ \A c \in S : en[c]
  /\ do_int' = [c \in Chan |-> IF c \in S THEN ie[c] ELSE do_int[c]]
  /\ UNCHANGED <<en, ie>>

\* A write of the configuration byte: requests already latched stay latched.
PitWriteCfg(e, i) ==
  /\ en' = e
  /\ ie' = i
  /\ UNCHANGED do_int

\* The computer found the line asserted, the CPU took the message: IACK.
PitServed ==
  /\ PitDoesInterrupt
  /\ do_int' = [c \in Chan |-> do_int[c] /\ c # Acked]
  /\ UNCHANGED <<en, ie>>

PitNext ==
  \/ PitReset
  \/ \E S \in SUBSET Chan : PitTick(S)
  \/ \E e, i \in [Chan -> BOOLEAN] : PitWriteCfg(e, i)
  \/ PitServed

PitSpec == PitInit /\ [][PitNext]_pitVars
=============================================================================
