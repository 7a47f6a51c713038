------------------------------- MODULE Timer -------------------------------
(***************************************************************************)
(* The Programmable Interval Timer of the computer: two down counters that *)
(* reload and request an interrupt when they underflow.                    *)
(*                                                                         *)
(* lag is not in the code: it is the number of single device ticks until   *)
(* an ideal counter, one that is ticked one at a time, would underflow, or *)
(* 0 once a slice of time was so long that this counter would have         *)
(* underflowed twice in it.  The properties compare the two.               *)
(***************************************************************************)
EXTENDS Integers

CONSTANTS
  Chan,      \* the timers: {0, 1}
  Modulus    \* a register holds 0 .. Modulus - 1 (DWord: 2^32)

ASSUME TimerAssumption ==
  /\ Chan \in {{0}, {0, 1}}
  /\ Modulus \in Nat \ {0, 1}

VARIABLES tmr, re, en, ie, do_int, lag

timerVars == <<tmr, re, en, ie, do_int, lag>>

TimerReg == 0 .. Modulus - 1

TimerTypeOK ==
  /\ tmr \in [Chan -> TimerReg]
  /\ re \in [Chan -> TimerReg]
  /\ en \in [Chan -> BOOLEAN]
  /\ ie \in [Chan -> BOOLEAN]
  /\ do_int \in [Chan -> BOOLEAN]
  /\ lag \in [Chan -> 0 .. Modulus]

-----------------------------------------------------------------------------
(* DWord arithmetic, and what Tick(n) does to one counter.                 *)

Minus(a, b) == IF b <= a THEN a - b ELSE a - b + Modulus

\* Mutant: the compare also holds for no ticks at all.
Wraps_NonStrict(t, n) == Minus(t, n) >= t

\* The compare that detects an underflow: the new value is above the old one.
Wraps(t, n) == Minus(t, n) > t

\* Mutant: the ticks beyond zero are dropped.
Reload_Whole(t, r) == r

\* What an underflow reloads: re minus the ticks spent beyond zero.
Reload(t, r) == Minus(r, Minus(Modulus - 1, t))

After(t, r, n) ==
  IF Wraps(t, n) THEN Reload(Minus(t, n), r) ELSE Minus(t, n)

\* The ideal counter after n ticks: it passes zero when lag <= n.
LagAfter(l, r, n) ==
  LET due == l - n + (IF l <= n THEN r + 1 ELSE 0)
  IN  IF l > 0 /\ due > 0 THEN due ELSE 0

\* Mutant: a counter that is switched off underflows too.
Underflows_Ungated(c, n) == Wraps(tmr[c], n)

Underflows(c, n) == en[c] /\ Wraps(tmr[c], n)

\* Mutant: the code of TMR0 copied for TMR1, its bit of cfg with it.
Latched_Copied(c, n) == IF Underflows(c, n) THEN ie[0] ELSE do_int[c]

\* do_int_tmrX after Tick(n): an underflow latches the interrupt bit.
Latched(c, n) == IF Underflows(c, n) THEN ie[c] ELSE do_int[c]

\* The channel whose message DoesInterrupt writes, when one asserts.
Asserts(c) == ie[c] /\ do_int[c]
Reported == IF Asserts(0) THEN 0 ELSE 1

\* The channel IACK clears.
Acked == IF do_int[0] THEN 0 ELSE 1

-----------------------------------------------------------------------------

Zero == [c \in Chan |-> 0]
Off  == [c \in Chan |-> FALSE]

TimerInit ==
  /\ tmr = Zero /\ re = Zero
  /\ en = Off /\ ie = Off /\ do_int = Off
  /\ lag = [c \in Chan |-> 1]

TimerReset ==
  /\ tmr' = Zero /\ re' = Zero
  /\ en' = Off /\ ie' = Off /\ do_int' = Off
  /\ lag' = [c \in Chan |-> 1]

TimerTick(n) ==
  /\ tmr' = [c \in Chan |-> IF en[c] THEN After(tmr[c], re[c], n) ELSE tmr[c]]
  /\ lag' = [c \in Chan |-> IF en[c] THEN LagAfter(lag[c], re[c], n) ELSE lag[c]]
  /\ do_int' = [c \in Chan |-> Latched(c, n)]
  /\ UNCHANGED <<re, en, ie>>

\* The guest writes a counter; a byte or word write leaves the other lanes, so
\* the new value can be any register value.
WriteTmr(c, v) ==
  /\ tmr' = [tmr EXCEPT ![c] = v]
  /\ lag' = [lag EXCEPT ![c] = v + 1]
  /\ UNCHANGED <<re, en, ie, do_int>>

WriteRe(c, v) ==
  /\ re' = [re EXCEPT ![c] = v]
  /\ UNCHANGED <<tmr, en, ie, do_int, lag>>

WriteCfg(e, i) ==
  /\ en' = e
  /\ ie' = i
  /\ UNCHANGED <<tmr, re, do_int, lag>>

\* DoesInterrupt answers true, the CPU accepts the message, IACK.
Served ==
  /\ \E c \in Chan : Asserts(c)
  /\ do_int' = [c \in Chan |-> do_int[c] /\ c # Acked]
  /\ UNCHANGED <<tmr, re, en, ie, lag>>

Guest ==
  \/ \E c \in Chan, v \in TimerReg : WriteTmr(c, v) \/ WriteRe(c, v)
  \/ \E e, i \in [Chan -> BOOLEAN] : WriteCfg(e, i)

TimerNext ==
  \/ TimerReset
  \/ \E n \in TimerReg : TimerTick(n)
  \/ Guest
  \/ Served

TimerSpec == TimerInit /\ [][TimerNext]_timerVars

\* The host keeps running the computer: ticks of a positive length keep coming.
TimePasses == \E n \in TimerReg \ {0} : TimerTick(n)

-----------------------------------------------------------------------------
(* Properties                                                              *)

\* As long as no slice of time is longer than a period, a counter is exactly
\* where an ideal counter is, however the host cuts time into slices: the
\* remainder of every slice is carried into the reloaded value.
NoDrift == \A c \in Chan : lag[c] > 0 => tmr[c] = lag[c] - 1

\* ... and its request is latched by the very slice in which the ideal counter
\* passes zero, neither earlier nor later.
FiresOnTime ==
  [][\A c \in Chan : en[c] /\ lag[c] > 0 =>
       \A n \in TimerReg : TimerTick(n) =>
         do_int'[c] = IF lag[c] <= n THEN ie[c] ELSE do_int[c]]_timerVars

\* A counter that stays enabled and configured keeps requesting: no sequence of
\* register values and slice lengths stops it for good.
KeepsFiring ==
  \A c \in Chan :
    (<>[](en[c] /\ ie[c]) /\ <>[][~Guest]_timerVars) => []<>do_int[c]

\* The counters implement the interrupt line the computer is built on.
Line == INSTANCE PitLine
LineSpec == Line!PitSpec

\* "Executes N Device clock cycles" (timer.hpp, comment of Tick): one call with n
\* leaves a counter where n calls with 1 leave it.
TickIsNTicks ==
  \A c \in {x \in Chan : en[x]} : \A n \in TimerReg :
    LET one[k \in 0 .. n] ==
          IF k = 0 THEN tmr[c] ELSE After(one[k - 1], re[c], 1)
    IN  After(tmr[c], re[c], n) = one[n]

\* "Informs to the device that his generated interrupt was accepted by the CPU"
\* (timer.hpp, comment of IACK): the request that is answered is the one whose
\* message DoesInterrupt wrote.
AckAnswersReport ==
  [][Served => \A c \in Chan : Asserts(c) /\ c = Reported => ~do_int'[c]]_timerVars
=============================================================================
