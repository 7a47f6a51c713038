---------------------------- MODULE Timer_proofs ----------------------------
(***************************************************************************)
(* Theorems about the timer, for every register width.                     *)
(***************************************************************************)
EXTENDS Timer, TLAPS

\* Register arithmetic stays inside a register.
LEMMA MinusInReg ==
  ASSUME NEW a \in TimerReg, NEW b \in TimerReg
  PROVE  Minus(a, b) \in TimerReg
BY TimerAssumption DEF Minus, TimerReg

\* A counter and its reload value give a register value again.
LEMMA AfterInReg ==
  ASSUME NEW t \in TimerReg, NEW r \in TimerReg, NEW n \in TimerReg
  PROVE  After(t, r, n) \in TimerReg
<1>1. Minus(t, n) \in TimerReg
  BY MinusInReg
<1>2. Minus(Modulus - 1, Minus(t, n)) \in TimerReg
  BY <1>1, TimerAssumption DEF Minus, TimerReg
<1>3. Reload(Minus(t, n), r) \in TimerReg
  BY <1>2, MinusInReg DEF Reload
<1> QED
  BY <1>1, <1>3 DEF After

\* The unsigned compare finds the underflow exactly when n exceeds the counter.
LEMMA WrapsExactly ==
  ASSUME NEW t \in TimerReg, NEW n \in TimerReg
  PROVE  Wraps(t, n) <=> n > t
BY TimerAssumption DEF Wraps, Minus, TimerReg

LEMMA LagInRange ==
  ASSUME NEW l \in 0 .. Modulus, NEW r \in TimerReg, NEW n \in TimerReg
  PROVE  LagAfter(l, r, n) \in 0 .. Modulus
BY TimerAssumption DEF LagAfter, TimerReg

\* One step of the ideal counter and one slice of the real one agree while the
\* ideal counter passes zero at most once in the slice.
LEMMA SliceExact ==
  ASSUME NEW t \in TimerReg, NEW r \in TimerReg, NEW n \in TimerReg,
         LagAfter(t + 1, r, n) > 0
  PROVE  After(t, r, n) = LagAfter(t + 1, r, n) - 1
<1>1. CASE n <= t
  <2>1. ~Wraps(t, n)
    BY <1>1, WrapsExactly DEF TimerReg
  <2>2. After(t, r, n) = t - n
    BY <1>1, <2>1 DEF After, Minus
  <2> QED
    BY <1>1, <2>2 DEF LagAfter, TimerReg
<1>2. CASE n > t
  <2>1. Wraps(t, n)
    BY <1>2, WrapsExactly DEF TimerReg
  <2>2. Minus(t, n) = t - n + Modulus
    BY <1>2 DEF Minus, TimerReg
  <2>3. Minus(Modulus - 1, Minus(t, n)) = n - t - 1
    BY <1>2, <2>2, TimerAssumption DEF Minus, TimerReg
  <2>4. LagAfter(t + 1, r, n) = t + 1 - n + r + 1
    BY <1>2 DEF LagAfter, TimerReg
  <2>5. n - t - 1 <= r
    BY <2>4 DEF TimerReg
  <2>6. Reload(Minus(t, n), r) = r - (n - t - 1)
    BY <2>3, <2>5 DEF Reload, Minus
  <2> QED
    BY <2>1, <2>4, <2>6 DEF After, TimerReg
<1> QED
  BY <1>1, <1>2 DEF TimerReg

-----------------------------------------------------------------------------
\* Types are kept by every register write, slice of time, acknowledgement and
\* reset (Timer.cpp keeps its registers in DWords).
THEOREM TimerTypes == TimerSpec => []TimerTypeOK
<1>1. TimerInit => TimerTypeOK
  BY TimerAssumption DEF TimerInit, TimerTypeOK, Zero, Off, TimerReg
<1>2. TimerTypeOK /\ [TimerNext]_timerVars => TimerTypeOK'
  <2> SUFFICES ASSUME TimerTypeOK, [TimerNext]_timerVars
               PROVE  TimerTypeOK'
    OBVIOUS
  <2> USE DEF TimerTypeOK
  <2>1. CASE TimerReset
    BY <2>1, TimerAssumption DEF TimerReset, Zero, Off, TimerReg
  <2>2. ASSUME NEW n \in TimerReg, TimerTick(n)
        PROVE  TimerTypeOK'
    <3>1. tmr' \in [Chan -> TimerReg]
      BY <2>2, AfterInReg DEF TimerTick
    <3>2. lag' \in [Chan -> 0 .. Modulus]
      BY <2>2, LagInRange DEF TimerTick
    <3>3. do_int' \in [Chan -> BOOLEAN]
      BY <2>2 DEF TimerTick, Latched
    <3> QED
      BY <2>2, <3>1, <3>2, <3>3 DEF TimerTick
  <2>3. CASE Guest
    <3>1. ASSUME NEW c \in Chan, NEW v \in TimerReg, WriteTmr(c, v)
          PROVE  TimerTypeOK'
      <4>1. v + 1 \in 0 .. Modulus
        BY TimerAssumption DEF TimerReg
      <4> QED
        BY <3>1, <4>1 DEF WriteTmr
    <3>2. ASSUME NEW c \in Chan, NEW v \in TimerReg, WriteRe(c, v)
          PROVE  TimerTypeOK'
      BY <3>2 DEF WriteRe
    <3>3. ASSUME NEW e \in [Chan -> BOOLEAN], NEW i \in [Chan -> BOOLEAN],
                 WriteCfg(e, i)
          PROVE  TimerTypeOK'
      BY <3>3 DEF WriteCfg
    <3> QED
      BY <2>3, <3>1, <3>2, <3>3 DEF Guest
  <2>4. CASE Served
    BY <2>4 DEF Served
  <2>5. CASE UNCHANGED timerVars
    BY <2>5 DEF timerVars
  <2> QED
    BY <2>1, <2>2, <2>3, <2>4, <2>5 DEF TimerNext
<1> QED
  BY <1>1, <1>2, PTL DEF TimerSpec

\* A slice that leaves a counter with a deadline leaves it where the ideal
\* counter is, so no remainder of a slice is ever lost.
THEOREM NoDriftTheorem == TimerSpec => []NoDrift
<1>1. TimerInit => NoDrift
  BY DEF TimerInit, NoDrift, Zero
<1>2. TimerTypeOK /\ NoDrift /\ [TimerNext]_timerVars => NoDrift'
  <2> SUFFICES ASSUME TimerTypeOK, NoDrift, [TimerNext]_timerVars, NEW c \in Chan, lag'[c] > 0
               PROVE  tmr'[c] = lag'[c] - 1
    BY DEF NoDrift
  <2> USE DEF TimerTypeOK
  <2>1. CASE TimerReset
    BY <2>1 DEF TimerReset, Zero
  <2>2. ASSUME NEW n \in TimerReg, TimerTick(n)
        PROVE  tmr'[c] = lag'[c] - 1
    <3>1. CASE ~en[c]
      BY <2>2, <3>1 DEF TimerTick, NoDrift
    <3>2. CASE en[c]
      <4>1. lag'[c] = LagAfter(lag[c], re[c], n) /\ tmr'[c] = After(tmr[c], re[c], n)
        BY <2>2, <3>2 DEF TimerTick
      <4>2. lag[c] > 0
        BY <4>1 DEF LagAfter
      <4>3. lag[c] = tmr[c] + 1
        BY <4>2 DEF NoDrift, TimerReg
      <4> QED
        BY <4>1, <4>3, SliceExact
    <3> QED
      BY <3>1, <3>2
  <2>3. CASE Guest
    BY <2>3 DEF Guest, WriteTmr, WriteRe, WriteCfg, NoDrift, TimerReg
  <2>4. CASE Served
    BY <2>4 DEF Served, NoDrift
  <2>5. CASE UNCHANGED timerVars
    BY <2>5 DEF timerVars, NoDrift
  <2> QED
    BY <2>1, <2>2, <2>3, <2>4, <2>5 DEF TimerNext
<1> QED
  BY <1>1, <1>2, TimerTypes, PTL DEF TimerSpec

\* A request is latched by exactly the slice in which the ideal counter passes
\* zero: the compare in TimerTick neither misses nor invents an underflow.
THEOREM FiresOnTimeTheorem == TimerSpec => FiresOnTime
<1>1. TimerTypeOK /\ NoDrift =>
        \A c \in Chan : en[c] /\ lag[c] > 0 =>
          \A n \in TimerReg : TimerTick(n) =>
            do_int'[c] = IF lag[c] <= n THEN ie[c] ELSE do_int[c]
  <2> SUFFICES ASSUME TimerTypeOK, NoDrift, NEW n \in TimerReg, NEW c \in Chan,
                      TimerTick(n), en[c], lag[c] > 0
               PROVE  do_int'[c] = IF lag[c] <= n THEN ie[c] ELSE do_int[c]
    OBVIOUS
  <2>1. tmr[c] \in TimerReg /\ tmr[c] = lag[c] - 1
    BY DEF TimerTypeOK, NoDrift
  <2>2. Wraps(tmr[c], n) <=> lag[c] <= n
    BY <2>1, WrapsExactly DEF TimerTypeOK, TimerReg
  <2>3. do_int'[c] = Latched(c, n)
    BY DEF TimerTick
  <2> QED
    BY <2>2, <2>3 DEF Latched, Underflows
<1> QED
  BY <1>1, TimerTypes, NoDriftTheorem, PTL DEF FiresOnTime

\* The timer with its counters is one of the interrupt lines the computer's
\* scheduler is written for: PitLine's channels underflow when these do.
THEOREM TimerImplementsLine == TimerSpec => LineSpec
<1> USE DEF Line!PitOff
<1>1. TimerInit => Line!PitInit
  BY DEF TimerInit, Off, Line!PitInit
<1>2. TimerTypeOK /\ [TimerNext]_timerVars => [Line!PitNext]_(Line!pitVars)
  <2> SUFFICES ASSUME TimerTypeOK, [TimerNext]_timerVars
               PROVE  [Line!PitNext]_(Line!pitVars)
    OBVIOUS
  <2>1. CASE TimerReset
    BY <2>1 DEF TimerReset, Off, Line!PitNext, Line!PitReset
  <2>2. ASSUME NEW n \in TimerReg, TimerTick(n)
        PROVE  Line!PitNext
    <3> DEFINE S == {c \in Chan : Underflows(c, n)}
    <3>1. Line!PitTick(S)
      BY <2>2 DEF TimerTick, Latched, Underflows, Line!PitTick
    <3> QED
      BY <3>1 DEF Line!PitNext
  <2>3. CASE Guest
    BY <2>3 DEF Guest, WriteTmr, WriteRe, WriteCfg, Line!PitNext,
                Line!PitWriteCfg, Line!pitVars
  <2>4. CASE Served
    BY <2>4 DEF Served, Asserts, Acked, Line!PitNext, Line!PitServed,
                Line!PitDoesInterrupt, Line!Asserts, Line!Acked
  <2>5. CASE UNCHANGED timerVars
    BY <2>5 DEF timerVars, Line!pitVars
  <2> QED
    BY <2>1, <2>2, <2>3, <2>4, <2>5 DEF TimerNext
<1> QED
  BY <1>1, <1>2, TimerTypes, PTL DEF TimerSpec, LineSpec, Line!PitSpec
=============================================================================
