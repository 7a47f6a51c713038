------------------------- MODULE Breakpoints_proofs -------------------------
(***************************************************************************)
(* Theorems about the breakpoints, for any addresses and any program.      *)
(***************************************************************************)
EXTENDS Breakpoints, TLAPS

\* The set can be trusted because the CPU stays at the breakpoint, awake, from
\* the halt until the instruction there has been fetched.
AtBreak ==
  /\ breaking => ~sleeping /\ pc = last_break /\ pc \in breakpoints
  /\ recover_break => ~sleeping /\ pc = last_break /\ pc \in wanted

BreakInv == BreakTypeOK /\ NoneLost /\ HaltHolds /\ AtBreak

LEMMA BreakStarts == BreakInit => BreakInv
<1> SUFFICES ASSUME BreakInit PROVE BreakInv
  OBVIOUS
<1>1. BreakTypeOK
  <2>1. 0 \in 0 .. MaxCost
    BY BreakAssumption
  <2> QED
    BY <2>1, BreakAssumption DEF BreakInit, BreakTypeOK
<1>2. NoneLost
  BY DEF BreakInit, NoneLost
<1>3. HaltHolds /\ AtBreak
  BY DEF BreakInit, HaltHolds, AtBreak
<1> QED
  BY <1>1, <1>2, <1>3 DEF BreakInv

\* What the fetch at pc does to the set, whichever of its callers asks.
LEMMA FetchInv ==
  ASSUME BreakInv, NEW p \in Addr, NEW z \in BOOLEAN, RealStep(p, z), ~sleeping,
         wait_cycles' \in 0 .. MaxCost
  PROVE  BreakInv'
<1>1. CASE pc \in breakpoints
  BY <1>1 DEF BreakInv, BreakTypeOK, NoneLost, HaltHolds, AtBreak, RealStep, isBreakPoint
<1>2. CASE pc \notin breakpoints
  <2>1. /\ breaking' = FALSE /\ recover_break' = FALSE
        /\ UNCHANGED last_break
    BY <1>2 DEF BreakInv, BreakTypeOK, AtBreak, RealStep, isBreakPoint
  <2>2. breakpoints' = wanted /\ wanted' = wanted
    <3>1. wanted' = wanted
      BY DEF RealStep
    <3>2. CASE recover_break
      BY <1>2, <3>1, <3>2 DEF BreakInv, AtBreak, NoneLost, RealStep, isBreakPoint
    <3>3. CASE ~recover_break
      BY <1>2, <3>1, <3>3 DEF BreakInv, NoneLost, RealStep, isBreakPoint
    <3> QED
      BY <3>1, <3>2, <3>3
  <2>3. BreakTypeOK'
    <3>1. ran' = pc /\ pc' = p /\ sleeping' = z
      BY <1>2 DEF RealStep
    <3> QED
      BY <2>1, <2>2, <3>1 DEF BreakInv, BreakTypeOK
  <2>4. NoneLost'
    BY <2>2 DEF NoneLost
  <2> QED
    BY <2>1, <2>3, <2>4 DEF BreakInv, HaltHolds, AtBreak
<1> QED
  BY <1>1, <1>2

LEMMA DozeInv ==
  ASSUME BreakInv, NEW p \in Addr, Doze(p)
  PROVE  BreakInv'
BY DEF BreakInv, BreakTypeOK, NoneLost, HaltHolds, AtBreak, Doze, debugVars

LEMMA HostInv == BreakInv /\ CarefulHost => BreakInv'
<1> SUFFICES ASSUME BreakInv, CarefulHost PROVE BreakInv'
  OBVIOUS
<1> USE DEF BreakInv, BreakTypeOK, NoneLost, HaltHolds, AtBreak, cpuVars
<1>1. ASSUME NEW a \in Addr, SetBreakPoint(a) PROVE BreakInv'
  BY <1>1 DEF SetBreakPoint
<1>2. ASSUME NEW a \in Addr, RmBreakPoint(a), ~breaking, ~recover_break
      PROVE  BreakInv'
  BY <1>2 DEF RmBreakPoint
<1>3. ASSUME ClearBreakPoints, ~breaking, ~recover_break PROVE BreakInv'
  BY <1>3 DEF ClearBreakPoints
<1>4. CASE Resume
  BY <1>4 DEF Resume
<1>5. ASSUME BreakReset, ~recover_break PROVE BreakInv'
  <2>1. 0 \in 0 .. MaxCost
    BY BreakAssumption
  <2> QED
    BY <1>5, <2>1, BreakAssumption DEF BreakReset
<1> QED
  BY <1>1, <1>2, <1>3, <1>4, <1>5 DEF CarefulHost

LEMMA BreakStep == BreakInv /\ [BreakNext]_breakVars => BreakInv'
<1> SUFFICES ASSUME BreakInv, [BreakNext]_breakVars PROVE BreakInv'
  OBVIOUS
<1> USE BreakAssumption
<1>1. ASSUME NEW p \in Addr, NEW z \in BOOLEAN, NEW w \in 1 .. MaxCost,
             StepCall(p, z, w)
      PROVE  BreakInv'
  <2>1. wait_cycles \in 0 .. MaxCost
    BY DEF BreakInv, BreakTypeOK
  <2> QED
    BY <1>1, <2>1, DozeInv, FetchInv DEF StepCall
<1>2. ASSUME NEW p \in Addr, NEW z \in BOOLEAN, NEW w \in 1 .. MaxCost,
             TickRound(p, z, w)
      PROVE  BreakInv'
  <2>1. CASE ~sleeping /\ wait_cycles = 0 /\ RealStep(p, z)
    <3>1. wait_cycles' \in 0 .. MaxCost
      BY <1>2, <2>1 DEF TickRound, Doze
    <3> QED
      BY <2>1, <3>1, FetchInv
  <2>2. CASE ~sleeping /\ wait_cycles > 0
    BY <1>2, <2>2
       DEF TickRound, Doze, BreakInv, BreakTypeOK, NoneLost, HaltHolds, AtBreak, debugVars
  <2> QED
    BY <1>2, <2>1, <2>2, DozeInv DEF TickRound
<1>3. CASE CarefulHost
  BY <1>3, HostInv
<1>4. CASE UNCHANGED breakVars
  BY <1>4 DEF breakVars, debugVars, cpuVars, BreakInv, BreakTypeOK, NoneLost, HaltHolds, AtBreak
<1> QED
  BY <1>1, <1>2, <1>3, <1>4 DEF BreakNext, Stepped, Clocked

\* The invariant holds in every run with a host that is careful.
THEOREM BreakInvariant == BreakSpec => []BreakInv
BY BreakStarts, BreakStep, PTL DEF BreakSpec

\* The variables keep their types whatever a careful host does: breakpoints and the last
\* one hit are addresses, and no wait is longer than the longest instruction's.
THEOREM TypesAreKept == BreakSpec => []BreakTypeOK
<1>1. BreakInv => BreakTypeOK
  BY DEF BreakInv
<1> QED
  BY <1>1, BreakInvariant, PTL

\* No breakpoint of such a host is lost, and none it removed comes back, across
\* any number of halts, resumes and resets.
THEOREM BreakpointsAreKept == BreakSpec => []NoneLost
<1>1. BreakInv => NoneLost
  BY DEF BreakInv
<1> QED
  BY <1>1, BreakInvariant, PTL

\* A halted computer executes nothing.
THEOREM HaltIsHonest == BreakSpec => []HaltHolds
<1>1. BreakInv => HaltHolds
  BY DEF BreakInv
<1> QED
  BY <1>1, BreakInvariant, PTL

\* The CPU passes a breakpoint only on the host's word, and once for each.
THEOREM EveryPassStops == BreakSpec => StopsAtBreak
<1> DEFINE Stops ==
      ran' \in wanted => /\ recover_break /\ last_break = ran'
                        /\ ~recover_break' /\ ran' \in breakpoints'
<1>1. BreakInv /\ [BreakNext]_breakVars => [Stops]_breakVars
  <2> SUFFICES ASSUME BreakInv, BreakNext, ran' \in wanted
               PROVE  /\ recover_break /\ last_break = ran'
                      /\ ~recover_break' /\ ran' \in breakpoints'
    OBVIOUS
  <2>1. ran' # Nowhere
    BY BreakAssumption DEF BreakInv, BreakTypeOK
  <2>2. PICK p \in Addr, z \in BOOLEAN : RealStep(p, z)
    BY <2>1
       DEF BreakNext, Stepped, Clocked, StepCall, TickRound, Doze, CarefulHost, Resume,
           BreakReset, SetBreakPoint, RmBreakPoint, ClearBreakPoints
  <2>3. pc \notin breakpoints /\ ran' = pc
    BY <2>1, <2>2 DEF RealStep
  <2>4. recover_break /\ last_break = pc
    BY <2>3 DEF BreakInv, NoneLost
  <2> QED
    BY <2>2, <2>3, <2>4 DEF RealStep, isBreakPoint
<1> QED
  BY <1>1, BreakInvariant, PTL DEF BreakSpec, StopsAtBreak
=============================================================================
