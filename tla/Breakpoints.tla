---------------------------- MODULE Breakpoints ----------------------------
(***************************************************************************)
(* The debugger's side of the computer: the set of breakpoints, the halt,  *)
(* and Resume, which takes the breakpoint it resumes from out of the set   *)
(* until the CPU has passed it.  The CPU is reduced to where it fetches    *)
(* and when.                                                               *)
(***************************************************************************)
EXTENDS Integers

CONSTANTS
  Addr,    \* the addresses of instructions
  Entry,   \* where the CPU starts after a reset (0x100000)
  Nowhere, \* stands for no address
  MaxCost  \* the longest instruction, in cycles

ASSUME BreakAssumption ==
  /\ Entry \in Addr
  /\ Nowhere \notin Addr
  /\ MaxCost \in Nat \ {0}

VARIABLES
  breakpoints,
  breaking,       \* the computer is halted
  last_break,
  recover_break,  \* last_break was taken out of the set, and has to go back
  pc,
  sleeping,
  wait_cycles,
  wanted,         \* history: the breakpoints the host has set and not removed
  ran             \* history: the address executed in the last step, or Nowhere

debugVars == <<breakpoints, breaking, last_break, recover_break>>
cpuVars   == <<pc, sleeping, wait_cycles>>
breakVars == <<debugVars, cpuVars, wanted, ran>>

BreakTypeOK ==
  /\ breakpoints \subseteq Addr
  /\ breaking \in BOOLEAN
  /\ last_break \in Addr
  /\ recover_break \in BOOLEAN
  /\ pc \in Addr
  /\ sleeping \in BOOLEAN
  /\ wait_cycles \in 0 .. MaxCost
  /\ wanted \subseteq Addr
  /\ ran \in Addr \cup {Nowhere}

BreakInit ==
  /\ breakpoints = {} /\ wanted = {}
  /\ breaking = FALSE /\ recover_break = FALSE
  /\ last_break \in Addr    \* the constructor does not set it
  /\ pc = Entry /\ sleeping = FALSE /\ wait_cycles = 0
  /\ ran = Nowhere

-----------------------------------------------------------------------------
(* Calls of the host                                                       *)

SetBreakPoint(a) ==
  /\ breakpoints' = breakpoints \cup {a}
  /\ wanted' = wanted \cup {a}
  /\ ran' = Nowhere
  /\ UNCHANGED <<breaking, last_break, recover_break, cpuVars>>

RmBreakPoint(a) ==
  /\ breakpoints' = breakpoints \ {a}
  /\ wanted' = wanted \ {a}
  /\ ran' = Nowhere
  /\ UNCHANGED <<breaking, last_break, recover_break, cpuVars>>

ClearBreakPoints ==
  /\ breakpoints' = {}
  /\ wanted' = {}
  /\ ran' = Nowhere
  /\ UNCHANGED <<breaking, last_break, recover_break, cpuVars>>

\* Mutant: the breakpoint is removed for good.
Resume_ForGood ==
  /\ breaking
  /\ breaking' = FALSE
  /\ breakpoints' = breakpoints \ {last_break}
  /\ ran' = Nowhere
  /\ UNCHANGED <<last_break, recover_break, cpuVars, wanted>>

Resume ==
  /\ breaking
  /\ breaking' = FALSE
  /\ breakpoints' = breakpoints \ {last_break}
  /\ recover_break' = TRUE
  /\ ran' = Nowhere
  /\ UNCHANGED <<last_break, cpuVars, wanted>>

BreakReset ==
  /\ breaking' = FALSE
  /\ pc' = Entry /\ sleeping' = FALSE /\ wait_cycles' = 0
  /\ ran' = Nowhere
  /\ UNCHANGED <<breakpoints, last_break, recover_break, wanted>>

\* Mutant: the flag is cleared and the breakpoint does not go back.
isBreakPoint_Forgets(a) ==
  /\ breaking' = (breaking \/ a \in breakpoints)
  /\ last_break' = IF a \in breakpoints THEN a ELSE last_break
  /\ recover_break' = (recover_break /\ a \in breakpoints)
  /\ UNCHANGED breakpoints

\* Mutant: the breakpoint goes back and the flag stays.
isBreakPoint_Again(a) ==
  /\ breaking' = (breaking \/ a \in breakpoints)
  /\ last_break' = IF a \in breakpoints THEN a ELSE last_break
  /\ breakpoints' = IF recover_break /\ a \notin breakpoints
                      THEN breakpoints \cup {last_break} ELSE breakpoints
  /\ UNCHANGED recover_break

\* isBreakPoint, which the CPU asks before it fetches, does more than its name says:
\* it halts the computer, or puts the breakpoint back that Resume took out.
isBreakPoint(a) ==
  \/ /\ a \in breakpoints
     /\ breaking' = TRUE /\ last_break' = a
     /\ UNCHANGED <<breakpoints, recover_break>>
  \/ /\ a \notin breakpoints
     /\ breakpoints' =
          IF recover_break THEN breakpoints \cup {last_break} ELSE breakpoints
     /\ recover_break' = FALSE
     /\ UNCHANGED <<breaking, last_break>>

-----------------------------------------------------------------------------
(* The CPU                                                                 *)

\* Mutant: the instruction runs although there is a breakpoint.
RealStep_Runs(p, z) ==
  /\ isBreakPoint(pc)
  /\ ran' = pc /\ pc' = p /\ sleeping' = z
  /\ UNCHANGED wanted

\* RealStep: the instruction at pc takes w cycles, may put the CPU to sleep (z)
\* and leaves pc at p, unless there is a breakpoint.
RealStep(p, z) ==
  /\ isBreakPoint(pc)
  /\ IF pc \in breakpoints
       THEN ran' = Nowhere /\ UNCHANGED <<pc, sleeping>>
       ELSE ran' = pc /\ pc' = p /\ sleeping' = z
  /\ UNCHANGED wanted

\* A CPU that sleeps fetches nothing; an interrupt may wake it at p.
Doze(p) ==
  /\ sleeping
  /\ ran' = Nowhere
  /\ \/ sleeping' = FALSE /\ pc' = p
     \/ UNCHANGED <<sleeping, pc>>
  /\ UNCHANGED <<debugVars, wait_cycles, wanted>>

\* A call of VComputer::Step.
StepCall(p, z, w) ==
  \/ Doze(p)
  \/ /\ ~sleeping
     /\ RealStep(p, z)
     /\ wait_cycles' = IF pc \in breakpoints THEN wait_cycles ELSE w

\* Mutant: the loop does not look at isHalted.
TickRound_Deaf(p, z, w) ==
  \/ Doze(p)
  \/ /\ ~sleeping /\ wait_cycles = 0
     /\ RealStep(p, z)
     /\ wait_cycles' = (IF pc \in breakpoints THEN 0 ELSE w) - 1
  \/ /\ ~sleeping /\ wait_cycles > 0
     /\ wait_cycles' = wait_cycles - 1
     /\ ran' = Nowhere
     /\ UNCHANGED <<debugVars, pc, sleeping, wanted>>

\* One round of the loop in TR3200::Tick.  It leaves a halted computer as it is,
\* the count of cycles too.
TickRound(p, z, w) ==
  \/ Doze(p)
  \/ /\ ~sleeping /\ wait_cycles = 0
     /\ RealStep(p, z)
     /\ wait_cycles' = IF pc \in breakpoints THEN 0
                       ELSE IF breaking THEN w ELSE w - 1
  \/ /\ ~sleeping /\ wait_cycles > 0
     /\ wait_cycles' = IF breaking THEN wait_cycles ELSE wait_cycles - 1
     /\ ran' = Nowhere
     /\ UNCHANGED <<debugVars, pc, sleeping, wanted>>

Clocked ==
  \E p \in Addr, z \in BOOLEAN, w \in 1 .. MaxCost : TickRound(p, z, w)

Stepped ==
  \E p \in Addr, z \in BOOLEAN, w \in 1 .. MaxCost : StepCall(p, z, w)

\* A host that edits the set only while the computer runs freely, and does not
\* reset it between Resume and the instruction it resumes.  The emulator in tools/
\* is one: it sets its breakpoints before it starts.
CarefulHost ==
  \/ \E a \in Addr : SetBreakPoint(a)
  \/ /\ ~breaking /\ ~recover_break
     /\ ClearBreakPoints \/ \E a \in Addr : RmBreakPoint(a)
  \/ Resume
  \/ ~recover_break /\ BreakReset

\* A host that makes any of these calls at any time.
AnyHost ==
  \/ \E a \in Addr : SetBreakPoint(a) \/ RmBreakPoint(a)
  \/ ClearBreakPoints \/ Resume \/ BreakReset

BreakNext == Stepped \/ Clocked \/ CarefulHost

BreakSpec == BreakInit /\ [][BreakNext]_breakVars

AnySpec == BreakInit /\ [][Stepped \/ Clocked \/ AnyHost]_breakVars

-----------------------------------------------------------------------------
(* Properties                                                              *)

\* The set holds what the host set and did not remove, but for the breakpoint it
\* is resuming from: none is lost and none comes back.
NoneLost ==
  /\ breakpoints \subseteq wanted
  /\ wanted \ breakpoints \subseteq IF recover_break THEN {last_break} ELSE {}

\* An instruction at a breakpoint runs only because the host resumed from that
\* very breakpoint, and it runs once: the next pass halts again.
StopsAtBreak ==
  [][ran' \in wanted =>
       recover_break /\ last_break = ran' /\ ~recover_break' /\ ran' \in breakpoints']_breakVars

\* "We not executed yet the instruction!" (vcomputer.cpp:258): while the computer
\* is halted by a breakpoint, no instruction runs.
HaltHolds == breaking => ran = Nowhere

\* A computer that was resumed gets past the breakpoint.
ResumeGoesOn == recover_break ~> (~recover_break \/ breaking)
=============================================================================
