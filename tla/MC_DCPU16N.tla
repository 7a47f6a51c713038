----------------------------- MODULE MC_DCPU16N -----------------------------
(***************************************************************************)
(* Instances of DCPU16N: a ring of two messages, programs of instructions  *)
(* that between them have every operand form, write and cycle class.       *)
(***************************************************************************)
EXTENDS DCPU16N

CONSTANTS msg0, msg1

Two(o, a, b) == [op |-> o, a |-> a, b |-> b]
One(o, a) == [op |-> o, a |-> a, b |-> "none"]
None(o) == [op |-> o, a |-> "none", b |-> "none"]

MCProgram ==
  {Two("SET", "spnw", "regnw"), Two("STI", "ind", "nw"), Two("IFE", "nw", "spnw"),
   Two("HWR", "memnw", "ind"), One("NEG", "memnw"), One("NEG", "regnw"),
   One("INT", "lit"), One("IAS", "reg"), One("RFI", "lit"), One("IAQ", "reg"),
   One("JSR", "reg"), One("HCF", "reg"), None("HLT"), None("BYT"), None("SKP")}

\* One instruction reads [REG + nextword] as operand a.
MCIndexed ==
  {Two("SET", "regnw", "reg"), Two("IFE", "lit", "reg"), One("IAS", "reg"),
   Two("SET", "spnw", "memnw"), None("SKP")}
=============================================================================
