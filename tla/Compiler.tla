------------------------------ MODULE Compiler ------------------------------
(***************************************************************************)
(* A program from its tree to its exit: codegen writes the text, main      *)
(* prints it when codegen has returned, and the text is run.               *)
(***************************************************************************)
EXTENDS Codegen

CONSTANTS WordBits, LongBits, MaxSlots,
          Fuel   \* how many rounds of loops the language is asked about

ASSUME BitsAssumption ==
  WordBits \in Nat \ {0} /\ LongBits \in Nat /\ WordBits <= LongBits
ASSUME BoundsAssumption == MaxSlots \in Nat /\ Fuel \in Nat

VARIABLES pc, temps, addr, slots, status, result

QBE == INSTANCE Qbe WITH code <- sb

execution == <<pc, temps, addr, slots, status, result>>

CompilerInit == Init /\ QBE!Init

Generate == Next /\ UNCHANGED execution

Execute == phase = "done" /\ QBE!Step /\ UNCHANGED vars

CompilerNext == Generate \/ Execute

CompilerSpec ==
  CompilerInit /\ [][CompilerNext]_<<vars, execution>> /\ WF_<<vars, execution>>(CompilerNext)
=============================================================================
