--------------------------------- MODULE Qbe --------------------------------
(***************************************************************************)
(* What the text that codegen.c writes does when it is run: the part of    *)
(* QBE's intermediate language that the format strings of codegen.c use.   *)
(* test.py (run_aleron) hands the text to qbe and to the C compiler and    *)
(* runs the result; this module stands for all three.                      *)
(*                                                                         *)
(* Every temporary is a long; a variable is a stack slot of a word.        *)
(***************************************************************************)
EXTENDS IR, TLC

CONSTANTS
  WordBits,   \* 32
  LongBits,   \* 64
  MaxSlots    \* how many slots fit on the stack

VARIABLES
  code,     \* the text
  pc,       \* the line to execute next
  temps,    \* the values of the temporaries assigned so far
  addr,     \* the slots the names of variables stand for, where they do
  slots,    \* the contents of the slots allocated so far
  status,   \* "running", or how the program ended
  result    \* what it returned

machine == <<pc, temps, addr, slots, status, result>>

(* v cut to its lowest bits, read as a signed number. *)
Wrap(v, bits) ==
  LET m == 2 ^ bits
      low == v % m
  IN  IF low >= m \div 2 THEN low - m ELSE low

Word(v) == Wrap(v, WordBits)
Long(v) == Wrap(v, LongBits)

(* Division that rounds towards zero. *)
Quotient(a, b) ==
  LET q == (IF a < 0 THEN -a ELSE a) \div (IF b < 0 THEN -b ELSE b)
  IN  IF (a < 0) = (b < 0) THEN q ELSE -q

-----------------------------------------------------------------------------

IsVar(name) == name[1] = ".var."

IsDefined(name) ==
  \/ name[1] = "imm"
  \/ IsVar(name) /\ name \in DOMAIN addr
  \/ ~IsVar(name) /\ name \in DOMAIN temps

ValueOf(name) == IF name[1] = "imm" THEN Long(name[2]) ELSE temps[name]

LabelAt(l) ==
  CHOOSE k \in 1 .. Len(code) : code[k].op = "label" /\ code[k].to = <<l>>

Line == code[pc]
Arg(k) == Line.args[k]

Executes(ops) ==
  /\ status = "running"
  /\ Line.op \in ops
  /\ \A k \in 1 .. Len(Line.args) : IsDefined(Arg(k))

Assign(v) == temps' = (Line.def :> v) @@ temps

Goto(k) == pc' = k /\ UNCHANGED <<status, result>>
Stop(how) == status' = how /\ UNCHANGED <<pc, temps, addr, slots, result>>

-----------------------------------------------------------------------------
Init ==
  /\ pc = 1
  /\ temps = << >>
  /\ addr = << >>
  /\ slots = << >>
  /\ status = "running"
  /\ result = 0

Skip ==
  /\ Executes({"label"})
  /\ Goto(pc + 1)
  /\ UNCHANGED <<temps, addr, slots>>

Compute ==
  /\ Executes({"copy", "add", "sub", "mul"})
  /\ LET a == ValueOf(Arg(1))
         b == ValueOf(Arg(2))
     IN  Assign(Long(CASE Line.op = "copy" -> a
                       [] Line.op = "add" -> a + b
                       [] Line.op = "sub" -> a - b
                       [] Line.op = "mul" -> a * b))
  /\ Goto(pc + 1)
  /\ UNCHANGED <<addr, slots>>

(* The instruction of the machine traps when the quotient does not exist or
   is no long. *)
HasQuotient ==
  LET a == ValueOf(Arg(1))
      b == ValueOf(Arg(2))
  IN  b # 0 /\ Quotient(a, b) = Long(Quotient(a, b))

Divide ==
  /\ Executes({"div"})
  /\ HasQuotient
  /\ Assign(Quotient(ValueOf(Arg(1)), ValueOf(Arg(2))))
  /\ Goto(pc + 1)
  /\ UNCHANGED <<addr, slots>>

DivideTraps == Executes({"div"}) /\ ~HasQuotient /\ Stop("trap")

(* alloc4: a new slot, wherever it stands, every time it is executed. *)
Alloc ==
  /\ Executes({"alloc4"})
  /\ Len(slots) < MaxSlots
  /\ slots' = Append(slots, 0)
  /\ addr' = (Line.def :> Len(slots) + 1) @@ addr
  /\ Goto(pc + 1)
  /\ UNCHANGED temps

AllocOverflows == Executes({"alloc4"}) /\ Len(slots) = MaxSlots /\ Stop("overflow")

StoreWord ==
  /\ Executes({"storew"})
  /\ slots' = [slots EXCEPT ![addr[Arg(2)]] = Word(ValueOf(Arg(1)))]
  /\ Goto(pc + 1)
  /\ UNCHANGED <<temps, addr>>

LoadWord ==
  /\ Executes({"loadw"})
  /\ IsVar(Arg(1))
  /\ Assign(slots[addr[Arg(1)]])
  /\ Goto(pc + 1)
  /\ UNCHANGED <<addr, slots>>

(* A number, which is all that an expression yields, is no address. *)
LoadFaults == Executes({"loadw"}) /\ ~IsVar(Arg(1)) /\ Stop("fault")

Jump ==
  /\ Executes({"jmp"})
  /\ Goto(LabelAt(Line.to[1]))
  /\ UNCHANGED <<temps, addr, slots>>

(* jnz tests a word. *)
Branch ==
  /\ Executes({"jnz"})
  /\ Goto(LabelAt(Line.to[IF Word(ValueOf(Arg(1))) # 0 THEN 1 ELSE 2]))
  /\ UNCHANGED <<temps, addr, slots>>

Return ==
  /\ Executes({"ret"})
  /\ status' = "returned"
  /\ result' = Word(ValueOf(Arg(1)))
  /\ UNCHANGED <<pc, temps, addr, slots>>

(* A name is read that nothing has assigned. *)
ReadsUndefined ==
  /\ status = "running"
  /\ \E k \in 1 .. Len(Line.args) : ~IsDefined(Arg(k))
  /\ Stop("undefined")

Step ==
  \/ Skip \/ Compute \/ Divide \/ DivideTraps \/ Alloc \/ AllocOverflows
  \/ StoreWord \/ LoadWord \/ LoadFaults \/ Jump \/ Branch \/ Return
  \/ ReadsUndefined
=============================================================================
