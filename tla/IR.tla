--------------------------------- MODULE IR ---------------------------------
(***************************************************************************)
(* The lines of QBE intermediate code that src/codegen.c writes.           *)
(*                                                                         *)
(* A name is a pair: the prefix the format string spells and the number or *)
(* identifier printed after it.  No two pairs print alike, since a prefix  *)
(* that is followed by a number ends in a letter and identifiers occur     *)
(* after ".var." only.                                                     *)
(***************************************************************************)
EXTENDS Integers, Sequences

Name(prefix) == <<prefix, 0>>
Reg(prefix, n) == <<prefix, n>>
Var(id) == <<".var.", id>>
Imm(value) == <<"imm", value>>
None == <<"", 0>>

(* An instruction assigns the name def, if any, from its arguments; to is
   the label a line places or the labels a jump may go to. *)
Ins(op, def, args) == [op |-> op, def |-> def, args |-> args, to |-> << >>]
Label(l) == [op |-> "label", def |-> None, args |-> << >>, to |-> <<l>>]
Store(src, addr) == Ins("storew", None, <<src, addr>>)
Jmp(l) == [op |-> "jmp", def |-> None, args |-> << >>, to |-> <<l>>]
Jnz(arg, l1, l2) ==
  [op |-> "jnz", def |-> None, args |-> <<arg>>, to |-> <<l1, l2>>]
Ret(arg) == Ins("ret", None, <<arg>>)

IsLabel(line) == line.op = "label"
IsJump(line) == line.op \in {"jmp", "jnz", "ret"}

Opcodes == {"label", "copy", "loadw", "storew", "alloc4", "add", "sub", "mul",
            "div", "jmp", "jnz", "ret"}

RetLabel == Name("@.ret")
=============================================================================
