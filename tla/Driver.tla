-------------------------------- MODULE Driver ------------------------------
(***************************************************************************)
(* The whole program, src/main.c: the arguments, the stage they ask for,   *)
(* and the composition of the parser, the code generator and, when the     *)
(* code was printed, its execution.                                        *)
(*                                                                         *)
(* The source is its tokens (module Scanner is about how they come out of  *)
(* the characters).  Both the parser and the generator may exit(1).        *)
(***************************************************************************)
EXTENDS Integers, Sequences, Syntax, Nodes, Tokens

CONSTANTS
  Texts,       \* the sources
  CommandLines,   \* argc, and argv[1] where argc is 3
  WordBits, LongBits, MaxSlots, Fuel

ASSUME CommandLinesAssumption == CommandLines \subseteq [argc : Nat \ {0}, flag : STRING]

VARIABLES
  cmd,         \* the arguments apart from the source
  text, parsing, at, pstack, ret, perror,                  \* of the parser
  generating, gstack, sb, next_reg, terminated,            \* of the generator
  pc, temps, addr, slots, status, result,                  \* of the execution
  main,        \* where main is
  stdout,      \* what main has printed
  exit_code

parser == <<text, parsing, at, pstack, ret, perror>>
generator == <<generating, gstack, sb, next_reg, terminated>>
execution == <<pc, temps, addr, slots, status, result>>
vars == <<cmd, parser, generator, execution, main, stdout, exit_code>>

P == INSTANCE Parser WITH phase <- parsing, stack <- pstack, error <- perror
C == INSTANCE Compiler WITH Programs <- Stmts(Node), ast <- ret,
                            phase <- generating, stack <- gstack

-----------------------------------------------------------------------------
Flags == [ast |-> "-e=ast", lex |-> "-e=lex", ir |-> "-e=ir"]

Usage == cmd.argc <= 1 \/ cmd.argc >= 4
HasFlag == cmd.argc = 3
UnknownStage == HasFlag /\ \A s \in DOMAIN Flags : Flags[s] # cmd.flag

Stage ==
  IF HasFlag THEN CHOOSE s \in DOMAIN Flags : Flags[s] = cmd.flag ELSE "ir"

Line(what, of) == [what |-> what, of |-> of]

Exit(code) == main' = "exited" /\ exit_code' = code

Init ==
  /\ cmd \in CommandLines
  /\ P!Init
  /\ generating = "called" /\ gstack = << >> /\ sb = << >>
  /\ next_reg = 0 /\ terminated = FALSE
  /\ C!QBE!Init
  /\ main = "start"
  /\ stdout = << >>
  /\ exit_code = 0

(* The arguments that main does not accept. *)
Refuse ==
  /\ main = "start"
  /\ Usage \/ UnknownStage
  /\ stdout' = <<Line(IF Usage THEN "usage" ELSE "unknown stage", NULL)>>
  /\ Exit(IF Usage THEN 0 ELSE 1)
  /\ UNCHANGED <<cmd, parser, generator, execution>>

Begin ==
  /\ main = "start"
  /\ ~Usage /\ ~UnknownStage
  /\ main' = IF Stage = "lex" THEN "lex" ELSE "parse"
  /\ UNCHANGED <<cmd, parser, generator, execution, stdout, exit_code>>

Scanned == P!Tok(Len(stdout) + 1)

(* Faulty: the loop ends at the first error. *)
LexTokenStop ==
  /\ main = "lex"
  /\ Scanned.kind # "TK_EOF"
  /\ stdout' = Append(stdout, Line("token", Scanned))
  /\ IF Scanned.kind = "TK_INVALID" THEN Exit(1) ELSE UNCHANGED <<main, exit_code>>
  /\ UNCHANGED <<cmd, parser, generator, execution>>

LexToken ==
  /\ main = "lex"
  /\ Scanned.kind # "TK_EOF"
  /\ stdout' = Append(stdout, Line("token", Scanned))
  /\ exit_code' = IF Scanned.kind = "TK_INVALID" THEN 1 ELSE exit_code
  /\ UNCHANGED <<cmd, parser, generator, execution, main>>

LexEnd ==
  /\ main = "lex"
  /\ Scanned.kind = "TK_EOF"
  /\ Exit(exit_code)
  /\ UNCHANGED <<cmd, parser, generator, execution, stdout>>

(* parse; error_at and error exit. *)
Parse ==
  /\ main = "parse"
  /\ P!Next
  /\ IF parsing' = "error" THEN Exit(1) ELSE UNCHANGED <<main, exit_code>>
  /\ UNCHANGED <<cmd, generator, execution, stdout>>

Dump ==
  /\ main = "parse"
  /\ parsing = "done"
  /\ Stage = "ast"
  /\ stdout' = <<Line("tree", ret)>>
  /\ Exit(0)
  /\ UNCHANGED <<cmd, parser, generator, execution>>

Codegen ==
  /\ main = "parse"
  /\ parsing = "done"
  /\ Stage = "ir"
  /\ main' = "codegen"
  /\ UNCHANGED <<cmd, parser, generator, execution, stdout, exit_code>>

(* codegen; error exits. *)
Generate ==
  /\ main = "codegen"
  /\ C!Next
  /\ IF generating' = "error" THEN Exit(1) ELSE UNCHANGED <<main, exit_code>>
  /\ UNCHANGED <<cmd, parser, execution, stdout>>

Puts ==
  /\ main = "codegen"
  /\ generating = "done"
  /\ stdout' = <<Line("code", sb)>>
  /\ Exit(0)
  /\ UNCHANGED <<cmd, parser, generator, execution>>

(* What was printed is run. *)
Execute ==
  /\ main = "exited"
  /\ stdout # << >> /\ stdout[1].what = "code"
  /\ C!QBE!Step
  /\ UNCHANGED <<cmd, parser, generator, main, stdout, exit_code>>

Next ==
  \/ Refuse \/ Begin \/ LexToken \/ LexEnd \/ Parse \/ Dump
  \/ Codegen \/ Generate \/ Puts \/ Execute

Spec == Init /\ [][Next]_vars /\ WF_vars(Next)
=============================================================================
