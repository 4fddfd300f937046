-------------------------------- MODULE Names -------------------------------
(***************************************************************************)
(* The names and lines of src/codegen.c as memory: a name is formatted     *)
(* into the ring of util.c, copied by crc_from_cstr, held by a local of    *)
(* the generator (rc_str) while deeper calls format names and lines of     *)
(* their own, put into lines, and deleted when the local's scope is left.  *)
(*                                                                         *)
(* Which functions call which is left open: any of them may call any       *)
(* other, as deep as MaxCalls.                                             *)
(***************************************************************************)
EXTENDS Format, SequencesExt

CONSTANTS
  Ident,      \* the identifiers of the program
  Fixed,      \* the names that are literals of the code: .init, .post, .sexpr
  MaxNames,   \* bound on next_reg
  MaxCalls    \* bound on the calls

ASSUME NamesAssumption == Ident \cup Fixed \subseteq Seq(STRING)
ASSUME MaxNamesAssumption == MaxNames \in Nat

(* "%zu" *)
Decimal == <<"0", "1", "2", "3", "4", "5", "6", "7", "8", "9">>
Zu[n \in Nat] ==
  IF n < 10 THEN <<Decimal[n + 1]>>
  ELSE Append(Zu[n \div 10], Decimal[(n % 10) + 1])

(* A name fits a buffer: next_reg is a size_t, which has at most 20 digits,
   and the code's buffers have 2048 bytes. *)
ASSUME NamesFit == \A n \in 0 .. MaxNames - 1 : Len(<<".">> \o Zu[n]) < Size

VARIABLES
  next_reg,
  heap,    \* the strings that crc_from_cstr has made: "text" and "live"
  stack,   \* the active calls: var_name, and the rc_str locals in order; with
           \* each pointer the name that it should stand for
  sb       \* the line that was added last, and the line that was meant

names == <<ring, next_reg, heap, stack, sb>>

-----------------------------------------------------------------------------
(* What is read through a pointer: of the ring, of the heap, or of a literal. *)
Garbage == <<"?">>
Contents(p) ==
  CASE p.to = "heap" -> IF heap[p.at].live THEN heap[p.at].text ELSE Garbage
    [] p.to = "ring" -> buffers[p.at]
    [] p.to = "literal" -> p.at

Top == Last(stack)
Running == stack # << >>
Locals == ToSet(Top.locals)   \* the names in scope

NamesInit ==
  /\ RingInit
  /\ next_reg = 0
  /\ heap = << >>
  /\ stack = <<[var |-> [to |-> "literal", at |-> << >>], meant |-> << >>, locals |-> << >>]>>
  /\ sb = [line |-> << >>, meant |-> << >>]

AddLocal(p, name) ==
  stack' = Append(Front(stack), [Top EXCEPT !.locals = Append(@, [p |-> p, meant |-> name])])

(* Faulty: const char *name = format(...), with no copy. *)
RcStrUncopied(name) ==
  /\ AddLocal([to |-> "ring", at |-> index], name)
  /\ UNCHANGED heap

(* crc_from_cstr copies what formatv has left in the buffer. *)
RcStr(name) ==
  /\ heap' = Append(heap, [text |-> buffers'[index], live |-> TRUE])
  /\ AddLocal([to |-> "heap", at |-> Len(heap) + 1], name)

(* const char *rc_str(name, format(".tmp%zu", next_reg++)) *)
DrawName ==
  /\ Running
  /\ next_reg < MaxNames
  /\ LET name == <<".">> \o Zu[next_reg]
     IN  Formatv(name) /\ RcStr(name)
  /\ next_reg' = next_reg + 1
  /\ UNCHANGED sb

(* codegen_expr(node, name), the name being a local or a literal. *)
Call ==
  /\ Running
  /\ Len(stack) < MaxCalls
  /\ \E l \in Locals
             \cup {[p |-> [to |-> "literal", at |-> name], meant |-> name] : name \in Fixed} :
       stack' = Append(stack, [var |-> l.p, meant |-> l.meant, locals |-> << >>])
  /\ UNCHANGED <<ring, next_reg, heap, sb>>

(* builder_add: the line is formatted and then copied out of the buffer. *)
BuilderAdd(text, meant) ==
  /\ Formatv(text)
  /\ sb' = [line |-> buffers'[index], meant |-> meant]
  /\ UNCHANGED <<next_reg, heap, stack>>

(* "jnz %%%s, ...", of a local in scope. *)
AddTest ==
  /\ Running
  /\ \E l \in Locals : BuilderAdd(<<"%">> \o Contents(l.p), <<"%">> \o l.meant)

(* "%%%s =l loadw %%%s", of var_name and a local. *)
AddUnary ==
  /\ Running
  /\ \E l \in Locals :
       BuilderAdd(<<"%">> \o Contents(Top.var) \o <<"%">> \o Contents(l.p),
                  <<"%">> \o Top.meant \o <<"%">> \o l.meant)

(* "%%%s =l %s %%%s, %%%s", of var_name and two locals. *)
AddBinary ==
  /\ Running
  /\ \E l, r \in Locals :
       BuilderAdd(<<"%">> \o Contents(Top.var) \o <<"%">> \o Contents(l.p)
                    \o <<"%">> \o Contents(r.p),
                  <<"%">> \o Top.meant \o <<"%">> \o l.meant \o <<"%">> \o r.meant)

(* "%%%s =l loadw %%.var." SV_Fmt *)
AddLoad ==
  /\ Running
  /\ \E id \in Ident :
       BuilderAdd(<<"%">> \o Contents(Top.var) \o <<"=">> \o id,
                  <<"%">> \o Top.meant \o <<"=">> \o id)

(* Faulty: the cleanup of the last local only. *)
CleanupLast(locals) ==
  heap' = [k \in DOMAIN heap |->
             IF locals # << >> /\ Last(locals).p.at = k THEN [heap[k] EXCEPT !.live = FALSE]
                                                        ELSE heap[k]]

(* crc__cleanup of every rc_str local: the one reference to the string goes. *)
Cleanup(locals) ==
  heap' = [k \in DOMAIN heap |->
             IF \E l \in ToSet(locals) : l.p.at = k THEN [heap[k] EXCEPT !.live = FALSE]
                                                    ELSE heap[k]]

Leave ==
  /\ Running
  /\ Cleanup(Top.locals)
  /\ stack' = Front(stack)
  /\ UNCHANGED <<ring, next_reg, sb>>

NamesNext == DrawName \/ Call \/ AddTest \/ AddUnary \/ AddBinary \/ AddLoad \/ Leave

NamesSpec == NamesInit /\ [][NamesNext]_names

-----------------------------------------------------------------------------
(* Whatever is formatted and freed between the drawing of a name and its
   use, and however deep, a line has the names it was meant to have: no name
   is read from a buffer that has been given out again, or after its cleanup. *)
LinesAsMeant ==
  Len(sb.meant) < Size => sb.line = sb.meant

(* A line that does not fit is not taken for another one: it ends in the
   dots, which no line ends in that fits. *)
CutLinesShow ==
  Len(sb.meant) >= Size => /\ Len(sb.line) = Size - 1
                           /\ SubSeq(sb.line, Size - 3, Size - 1) = Dots

(* Exactly the names of the active calls are allocated: none is lost on the
   way, and none is left when codegen returns. *)
LiveNamesAreLocals ==
  {k \in DOMAIN heap : heap[k].live}
    = UNION {{l.p.at : l \in ToSet(stack[d].locals)} : d \in DOMAIN stack}
=============================================================================
