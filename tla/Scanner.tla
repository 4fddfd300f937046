------------------------------- MODULE Scanner ------------------------------
(***************************************************************************)
(* The scanner, next_token of src/scanner.c, called by the loop of main    *)
(* that prints the tokens of a source (-e=lex).                            *)
(*                                                                         *)
(* A character is a string of length one; which are spaces, digits and     *)
(* letters is a parameter (ctype.h), and a source ends in NUL, which is    *)
(* none of these.  A token is its kind and the place of its text.          *)
(***************************************************************************)
EXTENDS Integers, Sequences, FiniteSets, Tokens

CONSTANTS
  Sources,               \* the sources, without their NUL
  Space, Digit, Letter   \* isspace, isdigit, and isalpha or an underscore

NUL == "NUL"
Alnum == Letter \cup Digit

Punctuation == {"+", "-", "*", "/", "=", "&", "(", ")", "{", "}", ";"}

ASSUME SourcesAssumption ==
  \A s \in Sources : s \in Seq(STRING) /\ \A k \in 1 .. Len(s) : s[k] # NUL
ASSUME CharactersAssumption ==
  /\ Space \cap (Alnum \cup Punctuation) = {}
  /\ Digit \cap (Letter \cup Punctuation) = {}
  /\ Letter \cap Punctuation = {}
  /\ NUL \notin Space \cup Alnum

VARIABLES
  source,          \* the source
  pos,             \* *src: the next character
  pc,              \* where next_token is: "start", "number" or "word"
  start,           \* where the number or the word began
  invalid_number,
  out,             \* the tokens printed so far
  exit_code,
  exited           \* main has returned

vars == <<source, pos, pc, start, invalid_number, out, exit_code, exited>>

-----------------------------------------------------------------------------
Char(k) == IF k <= Len(source) THEN source[k] ELSE NUL

PunctuationKind(c) ==
  CASE c = "+" -> "TK_ADD"    [] c = "-" -> "TK_SUB"
    [] c = "*" -> "TK_MUL"    [] c = "/" -> "TK_DIV"
    [] c = "=" -> "TK_ASS"    [] c = "&" -> "TK_AMP"
    [] c = "(" -> "TK_OPAREN" [] c = ")" -> "TK_CPAREN"
    [] c = "{" -> "TK_OCURLY" [] c = "}" -> "TK_CCURLY"
    [] c = ";" -> "TK_SEMI"

(* keyword_ht, whose default is TK_EOF. *)
Keyword(word) ==
  CASE word = <<"r", "e", "t", "u", "r", "n">> -> "KW_RETURN"
    [] word = <<"i", "f">> -> "KW_IF"
    [] word = <<"e", "l", "s", "e">> -> "KW_ELSE"
    [] word = <<"f", "o", "r">> -> "KW_FOR"
    [] OTHER -> "TK_EOF"

In(where) == ~exited /\ pc = where

NextChar == pos' = pos + 1   \* scanner_next_char

(* Faulty: the exit code is that of the last token. *)
ReturnLast(kind, first, len) ==
  /\ pc' = "start"
  /\ out' = Append(out, [kind |-> kind, first |-> first, len |-> len])
  /\ exit_code' = IF kind = "TK_INVALID" THEN 1 ELSE 0
  /\ UNCHANGED <<source, start, invalid_number, exited>>

(* next_token returns; main prints the token and asks for the next. *)
Return(kind, first, len) ==
  /\ pc' = "start"
  /\ out' = Append(out, [kind |-> kind, first |-> first, len |-> len])
  /\ exit_code' = IF kind = "TK_INVALID" THEN 1 ELSE exit_code
  /\ UNCHANGED <<source, start, invalid_number, exited>>

Enter(where) ==
  /\ pc' = where
  /\ start' = pos
  /\ UNCHANGED <<source, pos, out, exit_code, exited>>

-----------------------------------------------------------------------------
Init ==
  /\ source \in Sources
  /\ pos = 1
  /\ pc = "start"
  /\ start = 0
  /\ invalid_number = FALSE
  /\ out = << >>
  /\ exit_code = 0
  /\ exited = FALSE

SkipSpace ==
  /\ In("start")
  /\ Char(pos) \in Space
  /\ NextChar
  /\ UNCHANGED <<source, pc, start, invalid_number, out, exit_code, exited>>

NumberStart ==
  /\ In("start")
  /\ Char(pos) \in Digit
  /\ Enter("number")
  /\ invalid_number' = FALSE

(* Faulty: the flag keeps what the last character was. *)
NumberNextLast ==
  /\ In("number")
  /\ Char(pos) \in Alnum
  /\ NextChar
  /\ invalid_number' = (Char(pos) \in Letter)
  /\ UNCHANGED <<source, pc, start, out, exit_code, exited>>

NumberNext ==
  /\ In("number")
  /\ Char(pos) \in Alnum
  /\ NextChar
  /\ invalid_number' = (invalid_number \/ Char(pos) \in Letter)
  /\ UNCHANGED <<source, pc, start, out, exit_code, exited>>

NumberEnd ==
  /\ In("number")
  /\ Char(pos) \notin Alnum
  /\ Return(IF invalid_number THEN "TK_INVALID" ELSE "TK_INT", start, pos - start)
  /\ UNCHANGED pos

WordStart ==
  /\ In("start")
  /\ Char(pos) \in Letter
  /\ Enter("word")
  /\ UNCHANGED invalid_number

(* Faulty: the loop tests for what ends a word, and forgets the NUL. *)
WordNextUnended ==
  /\ In("word")
  /\ Char(pos) \notin Space \cup Punctuation
  /\ pos <= Len(source) + 2   \* (bounds the run)
  /\ NextChar
  /\ UNCHANGED <<source, pc, start, invalid_number, out, exit_code, exited>>

WordNext ==
  /\ In("word")
  /\ Char(pos) \in Alnum
  /\ NextChar
  /\ UNCHANGED <<source, pc, start, invalid_number, out, exit_code, exited>>

WordEnd ==
  /\ In("word")
  /\ Char(pos) \notin Alnum
  /\ LET kind == Keyword(SubSeq(source, start, pos - 1))
     IN  Return(IF kind # "TK_EOF" THEN kind ELSE "TK_ID", start, pos - start)
  /\ UNCHANGED pos

Single ==
  /\ In("start")
  /\ Char(pos) \in Punctuation
  /\ Return(PunctuationKind(Char(pos)), pos, 1)
  /\ NextChar

Known == Space \cup Alnum \cup Punctuation \cup {NUL}

(* Faulty: the stray character is not consumed. *)
StrayStays ==
  /\ In("start")
  /\ Char(pos) \notin Known
  /\ Len(out) < Len(source)   \* (bounds the run)
  /\ Return("TK_INVALID", pos, 1)
  /\ UNCHANGED pos

Stray ==
  /\ In("start")
  /\ Char(pos) \notin Known
  /\ Return("TK_INVALID", pos, 1)
  /\ NextChar

(* The end of the source is the end of the loop in main. *)
End ==
  /\ In("start")
  /\ Char(pos) = NUL
  /\ exited' = TRUE
  /\ UNCHANGED <<source, pos, pc, start, invalid_number, out, exit_code>>

Next ==
  \/ SkipSpace \/ NumberStart \/ NumberNext \/ NumberEnd
  \/ WordStart \/ WordNext \/ WordEnd \/ Single \/ Stray \/ End

Spec == Init /\ [][Next]_vars /\ WF_vars(Next)

-----------------------------------------------------------------------------
(* The type of every variable; next_token never looks past the NUL. *)
TypeOK ==
  /\ source \in Sources
  /\ pos \in 1 .. Len(source) + 1
  /\ pc \in {"start", "number", "word"}
  /\ start \in 0 .. pos
  /\ invalid_number \in BOOLEAN
  /\ out \in Seq([kind : TokenKind, first : 1 .. Len(source), len : Nat])
  /\ exit_code \in {0, 1}
  /\ exited \in BOOLEAN

-----------------------------------------------------------------------------
(***************************************************************************)
(* What the tokens of a source are.                                        *)
(***************************************************************************)
Characters(t) == t.first .. t.first + t.len - 1

(* Where a token may begin: after what cannot be part of the same token. *)
Begins(k) == ~(Char(k) \in Alnum /\ k > 1 /\ Char(k - 1) \in Alnum)

First(t) == Char(t.first)
Word(t) == SubSeq(source, t.first, t.first + t.len - 1)

(* A number with a letter in it, or a character that begins no token. *)
IsInvalid(t) ==
  \/ First(t) \in Digit /\ \E k \in Characters(t) : Char(k) \in Letter
  \/ First(t) \notin Alnum \cup Punctuation

KindRight(t) ==
  /\ t.kind = "TK_INVALID" <=> IsInvalid(t)
  /\ t.kind = "TK_INT" => First(t) \in Digit
  /\ First(t) \in Letter =>
       t.kind = IF Keyword(Word(t)) = "TK_EOF" THEN "TK_ID" ELSE Keyword(Word(t))
  /\ First(t) \in Punctuation => t.kind = PunctuationKind(First(t))

(* When main has printed the tokens, they cover the source: each character
   that is no space is in exactly one of them, they come in the order of the
   source, each is as long as it can be and of the kind of its text, whatever
   stands between or beside them. *)
TokensOfSource ==
  exited =>
    /\ \A k \in 1 .. Len(source) :
         Cardinality({i \in 1 .. Len(out) : k \in Characters(out[i])})
           = IF Char(k) \in Space THEN 0 ELSE 1
    /\ \A i \in 1 .. Len(out) :
         /\ out[i].len >= 1
         /\ \A k \in Characters(out[i]) : Begins(k) <=> k = out[i].first
         /\ KindRight(out[i])
         /\ i > 1 => out[i - 1].first < out[i].first

(* The exit code tells whether a token of the source, whichever, was
   invalid. *)
ExitCodeTellsErrors ==
  exited => (exit_code = 1 <=> \E i \in 1 .. Len(out) : IsInvalid(out[i]))

(* main gets to the end of every source. *)
Exits == <>exited
=============================================================================
