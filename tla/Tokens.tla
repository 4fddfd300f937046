------------------------------- MODULE Tokens -------------------------------
(***************************************************************************)
(* The tokens of Aleron: include/aleron.h, region scanner.  The text of an *)
(* identifier is any value, that of a number the number it denotes; other  *)
(* tokens have none.                                                       *)
(***************************************************************************)
EXTENDS Naturals

Token(kind) == [kind |-> kind, str |-> ""]
TkId(x) == [kind |-> "TK_ID", str |-> x]
TkInt(v) == [kind |-> "TK_INT", str |-> v]

TokenKind == {"TK_INVALID", "TK_EOF", "TK_ID", "TK_INT",
              "TK_ADD", "TK_SUB", "TK_MUL", "TK_DIV", "TK_ASS", "TK_AMP",
              "TK_OPAREN", "TK_CPAREN", "TK_OCURLY", "TK_CCURLY", "TK_SEMI",
              "KW_RETURN", "KW_IF", "KW_ELSE", "KW_FOR"}

(* A token of a text, the end of file apart. *)
InText(token) ==
  /\ token.kind \in TokenKind \ {"TK_EOF"}
  /\ token.kind = "TK_INT" => token.str \in Nat

StartsExpr(kind) == kind \in {"TK_OPAREN", "TK_INT", "TK_ID", "TK_ADD", "TK_SUB"}
=============================================================================
