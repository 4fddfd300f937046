------------------------------ MODULE MCParser ------------------------------
(***************************************************************************)
(* The parser on every expression of at most four tokens, on programs with *)
(* every construct of the grammar, and on every text that is one token     *)
(* away from such a program: a token left out, put in or exchanged, or     *)
(* the text broken off.                                                    *)
(***************************************************************************)
EXTENDS ParserGrammar

X == TkId("x")
One == TkInt(1)
T(kind) == Token(kind)
ExprTokens ==
  {X, One} \cup {T(k) : k \in {"TK_ADD", "TK_SUB", "TK_MUL", "TK_DIV", "TK_ASS",
                              "TK_AMP", "TK_OPAREN", "TK_CPAREN"}}
Semicolon == T("TK_SEMI")

(* Shorthands for the programs below. *)
Curly(s) == <<T("TK_OCURLY")>> \o s \o <<T("TK_CCURLY")>>
Paren(s) == <<T("TK_OPAREN")>> \o s \o <<T("TK_CPAREN")>>
Set(s) == <<X, T("TK_ASS")>> \o s
XX == <<X>>

MCShort == {e \o <<Semicolon>> : e \in SeqOf(ExprTokens, 4)}

MCPrograms ==
  {<<T("KW_IF")>> \o XX \o Curly(<<X, Semicolon>>) \o <<T("KW_ELSE")>> \o Curly(<< >>),
   Curly(<<T("KW_IF")>> \o XX \o Curly(<< >>) \o <<T("KW_RETURN"), One, Semicolon>>),
   <<T("KW_FOR"), Semicolon, X, Semicolon>> \o Curly(<< >>),
   <<T("KW_FOR"), X, Semicolon, X, Semicolon, X>> \o Curly(<<X, Semicolon>>),
   <<T("KW_FOR"), X>> \o Curly(<<T("KW_FOR")>> \o Curly(<< >>)),
   Set(Set(<<X, T("TK_SUB"), X, T("TK_MUL")>> \o Paren(<<X, T("TK_SUB"), One>>))) \o <<Semicolon>>,
   <<T("TK_SUB"), X, T("TK_AMP"), T("TK_MUL"), T("TK_DIV"), X, T("TK_MUL"), T("TK_SUB"), One, Semicolon>>,
   Curly(<<X, Semicolon>> \o Curly(Paren(Paren(XX)) \o <<Semicolon>>))}

AllTokens == {X, One} \cup {T(k) : k \in TokenKind \ {"TK_ID", "TK_INT", "TK_EOF"}}

Edits(s) ==
  {SubSeq(s, 1, k) : k \in 0 .. Len(s)}
    \cup {SubSeq(s, 1, k - 1) \o SubSeq(s, k + 1, Len(s)) : k \in 1 .. Len(s)}
    \cup {SubSeq(s, 1, k) \o <<t>> \o SubSeq(s, k + 1, Len(s)) : k \in 0 .. Len(s), t \in AllTokens}
    \cup {[s EXCEPT ![k] = t] : k \in 1 .. Len(s), t \in AllTokens}

MCTexts == MCShort \cup UNION {Edits(s) : s \in MCPrograms}
=============================================================================
