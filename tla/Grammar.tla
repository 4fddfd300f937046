------------------------------- MODULE Grammar ------------------------------
(***************************************************************************)
(* The grammar that parser.c is written for, without reference to how it   *)
(* reads: the sets of trees that a stretch of the text spells, by          *)
(* recursion over the ways the stretch may be divided.                     *)
(*                                                                         *)
(* One rule is not context free: a * or & is a postfix operator unless the *)
(* next token may start an operand.                                        *)
(*                                                                         *)
(* The rules are operators of T, the whole text; of the stretch i .. j;    *)
(* and of G, which has the trees of every sort for every stretch.  The     *)
(* recursion is the function Trees(T), whose values follow from the rules. *)
(***************************************************************************)
EXTENDS Integers, Sequences, Syntax, Tokens

At(T, k) == IF k \in 1 .. Len(T) THEN T[k].kind ELSE "TK_EOF"

IsId(n) == n.kind = "NKEx_LIT" /\ n.lit = "LK_ID"

(* Where in the stretch a token of some kinds is, with something on either
   side of it. *)
Splits(T, i, j, kinds) == {k \in i + 1 .. j - 1 : At(T, k) \in kinds}

BinopOf == [TK_ADD |-> "BINOP_ADD", TK_SUB |-> "BINOP_SUB",
            TK_MUL |-> "BINOP_MUL", TK_DIV |-> "BINOP_DIV"]
UnaopOf == [TK_MUL |-> "UNAOP_STAR", TK_AMP |-> "UNAOP_ADDR"]

(* Operands of one level joined by its operators, to the left. *)
Joined(T, G, i, j, sort, operand, kinds) ==
  G[<<operand, i, j>>] \cup
    UNION {{NewBinop(BinopOf[At(T, k)], l, r) :
              l \in G[<<sort, i, k - 1>>], r \in G[<<operand, k + 1, j>>]} :
           k \in Splits(T, i, j, kinds)}

Sum(T, G, i, j) == Joined(T, G, i, j, "sum", "product", {"TK_ADD", "TK_SUB"})
Product(T, G, i, j) == Joined(T, G, i, j, "product", "unary", {"TK_MUL", "TK_DIV"})

Expr(T, G, i, j) ==
  G[<<"sum", i, j>>] \cup
    UNION {{NewBinop("BINOP_ASS", l, r) :
              l \in {n \in G[<<"sum", i, k - 1>>] : IsId(n)}, r \in G[<<"expr", k + 1, j>>]} :
           k \in Splits(T, i, j, {"TK_ASS"})}

(* A prefix binds weaker than a postfix; a plus leaves no trace. *)
Unary(T, G, i, j) ==
  IF i > j THEN {}
  ELSE CASE At(T, i) = "TK_ADD" -> G[<<"unary", i + 1, j>>]
         [] At(T, i) = "TK_SUB" -> {NewUnary("UNAOP_NEG", n) : n \in G[<<"unary", i + 1, j>>]}
         [] OTHER -> G[<<"operand", i, j>>]

LiteralOf(token) ==
  CASE token.kind = "TK_ID" -> {NewLit("LK_ID", token.str)}
    [] token.kind = "TK_INT" -> {NewLit("LK_INT", token.str)}
    [] OTHER -> {}

Postfixed(T, G, i, j) ==
  IF i > j THEN {}
  ELSE IF i = j THEN LiteralOf(T[i])
  ELSE IF At(T, j) \in DOMAIN UnaopOf /\ ~StartsExpr(At(T, j + 1))
  THEN {NewUnary(UnaopOf[At(T, j)], n) : n \in G[<<"operand", i, j - 1>>]}
  ELSE IF At(T, i) = "TK_OPAREN" /\ At(T, j) = "TK_CPAREN" THEN G[<<"expr", i + 1, j - 1>>]
  ELSE {}

(* An expression that may be missing, and what stands for it then. *)
Optional(G, i, j, v) == IF i > j THEN {NewLit("LK_INT", v)} ELSE G[<<"expr", i, j>>]

-----------------------------------------------------------------------------
(* Any number of statements: before the last one there is nothing, or the
   end of another. *)
StmtList(T, G, i, j) ==
  IF i > j THEN {<< >>}
  ELSE UNION {{Append(list, s) : list \in G[<<"list", i, k - 1>>], s \in G[<<"stmt", k, j>>]} :
              k \in {h \in i .. j : h = i \/ At(T, h - 1) \in {"TK_SEMI", "TK_CCURLY"}}}

Block(T, G, i, j) ==
  IF i < j /\ At(T, i) = "TK_OCURLY" /\ At(T, j) = "TK_CCURLY"
  THEN {NewStBlock(list) : list \in G[<<"list", i + 1, j - 1>>]}
  ELSE {}

(* The blocks of an if, a for or a while begin where one can. *)
BlockStarts(T, i, j) == Splits(T, i, j, {"TK_OCURLY"})

If(T, G, i, j) ==
  UNION {{NewStIf(c, b, NULL) : c \in G[<<"expr", i + 1, k - 1>>], b \in G[<<"block", k, j>>]} \cup
         UNION {{NewStIf(c, b, e) : c \in G[<<"expr", i + 1, k - 1>>], b \in G[<<"block", k, h - 1>>],
                                    e \in G[<<"block", h + 1, j>>]} :
                h \in Splits(T, k, j, {"KW_ELSE"})} :
         k \in BlockStarts(T, i, j)}

While(T, G, i, j) ==
  UNION {{NewStForWhile(c, b) : c \in Optional(G, i + 1, k - 1, 1), b \in G[<<"block", k, j>>]} :
         k \in BlockStarts(T, i, j)}

For(T, G, i, j) ==
  UNION {UNION {UNION {{NewStFor(a, c, p, b) :
                          a \in Optional(G, i + 1, g - 1, 0), c \in G[<<"expr", g + 1, h - 1>>],
                          p \in Optional(G, h + 1, k - 1, 0), b \in G[<<"block", k, j>>]} :
                       k \in BlockStarts(T, h, j)} :
                h \in Splits(T, g, j, {"TK_SEMI"})} :
         g \in Splits(T, i, j, {"TK_SEMI"})}

(* An expression up to a semicolon. *)
Ended(T, G, i, j) == IF At(T, j) = "TK_SEMI" THEN G[<<"expr", i, j - 1>>] ELSE {}

Stmt(T, G, i, j) ==
  IF i > j THEN {}
  ELSE CASE At(T, i) = "TK_OCURLY" -> G[<<"block", i, j>>]
         [] At(T, i) = "KW_IF" -> If(T, G, i, j)
         [] At(T, i) = "KW_FOR" -> While(T, G, i, j) \cup For(T, G, i, j)
         [] At(T, i) = "KW_RETURN" -> {NewStReturn(n) : n \in Ended(T, G, i + 1, j)}
         [] OTHER -> {NewStExpr(n) : n \in Ended(T, G, i, j)}

-----------------------------------------------------------------------------
Sorts == {"operand", "unary", "product", "sum", "expr", "block", "stmt", "list"}

Stretches(T) == Sorts \X (1 .. Len(T) + 1) \X (0 .. Len(T))

Rule(T, G, x) ==
  LET i == x[2]
      j == x[3]
  IN  CASE x[1] = "operand" -> Postfixed(T, G, i, j)
        [] x[1] = "unary" -> Unary(T, G, i, j)
        [] x[1] = "product" -> Product(T, G, i, j)
        [] x[1] = "sum" -> Sum(T, G, i, j)
        [] x[1] = "expr" -> Expr(T, G, i, j)
        [] x[1] = "block" -> Block(T, G, i, j)
        [] x[1] = "stmt" -> Stmt(T, G, i, j)
        [] x[1] = "list" -> StmtList(T, G, i, j)

Trees(T) == LET G[x \in Stretches(T)] == Rule(T, G, x) IN G

(* The programs that T spells: one, or none. *)
Programs(T) == Trees(T)[<<"stmt", 1, Len(T)>>]
=============================================================================
