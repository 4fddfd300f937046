------------------------------ MODULE MCDriver ------------------------------
(***************************************************************************)
(* The whole program on a few sources with every construct, each of them   *)
(* with one token left out, put in or exchanged, under every command line; *)
(* words, longs and the stack are those of MCCompiler.                     *)
(***************************************************************************)
EXTENDS Stages, MCPrograms

T(kind) == Token(kind)
X == TkId("x")
Semicolon == T("TK_SEMI")
Curly(s) == <<T("TK_OCURLY")>> \o s \o <<T("TK_CCURLY")>>
Return(s) == <<T("KW_RETURN")>> \o s \o <<Semicolon>>
Let(v) == <<X, T("TK_ASS"), TkInt(v), Semicolon>>

MCBases ==
  {Return(<<TkInt(7), T("TK_SUB"), TkInt(2), T("TK_MUL"), TkInt(3)>>),
   Curly(Let(2) \o Return(<<X, T("TK_AMP")>>)),
   <<T("KW_IF"), TkInt(0)>> \o Curly(Return(<<TkInt(1)>>))
     \o <<T("KW_ELSE")>> \o Curly(Return(<<TkInt(2)>>)),
   Curly(Let(2) \o <<T("KW_FOR"), X>> \o Curly(<<X, T("TK_ASS"), X, T("TK_SUB"), TkInt(1), Semicolon>>)
           \o Return(<<X>>)),
   Curly(<<T("KW_FOR"), X, T("TK_ASS"), TkInt(3), Semicolon, X, Semicolon, X, T("TK_ASS"), X,
           T("TK_SUB"), TkInt(1)>> \o Curly(<< >>) \o Return(<<X>>))}

MCTokens ==
  {X, TkInt(1)} \cup {T(k) : k \in {"TK_INVALID", "TK_ADD", "TK_SUB", "TK_DIV", "TK_ASS", "TK_AMP",
                                   "TK_OPAREN", "TK_SEMI", "TK_CCURLY", "KW_RETURN"}}

Edits(s) ==
  {SubSeq(s, 1, k - 1) \o SubSeq(s, k + 1, Len(s)) : k \in 1 .. Len(s)}
    \cup {SubSeq(s, 1, k) \o <<t>> \o SubSeq(s, k + 1, Len(s)) : k \in 0 .. Len(s), t \in MCTokens}
    \cup {[s EXCEPT ![k] = t] : k \in 1 .. Len(s), t \in MCTokens}

MCTexts == MCBases \cup UNION {Edits(s) : s \in MCBases}

MCCommandLines ==
  [argc : {3}, flag : {"-e=ast", "-e=lex", "-e=ir"}]
    \cup {[argc |-> 1, flag |-> ""], [argc |-> 2, flag |-> ""],
          [argc |-> 3, flag |-> "-e=bin"], [argc |-> 4, flag |-> "-e=ir"]}

MCTrees == NodesOf(UNION {Gr!Programs(t) : t \in MCTexts})
MCNode == MCTrees

-----------------------------------------------------------------------------
Lang == INSTANCE Language WITH ast <- ret, outcome <- exit_code

(* End to end: what a source does when it was compiled and run is what the
   tree that the grammar gives it means. *)
MeansWhatItSays ==
  status # "running" /\ ~Lang!IsOpen(Tree) => <<status, result>> = Lang!Meaning(Tree)

(* main returns or exits on every command line and every source. *)
Exits == <>(main = "exited")
=============================================================================
