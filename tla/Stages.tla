-------------------------------- MODULE Stages ------------------------------
(***************************************************************************)
(* What the stages of main owe to each other and to the grammar, which     *)
(* none of them knows.                                                     *)
(***************************************************************************)
EXTENDS SequencesExt, Driver, Refusal

Gr == INSTANCE Grammar

(* The sources are texts; Node has the trees of the sources, and with a node
   its subtrees. *)
ASSUME SourcesAssumption ==
  /\ \A t \in Texts : t \in Seq(ToSet(t)) /\ \A k \in 1 .. Len(t) : InText(t[k])
  /\ UNION {Gr!Programs(t) : t \in Texts} \subseteq Node

-----------------------------------------------------------------------------
Trees == Gr!Programs(text)
Tree == CHOOSE t \in Trees : TRUE

Exited == main = "exited" /\ ~Usage /\ ~UnknownStage
Valid == \A k \in 1 .. Len(text) : text[k].kind # "TK_INVALID"

(* The stages agree about a source: -e=lex fails on those with an invalid
   token, -e=ast moreover on those the grammar gives no tree, and -e=ir on
   those whose tree is refused.  A stage that fails prints nothing but the
   tokens, which are all printed. *)
StagesAgree ==
  Exited =>
    /\ exit_code = 0 <=>
         CASE Stage = "lex" -> Valid
           [] Stage = "ast" -> Valid /\ Trees # {}
           [] Stage = "ir" -> Valid /\ Trees # {} /\ ~Refused[Tree]
    /\ IF Stage = "lex" THEN Len(stdout) = Len(text)
                        ELSE stdout = << >> <=> exit_code = 1

(* The code generator is only ever given what its own theorems assume: a
   statement whose nodes, all the way down, are well formed.  Node is the
   nodes of the trees that the grammar gives the sources. *)
ParserFeedsGenerator == parsing = "done" => ret \in Stmts(Node)
=============================================================================
