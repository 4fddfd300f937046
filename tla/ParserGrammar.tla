---------------------------- MODULE ParserGrammar ---------------------------
(***************************************************************************)
(* What parse returns, by the grammar: the parser knows nothing of it.     *)
(***************************************************************************)
EXTENDS Parser, Grammar

(* The tree that parse returns is the one the grammar gives the text: the
   levels of precedence, the side operators associate to, the two readings of
   a star, and the parts of a for that may be missing.  The grammar gives it
   no other. *)
ParsesGrammar == phase = "done" => Programs(text) = {ret}

(* parse refuses a text only if the grammar gives it no tree. *)
RefusesOnlyUngrammatical == phase = "error" => Programs(text) = {}
=============================================================================
