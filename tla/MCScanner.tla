------------------------------ MODULE MCScanner -----------------------------
(***************************************************************************)
(* The scanner on every source of at most five characters from one space,  *)
(* one digit, the letters of "if", one punctuation character and one that  *)
(* no token contains; and on each keyword, cut short and continued.        *)
(***************************************************************************)
EXTENDS Scanner, SequencesExt

MCSpace == {" "}
MCDigit == {"1"}
MCLetter == {"i", "f", "r", "e", "t", "u", "n", "l", "s", "o", "_"}

MCKeywords == {<<"r", "e", "t", "u", "r", "n">>, <<"e", "l", "s", "e">>, <<"f", "o", "r">>}
MCWords ==
  MCKeywords
    \cup {Front(w) : w \in MCKeywords}
    \cup {w \o v : w \in MCKeywords, v \in {<<"1">>, <<"_">>, <<"+">>, <<" ", "i", "f">>}}
    \cup {<<"1">> \o w : w \in MCKeywords}

MCPunctuated == {<<c>> \o s : c \in Punctuation, s \in {<< >>, <<"i">>, <<"=">>}}

MCSources ==
  SeqOf({" ", "1", "i", "f", "+", "?"}, 5)
    \cup MCWords
    \cup MCPunctuated
=============================================================================
