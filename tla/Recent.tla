------------------------------- MODULE Recent -------------------------------
(***************************************************************************)
(* What format of src/util.c promises its callers: the last Used texts it  *)
(* has given out can still be read, recent[0] being the latest.  A call    *)
(* without a format costs the oldest of them and is not itself kept.       *)
(***************************************************************************)
EXTENDS Integers, Sequences

CONSTANTS
  Text,     \* the texts the callers ask for
  Size,     \* the bytes of a buffer
  Used      \* the results that stay readable

VARIABLE recent

Age == 0 .. Used - 1

(* A text and its final NUL fill a buffer; a longer one is cut to end in dots. *)
Dots == <<".", ".", ".">>
Cut(text) == IF Len(text) >= Size THEN SubSeq(text, 1, Size - 4) \o Dots ELSE text

Init == recent = [k \in Age |-> << >>]

Format(text) ==
  recent' = [k \in Age |-> IF k = 0 THEN Cut(text) ELSE recent[k - 1]]

FormatNull == recent' = [recent EXCEPT ![Used - 1] = << >>]

Next == FormatNull \/ \E text \in Text : Format(text)

Spec == Init /\ [][Next]_recent
=============================================================================
