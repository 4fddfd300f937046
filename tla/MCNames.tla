------------------------------ MODULE MCNames -------------------------------
(***************************************************************************)
(* Two buffers in use and names of up to three draws in three calls, so     *)
(* that every name may be overwritten in the ring before it is used; lines *)
(* on both sides of the size of a buffer.                                  *)
(***************************************************************************)
EXTENDS Names

(* "%zu" beyond the numbers that the run draws: the digits are those of n,
   with no zero before them. *)
Value(digit) == CHOOSE v \in 0 .. 9 : Decimal[v + 1] = digit
ASSUME ZuIsDecimal ==
  \A n \in 0 .. 1001 :
    /\ FoldLeft(LAMBDA v, digit : 10 * v + Value(digit), 0, Zu[n]) = n
    /\ Zu[n][1] = "0" => n = 0

MCIdent == {<<"x">>, <<"x", "x", "x", "x", "x", "x">>}
MCFixed == {<<".", "i">>}

(* The texts the generator formats: names, lines of a variable's name and
   up to two names in scope, and lines of an identifier. *)
Draws == {<<".">> \o Zu[n] : n \in 0 .. MaxNames - 1}
VarNames == {<< >>} \cup MCFixed \cup Draws
Operands == {<<"%">> \o d : d \in Draws}
Results == {<<"%">> \o v : v \in VarNames}
MCText ==
  Draws \cup Operands
    \cup {t \o l : t \in Results, l \in Operands}
    \cup {t \o l \o r : t \in Results, l \in Operands, r \in Operands}
    \cup {t \o <<"=">> \o id : t \in Results, id \in MCIdent}
=============================================================================
