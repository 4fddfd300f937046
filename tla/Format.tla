------------------------------- MODULE Format -------------------------------
(***************************************************************************)
(* formatv and format of src/util.c: the static buffers that results are   *)
(* given out from, in turn, to every caller in the compiler.               *)
(*                                                                         *)
(* A text is a sequence of characters, a buffer its text up to the first   *)
(* NUL.  The code declares 16 buffers of 2048 bytes and uses 8 of them.    *)
(***************************************************************************)
EXTENDS Integers, Sequences

CONSTANTS
  Text,      \* the texts that the callers' formats and arguments make
  Size,      \* the bytes of a buffer
  Buffers,   \* the buffers that are declared
  Used       \* the index at which the next call goes back to the first one

ASSUME SizeAssumption == Size \in Nat /\ Size >= 4
ASSUME BuffersAssumption == Buffers \in Nat /\ Used \in 1 .. Buffers

VARIABLES
  buffers,
  index,
  given   \* the pointers the callers may hold: given[k] is the result that
          \* k later ones have followed

ring == <<buffers, index, given>>

Age == 0 .. Used - 1

-----------------------------------------------------------------------------
RingInit ==
  /\ buffers = [k \in 0 .. Buffers - 1 |-> << >>]
  /\ index = 0
  /\ given = [k \in Age |-> Used - 1 - k]

(* Faulty: a text is cut without a trace. *)
TruncatedSilently(text) == IF Len(text) >= Size THEN SubSeq(text, 1, Size - 1) ELSE text

(* vsnprintf into a buffer, and the dots over its last characters. *)
Dots == <<".", ".", ".">>
Truncated(text) == IF Len(text) >= Size THEN SubSeq(text, 1, Size - 4) \o Dots ELSE text

(* Faulty: the dots are written where the index is then. *)
WriteNext(text) ==
  buffers' = [buffers EXCEPT ![index] = IF Len(text) >= Size THEN SubSeq(text, 1, Size - 1) ELSE text,
                             ![(index + 1) % Used] = IF Len(text) >= Size THEN Dots ELSE @]

Write(text) == buffers' = [buffers EXCEPT ![index] = Truncated(text)]

(* The result is a pointer to buffers[index], as index is before the call. *)
Formatv(text) ==
  /\ Write(text)
  /\ index' = IF index + 1 >= Used THEN 0 ELSE index + 1
  /\ given' = [k \in Age |-> IF k = 0 THEN index ELSE given[k - 1]]

(* fmt == NULL: the buffer is emptied, and the next call gets it again. *)
FormatvNull ==
  /\ buffers' = [buffers EXCEPT ![index] = << >>]
  /\ UNCHANGED <<index, given>>

RingNext == FormatvNull \/ \E text \in Text : Formatv(text)

RingSpec == RingInit /\ [][RingNext]_ring

-----------------------------------------------------------------------------
R == INSTANCE Recent WITH recent <- [k \in Age |-> buffers[given[k]]]

(* A caller may use a result until Used more have been asked for, wherever
   the other calls come from: it finds there what it asked for, cut if that
   was too long. *)
KeepsRecent == R!Spec
=============================================================================
