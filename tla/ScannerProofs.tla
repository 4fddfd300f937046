---------------------------- MODULE ScannerProofs ---------------------------
(***************************************************************************)
(* Theorems about the scanner, for every set of sources and every division *)
(* of the characters into spaces, digits and letters.                      *)
(***************************************************************************)
EXTENDS Scanner, FiniteSetTheorems, TLAPS

(* What next_token knows inside its loops. *)
InNumber ==
  pc = "number" =>
    /\ Char(start) \in Digit
    /\ \A k \in start .. pos - 1 : Char(k) \in Alnum
    /\ invalid_number <=> \E k \in start .. pos - 1 : Char(k) \in Letter

InWord == pc = "word" => Char(start) \in Letter

InToken == pc # "start" => start \in 1 .. Len(source)

(* What has been printed. *)
KindsRight == \A i \in 1 .. Len(out) : KindRight(out[i])

CodeRight == exit_code = 1 <=> \E i \in 1 .. Len(out) : out[i].kind = "TK_INVALID"

IInv == TypeOK /\ InNumber /\ InWord /\ InToken /\ KindsRight /\ CodeRight

TokenType == [kind : TokenKind, first : 1 .. Len(source), len : Nat]

-----------------------------------------------------------------------------
LEMMA SourceType ==
  ASSUME TypeOK
  PROVE  source \in Seq(STRING) /\ Len(source) \in Nat
BY SourcesAssumption DEF TypeOK

(* The classes of characters exclude one another and the NUL. *)
LEMMA Classes ==
  ASSUME NEW c
  PROVE  /\ c \in Digit => c \notin Letter /\ c \notin Punctuation /\ c \notin Space /\ c # NUL
         /\ c \in Letter => c \notin Digit /\ c \notin Punctuation /\ c \notin Space /\ c # NUL
         /\ c \in Punctuation => c \notin Digit /\ c \notin Letter /\ c \notin Space /\ c # NUL
         /\ c \in Space => c # NUL
<1>1. NUL \notin Punctuation
  BY DEF NUL, Punctuation
<1> QED
  BY <1>1, CharactersAssumption DEF Alnum

LEMMA BeforeEnd ==
  ASSUME TypeOK, Char(pos) # NUL
  PROVE  pos \in 1 .. Len(source)
BY SourceType DEF TypeOK, Char

LEMMA KindTypes ==
  /\ \A c \in Punctuation : PunctuationKind(c) \in TokenKind \ {"TK_INVALID", "TK_INT"}
  /\ \A w : Keyword(w) \in TokenKind \ {"TK_INVALID", "TK_INT"}
BY DEF Punctuation, PunctuationKind, Keyword, TokenKind

LEMMA SameSource ==
  ASSUME UNCHANGED source
  PROVE  \A t : KindRight(t)' <=> KindRight(t)
BY DEF KindRight, IsInvalid, First, Word, Char, Characters

(* Printing one more token of the right kind keeps what is known of the
   output. *)
LEMMA ReturnStep ==
  ASSUME IInv, NEW kind \in TokenKind, NEW first \in 1 .. Len(source), NEW len \in Nat,
         Return(kind, first, len), pos' \in 1 .. Len(source) + 1, pos' >= pos,
         KindRight([kind |-> kind, first |-> first, len |-> len])
  PROVE  IInv'
<1> DEFINE t == [kind |-> kind, first |-> first, len |-> len]
<1>1. out \in Seq(TokenType) /\ t \in TokenType /\ source' = source
  BY DEF IInv, TypeOK, TokenType, Return
<1>2. out' = Append(out, t) /\ Len(out') = Len(out) + 1
  BY <1>1 DEF Return
<1>3. \A i \in 1 .. Len(out') :
        \/ i \in 1 .. Len(out) /\ out'[i] = out[i]
        \/ i = Len(out) + 1 /\ out'[i] = t
  BY <1>1, <1>2
<1>4. \A i \in 1 .. Len(out) : out'[i] = out[i]
  BY <1>1, <1>2
<1>5. out'[Len(out) + 1] = t /\ Len(out) \in Nat
  BY <1>1, <1>2
<1>6. TypeOK'
  <2>1. out' \in Seq(TokenType)
    BY <1>1, <1>2
  <2> QED
    BY <1>1, <2>1, SourceType DEF IInv, TypeOK, Return, TokenType
<1>7. (InNumber /\ InWord /\ InToken)'
  BY DEF Return, InNumber, InWord, InToken
<1>8. KindsRight'
  <2> SUFFICES ASSUME NEW i \in 1 .. Len(out')
               PROVE  KindRight(out[i])'
    BY DEF KindsRight
  <2>1. CASE i \in 1 .. Len(out)
    <3>1. KindRight(out'[i])
      BY <1>4, <2>1 DEF IInv, KindsRight
    <3> QED
      BY <3>1, <1>1 DEF KindRight, IsInvalid, First, Word, Char, Characters
  <2>2. CASE i = Len(out) + 1
    BY <1>1, <1>5, <2>2 DEF KindRight, IsInvalid, First, Word, Char, Characters
  <2> QED
    BY <1>3, <2>1, <2>2
<1>9. CodeRight'
  BY <1>2, <1>3, <1>4, <1>5 DEF IInv, CodeRight, Return
<1> QED
  BY <1>6, <1>7, <1>8, <1>9 DEF IInv

-----------------------------------------------------------------------------
LEMMA InitInv == Init => IInv
<1> SUFFICES ASSUME Init PROVE IInv
  OBVIOUS
<1>1. source \in Seq(STRING) /\ Len(source) \in Nat
  BY SourcesAssumption DEF Init
<1>2. out \in Seq([kind : TokenKind, first : 1 .. Len(source), len : Nat])
  BY DEF Init
<1>3. invalid_number \in BOOLEAN /\ exited \in BOOLEAN
  BY Zenon DEF Init
<1>4. TypeOK
  BY <1>1, <1>2, <1>3 DEF Init, TypeOK
<1> QED
  BY <1>4 DEF Init, IInv, InNumber, InWord, InToken, KindsRight, CodeRight

LEMMA SkipSpaceStep == ASSUME IInv, SkipSpace PROVE IInv'
<1>1. pos \in 1 .. Len(source) /\ Len(source) \in Nat
  BY Classes, BeforeEnd, SourceType DEF SkipSpace, IInv
<1>2. TypeOK'
  BY <1>1 DEF SkipSpace, NextChar, IInv, TypeOK
<1> QED
  BY <1>2 DEF SkipSpace, In, IInv, InNumber, InWord, InToken, KindsRight, CodeRight,
              KindRight, IsInvalid, First, Word, Char, Characters

LEMMA NumberStartStep == ASSUME IInv, NumberStart PROVE IInv'
<1>1. pos \in 1 .. Len(source) /\ Len(source) \in Nat
  BY Classes, BeforeEnd, SourceType DEF NumberStart, IInv
<1>2. /\ start' = pos /\ pc' = "number" /\ invalid_number' = FALSE
      /\ UNCHANGED <<source, pos, out, exit_code, exited>>
  BY DEF NumberStart, Enter
<1>3. TypeOK'
  <2>1. (invalid_number \in BOOLEAN)'
    BY <1>2, Zenon
  <2> QED
    BY <1>1, <1>2, <2>1 DEF IInv, TypeOK
<1>4. InToken' /\ InWord'
  BY <1>1, <1>2 DEF InToken, InWord
<1>5. InNumber'
  BY <1>1 DEF NumberStart, Enter, InNumber, Char
<1> QED
  BY <1>3, <1>4, <1>5 DEF NumberStart, Enter, IInv, KindsRight, CodeRight,
              KindRight, IsInvalid, First, Word, Char, Characters

LEMMA NumberNextStep == ASSUME IInv, NumberNext PROVE IInv'
<1>1. pos \in 1 .. Len(source) /\ Len(source) \in Nat
  BY Classes, BeforeEnd, SourceType DEF NumberNext, IInv, Alnum
<1>2. start \in 1 .. pos
  BY <1>1 DEF NumberNext, In, IInv, InToken, TypeOK
<1>3. TypeOK' /\ InToken' /\ InWord'
  BY <1>1, <1>2 DEF NumberNext, In, NextChar, IInv, TypeOK, InToken, InWord
<1>4. InNumber'
  <2>1. \A k : Char(k)' = Char(k)
    BY DEF NumberNext, Char
  <2>2. \A k \in start .. pos' - 1 : k \in start .. pos - 1 \/ k = pos
    BY <1>1, <1>2 DEF NumberNext, NextChar
  <2>3. \A k \in start .. pos - 1 : k \in start .. pos' - 1
    BY <1>1, <1>2 DEF NumberNext, NextChar
  <2>4. pos \in start .. pos' - 1
    BY <1>1, <1>2 DEF NumberNext, NextChar
  <2>5. /\ Char(start) \in Digit
        /\ \A k \in start .. pos - 1 : Char(k) \in Alnum
        /\ invalid_number <=> \E k \in start .. pos - 1 : Char(k) \in Letter
        /\ Char(pos) \in Alnum
    BY DEF NumberNext, In, IInv, InNumber
  <2>6. \A k \in start .. pos' - 1 : Char(k) \in Alnum
    BY <2>2, <2>5
  <2>7. invalid_number' <=> \E k \in start .. pos' - 1 : Char(k) \in Letter
    BY <2>2, <2>3, <2>4, <2>5 DEF NumberNext
  <2> QED
    BY <2>5, <2>6, <2>7 DEF InNumber, NumberNext, Char
<1> QED
  BY <1>3, <1>4 DEF NumberNext, IInv, KindsRight, CodeRight,
              KindRight, IsInvalid, First, Word, Char, Characters

LEMMA NumberEndStep == ASSUME IInv, NumberEnd PROVE IInv'
<1>1. /\ Len(source) \in Nat /\ pos \in 1 .. Len(source) + 1
      /\ start \in 1 .. Len(source) /\ start <= pos /\ pos - start \in Nat
      /\ UNCHANGED pos
  BY SourceType DEF NumberEnd, In, IInv, InToken, TypeOK
<1> DEFINE kind == IF invalid_number THEN "TK_INVALID" ELSE "TK_INT"
           t == [kind |-> kind, first |-> start, len |-> pos - start]
<1>2. Characters(t) = start .. pos - 1
  BY <1>1 DEF Characters
<1>3. /\ Char(start) \in Digit
      /\ \A k \in start .. pos - 1 : Char(k) \in Alnum
      /\ invalid_number <=> \E k \in start .. pos - 1 : Char(k) \in Letter
  BY DEF NumberEnd, In, IInv, InNumber
<1>4. IsInvalid(t) <=> invalid_number
  BY <1>2, <1>3, Classes DEF IsInvalid, First, Alnum
<1>5. KindRight(t)
  BY <1>3, <1>4, Classes DEF KindRight, First
<1>6. kind \in TokenKind
  BY DEF TokenKind
<1> QED
  BY <1>1, <1>5, <1>6, ReturnStep DEF NumberEnd

LEMMA WordStartStep == ASSUME IInv, WordStart PROVE IInv'
<1>1. pos \in 1 .. Len(source) /\ Len(source) \in Nat
  BY Classes, BeforeEnd, SourceType DEF WordStart, IInv
<1>2. TypeOK' /\ InToken' /\ InNumber' /\ InWord'
  BY <1>1 DEF WordStart, Enter, IInv, TypeOK, InToken, InNumber, InWord, Char
<1> QED
  BY <1>2 DEF WordStart, Enter, IInv, KindsRight, CodeRight,
              KindRight, IsInvalid, First, Word, Char, Characters

LEMMA WordNextStep == ASSUME IInv, WordNext PROVE IInv'
<1>1. pos \in 1 .. Len(source) /\ Len(source) \in Nat
  BY Classes, BeforeEnd, SourceType DEF WordNext, IInv, Alnum
<1>2. TypeOK' /\ InToken' /\ InNumber' /\ InWord'
  BY <1>1 DEF WordNext, In, NextChar, IInv, TypeOK, InToken, InNumber, InWord, Char
<1> QED
  BY <1>2 DEF WordNext, IInv, KindsRight, CodeRight,
              KindRight, IsInvalid, First, Word, Char, Characters

LEMMA WordEndStep == ASSUME IInv, WordEnd PROVE IInv'
<1>1. /\ Len(source) \in Nat /\ pos \in 1 .. Len(source) + 1
      /\ start \in 1 .. Len(source) /\ start <= pos /\ pos - start \in Nat
      /\ UNCHANGED pos
  BY SourceType DEF WordEnd, In, IInv, InToken, TypeOK
<1> DEFINE word == SubSeq(source, start, pos - 1)
           kind == IF Keyword(word) # "TK_EOF" THEN Keyword(word) ELSE "TK_ID"
           t == [kind |-> kind, first |-> start, len |-> pos - start]
<1>2. Char(start) \in Letter /\ start + (pos - start) - 1 = pos - 1
  BY <1>1 DEF WordEnd, In, IInv, InWord
<1>3. kind # "TK_INVALID" /\ kind # "TK_INT"
  BY DEF Keyword
<1>4. KindRight(t)
  BY <1>2, <1>3, Classes DEF KindRight, IsInvalid, First, Word, Alnum
<1>5. kind \in TokenKind
  BY KindTypes DEF TokenKind
<1>6. Return(kind, start, pos - start)
  BY DEF WordEnd
<1> HIDE DEF kind
<1> QED
  BY <1>1, <1>4, <1>5, <1>6, ReturnStep

LEMMA SingleStep == ASSUME IInv, Single PROVE IInv'
<1>1. pos \in 1 .. Len(source) /\ Len(source) \in Nat
  BY Classes, BeforeEnd, SourceType DEF Single, IInv
<1> DEFINE kind == PunctuationKind(Char(pos))
<1>2. kind \in TokenKind /\ kind # "TK_INVALID" /\ kind # "TK_INT" /\ Char(pos) \in Punctuation
  BY KindTypes DEF Single
<1>3. KindRight([kind |-> kind, first |-> pos, len |-> 1])
  BY <1>2, Classes DEF KindRight, IsInvalid, First, Alnum
<1> QED
  BY <1>1, <1>2, <1>3, ReturnStep DEF Single, NextChar

LEMMA StrayStep == ASSUME IInv, Stray PROVE IInv'
<1>1. pos \in 1 .. Len(source) /\ Len(source) \in Nat
  BY BeforeEnd, SourceType DEF Stray, Known, IInv
<1>2. KindRight([kind |-> "TK_INVALID", first |-> pos, len |-> 1])
  BY DEF Stray, Known, Alnum, KindRight, IsInvalid, First
<1>3. "TK_INVALID" \in TokenKind
  BY DEF TokenKind
<1> QED
  BY <1>1, <1>2, <1>3, ReturnStep DEF Stray, NextChar

LEMMA EndStep == ASSUME IInv, End PROVE IInv'
BY DEF End, IInv, TypeOK, InNumber, InWord, InToken, KindsRight, CodeRight,
       KindRight, IsInvalid, First, Word, Char, Characters

LEMMA NextInv == IInv /\ [Next]_vars => IInv'
<1> SUFFICES ASSUME IInv, [Next]_vars PROVE IInv'
  OBVIOUS
<1>1. CASE UNCHANGED vars
  BY <1>1 DEF vars, IInv, TypeOK, InNumber, InWord, InToken, KindsRight, CodeRight,
              KindRight, IsInvalid, First, Word, Char, Characters
<1> QED
  BY <1>1, SkipSpaceStep, NumberStartStep, NumberNextStep, NumberEndStep, WordStartStep,
     WordNextStep, WordEndStep, SingleStep, StrayStep, EndStep DEF Next

LEMMA Inductive == Spec => []IInv
BY InitInv, NextInv, PTL DEF Spec

(* next_token reads no character past the NUL that ends the source, and the
   place of every token it returns is in the source. *)
THEOREM TypeCorrect == Spec => []TypeOK
<1>1. IInv => TypeOK
  BY DEF IInv
<1> QED
  BY <1>1, Inductive, PTL

(* main -e=lex returns 1 if, and only if, a token of the source is invalid. *)
THEOREM ExitCode == Spec => []ExitCodeTellsErrors
<1>1. IInv => ExitCodeTellsErrors
  BY DEF IInv, KindsRight, KindRight, CodeRight, ExitCodeTellsErrors
<1> QED
  BY <1>1, Inductive, PTL

-----------------------------------------------------------------------------
(***************************************************************************)
(* The tokens tile the source.                                             *)
(***************************************************************************)

(* The first character that is neither skipped nor in a token that has been
   printed. *)
Seen == IF pc = "start" THEN pos ELSE start

Past(t) == t.first + t.len

(* The characters of the number or word that is being read. *)
InOne == pc # "start" =>
  start <= pos /\ Char(start) \in Alnum /\ \A k \in start .. pos - 1 : Char(k) \in Alnum

Apart ==
  \A i \in 1 .. Len(out) :
    /\ out[i].len >= 1 /\ Past(out[i]) <= Seen
    /\ \A j \in i + 1 .. Len(out) : Past(out[i]) <= out[j].first

(* A character that has been passed is a space or in a token. *)
Covered ==
  \A k \in 1 .. Seen - 1 :
    Char(k) \notin Space => \E i \in 1 .. Len(out) : k \in Characters(out[i])

NoSpaces ==
  \A i \in 1 .. Len(out) : \A k \in Characters(out[i]) : Char(k) \notin Space

Longest ==
  \A i \in 1 .. Len(out) : \A k \in Characters(out[i]) : Begins(k) <=> k = out[i].first

AtEnd == exited => pc = "start" /\ Char(pos) = NUL

Tiled == InOne /\ Apart /\ Covered /\ NoSpaces /\ Longest /\ Begins(Seen) /\ AtEnd

-----------------------------------------------------------------------------
LEMMA NoNul ==
  ASSUME TypeOK
  PROVE  \A k \in 1 .. Len(source) : Char(k) # NUL
BY SourceType, SourcesAssumption DEF TypeOK, Char

LEMMA OutType ==
  ASSUME TypeOK
  PROVE  /\ out \in Seq(TokenType) /\ Len(out) \in Nat /\ pos \in Nat \ {0}
         /\ \A i \in 1 .. Len(out) : out[i].first \in 1 .. Len(source) /\ out[i].len \in Nat
<1>1. out \in Seq(TokenType) /\ pos \in Nat \ {0}
  BY SourceType DEF TypeOK, TokenType
<1>2. Len(out) \in Nat /\ \A i \in 1 .. Len(out) : out[i] \in TokenType
  BY <1>1
<1> QED
  BY <1>1, <1>2 DEF TokenType

LEMMA BeginsAfter ==
  ASSUME NEW k \in Nat, Char(k) \notin Alnum
  PROVE  Begins(k + 1)
<1> DEFINE n == k + 1
<1>1. n - 1 = k
  OBVIOUS
<1> HIDE DEF n
<1>2. Begins(n)
  BY <1>1 DEF Begins
<1> QED
  BY <1>2 DEF n

(* Nothing is printed and nothing is skipped. *)
LEMMA SameTiles ==
  ASSUME Tiled, UNCHANGED <<source, out>>, Seen' = Seen
  PROVE  (Apart /\ Covered /\ NoSpaces /\ Longest /\ Begins(Seen))'
<1>1. \A k : Char(k)' = Char(k) /\ (Begins(k)' <=> Begins(k))
  BY DEF Char, Begins
<1>2. Begins(Seen)'
  BY <1>1 DEF Tiled, Begins, Char
<1> QED
  BY <1>1, <1>2 DEF Tiled, Apart, Covered, NoSpaces, Longest, Past, Characters

(* One more token is printed, from the first character that was left. *)
LEMMA PrintStep ==
  ASSUME IInv, Tiled, ~exited, NEW kind, NEW len \in Nat \ {0}, Seen \in 1 .. Len(source),
         Return(kind, Seen, len), pos' = Seen + len, Begins(Seen + len),
         \A k \in Seen .. Seen + len - 1 : Char(k) \notin Space /\ (Begins(k) <=> k = Seen)
  PROVE  Tiled'
<1> DEFINE t == [kind |-> kind, first |-> Seen, len |-> len]
<1>1. out \in Seq(TokenType) /\ Len(out) \in Nat /\ Len(source) \in Nat
  BY OutType, SourceType DEF IInv
<1>2. /\ out' = Append(out, t) /\ Len(out') = Len(out) + 1 /\ source' = source /\ exited' = exited
      /\ pc' = "start"
  BY <1>1 DEF Return
<1>3. /\ \A i \in 1 .. Len(out) : out'[i] = out[i]
      /\ out'[Len(out) + 1] = t
  BY <1>1, <1>2
<1>4. /\ t.first = Seen /\ t.len = len /\ Past(t) = Seen + len /\ Seen' = Seen + len
      /\ Characters(t) = Seen .. Seen + len - 1
  BY <1>2 DEF Past, Characters, Seen
<1> HIDE DEF t
<1>5. \A i \in 1 .. Len(out) : out[i].first \in Nat /\ out[i].len \in Nat
  BY OutType DEF IInv
<1>6. \A k : Char(k)' = Char(k) /\ (Begins(k)' <=> Begins(k))
  BY <1>2 DEF Char, Begins
<1>7. \A i \in 1 .. Len(out') : i \in 1 .. Len(out) \/ i = Len(out) + 1
  BY <1>1, <1>2
<1>8. Apart'
  <2> SUFFICES ASSUME NEW i \in 1 .. Len(out')
               PROVE  /\ out'[i].len >= 1 /\ Past(out'[i]) <= Seen'
                      /\ \A j \in i + 1 .. Len(out') : Past(out'[i]) <= out'[j].first
    BY DEF Apart, Past
  <2>1. CASE i \in 1 .. Len(out)
    <3>1. /\ out[i].len >= 1 /\ Past(out[i]) <= Seen /\ Past(out[i]) \in Nat
          /\ \A j \in i + 1 .. Len(out) : Past(out[i]) <= out[j].first
      BY <1>5, <2>1, SMTT(30) DEF Tiled, Apart, Past
    <3>2. out'[i] = out[i]
      BY <1>3, <2>1
    <3>3. Past(out[i]) <= Seen'
      BY <1>4, <3>1
    <3>4. ASSUME NEW j \in i + 1 .. Len(out') PROVE Past(out[i]) <= out'[j].first
      <4>1. j \in i + 1 .. Len(out) \/ j = Len(out) + 1
        BY <1>1, <1>2, <2>1
      <4>2. j \in i + 1 .. Len(out) => j \in 1 .. Len(out)
        BY <1>1, <2>1
      <4> QED
        BY <1>3, <1>4, <3>1, <4>1, <4>2
    <3> QED
      BY <3>1, <3>2, <3>3, <3>4
  <2>2. CASE i = Len(out) + 1
    <3>1. i + 1 .. Len(out') = {}
      BY <1>1, <1>2, <2>2
    <3> QED
      BY <1>3, <1>4, <2>2, <3>1
  <2> QED
    BY <1>7, <2>1, <2>2
<1>9. Covered'
  <2> SUFFICES ASSUME NEW k \in 1 .. Seen' - 1, Char(k) \notin Space
               PROVE  \E i \in 1 .. Len(out') : k \in Characters(out'[i])
    BY <1>6 DEF Covered, Characters
  <2>1. CASE k \in 1 .. Seen - 1
    <3>1. PICK i \in 1 .. Len(out) : k \in Characters(out[i])
      BY <2>1 DEF Tiled, Covered
    <3> QED
      BY <1>1, <1>2, <1>3, <3>1
  <2>2. CASE k \in Seen .. Seen + len - 1
    <3>1. k \in Characters(out'[Len(out) + 1])
      BY <1>3, <1>4, <2>2
    <3> QED
      BY <1>1, <1>2, <3>1
  <2> QED
    BY <1>4, <2>1, <2>2
<1>10. NoSpaces' /\ Longest'
  <2> SUFFICES ASSUME NEW i \in 1 .. Len(out'), NEW k \in Characters(out'[i])
               PROVE  Char(k) \notin Space /\ (Begins(k) <=> k = out'[i].first)
    BY <1>6 DEF NoSpaces, Longest, Characters
  <2>1. CASE i \in 1 .. Len(out)
    BY <1>3, <2>1 DEF Tiled, NoSpaces, Longest
  <2>2. CASE i = Len(out) + 1
    BY <1>3, <1>4, <2>2
  <2> QED
    BY <1>7, <2>1, <2>2
<1>11. InOne' /\ AtEnd' /\ Begins(Seen)'
  <2>1. Begins(Seen)'
    BY <1>2, <1>4 DEF Begins, Char
  <2> QED
    BY <1>2, <2>1 DEF InOne, AtEnd
<1> QED
  BY <1>8, <1>9, <1>10, <1>11 DEF Tiled

(* A number or a word: the characters that have been read. *)
LEMMA PrintRead ==
  ASSUME IInv, Tiled, pc # "start", ~exited, NEW kind, Char(pos) \notin Alnum,
         Return(kind, start, pos - start), UNCHANGED pos
  PROVE  Tiled'
<1>1. /\ start \in 1 .. Len(source) /\ Seen = start /\ pos \in Nat /\ Char(start) \in Alnum
      /\ \A k \in start .. pos - 1 : Char(k) \in Alnum
      /\ start <= pos /\ Begins(start)
  BY SourceType DEF IInv, InToken, TypeOK, Tiled, InOne, Seen
<1>2. start \in Nat /\ pos - start \in Nat \ {0} /\ start + (pos - start) = pos
  <2>1. start # pos /\ start \in Nat
    BY <1>1, SourceType DEF IInv
  <2> QED
    BY <1>1, <2>1
<1>3. Begins(pos)
  BY DEF Begins
<1>4. \A k \in start .. pos - 1 : Char(k) \notin Space /\ (Begins(k) <=> k = start)
  <2> TAKE k \in start .. pos - 1
  <2>1. Char(k) \in Alnum
    BY <1>1
  <2>2. k # start => k > 1 /\ k - 1 \in start .. pos - 1
    BY <1>1, <1>2
  <2>3. k # start => ~Begins(k)
    BY <1>1, <2>1, <2>2 DEF Begins
  <2> QED
    BY <1>1, <2>1, <2>3, Classes DEF Alnum
<1> DEFINE len == pos - start
<1>5. len \in Nat \ {0} /\ Return(kind, Seen, len) /\ pos' = Seen + len /\ Begins(Seen + len)
      /\ \A k \in Seen .. Seen + len - 1 : Char(k) \notin Space /\ (Begins(k) <=> k = Seen)
  BY <1>1, <1>2, <1>3, <1>4
<1> HIDE DEF len
<1> QED
  BY <1>1, <1>5, PrintStep

(* A token of one character. *)
LEMMA PrintOne ==
  ASSUME IInv, Tiled, pc = "start", ~exited, NEW kind, Char(pos) \notin Space \cup Alnum \cup {NUL},
         Return(kind, pos, 1), pos' = pos + 1
  PROVE  Tiled'
<1>1. Seen = pos /\ pos \in 1 .. Len(source) /\ Begins(pos) /\ pos \in Nat
  BY BeforeEnd, SourceType DEF Seen, IInv, Tiled
<1>2. Begins(pos + 1)
  BY <1>1, BeginsAfter
<1>3. pos .. pos + 1 - 1 = {pos} /\ 1 \in Nat \ {0}
  BY <1>1
<1> QED
  BY <1>1, <1>2, <1>3, PrintStep

LEMMA InitTiled == Init => Tiled
BY DEF Init, Tiled, InOne, Apart, Covered, NoSpaces, Longest, Begins, AtEnd, Seen

LEMMA NextTiled == IInv /\ Tiled /\ [Next]_vars => Tiled'
<1> SUFFICES ASSUME IInv, Tiled, [Next]_vars PROVE Tiled'
  OBVIOUS
<1>0. pos \in Nat \ {0} /\ start \in Nat /\ start <= pos
  BY SourceType DEF IInv, TypeOK
<1>1. CASE SkipSpace
  <2>1. /\ Seen = pos /\ Seen' = pos + 1 /\ pc' = "start" /\ UNCHANGED <<source, out, exited>> /\ ~exited
        /\ Char(pos) \in Space
    BY <1>1 DEF SkipSpace, In, Seen, NextChar
  <2>2. \A k : Char(k)' = Char(k) /\ (Begins(k)' <=> Begins(k))
    BY <2>1 DEF Char, Begins
  <2>3. Begins(Seen)'
    <3>1. pos + 1 - 1 = pos /\ Char(pos) \notin Alnum
      BY <1>0, <2>1, Classes DEF Alnum
    <3> QED
      BY <1>0, <2>1, <3>1 DEF Begins, Char
  <2>4. Apart'
    <3>1. \A i \in 1 .. Len(out) : Past(out[i]) \in Nat
      BY OutType DEF IInv, Past
    <3>2. \A i \in 1 .. Len(out) : Past(out[i]) <= pos + 1
      BY <1>0, <2>1, <3>1 DEF Tiled, Apart
    <3> QED
      BY <2>1, <3>2 DEF Tiled, Apart, Past
  <2>5. Covered'
    <3>1. \A k \in 1 .. pos + 1 - 1 : k = pos \/ k \in 1 .. pos - 1
      BY <1>0
    <3>2. \A k \in 1 .. pos + 1 - 1 :
            Char(k) \notin Space => \E i \in 1 .. Len(out) : k \in Characters(out[i])
      BY <2>1, <3>1 DEF Tiled, Covered
    <3>3. \A k \in 1 .. Seen' - 1 :
            Char(k)' \notin Space => \E i \in 1 .. Len(out') : k \in Characters(out'[i])
      BY <1>0, <2>1, <3>2 DEF Char
    <3> QED
      BY <3>3 DEF Covered, Characters
  <2>6. NoSpaces' /\ Longest' /\ InOne' /\ AtEnd'
    BY <2>1, <2>2 DEF Tiled, NoSpaces, Longest, InOne, AtEnd, Characters
  <2> QED
    BY <2>3, <2>4, <2>5, <2>6 DEF Tiled
<1>2. CASE NumberStart \/ WordStart
  <2>1. /\ Seen' = Seen /\ start' = pos /\ pos' = pos /\ UNCHANGED <<source, out, exited>> /\ ~exited
        /\ Char(pos) \in Alnum
    BY <1>2 DEF NumberStart, WordStart, Enter, In, Seen, Alnum
  <2>2. InOne' /\ AtEnd'
    <3>1. \A k \in pos .. pos - 1 : FALSE
      BY <1>0
    <3>2. Char(pos)' \in Alnum /\ pos <= pos
      BY <1>0, <2>1 DEF Char
    <3> QED
      BY <2>1, <3>1, <3>2 DEF InOne, AtEnd, Char
  <2> QED
    BY <2>1, <2>2, SameTiles DEF Tiled
<1>3. CASE NumberNext \/ WordNext
  <2>1. /\ Seen' = Seen /\ start' = start /\ pos' = pos + 1 /\ UNCHANGED <<source, out, exited, pc>> /\ ~exited
        /\ Char(pos) \in Alnum /\ pc # "start"
    BY <1>3 DEF NumberNext, WordNext, NextChar, In, Seen
  <2>2. InOne' /\ AtEnd'
    <3>1. \A k \in start .. pos + 1 - 1 : k = pos \/ k \in start .. pos - 1
      BY <1>0
    <3>2. \A k : Char(k)' = Char(k)
      BY <2>1 DEF Char
    <3>3. start <= pos + 1
      BY <1>0
    <3>4. /\ Char(start) \in Alnum /\ \A k \in start .. pos + 1 - 1 : Char(k) \in Alnum
      BY <2>1, <3>1 DEF Tiled, InOne
    <3>5. InOne'
      <4>1. Char(start)' \in Alnum
        BY <1>0, <2>1, <3>4 DEF Char
      <4>2. \A k \in start' .. pos' - 1 : Char(k)' \in Alnum
        BY <1>0, <2>1, <3>4 DEF Char
      <4> QED
        BY <2>1, <3>3, <4>1, <4>2 DEF InOne
    <3> QED
      BY <2>1, <3>5 DEF Tiled, AtEnd
  <2> QED
    BY <2>1, <2>2, SameTiles DEF Tiled
<1>4. CASE NumberEnd
  BY <1>4, PrintRead DEF NumberEnd, In
<1>5. CASE WordEnd
  BY <1>5, PrintRead DEF WordEnd, In
<1>6. CASE Single
  <2>1. Char(pos) \notin Space \cup Alnum \cup {NUL}
    BY <1>6, Classes DEF Single, Alnum
  <2> QED
    BY <1>6, <2>1, PrintOne DEF Single, In, NextChar
<1>7. CASE Stray
  BY <1>7, PrintOne DEF Stray, Known, In, NextChar
<1>8. CASE End
  <2>1. Seen' = Seen /\ UNCHANGED <<source, out>>
    BY <1>8 DEF End, Seen
  <2> QED
    BY <1>8, <2>1, SameTiles DEF End, In, Tiled, InOne, AtEnd, Char
<1>9. CASE UNCHANGED vars
  <2>1. Seen' = Seen /\ UNCHANGED <<source, out>>
    BY <1>9 DEF vars, Seen
  <2> QED
    BY <1>9, <2>1, SameTiles DEF vars, Tiled, InOne, AtEnd, Char
<1> QED
  BY <1>1, <1>2, <1>3, <1>4, <1>5, <1>6, <1>7, <1>8, <1>9 DEF Next

(* TokensOfSource: for every source, the printed tokens cover it: each
   character that is no space is in exactly one token, each token is as long
   as it can be, of the kind of its text and after the one before it. *)
THEOREM TokensTileSource == Spec => []TokensOfSource
<1>1. Spec => [](IInv /\ Tiled)
  BY InitInv, InitTiled, NextInv, NextTiled, PTL DEF Spec
<1>2. IInv /\ Tiled => TokensOfSource
  <2> SUFFICES ASSUME IInv, Tiled, exited
               PROVE  /\ \A k \in 1 .. Len(source) :
                           Cardinality({i \in 1 .. Len(out) : k \in Characters(out[i])})
                             = IF Char(k) \in Space THEN 0 ELSE 1
                      /\ \A i \in 1 .. Len(out) :
                           /\ out[i].len >= 1
                           /\ \A k \in Characters(out[i]) : Begins(k) <=> k = out[i].first
                           /\ KindRight(out[i])
                           /\ i > 1 => out[i - 1].first < out[i].first
    BY DEF TokensOfSource
  <2>1. Seen = Len(source) + 1 /\ Len(source) \in Nat
    BY NoNul, SourceType DEF IInv, TypeOK, Tiled, AtEnd, Seen
  <2>2. \A i \in 1 .. Len(out) : out[i].first \in Nat /\ out[i].len \in Nat /\ out[i].len >= 1
    BY OutType DEF IInv, Tiled, Apart
  <2>3. ASSUME NEW i \in 1 .. Len(out), NEW j \in 1 .. Len(out), i < j
        PROVE  out[i].first + out[i].len <= out[j].first
    <3>1. j \in i + 1 .. Len(out)
      BY <2>3, OutType DEF IInv
    <3> QED
      BY <3>1 DEF Tiled, Apart, Past
  <2>4. ASSUME NEW i \in 1 .. Len(out), i > 1 PROVE out[i - 1].first < out[i].first
    <3>1. i - 1 \in 1 .. Len(out) /\ i - 1 < i
      BY <2>4, OutType DEF IInv
    <3>2. out[i - 1].first + out[i - 1].len <= out[i].first
      BY <2>3, <3>1
    <3> QED
      BY <2>2, <3>1, <3>2
  <2>5. ASSUME NEW k \in 1 .. Len(source)
        PROVE  Cardinality({i \in 1 .. Len(out) : k \in Characters(out[i])})
                 = IF Char(k) \in Space THEN 0 ELSE 1
    <3> DEFINE I == {i \in 1 .. Len(out) : k \in Characters(out[i])}
    <3>1. CASE Char(k) \in Space
      <4>1. I = {}
        BY <3>1 DEF Tiled, NoSpaces
      <4> QED
        BY <3>1, <4>1, FS_EmptySet
    <3>2. CASE Char(k) \notin Space
      <4>1. k \in 1 .. Seen - 1
        BY <2>1
      <4>2. PICK i \in 1 .. Len(out) : k \in Characters(out[i])
        BY <3>2, <4>1 DEF Tiled, Covered
      <4>3. ASSUME NEW j \in I PROVE j = i
        <5>1. j \in 1 .. Len(out) /\ k \in Characters(out[j])
          OBVIOUS
        <5>2. /\ out[i].first <= k /\ k < out[i].first + out[i].len
              /\ out[j].first <= k /\ k < out[j].first + out[j].len
          BY <2>2, <4>2, <5>1, SMTT(30) DEF Characters
        <5>3. ~(i < j)
          BY <2>2, <2>3, <5>1, <5>2
        <5>4. ~(j < i)
          BY <2>2, <2>3, <5>1, <5>2
        <5> QED
          BY <5>1, <5>3, <5>4
      <4>4. I = {i}
        BY <4>2, <4>3
      <4> QED
        BY <3>2, <4>4, FS_Singleton
    <3> QED
      BY <3>1, <3>2
  <2> QED
    BY <2>2, <2>4, <2>5 DEF IInv, KindsRight, Tiled, Longest
<1> QED
  BY <1>1, <1>2, PTL
=============================================================================
