------------------------------ MODULE SeqLemmas -----------------------------
(***************************************************************************)
(* Facts about stacks kept in sequences (the top is the last element),     *)
(* about texts that grow at the end, about numbers and about recursion, as *)
(* the proofs of the compiler's modules need them.                         *)
(***************************************************************************)
EXTENDS SequencesExt, SequenceTheorems, WellFoundedInduction, TLAPS

(* What s \o t holds where. *)
LEMMA ConcatType ==
  ASSUME NEW S, NEW s \in Seq(S), NEW t \in Seq(S)
  PROVE  /\ s \o t \in Seq(S)
         /\ Len(s \o t) = Len(s) + Len(t)
         /\ \A k \in 1 .. Len(s) : (s \o t)[k] = s[k]
         /\ \A k \in 1 .. Len(t) : (s \o t)[Len(s) + k] = t[k]
OBVIOUS

LEMMA Concat3 ==
  ASSUME NEW S, NEW s \in Seq(S), NEW t \in Seq(S), NEW u \in Seq(S)
  PROVE  /\ Len(s \o t \o u) = Len(s) + Len(t) + Len(u)
         /\ \A k \in 1 .. Len(s) : (s \o t \o u)[k] = s[k]
         /\ \A k \in 1 .. Len(t) : (s \o t \o u)[Len(s) + k] = t[k]
         /\ \A k \in 1 .. Len(u) : (s \o t \o u)[Len(s) + Len(t) + k] = u[k]
<1> DEFINE v == s \o t
<1>1. /\ v \in Seq(S) /\ Len(v) = Len(s) + Len(t)
      /\ \A k \in 1 .. Len(s) : v[k] = s[k]
      /\ \A k \in 1 .. Len(t) : v[Len(s) + k] = t[k]
  BY ConcatType
<1>2. Len(s) \in Nat /\ Len(t) \in Nat /\ Len(u) \in Nat
  BY LenProperties
<1> HIDE DEF v
<1>3. /\ Len(v \o u) = Len(v) + Len(u)
      /\ \A k \in 1 .. Len(v) : (v \o u)[k] = v[k]
      /\ \A k \in 1 .. Len(u) : (v \o u)[Len(v) + k] = u[k]
  <2>1. v \in Seq(S)
    BY <1>1
  <2> QED
    BY <2>1, ConcatType
<1>4. \A k \in 1 .. Len(s) : (v \o u)[k] = s[k]
  BY <1>1, <1>2, <1>3
<1>5. \A k \in 1 .. Len(t) : (v \o u)[Len(s) + k] = t[k]
  BY <1>1, <1>2, <1>3
<1> QED
  BY <1>1, <1>3, <1>4, <1>5 DEF v

(* A stack that is not empty has a top, and popping it leaves the rest. *)
LEMMA FrontType ==
  ASSUME NEW S, NEW s \in Seq(S), s # << >>
  PROVE  /\ Len(s) \in Nat \ {0}
         /\ Last(s) = s[Len(s)]
         /\ Last(s) \in S
         /\ Front(s) \in Seq(S)
         /\ Len(Front(s)) = Len(s) - 1
         /\ \A k \in 1 .. Len(s) - 1 : Front(s)[k] = s[k]
<1>1. Len(s) \in Nat \ {0}
  BY EmptySeq
<1>2. \A k \in 1 .. Len(s) : s[k] \in S
  BY ElementOfSeq
<1> DEFINE n == Len(s) - 1
<1>3. n \in Nat /\ \A k \in 1 .. n : s[k] \in S
  BY <1>1, <1>2
<1> HIDE DEF n
<1>4. /\ SubSeq(s, 1, n) \in Seq(S)
      /\ Len(SubSeq(s, 1, n)) = n
      /\ \A k \in 1 .. n : SubSeq(s, 1, n)[k] = s[k]
  <2>1. /\ SubSeq(s, 1, n) \in Seq(S)
        /\ Len(SubSeq(s, 1, n)) = IF 1 <= n THEN n - 1 + 1 ELSE 0
        /\ \A k \in 1 .. n - 1 + 1 : SubSeq(s, 1, n)[k] = s[1 + k - 1]
    BY <1>3, SubSeqProperties
  <2> QED
    BY <1>3, <2>1
<1> QED
  BY <1>1, <1>2, <1>4 DEF Front, Last, n

LEMMA FrontLast ==
  ASSUME NEW S, NEW s \in Seq(S), s # << >>
  PROVE  s = Append(Front(s), Last(s))
<1>1. PICK t \in Seq(S), e \in S : s = Append(t, e)
  BY SequenceEmptyOrAppend
<1>2. Front(s) = t /\ Last(s) = e
  BY <1>1 DEF Front, Last
<1> QED
  BY <1>1, <1>2

(* Replacing the top by top and pushing new above it. *)
LEMMA CallStack ==
  ASSUME NEW S, NEW s \in Seq(S), s # << >>, NEW top \in S, NEW new \in S
  PROVE  LET t == Append(Append(Front(s), top), new)
         IN  /\ t \in Seq(S)
             /\ Len(t) = Len(s) + 1
             /\ t[Len(s)] = top
             /\ t[Len(s) + 1] = new
             /\ \A k \in 1 .. Len(s) - 1 : t[k] = s[k]
<1>1. /\ Front(s) \in Seq(S)
      /\ Len(Front(s)) = Len(s) - 1
      /\ Len(s) \in Nat \ {0}
      /\ \A k \in 1 .. Len(s) - 1 : Front(s)[k] = s[k]
  BY FrontType
<1> DEFINE u == Append(Front(s), top)
<1>2. /\ u \in Seq(S)
      /\ Len(u) = Len(s)
      /\ u[Len(s)] = top
      /\ \A k \in 1 .. Len(s) - 1 : u[k] = s[k]
  BY <1>1
<1> HIDE DEF u
<1>3. LET t == Append(u, new)
      IN  /\ t \in Seq(S)
          /\ Len(t) = Len(s) + 1
          /\ t[Len(s)] = top
          /\ t[Len(s) + 1] = new
          /\ \A k \in 1 .. Len(s) - 1 : t[k] = s[k]
  BY <1>1, <1>2
<1> QED
  BY <1>3 DEF u

(* Texts written down line by line. *)
LEMMA ConcatTuples ==
  ASSUME NEW S, NEW a \in S, NEW b \in S
  PROVE  <<a>> \o <<b>> = <<a, b>>
<1>1. <<a>> \in Seq(S) /\ <<b>> \in Seq(S) /\ <<a, b>> \in Seq(S)
  OBVIOUS
<1>2. Len(<<a>> \o <<b>>) = 2 /\ Len(<<a, b>>) = 2 /\ <<a>> \o <<b>> \in Seq(S)
  BY <1>1
<1>3. \A k \in 1 .. 2 : (<<a>> \o <<b>>)[k] = <<a, b>>[k]
  BY <1>1, ConcatProperties
<1> QED
  BY <1>1, <1>2, <1>3, SeqEqual

(* A set of numbers that is not empty has a least element.  Induction over the
   numbers is the search for a least counterexample. *)
LEMMA LeastNat ==
  ASSUME NEW S \in SUBSET Nat, S # {}
  PROVE  \E n \in S : \A m \in S : n <= m
<1> DEFINE R == {ss \in Nat \X Nat : ss[1] < ss[2]}
<1>1. IsWellFoundedOn(R, Nat)
  BY NatLessThanWellFounded DEF OpToRel
<1>2. \A m, n \in Nat : <<m, n>> \in R <=> m < n
  OBVIOUS
<1> HIDE DEF R
<1>3. PICK n \in S : \A m \in S : ~(<<m, n>> \in R)
  BY <1>1, WFMin
<1>4. \A m \in S : n <= m
  <2> TAKE m \in S
  <2>1. m \in Nat /\ n \in Nat
    OBVIOUS
  <2>2. ~(m < n)
    BY <1>2, <1>3, <2>1
  <2> QED
    BY <2>1, <2>2
<1> QED
  BY <1>4

(* A recursion over the members of S, where A says for which it stops and V
   where it goes on, has a solution, the least one, however they hang together. *)
Solves(f, S, A, V) == f = [n \in S |-> n \in A \/ \E c \in V[n] : f[c]]

LEMMA BoolEq == \A P, Q \in BOOLEAN : (P <=> Q) => P = Q
OBVIOUS

LEMMA Solution ==
  ASSUME NEW S, NEW A \in SUBSET S, NEW V \in [S -> SUBSET S]
  PROVE  \E f : Solves(f, S, A, V)
<1> DEFINE Closed(X) == \A n \in S : n \in A \/ V[n] \cap X # {} => n \in X
           L == {n \in S : \A X \in SUBSET S : Closed(X) => n \in X}
           f == [n \in S |-> n \in L]
<1>1. ASSUME NEW n \in S, n \in A \/ V[n] \cap L # {}
      PROVE  n \in L
  <2> SUFFICES ASSUME NEW X \in SUBSET S, Closed(X)
               PROVE  n \in X
    OBVIOUS
  <2>1. L \subseteq X
    OBVIOUS
  <2> HIDE DEF L
  <2> QED
    BY <1>1, <2>1
<1>2. ASSUME NEW n \in L, n \notin A, V[n] \cap L = {}
      PROVE  FALSE
  <2> DEFINE X == L \ {n}
  <2>1. Closed(X)
    <3> SUFFICES ASSUME NEW m \in S, m \in A \/ V[m] \cap X # {}
                 PROVE  m \in X
      OBVIOUS
    <3> HIDE DEF L
    <3>1. m \in L
      BY <1>1
    <3>2. m # n
      BY <1>2
    <3> QED
      BY <3>1, <3>2
  <2>2. X \in SUBSET S
    OBVIOUS
  <2> HIDE DEF Closed
  <2>3. n \in X
    BY <2>1, <2>2
  <2> QED
    BY <2>3
<1>3. L \subseteq S
  OBVIOUS
<1> HIDE DEF L
<1>4. \A n \in S : (\E c \in V[n] : f[c]) <=> V[n] \cap L # {}
  <2> TAKE n \in S
  <2>1. V[n] \in SUBSET S
    OBVIOUS
  <2>2. \A c \in V[n] : f[c] <=> c \in L
    BY <2>1
  <2> QED
    BY <2>2, Zenon
<1>5. \A n \in S : n \in L <=> n \in A \/ \E c \in V[n] : f[c]
  BY <1>1, <1>2, <1>4
<1>6. \A n \in S : (n \in L) = (n \in A \/ \E c \in V[n] : f[c])
  <2> TAKE n \in S
  <2> DEFINE P == n \in L
             Q == n \in A \/ \E c \in V[n] : f[c]
  <2>1. P \in BOOLEAN /\ Q \in BOOLEAN
    OBVIOUS
  <2>2. P <=> Q
    BY <1>5
  <2> HIDE DEF P, Q
  <2>3. P = Q
    BY <2>1, <2>2, BoolEq
  <2> QED
    BY <2>3 DEF P, Q
<1>7. f = [n \in S |-> n \in A \/ \E c \in V[n] : f[c]]
  BY <1>6
<1> HIDE DEF f
<1> QED
  BY <1>7 DEF Solves
=============================================================================
