------------------------------ MODULE LibraryProofs -----------------------------
(***************************************************************************)
(* Theorems about the libraries of the compiler.  Those about crc.h: the   *)
(* reference counts, for any threads, objects and finite set of            *)
(* references; and the macro scoping, for any variables, objects, lists of *)
(* arguments and depth of scopes, and for any number of jumps out of them. *)
(* Those about util.c: its ring of buffers, for any number and size of the *)
(* buffers; and the names that the generator keeps, for any calls.         *)
(***************************************************************************)
EXTENDS Rc, Scoping, Names, FunctionTheorems, FiniteSetTheorems, SeqLemmas

(* A reference is held just when it refers to something; no two crc_dels free
   the same object; and what is on its way to being freed is still there. *)
HeldIfUsed == \A r \in Ref : to[r] = Nil <=> holder[r] = Nil

OneDestroys ==
  \A t, u \in Thread : \A j \in 1 .. Len(dying[t]), k \in 1 .. Len(dying[u]) :
    dying[t][j] = dying[u][k] => t = u /\ j = k

DyingLive == \A t \in Thread : \A k \in 1 .. Len(dying[t]) : mem[dying[t][k]] = "live"

IInv ==
  /\ TypeOK
  /\ CountIsReferences
  /\ NoDanglingReference
  /\ OneDestroys
  /\ HeldIfUsed
  /\ DyingLive

-----------------------------------------------------------------------------
(***************************************************************************)
(* Sets of references.                                                     *)
(***************************************************************************)
LEMMA RefsToFinite ==
  ASSUME NEW o
  PROVE  IsFiniteSet(RefsTo(o)) /\ Cardinality(RefsTo(o)) \in Nat
<1>1. RefsTo(o) \subseteq Ref
  BY DEF RefsTo
<1> QED
  BY <1>1, RefAssumption, FS_Subset, FS_CardinalityType

(* A reference that was not in use is made to refer to o. *)
LEMMA OneMore ==
  ASSUME TypeOK, NEW r \in Ref, to[r] = Nil, NEW o \in Object,
         to' = [to EXCEPT ![r] = o]
  PROVE  /\ Cardinality(RefsTo(o)') = Cardinality(RefsTo(o)) + 1
         /\ \A x \in Object \ {o} : RefsTo(x)' = RefsTo(x)
<1>1. o # Nil /\ \A x \in Object : x # Nil
  BY DistinctAssumption
<1>2. RefsTo(o)' = RefsTo(o) \cup {r} /\ r \notin RefsTo(o)
  BY <1>1 DEF RefsTo, TypeOK
<1>3. Cardinality(RefsTo(o)') = Cardinality(RefsTo(o)) + 1
  BY <1>2, RefsToFinite, FS_AddElement
<1>4. \A x \in Object \ {o} : RefsTo(x)' = RefsTo(x)
  BY <1>1 DEF RefsTo, TypeOK
<1> QED
  BY <1>3, <1>4

(* A reference to o is given up. *)
LEMMA OneLess ==
  ASSUME TypeOK, NEW r \in Ref, NEW o \in Object, to[r] = o,
         to' = [to EXCEPT ![r] = Nil]
  PROVE  /\ RefsTo(o)' = RefsTo(o) \ {r}
         /\ Cardinality(RefsTo(o)') = Cardinality(RefsTo(o)) - 1
         /\ \A x \in Object \ {o} : RefsTo(x)' = RefsTo(x)
<1>1. \A x \in Object : x # Nil
  BY DistinctAssumption
<1>2. RefsTo(o)' = RefsTo(o) \ {r} /\ r \in RefsTo(o)
  BY <1>1 DEF RefsTo, TypeOK
<1>3. Cardinality(RefsTo(o)') = Cardinality(RefsTo(o)) - 1
  BY <1>2, RefsToFinite, FS_RemoveElement
<1>4. \A x \in Object \ {o} : RefsTo(x)' = RefsTo(x)
  BY <1>1 DEF RefsTo, TypeOK
<1> QED
  BY <1>2, <1>3, <1>4

-----------------------------------------------------------------------------
LEMMA InitInv == Init => IInv
<1> SUFFICES ASSUME Init PROVE IInv
  OBVIOUS
<1>1. TypeOK
  BY EmptySeq DEF Init, TypeOK
<1>2. CountIsReferences /\ NoDanglingReference /\ HeldIfUsed
  BY DEF Init, CountIsReferences, NoDanglingReference, HeldIfUsed
<1>3. OneDestroys /\ DyingLive
  BY DEF Init, OneDestroys, DyingLive
<1> QED
  BY <1>1, <1>2, <1>3 DEF IInv

LEMMA NewStep ==
  ASSUME IInv, NEW t \in Thread, NEW o \in Object, NEW r \in Ref,
         NEW kids \in SUBSET Ref, New(t, o, r, kids)
  PROVE  IInv'
<1>1. TypeOK'
  BY DEF IInv, TypeOK, New
<1>2. RefsTo(o) = {} /\ mem[o] = "unborn" /\ o # Nil /\ t # Nil /\ t # o
  BY DistinctAssumption DEF IInv, TypeOK, New, NoDanglingReference, RefsTo
<1>3. holder[r] = Nil /\ r \notin kids /\ \A q \in kids : holder[q] = t /\ to[q] # Nil
  BY <1>2 DEF IInv, New, HeldIfUsed, HeldBy
<1>4. CountIsReferences'
  <2>1. /\ Cardinality(RefsTo(o)') = 0 + 1
        /\ \A x \in Object \ {o} : RefsTo(x)' = RefsTo(x)
    BY <1>2, OneMore, FS_EmptySet DEF IInv, New
  <2>2. count'[o] = 1 /\ \A x \in Object \ {o} : count'[x] = count[x] /\ mem'[x] = mem[x]
    BY DEF New, IInv, TypeOK
  <2> QED
    BY <2>1, <2>2 DEF IInv, CountIsReferences
<1>5. \A x \in Object : Dying(x)' <=> Dying(x)
  BY DEF New, Dying
<1>6. ~Dying(o)
  BY <1>2 DEF Dying, IInv, DyingLive
<1>7. NoDanglingReference'
  <2> SUFFICES ASSUME NEW q \in Ref, to'[q] # Nil
               PROVE  /\ mem'[to'[q]] = "live" /\ ~Dying(to'[q])
                      /\ holder'[q] \in Object => mem'[holder'[q]] = "live"
    BY <1>5, <1>1 DEF NoDanglingReference, TypeOK
  <2>1. CASE q = r
    <3>1. to'[q] = o /\ mem'[o] = "live" /\ holder'[q] = t
      BY <2>1 DEF New, IInv, TypeOK
    <3> QED
      BY <1>6, <3>1, DistinctAssumption
  <2>2. CASE q # r
    <3>1. to'[q] = to[q] /\ mem[to[q]] = "live" /\ ~Dying(to[q]) /\ to[q] \in Object
      BY <2>2 DEF New, IInv, TypeOK, NoDanglingReference
    <3>2. mem'[to[q]] = "live"
      BY <3>1, <1>2 DEF New, IInv, TypeOK
    <3>3. CASE q \in kids
      BY <2>2, <3>1, <3>2, <3>3 DEF New, IInv, TypeOK
    <3>4. CASE q \notin kids
      <4>1. holder'[q] = holder[q]
        BY <2>2, <3>4 DEF New
      <4>2. holder[q] \in Object => mem[holder[q]] = "live"
        BY <2>2, <3>1 DEF IInv, NoDanglingReference
      <4> QED
        BY <1>2, <3>1, <3>2, <4>1, <4>2 DEF New, IInv, TypeOK
    <3> QED
      BY <3>3, <3>4
  <2> QED
    BY <2>1, <2>2
<1>8. OneDestroys'
  BY DEF IInv, OneDestroys, New
<1>9. HeldIfUsed'
  <2> SUFFICES ASSUME NEW q \in Ref PROVE to'[q] = Nil <=> holder'[q] = Nil
    BY DEF HeldIfUsed
  <2>1. CASE q = r
    BY <1>2, <2>1 DEF New, IInv, TypeOK
  <2>2. CASE q # r /\ q \in kids
    BY <1>2, <1>3, <2>2 DEF New, IInv, TypeOK
  <2>3. CASE q # r /\ q \notin kids
    BY <2>3 DEF New, IInv, TypeOK, HeldIfUsed
  <2> QED
    BY <2>1, <2>2, <2>3
<1>10. DyingLive'
  <2>1. \A u \in Thread : \A k \in 1 .. Len(dying[u]) : dying[u][k] \in Object
    BY ElementOfSeq DEF IInv, TypeOK
  <2> QED
    BY <1>2, <2>1 DEF IInv, DyingLive, New, TypeOK
<1> QED
  BY <1>1, <1>4, <1>7, <1>8, <1>9, <1>10 DEF IInv

LEMMA UseStep ==
  ASSUME IInv, NEW t \in Thread, NEW q \in Ref, NEW r \in Ref, Use(t, q, r)
  PROVE  IInv'
<1>1. PICK o \in Object : o = to[q] /\ mem[o] = "live" /\ ~Dying(o)
  BY DistinctAssumption
     DEF IInv, Use, Reaches, HeldBy, HeldIfUsed, NoDanglingReference, TypeOK
<1>2. TypeOK' /\ o # Nil /\ t # Nil /\ t \notin Object
  BY <1>1, DistinctAssumption DEF IInv, TypeOK, Use
<1>3. /\ to' = [to EXCEPT ![r] = o] /\ to[r] = Nil
      /\ holder' = [holder EXCEPT ![r] = t]
      /\ count' = [count EXCEPT ![o] = @ + 1]
      /\ UNCHANGED <<mem, dying>>
  BY <1>1 DEF Use
<1>4. CountIsReferences'
  <2>1. /\ Cardinality(RefsTo(o)') = Cardinality(RefsTo(o)) + 1
        /\ \A x \in Object \ {o} : RefsTo(x)' = RefsTo(x)
    BY <1>1, <1>3, OneMore DEF IInv
  <2>2. count'[o] = count[o] + 1 /\ \A x \in Object \ {o} : count'[x] = count[x]
    BY <1>1, <1>3 DEF IInv, TypeOK
  <2> QED
    BY <1>1, <1>3, <2>1, <2>2 DEF IInv, CountIsReferences
<1>5. \A x \in Object : Dying(x)' <=> Dying(x)
  BY <1>3 DEF Dying
<1>6. NoDanglingReference'
  <2> SUFFICES ASSUME NEW p \in Ref, to'[p] # Nil
               PROVE  /\ mem'[to'[p]] = "live" /\ ~Dying(to'[p])
                      /\ holder'[p] \in Object => mem'[holder'[p]] = "live"
    BY <1>5, <1>2 DEF NoDanglingReference, TypeOK
  <2>1. CASE p = r
    BY <1>1, <1>2, <1>3, <2>1 DEF IInv, TypeOK
  <2>2. CASE p # r
    BY <1>3, <2>2 DEF IInv, NoDanglingReference, TypeOK
  <2> QED
    BY <2>1, <2>2
<1>7. OneDestroys' /\ DyingLive'
  BY <1>3 DEF IInv, OneDestroys, DyingLive
<1>8. HeldIfUsed'
  BY <1>2, <1>3 DEF IInv, HeldIfUsed, TypeOK
<1> QED
  BY <1>2, <1>4, <1>6, <1>7, <1>8 DEF IInv

LEMMA GiveStep ==
  ASSUME IInv, NEW t \in Thread, NEW u \in Thread, NEW r \in Ref, Give(t, u, r)
  PROVE  IInv'
<1>1. /\ holder' = [holder EXCEPT ![r] = u] /\ holder[r] = t
      /\ t # Nil /\ u # Nil /\ u \notin Object
      /\ UNCHANGED <<mem, count, to, dying>>
  BY DistinctAssumption DEF Give
<1>2. TypeOK'
  BY <1>1 DEF IInv, TypeOK
<1>3. CountIsReferences'
  BY <1>1 DEF IInv, CountIsReferences, RefsTo
<1>4. \A x \in Object : Dying(x)' <=> Dying(x)
  BY <1>1 DEF Dying
<1>5. NoDanglingReference'
  BY <1>1, <1>2, <1>4 DEF IInv, NoDanglingReference, TypeOK
<1>6. OneDestroys' /\ DyingLive' /\ HeldIfUsed'
  BY <1>1 DEF IInv, OneDestroys, DyingLive, HeldIfUsed, TypeOK
<1> QED
  BY <1>2, <1>3, <1>5, <1>6 DEF IInv

(* Both halves of crc_del.  Whoever runs crc_del holds the last reference,
   or leaves one behind. *)
LEMMA DecrementStep ==
  ASSUME IInv, NEW t \in Thread, NEW r \in Ref, holder[r] # Nil, Decrement(t, r)
  PROVE  IInv'
<1>1. PICK o \in Object : o = to[r] /\ mem[o] = "live" /\ ~Dying(o)
  BY DEF IInv, HeldIfUsed, NoDanglingReference, TypeOK
<1>2. /\ count' = [count EXCEPT ![o] = @ - 1]
      /\ to' = [to EXCEPT ![r] = Nil]
      /\ holder' = [holder EXCEPT ![r] = Nil]
      /\ dying' = IF count[o] <= 1 THEN [dying EXCEPT ![t] = Append(@, o)] ELSE dying
      /\ UNCHANGED mem
  BY <1>1 DEF Decrement
<1>3. \A u \in Thread : dying[u] \in Seq(Object)
  BY DEF IInv, TypeOK
<1>4. /\ count[o] = Cardinality(RefsTo(o)) /\ r \in RefsTo(o)
      /\ IsFiniteSet(RefsTo(o) \ {r})
      /\ Cardinality(RefsTo(o) \ {r}) = count[o] - 1
      /\ count[o] - 1 \in Nat
  <2>1. count[o] = Cardinality(RefsTo(o)) /\ r \in RefsTo(o)
    BY <1>1 DEF IInv, CountIsReferences, RefsTo
  <2>2. /\ IsFiniteSet(RefsTo(o) \ {r})
        /\ Cardinality(RefsTo(o) \ {r}) = Cardinality(RefsTo(o)) - 1
        /\ Cardinality(RefsTo(o) \ {r}) \in Nat
    BY <2>1, RefsToFinite, FS_RemoveElement, FS_CardinalityType
  <2> QED
    BY <2>1, <2>2
<1>5. TypeOK'
  <2>1. Append(dying[t], o) \in Seq(Object)
    BY <1>3
  <2> QED
    BY <1>2, <1>4, <2>1 DEF IInv, TypeOK
<1>6. /\ RefsTo(o)' = RefsTo(o) \ {r}
      /\ Cardinality(RefsTo(o)') = Cardinality(RefsTo(o)) - 1
      /\ \A x \in Object \ {o} : RefsTo(x)' = RefsTo(x)
  BY <1>1, <1>2, OneLess DEF IInv
<1>7. CountIsReferences'
  <2>1. count'[o] = count[o] - 1 /\ \A x \in Object \ {o} : count'[x] = count[x]
    BY <1>2 DEF IInv, TypeOK
  <2> QED
    BY <1>1, <1>2, <1>6, <2>1 DEF IInv, CountIsReferences
<1>8. count[o] <= 1 => \A q \in Ref : q # r => to[q] # o
  <2>1. ASSUME count[o] <= 1 PROVE RefsTo(o) = {r}
    <3>1. Cardinality(RefsTo(o) \ {r}) = 0
      BY <1>4, <2>1 DEF IInv, TypeOK
    <3> QED
      BY <1>4, <3>1, FS_EmptySet
  <2> QED
    BY <2>1 DEF RefsTo
<1>9. \A u \in Thread : \A k \in 1 .. Len(dying'[u]) :
         \/ k \in 1 .. Len(dying[u]) /\ dying'[u][k] = dying[u][k]
         \/ count[o] <= 1 /\ u = t /\ k = Len(dying[t]) + 1 /\ dying'[u][k] = o
  BY <1>2, <1>3 DEF IInv, TypeOK
<1>10. \A x \in Object : Dying(x)' => Dying(x) \/ (x = o /\ count[o] <= 1)
  BY <1>9 DEF Dying
<1>11. NoDanglingReference'
  <2> SUFFICES ASSUME NEW q \in Ref, to'[q] # Nil
               PROVE  /\ mem'[to'[q]] = "live"
                      /\ ~(\E u \in Thread : \E k \in 1 .. Len(dying'[u]) : dying'[u][k] = to'[q])
                      /\ holder'[q] \in Object => mem'[holder'[q]] = "live"
    BY DEF NoDanglingReference, Dying
  <2>1. q # r /\ to'[q] = to[q] /\ holder'[q] = holder[q] /\ to[q] \in Object
    BY <1>2 DEF IInv, TypeOK
  <2>2. mem[to[q]] = "live" /\ ~Dying(to[q]) /\ (holder[q] \in Object => mem[holder[q]] = "live")
    BY <2>1 DEF IInv, NoDanglingReference
  <2> QED
    BY <1>2, <1>8, <1>9, <2>1, <2>2 DEF Dying
<1>12. OneDestroys'
  <2> SUFFICES ASSUME NEW u \in Thread, NEW v \in Thread,
                      NEW j \in 1 .. Len(dying'[u]), NEW k \in 1 .. Len(dying'[v]),
                      dying'[u][j] = dying'[v][k]
               PROVE  u = v /\ j = k
    BY DEF OneDestroys
  <2>1. \A w \in Thread : \A i \in 1 .. Len(dying[w]) : dying[w][i] # o
    BY <1>1 DEF Dying
  <2>2. \/ j \in 1 .. Len(dying[u]) /\ dying'[u][j] = dying[u][j]
        \/ u = t /\ j = Len(dying[t]) + 1 /\ dying'[u][j] = o
    BY <1>9
  <2>3. \/ k \in 1 .. Len(dying[v]) /\ dying'[v][k] = dying[v][k]
        \/ v = t /\ k = Len(dying[t]) + 1 /\ dying'[v][k] = o
    BY <1>9
  <2>4. CASE dying'[u][j] = o
    BY <2>1, <2>2, <2>3, <2>4
  <2>5. CASE dying'[u][j] # o
    <3>1. j \in 1 .. Len(dying[u]) /\ k \in 1 .. Len(dying[v]) /\ dying[u][j] = dying[v][k]
      BY <2>2, <2>3, <2>5
    <3> QED
      BY <3>1 DEF IInv, OneDestroys
  <2> QED
    BY <2>4, <2>5
<1>13. HeldIfUsed'
  BY <1>2 DEF IInv, HeldIfUsed, TypeOK
<1>14. DyingLive'
  BY <1>1, <1>2, <1>9 DEF IInv, DyingLive
<1> QED
  BY <1>5, <1>7, <1>11, <1>12, <1>13, <1>14 DEF IInv

LEMMA DelStep ==
  ASSUME IInv, NEW t \in Thread, NEW r \in Ref, Del(t, r)
  PROVE  IInv'
BY DecrementStep, DistinctAssumption DEF Del

LEMMA DeleterDelStep ==
  ASSUME IInv, NEW t \in Thread, NEW r \in Ref, DeleterDel(t, r)
  PROVE  IInv'
<1>1. Last(dying[t]) \in Object
  BY FrontType DEF IInv, TypeOK, DeleterDel, Idle
<1> QED
  BY <1>1, DecrementStep, DistinctAssumption DEF DeleterDel

LEMMA FreeStep ==
  ASSUME IInv, NEW t \in Thread, Free(t)
  PROVE  IInv'
<1>1. PICK o \in Object : /\ o = Last(dying[t]) /\ Len(dying[t]) >= 1
                          /\ o = dying[t][Len(dying[t])]
  BY FrontType DEF IInv, TypeOK, Free, Idle, Last
<1>2. /\ mem' = [mem EXCEPT ![o] = "freed"]
      /\ dying' = [dying EXCEPT ![t] = Front(@)]
      /\ \A r \in Ref : holder[r] # o
      /\ UNCHANGED <<count, to, holder>>
  BY <1>1 DEF Free, HeldBy
<1>3. /\ Front(dying[t]) \in Seq(Object)
      /\ Len(Front(dying[t])) = Len(dying[t]) - 1
      /\ \A k \in 1 .. Len(dying[t]) - 1 : Front(dying[t])[k] = dying[t][k]
  BY <1>1, FrontType DEF IInv, TypeOK, Free, Idle
<1>4. TypeOK'
  BY <1>2, <1>3 DEF IInv, TypeOK
<1>5. \A u \in Thread : \A k \in 1 .. Len(dying'[u]) :
        k \in 1 .. Len(dying[u]) /\ dying'[u][k] = dying[u][k] /\ (u = t => k < Len(dying[t]))
  <2> SUFFICES ASSUME NEW u \in Thread, NEW k \in 1 .. Len(dying'[u])
               PROVE  k \in 1 .. Len(dying[u]) /\ dying'[u][k] = dying[u][k] /\ (u = t => k < Len(dying[t]))
    OBVIOUS
  <2>1. CASE u = t
    <3>1. dying'[u] = Front(dying[t])
      <4>1. dying \in [Thread -> Seq(Object)]
        BY DEF IInv, TypeOK
      <4> QED
        BY <1>2, <2>1, <4>1
    <3>2. Len(dying[t]) \in Nat /\ k \in 1 .. Len(dying[t]) - 1
      <4>1. Len(dying[t]) \in Nat
        BY LenProperties DEF IInv, TypeOK
      <4> QED
        BY <1>3, <3>1, <4>1
    <3>3. dying'[u][k] = dying[t][k]
      BY <1>3, <3>1, <3>2
    <3> QED
      BY <2>1, <3>2, <3>3
  <2>2. CASE u # t
    BY <1>2, <2>2 DEF IInv, TypeOK
  <2> QED
    BY <2>1, <2>2
<1>6. Dying(o)
  BY <1>1 DEF Dying, IInv, TypeOK
<1>7. CountIsReferences'
  BY <1>2 DEF IInv, CountIsReferences, RefsTo, TypeOK
<1>8. NoDanglingReference'
  <2> SUFFICES ASSUME NEW q \in Ref, to'[q] # Nil
               PROVE  /\ mem'[to'[q]] = "live"
                      /\ ~(\E u \in Thread : \E k \in 1 .. Len(dying'[u]) : dying'[u][k] = to'[q])
                      /\ holder'[q] \in Object => mem'[holder'[q]] = "live"
    BY DEF NoDanglingReference, Dying
  <2>1. mem[to[q]] = "live" /\ ~Dying(to[q]) /\ (holder[q] \in Object => mem[holder[q]] = "live")
    BY <1>2 DEF IInv, NoDanglingReference
  <2>2. to[q] # o /\ holder[q] # o
    BY <1>2, <1>6, <2>1
  <2> QED
    BY <1>2, <1>5, <2>1, <2>2 DEF IInv, TypeOK, Dying
<1>9. OneDestroys'
  <2> SUFFICES ASSUME NEW u \in Thread, NEW v \in Thread,
                      NEW j \in 1 .. Len(dying'[u]), NEW k \in 1 .. Len(dying'[v]),
                      dying'[u][j] = dying'[v][k]
               PROVE  u = v /\ j = k
    BY DEF OneDestroys
  <2>1. /\ j \in 1 .. Len(dying[u]) /\ dying'[u][j] = dying[u][j]
        /\ k \in 1 .. Len(dying[v]) /\ dying'[v][k] = dying[v][k]
    BY <1>5
  <2>2. dying[u][j] = dying[v][k]
    BY <2>1
  <2>3. OneDestroys
    BY DEF IInv
  <2> QED
    BY <2>1, <2>2, <2>3 DEF OneDestroys
<1>10. HeldIfUsed'
  BY <1>2 DEF IInv, HeldIfUsed
<1>11. DyingLive'
  <2> SUFFICES ASSUME NEW u \in Thread, NEW k \in 1 .. Len(dying'[u])
               PROVE  mem'[dying'[u][k]] = "live"
    BY DEF DyingLive
  <2>1. /\ k \in 1 .. Len(dying[u]) /\ dying'[u][k] = dying[u][k]
        /\ mem[dying[u][k]] = "live"
    BY <1>5 DEF IInv, DyingLive
  <2>2. dying[u][k] # o
    <3>1. Len(dying[t]) \in 1 .. Len(dying[t])
      BY <1>1 DEF IInv, TypeOK
    <3> QED
      BY <1>1, <1>5, <2>1, <3>1 DEF IInv, OneDestroys
  <2>3. dying[u][k] \in Object
    BY <2>1, ElementOfSeq DEF IInv, TypeOK
  <2> QED
    BY <1>2, <2>1, <2>2, <2>3 DEF IInv, TypeOK
<1> QED
  BY <1>4, <1>7, <1>8, <1>9, <1>10, <1>11 DEF IInv

-----------------------------------------------------------------------------
LEMMA NextInv == IInv /\ [Next]_vars => IInv'
<1> SUFFICES ASSUME IInv, [Next]_vars PROVE IInv'
  OBVIOUS
<1>1. CASE UNCHANGED vars
  BY <1>1 DEF IInv, vars, TypeOK, CountIsReferences, RefsTo, NoDanglingReference, Dying,
              OneDestroys, HeldIfUsed, DyingLive
<1>2. ASSUME NEW t \in Thread, Client(t) PROVE IInv'
  BY <1>2, NewStep, UseStep, GiveStep, DelStep DEF Client, HeldBy
<1>3. ASSUME NEW t \in Thread, Destroy(t) PROVE IInv'
  BY <1>3, DeleterDelStep, FreeStep DEF Destroy
<1> QED
  BY <1>1, <1>2, <1>3 DEF Next

LEMMA Inductive == Spec => []IInv
BY InitInv, NextInv, PTL DEF Spec

(* The variables of the library keep their types, whatever its clients do. *)
THEOREM TypeCorrect == Spec => []TypeOK
<1>1. IInv => TypeOK
  BY DEF IInv
<1> QED
  BY <1>1, Inductive, PTL

(* The count of a live object is the number of references to it (crc_use,
   crc_del). *)
THEOREM CountsReferences == Spec => []CountIsReferences
<1>1. IInv => CountIsReferences
  BY DEF IInv
<1> QED
  BY <1>1, Inductive, PTL

(* No reference is to an object that crc_del has freed or is freeing. *)
THEOREM NoUseAfterFree == Spec => []NoDanglingReference
<1>1. IInv => NoDanglingReference
  BY DEF IInv
<1> QED
  BY <1>1, Inductive, PTL

(* However the crc_dels of several threads meet, none frees what has been
   freed, and one of them frees. *)
THEOREM NoDoubleFree == Spec => []FreedOnce
<1>1. IInv => FreedOnce
  BY DEF IInv, OneDestroys, DyingLive, FreedOnce
<1> QED
  BY <1>1, Inductive, PTL

-----------------------------------------------------------------------------
(***************************************************************************)
(* The macro scoping.                                                      *)
(***************************************************************************)
(* The uses of o by scopes: which argument of which scope points to it. *)
InUse(s, o) ==
  {u \in (1 .. Len(s)) \X Nat :
     /\ u[2] \in 1 .. Len(s[u[1]])
     /\ var[s[u[1]][u[2]]] = o}

(* The references there are to o: those of scopes, and its other owner's. *)
References(o) ==
  Cardinality(InUse(scopes, o)) + (IF o \in owned THEN 1 ELSE 0)

Skipped == UNION ToSet(jumped)

Typed ==
  /\ var \in [Var -> Pointee]
  /\ rc_count \in [Pointee -> Nat]
  /\ freed \subseteq Pointee /\ owned \subseteq Pointee
  /\ scopes \in Seq(Seq(Var))
  /\ jumped \in Seq(SUBSET Pointee)

(* What is counted is there, and what is counted beyond it was jumped over. *)
Counted(o) ==
  /\ IsFiniteSet(InUse(scopes, o))
  /\ References(o) <= rc_count[o]
  /\ References(o) < rc_count[o] <=> o \in Skipped
  /\ o \in freed <=> rc_count[o] = 0

ScopeInv == Typed /\ \A o \in Pointee : Counted(o)

-----------------------------------------------------------------------------
(***************************************************************************)
(* How many uses there are.                                                *)
(***************************************************************************)
LEMMA TimesType ==
  ASSUME NEW args \in Seq(Var), NEW o
  PROVE  /\ Times(args, o) \in Nat
         /\ Times(args, o) > 0 <=> o \in Objects(args)
         /\ IsFiniteSet({k \in DOMAIN args : var[args[k]] = o})
<1> DEFINE T == {k \in DOMAIN args : var[args[k]] = o}
<1>1. Len(args) \in Nat /\ DOMAIN args = 1 .. Len(args)
  OBVIOUS
<1>2. IsFiniteSet(T) /\ Cardinality(T) \in Nat
  <2>1. IsFiniteSet(1 .. Len(args)) /\ T \subseteq 1 .. Len(args)
    BY <1>1, FS_Interval
  <2> HIDE DEF T
  <2> QED
    BY <2>1, FS_Subset, FS_CardinalityType
<1>3. Cardinality(T) = 0 <=> T = {}
  BY <1>2, FS_EmptySet
<1>4. T # {} <=> o \in Objects(args)
  BY DEF Objects, ToSet
<1> QED
  BY <1>2, <1>3, <1>4 DEF Times

LEMMA InUseFinite ==
  ASSUME NEW s, NEW o, IsFiniteSet(InUse(s, o))
  PROVE  /\ Cardinality(InUse(s, o)) \in Nat
         /\ Cardinality(InUse(s, o)) = 0 <=> InUse(s, o) = {}
BY FS_EmptySet, FS_CardinalityType

(* A scope that is entered adds one use for each argument. *)
LEMMA Pushed ==
  ASSUME NEW s \in Seq(Seq(Var)), NEW args \in Seq(Var), NEW o,
         IsFiniteSet(InUse(s, o))
  PROVE  /\ IsFiniteSet(InUse(Append(s, args), o))
         /\ Cardinality(InUse(Append(s, args), o))
              = Cardinality(InUse(s, o)) + Times(args, o)
<1> DEFINE T == {k \in DOMAIN args : var[args[k]] = o}
           n == Len(s) + 1
           new == {n} \X T
           f == [k \in T |-> <<n, k>>]
<1>1. Len(s) \in Nat /\ Len(Append(s, args)) = n /\ n \in Nat
      /\ Append(s, args)[n] = args
      /\ \A k \in 1 .. Len(s) : Append(s, args)[k] = s[k]
  OBVIOUS
<1>2. DOMAIN args = 1 .. Len(args) /\ Len(args) \in Nat
  OBVIOUS
<1>3. f \in Bijection(T, new)
  <2>1. f \in [T -> new] /\ \A k \in T : f[k] = <<n, k>>
    OBVIOUS
  <2>2. \A a, b \in T : f[a] = f[b] => a = b
    BY <2>1
  <2>3. \A u \in new : \E k \in T : f[k] = u
    BY <2>1
  <2> HIDE DEF f, new, T, n
  <2> QED
    BY <2>1, <2>2, <2>3, Fun_IsBij
<1>4. IsFiniteSet(new) /\ Cardinality(new) = Times(args, o)
  <2>1. IsFiniteSet(T) /\ Times(args, o) = Cardinality(T)
    BY TimesType DEF Times
  <2>2. ExistsBijection(T, new)
    BY <1>3, Fun_ExistsBij
  <2> HIDE DEF f, new, T
  <2>3. IsFiniteSet(new) /\ Cardinality(new) = Cardinality(T)
    BY <2>1, <2>2, FS_Bijection
  <2> QED
    BY <2>1, <2>3
<1>5. InUse(Append(s, args), o) = InUse(s, o) \cup new
  <2> DEFINE t == Append(s, args)
  <2>1. ASSUME NEW u \in InUse(t, o)
        PROVE  u \in InUse(s, o) \cup new
    <3>1. u \in (1 .. n) \X Nat /\ u[2] \in 1 .. Len(t[u[1]]) /\ var[t[u[1]][u[2]]] = o
      BY <1>1 DEF InUse
    <3>2. CASE u[1] = n
      BY <1>1, <1>2, <3>1, <3>2
    <3>3. CASE u[1] # n
      <4>1. u[1] \in 1 .. Len(s) /\ t[u[1]] = s[u[1]] /\ u \in (1 .. Len(s)) \X Nat
        BY <1>1, <3>1, <3>3
      <4> QED
        BY <3>1, <4>1 DEF InUse
    <3> QED
      BY <3>2, <3>3
  <2>2. ASSUME NEW u \in InUse(s, o)
        PROVE  u \in InUse(t, o)
    <3>1. u \in (1 .. Len(s)) \X Nat /\ u[2] \in 1 .. Len(s[u[1]]) /\ var[s[u[1]][u[2]]] = o
      BY DEF InUse
    <3>2. u \in (1 .. n) \X Nat /\ t[u[1]] = s[u[1]]
      BY <1>1, <3>1
    <3> QED
      BY <1>1, <3>1, <3>2 DEF InUse
  <2>3. ASSUME NEW u \in new
        PROVE  u \in InUse(t, o)
    <3>1. u \in (1 .. n) \X Nat /\ u[1] = n /\ u[2] \in 1 .. Len(args)
          /\ var[args[u[2]]] = o
      BY <1>1, <1>2
    <3> QED
      BY <1>1, <3>1 DEF InUse
  <2> QED
    BY <2>1, <2>2, <2>3
<1>6. InUse(s, o) \cap new = {}
  BY <1>1 DEF InUse
<1>7. Cardinality(InUse(s, o)) \in Nat /\ Cardinality(new) \in Nat
      /\ Cardinality(InUse(s, o) \cap new) = 0
  BY <1>4, <1>6, FS_CardinalityType, FS_EmptySet
<1>8. Cardinality(InUse(s, o) \cup new)
        = Cardinality(InUse(s, o)) + Cardinality(new) - Cardinality(InUse(s, o) \cap new)
      /\ IsFiniteSet(InUse(s, o) \cup new)
  <2> HIDE DEF new
  <2> QED
    BY <1>4, FS_Union
<1> HIDE DEF new
<1> QED
  BY <1>4, <1>5, <1>7, <1>8

LEMMA Popped ==
  ASSUME NEW s \in Seq(Seq(Var)), s # << >>, NEW o, IsFiniteSet(InUse(s, o))
  PROVE  /\ IsFiniteSet(InUse(Front(s), o))
         /\ Cardinality(InUse(s, o))
              = Cardinality(InUse(Front(s), o)) + Times(Last(s), o)
<1>1. /\ Len(s) \in Nat \ {0}
      /\ Last(s) = s[Len(s)] /\ Last(s) \in Seq(Var)
      /\ Front(s) \in Seq(Seq(Var)) /\ Len(Front(s)) = Len(s) - 1
      /\ \A k \in 1 .. Len(s) - 1 : Front(s)[k] = s[k]
  BY FrontType
<1>2. InUse(Front(s), o) \subseteq InUse(s, o)
  <2> SUFFICES ASSUME NEW u \in InUse(Front(s), o)
               PROVE  u \in InUse(s, o)
    OBVIOUS
  <2>1. /\ u \in (1 .. Len(s) - 1) \X Nat
        /\ u[2] \in 1 .. Len(Front(s)[u[1]]) /\ var[Front(s)[u[1]][u[2]]] = o
    BY <1>1 DEF InUse
  <2>2. u[1] \in 1 .. Len(s) - 1 /\ u[2] \in Nat /\ u = <<u[1], u[2]>>
    BY <1>1, <2>1
  <2>3. Front(s)[u[1]] = s[u[1]] /\ u[1] \in 1 .. Len(s)
    BY <1>1, <2>2
  <2>4. u \in (1 .. Len(s)) \X Nat
    BY <2>2, <2>3
  <2> QED
    BY <2>1, <2>3, <2>4 DEF InUse
<1>3. IsFiniteSet(InUse(Front(s), o))
  BY <1>2, FS_Subset
<1>4. Append(Front(s), Last(s)) = s
  <2> DEFINE t == Append(Front(s), Last(s))
  <2>1. t \in Seq(Seq(Var)) /\ Len(t) = Len(s)
    BY <1>1
  <2>2. \A k \in 1 .. Len(s) : t[k] = s[k]
    BY <1>1
  <2> HIDE DEF t
  <2>3. t = s
    BY <2>1, <2>2, SeqEqual
  <2> QED
    BY <2>3 DEF t
<1> DEFINE f == Front(s)
           args == Last(s)
<1>5. f \in Seq(Seq(Var)) /\ args \in Seq(Var) /\ IsFiniteSet(InUse(f, o)) /\ Append(f, args) = s
  BY <1>1, <1>3, <1>4
<1> HIDE DEF f, args
<1>6. Cardinality(InUse(s, o)) = Cardinality(InUse(f, o)) + Times(args, o)
  BY <1>5, Pushed
<1> QED
  BY <1>3, <1>6 DEF f, args

(* An object is in use if it is the argument of a scope, and only then. *)
LEMMA UsedByScope ==
  ASSUME NEW s \in Seq(Seq(Var)), NEW o
  PROVE  InUse(s, o) # {} <=> \E k \in DOMAIN s : o \in Objects(s[k])
<1>1. DOMAIN s = 1 .. Len(s) /\ \A k \in 1 .. Len(s) : s[k] \in Seq(Var)
  BY ElementOfSeq
<1>2. ASSUME NEW u \in InUse(s, o)
      PROVE  \E k \in DOMAIN s : o \in Objects(s[k])
  <2>1. u[1] \in 1 .. Len(s) /\ u[2] \in 1 .. Len(s[u[1]]) /\ var[s[u[1]][u[2]]] = o
    BY DEF InUse
  <2>2. DOMAIN s[u[1]] = 1 .. Len(s[u[1]])
    BY <1>1, <2>1
  <2> QED
    BY <1>1, <2>1, <2>2 DEF Objects, ToSet
<1>3. ASSUME NEW k \in DOMAIN s, o \in Objects(s[k])
      PROVE  InUse(s, o) # {}
  <2>1. DOMAIN s[k] = 1 .. Len(s[k]) /\ Len(s[k]) \in Nat
    BY <1>1
  <2>2. PICK i \in 1 .. Len(s[k]) : var[s[k][i]] = o
    BY <1>3, <2>1 DEF Objects, ToSet
  <2>3. <<k, i>> \in InUse(s, o)
    BY <1>1, <2>1, <2>2 DEF InUse
  <2> QED
    BY <2>3
<1> QED
  BY <1>2, <1>3

-----------------------------------------------------------------------------
(***************************************************************************)
(* Every action preserves the invariant.                                   *)
(***************************************************************************)
LEMMA ScopeInvInit == ScopingInit => ScopeInv
<1> SUFFICES ASSUME ScopingInit PROVE ScopeInv
  OBVIOUS
<1>1. Typed
  BY DEF ScopingInit, Typed
<1>2. ASSUME NEW o PROVE InUse(scopes, o) = {}
  BY DEF ScopingInit, InUse
<1>3. Skipped = {}
  BY DEF ScopingInit, Skipped, ToSet
<1>4. \A o \in Pointee : rc_count[o] = 1 /\ o \in owned /\ o \notin freed
  BY DEF ScopingInit
<1>5. ASSUME NEW o \in Pointee PROVE Counted(o)
  <2>1. IsFiniteSet(InUse(scopes, o)) /\ Cardinality(InUse(scopes, o)) = 0
    BY <1>2, FS_EmptySet
  <2> QED
    BY <1>3, <1>4, <2>1 DEF Counted, References
<1> QED
  BY <1>1, <1>5 DEF ScopeInv

LEMMA EnterKeeps ==
  ASSUME ScopeInv, NEW args \in ArgLists, Enter(args)
  PROVE  ScopeInv'
<1>1. Typed /\ args \in Seq(Var) /\ scopes' = Append(scopes, args)
      /\ UNCHANGED <<var, freed, owned, jumped>>
  BY ArgListsAssumption DEF ScopeInv, Enter
<1>2. \A o \in Pointee : rc_count'[o] = rc_count[o] + Times(args, o)
                        /\ Times(args, o) \in Nat
  BY TimesType, <1>1 DEF Enter
<1>3. Typed'
  BY <1>1, <1>2 DEF Typed, Enter
<1>4. ASSUME NEW o \in Pointee PROVE Counted(o)'
  <2>1. Counted(o) /\ rc_count[o] \in Nat /\ rc_count[o]' = rc_count[o] + Times(args, o)
        /\ Times(args, o) \in Nat
    BY <1>1, <1>2 DEF ScopeInv, Typed
  <2>2. /\ IsFiniteSet(InUse(scopes, o)')
        /\ Cardinality(InUse(scopes, o)') = Cardinality(InUse(scopes, o)) + Times(args, o)
        /\ Cardinality(InUse(scopes, o)) \in Nat
    <3>1. InUse(scopes, o)' = InUse(Append(scopes, args), o)
      BY <1>1 DEF InUse
    <3> QED
      BY <1>1, <2>1, <3>1, Pushed, InUseFinite DEF Typed, Counted
  <2>3. References(o)' = References(o) + Times(args, o) /\ References(o) \in Nat
    <3>1. owned' = owned
      BY <1>1
    <3> QED
      BY <2>1, <2>2, <3>1 DEF References
  <2>4. Skipped' = Skipped /\ freed' = freed
    BY <1>1 DEF Skipped
  <2>5. Times(args, o) > 0 => o \notin freed
    <3>1. \A x \in Objects(args) : x \notin freed
      BY DEF Enter, Objects
    <3>2. Times(args, o) > 0 => o \in Objects(args)
      BY <1>1, TimesType
    <3> QED
      BY <3>1, <3>2
  <2> QED
    BY <2>1, <2>2, <2>3, <2>4, <2>5 DEF Counted
<1> QED
  BY <1>3, <1>4 DEF ScopeInv

(* crc_del of references that are counted. *)
LEMMA DelKeeps ==
  ASSUME ScopeInv, Typed', NEW times \in [Pointee -> Nat], CrcDel(times), jumped' = jumped,
         NEW o \in Pointee, IsFiniteSet(InUse(scopes, o)'),
         References(o) = References(o)' + times[o], References(o)' \in Nat
  PROVE  Counted(o)'
<1>1. Counted(o) /\ rc_count[o] \in Nat /\ times[o] \in Nat
  BY DEF ScopeInv, Typed
<1>2. rc_count[o]' = rc_count[o] - times[o]
      /\ (o \in freed' <=> o \in freed \/ (times[o] > 0 /\ rc_count[o] <= times[o]))
  BY DEF CrcDel
<1>3. Skipped' = Skipped
  BY DEF Skipped
<1>4. References(o) \in Nat
  BY <1>1
<1> QED
  BY <1>1, <1>2, <1>3, <1>4 DEF Counted

LEMMA ReferencesType ==
  ASSUME ScopeInv, NEW o \in Pointee
  PROVE  /\ IsFiniteSet(InUse(scopes, o))
         /\ Cardinality(InUse(scopes, o)) \in Nat
         /\ References(o) \in Nat /\ rc_count[o] \in Nat
         /\ References(o) <= rc_count[o]
         /\ Cardinality(InUse(scopes, o)) <= rc_count[o]
<1>1. Counted(o) /\ rc_count[o] \in Nat
  BY DEF ScopeInv, Typed
<1>2. Cardinality(InUse(scopes, o)) \in Nat
  BY <1>1, InUseFinite DEF Counted
<1> QED
  BY <1>1, <1>2 DEF Counted, References

LEMMA StepKeeps ==
  ASSUME ScopeInv, Step
  PROVE  ScopeInv'
<1> DEFINE times == [o \in Pointee |-> Times(Last(scopes), o)]
<1>1. Typed /\ scopes # << >> /\ scopes' = Front(scopes)
      /\ UNCHANGED <<var, owned, jumped>> /\ CrcDel(times)
  BY DEF ScopeInv, Step
<1>2. Last(scopes) \in Seq(Var) /\ Front(scopes) \in Seq(Seq(Var))
  BY <1>1, FrontType DEF Typed
<1>3. times \in [Pointee -> Nat]
  BY <1>2, TimesType
<1>4. ASSUME NEW o \in Pointee
      PROVE  /\ IsFiniteSet(InUse(scopes, o)')
             /\ References(o) = References(o)' + times[o] /\ References(o)' \in Nat
             /\ times[o] <= rc_count[o]
  <2>1. InUse(scopes, o)' = InUse(Front(scopes), o)
    BY <1>1 DEF InUse
  <2>2. /\ IsFiniteSet(InUse(scopes, o)')
        /\ Cardinality(InUse(scopes, o)) = Cardinality(InUse(scopes, o)') + times[o]
    BY <1>1, <2>1, Popped, ReferencesType DEF Typed
  <2>3. Cardinality(InUse(scopes, o)') \in Nat
    BY <2>2, FS_CardinalityType
  <2>4. References(o) <= rc_count[o] /\ References(o) \in Nat /\ rc_count[o] \in Nat
        /\ times[o] \in Nat
    BY <1>3, ReferencesType
  <2> HIDE DEF times
  <2>5. References(o) = References(o)' + times[o] /\ References(o)' \in Nat
    BY <1>1, <1>3, <2>2, <2>3 DEF References
  <2> QED
    BY <2>2, <2>4, <2>5
<1> HIDE DEF times
<1>5. Typed'
  <2>1. rc_count' \in [Pointee -> Nat]
    BY <1>1, <1>3, <1>4 DEF CrcDel, Typed
  <2>2. freed' \subseteq Pointee
    BY <1>1 DEF CrcDel, Typed
  <2> QED
    BY <1>1, <1>2, <2>1, <2>2 DEF Typed
<1>6. \A o \in Pointee : Counted(o)'
  BY <1>1, <1>3, <1>4, <1>5, DelKeeps
<1> QED
  BY <1>5, <1>6 DEF ScopeInv

LEMMA DisownKeeps ==
  ASSUME ScopeInv, NEW p \in Pointee, Disown(p)
  PROVE  ScopeInv'
<1> DEFINE times == [o \in Pointee |-> IF o = p THEN 1 ELSE 0]
<1>1. Typed /\ p \in owned /\ owned' = owned \ {p}
      /\ UNCHANGED <<var, scopes, jumped>> /\ CrcDel(times)
  BY DEF ScopeInv, Disown
<1>2. times \in [Pointee -> Nat]
  OBVIOUS
<1>3. ASSUME NEW o \in Pointee
      PROVE  /\ IsFiniteSet(InUse(scopes, o)')
             /\ References(o) = References(o)' + times[o] /\ References(o)' \in Nat
             /\ times[o] <= rc_count[o]
  <2>1. InUse(scopes, o)' = InUse(scopes, o)
    BY <1>1 DEF InUse
  <2>2. References(o) <= rc_count[o] /\ rc_count[o] \in Nat
        /\ IsFiniteSet(InUse(scopes, o)) /\ Cardinality(InUse(scopes, o)) \in Nat
    BY ReferencesType
  <2>3. times[o] = IF o = p THEN 1 ELSE 0
    OBVIOUS
  <2> HIDE DEF times
  <2> QED
    BY <1>1, <2>1, <2>2, <2>3 DEF References
<1> HIDE DEF times
<1>4. Typed'
  <2>1. rc_count' \in [Pointee -> Nat]
    BY <1>1, <1>2, <1>3 DEF CrcDel, Typed
  <2>2. freed' \subseteq Pointee
    BY <1>1 DEF CrcDel, Typed
  <2> QED
    BY <1>1, <2>1, <2>2 DEF Typed
<1>5. \A o \in Pointee : Counted(o)'
  BY <1>1, <1>2, <1>3, <1>4, DelKeeps
<1> QED
  BY <1>4, <1>5 DEF ScopeInv

(* What is left of the uses is lost, and the objects are in jumped. *)
LEMMA JumpKeeps ==
  ASSUME ScopeInv, NEW skipped \in Seq(Seq(Var)), Jump(skipped),
         scopes' \in Seq(Seq(Var)),
         \A o \in Pointee :
           /\ IsFiniteSet(InUse(scopes, o)')
           /\ Cardinality(InUse(scopes, o)') <= Cardinality(InUse(scopes, o))
           /\ Cardinality(InUse(scopes, o)') < Cardinality(InUse(scopes, o))
                <=> \E k \in DOMAIN skipped : o \in Objects(skipped[k])
  PROVE  ScopeInv'
<1> DEFINE lost == [k \in DOMAIN skipped |-> Objects(skipped[k])]
<1>1. Typed /\ jumped' = jumped \o lost /\ UNCHANGED <<var, rc_count, freed, owned>>
  BY DEF ScopeInv, Jump
<1>2. DOMAIN skipped = 1 .. Len(skipped) /\ Len(skipped) \in Nat
      /\ \A k \in 1 .. Len(skipped) : skipped[k] \in Seq(Var)
  BY ElementOfSeq
<1>3. \A k \in DOMAIN skipped : Objects(skipped[k]) \in SUBSET Pointee
  <2> SUFFICES ASSUME NEW k \in DOMAIN skipped, NEW o \in Objects(skipped[k])
               PROVE  o \in Pointee
    OBVIOUS
  <2>1. skipped[k] \in Seq(Var)
    BY <1>2
  <2>2. PICK i \in DOMAIN skipped[k] : o = var[skipped[k][i]]
    BY DEF Objects, ToSet
  <2>3. skipped[k][i] \in Var
    BY <2>1, <2>2, ElementOfSeq
  <2> QED
    BY <1>1, <2>2, <2>3 DEF Typed
<1>4. lost \in Seq(SUBSET Pointee) /\ DOMAIN lost = DOMAIN skipped
      /\ Len(lost) = Len(skipped)
  BY <1>2, <1>3
<1>5. Skipped' = Skipped \cup UNION ToSet(lost)
  <2>1. ToSet(jumped \o lost) = ToSet(jumped) \cup ToSet(lost)
    <3>1. jumped \in Seq(SUBSET Pointee)
      BY <1>1 DEF Typed
    <3> HIDE DEF lost
    <3>2. \A t \in Seq(SUBSET Pointee) : ToSet(t) = Range(t)
      BY DEF ToSet, Range
    <3>3. jumped \o lost \in Seq(SUBSET Pointee)
          /\ Range(jumped \o lost) = Range(jumped) \cup Range(lost)
      BY <1>4, <3>1, ConcatType, RangeConcatenation
    <3> QED
      BY <1>4, <3>1, <3>2, <3>3
  <2> QED
    BY <1>1, <2>1 DEF Skipped
<1>6. \A o : o \in UNION ToSet(lost) <=> \E k \in DOMAIN skipped : o \in Objects(skipped[k])
  BY <1>4 DEF ToSet
<1> HIDE DEF lost
<1>7. Typed'
  BY <1>1, <1>4 DEF Typed
<1>8. ASSUME NEW o \in Pointee PROVE Counted(o)'
  <2>1. /\ IsFiniteSet(InUse(scopes, o)') /\ Cardinality(InUse(scopes, o)') \in Nat
        /\ Cardinality(InUse(scopes, o)) \in Nat
        /\ Cardinality(InUse(scopes, o)') <= Cardinality(InUse(scopes, o))
        /\ (Cardinality(InUse(scopes, o)') < Cardinality(InUse(scopes, o))
             <=> o \in UNION ToSet(lost))
    BY <1>6, FS_CardinalityType, ReferencesType
  <2>2. References(o) \in Nat /\ References(o)' \in Nat
        /\ References(o)' <= References(o)
        /\ (References(o)' < References(o) <=> o \in UNION ToSet(lost))
    BY <1>1, <2>1 DEF References
  <2>3. Counted(o) /\ rc_count[o] \in Nat
    BY <1>1 DEF ScopeInv, Typed
  <2> QED
    BY <1>1, <1>5, <2>1, <2>2, <2>3 DEF Counted
<1> QED
  BY <1>7, <1>8 DEF ScopeInv

LEMMA BreakKeeps ==
  ASSUME ScopeInv, Break
  PROVE  ScopeInv'
<1>1. Typed /\ scopes # << >> /\ scopes' = Front(scopes) /\ Jump(<<Last(scopes)>>)
      /\ UNCHANGED var
  BY DEF ScopeInv, Break, Jump
<1>2. Last(scopes) \in Seq(Var) /\ Front(scopes) \in Seq(Seq(Var))
  BY <1>1, FrontType DEF Typed
<1>4. <<Last(scopes)>> \in Seq(Seq(Var))
  BY <1>2
<1>3. ASSUME NEW o \in Pointee
      PROVE  /\ IsFiniteSet(InUse(scopes, o)')
             /\ Cardinality(InUse(scopes, o)') <= Cardinality(InUse(scopes, o))
             /\ Cardinality(InUse(scopes, o)') < Cardinality(InUse(scopes, o))
                  <=> \E k \in DOMAIN <<Last(scopes)>> : o \in Objects(<<Last(scopes)>>[k])
  <2>1. InUse(scopes, o)' = InUse(Front(scopes), o)
    BY <1>1 DEF InUse
  <2>2. /\ IsFiniteSet(InUse(scopes, o)')
        /\ Cardinality(InUse(scopes, o))
             = Cardinality(InUse(scopes, o)') + Times(Last(scopes), o)
    BY <1>1, <2>1, Popped, ReferencesType DEF Typed
  <2>3. Cardinality(InUse(scopes, o)') \in Nat
    BY <2>2, FS_CardinalityType
  <2>4. Times(Last(scopes), o) \in Nat
        /\ (Times(Last(scopes), o) > 0 <=> o \in Objects(Last(scopes)))
    BY <1>2, TimesType
  <2>5. (\E k \in DOMAIN <<Last(scopes)>> : o \in Objects(<<Last(scopes)>>[k]))
          <=> o \in Objects(Last(scopes))
    OBVIOUS
  <2> QED
    BY <2>2, <2>3, <2>4, <2>5
<1> QED
  BY <1>1, <1>2, <1>3, <1>4, JumpKeeps

LEMMA ReturnKeeps ==
  ASSUME ScopeInv, Return
  PROVE  ScopeInv'
<1>1. Typed /\ scopes' = << >> /\ Jump(scopes) /\ scopes \in Seq(Seq(Var))
      /\ scopes' \in Seq(Seq(Var))
  BY DEF ScopeInv, Return, Typed
<1>2. ASSUME NEW o \in Pointee
      PROVE  /\ IsFiniteSet(InUse(scopes, o)')
             /\ Cardinality(InUse(scopes, o)') <= Cardinality(InUse(scopes, o))
             /\ Cardinality(InUse(scopes, o)') < Cardinality(InUse(scopes, o))
                  <=> \E k \in DOMAIN scopes : o \in Objects(scopes[k])
  <2>1. InUse(scopes, o)' = {}
    BY <1>1 DEF InUse
  <2>2. IsFiniteSet(InUse(scopes, o)') /\ Cardinality(InUse(scopes, o)') = 0
    BY <2>1, FS_EmptySet
  <2>3. Cardinality(InUse(scopes, o)) \in Nat
        /\ (Cardinality(InUse(scopes, o)) = 0 <=> InUse(scopes, o) = {})
    BY ReferencesType, InUseFinite
  <2>4. InUse(scopes, o) # {} <=> \E k \in DOMAIN scopes : o \in Objects(scopes[k])
    BY <1>1, UsedByScope
  <2> QED
    BY <2>2, <2>3, <2>4
<1> QED
  BY <1>1, <1>2, JumpKeeps

LEMMA AssignKeeps ==
  ASSUME ScopeInv, NEW v \in Var, NEW p \in Pointee, Assign(v, p)
  PROVE  ScopeInv'
<1>1. Typed /\ var' = [var EXCEPT ![v] = p]
      /\ UNCHANGED <<rc_count, freed, owned, scopes, jumped>>
      /\ \A k \in DOMAIN scopes : v \notin ToSet(scopes[k])
  BY DEF ScopeInv, Assign
<1>2. Typed'
  BY <1>1 DEF Typed
<1>3. ASSUME NEW o \in Pointee PROVE InUse(scopes, o)' = InUse(scopes, o)
  <2>1. ASSUME NEW k \in 1 .. Len(scopes), NEW i \in 1 .. Len(scopes[k])
        PROVE  var'[scopes[k][i]] = var[scopes[k][i]]
    <3>1. scopes[k] \in Seq(Var) /\ k \in DOMAIN scopes
      BY <1>1, ElementOfSeq DEF Typed
    <3>2. i \in DOMAIN scopes[k] /\ scopes[k][i] \in Var
      BY <3>1, ElementOfSeq
    <3>3. scopes[k][i] # v
      BY <1>1, <3>1, <3>2 DEF ToSet
    <3> QED
      BY <1>1, <3>2, <3>3 DEF Typed
  <2> QED
    BY <1>1, <2>1 DEF InUse
<1>4. ASSUME NEW o \in Pointee PROVE Counted(o)'
  BY <1>1, <1>3 DEF ScopeInv, Counted, References, Skipped
<1> QED
  BY <1>2, <1>4 DEF ScopeInv

LEMMA ScopeInvStep == ScopeInv /\ [ScopingNext]_scoping => ScopeInv'
<1> SUFFICES ASSUME ScopeInv, [ScopingNext]_scoping PROVE ScopeInv'
  OBVIOUS
<1>1. ASSUME NEW args \in ArgLists, Enter(args) PROVE ScopeInv'
  BY <1>1, EnterKeeps
<1>2. ASSUME NEW o \in Pointee, Disown(o) PROVE ScopeInv'
  BY <1>2, DisownKeeps
<1>3. ASSUME NEW v \in Var, NEW o \in Pointee, Assign(v, o) PROVE ScopeInv'
  BY <1>3, AssignKeeps
<1>4. CASE UNCHANGED scoping
  BY <1>4 DEF scoping, ScopeInv, Typed, Counted, References, InUse, Skipped
<1> QED
  BY <1>1, <1>2, <1>3, <1>4, StepKeeps, BreakKeeps, ReturnKeeps DEF ScopingNext

-----------------------------------------------------------------------------
LEMMA ScopeInvLive == ScopeInv => ArgumentsLive
<1> SUFFICES ASSUME ScopeInv, NEW k \in DOMAIN scopes, NEW v \in ToSet(scopes[k])
             PROVE  var[v] \notin freed
  BY DEF ArgumentsLive
<1>1. scopes \in Seq(Seq(Var)) /\ scopes[k] \in Seq(Var) /\ var \in [Var -> Pointee]
  BY ElementOfSeq DEF ScopeInv, Typed
<1>2. v \in Var /\ var[v] \in Pointee /\ var[v] \in Objects(scopes[k])
  BY <1>1, ElementOfSeq DEF ToSet, Objects
<1>3. InUse(scopes, var[v]) # {}
  BY <1>1, <1>2, UsedByScope
<1>4. IsFiniteSet(InUse(scopes, var[v])) /\ rc_count[var[v]] \in Nat
      /\ Cardinality(InUse(scopes, var[v])) \in Nat
      /\ Cardinality(InUse(scopes, var[v])) <= rc_count[var[v]]
  BY <1>2, ReferencesType
<1>5. rc_count[var[v]] # 0
  BY <1>3, <1>4, InUseFinite
<1> QED
  BY <1>2, <1>5 DEF ScopeInv, Counted

LEMMA ScopeInvLeaks == ScopeInv => LeaksByJumpsOnly
<1> SUFFICES ASSUME ScopeInv, scopes = << >>
             PROVE  freed = Pointee \ (owned \cup Skipped)
  BY DEF LeaksByJumpsOnly, Skipped
<1>1. ASSUME NEW o \in Pointee
      PROVE  o \in freed <=> o \notin owned \cup Skipped
  <2>1. InUse(scopes, o) = {}
    BY DEF InUse
  <2>2. Cardinality(InUse(scopes, o)) = 0
    BY <2>1, FS_EmptySet
  <2> QED
    BY <2>2, ReferencesType DEF ScopeInv, Counted, References
<1> QED
  BY <1>1 DEF ScopeInv, Typed

(* crc.h, scoping: while a scope runs none of its arguments is freed, whoever
   else gives up the objects and whatever scopes have come and gone. *)
THEOREM ScopesKeepArguments == ScopingSpec => []ArgumentsLive
<1>1. ScopingSpec => []ScopeInv
  BY ScopeInvInit, ScopeInvStep, PTL DEF ScopingSpec
<1> QED
  BY <1>1, ScopeInvLive, PTL

(* crc.h, scoping: outside every scope an object that nobody owns is still
   there exactly if a break or a return has jumped over one of its dels. *)
THEOREM OnlyJumpsLeak == ScopingSpec => []LeaksByJumpsOnly
<1>1. ScopingSpec => []ScopeInv
  BY ScopeInvInit, ScopeInvStep, PTL DEF ScopingSpec
<1> QED
  BY <1>1, ScopeInvLeaks, PTL

-----------------------------------------------------------------------------
(* The results the callers may hold are in different buffers: the last one
   in the buffer before the next one, and so on round the ring. *)
Slot(k) == IF k < index THEN index - 1 - k ELSE index - 1 - k + Used

RingInv ==
  /\ buffers = [k \in 0 .. Buffers - 1 |-> buffers[k]]
  /\ index \in Age
  /\ given = [k \in Age |-> Slot(k)]

LEMMA RingInvInit == RingInit => RingInv
BY BuffersAssumption DEF RingInit, RingInv, Age, Slot

(* The buffer that is given out next holds the oldest result and no other. *)
LEMMA OldestIsNext ==
  ASSUME RingInv
  PROVE  /\ \A k \in Age : given[k] \in 0 .. Buffers - 1
         /\ \A k \in Age : given[k] = index <=> k = Used - 1
BY BuffersAssumption DEF RingInv, Age, Slot

(* What one call of formatv does to the ring and to what the callers read. *)
LEMMA FormatvKeeps ==
  ASSUME RingInv, NEW text \in Text, Formatv(text)
  PROVE  RingInv' /\ R!Format(text)
<1>1. index \in 0 .. Used - 1 /\ Used \in 1 .. Buffers /\ Buffers \in Nat
  BY BuffersAssumption DEF RingInv, Age
<1>2. buffers' = [k \in 0 .. Buffers - 1 |->
                    IF k = index THEN Truncated(text) ELSE buffers[k]]
  BY <1>1 DEF Formatv, Write, RingInv
<1>3. index' \in Age /\ (index' = index + 1 \/ (index' = 0 /\ index = Used - 1))
  BY <1>1 DEF Formatv, Age
<1>4. given' = [k \in Age |-> IF k = 0 THEN index ELSE Slot(k - 1)]
  <2>1. \A k \in Age : k # 0 => given[k - 1] = Slot(k - 1)
    BY <1>1 DEF RingInv, Age
  <2> QED BY <2>1 DEF Formatv
<1>5. RingInv'
  <2>1. buffers' = [k \in 0 .. Buffers - 1 |-> buffers'[k]]
    BY <1>2
  <2>2. \A k \in Age : (IF k = 0 THEN index ELSE Slot(k - 1)) = Slot(k)'
    <3>1. CASE index' = index + 1
      BY <1>1, <3>1 DEF Age, Slot
    <3>2. CASE index' = 0 /\ index = Used - 1
      BY <1>1, <3>2 DEF Age, Slot
    <3> QED BY <1>3, <3>1, <3>2
  <2>3. given' = [k \in Age |-> Slot(k)']
    BY <1>4, <2>2
  <2> QED BY <2>1, <1>3, <2>3 DEF RingInv
<1>6. R!Format(text)
  <2>1. \A k \in Age :
          buffers'[given'[k]] = IF k = 0 THEN R!Cut(text) ELSE buffers[given[k - 1]]
    <3> TAKE k \in Age
    <3>1. CASE k = 0
      <4>1. given'[k] = index /\ index \in 0 .. Buffers - 1
        BY <1>1, <3>1 DEF Formatv
      <4> QED BY <1>2, <3>1, <4>1 DEF Truncated, Dots, R!Cut, R!Dots
    <3>2. CASE k # 0
      <4>1. k - 1 \in Age /\ k - 1 # Used - 1
        BY <1>1, <3>2 DEF Age
      <4>2. given'[k] = given[k - 1]
        BY <3>2 DEF Formatv
      <4>3. given[k - 1] \in 0 .. Buffers - 1 /\ given[k - 1] # index
        BY <4>1, OldestIsNext
      <4> QED BY <1>2, <3>2, <4>2, <4>3
    <3> QED BY <3>1, <3>2
  <2>2. \A k \in Age : k # 0 => k - 1 \in Age
    BY <1>1 DEF Age
  <2> QED BY <2>1, <2>2 DEF R!Format, R!Age, Age
<1> QED BY <1>5, <1>6

LEMMA FormatvNullKeeps ==
  ASSUME RingInv, FormatvNull
  PROVE  RingInv' /\ R!FormatNull
<1>1. buffers' = [k \in 0 .. Buffers - 1 |->
                    IF k = index THEN << >> ELSE buffers[k]]
  BY DEF FormatvNull, RingInv
<1>2. RingInv'
  <2>1. buffers' = [k \in 0 .. Buffers - 1 |-> buffers'[k]]
    BY <1>1
  <2> QED BY <2>1 DEF FormatvNull, RingInv, Slot
<1>3. \A k \in Age : buffers'[given'[k]] = IF k = Used - 1 THEN << >> ELSE buffers[given[k]]
  BY <1>1, OldestIsNext DEF FormatvNull
<1>4. R!FormatNull
  BY <1>3 DEF R!FormatNull, R!Age, Age
<1> QED BY <1>2, <1>4

(* KeepsRecent: the last Used results can be read where they were given out,
   for every number of buffers, every size and every history of calls. *)
THEOREM RingKeepsRecent == RingSpec => KeepsRecent
<1>1. RingInit => R!Init
  <2> SUFFICES ASSUME RingInit PROVE R!Init
    OBVIOUS
  <2>1. \A k \in Age : given[k] \in 0 .. Buffers - 1
    BY RingInvInit, OldestIsNext
  <2> QED BY <2>1 DEF RingInit, R!Init, R!Age, Age
<1>2. RingInv /\ [RingNext]_ring => RingInv' /\ [R!Next]_([k \in Age |-> buffers[given[k]]])
  <2> SUFFICES ASSUME RingInv, [RingNext]_ring
               PROVE  RingInv' /\ [R!Next]_([k \in Age |-> buffers[given[k]]])
    OBVIOUS
  <2>1. CASE FormatvNull
    BY <2>1, FormatvNullKeeps DEF R!Next
  <2>2. CASE \E text \in Text : Formatv(text)
    BY <2>2, FormatvKeeps DEF R!Next
  <2>3. CASE UNCHANGED ring
    BY <2>3 DEF ring, RingInv, Slot
  <2> QED BY <2>1, <2>2, <2>3 DEF RingNext
<1> QED BY <1>1, <1>2, RingInvInit, PTL DEF RingSpec, KeepsRecent, R!Spec

-----------------------------------------------------------------------------
(***************************************************************************)
(* The names of the generator.  Each local has a string of its own on the  *)
(* heap; the name a function was called with is a literal or a local of a  *)
(* caller, which is cleaned up later.                                      *)
(***************************************************************************)
(* Characters: those of the program's names, and those the formats write. *)
Digit == {"0", "1", "2", "3", "4", "5", "6", "7", "8", "9"}
Char == STRING \cup Digit \cup {".", "%", "="}
Chars == Seq(Char)
HeapPointer == [to : {"heap"}, at : Nat]
Literal == [to : {"literal"}, at : Chars]
LocalType == [p : HeapPointer, meant : Chars]
FrameType == [var : HeapPointer \cup Literal, meant : Chars, locals : Seq(LocalType)]
StringType == [text : Chars, live : BOOLEAN]

NamesTyped ==
  /\ buffers \in [0 .. Buffers - 1 -> Chars] /\ index \in 0 .. Used - 1
  /\ next_reg \in Nat
  /\ heap \in Seq(StringType)
  /\ stack \in Seq(FrameType)
  /\ sb \in [line : Chars, meant : Chars]

(* What is read through p is name. *)
Names(p, name) ==
  \/ p \in Literal /\ p.at = name
  \/ /\ p \in HeapPointer /\ p.at \in 1 .. Len(heap)
     /\ heap[p.at].live /\ heap[p.at].text = name

NamesThere ==
  \A d \in 1 .. Len(stack) :
    /\ Names(stack[d].var, stack[d].meant)
    /\ \A l \in ToSet(stack[d].locals) : Names(l.p, l.meant)

(* The strings of a frame's locals. *)
Strings(f) == {l.p.at : l \in ToSet(f.locals)}

StringsApart ==
  \A d, e \in 1 .. Len(stack) : d # e => Strings(stack[d]) \cap Strings(stack[e]) = {}

VarsFromBelow ==
  \A d \in 1 .. Len(stack) : stack[d].var \in HeapPointer =>
    \E e \in 1 .. d - 1 : stack[d].var.at \in Strings(stack[e])

StringsLive ==
  \A k \in 1 .. Len(heap) :
    heap[k].live <=> \E d \in 1 .. Len(stack) : k \in Strings(stack[d])

NInv ==
  /\ NamesTyped
  /\ NamesThere
  /\ StringsApart
  /\ VarsFromBelow
  /\ StringsLive
  /\ LinesAsMeant /\ CutLinesShow

-----------------------------------------------------------------------------
LEMMA Pointers ==
  /\ HeapPointer \cap Literal = {}
  /\ \A k \in Nat : [to |-> "heap", at |-> k] \in HeapPointer
  /\ \A c \in Chars : [to |-> "literal", at |-> c] \in Literal
BY DEF HeapPointer, Literal

(* What is read is what was meant. *)
LEMMA ReadsName ==
  ASSUME NEW p, NEW name, Names(p, name)
  PROVE  Contents(p) = name
<1>1. CASE p \in Literal /\ p.at = name
  <2>1. p.to = "literal"
    BY <1>1 DEF Literal
  <2> QED
    BY <1>1, <2>1 DEF Contents
<1>2. CASE p \in HeapPointer /\ heap[p.at].live /\ heap[p.at].text = name
  <2>1. p.to = "heap"
    BY <1>2 DEF HeapPointer
  <2> QED
    BY <1>2, <2>1 DEF Contents
<1> QED
  BY <1>1, <1>2 DEF Names

(* The name of the frame that runs, and those of its locals. *)
LEMMA TopNames ==
  ASSUME NInv, Running
  PROVE  /\ Len(stack) \in Nat \ {0} /\ Top = stack[Len(stack)]
         /\ Top \in FrameType
         /\ Contents(Top.var) = Top.meant /\ Top.meant \in Chars
         /\ Names(Top.var, Top.meant)
         /\ \A l \in Locals : /\ l \in LocalType /\ Names(l.p, l.meant)
                              /\ Contents(l.p) = l.meant /\ l.meant \in Chars
<1>1. stack \in Seq(FrameType) /\ stack # << >>
  BY DEF NInv, NamesTyped, Running
<1>2. /\ Len(stack) \in Nat \ {0} /\ Len(stack) \in 1 .. Len(stack)
      /\ Top = stack[Len(stack)] /\ Top \in FrameType
  BY <1>1, FrontType DEF Top
<1>3. Names(Top.var, Top.meant) /\ \A l \in Locals : Names(l.p, l.meant)
  BY <1>2 DEF NInv, NamesThere, Locals
<1>4. \A l \in Locals : l \in LocalType
  <2>1. Top.locals \in Seq(LocalType)
    BY <1>2 DEF FrameType
  <2> QED
    BY <2>1, ElementOfSeq DEF Locals, ToSet
<1> QED
  BY <1>2, <1>3, <1>4, ReadsName DEF FrameType, LocalType

-----------------------------------------------------------------------------
(***************************************************************************)
(* Lines.                                                                  *)
(***************************************************************************)
LEMMA DotsAreThree == Dots \in Seq(Char) /\ Len(Dots) = 3
<1>1. "." \in Char
  BY DEF Char
<1>2. <<".", ".", ".">> \in Seq(Char) /\ Len(<<".", ".", ".">>) = 3
  BY <1>1
<1> QED
  BY <1>2 DEF Dots

LEMMA CharsJoin ==
  /\ <<"%">> \in Chars /\ <<"=">> \in Chars
  /\ \A s, t \in Chars : s \o t \in Chars
<1>1. "%" \in Char /\ "=" \in Char
  BY DEF Char
<1>2. <<"%">> \in Seq(Char) /\ <<"=">> \in Seq(Char)
  BY <1>1
<1>3. ASSUME NEW s \in Seq(Char), NEW t \in Seq(Char) PROVE s \o t \in Seq(Char)
  BY ConcatType
<1> QED
  BY <1>2, <1>3 DEF Chars

LEMMA TruncatedLine ==
  ASSUME NEW text \in Chars
  PROVE  /\ Truncated(text) \in Chars
         /\ Len(text) < Size => Truncated(text) = text
         /\ Len(text) >= Size =>
              /\ Len(Truncated(text)) = Size - 1
              /\ SubSeq(Truncated(text), Size - 3, Size - 1) = Dots
<1>1. Len(text) \in Nat /\ Size \in Nat /\ Size >= 4
  BY SizeAssumption DEF Chars
<1>2. CASE Len(text) < Size
  BY <1>1, <1>2 DEF Truncated
<1>3. CASE Len(text) >= Size
  <2> DEFINE s == SubSeq(text, 1, Size - 4)
             u == s \o Dots
  <2>1. s \in Chars /\ Len(s) = Size - 4
    BY <1>1, <1>3, SubSeqProperties DEF Chars
  <2>2. Dots \in Seq(Char) /\ Len(Dots) = 3
    BY DotsAreThree
  <2>3. Truncated(text) = u
    BY <1>1, <1>3 DEF Truncated
  <2> HIDE DEF s, u
  <2>4. /\ u \in Chars /\ Len(u) = Size - 1
        /\ \A k \in 1 .. 3 : u[Size - 4 + k] = Dots[k]
    <3>0. s \in Seq(Char)
      BY <2>1 DEF Chars
    <3>1. /\ s \o Dots \in Seq(Char) /\ Len(s \o Dots) = Len(s) + Len(Dots)
          /\ \A k \in 1 .. Len(Dots) : (s \o Dots)[Len(s) + k] = Dots[k]
      BY <3>0, <2>2, ConcatType, SMTT(30)
    <3> QED
      BY <1>1, <2>1, <2>2, <3>1 DEF u, Chars
  <2>5. SubSeq(u, Size - 3, Size - 1) = Dots
    <3> DEFINE v == SubSeq(u, Size - 3, Size - 1)
    <3>1. /\ v \in Seq(Char) /\ Len(v) = 3
          /\ \A k \in 1 .. 3 : v[k] = u[Size - 3 + k - 1]
      BY <1>1, <2>4, SubSeqProperties DEF Chars
    <3> HIDE DEF v
    <3>2. \A k \in 1 .. 3 : v[k] = Dots[k]
      BY <1>1, <2>4, <3>1
    <3>3. v = Dots
      BY <2>2, <3>1, <3>2, SeqEqual DEF Chars
    <3> QED
      BY <3>3 DEF v
  <2> QED
    BY <1>1, <1>3, <2>3, <2>4, <2>5
<1> QED
  BY <1>1, <1>2, <1>3

LEMMA FormatvWrites ==
  ASSUME NamesTyped, NEW text \in Chars, Formatv(text)
  PROVE  /\ buffers' \in [0 .. Buffers - 1 -> Chars] /\ index' \in 0 .. Used - 1
         /\ buffers'[index] = Truncated(text)
<1>1. /\ index \in 0 .. Used - 1 /\ Used \in 1 .. Buffers /\ Buffers \in Nat
      /\ buffers \in [0 .. Buffers - 1 -> Chars]
  BY BuffersAssumption DEF NamesTyped
<1>2. Truncated(text) \in Chars
  BY TruncatedLine
<1>3. buffers' = [buffers EXCEPT ![index] = Truncated(text)]
  BY DEF Formatv, Write
<1>4. index' \in 0 .. Used - 1
  BY <1>1 DEF Formatv
<1> QED
  BY <1>1, <1>2, <1>3, <1>4

(* A line whose names are read as they are meant. *)
LEMMA BuilderAddStep ==
  ASSUME NInv, NEW text \in Chars, BuilderAdd(text, text)
  PROVE  NInv'
<1>1. /\ buffers' \in [0 .. Buffers - 1 -> Chars] /\ index' \in 0 .. Used - 1
      /\ sb' = [line |-> Truncated(text), meant |-> text]
  BY FormatvWrites DEF BuilderAdd, NInv
<1>2. UNCHANGED <<next_reg, heap, stack>>
  BY DEF BuilderAdd
<1>3. NamesTyped'
  BY <1>1, <1>2, TruncatedLine DEF NInv, NamesTyped
<1>4. LinesAsMeant' /\ CutLinesShow'
  BY <1>1, TruncatedLine DEF LinesAsMeant, CutLinesShow
<1> QED
  BY <1>2, <1>3, <1>4
     DEF NInv, NamesThere, Names, StringsApart, VarsFromBelow, StringsLive

LEMMA AddSteps ==
  NInv /\ (AddTest \/ AddUnary \/ AddBinary \/ AddLoad) => NInv'
<1> SUFFICES ASSUME NInv, AddTest \/ AddUnary \/ AddBinary \/ AddLoad PROVE NInv'
  OBVIOUS
<1>1. Running
  BY DEF AddTest, AddUnary, AddBinary, AddLoad
<1>2. Contents(Top.var) = Top.meant /\ Top.meant \in Chars
  BY <1>1, TopNames
<1>3. \A l \in Locals : Contents(l.p) = l.meant /\ l.meant \in Chars
  BY <1>1, TopNames
<1>4. <<"%">> \in Chars /\ <<"=">> \in Chars /\ \A s, t \in Chars : s \o t \in Chars
  BY CharsJoin
<1>5. \E text \in Chars : BuilderAdd(text, text)
  <2>1. CASE AddTest
    <3>1. PICK l \in Locals : BuilderAdd(<<"%">> \o Contents(l.p), <<"%">> \o l.meant)
      BY <2>1 DEF AddTest
    <3> DEFINE text == <<"%">> \o l.meant
    <3>2. BuilderAdd(text, text) /\ text \in Chars
      BY <1>3, <1>4, <3>1
    <3> QED
      BY <3>2
  <2>2. CASE AddUnary
    <3>1. PICK l \in Locals :
            BuilderAdd(<<"%">> \o Contents(Top.var) \o <<"%">> \o Contents(l.p),
                       <<"%">> \o Top.meant \o <<"%">> \o l.meant)
      BY <2>2 DEF AddUnary
    <3> DEFINE text == <<"%">> \o Top.meant \o <<"%">> \o l.meant
    <3>2. BuilderAdd(text, text) /\ text \in Chars
      BY <1>2, <1>3, <1>4, <3>1
    <3> QED
      BY <3>2
  <2>3. CASE AddBinary
    <3>1. PICK l \in Locals, r \in Locals :
            BuilderAdd(<<"%">> \o Contents(Top.var) \o <<"%">> \o Contents(l.p)
                         \o <<"%">> \o Contents(r.p),
                       <<"%">> \o Top.meant \o <<"%">> \o l.meant \o <<"%">> \o r.meant)
      BY <2>3 DEF AddBinary
    <3> DEFINE text == <<"%">> \o Top.meant \o <<"%">> \o l.meant \o <<"%">> \o r.meant
    <3>2. BuilderAdd(text, text) /\ text \in Chars
      BY <1>2, <1>3, <1>4, <3>1
    <3> QED
      BY <3>2
  <2>4. CASE AddLoad
    <3>1. PICK id \in Ident :
            BuilderAdd(<<"%">> \o Contents(Top.var) \o <<"=">> \o id,
                       <<"%">> \o Top.meant \o <<"=">> \o id)
      BY <2>4 DEF AddLoad
    <3>2. id \in Chars
      <4>1. id \in Seq(STRING)
        BY NamesAssumption
      <4>2. id \in Seq(Char)
        BY <4>1, SeqMonotonic DEF Char
      <4> QED
        BY <4>2 DEF Chars
    <3> DEFINE text == <<"%">> \o Top.meant \o <<"=">> \o id
    <3>3. BuilderAdd(text, text) /\ text \in Chars
      BY <1>2, <1>4, <3>1, <3>2
    <3> QED
      BY <3>3
  <2> QED
    BY <2>1, <2>2, <2>3, <2>4
<1> QED
  BY <1>5, BuilderAddStep

-----------------------------------------------------------------------------
(***************************************************************************)
(* Drawing a name, calling, leaving.                                       *)
(***************************************************************************)
LEMMA ToSetAppend ==
  ASSUME NEW S, NEW s \in Seq(S), NEW x \in S
  PROVE  /\ Append(s, x) \in Seq(S)
         /\ ToSet(Append(s, x)) = ToSet(s) \cup {x}
<1> DEFINE t == Append(s, x)
<1>1. /\ t \in Seq(S) /\ Len(t) = Len(s) + 1 /\ Len(s) \in Nat
      /\ \A k \in 1 .. Len(s) : t[k] = s[k]
      /\ t[Len(s) + 1] = x
  BY AppendProperties, LenProperties
<1> HIDE DEF t
<1>2. DOMAIN t = 1 .. Len(s) + 1 /\ DOMAIN s = 1 .. Len(s)
  BY <1>1
<1>3. ToSet(t) = ToSet(s) \cup {x}
  <2>1. ASSUME NEW y \in ToSet(t) PROVE y \in ToSet(s) \cup {x}
    <3>1. PICK k \in 1 .. Len(s) + 1 : t[k] = y
      BY <1>2 DEF ToSet
    <3>2. k \in 1 .. Len(s) \/ k = Len(s) + 1
      BY <1>1
    <3> QED
      BY <1>1, <1>2, <3>1, <3>2 DEF ToSet
  <2>2. ASSUME NEW y \in ToSet(s) PROVE y \in ToSet(t)
    <3>1. PICK k \in 1 .. Len(s) : s[k] = y
      BY <1>2 DEF ToSet
    <3>2. k \in 1 .. Len(s) + 1 /\ t[k] = y
      BY <1>1, <3>1
    <3> QED
      BY <1>2, <3>2 DEF ToSet
  <2>3. x \in ToSet(t)
    <3>1. Len(s) + 1 \in 1 .. Len(s) + 1
      BY <1>1
    <3> QED
      BY <1>1, <1>2, <3>1 DEF ToSet
  <2> QED
    BY <2>1, <2>2, <2>3
<1> QED
  BY <1>1, <1>3 DEF t

-----------------------------------------------------------------------------
(***************************************************************************)
(* "%zu" writes digits, whatever the number.                               *)
(***************************************************************************)
LEMMA Tens ==
  \A n \in Nat : n % 10 \in 0 .. 9 /\ (~(n < 10) => n \div 10 \in 0 .. n - 1)
OBVIOUS

ZuStep(f, n) ==
  IF n < 10 THEN <<Decimal[n + 1]>> ELSE Append(f[n \div 10], Decimal[(n % 10) + 1])

(* f writes the numbers up to m. *)
Writes(f, m) == \A n \in 0 .. m : f[n] = ZuStep(f, n)

LEMMA WritesNext ==
  ASSUME NEW m \in Nat, NEW f, Writes(f, m)
  PROVE  \E g : Writes(g, m + 1)
<1> DEFINE x == ZuStep(f, m + 1)
           g == [n \in 0 .. m + 1 |-> IF n = m + 1 THEN x ELSE f[n]]
<1>1. \A n \in 0 .. m : g[n] = f[n]
  OBVIOUS
<1>2. g[m + 1] = x
  OBVIOUS
<1> HIDE DEF g, x
<1>3. ASSUME NEW n \in 0 .. m + 1
      PROVE  ZuStep(g, n) = ZuStep(f, n)
  <2>1. CASE n < 10
    BY <2>1, Zenon DEF ZuStep
  <2>2. CASE ~(n < 10)
    <3>1. n \div 10 \in 0 .. m
      <4>1. n \in Nat /\ \A k \in 0 .. n - 1 : k \in 0 .. m
        OBVIOUS
      <4> QED
        BY <2>2, <4>1, Tens, Zenon
    <3>2. g[n \div 10] = f[n \div 10]
      BY <1>1, <3>1, Zenon
    <3> QED
      BY <2>2, <3>2, Zenon DEF ZuStep
  <2> QED
    BY <2>1, <2>2
<1>4. \A n \in 0 .. m + 1 : n \in 0 .. m \/ n = m + 1
  OBVIOUS
<1>5. ASSUME NEW n \in 0 .. m + 1
      PROVE  g[n] = ZuStep(g, n)
  <2>1. CASE n \in 0 .. m
    BY <1>1, <1>3, <2>1, Zenon DEF Writes
  <2>2. CASE n = m + 1
    BY <1>2, <1>3, <2>2, Zenon DEF x
  <2> QED
    BY <1>4, <2>1, <2>2
<1>6. Writes(g, m + 1)
  BY <1>5, Zenon DEF Writes
<1> QED
  BY <1>6

LEMMA WritesAll == \A m \in Nat : \E f : Writes(f, m)
<1> DEFINE S == {m \in Nat : ~\E f : Writes(f, m)}
<1> SUFFICES ASSUME S # {} PROVE FALSE
  OBVIOUS
<1>1. PICK m \in S : \A k \in S : m <= k
  <2>1. S \in SUBSET Nat
    OBVIOUS
  <2> HIDE DEF S
  <2> QED
    BY <2>1, LeastNat
<1>2. m # 0
  <2> DEFINE f == [n \in 0 .. 0 |-> <<Decimal[n + 1]>>]
  <2>1. \A n \in 0 .. 0 : n < 10 /\ f[n] = <<Decimal[n + 1]>>
    OBVIOUS
  <2> HIDE DEF f
  <2>2. Writes(f, 0)
    BY <2>1, Zenon DEF Writes, ZuStep
  <2> QED
    BY <2>2
<1>3. m - 1 \in Nat /\ m - 1 \notin S /\ m - 1 + 1 = m
  BY <1>1, <1>2
<1>4. PICK f : Writes(f, m - 1)
  BY <1>3
<1> QED
  BY <1>3, <1>4, WritesNext

(* There is one way to write a number. *)
LEMMA WritesAlike ==
  ASSUME NEW m \in Nat, NEW k \in Nat, NEW f, NEW g, Writes(f, m), Writes(g, k)
  PROVE  \A n \in 0 .. m : n <= k => f[n] = g[n]
<1> DEFINE S == {n \in Nat : n <= m /\ n <= k /\ f[n] # g[n]}
<1> SUFFICES ASSUME S # {} PROVE FALSE
  OBVIOUS
<1>1. PICK n \in S : \A j \in S : n <= j
  <2>1. S \in SUBSET Nat
    OBVIOUS
  <2> HIDE DEF S
  <2> QED
    BY <2>1, LeastNat
<1>2. n \in 0 .. m /\ n \in 0 .. k /\ n \in Nat /\ f[n] # g[n]
  OBVIOUS
<1>3. f[n] = ZuStep(f, n) /\ g[n] = ZuStep(g, n)
  BY <1>2, Zenon DEF Writes
<1>4. ~(n < 10)
  BY <1>2, <1>3, Zenon DEF ZuStep
<1> DEFINE j == n \div 10
<1>5. j \in Nat /\ j < n
  BY <1>2, <1>4, Tens
<1>6. f[j] = g[j]
  <2> HIDE DEF j
  <2>1. j \notin S /\ j <= m /\ j <= k
    BY <1>1, <1>2, <1>5
  <2> QED
    BY <1>5, <2>1
<1> QED
  BY <1>2, <1>3, <1>4, <1>6, Zenon DEF ZuStep

LEMMA ZuWrites == \A n \in Nat : Zu[n] = ZuStep(Zu, n)
<1> DEFINE w(m) == CHOOSE f : Writes(f, m)
           z == [n \in Nat |-> w(n)[n]]
<1>1. ASSUME NEW m \in Nat PROVE Writes(w(m), m)
  BY WritesAll, Zenon
<1>2. ASSUME NEW n \in Nat PROVE z[n] = ZuStep(z, n)
  <2>1. n \in 0 .. n /\ z[n] = w(n)[n]
    OBVIOUS
  <2>2. z[n] = ZuStep(w(n), n)
    BY <1>1, <2>1, Zenon DEF Writes
  <2>3. CASE n < 10
    BY <2>2, <2>3, Zenon DEF ZuStep
  <2>4. CASE ~(n < 10)
    <3> DEFINE j == n \div 10
    <3>1. j \in Nat /\ j \in 0 .. j /\ j <= n
      <4>1. n \div 10 \in 0 .. n - 1
        BY <2>4, Tens
      <4> QED
        BY <4>1
    <3>2. z[j] = w(j)[j]
      BY <3>1
    <3>3. Writes(w(j), j) /\ Writes(w(n), n)
      BY <1>1, <3>1
    <3> HIDE DEF w, z
    <3>4. w(j)[j] = w(n)[j]
      <4> HIDE DEF j
      <4> QED
        BY <3>1, <3>3, WritesAlike
    <3> QED
      BY <2>2, <2>4, <3>2, <3>4, Zenon DEF ZuStep
  <2> QED
    BY <2>3, <2>4
<1>3. z = [n \in Nat |-> ZuStep(z, n)]
  BY <1>2, Zenon
<1> HIDE DEF z
<1>4. \E f : f = [n \in Nat |-> ZuStep(f, n)]
  BY <1>3
<1>5. Zu = CHOOSE f : f = [n \in Nat |-> ZuStep(f, n)]
  BY Zenon DEF Zu, ZuStep
<1>6. Zu = [n \in Nat |-> ZuStep(Zu, n)]
  BY <1>4, <1>5, Zenon
<1> QED
  BY <1>6, Zenon

LEMMA ZuStepTens ==
  ASSUME NEW f, NEW n, ~(n < 10)
  PROVE  ZuStep(f, n) = Append(f[n \div 10], Decimal[(n % 10) + 1])
BY Zenon DEF ZuStep

LEMMA ZuDigits == \A n \in Nat : Zu[n] \in Seq(Char)
<1> DEFINE S == {n \in Nat : Zu[n] \notin Seq(Char)}
<1> SUFFICES ASSUME S # {} PROVE FALSE
  OBVIOUS
<1>1. PICK n \in S : \A j \in S : n <= j
  <2>1. S \in SUBSET Nat
    OBVIOUS
  <2> HIDE DEF S
  <2> QED
    BY <2>1, LeastNat
<1>2. n \in Nat /\ Zu[n] \notin Seq(Char) /\ Zu[n] = ZuStep(Zu, n)
  BY ZuWrites
<1>3. \A k \in 0 .. 9 : Decimal[k + 1] \in Char
  <2>1. \A k \in 0 .. 9 : Decimal[k + 1] \in Digit
    BY DEF Decimal, Digit
  <2> QED
    BY <2>1 DEF Char
<1>4. ~(n < 10)
  <2> SUFFICES ASSUME n < 10 PROVE FALSE
    OBVIOUS
  <2>1. n \in 0 .. 9
    BY <1>2
  <2>2. <<Decimal[n + 1]>> \in Seq(Char)
    BY <1>3, <2>1
  <2> QED
    BY <1>2, <2>2, Zenon DEF ZuStep
<1> DEFINE j == n \div 10
           d == Decimal[(n % 10) + 1]
<1>5. j \in Nat /\ j < n /\ d \in Char
  <2>1. j \in 0 .. n - 1 /\ n % 10 \in 0 .. 9
    BY <1>2, <1>4, Tens, Zenon
  <2>2. d \in Char
    BY <1>3, <2>1, Zenon
  <2> HIDE DEF j, d
  <2> QED
    BY <1>2, <2>1, <2>2
<1>6. ZuStep(Zu, n) = Append(Zu[j], d)
  BY <1>4, ZuStepTens
<1> HIDE DEF j, d
<1>7. Zu[j] \in Seq(Char)
  <2>1. j \notin S
    BY <1>1, <1>2, <1>5
  <2> QED
    BY <1>5, <2>1
<1> DEFINE t == Zu[j]
<1>8. Append(t, d) \in Seq(Char)
  <2> HIDE DEF t
  <2>1. t \in Seq(Char)
    BY <1>7 DEF t
  <2> QED
    BY <1>5, <2>1, AppendProperties
<1> QED
  BY <1>2, <1>6, <1>8

LEMMA DrawnName ==
  ASSUME NEW n \in 0 .. MaxNames - 1
  PROVE  LET name == <<".">> \o Zu[n] IN name \in Chars /\ Truncated(name) = name
<1> DEFINE z == Zu[n]
           name == <<".">> \o z
<1>1. z \in Seq(Char)
  BY MaxNamesAssumption, ZuDigits
<1>2. Len(name) < Size
  BY NamesFit
<1> HIDE DEF z
<1>3. <<".">> \in Seq(Char)
  BY DEF Char
<1>4. name \in Chars
  BY <1>1, <1>3, ConcatType DEF Chars
<1> HIDE DEF name
<1>5. Truncated(name) = name
  BY <1>2, <1>4, TruncatedLine
<1> QED
  BY <1>4, <1>5 DEF name, z

-----------------------------------------------------------------------------
(* A string that is read for a local is one of the heap. *)
LEMMA StringsOnHeap ==
  ASSUME NInv, NEW d \in 1 .. Len(stack)
  PROVE  /\ stack[d] \in FrameType
         /\ Strings(stack[d]) \subseteq 1 .. Len(heap)
         /\ \A l \in ToSet(stack[d].locals) : l.p \in HeapPointer
<1>1. stack[d] \in FrameType
  BY ElementOfSeq DEF NInv, NamesTyped
<1>2. \A l \in ToSet(stack[d].locals) : l \in LocalType
  <2>1. stack[d].locals \in Seq(LocalType)
    BY <1>1 DEF FrameType
  <2> QED
    BY <2>1, ElementOfSeq DEF ToSet
<1>3. \A l \in ToSet(stack[d].locals) : l.p \in HeapPointer
  BY <1>2 DEF LocalType
<1>4. \A l \in ToSet(stack[d].locals) : l.p.at \in 1 .. Len(heap)
  BY <1>3, Pointers DEF NInv, NamesThere, Names
<1> QED
  BY <1>1, <1>3, <1>4 DEF Strings

(* A name that is read stays so while strings are added. *)
LEMMA NamesStay ==
  ASSUME NEW p, NEW name, Names(p, name), Len(heap) \in Nat, Len(heap') \in Nat,
         Len(heap) <= Len(heap'),
         p \in HeapPointer => heap'[p.at] = heap[p.at]
  PROVE  Names(p, name)'
BY DEF Names

LEMMA DrawNameStep == NInv /\ DrawName => NInv'
<1> SUFFICES ASSUME NInv, DrawName PROVE NInv'
  OBVIOUS
<1> DEFINE n == Len(stack)
           h == Len(heap) + 1
           name == <<".">> \o Zu[next_reg]
           new == [p |-> [to |-> "heap", at |-> h], meant |-> name]
           string == [text |-> name, live |-> TRUE]
           top == [Top EXCEPT !.locals = Append(@, new)]
<1>1. /\ n \in Nat \ {0} /\ Top = stack[n] /\ Top \in FrameType /\ stack # << >>
      /\ stack \in Seq(FrameType) /\ heap \in Seq(StringType) /\ next_reg \in Nat
  BY TopNames DEF DrawName, Running, NInv, NamesTyped
<1>2. name \in Chars /\ Truncated(name) = name
  <2>1. next_reg \in 0 .. MaxNames - 1
    BY <1>1, MaxNamesAssumption DEF DrawName
  <2> QED
    BY <2>1, DrawnName
<1>3. Formatv(name) /\ RcStr(name) /\ next_reg' = next_reg + 1 /\ sb' = sb
  BY DEF DrawName
<1> HIDE DEF name
<1>4. /\ buffers' \in [0 .. Buffers - 1 -> Chars] /\ index' \in 0 .. Used - 1
      /\ buffers'[index] = name
  BY <1>2, <1>3, FormatvWrites DEF NInv
<1>5. heap' = Append(heap, string) /\ stack' = Append(Front(stack), top)
  BY <1>3, <1>4 DEF RcStr, AddLocal
<1>6. /\ string \in StringType /\ h \in Nat /\ Len(heap) \in Nat
      /\ [to |-> "heap", at |-> h] \in HeapPointer
      /\ new \in LocalType /\ new.p = [to |-> "heap", at |-> h] /\ new.meant = name
  BY <1>1, <1>2, LenProperties, Pointers DEF StringType, LocalType
<1>7. /\ heap' \in Seq(StringType) /\ Len(heap') = h
      /\ \A k \in 1 .. Len(heap) : heap'[k] = heap[k]
      /\ heap'[h].text = name /\ heap'[h].live
  BY <1>1, <1>5, <1>6, AppendProperties
<1> HIDE DEF new, string
<1>8. /\ top \in FrameType /\ top.var = Top.var /\ top.meant = Top.meant
      /\ ToSet(top.locals) = ToSet(Top.locals) \cup {new}
  <2>1. Top.locals \in Seq(LocalType)
    BY <1>1 DEF FrameType
  <2>2. /\ Append(Top.locals, new) \in Seq(LocalType)
        /\ ToSet(Append(Top.locals, new)) = ToSet(Top.locals) \cup {new}
    BY <1>6, <2>1, ToSetAppend
  <2> QED
    BY <1>1, <2>2 DEF FrameType
<1> HIDE DEF top
<1>9. /\ stack' \in Seq(FrameType) /\ Len(stack') = n /\ stack'[n] = top
      /\ \A d \in 1 .. n - 1 : stack'[d] = stack[d]
  <2>1. Front(stack) \in Seq(FrameType) /\ Len(Front(stack)) = n - 1
        /\ \A d \in 1 .. n - 1 : Front(stack)[d] = stack[d]
    BY <1>1, FrontType
  <2>2. n - 1 \in Nat /\ (n - 1) + 1 = n
    BY <1>1
  <2> HIDE DEF n
  <2> DEFINE front == Front(stack)
  <2> HIDE DEF front
  <2>3. /\ Append(front, top) \in Seq(FrameType)
        /\ Len(Append(front, top)) = Len(front) + 1
        /\ \A d \in 1 .. Len(front) : Append(front, top)[d] = front[d]
        /\ Append(front, top)[Len(front) + 1] = top
    BY <1>8, <2>1, AppendProperties DEF front
  <2> QED
    BY <1>5, <2>1, <2>2, <2>3 DEF front
<1> HIDE DEF n, h
<1>10. \A d \in 1 .. n : /\ stack'[d].var = stack[d].var /\ stack'[d].meant = stack[d].meant
                          /\ ToSet(stack'[d].locals) =
                               ToSet(stack[d].locals) \cup (IF d = n THEN {new} ELSE {})
  <2> TAKE d \in 1 .. n
  <2>1. CASE d = n
    BY <1>1, <1>8, <1>9, <2>1
  <2>2. CASE d # n
    <3>1. d \in 1 .. n - 1
      BY <1>1, <2>2
    <3> QED
      BY <1>9, <2>2, <3>1
  <2> QED
    BY <2>1, <2>2
<1>11. \A d \in 1 .. n : Strings(stack[d])' = Strings(stack[d]) \cup (IF d = n THEN {h} ELSE {})
  <2>1. new.p.at = h
    BY <1>6
  <2> QED
    BY <1>10, <2>1 DEF Strings
<1>12. \A d \in 1 .. n : /\ Strings(stack[d]) \subseteq 1 .. Len(heap)
                          /\ h \notin Strings(stack[d])
                          /\ \A l \in ToSet(stack[d].locals) : l.p \in HeapPointer
  BY <1>6, StringsOnHeap DEF n, h
<1>13. NamesTyped'
  BY <1>1, <1>3, <1>4, <1>7, <1>9 DEF NInv, NamesTyped
<1>14. ASSUME NEW p, NEW m, Names(p, m) PROVE Names(p, m)'
  <2>1. p \in HeapPointer => p.at \in 1 .. Len(heap)
    BY <1>14, Pointers DEF Names
  <2> QED
    BY <1>6, <1>7, <1>14, <2>1, NamesStay DEF h
<1>15. ASSUME NEW l, l = new PROVE Names(l.p, l.meant)'
  <2>1. h \in 1 .. h /\ l.p \in HeapPointer /\ l.p.at = h /\ l.meant = name
    BY <1>6, <1>15 DEF h
  <2> QED
    BY <1>7, <2>1 DEF Names
<1>16. NamesThere'
  <2> SUFFICES ASSUME NEW d \in 1 .. n
               PROVE  /\ Names(stack[d].var, stack[d].meant)'
                      /\ \A l \in ToSet(stack'[d].locals) : Names(l.p, l.meant)'
    BY <1>9 DEF NamesThere
  <2>1. /\ Names(stack[d].var, stack[d].meant)
        /\ \A l \in ToSet(stack[d].locals) : Names(l.p, l.meant)
    BY DEF NInv, NamesThere, n
  <2>2. Names(stack[d].var, stack[d].meant)'
    <3>1. ASSUME NEW p, NEW m, Names(p, m), p = stack'[d].var, m = stack'[d].meant
          PROVE  Names(stack[d].var, stack[d].meant)'
      BY <1>14, <3>1
    <3> QED
      BY <1>10, <2>1, <3>1
  <2>3. \A l \in ToSet(stack'[d].locals) : Names(l.p, l.meant)'
    <3>1. ASSUME NEW l \in ToSet(stack'[d].locals) PROVE Names(l.p, l.meant)'
      <4>1. l \in ToSet(stack[d].locals) \/ l = new
        BY <1>10
      <4>2. CASE l \in ToSet(stack[d].locals)
        BY <1>14, <2>1, <4>2
      <4>3. CASE l = new
        BY <1>15, <4>3
      <4> QED
        BY <4>1, <4>2, <4>3
    <3> QED
      BY <3>1
  <2> QED
    BY <2>2, <2>3
<1>17. StringsApart'
  <2> SUFFICES ASSUME NEW d \in 1 .. n, NEW e \in 1 .. n, d # e
               PROVE  Strings(stack[d])' \cap Strings(stack[e])' = {}
    BY <1>9 DEF StringsApart
  <2>1. Strings(stack[d]) \cap Strings(stack[e]) = {}
    BY DEF NInv, StringsApart, n
  <2> QED
    BY <1>11, <1>12, <2>1
<1>18. VarsFromBelow'
  <2> SUFFICES ASSUME NEW d \in 1 .. n, stack'[d].var \in HeapPointer
               PROVE  \E e \in 1 .. d - 1 : stack'[d].var.at \in Strings(stack[e])'
    BY <1>9 DEF VarsFromBelow
  <2>1. PICK e \in 1 .. d - 1 : stack[d].var.at \in Strings(stack[e])
    BY <1>10 DEF NInv, VarsFromBelow, n
  <2>2. e \in 1 .. n
    BY <1>1
  <2> QED
    BY <1>10, <1>11, <2>1, <2>2
<1>19. StringsLive'
  <2> SUFFICES ASSUME NEW k \in 1 .. h
               PROVE  heap'[k].live <=> \E d \in 1 .. n : k \in Strings(stack[d])'
    BY <1>7, <1>9 DEF StringsLive
  <2>1. CASE k = h
    <3>1. n \in 1 .. n
      BY <1>1
    <3>2. \E d \in 1 .. n : k \in Strings(stack[d])'
      BY <1>11, <2>1, <3>1
    <3>3. heap'[k].live
      BY <1>7, <2>1
    <3> QED
      BY <3>2, <3>3
  <2>2. CASE k # h
    <3>1. k \in 1 .. Len(heap)
      BY <1>6, <2>2 DEF h
    <3>2. heap[k].live <=> \E d \in 1 .. n : k \in Strings(stack[d])
      BY <3>1 DEF NInv, StringsLive, n
    <3> QED
      BY <1>7, <1>11, <2>2, <3>1, <3>2
  <2> QED
    BY <2>1, <2>2
<1>20. LinesAsMeant' /\ CutLinesShow'
  BY <1>3 DEF NInv, LinesAsMeant, CutLinesShow
<1> QED
  BY <1>13, <1>16, <1>17, <1>18, <1>19, <1>20 DEF NInv

LEMMA CallStep == NInv /\ Call => NInv'
<1> SUFFICES ASSUME NInv, Call PROVE NInv'
  OBVIOUS
<1> DEFINE n == Len(stack)
<1>1. PICK l \in Locals \cup {[p |-> [to |-> "literal", at |-> name], meant |-> name] : name \in Fixed} :
        stack' = Append(stack, [var |-> l.p, meant |-> l.meant, locals |-> << >>])
  BY DEF Call
<1> DEFINE new == [var |-> l.p, meant |-> l.meant, locals |-> << >>]
<1>2. UNCHANGED <<buffers, index, next_reg, heap, sb>>
  BY DEF Call, ring
<1>3. /\ n \in Nat \ {0} /\ Top = stack[n] /\ stack \in Seq(FrameType)
  BY TopNames DEF Call, Running, NInv, NamesTyped
<1>4. /\ l.p \in HeapPointer \cup Literal /\ l.meant \in Chars /\ Names(l.p, l.meant)
      /\ l.p \in HeapPointer => l.p.at \in Strings(stack[n])
  <2>1. CASE l \in Locals
    <3>1. l \in LocalType /\ Names(l.p, l.meant) /\ l.p.at \in Strings(stack[n])
      BY <1>3, <2>1, TopNames DEF Call, Strings, Locals
    <3> QED
      BY <3>1 DEF LocalType
  <2>2. CASE l \in {[p |-> [to |-> "literal", at |-> name], meant |-> name] : name \in Fixed}
    <3>1. PICK name \in Fixed : l = [p |-> [to |-> "literal", at |-> name], meant |-> name]
      BY <2>2
    <3>2. name \in Chars
      <4>1. name \in Seq(STRING)
        BY NamesAssumption
      <4>2. name \in Seq(Char)
        BY <4>1, SeqMonotonic DEF Char
      <4> QED
        BY <4>2 DEF Chars
    <3>3. l.p = [to |-> "literal", at |-> name] /\ l.meant = name
      BY <3>1
    <3>4. l.p \in Literal /\ l.p \notin HeapPointer /\ l.p.at = name
      BY <3>2, <3>3, Pointers
    <3> QED
      BY <3>2, <3>3, <3>4 DEF Names
  <2> QED
    BY <1>1, <2>1, <2>2
<1>5. new \in FrameType /\ Strings(new) = {} /\ ToSet(new.locals) = {}
      /\ new.var = l.p /\ new.meant = l.meant
  <2>1. << >> \in Seq(LocalType) /\ DOMAIN << >> = {}
    OBVIOUS
  <2> QED
    BY <1>4, <2>1 DEF FrameType, Strings, ToSet
<1> HIDE DEF new
<1>6. /\ stack' \in Seq(FrameType) /\ Len(stack') = n + 1 /\ stack'[n + 1] = new
      /\ \A d \in 1 .. n : stack'[d] = stack[d]
  BY <1>1, <1>3, <1>5, AppendProperties DEF new
<1> HIDE DEF n
<1>7. \A d \in 1 .. n + 1 : d \in 1 .. n \/ d = n + 1
  BY <1>3
<1>8. ASSUME NEW p, NEW m, Names(p, m) PROVE Names(p, m)'
  BY <1>2, <1>8 DEF Names
<1>9. \A d \in 1 .. n + 1 : Strings(stack[d])' = IF d = n + 1 THEN {} ELSE Strings(stack[d])
  <2> TAKE d \in 1 .. n + 1
  <2>1. CASE d = n + 1
    BY <1>5, <1>6, <2>1 DEF Strings
  <2>2. CASE d \in 1 .. n
    <3>1. d # n + 1
      BY <1>3, <2>2
    <3> QED
      BY <1>6, <2>2, <3>1 DEF Strings
  <2> QED
    BY <1>7, <2>1, <2>2
<1>10. NamesTyped'
  BY <1>2, <1>6 DEF NInv, NamesTyped
<1>11. NamesThere'
  <2> SUFFICES ASSUME NEW d \in 1 .. n + 1
               PROVE  /\ Names(stack[d].var, stack[d].meant)'
                      /\ \A x \in ToSet(stack'[d].locals) : Names(x.p, x.meant)'
    BY <1>6 DEF NamesThere
  <2>1. CASE d = n + 1
    <3>1. ASSUME NEW p, NEW m, Names(p, m), p = stack'[d].var, m = stack'[d].meant
          PROVE  Names(stack[d].var, stack[d].meant)'
      BY <1>8, <3>1
    <3> QED
      BY <1>4, <1>5, <1>6, <2>1, <3>1
  <2>2. CASE d \in 1 .. n
    <3>1. /\ Names(stack[d].var, stack[d].meant)
          /\ \A x \in ToSet(stack[d].locals) : Names(x.p, x.meant)
      BY <2>2 DEF NInv, NamesThere, n
    <3>2. ASSUME NEW p, NEW m, Names(p, m), p = stack'[d].var, m = stack'[d].meant
          PROVE  Names(stack[d].var, stack[d].meant)'
      BY <1>8, <3>2
    <3> QED
      BY <1>6, <1>8, <2>2, <3>1, <3>2
  <2> QED
    BY <1>7, <2>1, <2>2
<1>12. StringsApart'
  <2> SUFFICES ASSUME NEW d \in 1 .. n + 1, NEW e \in 1 .. n + 1, d # e
               PROVE  Strings(stack[d])' \cap Strings(stack[e])' = {}
    BY <1>6 DEF StringsApart
  <2>1. d \in 1 .. n /\ e \in 1 .. n => Strings(stack[d]) \cap Strings(stack[e]) = {}
    BY DEF NInv, StringsApart, n
  <2> QED
    BY <1>7, <1>9, <2>1
<1>13. VarsFromBelow'
  <2> SUFFICES ASSUME NEW d \in 1 .. n + 1, stack'[d].var \in HeapPointer
               PROVE  \E e \in 1 .. d - 1 : stack'[d].var.at \in Strings(stack[e])'
    BY <1>6 DEF VarsFromBelow
  <2>1. CASE d = n + 1
    <3>1. stack'[d].var.at \in Strings(stack[n])
      BY <1>4, <1>5, <1>6, <2>1
    <3>2. n \in 1 .. d - 1 /\ n \in 1 .. n + 1 /\ n # n + 1
      BY <1>3, <2>1
    <3> QED
      BY <1>9, <3>1, <3>2
  <2>2. CASE d \in 1 .. n
    <3>1. PICK e \in 1 .. d - 1 : stack[d].var.at \in Strings(stack[e])
      BY <1>6, <2>2 DEF NInv, VarsFromBelow, n
    <3>2. e \in 1 .. n + 1 /\ e # n + 1
      BY <1>3, <2>2
    <3> QED
      BY <1>6, <1>9, <2>2, <3>1, <3>2
  <2> QED
    BY <1>7, <2>1, <2>2
<1>14. StringsLive'
  <2> SUFFICES ASSUME NEW k \in 1 .. Len(heap)
               PROVE  heap[k].live <=> \E d \in 1 .. n + 1 : k \in Strings(stack[d])'
    BY <1>2, <1>6 DEF StringsLive
  <2>1. heap[k].live <=> \E d \in 1 .. n : k \in Strings(stack[d])
    BY DEF NInv, StringsLive, n
  <2>2. ASSUME NEW d \in 1 .. n PROVE d \in 1 .. n + 1 /\ d # n + 1
    BY <1>3
  <2> QED
    BY <1>7, <1>9, <2>1, <2>2
<1> QED
  BY <1>2, <1>10, <1>11, <1>12, <1>13, <1>14 DEF NInv, LinesAsMeant, CutLinesShow

(* The strings that are cleaned up are those of the frame that is left, and
   no other frame reads one of them. *)
LEMMA LeaveStep == NInv /\ Leave => NInv'
<1> SUFFICES ASSUME NInv, Leave PROVE NInv'
  OBVIOUS
<1> DEFINE n == Len(stack)
<1>1. UNCHANGED <<buffers, index, next_reg, sb>>
  BY DEF Leave, ring
<1>2. /\ n \in Nat \ {0} /\ Top = stack[n] /\ stack \in Seq(FrameType) /\ stack # << >>
      /\ heap \in Seq(StringType)
  BY TopNames DEF Leave, Running, NInv, NamesTyped
<1>3. /\ stack' \in Seq(FrameType) /\ Len(stack') = n - 1
      /\ \A d \in 1 .. n - 1 : stack'[d] = stack[d]
  BY <1>2, FrontType DEF Leave
<1>4. /\ heap' \in Seq(StringType) /\ Len(heap') = Len(heap)
      /\ \A k \in 1 .. Len(heap) :
           /\ k \in Strings(stack[n]) => ~heap'[k].live
           /\ k \notin Strings(stack[n]) => heap'[k] = heap[k]
  <2> DEFINE kept(k) == IF k \in Strings(stack[n]) THEN [heap[k] EXCEPT !.live = FALSE] ELSE heap[k]
  <2>1. Len(heap) \in Nat /\ DOMAIN heap = 1 .. Len(heap)
    BY <1>2
  <2>2. \A k : (\E l \in ToSet(Top.locals) : l.p.at = k) <=> k \in Strings(stack[n])
    BY <1>2 DEF Strings
  <2>3. heap' = [k \in 1 .. Len(heap) |-> kept(k)]
    BY <2>1, <2>2 DEF Leave, Cleanup
  <2>4. \A k \in 1 .. Len(heap) : heap[k] \in StringType
    BY <1>2, ElementOfSeq
  <2>5. \A k \in 1 .. Len(heap) : /\ kept(k) \in StringType
                                  /\ k \in Strings(stack[n]) => ~kept(k).live
                                  /\ k \notin Strings(stack[n]) => kept(k) = heap[k]
    BY <2>4 DEF StringType
  <2> HIDE DEF kept
  <2>6. heap' \in Seq(StringType) /\ Len(heap') = Len(heap)
    BY <2>1, <2>3, <2>5, IsASeq
  <2> QED
    BY <2>3, <2>5, <2>6
<1> HIDE DEF n
<1>5. \A d \in 1 .. n - 1 : /\ d \in 1 .. n /\ d # n /\ n \in 1 .. n
                            /\ Strings(stack[d])' = Strings(stack[d])
  BY <1>2, <1>3 DEF Strings
<1>6. \A d \in 1 .. n - 1 : Strings(stack[d]) \cap Strings(stack[n]) = {}
  BY <1>5 DEF NInv, StringsApart, n
<1>7. ASSUME NEW p, NEW m, Names(p, m), p \in HeapPointer => p.at \notin Strings(stack[n])
      PROVE  Names(p, m)'
  BY <1>4, <1>7 DEF Names
<1>8. NamesTyped'
  BY <1>1, <1>3, <1>4 DEF NInv, NamesTyped
<1>9. NamesThere'
  <2> SUFFICES ASSUME NEW d \in 1 .. n - 1
               PROVE  /\ Names(stack[d].var, stack[d].meant)'
                      /\ \A x \in ToSet(stack'[d].locals) : Names(x.p, x.meant)'
    BY <1>3 DEF NamesThere
  <2>1. /\ Names(stack[d].var, stack[d].meant)
        /\ \A x \in ToSet(stack[d].locals) : Names(x.p, x.meant)
    BY <1>5 DEF NInv, NamesThere, n
  <2>2. stack[d].var \in HeapPointer => stack[d].var.at \notin Strings(stack[n])
    <3>1. SUFFICES ASSUME stack[d].var \in HeapPointer PROVE stack[d].var.at \notin Strings(stack[n])
      OBVIOUS
    <3>2. PICK e \in 1 .. d - 1 : stack[d].var.at \in Strings(stack[e])
      BY <1>5, <3>1 DEF NInv, VarsFromBelow, n
    <3>3. e \in 1 .. n - 1
      BY <1>2
    <3> QED
      BY <1>6, <3>2, <3>3
  <2>3. ASSUME NEW p, NEW m, Names(p, m), p = stack'[d].var, m = stack'[d].meant,
               p \in HeapPointer => p.at \notin Strings(stack[n])
        PROVE  Names(stack[d].var, stack[d].meant)'
    BY <1>7, <2>3
  <2>4. ASSUME NEW x \in ToSet(stack[d].locals) PROVE Names(x.p, x.meant)'
    <3>1. x.p.at \in Strings(stack[d])
      BY DEF Strings
    <3> QED
      BY <1>6, <1>7, <2>1, <3>1
  <2> QED
    BY <1>3, <2>1, <2>2, <2>3, <2>4
<1>10. StringsApart'
  <2> SUFFICES ASSUME NEW d \in 1 .. n - 1, NEW e \in 1 .. n - 1, d # e
               PROVE  Strings(stack[d])' \cap Strings(stack[e])' = {}
    BY <1>3 DEF StringsApart
  <2>1. Strings(stack[d]) \cap Strings(stack[e]) = {}
    BY <1>5 DEF NInv, StringsApart, n
  <2> QED
    BY <1>5, <2>1
<1>11. VarsFromBelow'
  <2> SUFFICES ASSUME NEW d \in 1 .. n - 1, stack'[d].var \in HeapPointer
               PROVE  \E e \in 1 .. d - 1 : stack'[d].var.at \in Strings(stack[e])'
    BY <1>3 DEF VarsFromBelow
  <2>1. PICK e \in 1 .. d - 1 : stack[d].var.at \in Strings(stack[e])
    BY <1>3, <1>5 DEF NInv, VarsFromBelow, n
  <2>2. e \in 1 .. n - 1
    BY <1>2
  <2> QED
    BY <1>3, <1>5, <2>1, <2>2
<1>12. StringsLive'
  <2> SUFFICES ASSUME NEW k \in 1 .. Len(heap)
               PROVE  heap'[k].live <=> \E d \in 1 .. n - 1 : k \in Strings(stack[d])'
    BY <1>3, <1>4 DEF StringsLive
  <2>1. heap[k].live <=> \E d \in 1 .. n : k \in Strings(stack[d])
    BY DEF NInv, StringsLive, n
  <2>2. CASE k \in Strings(stack[n])
    BY <1>4, <1>5, <1>6, <2>2
  <2>3. CASE k \notin Strings(stack[n])
    <3>1. \A d \in 1 .. n : d = n \/ d \in 1 .. n - 1
      BY <1>2
    <3> QED
      BY <1>4, <1>5, <2>1, <2>3, <3>1
  <2> QED
    BY <2>2, <2>3
<1> QED
  BY <1>1, <1>8, <1>9, <1>10, <1>11, <1>12 DEF NInv, LinesAsMeant, CutLinesShow

LEMMA NInvInit == NamesInit => NInv
<1> SUFFICES ASSUME NamesInit PROVE NInv
  OBVIOUS
<1> DEFINE first == [var |-> [to |-> "literal", at |-> << >>], meant |-> << >>, locals |-> << >>]
<1>1. << >> \in Chars /\ Len(<< >>) = 0 /\ << >> \in Seq(LocalType) /\ << >> \in Seq(StringType)
      /\ 1 .. Len(<< >>) = {} /\ DOMAIN << >> = {}
  BY DEF Chars
<1>2. /\ first \in FrameType /\ ToSet(first.locals) = {}
      /\ first.var \in Literal /\ first.var \notin HeapPointer
      /\ first.var.at = first.meant
  BY <1>1, Pointers DEF FrameType, ToSet
<1>3. stack = <<first>> /\ heap = << >> /\ next_reg = 0 /\ sb = [line |-> << >>, meant |-> << >>]
  BY DEF NamesInit
<1> HIDE DEF first
<1>4. stack \in Seq(FrameType) /\ Len(stack) = 1 /\ stack[1] = first
  BY <1>2, <1>3
<1>5. \A d \in 1 .. Len(stack) : d = 1 /\ stack[d] = first
  BY <1>4
<1>6. NamesTyped
  <2>1. buffers \in [0 .. Buffers - 1 -> Chars] /\ index \in 0 .. Used - 1
    BY <1>1, BuffersAssumption DEF NamesInit, RingInit
  <2> QED
    BY <1>1, <1>3, <1>4, <2>1 DEF NamesTyped
<1>7. NamesThere
  BY <1>2, <1>5 DEF NamesThere, Names
<1>8. StringsApart /\ VarsFromBelow
  BY <1>2, <1>5 DEF StringsApart, VarsFromBelow
<1>9. StringsLive
  BY <1>1, <1>3 DEF StringsLive
<1>10. LinesAsMeant /\ CutLinesShow
  BY <1>1, <1>3, SizeAssumption DEF LinesAsMeant, CutLinesShow
<1> QED
  BY <1>6, <1>7, <1>8, <1>9, <1>10 DEF NInv

LEMMA NInvStutter == NInv /\ UNCHANGED names => NInv'
BY DEF NInv, NamesTyped, NamesThere, Names, Strings, StringsApart, VarsFromBelow,
       StringsLive, LinesAsMeant, CutLinesShow, names, ring

LEMMA NInvNext == NInv /\ [NamesNext]_names => NInv'
BY DrawNameStep, CallStep, AddSteps, LeaveStep, NInvStutter DEF NamesNext

LEMMA NamesKeep == NamesSpec => []NInv
BY NInvInit, NInvNext, PTL DEF NamesSpec

(* LinesAsMeant: whatever has been formatted in between and however deep the
   calls, every line of builder_add that fits has the names it was meant to
   have, for every program and any number of buffers. *)
THEOREM LinesHaveTheirNames == NamesSpec => []LinesAsMeant
<1>1. NInv => LinesAsMeant
  BY DEF NInv
<1> QED
  BY <1>1, NamesKeep, PTL

(* CutLinesShow: a line that does not fit ends in the dots of formatv. *)
THEOREM CutLinesEndInDots == NamesSpec => []CutLinesShow
<1>1. NInv => CutLinesShow
  BY DEF NInv
<1> QED
  BY <1>1, NamesKeep, PTL

(* LiveNamesAreLocals: the names that are allocated are the rc_str locals of
   the active calls; the generator loses none and frees none twice. *)
THEOREM NamesAreNotLost == NamesSpec => []LiveNamesAreLocals
<1>1. NInv => LiveNamesAreLocals
  <2> SUFFICES ASSUME NInv PROVE LiveNamesAreLocals
    OBVIOUS
  <2>1. DOMAIN heap = 1 .. Len(heap) /\ DOMAIN stack = 1 .. Len(stack)
    BY DEF NInv, NamesTyped
  <2>2. \A d \in DOMAIN stack : Strings(stack[d]) \subseteq DOMAIN heap
    BY <2>1, StringsOnHeap
  <2>3. \A k \in DOMAIN heap : heap[k].live <=> \E d \in DOMAIN stack : k \in Strings(stack[d])
    BY <2>1 DEF NInv, StringsLive
  <2>4. {k \in DOMAIN heap : heap[k].live} = UNION {Strings(stack[d]) : d \in DOMAIN stack}
    BY <2>2, <2>3
  <2> QED
    BY <2>4 DEF LiveNamesAreLocals, Strings
<1> QED
  BY <1>1, NamesKeep, PTL
=============================================================================
