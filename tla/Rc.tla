---------------------------------- MODULE Rc --------------------------------
(***************************************************************************)
(* Reference counting, include/crc.h, and the trees that live on it        *)
(* (new_node and destroy_node of src/ast.c).                               *)
(*                                                                         *)
(* The count of an object is a number; what it is meant to count are the   *)
(* references, which the C program keeps in variables and in fields.  The  *)
(* model makes them explicit: a reference is held by the thread whose      *)
(* variable it is or by the object whose field it is.  Clients obey the    *)
(* convention of the library: crc_del gives up a reference they hold, and  *)
(* a constructor takes over the references it is given.                    *)
(*                                                                         *)
(* With CRC_THREAD_SAFE each change of a count is one atomic instruction;  *)
(* without it there is one thread.  So a change is one step in both.       *)
(***************************************************************************)
EXTENDS Integers, FiniteSets, SequencesExt

CONSTANTS
  Thread,
  Object,   \* the blocks that malloc may return
  Ref,      \* the references there may be at a time
  Nil

ASSUME RefAssumption == IsFiniteSet(Ref)
ASSUME DistinctAssumption ==
  /\ Thread \cap Object = {}
  /\ Nil \notin Thread \cup Object

VARIABLES
  mem,      \* "unborn", "live" or "freed", for each object
  count,    \* struct CRC__Rc, field count or atomic_count
  to,       \* the object a reference is to, Nil if it is not in use
  holder,   \* the thread or the object that holds it
  dying     \* the objects whose crc_del a thread is in, innermost last

vars == <<mem, count, to, holder, dying>>

-----------------------------------------------------------------------------
RefsTo(o) == {r \in Ref : to[r] = o}
HeldBy(h) == {r \in Ref : holder[r] = h}

Idle(t) == dying[t] = << >>

(* A thread may use what it holds and what that holds in turn. *)
Reaches(t, r) ==
  \/ holder[r] = t
  \/ \E p \in HeldBy(t) : holder[r] = to[p]

Init ==
  /\ mem = [o \in Object |-> "unborn"]
  /\ count = [o \in Object |-> 0]
  /\ to = [r \in Ref |-> Nil]
  /\ holder = [r \in Ref |-> Nil]
  /\ dying = [t \in Thread |-> << >>]

NewUncounted(t, o, r, kids) ==   \* faulty: the count starts at 0
  /\ Idle(t)
  /\ mem[o] = "unborn"
  /\ to[r] = Nil
  /\ kids \subseteq HeldBy(t)
  /\ mem' = [mem EXCEPT ![o] = "live"]
  /\ count' = [count EXCEPT ![o] = 0]
  /\ to' = [to EXCEPT ![r] = o]
  /\ holder' = [q \in Ref |-> IF q = r THEN t ELSE IF q \in kids THEN o ELSE holder[q]]
  /\ UNCHANGED dying

(* crc_new when kids is empty; otherwise crc_with_deleter, called by a
   constructor that stores the references kids in the fields of the node. *)
New(t, o, r, kids) ==
  /\ Idle(t)
  /\ mem[o] = "unborn"
  /\ to[r] = Nil
  /\ kids \subseteq HeldBy(t)
  /\ mem' = [mem EXCEPT ![o] = "live"]
  /\ count' = [count EXCEPT ![o] = 1]
  /\ to' = [to EXCEPT ![r] = o]
  /\ holder' = [q \in Ref |-> IF q = r THEN t ELSE IF q \in kids THEN o ELSE holder[q]]
  /\ UNCHANGED dying

UseUncounted(t, q, r) ==   \* faulty: the pointer is copied, no more
  /\ Idle(t)
  /\ Reaches(t, q)
  /\ to[r] = Nil
  /\ to' = [to EXCEPT ![r] = to[q]]
  /\ holder' = [holder EXCEPT ![r] = t]
  /\ UNCHANGED <<mem, count, dying>>

(* crc_use, on the object q refers to: r is the reference it returns. *)
Use(t, q, r) ==
  /\ Idle(t)
  /\ Reaches(t, q)
  /\ to[r] = Nil
  /\ count' = [count EXCEPT ![to[q]] = @ + 1]
  /\ to' = [to EXCEPT ![r] = to[q]]
  /\ holder' = [holder EXCEPT ![r] = t]
  /\ UNCHANGED <<mem, dying>>

(* A thread hands a reference to another. *)
Give(t, u, r) ==
  /\ Idle(t)
  /\ holder[r] = t
  /\ u # t
  /\ holder' = [holder EXCEPT ![r] = u]
  /\ UNCHANGED <<mem, count, to, dying>>

(* The first half of crc_del: the reference r is gone, and whoever took the
   last one is going to destroy the object. *)
DecrementLate(t, r) ==   \* faulty: compares the count before the decrement with 0
  LET o == to[r]
  IN  /\ count' = [count EXCEPT ![o] = @ - 1]
      /\ to' = [to EXCEPT ![r] = Nil]
      /\ holder' = [holder EXCEPT ![r] = Nil]
      /\ dying' = IF count[o] <= 0 THEN [dying EXCEPT ![t] = Append(@, o)] ELSE dying
      /\ UNCHANGED mem
Decrement(t, r) ==
  LET o == to[r]
  IN  /\ count' = [count EXCEPT ![o] = @ - 1]
      /\ to' = [to EXCEPT ![r] = Nil]
      /\ holder' = [holder EXCEPT ![r] = Nil]
      /\ dying' = IF count[o] <= 1 THEN [dying EXCEPT ![t] = Append(@, o)] ELSE dying
      /\ UNCHANGED mem

(* crc_del, and crc__cleanup at the end of a scope. *)
Del(t, r) == Idle(t) /\ holder[r] = t /\ Decrement(t, r)

(* The deleter of the innermost dying object deletes a field.  The order of
   the fields, which differs from kind to kind, is left open. *)
DeleterDel(t, r) ==
  /\ ~Idle(t)
  /\ holder[r] = Last(dying[t])
  /\ Decrement(t, r)

(* Without the deleter: the fields keep their references. *)
FreeShallow(t) ==
  /\ ~Idle(t)
  /\ mem' = [mem EXCEPT ![Last(dying[t])] = "freed"]
  /\ dying' = [dying EXCEPT ![t] = Front(@)]
  /\ UNCHANGED <<count, to, holder>>

(* The deleter has returned; CRC_free. *)
Free(t) ==
  /\ ~Idle(t)
  /\ HeldBy(Last(dying[t])) = {}
  /\ mem' = [mem EXCEPT ![Last(dying[t])] = "freed"]
  /\ dying' = [dying EXCEPT ![t] = Front(@)]
  /\ UNCHANGED <<count, to, holder>>

-----------------------------------------------------------------------------
Client(t) ==
  \/ \E o \in Object, r \in Ref, kids \in SUBSET HeldBy(t) : New(t, o, r, kids)
  \/ \E q \in Ref, r \in Ref : Use(t, q, r)
  \/ \E u \in Thread, r \in Ref : Give(t, u, r)
  \/ \E r \in Ref : Del(t, r)

Destroy(t) == (\E r \in Ref : DeleterDel(t, r)) \/ Free(t)

Next == \E t \in Thread : Client(t) \/ Destroy(t)

(* A thread that is in crc_del goes on; clients need not do anything. *)
Spec == Init /\ [][Next]_vars /\ \A t \in Thread : WF_vars(Destroy(t))

-----------------------------------------------------------------------------
Dying(o) == \E t \in Thread : \E k \in 1 .. Len(dying[t]) : dying[t][k] = o

(* The type of every variable of the library and its clients; no count is
   ever negative, so crc_del never runs once too often. *)
TypeOK ==
  /\ mem \in [Object -> {"unborn", "live", "freed"}]
  /\ count \in [Object -> Nat]
  /\ to \in [Ref -> Object \cup {Nil}]
  /\ holder \in [Ref -> Thread \cup Object \cup {Nil}]
  /\ dying \in [Thread -> Seq(Object)]

(* The count of an object is the number of references to it, whatever the
   threads do to it at the same time and however references travel. *)
CountIsReferences ==
  \A o \in Object : mem[o] = "live" => count[o] = Cardinality(RefsTo(o))

(* No use after free: a reference is to an object that is live and that no
   thread is about to free, and so is whatever holds the reference, unless
   its deleter is just giving the reference up. *)
NoDanglingReference ==
  \A r \in Ref : to[r] # Nil =>
    /\ mem[to[r]] = "live" /\ ~Dying(to[r])
    /\ holder[r] \in Object => mem[holder[r]] = "live"

(* No double free: what a thread is destroying has not been freed yet, and no
   other thread destroys it, nor does the thread itself a second time.  A
   freed block is not used again, so an object is freed at most once. *)
FreedOnce ==
  \A t \in Thread : \A j \in 1 .. Len(dying[t]) :
    /\ mem[dying[t][j]] = "live"
    /\ \A u \in Thread : \A k \in 1 .. Len(dying[u]) :
         dying[u][k] = dying[t][j] => u = t /\ k = j

(* No leak: an object nothing refers to any more is freed. *)
NoLeak ==
  \A o \in Object : (mem[o] = "live" /\ RefsTo(o) = {}) ~> (mem[o] = "freed")
=============================================================================
