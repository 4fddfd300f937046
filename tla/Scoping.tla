------------------------------ MODULE Scoping -------------------------------
(***************************************************************************)
(* The macro scoping(v1, v2...) of include/crc.h: a for loop that runs its *)
(* block once, uses each variable before it and dels each one after it.    *)
(* The references are the counts of Rc; here it is the client that counts: *)
(* owners elsewhere in the program that give their references up while the *)
(* block runs, and the ways to leave it.                                   *)
(***************************************************************************)
EXTENDS FiniteSetsExt, SequencesExt

CONSTANTS
  Var,        \* the variables of the client
  Pointee,    \* the objects they may point to, from crc_new
  ArgLists,   \* the argument lists it writes
  MaxDepth,   \* bound on the scopes inside each other
  MaxJumps    \* bound on the scopes that are left by a break or a return

ASSUME ArgListsAssumption == ArgLists \subseteq Seq(Var)

VARIABLES
  var,       \* the object each variable points to
  rc_count,  \* struct CRC__Rc, field count
  freed,     \* the objects crc_del has freed
  owned,     \* whether another owner has a reference to the object
  scopes,    \* the scopes that are active: their arguments
  jumped     \* the argument lists whose dels a break or a return has left
             \* out, as objects

scoping == <<var, rc_count, freed, owned, scopes, jumped>>

-----------------------------------------------------------------------------
(* CRC__N_VA_ARGS_FOREACH: what is tenth when the numbers follow the arguments. *)
ForeachCount(args) == (args \o [k \in 1 .. 10 |-> 10 - k])[10]

ScopingInit ==
  /\ var \in [Var -> Pointee]
  /\ rc_count = [o \in Pointee |-> 1]
  /\ freed = {}
  /\ owned = Pointee
  /\ scopes = << >>
  /\ jumped = << >>

(* How often an object is an argument. *)
Times(args, o) == Cardinality({k \in DOMAIN args : var[args[k]] = o})

CrcDel(times) ==
  /\ rc_count' = [o \in Pointee |-> rc_count[o] - times[o]]
  /\ freed' = freed \cup {o \in Pointee : times[o] > 0 /\ rc_count[o] <= times[o]}

(* Of ten arguments there is none: CRC__FOREACH_MACRO_<name of the tenth>. *)
Defined(args) == ForeachCount(args) \in 0 .. 9

(* Faulty: an object is used once, however often it is an argument. *)
EnterOnce(args) ==
  /\ Defined(args)
  /\ Len(scopes) < MaxDepth
  /\ \A v \in ToSet(args) : var[v] \notin freed
  /\ rc_count' = [o \in Pointee |-> rc_count[o] + IF Times(args, o) > 0 THEN 1 ELSE 0]
  /\ scopes' = Append(scopes, args)
  /\ UNCHANGED <<var, freed, owned, jumped>>

(* The loop's declaration: crc_use of each argument. *)
Enter(args) ==
  /\ Defined(args)
  /\ Len(scopes) < MaxDepth
  /\ \A v \in ToSet(args) : var[v] \notin freed
  /\ rc_count' = [o \in Pointee |-> rc_count[o] + Times(args, o)]
  /\ scopes' = Append(scopes, args)
  /\ UNCHANGED <<var, freed, owned, jumped>>

(* Faulty: the last argument is forgotten. *)
StepFront ==
  /\ scopes # << >>
  /\ CrcDel([o \in Pointee |-> IF Last(scopes) = << >> THEN 0
                               ELSE Times(Front(Last(scopes)), o)])
  /\ scopes' = Front(scopes)
  /\ UNCHANGED <<var, owned, jumped>>

(* The block has ended, or a continue has: the loop's step, crc_del of each
   argument, and its condition, which is false now. *)
Step ==
  /\ scopes # << >>
  /\ CrcDel([o \in Pointee |-> Times(Last(scopes), o)])
  /\ scopes' = Front(scopes)
  /\ UNCHANGED <<var, owned, jumped>>

Objects(args) == {var[v] : v \in ToSet(args)}

Jump(skipped) ==
  /\ Len(jumped) + Len(skipped) <= MaxJumps
  /\ jumped' = jumped \o [k \in DOMAIN skipped |-> Objects(skipped[k])]
  /\ UNCHANGED <<var, rc_count, freed, owned>>

(* A break leaves the innermost scope, with no step; a return all of them. *)
Break == scopes # << >> /\ scopes' = Front(scopes) /\ Jump(<<Last(scopes)>>)
Return == scopes # << >> /\ scopes' = << >> /\ Jump(scopes)

(* The other owner's crc_del. *)
Disown(o) ==
  /\ o \in owned
  /\ owned' = owned \ {o}
  /\ CrcDel([p \in Pointee |-> IF p = o THEN 1 ELSE 0])
  /\ UNCHANGED <<var, scopes, jumped>>

(* Between scopes the client may make a variable point elsewhere; in one the
   step would del what was not used. *)
Assign(v, o) ==
  /\ \A k \in DOMAIN scopes : v \notin ToSet(scopes[k])
  /\ o \notin freed
  /\ var' = [var EXCEPT ![v] = o]
  /\ UNCHANGED <<rc_count, freed, owned, scopes, jumped>>

ScopingNext ==
  \/ \E args \in ArgLists : Enter(args)
  \/ Step \/ Break \/ Return
  \/ \E o \in Pointee : Disown(o)
  \/ \E v \in Var, o \in Pointee : Assign(v, o)

ScopingSpec == ScopingInit /\ [][ScopingNext]_scoping

-----------------------------------------------------------------------------
(* As long as a scope runs its arguments are there, although every other
   owner may have given them up, and although scopes of the same variables,
   or of others that point to the same object, have come and gone. *)
ArgumentsLive ==
  \A k \in DOMAIN scopes : \A v \in ToSet(scopes[k]) : var[v] \notin freed

(* Without scopes and owners an object is there only if a break or a return
   has jumped over its dels; so an object leaks by these alone. *)
LeaksByJumpsOnly ==
  scopes = << >> => freed = Pointee \ (owned \cup UNION ToSet(jumped))
=============================================================================
