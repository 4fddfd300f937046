------------------------------- MODULE TestPy -------------------------------
(***************************************************************************)
(* handle_snapshot of test.py: with --from-file it is snapshot_from and    *)
(* nothing else, otherwise one of the commands of Harness, which may       *)
(* follow each other.  The two are explored side by side: the snapshots    *)
(* that --from-file writes are, to the others, like those of an update.    *)
(***************************************************************************)
EXTENDS Harness

CONSTANTS Entry, MaxEntries

(* No stage and no exit code is a ';', and an entry has at most two texts. *)
ASSUME EntryAssumption ==
  \A e \in Entry :
    /\ e \in [stage : STRING, path : STRING, code : STRING, texts : Seq(STRING)]
    /\ e.stage # ";" /\ e.code # ";" /\ Len(e.texts) <= 2
ASSUME MaxEntriesAssumption == MaxEntries \in Nat

VARIABLES
  from_file,                             \* whether --from-file is given
  file, cut, at, next, entry, written    \* of snapshot_from

reader == <<file, cut, at, next, entry, written>>
all == <<vars, from_file, reader>>

From == INSTANCE SnapshotFrom

AnInfo == CHOOSE info \in Info : TRUE

HandleInit ==
  /\ from_file \in BOOLEAN
  /\ Init
  /\ From!Init
  /\ from_file => out = [f \in File |-> [s \in Stage |-> AnInfo]]
  /\ ~from_file => file = << >>

HandleCommands == ~from_file /\ Next /\ UNCHANGED <<from_file, reader>>

HandleFrom == from_file /\ From!Next /\ UNCHANGED <<from_file, vars>>

HandleNext == HandleCommands \/ HandleFrom

HandleSpec == HandleInit /\ [][HandleNext]_all

(* What --from-file writes and refuses, see SnapshotFrom. *)
WritesEntries == From!WritesEntries
=============================================================================
