---------------------------- MODULE SnapshotFrom ----------------------------
(***************************************************************************)
(* snapshot_from of test.py: it reads entries                              *)
(*   <stage> <binding path> <exit code:int> ["stdout"] ["stderr"];         *)
(* from a file, and writes a snapshot for each.  The tokens are those of   *)
(* shlex, which keeps the quotes of a quoted one; the variables are those  *)
(* of the loop, next telling which call of get_token comes next.           *)
(***************************************************************************)
EXTENDS SequencesExt

CONSTANTS
  Entry,        \* what an entry of a file may say
  MaxEntries    \* bound on the entries of a file

VARIABLES
  file,       \* the entries of the file
  cut,        \* how many tokens the last of them lacks
  at,         \* where the lexer is: the entry, and the token of it
  next,       \* the token the loop asks for; "done" or "failed" at its end
  entry,      \* from_stage, from_path, from_code, from_stdout, from_stderr
  written     \* the snapshots, in the order of the calls of write_snap

vars == <<file, cut, at, next, entry, written>>

-----------------------------------------------------------------------------
Quote(text) == <<"quote", text, "quote">>
Strip(tok) == IF Head(tok) = "quote" THEN SubSeq(tok, 2, Len(tok) - 1) ELSE tok
Semicolon == <<";">>
Eof == << >>

(* An entry as the help of --from-file says it is written: with a stdout and
   a stderr, with a stdout, or with none. *)
Written(e) ==
  <<<<e.stage>>, Quote(e.path), <<e.code>>>>
    \o [k \in 1 .. Len(e.texts) |-> Quote(e.texts[k])] \o <<Semicolon>>

(* Before any of it is read. *)
Nothing == [stage |-> "", path |-> "", code |-> "", texts |-> << >>]

Init ==
  /\ file \in UNION {[1 .. n -> Entry] : n \in 0 .. MaxEntries}
  /\ cut \in 0 .. IF file = << >> THEN 0 ELSE Len(Written(Last(file))) - 1
  /\ at = [entry |-> 1, token |-> 1]
  /\ next = "stage"
  /\ entry = Nothing
  /\ written = << >>

Ends ==
  \/ at.entry > Len(file)
  \/ at.entry = Len(file) /\ at.token > Len(Written(Last(file))) - cut

Tok == IF Ends THEN Eof ELSE Written(file[at.entry])[at.token]

GetToken ==
  /\ at' = IF Ends THEN at
           ELSE IF at.token < Len(Written(file[at.entry]))
                THEN [entry |-> at.entry, token |-> at.token + 1]
                ELSE [entry |-> at.entry + 1, token |-> 1]
  /\ UNCHANGED <<file, cut>>

(* sys.exit(1) *)
Fail == next' = "failed" /\ UNCHANGED <<entry, written>>

(* A token that is missing; the others are of the kind that is expected. *)
ReadStage ==
  /\ next = "stage"
  /\ IF Tok = Eof THEN next' = "done" /\ UNCHANGED <<entry, written>>
     ELSE /\ entry' = [Nothing EXCEPT !.stage = Tok[1]]
          /\ next' = "path"
          /\ UNCHANGED written
  /\ GetToken

ReadPath ==
  /\ next = "path"
  /\ IF Tok \in {Eof, Semicolon} THEN Fail
     ELSE /\ entry' = [entry EXCEPT !.path = Strip(Tok)[1]]
          /\ next' = "code"
          /\ UNCHANGED written
  /\ GetToken

ReadCode ==
  /\ next = "code"
  /\ IF Tok \in {Eof, Semicolon} THEN Fail
     ELSE /\ entry' = [entry EXCEPT !.code = Tok[1]]
          /\ next' = "stdout"
          /\ UNCHANGED written
  /\ GetToken

WriteSnap(e) == written' = Append(written, e)

(* A ';' ends the entry, and the loop continues. *)
ReadStdout ==
  /\ next = "stdout"
  /\ CASE Tok = Eof -> Fail
       [] Tok = Semicolon -> WriteSnap(entry) /\ next' = "stage" /\ UNCHANGED entry
       [] OTHER -> /\ entry' = [entry EXCEPT !.texts = <<Tok>>]
                   /\ next' = "stderr"
                   /\ UNCHANGED written
  /\ GetToken

(* A ';' writes the snapshot as well, but the loop goes on in the entry: the
   ';' is its stderr. *)
ReadStderr ==
  /\ next = "stderr"
  /\ IF Tok = Eof THEN Fail
     ELSE /\ IF Tok = Semicolon THEN WriteSnap(entry) ELSE UNCHANGED written
          /\ entry' = [entry EXCEPT !.texts = Append(@, Tok)]
          /\ next' = "end"
  /\ GetToken

(* Faulty: the end of the entry is not checked. *)
ReadEndUnchecked ==
  next = "end" /\ WriteSnap(entry) /\ next' = "stage" /\ UNCHANGED entry /\ GetToken

ReadEnd ==
  /\ next = "end"
  /\ IF Tok # Semicolon THEN Fail ELSE WriteSnap(entry) /\ next' = "stage" /\ UNCHANGED entry
  /\ GetToken

Next == ReadStage \/ ReadPath \/ ReadCode \/ ReadStdout \/ ReadStderr \/ ReadEnd

-----------------------------------------------------------------------------
(* The snapshot of an entry: the quotes of its texts are left on. *)
Quoted(e) == [e EXCEPT !.texts = [k \in DOMAIN e.texts |-> Quote(e.texts[k])]]

(* The snapshots that are written are those of the first entries, one each
   and in their order, whether the file is whole, cut off or refused.  Of the
   files that are whole just those are refused in which some entry has a
   stdout and no stderr, although the help allows it and the snapshot of the
   entry has been written; of the others every entry is written. *)
WritesEntries ==
  /\ Len(written) <= Len(file)
  /\ \A k \in DOMAIN written : written[k] = Quoted(file[k])
  /\ (next \in {"done", "failed"} /\ cut = 0) =>
       /\ next = "failed" <=> \E k \in DOMAIN file : Len(file[k].texts) = 1
       /\ next = "done" => Len(written) = Len(file)
=============================================================================
