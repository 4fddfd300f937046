# Aleron: models, checks and proofs

Aleron is a compiler for a small expression language, written in C: `main.c`
takes the source as an argument, `parser.c` and `scanner.c` turn it into a tree
(`ast.c`), `codegen.c` turns the tree into QBE intermediate code on standard
output. Nodes and names live on a reference-counting library (`crc.h`). A
Python script, `test.py`, hands the output to `qbe` and `cc`, runs the
executable and compares everything with snapshots.

This directory holds TLA+ models of these parts, the TLC configurations that
check them and the proofs that TLAPS checks. `PROJECT.json` says for every
definition which lines of the source it stands for.

## The system

| component | state it keeps | operations | talks to |
|---|---|---|---|
| scanner (`scanner.c`) | the cursor `*src`; the keyword table, filled at the first call | `next_token` | called by `main` (`-e=lex`) and by `advance` of the parser |
| parser (`parser.c`) | `tok`, `ntok` (two tokens of look-ahead), the cursor, the C stack of the recursive descent | `parse`, one function per rule of the grammar, `advance`, `expect`, `unclosed` | scanner, constructors of `ast.c`, `error_at` |
| syntax tree (`ast.c`, `aleron.h`) | nodes, each a reference-counted block with references to its children | constructors, `destroy_node` (the deleter), `ast_dump` | `crc.h`; read by the code generator |
| code generator (`codegen.c`) | the global buffer `sb`, the global counter `next_reg`, the C stack | `codegen`, one function per kind of node, `builder_add` | reads the tree; `format`; `error` |
| reference counts (`crc.h`) | a count and a deleter in front of each block | `crc_new`, `crc_with_deleter`, `crc_use`, `crc_del`, scope macros | `malloc`/`free`; calls the deleter, which calls it |
| formatting, errors (`util.c`, `error.c`) | a ring of static text buffers | `format`, `formatv`; `error`, `error_at` (exit) | everyone |
| driver (`main.c`) | the stage, the exit code | `main` | all of the above |
| compiled program (external) | temporaries, stack slots, program counter | QBE, `cc`, running the executable | the text of the code generator |
| test harness (`test.py`) | snapshots on disk | `test`, `-u`, `-ub`, `-ua all`, `-ua new`, `--from-file` | `aleron`, `qbe`, `cc` |

There is one thread in the compiler. What is hard in it is order: functions
that call each other recursively all write to the same buffer, draw from the
same counter and look at the same two tokens, and what one leaves behind is what
the next finds. Only the reference-counting library, when built with
`CRC_THREAD_SAFE`, has several threads; there the hard part is that a thread
takes a reference while another destroys the object. The compiler persists
nothing; the test harness keeps snapshots, and an update that is killed leaves
what the next command finds. Nothing is sent over a network. `PROJECT.json` lists
the hazards at their lines.

What makes each component correct:

- scanner: the tokens of a source are a maximal-munch cover of it, whatever
  stands beside them; the exit code of `-e=lex` says whether one was invalid;
- parser: the tree is the one the grammar gives the text; a text is refused only
  if there is none, and the error is reported where it belongs;
- code generator: the text is what QBE accepts (basic blocks, labels that exist
  once, temporaries defined before they are used) and, run, does what the tree
  means;
- reference counts: a count is the number of references, nothing is used after
  it is freed, freed twice or leaked; the constructors, the deleter and the
  scopes use the library so that this holds of the tree and of the names;
- syntax tree: what `-e=ast` prints, which the snapshots compare, tells any two
  trees apart;
- formatting: a text is still there when its caller uses it, although the next
  ones get the same buffers;
- test harness: a test lists the files whose snapshots differ and no others; an
  update, also after one that was killed, leaves snapshots that are up to date.

## Modules

    Syntax     Tokens                 the vocabulary: nodes and tokens
      |   \      |    \
      |    Grammar    Scanner         (reference grammar) (next_token, main -e=lex)
      |       \  |
      |        Parser                 parser.c; ParserGrammar: what it owes to Grammar
    Nodes      IR
      |  \      |
      |   \-- Codegen                 codegen.c
      |          |      Qbe           (machine)
    Refusal      |       |            (which trees are refused)
      |  \      Compiler              composition; in MCCompiler the refinement
      |   \----------- Language       (what a program means)
      |
    Stages --- Driver                 main.c: Parser, Codegen, Qbe in one process;
                                      Stages: what they owe to Grammar and Refusal

    Rc                                crc.h and destroy_node
     |   \
     |    Scoping                     the scoping macro of crc.h
    TreeHeap --- Dump                 ast.c: constructors, destroy_node; ast_dump

    Recent --- Format --- Names       (abstract) (util.c) (the names of codegen.c)

    TestPy = Harness + SnapshotFrom   test.py: commands on snapshots; --from-file

**Syntax** gives a node the shape its constructor in `ast.c` gives it: a record
with its kind and its children. `WellFormed` says which kinds may be children of
which; it is what the parser builds and the code generator is given. **Nodes** has
the constant `Node`, the well-formed trees a module is about, with their subtrees.

**Codegen** is `codegen.c`. The C stack is the variable `stack`, whose last
element is the frame of the function that is running: the node, the name of the
temporary the value is to be left in, the place to go on at (`pc`) and the local
numbers. An action is the part of a function between two calls. `sb` is the
sequence of lines added so far, each a record: the operation, what it defines,
the arguments and the labels (**IR**). Blank lines, indentation and the text of
the numbers are left out; names, which the properties are about, are pairs of
the prefix in the format string and the number drawn from `next_reg`.
`terminated` is the value the last `codegen_stmt` returned.

**Qbe** is what the text does when it is run: the part of QBE's language that
the format strings use. It is external: modelled from how `codegen.c` uses it
and `test.py` (`run_aleron`) runs it. A temporary is a long, a variable a
word in a stack slot, every executed `alloc4` takes a new slot, division traps,
a name that nothing has assigned ends the run as `undefined` when it is read
(QBE may refuse the text, or the value is arbitrary; `codegen.c:204` leaves such
programs to a later pass). **Language** says
what a tree means without reference to the compiler: evaluation by recursion
over the tree, numbers without width, variables that are names. **Refusal** says which
trees have no code, as functions on `Node`: those with an address operator that is
looked at. **Compiler** runs `Codegen`, then `Qbe` on its text; `MCCompiler` states
that the two together implement `Language`.

**Parser** is `parser.c`: again a stack of frames, one per active function of the
descent, each with its `pc`, the token it remembers for error messages and the
parts of the node it has so far. `text` and a cursor give the two tokens `tok`
and `ntok`; the end of the text stays at `TK_EOF` however often `advance` is
called. **Grammar** is the reference: the set of trees of each sort (statement, sum,
operand, ...) that each stretch of the text has, without look-ahead. A rule says what
they are by those of other stretches, and `Trees(T)` is the function that follows all
rules. **ParserGrammar** states what the one owes to the other.

**Scanner** is `next_token`, character by character, with the loop of `main`
that prints the tokens. A character is a string of length one; which ones are
spaces, digits and letters is a parameter, because `ctype.h` decides it. In the
C locale no byte above 127 is a letter, so a non-ASCII source has stray
characters, which is what `Stray` does.

**Rc** is `crc.h` with the references made explicit. In C a reference is a
pointer in a variable or a field; in the model it is an element of `Ref` with an
object it points to and a holder, a thread or an object. `count` is the number the
library stores, and the point is that it is the number of references. `crc_del`
has two steps, the decrement and the `free`, with the deleter in between
(`destroy_node`, which calls `crc_del` on each child). Every change of a count
is one step: with `CRC_THREAD_SAFE` it is one atomic instruction, without it
there is one thread. Memory that `malloc` hands out again counts as a new
object. Clients obey the convention of the library: they only give up and use
references they hold or reach.

**Driver** is `main.c`: the command line, the stage, the loop of `-e=lex`, and
instances of `Parser` and `Compiler` whose node and tree are one variable
(`ret`): what `parse` returns is what `codegen` is called on. An error in either
ends the process. `main` gives up its reference to the tree when it returns; that
is the `Cleanup` of `TreeHeap` and not repeated here. **Stages** states what the stages
owe to each other, to `Grammar` and to `Refusal`.

**TreeHeap** is the life of a tree in `main`: the constructors, in the order in
which the parser calls them (`todo` is the stack of the parser's functions that are
in the middle of a node: `Descend` calls the one for the next part, `NewNode` is
the constructor when all parts are there, and `node` what it stores); `ast_dump`
under `-e=ast`; `crc__cleanup` at the end, from which `crc_del` and `destroy_node`
call each other (`dying` is the stack of the active `destroy_node`s, each with the
number of the field that comes next). A node is named by its path from the root;
the constant `Place` is the nodes of the trees with their paths. The fields are
written down twice, as the constructors set them (`Built`) and as `destroy_node`
names them (`Deleted`), because the code does so: if they disagreed, a subtree would
leak. The module implements `Rc` with one reference per node, held by the parser
until the parent exists. **Dump** is `ast_dump`: the texts and nodes still to be
printed, in order. `Spells`, in `TreeHeap`, reads what was printed again, piece by piece;
the constant `Printable` is the nodes it is compared with.

**Scoping** is the macro of that name as its clients see it: a scope uses its
arguments, runs, and gives them up, unless a break or a return jumps over that;
meanwhile the other owners of the objects give theirs up. Counts are those of `Rc`;
how the preprocessor counts the arguments is `ForeachCount`.

**Format** is the ring of `util.c`: 16 buffers declared, 8 used in turn, a long
text cut to end in dots. Its abstract specification is **Recent**: the last `Used`
results can be read. **Names** is the code generator as a client of it and of
`crc_from_cstr`: a name is formatted into the ring, copied to the heap, kept in an
`rc_str` local while callees format names and lines of their own, put into lines
and freed when the local's scope ends. Which function calls which is left open,
so it covers every order in which the functions of `Codegen` can. A line is
recorded with what was meant, and the two must agree.

**Harness** is `handle_snapshot`, with the commands of `test.py` one after the
other on the same snapshots, in between edits of the compiler (which are changes
of what it gives for a file) and kills. Every command, an update too, is for one stage or
for all of them in turn (`-st`, `chosen`), and the promises are about those: after
`-st lex -ua all` the snapshots of the other stages are as they were. A unit test that fails
and a file that is not found end a command before any stage. Opening a snapshot empties it and
`json.dump` fills it; a kill in between leaves it `Torn`. **SnapshotFrom** is the
loop of `snapshot_from` over the tokens of `shlex`; `at` says where in the file the
lexer is, and `cut` where the file breaks off. **TestPy** has both, as
`handle_snapshot` chooses between them.

The `MC*` modules give the constants their values for TLC. `SeqLemmas`,
`CodegenProofs`, `ParserProofs`, `DriverProofs`, `LibraryProofs`, `ScannerProofs`,
`TreeHeapProofs` and `HarnessProofs` hold lemmas and proofs; `ParserProofs` has those
about `ParserGrammar` too, `DriverProofs` those about `Stages`, and `LibraryProofs`
those about `Rc`, `Scoping`, `Format` and `Names`.

Some modules contain operators whose comment begins with "Faulty", and that no
action uses: each is an action with a plausible mistake in it (a missing test, a
swapped order, an index off by one). Put in the place of the original, each
makes a property fail; `PROJECT.json` pairs them under `mutants`. That is how
we know that the properties can fail.

## What is checked

| run | instance | shows |
|---|---|---|
| `codegen` | every tree of two nested compound statements, two statements in a row, an empty block among them, and every operator: some hundred roots, 8,700 states | types; a jump is followed by a label (`JumpEndsBlock`); labels are unique and defined; temporaries are computed once, before their use and in the same block; `codegen` ends |
| `codegen_returns` | the same trees | the comment at `codegen.c:55` is refuted (below) |
| `compiler` | 827 programs, 41,000 states; words of 4 bits, longs of 6, 5 stack slots, 6 rounds of loops | code generator and QBE together implement `Language` (refinement) and programs that end do end |
| `parser` | all expressions of up to 4 tokens, and 8 programs with every construct and all texts one token away from them: 14,000 texts, 216,000 states | types; the tree is the one of the grammar and the grammar has no other; refusals are right; an unclosed parenthesis or block is reported at the innermost one; a scanner error is reported first; `parse` ends |
| `scanner` | all sources of up to 5 characters, one of each class, the keywords cut short and continued: 9,400 sources, 91,000 states | the tokens cover the source, each as long as can be and of the right kind; the exit code; `main` ends |
| `rc` | 2 threads, 3 objects, 4 references: 52,000 states | counts are the numbers of references, no use after free, no double free, no leak |
| `driver` | 5 programs with every construct and all texts one token away, under 7 command lines: 11,700 starts, 273,000 states; widths as in `compiler` | the three stages agree on which sources are valid, and a stage that fails prints no tree and no code; the tree that `parse` builds is what `codegen` assumes; end to end, a source does what `Grammar` and `Language` say |
| `rc_initial_count` | the same as `rc` | the comment at `crc.h:200` is refuted (below) |
| `tree_heap` | trees with every kind of node and every way to nest them, 2,000 states; each printed tree is compared with 398 others | constructors, `ast_dump` and `destroy_node` implement `Rc`, so nothing leaks or is freed twice (`ImplementsRc`); no two trees are printed alike; no null pointer is reached |
| `names` | 3 buffers of 10 bytes, 2 of them used; calls 3 deep with 3 names: 93,000 states | a line has the names that were meant, or ends in dots; the names allocated are those of the active calls; the ring implements `Recent` |
| `scoping` | 2 variables, 2 objects, every list of up to 2 arguments, one of nine and one of ten, scopes 2 deep: 78,000 states | the arguments of a scope live as long as it runs; only a break or a return leaks |
| `test_py` | 2 files, one of which must not compile; 2 stages, at one of which it is not executed, asked for together or alone; files of up to 3 entries, cut anywhere: 1,504,000 states | a test lists what has changed and exits with 0 when it has come to its end; an update settles its files at its stages; `--from-file` writes the entries in order and refuses just the files with a stdout alone |

*Why the bounds are enough.* A function of the code generator looks at its own
node and at what its callee returned, and two nested compound statements with
two statements in a row show each pair of caller and callee; labels and
temporaries clash, if ever, between two statements that are nested or in
sequence. In `compiler`, widths of 4 and 6 bits keep the one thing that matters
of 32 and 64, that a value can leave the narrow range and not the wide one, or
both; a 5-slot stack is overflowed by a loop of 6 rounds, so `overflow`, `trap`,
`undefined`, `fault` and `returned` all occur (the set of programs was chosen
for each to be reached on both sides of its boundary). `Fuel` bounds how far
`Language` evaluates a loop: a program that uses more, or that leaves the range
of a word where a word is stored, tested or returned, has an *open* outcome: the
compiler may then do anything but refuse it. The parser decides with two tokens,
so four tokens of expression show every decision with its context, and one edit
to a program of each construct shows each place where a token may be missing or
wrong. The scanner decides with one character and remembers a position and a
flag. In `Rc`, three objects make a chain of depth two or a child two nodes share,
and the fourth reference lets one thread use what the other gives up. A
constructor and `destroy_node` look at one node, so in `tree_heap` each kind
occurs as the child of each. In `names` a line with two names comes near the size of
a buffer and one with three is longer, and three calls deep a name outlives more
texts than the ring keeps. Two objects and two scopes let one scope's last reference
go while another still needs it. In `test_py`, what a command does with one file
and one stage may depend on `error_on` of the file or stage before, hence two of
each; an entry depends on the one before.

*Deadlock* is not checked: in each model the program ends, or (in `Rc`,
`Scoping` and `Names`) the clients run out of objects, jumps or names.

*Fairness.* `Codegen`, `Parser`, `Scanner`, `Compiler`, `TreeHeap` and `Driver` have weak fairness of
`Next`: a single thread that is in a function goes on until the function
returns. `Rc` has weak fairness only of the destruction a thread is in the middle of
(`Destroy(t)`); what clients do next is up to them and nothing is assumed about
it. `Names`, `Scoping` and `TestPy` state safety only: their callers, and the
user of the harness, may stop at any point.

### Disagreements with comments

- `codegen.c:55` says that `codegen_stmt` "returns whether this returns or not".
  For an `if` whose two branches both return it answers false, and the block goes on
  generating statements that cannot be reached. The text is still correct (that
  is `JumpEndsBlock`), because the `.endif` label comes first.
- `crc.h:200` says that "Count is inited to 0". It is 1: the pointer that
  `crc_new` returns is itself a reference, which `CountIsReferences` needs.

Not refuted by a run, but visible in the models:

- `crc.h:171` says that `scoping` "supports up to 10 variables"; the macros count to nine
  (`ForeachCount`), and an argument list of ten is not defined at all. A `break`
  in a scope, like a `return`, skips the dels; `LeaksByJumpsOnly` says that
  nothing else leaks.
- A test of the harness that lists files still exits with 0 (`test.py:471`,
  `EndStage`, and the exit code in `ListsWhatChanged`): only a torn snapshot or a failing unit test
  makes the exit code 1.
- The help of `--from-file` allows an entry with a stdout and no stderr;
  `test.py:373` writes its snapshot, then reads its `;` as the stderr and refuses
  the file (`WritesEntries` says that these are just the files refused). The
  quotes of the texts are kept (`test.py:366`), those of the path are not.
- `-ua new` keeps a snapshot that a killed update has left torn, and every later
  test stops there (`UpdatesSettle`, `TestTorn`).

## What is proved

For every value of the constants (any set of trees, threads, sources, …):

| theorem | says |
|---|---|
| `CodegenProofs!TypeCorrect`, `JumpsEndBlocks` | the types of the code generator, and `JumpEndsBlock` |
| `CodegenProofs!LabelsAreUnique`, `JumpsHaveTargets` | no label is added twice; every jump has its label when `codegen` returns |
| `CodegenProofs!TempsAreAssignedOnce`, `TempsAreBlockLocal` | a temporary is computed by one line, and by an earlier one of the block in which it is used |
| `CodegenProofs!RefusesAddresses` | `codegen` exits with an error on the trees that `Refusal` says, and on no others |
| `LibraryProofs!RingKeepsRecent` | the ring of buffers implements `Recent`, for any number of buffers of any size |
| `LibraryProofs!LinesHaveTheirNames`, `CutLinesEndInDots`, `NamesAreNotLost` | the three invariants of `Names`: for any depth of calls and any ring, lines have the names that were meant or end in dots, and the names allocated are the locals |
| `LibraryProofs!TypeCorrect`, `CountsReferences`, `NoUseAfterFree`, `NoDoubleFree` | the types of the library, and the three safety invariants of `Rc` |
| `LibraryProofs!ScopesKeepArguments`, `OnlyJumpsLeak` | for any depth of scopes and any lists of arguments: no argument is freed in its scope, and what leaks was jumped over |
| `TreeHeapProofs!HeapKeepsRules` | for any trees: constructors and `destroy_node` are clients of `Rc`, step by step (`ImplementsRc` without its fairness) |
| `TreeHeapProofs!TreeIsFreed`, `NullIsNotDeleted` | for any trees: when `main` returns no node is live; no null pointer is deleted |
| `TreeHeapProofs!TreesToldApart` | for any trees: no two of them are printed alike (`TellsTreesApart`) |
| `ParserProofs!InvalidIsReportedFirst` | an invalid token is reported before the parser looks past the token before it |
| `ParserProofs!TreesAreWellFormed` | whatever the text, the tree `parse` returns is one the code generator may be given |
| `ParserProofs!TypesAreRight`, `UnclosedPointsAtInnermost` | the types of the parser; an unclosed bracket that is reported is the innermost one that is open |
| `ParserProofs!TreesAreDerived` | for texts of any length and depth: the tree `parse` returns is the one program the grammar gives the text |
| `ParserProofs!RefusedIsUngrammatical` | for every text: what `parse` refuses has no program in the grammar |
| `DriverProofs!StagesDoAgree` | for every source and command line: the stages agree with each other, the grammar and `Refusal` about the exit code, and a stage that fails prints only tokens |
| `DriverProofs!GeneratorIsFed` | for every source: what `parse` hands to `codegen` is a tree the theorems about `codegen` are about |
| `ScannerProofs!TypeCorrect`, `ExitCode`, `TokensTileSource` | `next_token` stays within the source; the exit code tells the errors; the tokens cover the source |
| `HarnessProofs!TestsListWhatChanged`, `UpdatesLeaveNothing` | for any files, stages and results of the compiler: what a test lists, and what an update leaves |
| `HarnessProofs!EntriesAreWritten` | for files of any length, cut anywhere: what `--from-file` writes and refuses |

*Code generator.* The assumptions are that nodes are well formed and roots
are statements (`NodeAssumption`, `ProgramsAssumption`). `JumpEndsBlock` is not inductive: that a
line may be added depends on whether the last one is a jump, which depends on
where the functions on the stack are and on `terminated`. The inductive
invariant therefore says for each frame which program points its kind has and
which node it called, and that the last line is a jump exactly when the function
about to go on has just been told `terminated`. `Inductive` is proved action by
action; `SeqLemmas` holds what is needed of `\o`, `Append` and `Front`, and of recursive functions.

*Labels.* The same assumptions, and `Inductive` for the types. A function that
jumps forward owes a label. The inductive invariant `LInv` says of each frame
which labels it has drawn and still owes (`Pending`, by its kind and program
point): they have not been added, no two frames owe the same, and every jump goes to
a label of the text, to one that some frame owes, or to `.ret`, which
`CodegenEnd` adds. Jumps back need that the `check` label of an active loop has
been added (`ChecksPlaced`). `LabelStep` states once what the lines of a step must
be for this to hold again, and there is one lemma per action that gives its lines.
When the stack is empty nobody owes anything.

*Temporaries.* The same assumptions, and `Inductive`. A function computes the temporary
it was given as `var_name` in its last line, so `TInv` says that each frame owes its
temporary: it has been drawn, no line computes it yet and no frame below owes the
same (`OwedFree`). What a frame will use (`Uses`, by its kind and program point) is
ready, that is computed after the last label, or it is what the frame above
owes (`UsesReady`). Labels would end the block, but only statements add them, and below a
statement every frame is itself a statement, which uses nothing at that point
(`StmtsBelow`). `AddLines` states once what the lines of a step must be for all
of it to hold again.

*Refused trees.* The same assumptions, and `Inductive`. First, `Returns` and `Refused`,
which are defined by recursion on a set that nothing says to be without cycles, do satisfy their
equations (`ReturnsAre`, `RefusedIs`): the least set that is closed under the rules is a
solution (`Solution`). What decides whether a statement is looked at is what
`codegen_stmt` has told the block or the loop around it about a return, so `RInv` says for each
frame what it has learnt (`Settled`): the parts it has done with (`Passed`) are not refused, and
in a block none of them returns; the result of the callee that has just returned is the value of
`Returns` (`Over`); and if the frame's own node is refused then the tree is, which is
what an exit in the middle needs.

*Formatting.* Assumptions: at least one buffer is used, no more than are
declared, and a buffer has room for the dots. The invariant: the results that
callers may hold are in distinct buffers, and the buffer written next is that of
the oldest.

*Names.* Assumptions: identifiers and literal names are texts; names may be as many and
calls as deep as one likes (`MaxNames` is any number), but a name fits a buffer
(`NamesFit`; `next_reg` has at most 20 digits and a buffer 2048 bytes). `Zu`, which writes a
number, is a recursive function: that it has a value everywhere (`ZuWrites`) and writes
digits (`ZuDigits`) is shown by least counterexamples, and `MCNames` compares it with the
numbers up to 1001. The invariant: the strings on the heap are distinct from call to call and
from local to local (`StringsApart`), a pointer that a call was given comes
from a local of a call below it (`VarsFromBelow`), a string is live exactly
while a local holds it (`StringsLive`), and each pointer still leads to the name
that was meant (`NamesThere`). So no frame reads a name in the ring, and a
`Leave` frees nothing that another frame still reads.

*Reference counts.* Assumptions: `Ref` is finite, threads, objects and `Nil` are
distinct. The inductive invariant adds two parts: a reference that is in use
has a holder and one that is not has none (`HeldIfUsed`); an object some thread
is destroying is live and has count 0 (`DyingLive`), and is destroyed by one thread once
(`OneDestroys`). Together they give `FreedOnce`: an object that was freed is not live, so it
is never destroyed again, neither at once nor later. From the count being the number of references and from
0 on the way down it follows that nobody refers to a dying object, which is what
a second thread would need to destroy it again.

*Scopes.* Assumption (`ArgListsAssumption`): the arguments of a scope are variables.
The count of an object is a number that `scoping` changes by how often the object is an
argument, so the invariant (`ScopeInv`) counts too: the references to an object are
the arguments of active scopes that point to it (`InUse`) and its other owner's
(`References`). They are never more than the count; they are fewer just if a break or a
return has jumped over one of the object's dels; and an object is freed just if its
count is 0. Entering a scope and leaving it change both sides by the same number
(`Pushed`, `Popped`), a jump the references alone (`JumpKeeps`).

*Trees.* Assumptions: a node is well formed (`NodeAssumption`, what `TreesAreWellFormed`
gives), a path is a sequence of steps (`PathAssumption`), and `Place` has each tree at
the root and with a node its parts, one step further down (`PlaceAssumption`). Of a finite
number of trees this leaves finitely many paths, which `RefAssumption` of `Rc` asks for; the
three theorems do not need it. `ImplementsRc` is not inductive: that the reference a constructor
stores is the parser's to give, or that a node has no references left when it is freed,
depends on where the functions on the two stacks are. `HeapInv` says of the parser's
that each is inside the one below (`Nested`) and has the parts before the one it is at,
live and stored where they belong (`PartsThere`); of the calls of `destroy_node` that the fields
before the one being deleted are gone and those behind it are untouched (`Calls`). Every live
node but the root is part of a live one or about to be (`Owned`), and one that is not being
destroyed has count 1 and all of its parts (`Whole`). That `Deleted` names the fields of
`Built`, each once and in any order, is the lemma `FieldsAgree`. There are two lemmas for the
constructor, that it keeps `HeapInv` and that it is `New` of `Rc`, and one for each other action that changes the heap. `TreeIsFreed` follows
since a live node has a live parent and the root is freed last: one with the shortest path
would be the root (`LiveRoot`).

*Printed trees.* Assumption (`PrintableAssumption`): the nodes that are compared, those trees
among them, are well formed, have their parts among them, and a node is what its constructor makes
of its fields. `Spells` is a recursion that goes on with a longer list of pieces, so first
it must be seen to have a solution (`SpellsIs`, by `Solution`). That a text is read in one way only is
shown from its end towards its beginning, again by a least counterexample
(`SameEverywhere`): two nodes that are read at the same place are the same and what comes behind
them is read at the same place (`SameNode`), if that is so of all places further on
(`SameBehind`). Nodes of different kinds begin with different texts (`OpenersApart`), and
there is one lemma for each kind (`SameBinary`, `SameIf`, ...). Two of them need more: the
list of a block ends where the brace is, with which no statement begins (`SameList`); and
whether an if has an else is seen only behind its block, which takes that no else stands behind an if
for another reason (`Behind`). It does not, since an if is followed by a statement
or a brace, or by nothing: a block closes before an else of an outer if. The invariant (`Written`)
says that wherever the text goes on with the pieces still to be printed, it has the tree
at its beginning; when none are left, the tree is read in what was printed.

*Harness.* Assumptions: the stages are distinct and there is one; results of the
compiler are records of a code and two texts. That a report is true when a test
ends is not inductive: `HInv` adds that no snapshot changes while a test runs, so
what has been listed stays true, that there is one report for each chosen stage it is
through with (both `ReportsTrue`), and that `error_on` is right about the files the stage
has come to (`ErrorsSoFar`). For updates it says which
stages and files are settled so far (`UpdatedSoFar`), and that the one open snapshot
belongs to a file that is still to be done (`WritingNow`), which is why a kill
leaves none of the settled ones torn.

*`--from-file`.* Assumption (`EntryAssumption`): an entry has at most two texts,
and no stage or code is a `;`. `FInv` ties the loop to the lexer: which token of
which entry comes next says what the loop knows of the entry (`Known`) and that
each earlier entry is written. An entry with one text is where the two part: its `;`
is taken for the stderr, and the loop then asks for a `;` where the next entry
begins, finds none and refuses the file.

*Scanner.* Assumptions: a source is a sequence of characters without a NUL, the classes are
disjoint and NUL is in none. The inductive invariant ties `invalid_number` to the
characters since `start`, and `exit_code` to the tokens printed. For
`TokensOfSource` it says (`Tiled`) that up to the first character that is neither
skipped nor printed (`Seen`) the tokens lie one after the other and leave out spaces
alone, and that the next one may begin there (`Begins(Seen)`): a number or a word
has been read to its end, so its neighbour is none of its characters.

*Parser.* Assumption (`TextsAssumption`): a text is a sequence of tokens without
an end of file, and the text of a number is a number. For
`InvalidReportedFirst` the invariant adds that, while `parse` runs, no token up to
`ntok` is invalid; every step stays, advances by one or exits (`Moves`).
`TreesAreWellFormed` is the link to the code generator: its theorems assume
`WellFormed` of a set of trees that is closed under taking subtrees, and this one
says that such a set exists around the tree `parse` returns. The invariant
(`Well`) carries the set, which a constructor makes larger by the node it
builds, and says of each frame which nodes it keeps at each program point
(`KidsOK`), that the function above it answers what it waits for, a
statement, a block or an expression (`Answers`), and that the top frame has the
node it goes on with (`RetOK`). There is one lemma per group of actions that
call, leave or go on. That only variables are assigned to holds since `Assign`
exits otherwise, and that an else or a missing part of a `for` is a node since
those steps append to what the frame kept before.

For `TypesAreRight` a frame keeps nodes of that set alone and starts at or before the
token parse has come to (`FrameInv`); that a statement was called at its keyword
is `HeadInv`. For `UnclosedPointsAtInnermost` the invariant ties the stack to
the text (`BracketsOK`): the brackets before `at` that no later one closes (`Unmatched`)
are exactly where the frames start that are between two brackets (`Places`), they rise
along the stack (`Rising`), and the brackets up to `at` are balanced but for these
(`Balanced`). Each step passes no bracket, one that opens or one that closes
(`Passes`, `OpensOne`, `ClosesOne`); `PlainText`, `OpenText` and `CloseText` say what
each does to the text's side.

*The parser and the grammar.* The same assumption. First, the function `Trees(T)`
that `Grammar` defines by recursion does follow the rules (`TreesFollowRules`): a
rule for a stretch looks only at shorter ones, or at a lower level on the same one
(`Size`), and each of the `Looks` lemmas says so of one rule. The library's induction
cannot be used, so here and below induction is the search for a least counterexample:
a set of numbers that is not empty has a least element (`LeastNat`). The lemmas `...Is`
then give each rule as it is used.

*Sound.* `DerivationInv` says of the frames on the stack that there are tokens `b` where
they began (`Placed`), that each has read from its `b` on what the rules say of
its kind and program point (`Awaits`), and that the top one, with the last result,
can go on (`Ready`). There is one lemma per action (`...Sound`), and four that
say what going on, staying, calling and leaving do to all frames at once (`GoOn`,
`StayOn`, `CallOn`, `LeaveOn`). When the last frame leaves, what it returns is a
tree of the tokens up to `at`, and `parse` then asks for the end of the file.

*Complete.* Soundness would hold of a parser that refuses everything. `CompletionInv`
says of each program `n` of the text that the parser is on its way to it: frame by frame
there is a tree it is to return and a token at which that ends (`Due`), such that
the frame below makes what it owes of it (`Wants`), and what follows the tree could
not continue it (`Follows`). The last part is where the grammar, which has no
look-ahead, meets the parser, which has nothing else: a sum is followed by no
operator of a sum, an if by no else, and a star after an operand is a postfix
operator just if no operand may start behind it. A loop of the parser owes a chain of
turns (`Leads`), which a left-associative rule gives read from its other end
(`BeginsWithOperand`). A text that has a program has no invalid token (`Clean`). Again one
lemma per action (`...Tracks`), among them that no exit is taken. As the parser is on its way to
every program of the text and returns one tree, there is one program; so the grammar is
unambiguous on what `parse` accepts, which nothing in the rules says.

*The driver.* Assumptions: sources are texts (`SourcesAssumption`, first part), nodes are well
formed, and the trees that the grammar gives the sources are in `Node` (second part; TLC
evaluates both in `driver`, where `Node` is just these trees with their subtrees). `DriverProofs`
has the modules of proofs about the parser and the code generator once more, for the variables
of `main` (`PD`, `CD`). That the actions of `Driver` are theirs is seen by expanding every
definition under both names (`SameParser`, `SameGenerator`), which is all that the long lists there do.
`DInv` is the parser's invariant (`PInv`), the code generator's once `codegen` was called
(`IInv`, `RInv`), and what is known where `main` is (`Where`): nothing is printed before a
stage is over, `codegen` is called in its initial state, and the exit code of `-e=lex` tells the tokens
it has printed. `CodegenStep` is where the parts meet: the tree that
`parse` returned is the one program of the text, hence one of `Node`, hence one that `CD` is
about. There is one lemma per action.

Only model-checked: liveness (`Terminates`, `Ends`, `Exits`, `NoLeak`,
`Returns`), since the prover does not do liveness under fairness; the refinement
`ImplementsLanguage` and what follows from it end to end (`MeansWhatItSays`), since
`Language` evaluates with `RECURSIVE` operators, in whose presence the prover has no SMT
backend, and what it computes for every program would need an induction over trees and
over rounds of loops; and the fairness that `ImplementsRc` claims of `Rc`, whose safety part is
`HeapKeepsRules`. Every other safety property of a passing run is a theorem above.

## What is not modelled, and what is left

Not modelled: `token_to_str` and the wording of messages; in `test.py` the
temporary files of `run_aleron`, the unit runner (only that it may fail) and that a test
that never ends is waited for; the vendored libraries (`stb_ds.h`, `sv.h`,
`utest.h`); the unit tests and the Makefile; out-of-memory, on which the program
asserts, and the depth of the C stack.

What would come next: `ImplementsLanguage` for programs without loops, for which `Language` would
have to be stated without `RECURSIVE` operators, as `Grammar` and `Refusal` are.
