# A TLA+ verification of the ThLang compiler

ThLang (Tianhe language) is a small compiled language with Chinese keywords. Its
compiler is a RE/flex lexer, a bison parser, an AST whose nodes generate LLVM IR,
a library with a C interface, and a command-line package tool. This directory
holds TLA+ models of the parts of it that have state worth arguing about, the TLC
configurations that check them, and proofs checked by TLAPS.

Paths below are relative to the repository; `codegen.cpp` is
`src/codegen.cpp`, `codegen.h` is `include/thlang/codegen.h`, and so on.

## 1. Inventory

| Part | State it keeps | Operations | Talks to |
|---|---|---|---|
| Lexer `lex.l`, `lex.yy.cpp` | one global scanner (`YY_SCANNER`), the FILE it was given last, where it stands in it | `yylex`, `<<EOF>>` | parser calls it; `yyin` is set by the driver |
| Parser `parser.y`, `parser.cpp` | the LALR stacks, the global `program`, the global `typesystem` | one action per rule; `yyerror` exits the process | builds AST nodes, looks types up |
| AST `node.h`, `unparse.cpp` | a tree; names and strings strip their quotes in place | `codegen()` | generator |
| Type system `TypeSystem.cpp` | the table of types, cached constants | `get_type`, `add_type`, `get_llvm_type` | parser, generator |
| IR generator `codegen.cpp` | the IRBuilder's insert point, the basic blocks, the module | a `codegen()` for each node | scope stack, LLVM |
| Scope stack `codegen.h` (`CodeGenContext`) | a vector of `CodeGenBlock`s, each a map from a name to a slot and type | `pushBlock`, `popBlock`, `setvalue`, `setglobalvalue`, `getvalue` | generator |
| Emission `codegen.h` (`objgen`, `asmgen`), `libthlang.cpp` (`compile_fir_to_obj`) | none | parse IR text, verify, write an object | LLVM |
| Build driver `libthlang.cpp` (`compile_from_files_to_exe`, `compile_fir_to_exe`) | the lists of IR texts and objects; temporary files in a shared directory | one loop over the inputs, one over the IR texts, link, clean up | everything above, `llc`, lld |
| C interface `libthlang.cpp` (`extern "C"`) | what outlives a call: scanner, FILE objects, lld's globals | `compile_code_to_ir`, `compile_code_to_ir_from_file`, `compile_code_fir_to_asm/obj`, `compile_code_fobj_to_exe`, `compile_code_fir_to_exe`, `link_code` | ctypes clients (`bin/`) |
| Package tool `acli.cpp` | files of a package; main's strings | `init`, `info`, `build` | build driver, CLI11 for the command line, RapidJSON for the project file, the terminal |
| CLI11 `include/CLI`, as main uses it | the words left, the calls of `_parse` under way, each option's results, the words nobody wanted | `App::parse` | main |
| RapidJSON `include/rapidjson`, as the package tool uses it | the position in the text, the document's stack of values | `Document::Parse`, `Writer` | `ThInit`, `ThInfo` |
| Semantic analysis `sema.h`, `sema.cpp` | a `ScopeStack` nobody uses | commented out | nobody |
| Test driver `main.cpp`, `bin/`, build files, `third_party/`, the rest of `include/` | | | |

What makes them correct, and what is hard about each:

* **IR generator.** It is a recursive visitor over shared mutable state: the insert
  point. Every construct creates blocks, lets something else move the insert point
  arbitrarily, and goes on with blocks it remembered. Correct means: constructs do
  not write into each other's blocks; every reachable block ends in exactly one
  terminator; branches stay inside a function and lead to blocks that are in one.
  The return value `nullptr` means "failed" to some callers and "no value" to some
  callees, and an empty `NBlock` returns an uninitialised pointer.
* **Scope stack.** A name resolves to what the program text says. Hard: a stack
  whose pushes and pops are done by different constructs.
* **Build driver.** Each input reaches the linker once, in its place, as the code
  of that input; builds in one directory do not disturb each other; no descriptor
  and no file is left behind. Hard: every call of the operating system can fail in
  every round of the loop, and other processes do the same at the same time.
* **C interface.** A call behaves as it would in a fresh process. Hard: the scanner
  identifies its input by the *address* of a FILE, and addresses are reused; an
  exception leaves through the parser; `yyerror` ends the client's process.
* **Lexer.** Longest match, first rule among equals. Hard: a sign in front of a digit
  belongs to the number, `!=` has the token of `<`, a string in single quotes may
  contain single quotes.
* **Parser.** Tables that were generated once and are kept in the repository. Correct
  means that they derive what `parser.y` derives and that nothing the programmer wrote
  is lost. Hard: the expression grammar is ambiguous and its operators have no
  precedence where they go through the rule `op`; statements follow each other without
  a separator, so the parser may end one before or after it has seen what follows; an
  unknown type gives an empty type that no test recognises.
* **Package tool.** `init` writes a package in three steps, each of which can fail, and
  may be killed between them; nothing locks the directory. What the user typed is to
  arrive in the project file, and `info` is to show it again, whatever it looks like.
  Hard: a word may be a command, an option, a value or a file depending on all words
  before it; the escapes of the writer and of the reader are two tables in two files;
  a project file may have been edited or cut short.

Nothing in the repository runs threads. Concurrency is between *processes* that use
the same temporary directory, which `-j` builds or two shells bring about.

## 2. Modules

| Module | Models | Proofs |
|---|---|---|
| `CodeGen` | `codegen.cpp`: block structure, insert point, early returns, scope depth | `CodeGenProofs`, `CodeGenBranches` |
| `Symbols` | `codegen.h`, `codegen.cpp`: what the names on the scope stack stand for | `SymbolsProofs` |
| `Build` | `libthlang.cpp`: the two build operations, in several processes | `BuildProofs` |
| `BuildContract` | what a build promises its caller (abstract) | |
| `MCBuild` | what the processes of `Build` are asked, for TLC | |
| `Session` | the C interface: what one call leaves to the next | `SessionProofs` |
| `ParseTables`, `Grammar` | `parser.cpp`'s tables; `parser.y`'s productions with their actions | |
| `Parser` | `yyparse`: the automaton, its stacks, the values | `ParserProofs` |
| `ParserItems` | the LR items of every state, computed again from tables and grammar; what the actions leave out | |
| `Derivation` | what any parser of a grammar may do (abstract) | |
| `Phrases` | what a tree spells, in words (a reference definition) | |
| `Spelling` | the values on the stack of `Parser` against the words of the input | |
| `Reading` | how an expression groups, without a parser (a reference definition) | |
| `Lexer`, `Values` | the rules of `lex.l`; what expressions compute (`codegen.cpp`) | |
| `FrontEnd` | scanner, parser and generator of expressions put together | |
| `Package` | `ThInit`, `ThInfo`: the files of a package, several processes | `PackageProofs` |
| `CommandLine` | `App::parse` of CLI11 on what `main` declares | |
| `JsonReader` | RapidJSON's reader and the document's stack | |
| `Tool` | `main` of `acli.cpp`: `CommandLine`, the questions, the writer, `JsonReader` | `ToolProofs` |
| `MCFrontEnd`, `MCPackage`, `MCTool` | the instances for TLC, and the properties that need a reference definition | |

### CodeGen

The C++ recursion is the sequence `frames`: one record for each `NBlock` being
visited, saying for whom (`node`), in which function the statement began (`fn`),
which blocks it created (`base`, consecutive numbers) and the result of the last
statement (`val`; `"undef"` is the uninitialised `last` of `NBlock::codegen`, which
`BlockResult` turns into either pointer). The AST is not an input: the statement to
visit is chosen when it is visited, so the behaviours are exactly the runs over all
ASTs that fit the bounds. A `codegen()` that visits a child block becomes two
actions, `BeginX` up to the visit and `EndX` after it (for an if: `BeginIf`,
`EndThen`, `EndElse`); nothing else can happen between them but the child, so the
split does not add interleavings. Early returns are actions of their own
(`AbandonIf`, `WhileConditionFails`, `ForConditionFails`). Null pointers that are
followed are one action, `NullDereference`, enabled whenever the program runs: it
over-approximates when that happens, not what comes of it.

Of a basic block the model keeps the function, what it ends in, whether a `ret` was
appended, whether anything was appended behind a terminator (`torn`) and which
blocks its branches name. Expressions create no block here; they are reduced to
"appends an instruction or not" and "returned nullptr or not".

`Loops` says whether the AST has `for` and `while`: the grammar has rules for both,
the lexer has no keyword for either, so programs in source form never have loops,
whereas the AST and the generator support them.

### Symbols

The same visitor seen from the names. `blocks` is `CodeGenContext::blocks`, each
`CodeGenBlock` reduced to its `locals`; `nest` is the constructs of the program text
that are open, each with the names its text declares, which the code does not have.
The two differ by design: a definition pushes a scope and never pops it, loops push
one and pop whatever is on top, a function's name is written to `blocks[0]` behind
its body, and an `if` opens no scope. The properties compare the two. A variable is
the number of its declaration; parameters of one definition share one, and an
initialised variable of a function type stands for what its initialiser stands for.
The entry and `main` are the names of `Unlisted`, which are never made global.

`nested` records that a definition, extern or not, stood inside another construct.
The grammar allows it, and then names do not follow the text: an inner definition's
scope stays above that of the function around it, and its name replaces a local of
the first function, whose scope is `blocks[0]`. `OwnNames` and `LoopNamesEnd` are
therefore stated for programs without nesting; `GlobalsFound` is for all of them.

Calls look a function up by name in the module first and the stack is asked only for
the rest; that order matters to function pointers alone. A parameter of a function
type can never be called (`codegen.cpp:230`, the stack has its alloca), which has no
state and is left out.

### Build, BuildContract

One process performs one call, of either operation (`op`), and its program counter
`pc` stands between two calls of the outside world. `files` is
`compile_from_files_to_exe`, with the loop over inputs of five kinds; `fir` is
`compile_fir_to_exe`, which starts at the loop over IR texts. Both loops over IR
texts (lines 227-267 and 352-381) are the same sequence of steps with different
error paths, and are one set of actions that asks `Op(p)` where they differ.
The source of an input is one of two, with IR that LLVM takes or refuses, and so is an IR
text (`"badsource"`, `"badtext"`). `scratch` is the `tmpfile()` of `compile_toir`: opened
before `yyparse`, closed behind it (`CompileSource`), and left open when the parser throws
(`ParserThrows`) or exits. The directory of temporary files is asked for once in `fir`,
before the loop (`FindTempDirectory`), and in every round in `files`; when there is none,
`compile_code_fir_to_exe` catches the exception and nothing on the way of `files` does.
Creation (`O_EXCL`), reopening by name, `fdopen`, emission, `fclose`, removal and
the linker's reading are separate steps, in which other processes may come in
between. Code is abstracted to its origin `<<process, input>>`. An object nothing
was written to is an empty file, which lld accepts (an empty linker script), so it
is linked silently.

`BuildContract` is the promise without temporary files: a call ends; it refuses,
dies, or links exactly once; and the linker is then given one argument for each
input, ready-made objects first, each with that input's code. Only an input whose IR text
LLVM refuses (`Refused`) comes as an empty object: `compile_fir_to_obj` prints that and
does not report it. `Build!KeepsContract` is the refinement, with `phase` computed from
`pc`, for the processes of `Promised`, which are asked for no ll file. Ll files do not
come under the promise because the code does not keep it for them: the name of the file is
compiled in the place of its text (`AddIrFile`, `Parses`). What the comments say of them is
`IrFilesCompiled`, and the run `Build_ll` shows it violated.

### Session

One process with a client that makes calls one after another and opens files of its
own. FILE objects are addresses: `tmpfile`/`fopen` return any free one. `Hears` is
the comparison in `yylex` (`lex.yy.cpp:127`): a different address resets the
scanner, the same one lets it go on where it stands. A program is its behaviour when
read from the start (`valid`, `syntax`, `throws`, `crash`); "stale" text, the
remainder of an earlier program, may behave in any way. lld's `canRunAgain`, which
`link` ignores, is the variable `lld`.

### ParseTables, Grammar, Parser, Derivation, Phrases, Spelling, Reading

`ParseTables` is the data of `parser.cpp` and the four decisions `yyparse` takes with
it: the entry of a state and a token, the default reduction, whether a state needs a
token at all, and the state behind a reduction. `Grammar` is `parser.y`: for every
production its symbols and what its action makes of their values. `Parser` is the
loop: `Lex` (the call of `yylex`), `Shift`, `Reduce`, `SyntaxError`; `Enter` is the
common entry to a state with the growth of the stacks. `yyerror` ends the process, so
that bison's error recovery (`yyerrlab1` and after) is never reached and is left out.

The tables were generated once; nothing rebuilds them when `parser.y` changes. That
they still belong together is the refinement `Parser!Derives`: seen as the symbols
on its stack (`Form`) and the tokens it has consumed, every step of the automaton reads
the next token or puts the left side of a production of `parser.y` in the place of its
right side, and it accepts when nothing but the goal symbol and the end of the input are
left. `Derivation` is any parser of any grammar.

`ParserItems` is what bison knew and did not write down: for each state the items, that
is the productions that may be under way in it and how much of each has been seen. They
are the least set that tables and grammar give, computed by `ItemsWithin`, 1214 items.
`TablesFollowItems` says that the tables do what the items say: a state that shifts or
goes on by a symbol has an item that expects it, and one that reduces by a rule has seen
all of its right side. It is a statement about finite data, which TLC evaluates in the
run `FrontEnd`; the proofs about `Parser` rest on it. A table entry, a production or a
number of rounds that is changed makes it fail. Two more assumptions are about the actions
of `parser.y`, and evaluated in the same run: `RulesLeaveNothingOut` says that what an
action makes of the values of a right side is read as that right side, but for punctuation
(a swapped `$1` and `$3`, a forgotten child or a wrong operator makes it fail), and
`SymbolsSpell` which symbols have a word of their own.

`Phrases` states without automaton what a tree spells. `Frame` says for each kind of node
in which order its children, its own text and fixed words (`if`, `else`, `=`, ...) stand;
brackets, commas and semicolons are in no tree. `Spelt[depth]` is the function from the
trees of at most that depth to their words, each level defined from the one below: a
recursive function of numbers, which proofs can unfold, where one of trees could not be.
`Spelling` lays this beside the stack of `Parser`: `SpellsInput`. A type nobody registered
has no name in its tree (`"unregistered"` here), which `SameText` allows for.

`Reading` states without automaton how an expression groups: `+ -` loosest and from the
left, then `* / %`, then signs; an operator of the rule
`op` (comparisons, shifts, `&&`, `||`, `^`, `=`) has no precedence of its own, and the
way bison resolved the conflicts makes it take the *operand directly in front of it*
and *everything behind it*: `1 + x == y + 1` is `1 + (x == (y + 1))`.

`get_type` gives a name nobody registered an empty type of its own, and the action of
`type_id` compares with the type of "void", another one: the message for unknown types
is never given. `Unknown` and `reported` model the comparison as it is made; nothing is
claimed of it, for all there is to say is that it never holds.

### Lexer, Values, FrontEnd

`Lexer` has every rule of `lex.l` as a predicate on words, and longest match on top.
Keywords are Chinese in the repository; here they are words of letters, which is what
they are to the rules. There is no keyword for `while` and `for`, so no source program
has a loop. `Values` is what `UnOpAst` and `BinOpAst` compile to, as the value of the
instructions: residues modulo `2^BITS`, signs where the code asks for signed
predicates, undefined where LLVM says so. `FrontEnd` lets the parser call the scanner
token by token and generates the statements afterwards.

What it shows of the language, next to arithmetic: `a-1` without a blank is two
statements; `!=` compiles to `<`, against `parser.y` and the generator (`FrontEnd_neq`);
`<` alone compares without a sign, so `-1 < 1` is
false and `-1 <= 1` true; `&&` is known to the parser, but the generator waits for `&`,
and drops the expression; a minus apart from its number takes a whole comparison.

### Package

Processes that run `ThInit` and `ThInfo` in one directory. Opening a file for writing
empties it and is a step of its own, the text arrives in a later one, in full or, when
the disk is full, in part, which no line of the code notices; another process may open
or read between them, and any process may be killed anywhere. A text is a sequence of
pieces, each known by whose and which text it is from. `entry` is the entry point a
user names: the program, *the project file* (which `init` then overwrites with the
program), or a path that does not exist. `torn`, `last` and `alone` are history.

### CommandLine, JsonReader, Tool

`CommandLine` is `App::_parse` and everything it calls on the declarations of `main`:
`calls` is the C++ recursion, a step takes one word or returns. A word is a sequence
of pieces, single characters where the library looks at them. `JsonReader` is the
recursive descent of `reader.h` under default flags: `frames` is its recursion, `stack`
the document's, and a step takes one character (or one literal). `StackAccounts` relates
the two: it places every call under way on the document's stack, its value at the bottom
and behind it the members or elements read so far. `Tool` puts them together as `main` does: parse the line, ask for what `init` was not told, write the
project file and then the program, and in a later run read the project file with `info`.
The third file is named by the user: when the entry point is `ThlangProject.json` the
program replaces the project file, and when it is a path that ends so it may (`Write`,
`EntryPoint`, `LastPart`). The readme is of no concern to `info` and left to `Package`, as
are files that cannot be written. The two library modules were
compared with the libraries themselves, compiled from the sources here, on about 48000
command lines and 50000 texts, and agree on all of them but for what the next section
leaves out.

What came out of the modelling, each true of the code and none contradicted by a
document: `build x info` runs `info`, and build's files are dropped; `--init.url=x` is
accepted and nothing acts; a `-h` behind `--` is not a call for help; `--init.` ends in
an exception whose text says one should not see it; an answer with a NUL is cut there;
a project file without one of the members, or with a number for one, ends `info` in an
assertion.

## 3. Runs

Passing runs:

* **CodeGen_source** (`Loops = FALSE`, 7 blocks, 2 functions): in programs as the
  lexer admits them, every placed block ends in a terminator except the builder's
  own and those it was in when a definition took it away; every branch to a block
  without function is one that some `if` gave up. 7 blocks are an entry and two ifs,
  nested or in sequence or in two functions.
* **CodeGen_ast** (`Loops = TRUE`, 6 blocks, 2 functions): for every AST, nested
  functions included, constructs leave each other's pending blocks alone, the builder
  is in a placed block, instructions land behind a terminator only in blocks closed by
  a `ret`, branches stay inside functions if definitions are not nested, and the scope
  stack has a known depth. 6 blocks fit a for in a function, a while around an if, or
  two whiles with a definition between.
  Every property of the two runs is proved for all bounds (4).
* **Symbols** (3 functions, 2 variables, 3 levels, 3 names of which one is `main`): a
  name the function and the loops under way declare stands for its innermost
  declaration; variables of loops are gone with them; globals stay bound. Three
  functions are one that uses what two have left; three levels are a definition, a
  loop in it and a definition or loop in that. All four properties are proved for all
  bounds (4).
* **Build** (two processes, 3 names): one process is asked for either operation with up to
  two inputs of every kind but ll, the other for one input that takes a temporary file, of
  ll files too. Isolation of the builds; no descriptor of an object file kept or linked
  while open, and the text of a program open behind a return only where the parser has
  thrown on it (`DescriptorsClosed`); what is left in the directory; the contract
  (`KeepsPromise`), with its termination (`KeepsContract`); removal of what was linked.
  Two processes are enough for the steps of one to fall between any two steps of the
  other; two inputs are a success and a failing one behind it; as many names as files can
  be created, so that neither waits for the other. There is no symmetry, as the run is
  about liveness too. All but liveness is proved for all bounds (4).
* **Session** (5 calls, 3 addresses): what one call leaves to the next. A history that
  matters needs at most a call that throws, one that succeeds, one that fails to open
  and a last one; three addresses are one left open, one of the client's and one to
  reuse. Proved for all bounds (4).

* **FrontEnd** has two halves, told apart by `pos`. In the first (`pos = 0`) the tokens
  come from outside, 14 beginnings and then up to 4 of 12 tokens, with stacks of 4, at most
  13: the tables derive what the grammar derives (`Derives`, proved for all inputs (4)); the
  trees on the stack spell what was read, so that nothing is lost or doubled (`SpellsInput`,
  proved for all inputs (4)); expressions group as `Reading` says; a semicolon ends a
  statement; `yyparse` ends. The beginnings start each construct of the grammar, four
  tokens complete the shorter ones or leave them behind; 4 and 13 make the stacks grow
  twice and overflow. `Deepest` is 20, more than any tree of the run has: TLC would stop at
  a tree that `Spelt[20]` does not know.

  In the second (`pos > 0`) they come from the scanner, and integers have 3 bits: all
  sources of up to 3 of 7 characters, all
  scraps of up to 4 of 9, and sums, products and comparisons of two or three numbers
  with every placing of blanks and signs. Arithmetic is what it is in the integers, but for
  a sign that stands directly in front of a digit behind an operand, which makes two
  statements. `==`, `<=`, `>=` and `>` answer as integers do; `<` does for operands on one
  side of zero, since the code compares it without a sign and no line promises more; a
  minus apart from the left number takes the whole comparison, as `Grouping` says, and
  is left to it. 3 bits have a largest, a smallest and a -1,
  overflow in one operation, and shifts by the width. The run also evaluates the
  assumptions of `ParserItems` about the tables and the actions.
* **Package** (3 processes, texts of length 2 and 1, symmetry in two of them): files are
  whole or their last writers had a reason; the project file is first; inits one after
  another leave the files of one; `info` reports an error for a reason only. Three
  processes are two inits that mix and one that repairs or reads; lengths differ so that
  a short text can leave the tail of a longer one. Symmetry is sound among processes of
  the same length; no definition tells them apart.
* **Tool** (272 000 states): lines spelled from a meaning, in several orders and in every
  form of each option, whose values look like options, commands, lists or `--`, are
  understood (`Understood`); on all lines of up to 3 of 20 awkward words nothing is lost
  or taken twice (`ValuesKept`) and the parser comes to an end (`Ends`); answers with every
  character the writer treats specially come back (`RoundTrip`); five project files with
  every single slip, and all texts of up to 3 characters of 13, are accepted exactly when
  the grammar of JSON has them (`ReadsJson`), with the stack of the document in order at
  every step (`StackAccounts`). `RoundTrip` and `StackAccounts` are proved for all starts
  (4). Three words are a command, an option and what may be its value
  or the next command; longer lines are those spelled from a meaning.

  `Understood` names what is not as meant. `[[aa]]` arrives as `[aa]`, since `_add_result`
  takes doubled brackets for a quoted list (`Arrives`, by the same `Result` as the model's
  step; files in brackets come apart likewise). `--url=` with nothing behind it takes the
  next word (`Bare`). A build of a file called `init` or `info` never happens: that command
  acts, or the line is refused (`Commands`). And `RoundTrip` says what happens when the
  entry point names the project file: `info` ends with a parse error. All of these are
  among the values of the run.

Runs that find a disagreement between the code and a comment or a document:

* **CodeGen_if**: the early return of `IfStmtAst` (comment: generating the branch
  *failed*) is also taken when the branch ends in an inner if or a bare return, both of
  which yield `nullptr` by design. The blocks already branched to stay outside the
  function; the IR does not parse again.
* **Session_valid**: the second `compile_code_to_ir` of a process usually gets the same
  FILE address for its temporary file; the scanner believes itself at the end of it,
  reports a syntax error, and `yyerror` exits the client's process.
* **Build_ll** (one process, ll files and objects): `libthlang.cpp:317` puts the *name* of
  an ll file where the IR texts are, and line 377 compiles that name. The comments (316,
  352) speak of the files. LLVM refuses the name, an empty object is linked, and the build
  succeeds without the file.
* **FrontEnd_neq** (two numbers with `!=` between them): `lex.l:36` answers `TOKEN_NLT`, the
  token of `<`, though `parser.y:39` and `:111` have a token and an operator for `!=` and
  `codegen.cpp:167` an instruction. `3 != 1` is false.

Fairness: `Build` assumes weak fairness of each process's step, i.e. that the
operating system schedules a build and that file operations, `llc` and lld come back,
with any answer. No failure is assumed to stop happening. It is used for
`FirObjectsRemoved` and for the contract's termination. `Tool` assumes `WF_tvars(Next)`, and
`FrontEnd` weak fairness of the half whose tokens come from outside (`FromTokens`): each is
one sequential program on an input of bounded length, which runs on while it can; `Ends`
says it cannot for ever, for `yyparse` on tokens, whoever calls it. All other runs check
safety under `Init /\ [][Next]_vars`.

`CodeGen`, `Symbols`, `Build` and `Session` run with the deadlock check: `Finished` and
`AllOver` are the states the program may stop in, everywhere else something must be
possible. `FrontEnd`, `Package` and `Tool` disable it, because their programs
end: a parser with a result, a package whose processes are done. That `yyparse` and `Tool`
end where they should is `Ends`.

Bounds are constants in guards: `MaxBlocks` and `MaxFns` (`Room`, `nfn < MaxFns`),
`MaxCalls` (`Calling`), `MaxInputs` (the length of `inputs`), and the sets `Name`,
`Addr`, `Proc`; in `Symbols`, `MaxFns`, `MaxSlots` and `MaxNest`; in `Parser`, `MaxTokens`
(`Readable`), while `YYINITDEPTH` and `YYMAXDEPTH` are the code's own; in `Spelling`, `Deepest`; in `Values`, `BITS`;
in `FrontEnd` and `Tool`, the inputs (`Sources`, `Starts`); in `Build`, what is asked (`Requests`). The code has no such limits; the proofs hold for all their values.

## 4. Proofs

`CodeGenProofs` (`SafeInvHolds`, and from it `TypeCorrect`, `InsertPointSafe`,
`OwedSafe`, `TornSafe`), for every `MaxBlocks`, `MaxFns` and `Loops`, from
`ConstantsAssumption` only. The inductive invariant is

    SafeInv == TypeInv /\ OwedUntouched /\ TornInv

* `TypeInv` adds to `TypeOK` the shape of the call stack, `FramesOK`: only the first
  frame is the module's, every construct lies inside a function, its blocks exist, and
  blocks of an outer construct were created before those of an inner one. Without it
  `blk[Top.base + 4]` need not be a block. It also needs `depth >= LoopsUnderWay`, as
  `popBlock` would otherwise make the depth negative, and `InsertPointPlaced`, as new
  blocks get the function of the builder's block.
* `OwedUntouched` is then inductive: the blocks of frames do not overlap, so a step of
  the top frame writes only its own blocks and the builder's.
* `TornOnlyAfterRet` is not inductive alone: a branch appended to a block that some
  *branch* closed would break it. `TornInv` adds that the builder is never in such a
  block; `OwedUntouched` gives it for the blocks the builder moves to.

`CodeGenBranches` (`DanglingHolds`, `IntraFunctionHolds`, `DoneCompleteHolds`,
`ScopeBalanceHolds`, `OpenHolds`) goes on from there, with

    CoreInv == TypeInv /\ OwedUntouched /\ BranchInv

A branch is written before its target is in a function, so that where it leads is not
inductive alone. `BranchInv` says which blocks exist, that those in no function have no
branches of their own, that the heads of loops are already where back branches expect
them (`Heads`), and, without nested definitions, that all that is under way is in the
builder's function (`OneFunction`) and only blocks of a construct's function branch to
blocks it still has to place (`EdgesHome`). A step is reduced to what it does to one
block (`Effect`): it adds a branch to a placed block or to one its own construct owes, or
it places one that is owed. In a finished module nothing is owed, and every branch leads
to a placed block or to one an if gave up (`DoneComplete`); that an if gives blocks up
without an error is the finding of `CodeGen_if`. `ScopeInv` counts the depth of the scope
stack exactly: one for each function with a body and one for each loop under way.
`OpenHolds` is about `Loops = FALSE`, the programs there is a spelling for.

`SymbolsProofs` (`ScopesHold`, `GlobalsFoundHolds`, `OwnNamesHolds`,
`LoopNamesEndHolds`), for all names, functions, variables and depths, from
`SymbolsAssumption`. Three inductive invariants build on each other:

* `ScopesInv`: a loop that is the outermost construct under way has one more scope
  below it. It is why a loop, which pops whatever is on top, never pops the first
  scope, where the globals are.
* `Aligned`: without nested definitions, the top `Len(nest)` scopes of the stack are
  those of the text, one by one, and only the outermost construct is a definition.
  `OwnNames` follows since the search starts at the top.
* `SlotsInv`: declarations are numbered upwards, and scopes below a loop have only
  numbers from before it. When the loop ends, the numbers that are gone are above all
  that is left on the stack.

`SessionProofs` (`SessionInvHolds`, `NoForeignTextHolds`, `OpenOnlyAfterThrowHolds`,
`ExitHasCauseHolds`), for every set of addresses and number of calls. The idea is
`MiddleIsOpen`: the scanner stands in the middle of a file only after an exception,
which also leaves that file open, so that its address cannot be handed out again. One
resource leak is what keeps the other fault from happening: closing the file on that
path, without resetting the scanner, makes the next program continue with text of the
last (the mutant `ThrowsAndCloses`).

`BuildProofs` (`TypeHolds`, `IsolationHolds`, `DescriptorsClosedHolds`, `LeftoversHold`,
`KeepsPromiseHolds`), for any number of processes and of names and inputs of any length,
from `BuildAssumption`. A process touches only files that are its own or nobody's
(`Touches`), so that each part of the invariant can speak of one process; what the step
of another leaves of it is shown once (`OthersKeep`), what its own step does action by
action. The parts are

* `Control`: which operation can be where, and that a round has an input to work on;
  `FirObjects`: whose objects the second operation removes;
* `Isolated`: the file of the round and the objects made so far are the process's own, no
  two are the same, and they hold code of their own input or nothing. That an object is
  fresh when it is written comes from `O_EXCL` and from removing only one's own names;
* `Opened`: the one descriptor of an object file that may be open belongs to the round under
  way, and the text of a program is open while it is parsed or where that ended the call;
* `Accounted`: every file a process owns is one of its objects or of the round, or it
  could not be removed, and what is left behind by each way to return;
* `Lines`: how far the linker's arguments have come together: objects in the order they
  will have, in front of the texts still to be compiled, and as many of both as inputs
  so far. At the link this is what `BuildContract` promises; with it every step maps to a
  step of the contract or to none. `Promised`, the processes the contract is about, is any
  set of processes with no ll file among their inputs.

`ParserProofs` (`ParserTypeHolds`, `DerivesHolds`,
`AcceptsOneProgramHolds`, `SpellsInputHolds`, `SpelledAtSomeDepth`), for inputs of any length and stacks of any
depth and limits, from `ParserAssumption` and the assumptions of `ParserItems`. The first
part uses those about the tables (`TablesFollowItems`, `SymbolsNamed`). It is the argument of
the construction of LR parsers, made for these tables: a stack is `Viable` when what the
items of the state on top have seen are the symbols of the states below, and where an
item begins, it is an item of the state that lies there. Pushing a state that `Enters`
keeps that, popping the right side of a completed rule leaves a state that expects its
left side, and in the final state the whole stack is one program and the end of the
input.

The second part is `SpellsInput`, from the first and the assumptions about the actions
(`RulesLeaveNothingOut`, `SymbolsSpell`, and `OwnWords`: three literals are strings, which
the provers do not know). `SpellsInputHolds` is about the states whose trees are no deeper
than `Deepest`, whatever number that is; `SpelledAtSomeDepth` says that for every state there
is such a number, and the trees spell what was read at that depth. `SpellsAll` of a fixed depth
is not inductive, as a reduction makes a deeper tree. The inductive invariant `SaysInv`
therefore says that there is a text for each symbol on the stack, that these texts joined,
with the words of the token that waits, are the words of the input, that each text is what
its value spells at every depth that reaches it, and that some depth does (`Stands`). A list
carries its kind (`IsList`) and an operator of the rule `op` its word, without which
pushing onto a list or building a `bin` node would not be known to add what was read. A
reduction replaces the texts of the right side by their joining, which leaves the whole
text as it is; the value it makes spells that joining because the words of the right side,
but for punctuation, are the `Frame` of the node (`MakesAll`, `InStep`). What is spelled at one
depth is spelled at greater ones (`SpeltGrows`), so that a node has a depth when its children have
(`NodeFinite`). That `Spelt` is the function its recursion describes is proved, too
(`SpeltLevels`). What `FlattenSeq` does with sequences that are joined or extended is
proved for all sequences by the least counterexample. The result holds when the stack is exhausted, too. How expressions group
(`Grouping`) is not part of it.

`ToolProofs` has two results. The first (`StackAccountsHolds`, `ShowsOneRootHolds`) is about
texts of any length and nesting. `StackAccounts` says where each call under way lies on the stack of values, with
what it owns between its place and the next, and that finished objects hold a name in
front of every value; `JsonInv` adds what is read next in which kind of call
(`Expecting`), without which a name could be counted in an array. The places of the next
state are those of this one, with one more behind an opening bracket and one less behind
a closing one: then the last value goes into the account of the call below. It follows
that `ThInfo`, which indexes the root without a test of its own, asks one whole value.

The second (`RoundTripHolds`) is about the tool as a whole: what `init` was told, on the line
or when asked, is what `info` shows, whatever characters are in it and for all values of
`Starts`, except where the entry point leads to the project file: then the program may be in its
place, and `info` ends with a parse error, at its first character. From `Starts` it assumes only that words and lines are sequences of characters
(`StartsAssumption`). The inductive invariant `RoundInv` has a part for each phase of `main`:

* While a line is parsed, every result is a sequence of characters (`LineTyped`,
  `ResultsTyped`), so that the answers are. The line `info` of the second run has a part of
  its own (`InfoLine`, `InfoVerdict`): it is understood, and `info` acts.
* The file written is a brace, sixteen strings with a comma or a colon in front of each, and
  a brace; `begin` says where each string begins in it and `place` where each of its
  characters does (`LaidOut`), six, two or one positions apart as `Escaped` has it.
* While it is read, the reader stands at a place of that layout, and `token` and `stack`
  hold what was told so far (`ReaderAt`, `ReadsTold`). One lemma for each kind of step says it
  goes on to the next place (`ReaderStep`): an escape, `\u` included, comes back as the
  character it was written for.
* What is behind the closing brace is the end of the text; the root then has each name once
  and behind it its value, which is what `Found` finds (`ShowsTold`).
* Where the entry point leads to the project file, the file may hold the program instead
  (`Stored`, `Lost`). The program begins like no value, so the reader tries a number and
  stops at the first character (`ReadsProgram`, `RejectsProgram`).

A text is made by `FlattenSeq`, which the community modules define by recursion over the
sequence. Facts for all sequences are proved by the least counterexample, in the form of
`WellFoundedInduction` for an explicit set of naturals (`Least`), which needs no operator as
a parameter: the function that the definition chooses exists (`OffsetsExist`), and its values
are the parts one after another (`Flattened`).

`PackageProofs` (`ProjectFileFirstHolds`, `FilesWholeHolds`, `CoherentHolds`,
`ErrorHasCauseHolds`), for any number of processes, texts of every length and any entry
points, from `PackageAssumption` (a text has at least one piece, the project file and the
readme are two files). Besides the types, three inductive invariants:

* `Begun`: a process that has come as far as a write, a second open or a read knows the
  project file is there. It gives `ProjectFileFirst`.
* `CleanFiles`: a file that is not torn has one writer at most, is empty while it has one,
  and otherwise holds the whole of what was written last, by a step whose target it is.
  `FilesWhole` alone is not inductive: that the next write finds the file empty is what
  opening has to promise it. `ErrorHasCause` follows with `Begun`: an untorn project file
  that does not parse holds a text of the third kind.
* `InStep`: of inits one after another without a failure, the one under way has brought
  the project file and the readme as far as its steps say. It gives `Coherent`.

`TypeOK` of `CodeGen`, `Session`, `Symbols`, `Package`, `Build` and `Parser` is part of
these invariants; only `CodeGen_ast` and `FrontEnd` repeat it in a run.

Only model-checked, each for a reason that keeps it from this prover:

* liveness under fairness (and with it ENABLED): `Ends` of `Parser` and of `Tool`,
  `FirObjectsRemoved`, and of `KeepsContract` what it says beyond `KeepsPromise`;
* induction over data: how expressions group and where statements end (`Grouping`, `SemicolonEnds`), what an
  expression is worth (`ArithmeticHolds`, `Comparisons`), where tokens end in every text (`BlankNeutral`), which texts the grammar of JSON has
  (`ReadsJson`), and how any line of words is understood (`Understood`, `ValuesKept`). `Values`, `Reading` and some MC
  modules declare RECURSIVE operators for their reference definitions; modules with
  theorems use none.

## 5. Abstractions and what is left out

* A host without a target for LLVM, or an object that cannot be emitted for it
  (`codegen.h:194`, `:224`): `objgen` writes nothing then, whatever the text.
* Running out of memory (the `malloc` before a `strcpy` at `libthlang.cpp:414`), and
  failing writes to the standard streams.
* The IR's instructions, values and types: whether operands type-check is LLVM's
  verifier's business.
* lld, LLVM's passes, `llc` and the file system are external: they succeed or fail, as
  the driver distinguishes.
* Threads: the interface uses globals without locks and nobody calls it from two.
* Error recovery of the parser: `yyerror` exits. The values of `while` and `for` are
  in `Grammar`, their tokens have no spelling.
* `sema.cpp` is commented out, `unparse.cpp` empty.
* Names: types of variables, and the values a name loads, are not in `Symbols`; calls and
  names have no value in `Values`.
* CLI11: everything `main` does not declare (flags with values, groups, config files,
  environment variables, validators, aliases, Windows style, fallthrough). Of lists in
  brackets, those with brackets or quotes inside.
* RapidJSON: the values of numbers, and the error for an exponent too big for a double;
  other encodings than UTF-8 to UTF-8, the iterative and in-situ parsers, pointers,
  schemas, the pretty writer. None of it is called.
* The rest of `include/` and `third_party/` (RE/flex, lld, musl, libunwind): vendored
  code the program reaches through a few calls, which are modelled by what they answer.
  Most lines of the repository are there, so the share of lines the models cover stays
  small; what the program itself does is covered.
* The test driver, the samples, the Python clients in `bin/` and the build files have
  no state beyond the calls they make.

## 6. Plan

Done: 1. `CodeGen` and its proofs; 2. `Build`, `BuildContract`; 3. `Session` and its
proofs; 4. `Symbols` and its proofs; 5. `Parser`, `Lexer`, `Values`, `FrontEnd`;
6. `Package`; 7. `CommandLine`, `JsonReader`, `Tool`; 8. the proofs about `Package`;
9. about `Build`, with the safety part of the refinement of `BuildContract`; 10. about
the branches of `CodeGen` and its scope stack; 11. about `Parser`: its tables implement
`parser.y`; 12. about the stack of values of `JsonReader`;
13. about `Tool`: what is written is read back; 14. about `Parser`: its trees lose nothing.

Next, in this order:

15. Lemmas about `CommandLine`: the calls of `_parse` under way are commands each inside
    its parent, and what each option has been given keeps to its limits.
16. What keeps `yyparse` and the reader of JSON going forward, as action properties: a
    step consumes input or makes what is under way smaller. It is the part of `Ends` that
    needs no fairness.
