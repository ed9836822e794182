# A TLA+ development of tabnas/abnf

tabnas/abnf reads grammars written in ABNF (RFC 5234, RFC 7405) and hands them to a
grammar compiler.  It exists three times: the canonical TypeScript in `ts/`, a Go port
in `go/` and a Rust port in `rs/`; the Go port is also built as a C library.  These
modules model what the repository itself decides: how a text becomes productions, how
productions become the grammar the caller gets, how a compiled grammar is written as ABNF
again, which fault a caller hears of, how the C library serialises its callers, and how the
repository watches that its ports depend on the same things.  Paths below are relative to the repository root.

## 1. The system

### Components

| Component | Source | State | Operations |
|---|---|---|---|
| Meta-parser | `ts/src/converter.ts` 100-670 | rule stack, lookahead tokens, the arrays of the tree under construction | five rules `abnf` `prod` `alts` `seq` `elem` `atom`, each with open and close alternatives, `bo` and `bc` hooks and actions, run by the engine |
| Post-parse pipeline | `ts/src/converter.ts` 690-1049 | the production list; the cached core rules `_coreRules` | `attachValueAnnotations`, `mergeIncrementals`, `rejectHoles`, `withCoreRules` |
| Numeric values | `ts/src/converter.ts` 1052-1114, `go/converter.go` 486-560, `rs/src/numeric.rs` | none | `parseNumericValue` |
| Fault channel, Rust | `rs/src/parser_abnf.rs` 70-112, 1005-1025; `rs/src/converter.rs` 79-130 | `NUM_ERR`, one slot a thread; the `OnceLock`s of parser and core rules | `record_num_err`, `clear_num_err`, `taken_num_err`, `parse_abnf_raw` |
| Fault channel, Go | `go/converter.go` 37-95, 457-484; `go/parser_abnf.go` 545-656 | one recorder a parse, in the parse's meta; `abnfParserOnce` | `record`, `numErrOf`, `parseAbnfRaw` |
| C library | `go/clib/core.go`, `tabnas_c.go` | `nextID`, `loaded`, `reg`, a mutex an instance, `sharedMu` | `tabnas_grammar`, `tabnas_parse`, `tabnas_grammar_free` |
| Meta-parsers of the ports | `go/parser_abnf.go`, `rs/src/parser_abnf.rs` | as the canonical one; Rust refuses past 2048 rule levels | as the canonical one; numeric faults recorded, not thrown |
| Pipelines of the ports | `go/converter.go`, `rs/src/converter.rs` | core rules parsed at each call (Go), once (Rust) | as the canonical ones |
| Entry points, plugin | `ts/src/abnf.ts`, `compile.ts`, `go/facade.go`, `bnf_alias.go`, `rs/src/lib.rs` | a function installed on the host's engine | convert, compile, transduce, install |
| Command lines | `ts/src/bin`, `go/cmd/tabnas-abnf` | none | read, convert, print |
| Render | `alchemy/render.alc`, embedded in `ts/src/translate.ts`, and its copies | none | a grammar spec back to ABNF |
| Comparison of the ports | `tools/port-deps.cjs`, `tools/port-deps.json` | the manifests and the register, which maintainers edit | read the manifests, compare, report with advice |
| Other tooling | `tools/`, `ts/scripts/`, `ci/` | files | counts, gated docs, embedding |

The parsing engine (`@tabnas/parser`) and the compiler (`@tabnas/bnf`) live elsewhere.

### How they interact

A call of `parseAbnf` runs the meta-parser to the end, then the pipeline; the pipeline
may run the meta-parser once more, on the text of the core rules.  Within the meta-parser
everything interacts through shared arrays: a rule instance starts with its parent's
node, and `seq` appends to the array `alts` made.  The lexer is steered by the rules: it
tries the matchers of counts, numeric values and prose only where an alternative of the
running rule asks for one.  The ports cannot throw from an engine action, so
`parseNumericValue` leaves its diagnostic somewhere that survives the parse.  The C
library calls the Go port from foreign threads; all handles share one engine.  The render
knows the compiler by its output alone: which helper rules it makes, how it names and
numbers them, in which order it puts alternates.  The comparison of the ports reads three
manifests with readers of its own and sets them against a register; its reports tell the
maintainers what to do, and what they do is what it reads next.

### What is hard, and what makes each part correct

- **Meta-parser.** One more alternative changes what lexes; a hook in the wrong place puts
  an element in another rule's array; an unclosed bracket pops without a node.  Correct: a
  text is parsed to exactly its structure or refused, and refused only if nothing could
  complete it; holes come from brackets alone; a bracket costs four rule levels at any
  depth (the number `rs/src/parser_abnf.rs` 53-58 counts on); every parse ends.
- **Pipeline.** Positions, folding and caching interact: an annotation is found by position
  but its production may be folded away; a table shared by the process is handed to callers
  who write on it.  Correct: annotations and alternatives end up on the rule they were
  written for, faults are reported in the agreed order, the core rules added are the least
  set that closes the grammar, callers are isolated from each other.
- **Numeric values.** Correct: what RFC 5234 allows keeps its meaning in three runtimes.
- **Fault channels.** Threads, panics, later faults.  Correct: the first fault of the
  caller's own text is the answer.
- **C library.** Three locks, recovered panics, parse racing free.  Correct: a
  linearizable table of parsers, no handle issued twice, one thread in the engine, every
  call returns.  A writer of the registry must not wait for ever on readers that keep coming.
- **Render.** The compiler reorders alternatives, copies them for lookahead, splits them at
  references and numbers helpers; counts of repetitions are left only as differences of
  numbers in names; a reference that leads an alternative is gone; a class may lie over many
  tokens.  Correct: what is read back compiles to the spec it was read from, every alternative
  is there as often as it was written, and a token set is taken for its class exactly when it
  matches what the class does.
- **Comparison of the ports.** Hand-written readers of TOML and Go that must not overlook a
  dependency in any spelling; a register that outlives what it records; advice that is taken
  piece by piece.  Correct: a dependency the text states is found or the file is refused; the
  check passes exactly where register and manifests agree; the advice leads there.

`PROJECT.json` lists the hazards line by line with the properties that would catch them.

## 2. The modules

| Module | What it is |
|---|---|
| `MetaParser` | the meta-parser: the rule table and the engine around it |
| `MetaGrammar` | the language of ABNF texts and their structure, stated on lexemes alone |
| `MetaParserProps` | what the meta-parser promises, `MetaParser` against `MetaGrammar` |
| `MetaParserProofs` | theorems about `MetaParser`: its types, its stack, its arrays; lemmas about texts that nothing can complete |
| `MetaParserAccepts` | theorems about `MetaParserProps`: which texts are taken, when an element comes back undefined, which texts are refused and how tokens reach the rules |
| `Converter`, `ConverterProps` | `parseAbnf` after the meta-parser, over several calls of one process, and its promises |
| `ConverterProofs` | theorems about `Converter`: types, and that callers are kept apart; which texts are refused and for which fault; the grammar returned, its own rules and the core rules added |
| `Numeric` | the numeric-value matcher and the three decoders |
| `FirstFault` | abstract: a call answers the first fault of its text |
| `RustFaults`, `GoFaults` | the two channels |
| `Faults` | composes the two, chosen at the start, and shows that each implements `FirstFault` |
| `CLib` | the C library |
| `Registry` | abstract: a linearizable table of parsers, implemented by `CLib` |
| `CLibProofs` | theorems about `CLib`, and the proof that it implements `Registry` |
| `FaultsProofs` | the proof that `RustFaults` and `GoFaults` implement `FirstFault` |
| `CommentScan` | the scan for annotation comments beside the lexer, sign by sign |
| `CommentScanProofs` | the proof that the scan finds what the lexer takes for annotations |
| `RenderAlts` | the render's reading of a rule's alternatives, with the compiler's shapes |
| `RenderRefs` | how the render writes references back where the compiler substituted them |
| `RenderSpans` | how the render decides that the tokens laid over a class are the class |
| `RenderSpansProofs` | the proof that it decides so exactly when they match the same |
| `CargoManifest`, `GoSources` | the readers of `Cargo.toml` and of Go files |
| `PortDeps` | the comparison, the register, and maintainers who edit both |
| `PortDepsProofs` | theorems about `PortDeps` |
| `MCReaders` | extends `CommentScan` and composes it with `CargoManifest` and `GoSources`: one of them, chosen at the start, reads a text |
| `MCRender` | the same for `RenderSpans`, with `RenderAlts` and `RenderRefs` |
| `MCMetaParser`, `MCConverter`, `MCNumeric`, `MCCLib` | the instances TLC checks |

### MetaParser

`stack` holds the rule instances, `la` the tokens lexed and not consumed, `heap` the
arrays of the tree, `input` the lexemes read so far.  The alternatives of each rule are
data (`AbnfRule`, `ProdRule`, ... in the order of `abnfRules`), so each alternative keeps
its tokens, its give-back, the rule it pushes or replaces, its condition and its action.
The engine's steps are actions: `Lex` reads a lexeme when an alternative needs one,
`PushRule`, `ReplaceRule`, `EndOpen` and `PopRule` take the first alternative that fits,
with hooks and array writes in the same step; `Reject`, `ThrowNumeric` and `Accept` end
the parse.  References to arrays are explicit: a new frame inherits its parent's, and
`alts` and `seq` allocate.  What a lexeme becomes (`Lexed`) depends on the kinds offered
at that position.

Left out: the separation of characters into lexemes, the text of strings, spans and
error wording.  Two quirks are kept: the first token of a text is read before any
matcher of prose or numbers is offered, and a matcher that is not offered turns digits
into a number of the engine or, with `%` or `<`, into a bareword.  A prefix `%s` or `%i`
is a lexeme only before a string, as its pattern demands.

### Converter

A text is a sequence of productions and comments; a position in it is a source offset.
The phases are those of `parseAbnf`: `read` (the meta-parser; `ParseError` may end it),
`annotate` (`AttachAnnotation`, one comment a step), `merge` (`Keep` and `Fold`, one
production a step), `holes` (`RejectHoles`), `core` (`AddCore`, `NextPass`, `Return`).
The sixteen core rules and their references are the ones of the source.  Each production
and element list has an identity, so sharing is visible; `CallerWrites` marks an object of
a grammar already returned.  JavaScript runs one call at a time, hence one `phase`.
A production is written with one list of elements; folding makes longer ones.

Left out: elements other than their references and whether a hole is among them; the
second reading of the source, which finds the comments, is `CommentScan`.  The source sorts the
productions by position before it looks for owners; the meta-parser delivers them in that
order, which is what `AppendsLandInPlace` and `ParsesToItsStructure` rest on, and the model
keeps them so.

### Numeric

Sign by sign, the `#NV` matcher scans a value; `ParseNumericValue` decodes it as each
runtime does.  Three things differ: `parseInt` and Rust's `parse_int` stop at the first
sign outside the base where `strconv.ParseInt` fails; JavaScript and Rust take the first
two parts of several dashes where Go cuts at the first; Go always writes the braced
escape.  The limits are the real ones, U+10FFFF and U+FFFF.

### FirstFault, RustFaults, GoFaults

The two ports are modules of their own; `Faults` holds what they have in common, the
fairness and the refinement.  `FirstFault` is the canonical behaviour: the decoder throws, so the first fault is the
answer.  In both ports a parse reads on, so `text` (what was read) may hold several
faults; the refinement maps the verdict to the first of them, and every later one must be
a stuttering step.  Rust: `slot` belongs to the thread, is cleared before a parse, taken
after it and left full by a panic; the core rules are parsed by the first thread that
needs them while others wait.  Go: `recorders` belong to parses, which share one engine
that the first goroutine builds.  A fault of the text after the parse (annotations,
folding, holes) is the single answer `later`.

### CLib and Registry

Each thread runs one call at a time; `pc` names the next step, and every access to shared
memory is a step of its own, so that a missing lock shows: `nextID++` and the store are two
steps under `reg`, `Lookup` and locking the instance are two steps with nothing held in
between.  `Parse` ends in acceptance, rejection or a panic; the deferred unlocks are part
of the model.  The registry's lock is Go's `sync.RWMutex`: a writer first announces itself
(`RegLock`, after which no reader enters) and then waits until those inside have left
(`RegDrained`).  `Registry` is the table a caller may assume.  An instance is identified with
its handle, since a freed handle's instance may still be parsing.  The JSON of replies is
left out.

### CommentScan

`annotationComments` goes over the source a second time.  `scan` is its state, `lexer` that
of the parse's lexer, and both take the same sign in one step: `skip` is the mark a string or
a prose value ends at, `comment` where the comment began, `claims` whether its body starts
with `@`.  The lexer refuses what spans a line, the scan does not look; the comparison is of
texts the lexer takes.  Left out: a carriage return alone, DEL, and a `<` without its `>`
inside a bareword, which the lexer takes as part of the word.

### RenderAlts

An author writes a rule (`Write`, `Slash`), `Compiled` makes its spec, `Render` reads it back.
The compiler is external; `Compile` produces the shapes that the render's comments,
`ts/doc/concepts.md` and `docs/design/` describe: an alternative is cut into segments, one
reference each, with a chain of steps; alternatives of one segment are open alternates of
the rule, copied once for each token their reference may begin with, ordered by lookahead;
others are rules behind a dispatcher; a common leading helper is factored out.  Repetitions,
options and groups are helpers numbered in the order they are lowered.  Names are tuples, so
what the render reads from a name by pattern is read from the tuple.  The render's
definitions follow `translate.ts` one by one: `NumberOfCopies` tells lookahead copies from
alternatives that are alike, `NumberOrder` puts alternatives back by the numbers of their
helpers, `DispatchAlts` finds the empty one, `Expand` and `SplitGroup` undo factoring, and
`RepParts` counts options by helper numbers.

### RenderRefs and RenderSpans

A grammar is three rules of terminals, or of one reference, since a grammar with references
compiles to what one without them does; `Compiled` substitutes, `Render` puts references
where a run of alternatives is some rule's.  `BestAt`, `Covers` and `Unsub` are
`abnf-cand-at`, the local `covers` of `abnf-unsub`, and the rest of it; each rule is read on
its own, from the spec.  Nothing tells a run the compiler made from one that is alike by
chance, so the property is again that the text compiles to the spec; `Orders` says that no
rule leads to itself, which no single rule's reading looks at.

A class is the pieces of its pattern, a token set the ranges of its tokens.  Code points keep
their three bytes, with `MaxByte` for 255 and `Highest` for U+10FFFF, so that carries into
both higher bytes happen in a small instance.  `Merged` and `Tile` are the comparisons of
`abnf-check-set`; the property asks instead, code point by code point, what matches.

`DirectCore`, in `ConverterProps`, is the render's guess at the core rules a grammar refers to
itself.  It has the order of the rules only, and is right because of how the passes of
`withCoreRules` add them.

### CargoManifest and GoSources

A manifest is a sequence of statements (headers, arrays of tables, keys with dots, inline
tables), one a step of `parseToml`; the tree is a function from paths to nodes, `current` the
table keys go to.  `ReadRs` and `RefuseRs` are `readRs` after that: spellings with an
underscore, targets, renamed and optional crates, and everything it refuses.  A Go file is a
sequence of lines of pieces.  `goIgnored` and `goImports` go over it in turn in the code; here
they go side by side, a line a step, and `EndOfFile` asks first the one and then the other, as
`readGo` does.  Characters, string escapes and raw strings are left out.  What a manifest
says, and what a Go file imports, is stated a second time from the text alone (`Dependencies`,
`meant`), for the comparison.

### PortDeps

`manifest` is, for each port, what a reader returns; `register` the JSON file with what can
be wrong about it.  `Unasked` edits are anything a maintainer may do to either, at most
`MaxEdits` of them; `Follow` is what a report says, one problem's advice at a time.
`Problems` and `ExitCode` are `compare` and `main`: a reader that throws hides every problem,
and a register that cannot be trusted records nothing.

## 3. What the runs check

| Run | Instance | Shows |
|---|---|---|
| `metaparser` | texts of up to five lexemes of every kind, seven in repetitions, eight in brackets | lexing as meant, structure, no premature refusal, levels per bracket, array references, holes from unmatched brackets only, nothing malformed accepted, every parse ends |
| `converter_annotations` | two rules, plain and `=/`, six kinds of comment; up to 5 items | annotations, alternatives, order of faults |
| `converter_process` | two calls of up to 2 productions, core references three deep, local core names, holes, one write by a caller | the closure under core rules, what their order tells the render, isolation, termination |
| `numeric_rfc` | values up to 7 signs in three bases | RFC values keep their meaning in three runtimes; Rust equals TypeScript on all values |
| `numeric_digits` (violation) | as above | `%d2A` is accepted by the canonical converter |
| `numeric_go_mirrors` (violation) | as above | `%d2A` is refused by the Go port |
| `faults` | either port; 2 threads, 3 calls, texts of 2 items, two faults and two refusals | first fault wins (refinement of `FirstFault`); every call answers |
| `clib_safety` | 3 threads, 2 loads, handles 1 and 2 | mutual exclusion, handles, lock discipline, refinement of `Registry` |
| `clib_liveness` | 3 threads after two loads, two parsing and one freeing | every call returns, panics included; readers keep no writer out |
| `port_deps` | 3 ports, 2 repositories, 2 edits nobody asked for | the check passes exactly where register and manifests agree; no drift passes; advice ends in a pass |
| `readers` | 4 of 20 statements; 4 of 16 lines; 6 of 8 signs | no dependency or import hidden, nothing overwritten, no Go file refused in vain, comments as the lexer has them |
| `render` | up to 3 alternatives of 4 elements in all, nine kinds of element; 3 rules of 14 elements and alternatives in all, two terminals; classes and tokens of 4 ranges in all | read back, a rule compiles to the same spec, and so do rules with references; every alternative is kept; token sets are their classes |

**Bounds.** Five lexemes are enough for two productions or for one with a prefixed element
in a bracket; eight let two brackets nest, cross or stay open around a further header,
the cases in which holes arise; seven put two counted elements side by side.  Five items
of a text are a base, two `=/` lines and two annotations in any order; the faults of the
pipeline are all about pairs of items.  Core references go at most two steps on from the
first (`LWSP`, `CRLF`, `CR`), and `HEXDIG` adds the one rule declared before its user.
Seven signs reach both sides of U+10FFFF in hexadecimal and decimal and of U+FFFF in the
second end of a range; in binary they reach neither, and there only the digits matter.
Two threads and three calls let one thread leave its slot full, and use it again, while
the other is inside a parse; three threads of the C library let two parses race a free.
`clib_liveness` starts with the parsers loaded (`LoadedSpec`), since what can wait for ever
is a writer among readers and a parse among parses.
Two edits make any one problem meet any other.  Four statements open a table, fill it, open
another and come back, or spell a table both ways with an entry in each; four lines are a
block comment that opens, closes and is followed by a constraint or a declaration of an
import over three lines; six signs are a comment with a mark and an annotation in it next to
a string.  Four elements make two alternatives that share a helper and differ in their tails,
or one repetition inside another's neighbours; `1*3` nests options two deep.  Fourteen
elements and alternatives are a rule of three alternatives that two other rules cover in
overlapping runs; two elements an alternative, a prefix and a tail.  The two terminals are
interchangeable, and declared so.  Two bytes' values and five code points have every carry;
four ranges are a class of two against two tokens, nested, met or overlapping.
`MaxLexemes`, `MaxItems`, `MaxCalls`, `MaxWrites`, `MaxLoads`, `MaxEdits`, `MaxStatements`,
`MaxLines`, `MaxFiles`, `MaxSigns`, `MaxLength`, `MaxElements`, `MaxAlternatives`, `MaxMembers`,
`MaxRanges` and `Longest` bound what
would grow without end; each appears in the guards that begin or lengthen something and
nowhere else (`Within` of `MCMetaParser` is the one bound on a kind of text).

**Fairness.** A parse and a pipeline are one synchronous call (`WF` of the next step); in
the converter only the call's own steps are fair, a caller need not call again.
Goroutines and threads inside a call are scheduled eventually (`WF` of each thread's
steps).  Waiters for the C library's mutexes get `SF`: Go's `sync.Mutex` goes into
starvation mode and hands over to a waiter, and the lock that orders the writers of a
`sync.RWMutex` is such a mutex.  A writer that announced itself needs only `WF`: new readers
wait behind it, so those inside can only become fewer.  Maintainers do in the end something
a report says (`WF` of `Follow`), since the check stands in the way of everything else they
do; which of several pieces of advice they follow first is left open.  Calling is never fair.  Runs that may really stop say
`CHECK_DEADLOCK FALSE`: a text or the calls of a bounded process are used up.

**Findings.** Both come from one line.  A comment says that `parseNumericValue`
re-validates the permissive digits of the matcher "against the actual base"
(`ts/src/converter.ts` 589-591) and that "decimal and binary accept only digits in their
respective ranges" (1058-1059); the code calls `parseInt`, which cuts `%d2A` down to `%d2`.
The Go port, whose comment says it mirrors that check (`go/converter.go` 504-505), refuses
the value, and with it `%x1-2-3`; `DIVERGENCE.md` has no entry for this.  The Rust port
documents the truncation and does it.  `DIVERGENCE.md` 1 (half surrogates) is not modelled.

**Slips.** Definitions with a suffix (`Keep_NoValue`, `RegRUnlock_HitOnly`, ...) are
plausible mistakes; put in place of the definition they are named after, each makes a
property fail.  They are listed under `mutants`.

## 4. What is proved

All theorems hold for every value of the constants that satisfies the module's
assumption: `ParserAssumption` (an alphabet of lexemes, whose numeric values are faulty or
not, a bound that is a number),
`ConverterAssumption` (productions and comments are records of their kinds over the texts' words,
the bounds are numbers), `CLibAssumption` (handles are numbers, "no thread" is not a thread, the threads are finitely
many), `CodePointAssumption` (every code point's bytes are numbers up to `MaxByte`),
`FaultsAssumption` (no diagnostic is also a refusal, and none is one of the words the
models use for "no fault").

`MetaParserProofs`
- `TypeCorrect`: the lemmas `...Domains` and `...Table` say, rule by rule, what an alternative
  of the table may ask for; from them each step lemma (`PushStep`, `ReplaceStep`,
  `PopStep`, ...) shows that frames, tokens and arrays stay in their types.  An action that
  reads a token relies on it having matched one (`Matches`, `Taken`).
- `LevelsFollowBrackets`: from `abnf` down, the rules on the stack repeat with period four
  (`prod`, then `alts`, `seq`, `elem`, `atom`), so the depth of the stack is a function of
  the open brackets.  Inductive with `TypeOK`.
- `AppendsLandInPlace`: `NodesInPlace` alone is not inductive, since an atom takes over a
  bracket's array when it closes.  `Placed` adds that an atom refers to no array before
  that and that array references grow along the stack, which is what tells a frame's own
  array from that of an outer rule.

`MetaParserAccepts`, for every text of every length
- `OnlyWellFormedIsAccepted` (`Spec => []AcceptsOnlyWellFormed`) and `OnlyBracketsLeaveHoles`
  (`Spec => []HoleOnlyForBracket`) have one inductive invariant, `ParseInv`, on top of the
  three theorems above.  It says of a running parse (`Reading`) that it can only fail
  (`Stuck`: the next token is one no alternative takes), or the text was empty, or an element
  came back undefined and some bracket of the text can no longer be closed (`SomeDoomed`), or
  all has gone well so far (`Good`).  `Good` is what a reviewer would check the table
  against: `Accurate`, the tokens ahead are the lexemes ahead, but for the first name and for a
  count behind `m*n`; `Shape`, what each rule may rely on when it runs (a rule that gives
  control back has seen what stopped it, an atom stands behind a complete repetition prefix);
  `Nest`, the bracket frames of the stack are the open brackets of the text, in order, and
  their number is the depth of the stack by fours; `Sounded`, what has been consumed meets
  `MetaGrammar` lexeme by lexeme, as far as lexemes to the left can tell.
- A step either reads a lexeme (`LexKeeps`) or takes an alternative (`ActsKeeps`, one lemma
  for each rule and phase, `SeqReads`, `ElemOpenReads`, `BracketCloses`, ...).  Reading is the part
  the widening alternatives of the table are for: `LexTokens` shows that wherever a `#NUM`,
  `#NV`, `#SS`, `#SI` or `#PV` may come next some alternative offers its matcher.
  That an atom whose closing bracket does not come takes its fallback alternative, returns
  no node, and so leaves a hole, is `BracketFails`; that such a text is past saving,
  `OpenIsDoomed` and `DoomedIsUnmated`.  At the end `SoundIsWellFormed` turns the lexemes' account into
  `WellFormed`, and `HoleAppended` follows the arrays.
- `OnlyDeadTextsAreRejected` (`Spec => []RejectsOnlyDeadTexts`) and `TokensAreAsMeant`
  (`Spec => []LexedAsMeant`) are the converse: where the parser gives up, or a token is not
  what its lexeme is, no continuation would have been in the language.  `Dead` says so of a
  text, and is kept when the text goes on (`DeadStays`); `DeadIsNotCompletable` ties it to
  `Completable`, the properties' own test, which looks at the shortest continuation alone.
  The inductive invariant is `DeadInv`, on top of `ParseInv`: a text that is read is `Dead`
  or the parse is `Fine`, a text that was given up is `Dead`.  `Fine` is `Good` with the
  token ahead one that the running rule takes, the tokens exactly the lexemes behind the first
  two (`Sharp`), and what the alternatives passed over have told of them (`Sees`): at a bare
  name, say, that no `=` follows, else an earlier alternative had ended the sequence.  That is
  where the order of the alternatives in the table enters (`ElemOpenSees`, `SeqOpenSees`, ...).
- Each way to leave `Fine` is traced to a lexeme that has no place in the language whatever
  follows (`Wrong`, `WrongIsDead`): a count that is repeated or followed by no element
  (`OverrunsIsDead`), an `=` with no name before it (`DefineIsDead`, `LexDefine`), a bracket
  closed by the other kind (`CloserIsDead`), a numeric value out of range (`ThrowsDead`), a
  lexeme no matcher reads.  `RejectsDead` goes through the rules that may find
  no alternative; all the others have one for every token.  TLC checked `DeadInv` with
  `~Completable` for `Dead` before it was proved.

`PortDepsProofs`, with `PortDepsAssumption` (this repository is one of the ids, "no id" and
"no manifest" are neither)
- `PassingRegisterIsExact`: a report without problems pins the register to the manifests
  (`NoProblemsExact`); it needs nothing of the history, so it holds of any files the check is
  given.
- `DriftsAreCaught`: two repositories that pass with one register and differ in one port use
  the same (`ExactDeterminesUsers`).  Two ports are needed, and the proof shows where: with
  one, having a dependency and lacking it are both "all ports agree".
- `TypeCorrect`: a piece of advice about an entry or a name is only given where there is one
  (`EntryReported`, `NameReported`), which is what taking it relies on.

`CLibProofs`
- `TypeCorrect`, then `LocksFollowCalls` (a lock is held by exactly the threads whose `pc`
  says so) and `HandlesFollowCounter` (every handle is at most `nextID`, below it for a
  thread about to store).
- From the first: `EngineIsExclusive`, `RegistryIsExclusive`, `LocksAreDisciplined`; from
  the second: `HandlesAreDistinct` and the action property `HandlesNeverReissued`.
- `RegistryIsImplemented` (`Spec => Linearizable`): every step of a call is one step of
  `Registry` or invisible to the caller.  It needs `HandlesFollowCounter` (a load issues a
  number not issued before), `CallsKeepTheirStage` (where a thread is says which operation
  it runs and whether its reply is decided: the stage a step maps to follows from it) and
  `LoadsAreBounded` (a load that has begun has its number reserved, so that every handle
  stored is one `Registry` knows); the last counts the loads that run, hence finitely many
  threads.

`FaultsProofs`
- `FaultsAreKept`: the invariant `IInv`.  `FirstFaultWins` maps the verdict to `FirstOf` of the
  text read, so the proof first settles what `FirstOf` makes of one item more
  (`ReadOneMore`); then, thread by thread, the slot (`RustAt`) or the recorder (`GoAt`) holds
  just that while the parse runs, and it, together with what the engine said, decides the
  answer.  For Go the recorders of two parses have to be distinct; for Rust it is the
  clearing before the parse that the case after a panic rests on.
- `FaultsAreFirst` (`FairSpec => FirstFaultWins`), from it: for texts of any length, any
  number of calls and threads.  The bound `MaxItems` is in no step of the argument.

Every safety property of the converter that the runs check is proved, for texts of any length,
any names and any number of calls:

`ConverterProofs`
- `TypeCorrect`: `TypeOK` alone is not inductive; `PlaceInv` adds that the annotated
  productions are no more than the text has items, that the position kept in `idx` is one of
  theirs, and that a production's name is one `byName` is defined on.  Where the code searches (`Forward`, the
  least number with a property) the proof needs that the search ends: `LeastNumber`, from the
  well-foundedness of `<`, stands in for an induction.
- `CallersIsolated`: `IsolationInv` keeps apart, by object, the grammars returned, the cached
  core rules and what the running call holds.  A step that copies owes new objects
  (`Working`); it is there that a shallow `cloneProduction` would fail.
- `FaultsAreReported`: `VerdictFollowsText` speaks of the text alone, so `TextInv` relates
  every stage to it.  Between the productions still to fold (`ProdsInv`) and the rules folded
  (`MergedInv`, `LinesInv`) each line of the text is accounted for exactly once; `AttachInv`
  says of the annotations scanned, `ValueInv` of those moved to their bases, that each is
  where it belongs and no two share a rule; `BaseInv` makes `byName` the latest base *before*
  the line being folded, which is what `BaseOf` says of the text (`LatestBase`).  The refusal
  of a stage is then a fault of the text (`AnnotationRefused`, `MergeRefused`), and a stage
  passed rules its fault out (`AllFolded`, `HolesAreSeen`).
- `AnnotationsAreKept` and `AlternativesAreGathered` are `ValueInv` and `LinesInv` once
  everything is folded; what is left to show is that the grammar handed over splits into the
  rules folded and the core rules added (`HandsOver`).
- `CoreIsReached`: in `CoreInv`, `ReachInv` says that every set closed under the references
  contains the rules added so far, and what `defined` and `needed` stand for; at the end no
  rule of the table is wanted.
- `OrderIsTelling`: `PassInv` says how far the first pass has come, and after it that the
  next rule added falls in the table's order.  It holds because a core rule only refers to rules
  declared before it (`CoreRefs`), a fact of the table; a table in another order would make
  the render's guess wrong.

The type invariants of `MetaParser`, `CLib` and `PortDeps` are proved and no run repeats them.
TLC finds the inductive invariants to hold on the instances of the runs; only `CoreInv`, which
quantifies over all sets of names, takes smaller ones (three items for the annotations, one
item and two calls for the process).

`CommentScanProofs`
- `AnnotationsAreFound` (`Spec => []CommentsAsLexed`): as long as the lexer has not refused
  the text, the two are in the same state (`InStep`).  The one sign they take differently is
  the end of a line inside a string or prose, where the lexer refuses and the scan looks on
  (`SignInStep`); that is why `CommentsAsLexed` is about accepted texts.

`RenderSpansProofs`
- `ClassesAreTold` (`Spec => []SetsAreTheirClasses`), for any number of bytes, classes and tokens
  of any length.  The byte order is a strict total order in which `NextOf` is the next
  (`Order`, `Successor`, with its carries); a finite totally ordered set has one listing in
  order (`Ranked`), so `Sorted` is what it says.  `Merged` then yields a canonical list: ascending
  ranges, no two of which meet, that hold the characters of the list merged (`Blocks`,
  `MergedIs`).  Two canonical lists that hold the same characters are the same list
  (`OnlyOne`), hence `Same` compares what matches; and merged lists tile the code points when one
  holds exactly the characters the other does not (`TilesPartition`, `PartitionTiles`), hence
  `Tile` does for a negated class.  It is here that the code needs the successor over both
  carries and the look at every range sorted before (`Merged_Neighbours` looks at one).

Writing the proof of `CommentScan` showed that guards of its `CASE` expressions overlapped,
which leaves the choice open where the code has an order; they, and those of `GoSources`, are
chains of `IF` now.

Model-checked only: all liveness (no prover here handles fairness); `ParsesToItsStructure`,
which compares arrays with sets of positions listed in order;
and everything about `Numeric`, `RenderAlts`, `RenderRefs`, `CargoManifest` and `GoSources`.
Most of these use folds and recursion whose meaning rests on induction over data.

## 5. What is weaker than one might wish

- `RoundTrip` compares specs rule by rule, with names, numbers and closes exact, and the open
  alternates of a rule as a bag.  The order of alternates is not claimed: the compiler orders
  by lookahead, which gives up the order in which alternatives were written wherever it
  cannot tell them apart, and the render states that loss itself (`ts/src/translate.ts` 56).
- The compilers in `RenderAlts` and `RenderRefs` are external and were written from what this repository says of
  it.  Where the sources are silent, the model shows that the render agrees with one
  reasonable compiler, no more.
- `WellFormed`, `Containers` and the other definitions of `MetaGrammar` are on lexemes, so
  the meta-parser's properties start where characters have become lexemes.

## 6. Not modelled

- **The ports' meta-parsers.** The same rule table with eager matching; what differs in
  substance is what happens after a numeric fault, which `Faults` models, and Rust's refusal
  past 2048 rule levels, whose arithmetic is `FourLevelsPerBracket`.
- **The ports' pipelines.** The stages of `Converter`; Rust tests for an empty grammar before
  the numeric fault, and Go parses the core rules at each call, which makes its isolation of
  callers immediate.
- **The rest of the render.** Rules lifted to tokens, checks that refuse a spec before it is
  read, the text of tokens.
- **Entry points, plugin, command lines.** Sequential calls around one conversion.
- **Other tooling.** Scripts over files that keep no state and decide nothing about a grammar.
- **The compiler and the engine.** Other repositories; modelled only as far as stated above.

Next would come the rules the compiler lifts to tokens, and the parser of the ports with its
reading on after a fault.
