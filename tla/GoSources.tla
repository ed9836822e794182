----------------------------- MODULE GoSources -----------------------------
(***************************************************************************)
(* How tools/port-deps.cjs reads the Go files under go/ (readGo): whether  *)
(* a file's build constraint is `ignore` (goIgnored), and which packages   *)
(* it imports (goImports).  The two scans go over the text one after the   *)
(* other, each with its own idea of what a comment is; here they go over   *)
(* it side by side, a line a step, and the end of the file asks first one  *)
(* and then the other.                                                     *)
(*                                                                         *)
(* A line is a sequence of pieces: comment marks, constraints, the words   *)
(* of import declarations, and paths.  Left out: characters, raw strings,  *)
(* the walk over the files and the external modules, which only the table names.    *)
(***************************************************************************)
EXTENDS Naturals, SequencesExt

CONSTANTS
  LINES,      (* what a line may be                                          *)
  MaxLines,   (* bound: lines of a file                                      *)
  MaxFiles    (* bound: files                                                *)

GoBuilds == {"//go:build ignore", "//go:build linux"}
PlusBuilds == {"// +build ignore", "// +build linux"}
Slashes == GoBuilds \union PlusBuilds \union {"//"}
Org == {"a", "b"}                              (* repositories by their id    *)
Paths == Org \union {"own", "misnamed", "std"}
Words == {"package", "import", "name", "func"}

VARIABLES
  files,      (* how many files were read                                    *)
  test,       (* whether the file is a test's                                *)
  source,     (* the lines of the file read so far                           *)
  header,     (* goIgnored's variables                                       *)
  imports,    (* goImports' variables                                        *)
  runtime, tests,   (* readGo's sets                                         *)
  failed,     (* a reader threw                                              *)
  meant       (* history: what the files so far import, and whether Go would *)
              (* take them                                                   *)

vars == <<files, test, source, header, imports, runtime, tests, failed, meant>>

-----------------------------------------------------------------------------
(* goIgnored.                                                                *)

Header0 == [end |-> 0, ended |-> FALSE, inStar |-> FALSE, goBuild |-> "none",
            over |-> FALSE, failed |-> FALSE]

(* The while loop over one line: "comment" goes on with the next line,       *)
(* "code" ends the header.                                                   *)
WalkPiece(walk, piece) ==
  IF walk.at # "start" THEN walk
  ELSE IF walk.star THEN [walk EXCEPT !.star = piece # "*/"]
  ELSE IF piece \in Slashes THEN [walk EXCEPT !.at = "comment"]
  ELSE IF piece = "/*" THEN [walk EXCEPT !.star = TRUE]
  ELSE [walk EXCEPT !.at = "code"]

IsGoBuild(h, line) == line # <<>> /\ line[1] \in GoBuilds /\ ~h.inStar

HeaderLine(h, line, k) ==
  IF h.over \/ h.failed THEN h
  ELSE IF line = <<>> /\ ~h.ended THEN [h EXCEPT !.end = k]
  ELSE LET walk == FoldLeft(WalkPiece, [star |-> h.inStar, at |-> "start"], line)
           slashes == line # <<>> /\ line[1] \in Slashes
       IN [h EXCEPT !.ended = @ \/ ~slashes,
                    !.goBuild = IF IsGoBuild(h, line) THEN line[1] ELSE @,
                    !.failed = IsGoBuild(h, line) /\ h.goBuild # "none",
                    !.inStar = walk.star,
                    !.over = walk.at = "code"]

(* Slip, for the mutation runs: a constraint anywhere in the file counts. *)
Ignored_AnyPlusBuild(h, lines) ==
  IF h.goBuild # "none" THEN h.goBuild = "//go:build ignore"
  ELSE \E k \in DOMAIN lines : lines[k] # <<>> /\ lines[k][1] = "// +build ignore"

Ignored(h, lines) ==
  IF h.goBuild # "none" THEN h.goBuild = "//go:build ignore"
  ELSE \E k \in 1..h.end : lines[k] # <<>> /\ lines[k][1] = "// +build ignore"

-----------------------------------------------------------------------------
(* goImports: a token at a time.                                             *)

Imports0 == [at |-> "package", group |-> FALSE, star |-> FALSE, found |-> {}]

SpecOf(im, token) ==
  CASE token \in Paths ->
         [im EXCEPT !.found = @ \union {token}, !.at = IF im.group THEN "group" ELSE "decl"]
    [] im.at # "alias" /\ token \in Words \union {"."} -> [im EXCEPT !.at = "alias"]
    [] OTHER -> [im EXCEPT !.at = "failed"]

Token(im, token) ==
  CASE im.at = "package" -> [im EXCEPT !.at = IF token = "package" THEN "name" ELSE "failed"]
    [] im.at = "name" -> [im EXCEPT !.at = IF token \in Words THEN "decl" ELSE "failed"]
    [] im.at = "decl" ->
         IF token = ";" THEN im
         ELSE [im EXCEPT !.at = IF token = "import" THEN "import" ELSE "done",
                         !.group = FALSE]
    [] im.at = "import" /\ token = "(" -> [im EXCEPT !.at = "group", !.group = TRUE]
    [] im.at = "group" /\ token = ")" -> [im EXCEPT !.at = "decl"]
    [] im.at = "group" /\ token = ";" -> im
    [] \/ im.at = "import" /\ token # "("
       \/ im.at = "group" /\ token \notin {")", ";"}
       \/ im.at = "alias" -> SpecOf(im, token)
    [] OTHER -> im

(* next: comments and white space, then a token. *)
ImportsPiece(st, piece) ==
  IF st.slashes \/ st.im.at \in {"done", "failed"} THEN st
  ELSE IF st.im.star THEN [st EXCEPT !.im.star = piece # "*/"]
  ELSE IF piece \in Slashes THEN [st EXCEPT !.slashes = TRUE]
  ELSE IF piece = "/*" THEN [st EXCEPT !.im.star = TRUE]
  ELSE [st EXCEPT !.im = Token(st.im, piece)]

ImportsLine(im, line) == FoldLeft(ImportsPiece, [im |-> im, slashes |-> FALSE], line).im

(* Slip: a file of nothing but imports is refused. *)
Understood_WantsMore(im) == im.at = "done"

(* The end of the file, for goImports. *)
Understood(im) == im.at = "done" \/ (im.at = "decl" /\ ~im.star)

-----------------------------------------------------------------------------
(* What a file says, lexed once: every piece with whether it starts its line *)
(* and whether it is code, in a `//` or in a block comment.                  *)

ModeAfter(mode, piece) ==
  IF mode = "slashes" THEN IF piece = "\n" THEN "code" ELSE mode
  ELSE IF mode = "block" THEN IF piece = "*/" THEN "code" ELSE mode
  ELSE IF piece \in Slashes THEN "slashes"
  ELSE IF piece = "/*" THEN "block"
  ELSE "code"

Lexed ==
  LET flat == FoldLeft(LAMBDA all, line : all \o Append(line, "\n"), <<>>, source)
      lex(so, piece) ==
        LET first == so = <<>> \/ Last(so).is = "\n"
            mode == IF so = <<>> THEN "code" ELSE Last(so).after
            after == ModeAfter(mode, piece)
        IN Append(so, [is |-> piece, first |-> first, mode |-> mode, after |-> after,
                       code |-> mode = "code" /\ after = "code" /\ piece # "\n"])
  IN FoldLeft(lex, <<>>, flat)

(* Go's rule for build constraints. *)
Constraints(lexed) ==
  {i \in DOMAIN lexed :
     /\ lexed[i].first /\ lexed[i].mode = "code" /\ lexed[i].is \in GoBuilds
     /\ \A c \in 1..i : ~lexed[c].code}

OldConstraints(lexed) ==
  {i \in DOMAIN lexed :
     /\ lexed[i].first /\ lexed[i].is \in PlusBuilds
     /\ \E blank \in (i + 1)..Len(lexed) :
          /\ lexed[blank].first /\ lexed[blank].is = "\n"
          /\ \A j \in 1..blank : lexed[j].is = "\n" \/ lexed[j].after = "slashes"}

MeantIgnored(lexed) ==
  IF Constraints(lexed) # {}
  THEN \E i \in Constraints(lexed) : lexed[i].is = "//go:build ignore"
  ELSE \E i \in OldConstraints(lexed) : lexed[i].is = "// +build ignore"

(* The code up to the first declaration that is no import. *)
CodeOf(lexed) ==
  LET tokens == SelectSeq(lexed, LAMBDA t : t.code)
      ends == {n \in DOMAIN tokens : tokens[n].is = "func"}
      upto == IF ends = {} THEN Len(tokens) ELSE Min(ends) - 1
  IN [n \in 1..upto |-> tokens[n].is]

InGroup(code, n) ==
  \E i \in 1..(n - 2) : /\ code[i] = "import" /\ code[i + 1] = "("
                        /\ \A j \in (i + 2)..(n - 1) : code[j] # ")"
Imported(code, n) ==
  \/ InGroup(code, n)
  \/ n > 1 /\ code[n - 1] = "import"
  \/ n > 2 /\ code[n - 2] = "import" /\ code[n - 1] \in {"name", "."}

(* A file Go takes, as far as its imports go. *)
GoTakes(lexed, code) ==
  LET before(n) == IF n = 1 THEN "" ELSE code[n - 1]
      after(n) == IF n = Len(code) THEN "" ELSE code[n + 1]
      legal(n) ==
        CASE code[n] = "package" -> n = 1 /\ after(n) = "name"
          [] code[n] = "import" -> n > 2 /\ ~InGroup(code, n) /\ after(n) \in {"(", "name", "."} \union Paths
          [] code[n] = "(" -> before(n) = "import"
          [] code[n] = ")" -> InGroup(code, n)
          [] code[n] \in {"name", "."} ->
               \/ code[n] = "name" /\ before(n) = "package"
               \/ (before(n) = "import" \/ InGroup(code, n)) /\ after(n) \in Paths
          [] code[n] \in Paths -> Imported(code, n)
          [] OTHER -> code[n] = ";" /\ n > 2
  IN /\ code # <<>> /\ code[1] = "package"
     /\ Last(lexed).after # "block" /\ ~InGroup(code, Len(code) + 1)
     /\ Cardinality(Constraints(lexed)) < 2
     /\ \A n \in DOMAIN code : legal(n)

MeantImports(code) == Range(code) \intersect Paths

(* The history after the file just read. *)
MeantWith(lexed, code) ==
  LET found == IF MeantIgnored(lexed) THEN {} ELSE MeantImports(code)
      ids == found \intersect Org
  IN [taken |-> meant.taken /\ GoTakes(lexed, code) /\ "misnamed" \notin found,
      runtime |-> meant.runtime \union IF test THEN {} ELSE ids,
      tests |-> meant.tests \union IF test THEN ids ELSE {}]

-----------------------------------------------------------------------------
Init ==
  /\ files = 0 /\ test \in BOOLEAN /\ source = <<>>
  /\ header = Header0 /\ imports = Imports0
  /\ runtime = {} /\ tests = {} /\ failed = FALSE
  /\ meant = [taken |-> TRUE, runtime |-> {}, tests |-> {}]

ReadLine(line) ==
  /\ ~failed /\ files < MaxFiles /\ Len(source) < MaxLines
  /\ source' = Append(source, line)
  /\ header' = HeaderLine(header, line, Len(source) + 1)
  /\ imports' = ImportsLine(imports, line)
  /\ UNCHANGED <<files, test, runtime, tests, failed, meant>>

Filed(ids) ==
  IF test THEN runtime' = runtime /\ tests' = tests \union ids
  ELSE runtime' = runtime \union ids /\ tests' = tests

Read == ~header.failed /\ ~Ignored(header, source)
EndOfFile ==
  /\ ~failed /\ files < MaxFiles
  /\ files' = files + 1 /\ test' \in BOOLEAN
  /\ source' = <<>> /\ header' = Header0 /\ imports' = Imports0
  /\ failed' = (header.failed \/ (Read /\ ~Understood(imports)) \/ (Read /\ "misnamed" \in imports.found))
  /\ IF failed' \/ ~Read THEN UNCHANGED <<runtime, tests>>
     ELSE Filed(imports.found \intersect Org)
  /\ meant' = MeantWith(Lexed, CodeOf(Lexed))

Next == EndOfFile \/ \E line \in LINES : ReadLine(line)
Spec == Init /\ [][Next]_vars

-----------------------------------------------------------------------------
\* Nothing a Go module imports is hidden, and nothing else is found: while
\* every file is one Go takes, the repositories imported by the files Go
\* compiles, and by their tests, are exactly those found, wherever comments
\* stand, whichever form of constraint leaves a file out and whatever order
\* the files come in (goIgnored, goImports, readGo).
NoImportHidden ==
  meant.taken => runtime = meant.runtime /\ tests = meant.tests

\* No file Go takes is refused: the check does not stop on a comment, a
\* constraint or an import declaration it does not understand (goImports).
NoneRefusedInVain == meant.taken => ~failed
=============================================================================
