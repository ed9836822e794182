----------------------------- MODULE MCReaders -----------------------------
(***************************************************************************)
(* The readers of text the repository wrote by hand, beside a grammar      *)
(* somebody else defines, for TLC: those of Cargo manifests and Go files   *)
(* in tools/port-deps.cjs, and the scan for comments of the converter.     *)
(* One of them, chosen at the start, reads whatever of its alphabet fits   *)
(* its bounds; CommentScan, which there are theorems about, is extended,   *)
(* and CommentsAsLexed is its own.                                         *)
(***************************************************************************)
EXTENDS CommentScan

CONSTANTS Statements, MaxStatements, LINES, MaxLines, MaxFiles

VARIABLES part,
  text, tree, current, modern, phase, dev,                  (* CargoManifest *)
  files, test, header, imports, tests, failed, meant,           (* GoSources *)
  runtime                                                        (* of both *)

cargoVars == <<text, tree, current, modern, phase, dev>>
goVars == <<files, test, header, imports, tests, failed, meant>>
scanVars == <<scan, lexer, ended>>

Cargo == INSTANCE CargoManifest
Go == INSTANCE GoSources

(* Statements, as CargoManifest has them. *)
Header(path) == [k |-> "header", path |-> path]
ArrayHeader(path) == [k |-> "array", path |-> path]
Set(path, t, v) == [k |-> "set", path |-> path, value |-> [t |-> t, v |-> v]]
Inline(path, key, v) ==
  [k |-> "inline", path |-> path, inner |-> [i \in {key} |-> [t |-> "string", v |-> v]]]

MCStatements == {
  Header(<<"dependencies">>), Header(<<"dependencies", "a">>),
  Header(<<"dev-dependencies">>), Header(<<"dev_dependencies">>),
  Header(<<"target", "cfg">>), Header(<<"target", "cfg", "dependencies">>),
  Header(<<"bin">>), Header(<<"bin", "dependencies">>),
  ArrayHeader(<<"bin">>), ArrayHeader(<<"target">>),
  Set(<<"a">>, "string", "1"), Set(<<"a">>, "other", "1"),
  Set(<<"a", "package">>, "string", "b"), Set(<<"package">>, "string", "b"),
  Set(<<"a", "optional">>, "bool", "true"), Set(<<"optional">>, "bool", "true"),
  Set(<<"a", "workspace">>, "bool", "true"),
  Set(<<"dependencies", "a">>, "string", "1"),
  Inline(<<"a">>, "package", "b"),
  Inline(<<"dependencies">>, "a", "1") }

MCLines == {
  <<>>, <<"//go:build ignore">>, <<"//go:build linux">>, <<"// +build ignore">>,
  <<"/*">>, <<"*/">>, <<"*/", "//go:build ignore">>, <<"/*", "*/">>,
  <<"package", "name">>, <<"package", "name", ";", "import", "a">>,
  <<"import", "a">>, <<"import", "misnamed">>, <<"import", "(">>, <<"name", "b">>, <<")">>,
  <<"func", "a">> }

MCSigns == {"\"", "<", ">", ";", "@", " ", "newline", "x"}

MCInit ==
  /\ part \in {"cargo", "go", "comments"}
  /\ Cargo!Init /\ Go!Init /\ Init
  /\ part # "go" => ~test
  /\ part # "cargo" => ~modern

MCNext ==
  /\ UNCHANGED part
  /\ \/ part = "cargo" /\ Cargo!Next /\ UNCHANGED <<goVars, scanVars, source>>
     \/ part = "go" /\ Go!Next /\ UNCHANGED <<cargoVars, scanVars>>
     \/ part = "comments" /\ Next /\ UNCHANGED <<cargoVars, goVars, runtime>>

MCSpec == MCInit /\ [][MCNext]_<<part, runtime, cargoVars, goVars, vars>>

\* No dependency of a Cargo manifest is hidden: see CargoManifest (parseToml,
\* readRs).
NothingHidden == part = "cargo" => Cargo!NothingHidden

\* No value of a Cargo manifest is overwritten: see CargoManifest (parseToml).
NothingIsOverwritten == part = "cargo" => Cargo!NothingIsOverwritten

\* No import of a Go module is hidden: see GoSources (goIgnored, goImports).
NoImportHidden == part = "go" => Go!NoImportHidden

\* No Go file is refused in vain: see GoSources (goImports).
NoneRefusedInVain == part = "go" => Go!NoneRefusedInVain
=============================================================================
