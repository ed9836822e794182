--------------------------- MODULE CargoManifest ---------------------------
(***************************************************************************)
(* How tools/port-deps.cjs reads rs/Cargo.toml: parseToml builds a tree,   *)
(* one statement a step, and readRs looks for dependencies in it.  "The    *)
(* readers fail closed": a shape they do not understand is an error and    *)
(* never "no dependency".                                                  *)
(*                                                                         *)
(* A statement is a header or a key with its value; keys and values are    *)
(* whole.  Left out: characters, strings and escapes, arrays as values,    *)
(* and the [package] table but for the edition.  The tree is a function    *)
(* from paths to nodes; of an array of tables only the last item can be    *)
(* reached, under the key "item".                                          *)
(***************************************************************************)
EXTENDS Naturals, SequencesExt, TLC

CONSTANTS
  Statements,     (* what a manifest may hold                                *)
  MaxStatements   (* bound: how much of it                                   *)

(* A statement: [k, path] with k "header", or "array" for an array of       *)
(* tables; [k |-> "set", path, value] with a scalar [t, v] of type t; or    *)
(* [k |-> "inline", path, inner] with a function from keys to scalars.      *)

VARIABLES
  text,      (* the statements read                                          *)
  tree,      (* path |-> node; the root is <<>>                              *)
  current,   (* where keys go: the path of the last header                   *)
  modern,    (* whether the edition is 2024 or later                         *)
  phase,     (* "reading", "failed" or "read"                                *)
  runtime, dev   (* what readRs found                                        *)

vars == <<text, tree, current, modern, phase, runtime, dev>>

Table(defined, inline) == [t |-> "table", v |-> "", defined |-> defined, inline |-> inline]
Leaf(value) == [t |-> value.t, v |-> value.v, defined |-> TRUE, inline |-> FALSE]

Init ==
  /\ text = <<>> /\ tree = (<<>> :> Table(TRUE, FALSE)) /\ current = <<>>
  /\ modern \in BOOLEAN
  /\ phase = "reading" /\ runtime = {} /\ dev = {}

Above(path) == Prefixes(path) \ {path, <<>>}
Reading == phase = "reading" /\ Len(text) < MaxStatements
Fail(statement) ==
  /\ phase' = "failed" /\ text' = Append(text, statement)
  /\ UNCHANGED <<tree, current, modern, runtime, dev>>

-----------------------------------------------------------------------------
(* assign: walk down from the current table, making tables on the way, and  *)
(* set what is not there yet.                                               *)

Full(path) == current \o path

(* Slip, for the mutation runs: an inline table can be extended. *)
CanAssign_IntoInline(from, path) ==
  /\ \A p \in {from \o q : q \in Above(path)} \intersect DOMAIN tree : tree[p].t = "table"
  /\ from \o path \notin DOMAIN tree

CanAssign(from, path) ==
  /\ \A p \in {from \o q : q \in Above(path)} \intersect DOMAIN tree :
       tree[p].t = "table" /\ ~tree[p].inline
  /\ from \o path \notin DOMAIN tree

Made(paths, node) == [p \in paths \ DOMAIN tree |-> node]

KeyValue(statement) ==
  LET path == Full(statement.path)
      made == Made({current \o q : q \in Above(statement.path)}, Table(TRUE, FALSE))
      value == IF statement.k = "set" THEN (path :> Leaf(statement.value))
               ELSE (path :> Table(TRUE, TRUE))
                      @@ [p \in {Append(path, key) : key \in DOMAIN statement.inner} |->
                            Leaf(statement.inner[Last(p)])]
  IN /\ Reading /\ statement.k \in {"set", "inline"}
     /\ CanAssign(current, statement.path)
     /\ tree' = tree @@ made @@ value
     /\ text' = Append(text, statement)
     /\ UNCHANGED <<current, modern, phase, runtime, dev>>

BadKeyValue(statement) ==
  /\ Reading /\ statement.k \in {"set", "inline"}
  /\ ~CanAssign(current, statement.path)
  /\ Fail(statement)

(* header: the walk passes through the last item of an array of tables.     *)
Inside(at) ==
  IF at \in DOMAIN tree /\ tree[at].t = "aot" THEN Append(at, "item") ELSE at
Owner(path) == FoldLeft(LAMBDA at, key : Inside(Append(at, key)), <<>>, Front(path))
Place(path) == Append(Owner(path), Last(path))
Holders(path) == Prefixes(Owner(path)) \ {<<>>}

CanDescend(path) ==
  \A p \in Holders(path) \intersect DOMAIN tree :
    tree[p].t = "aot" \/ (tree[p].t = "table" /\ ~tree[p].inline)

(* Made on the way to a deeper header, a table may still get its own.       *)
CanOpen(path) ==
  LET place == Place(path)
  IN place \in DOMAIN tree => tree[place].t = "table" /\ ~tree[place].defined

OpenTable(statement) ==
  LET path == statement.path
  IN /\ Reading /\ statement.k = "header"
     /\ CanDescend(path) /\ CanOpen(path)
     /\ current' = Place(path)
     /\ tree' = (Place(path) :> Table(TRUE, FALSE))
                  @@ tree @@ Made(Holders(path), Table(FALSE, FALSE))
     /\ text' = Append(text, statement)
     /\ UNCHANGED <<modern, phase, runtime, dev>>

CanPush(path) ==
  Place(path) \in DOMAIN tree => tree[Place(path)].t = "aot"

(* A new item hides the ones before it. *)
PushItem(statement) ==
  LET path == statement.path
      item == Append(Place(path), "item")
      kept == {p \in DOMAIN tree : item \notin Prefixes(p)}
  IN /\ Reading /\ statement.k = "array"
     /\ CanDescend(path) /\ CanPush(path)
     /\ current' = item
     /\ tree' = (item :> Table(TRUE, FALSE)) @@ (Place(path) :> [Table(TRUE, FALSE) EXCEPT !.t = "aot"])
                  @@ [p \in kept |-> tree[p]] @@ Made(Holders(path), Table(FALSE, FALSE))
     /\ text' = Append(text, statement)
     /\ UNCHANGED <<modern, phase, runtime, dev>>

BadHeader(statement) ==
  LET path == statement.path
  IN /\ Reading
     /\ \/ statement.k = "header" /\ ~(CanDescend(path) /\ CanOpen(path))
        \/ statement.k = "array" /\ ~(CanDescend(path) /\ CanPush(path))
     /\ Fail(statement)
-----------------------------------------------------------------------------
(* readRs.  Each kind of dependency table by its spelling, and by the        *)
(* underscore spelling, which counts only where the other is absent and the  *)
(* edition is old.                                                           *)

OldSpelling == ("build-dependencies" :> "build_dependencies")
                 @@ ("dev-dependencies" :> "dev_dependencies")
CARGO_TABLES == {"dependencies"} \union DOMAIN OldSpelling
DevTables == {"dev-dependencies", "dev_dependencies"}

Has(path) == path \in DOMAIN tree
Children(path) == {p \in DOMAIN tree : Len(p) = Len(path) + 1 /\ IsPrefix(path, p)}

Old(scope, key) == {Append(scope, OldSpelling[k]) : k \in {key} \ {"dependencies"}}

(* Slip: both spellings are read. *)
Used_BothSpellings(scope, key) ==
  ({Append(scope, key)} \union Old(scope, key)) \intersect DOMAIN tree

Used(scope, key) ==
  IF Has(Append(scope, key)) THEN {Append(scope, key)}
  ELSE Old(scope, key) \intersect DOMAIN tree

BadEntry(p) ==
  IF tree[p].t = "table"
  THEN \/ Has(Append(p, "workspace"))
       \/ Has(Append(p, "package")) /\ tree[Append(p, "package")].t # "string"
       \/ Has(Append(p, "optional")) /\ tree[Append(p, "optional")].t # "bool"
  ELSE tree[p].t # "string"

Crate(p) == IF Has(Append(p, "package")) THEN tree[Append(p, "package")].v ELSE Last(p)
Optional(p) == Has(Append(p, "optional")) /\ tree[Append(p, "optional")].v = "true"

Target == <<"target">>
Scopes == {<<>>} \union IF Has(Target) THEN Children(Target) ELSE {}
TablesUsed == UNION {Used(scope, key) : scope \in Scopes, key \in CARGO_TABLES}

Refused ==
  \/ Has(Target) /\ tree[Target].t # "table"
  \/ \E scope \in Scopes : tree[scope].t # "table"
  \/ modern /\ \E scope \in Scopes, key \in CARGO_TABLES :
                 Old(scope, key) \intersect DOMAIN tree # {}
  \/ \E t \in TablesUsed : tree[t].t # "table" \/ \E p \in Children(t) : BadEntry(p)

ReadRs ==
  /\ phase = "reading" /\ ~Refused
  /\ phase' = "read"
  /\ LET entries(isDev) ==
           UNION {Children(t) : t \in {u \in TablesUsed : isDev <=> Last(u) \in DevTables}}
     IN /\ runtime' = {[name |-> Crate(p), optional |-> Optional(p)] : p \in entries(FALSE)}
        /\ dev' = {Crate(p) : p \in entries(TRUE)}
  /\ UNCHANGED <<text, tree, current, modern>>

RefuseRs ==
  /\ phase = "reading" /\ Refused
  /\ phase' = "failed"
  /\ UNCHANGED <<text, tree, current, modern, runtime, dev>>

Next ==
  \/ \E s \in Statements :
       \/ KeyValue(s) \/ BadKeyValue(s)
       \/ OpenTable(s) \/ PushItem(s) \/ BadHeader(s)
  \/ ReadRs \/ RefuseRs

Spec == Init /\ [][Next]_vars

-----------------------------------------------------------------------------
(* What a manifest says, from its statements alone.                          *)

HeaderOf(i) ==
  LET before == {j \in 1..(i - 1) : text[j].k \in {"header", "array"}}
  IN IF before = {} THEN <<>> ELSE text[CHOOSE j \in before : \A o \in before : o <= j].path

IsHeader(i) == text[i].k \in {"header", "array"}
PathOf(i) == IF IsHeader(i) THEN text[i].path ELSE HeaderOf(i) \o text[i].path
PathsOf(i) ==
  {PathOf(i)} \union IF text[i].k = "inline"
                     THEN {Append(PathOf(i), key) : key \in DOMAIN text[i].inner} ELSE {}
AllPaths == UNION {PathsOf(i) : i \in DOMAIN text}

ScalarAt(path, otherwise) ==
  LET as == {i \in DOMAIN text : text[i].k = "set" /\ PathOf(i) = path}
      in == {i \in DOMAIN text : text[i].k = "inline" /\ path \in PathsOf(i) /\ path # PathOf(i)}
  IN IF as # {} THEN text[CHOOSE i \in as : TRUE].value.v
     ELSE IF in # {} THEN text[CHOOSE i \in in : TRUE].inner[Last(path)].v
     ELSE otherwise

SaidScopes ==
  {<<>>} \union {SubSeq(q, 1, 2) : q \in {o \in AllPaths : Len(o) >= 2 /\ o[1] = "target"}}
Said(scope, table) == {q \in AllPaths : IsPrefix(Append(scope, table), q)}
(* The underscore spelling does not count beside the other one.              *)
SaidTables(tables) ==
  {<<scope, t>> \in SaidScopes \X tables :
     ~\E k \in DOMAIN OldSpelling : OldSpelling[k] = t /\ Said(scope, k) # {}}
Dependencies(tables) ==
  UNION {{SubSeq(q, 1, Len(st[1]) + 2) : q \in {o \in Said(st[1], st[2]) : Len(o) > Len(st[1]) + 1}}
           : st \in SaidTables(tables)}
RuntimeTables == {"dependencies", "build-dependencies", "build_dependencies"}

\* No dependency is hidden: of a manifest that is not refused, whatever way the
\* dependencies are spelled (a string, an inline table, a header of their own,
\* a dotted key, under a target, renamed), what readRs finds is exactly what
\* the statements say, path by path, development apart from the rest
\* (parseToml, readRs).
NothingHidden ==
  phase = "read" =>
    /\ runtime = {[name |-> ScalarAt(Append(p, "package"), Last(p)),
                   optional |-> ScalarAt(Append(p, "optional"), "false") = "true"]
                    : p \in Dependencies(RuntimeTables)}
    /\ dev = {ScalarAt(Append(p, "package"), Last(p)) : p \in Dependencies(DevTables)}
    /\ \A p \in Dependencies(RuntimeTables \union DevTables) :
         Append(p, "workspace") \notin AllPaths

InArray(i) ==
  \E j \in DOMAIN text : text[j].k = "array" /\ IsPrefix(text[j].path, PathOf(i))

\* A value stays what it was set to: in a manifest that is not refused, no
\* statement sets, extends or opens as a table what another statement has set,
\* but in different items of an array of tables (assign, header).
NothingIsOverwritten ==
  phase # "failed" =>
    \A i, j \in DOMAIN text :
      i # j /\ ~IsHeader(i) /\ ~InArray(i) => ~IsPrefix(PathOf(i), PathOf(j))
=============================================================================
