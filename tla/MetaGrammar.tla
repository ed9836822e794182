---------------------------- MODULE MetaGrammar ----------------------------
(***************************************************************************)
(* The language of ABNF texts and the structure of each, stated on the     *)
(* lexemes alone: no rule stack, no lookahead, no arrays.  A text w is a   *)
(* sequence of lexemes [kind, val] whose last one is the end "ZZ".         *)
(***************************************************************************)
EXTENDS Integers, FiniteSets, Sequences

LOCAL Inf == -1

Starters == {"ST", "NV", "TX", "LP", "OB", "SS", "SI", "PV"}
Defines  == {"DEF", "DEFA"}
Counts   == {"NUM", "STAR"}

\* The kind of the i-th lexeme, "" outside the text.
KindAt(w, i) == IF i \in DOMAIN w THEN w[i].kind ELSE ""

\* A production's name: a bareword before `=' or `=/', prose before `='.  No
\* matcher of prose or of numeric values is offered the very first token,
\* so there both are barewords.
IsHeader(w, i) ==
  \/ KindAt(w, i) = "TX" /\ KindAt(w, i + 1) \in Defines
  \/ KindAt(w, i) = "PV" /\ KindAt(w, i + 1) = "DEF"
  \/ i = 1 /\ KindAt(w, 1) \in {"PV", "NV"} /\ KindAt(w, 2) \in Defines

Headers(w) == {i \in DOMAIN w : IsHeader(w, i)}

Opens(w)  == {i \in DOMAIN w : w[i].kind \in {"LP", "OB"}}
Closes(w) == {i \in DOMAIN w : w[i].kind \in {"RP", "CB"}}

\* Brackets opened and not closed from i to j.
Balance(w, i, j) ==
  Cardinality(Opens(w) \intersect (i..j)) - Cardinality(Closes(w) \intersect (i..j))

\* The bracket j closes the bracket i, whatever their kinds.
Pairs(w, i, j) ==
  /\ i \in Opens(w) /\ j \in Closes(w) /\ i < j
  /\ Balance(w, i, j) = 0
  /\ \A k \in i..(j - 1) : Balance(w, i, k) > 0

Open(w, i) == i \in Opens(w) /\ ~\E j \in Closes(w) : Pairs(w, i, j)

Mates(w, i, j) == w[j].kind = IF w[i].kind = "LP" THEN "RP" ELSE "CB"

\* The elements: atoms, open brackets included, that are not names.
Elements(w) ==
  {i \in DOMAIN w : /\ w[i].kind \in Starters
                    /\ ~IsHeader(w, i)
                    /\ KindAt(w, i - 1) \notin {"SS", "SI"}}

(***************************************************************************)
(* Repetition prefixes: m*n, m*, *n, * and n, directly before an element.  *)
(***************************************************************************)
PrefixOf(w, i) ==
  LET k(d) == KindAt(w, i - d)
  IN  IF k(1) = "STAR" THEN IF k(2) = "NUM" THEN <<"NUM", "STAR">> ELSE <<"STAR">>
      ELSE IF k(1) # "NUM" THEN <<>>
      ELSE IF k(2) # "STAR" THEN <<"NUM">>
      ELSE IF k(3) = "NUM" THEN <<"NUM", "STAR", "NUM">> ELSE <<"STAR", "NUM">>

PrefixFits(w, i) == KindAt(w, i - 1 - Len(PrefixOf(w, i))) \notin Counts

Bounds(w, i) ==
  LET v(d) == w[i - d].val
      p    == PrefixOf(w, i)
  IN  IF p = <<>> THEN <<1, 1>>
      ELSE IF p = <<"NUM">> THEN <<v(1), v(1)>>
      ELSE IF p = <<"STAR">> THEN <<0, Inf>>
      ELSE IF p = <<"NUM", "STAR">> THEN <<v(2), Inf>>
      ELSE IF p = <<"STAR", "NUM">> THEN <<0, v(1)>>
      ELSE <<v(3), v(1)>>

(***************************************************************************)
(* A text in the language.                                                 *)
(***************************************************************************)
\* The text up to some point, with brackets that may still be closed later.
Sound(w) ==
  /\ IsHeader(w, 1)
  /\ \A i \in DOMAIN w :
       /\ w[i].kind # "BD"
       /\ w[i].kind = "NV" /\ ~IsHeader(w, i) => w[i].val = 0
       /\ w[i].kind \in Defines => IsHeader(w, i - 1)
       /\ w[i].kind \in Counts => KindAt(w, i + 1) \in Counts \union Starters
       /\ i \in Elements(w) => PrefixFits(w, i)
       /\ i \in Headers(w) => /\ KindAt(w, i - 1) \notin Counts
                              /\ \A j \in Opens(w) : j < i => Balance(w, j, i) <= 0
  /\ \A j \in Closes(w) :
       \E i \in Opens(w) : /\ Pairs(w, i, j) /\ Mates(w, i, j)
                           /\ ~\E h \in Headers(w) : i < h /\ h < j

WellFormed(w) ==
  Sound(w) /\ KindAt(w, Len(w)) = "ZZ" /\ \A i \in Opens(w) : ~Open(w, i)

(***************************************************************************)
(* Its structure: every element lies in one alternative of one container,  *)
(* the innermost bracket around it or its production (by its name).        *)
(***************************************************************************)
Container(w, i) ==
  LET around == {b \in Opens(w) : b < i /\ Balance(w, b, i - 1) > 0
                                  /\ \A k \in b..(i - 1) : Balance(w, b, k) > 0}
      before == {h \in Headers(w) : h <= i}
      Latest(S) == CHOOSE m \in S : \A n \in S : n <= m
  IN  IF around # {} THEN Latest(around) ELSE Latest(before)

Containers(w) == Headers(w) \union Opens(w)

Slashes(w, c) == {i \in DOMAIN w : w[i].kind = "ALT" /\ Container(w, i) = c}

AlternativeOf(w, i) ==
  1 + Cardinality({k \in Slashes(w, Container(w, i)) : k < i})

\* Not SetToSortSeq, which the provers cannot expand.
InOrder(S) ==
  [k \in 1..Cardinality(S) |-> CHOOSE m \in S : Cardinality({n \in S : n < m}) = k - 1]

\* The elements of alternative a of container c, in the order of the text.
Members(w, c, a) ==
  InOrder({i \in Elements(w) : Container(w, i) = c /\ AlternativeOf(w, i) = a})

NodeKind(w, i) ==
  CASE w[i].kind \in {"ST", "SS", "SI"} -> "term"
    [] w[i].kind = "NV" -> "number"
    [] w[i].kind = "PV" -> "prose"
    [] w[i].kind = "TX" -> "ref"
    [] w[i].kind = "LP" -> "group"
    [] w[i].kind = "OB" -> "opt"

(***************************************************************************)
(* The shortest text that starts with w, if there is one in the language.  *)
(***************************************************************************)
Lexeme(kind) == [kind |-> kind, val |-> 0]

Completed(w) ==
  LET last    == KindAt(w, Len(w))
      unclosed == InOrder({i \in Opens(w) : Open(w, i)})
      close(i) == Lexeme(IF w[i].kind = "LP" THEN "RP" ELSE "CB")
      needed  == IF Len(w) = 1 THEN <<Lexeme("DEF")>>
                 ELSE IF last \in Counts THEN <<Lexeme("TX")>>
                 ELSE IF last \in {"SS", "SI"} THEN <<Lexeme("ST")>> ELSE <<>>
  IN  w \o needed
        \o [k \in DOMAIN unclosed |-> close(unclosed[Len(unclosed) + 1 - k])]
        \o (IF last = "ZZ" THEN <<>> ELSE <<Lexeme("ZZ")>>)

Completable(w) == w # <<>> /\ WellFormed(Completed(w))
=============================================================================
