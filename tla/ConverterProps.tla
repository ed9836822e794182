--------------------------- MODULE ConverterProps ---------------------------
(***************************************************************************)
(* What parseAbnf owes its callers after the text is read, stated on the   *)
(* text and the grammar returned, not on the stages in between.            *)
(***************************************************************************)
EXTENDS Converter

(* An annotation says something when its members can be the keys of one    *)
(* object; an array has none.                                               *)
Meaningful(c) ==
  /\ c.kind = "array" => Len(c.members) = 0
  /\ c.kind = "object" => \A i, j \in DOMAIN c.members :
       c.members[i] \in MemberNames /\ (c.members[i] = c.members[j] => i = j)

Values == {NoValue} \union {[kind |-> c.kind, members |-> c.members] :
            c \in {d \in Comments : d.kind # "other" /\ Meaningful(d)}}
LineType(objects) ==
  [obj: objects, refs: SUBSET (Words \union RuleNames(CoreRules)), hole: BOOLEAN]
RuleType(objects, sps) ==
  [obj: objects, name: Names \union RuleNames(CoreRules), alts: Seq(LineType(objects)), sp: sps,
   value: Values, core: BOOLEAN]

\* Types of the converter's state.  A value annotation, wherever a
\* production carries it, is well formed: @array without members, @object
\* with rule names that differ (attachValueAnnotations).
TypeOK ==
  /\ phase \in {"idle", "read", "annotate", "merge", "holes", "core"}
  /\ text \in Seq(Productions \union Comments) /\ Len(text) <= MaxItems
  /\ prods \in Seq(RuleType(1 .. fresh, DOMAIN text))
  /\ comment \in 1 .. Len(text) + 1 /\ idx \in 0 .. Len(text)
  /\ merged \in Seq(RuleType(1 .. fresh, DOMAIN text))
  /\ byName \in [Names -> 0 .. Len(merged)]
  /\ core \in Seq(RuleType(1 .. fresh, {0})) /\ cache \in Seq(RuleType(1 .. fresh, {0}))
  /\ scanned \in 0 .. Len(cache) /\ added \in BOOLEAN
  /\ grammars \in Seq(Seq(RuleType(1 .. fresh, 0 .. MaxItems)))
  /\ fresh \in Nat \ {0} /\ marked \subseteq 1 .. fresh /\ calls \in 0 .. MaxCalls

(* The text alone: which positions are productions, the production a      *)
(* position follows, and the plain production that an incremental one     *)
(* extends (0 where there is none).                                        *)
Positions == {i \in DOMAIN text : text[i].tag = "production"}
Greatest(S) == IF S = {} THEN 0 ELSE CHOOSE m \in S : \A i \in S : i <= m
Plain == {i \in Positions : ~ text[i].incremental}
Followed(at) == Greatest({i \in Positions : i < at})
BaseOf(i) == IF i \in Plain THEN i
             ELSE Greatest({j \in Plain : j < i /\ text[j].name = text[i].name})
Annotations == {at \in DOMAIN text : Claims(text[at])}

Returned == outcome = "grammar"
Grammar == Last(grammars)
(* The grammar's own rules come first, the core rules added after them. *)
OwnCount == Cardinality({i \in DOMAIN Grammar : ~ Grammar[i].core})
Own == SubSeq(Grammar, 1, OwnCount)
Added == SubSeq(Grammar, OwnCount + 1, Len(Grammar))

(* Which one of the positions S, in source order, a position is. *)
Place(i, S) == Cardinality({j \in S : j <= i})
LinesOf(b) == {i \in Positions : BaseOf(i) = b}

\* A value annotation ends up on the rule it follows in the source, on its
\* base when that is a `=/` line, and no rule carries an annotation nobody
\* wrote after it: attachValueAnnotations before mergeIncrementals, which
\* moves the annotation and rebuilds the production field by field.
AnnotationsStay ==
  Returned =>
    /\ \A at \in Annotations : \E r \in ToSet(Own) :
         /\ r.sp = BaseOf(Followed(at))
         /\ r.value = [kind |-> text[at].kind, members |-> text[at].members]
    /\ \A r \in ToSet(Grammar) : r.value # NoValue =>
         \E at \in Annotations : r.sp = BaseOf(Followed(at))

\* The grammar's own rules are the plain productions in source order, and
\* each has the element lists of its `=/` lines after its own, in source
\* order, also where a name is defined twice (mergeIncrementals).
AlternativesGathered ==
  Returned =>
    /\ Len(Own) = Cardinality(Plain) /\ \A i \in Plain : Own[Place(i, Plain)].sp = i
    /\ \A r \in ToSet(Own) :
         /\ Len(r.alts) = Cardinality(LinesOf(r.sp))
         /\ \A i \in LinesOf(r.sp) : r.alts[Place(i, LinesOf(r.sp))].refs = text[i].refs

(* The fault a text has, in the order parseAbnf must report them in.        *)
AnnotationFault ==
  \E at \in Annotations :
    \/ Followed(at) = 0 \/ ~ Meaningful(text[at])
    \/ \E other \in Annotations \ {at} : Followed(other) = Followed(at)
MergeFault ==
  \/ \E i \in Positions : BaseOf(i) = 0
  \/ \E a, b \in Annotations : a # b /\ BaseOf(Followed(a)) = BaseOf(Followed(b))
Verdict ==
  CASE Positions = {} -> "no productions"
    [] Positions # {} /\ AnnotationFault -> "annotation"
    [] Positions # {} /\ ~ AnnotationFault /\ MergeFault -> "merge"
    [] OTHER -> IF \E i \in Positions : text[i].hole THEN "hole" ELSE "grammar"

\* A text the meta-parser accepts is refused exactly when it has a fault,
\* and for the fault that comes first: annotations, then folding, then
\* malformed elements.  Error precedence is part of what the three runtimes
\* agree on (test/spec/alignment-abnf-errors.tsv).
VerdictFollowsText == outcome \in {"none", "parse error", Verdict}

Closed(S, own) == \A i \in DOMAIN CoreRules :
  LET c == CoreRules[i] IN
    c.name \in (Refs(own) \union UNION {d.refs : d \in {e \in ToSet(CoreRules) : e.name \in S}})
      => c.name \in S \union RuleNames(own)

\* The rules added are the core rules the grammar reaches, each once, and no
\* other: the least set closed under reference that leaves the grammar's own
\* definitions alone (withCoreRules).
CoreRulesAreReached ==
  Returned =>
    LET S == RuleNames(Added) IN
    /\ Cardinality(S) = Len(Added) /\ S \intersect RuleNames(Own) = {}
    /\ Closed(S, Own)
    /\ \A T \in SUBSET S : Closed(T, Own) => T = S
    /\ \A r \in ToSet(Added) : r.sp = 0

(* What the render (ts/src/translate.ts) takes for the core rules a grammar  *)
(* itself refers to, when all it has is the order the rules were added in:   *)
(* those before the first that the table declares before its predecessor.   *)
CoreIndex(rule) == CHOOSE i \in DOMAIN CoreRules : CoreRules[i].name = rule.name
Falls(rules) == {i \in DOMAIN rules : i > 1 /\ CoreIndex(rules[i]) < CoreIndex(rules[i - 1])}
(* Slip: the rule that falls is taken too. *)
DirectCore_WithFall(rules) == {rules[i].name : i \in {j \in DOMAIN rules : \A f \in Falls(rules) : j <= f}}
DirectCore(rules) == {rules[i].name : i \in {j \in DOMAIN rules : \A f \in Falls(rules) : j < f}}

\* The order in which withCoreRules adds rules tells the ones the grammar's
\* own rules refer to from those that other core rules need, whichever of
\* them the grammar defines itself; the render writes a grammar's core rules
\* as references by that alone (abnf-direct-core).
OrderTellsDirectCore ==
  Returned => DirectCore(Added) = (Refs(Own) \intersect RuleNames(CoreRules)) \ RuleNames(Own)

\* What a caller writes on a grammar shows in that grammar alone: no other
\* grammar has the object, nor has the table of core rules the process
\* keeps (cloneProduction, getCoreRules).
CallersAreIsolated ==
  \A o \in marked : /\ Cardinality({i \in DOMAIN grammars : o \in Objects(grammars[i])}) = 1
                    /\ o \notin Objects(cache)

\* A call that was made answers: in particular the passes over the core
\* rules end (`while (added)` in withCoreRules).
EveryCallAnswers == (phase = "read") ~> (phase = "idle")
=============================================================================
