----------------------------- MODULE RenderAlts -----------------------------
(***************************************************************************)
(* How the render (alchemy/render.alc, embedded in ts/src/translate.ts)    *)
(* reads the alternatives of a rule back from its compiled spec: from open *)
(* alternates with their lookahead copies, chains of steps, dispatchers,   *)
(* factored tails, and the helpers of repetitions, options and groups,     *)
(* whose numbers say in which order and how deep they were written.        *)
(*                                                                         *)
(* The compiler is @tabnas/bnf's, external: as much of it as the render's  *)
(* comments, ts/doc/concepts.md and docs/design/ say of its shapes.        *)
(*                                                                         *)
(* A name is a tuple: <<"_gen", 3, "star">> is _gen3_star_..., and         *)
(* <<"r", "alt", 0>> is r$alt0.  Tokens are names.  Left out: what the     *)
(* tokens match, the text itself, tree builders and lookahead past what a  *)
(* lookahead copy gives back.                                              *)
(***************************************************************************)
EXTENDS Integers, SequencesExt, FiniteSetsExt, TLC

CONSTANTS
  Elements,    (* what an alternative may hold                               *)
  MaxElements, MaxAlternatives   (* bounds: of the written rule, in all      *)

VARIABLES
  written,     (* the alternatives as their author writes them               *)
  spec,        (* the compiled rules, by name                                *)
  read         (* the alternatives the render reads back                     *)

vars == <<written, spec, read>>

Tok(t) == [k |-> "tok", name |-> t]
Ref(n) == [k |-> "ref", name |-> n]
Group(alts) == [k |-> "group", alts |-> alts]
Star(el) == [k |-> "star", of |-> el]
Plus(el) == [k |-> "plus", of |-> el]
Opt(el) == [k |-> "opt", of |-> el]
NoBound == -1
Rep(min, max, el) == [k |-> "rep", min |-> min, max |-> max, of |-> el]

Top == <<"r">>      (* the rule *)
NoRule == <<>>

-----------------------------------------------------------------------------
(* The compiler.  An alternate: the tokens it matches, how many of them it   *)
(* gives back, and the rule it pushes or replaces itself with.               *)

Alt(s, b, to, self) == [s |-> s, b |-> b, to |-> to, self |-> self]
Rule(open, close) == [open |-> open, close |-> close]

FIRST == <<"p", "q">>     (* of a rule of the author's: two copies *)

(* Whether a helper can match nothing. *)
RECURSIVE Nullable(_, _)
Nullable(rules, name) ==
  /\ name \in DOMAIN rules
  /\ \E i \in DOMAIN rules[name].open :
       LET alt == rules[name].open[i]
       IN alt.s = <<>> /\ ~alt.self /\ (alt.to = NoRule \/ Nullable(rules, alt.to))
  /\ rules[name].close = <<>> \/ Nullable(rules, rules[name].close[1])

(* The tokens a lowered element can begin with, without repetitions. *)
RECURSIVE FirstOf(_, _)
FirstOf(rules, el) ==
  LET union(so, more) == so \o SelectSeq(more, LAMBDA t : ~Contains(so, t))
      next == rules[el.name].close
      past(alt) == IF next # <<>> /\ Nullable(rules, alt.to)
                   THEN FirstOf(rules, Ref(next[1])) ELSE <<>>
      firsts(alt) == IF alt.s # <<>> THEN <<alt.s[1]>>
                     ELSE IF alt.self \/ alt.to = NoRule THEN <<>>
                     ELSE union(FirstOf(rules, Ref(alt.to)), past(alt))
  IN IF el.k = "tok" THEN <<el.name>>
     ELSE IF el.name \notin DOMAIN rules THEN FIRST
     ELSE FoldLeft(LAMBDA so, alt : union(so, firsts(alt)), <<>>, rules[el.name].open)

(* A segment: a run of tokens and at most one reference after it. *)
Segments(seq) ==
  FoldLeft(LAMBDA segs, el :
             LET last == Last(segs)
             IN IF last.to # NoRule
                THEN Append(segs, IF el.k = "tok" THEN Alt(<<el.name>>, 0, NoRule, FALSE)
                                  ELSE Alt(<<>>, 0, el.name, FALSE))
                ELSE Append(Front(segs), IF el.k = "tok" THEN [last EXCEPT !.s = Append(@, el.name)]
                                         ELSE [last EXCEPT !.to = el.name]),
           <<Alt(<<>>, 0, NoRule, FALSE)>>, seq)

StepName(name, j) == IF j = 0 THEN name ELSE name \o <<"step", j>>

(* A chain of steps, one a segment; its close names the next step. *)
ChainRules(name, seq) ==
  LET segs == Segments(seq)
  IN [n \in {StepName(name, j) : j \in 0..(Len(segs) - 1)} |->
        LET j == IF n = name THEN 0 ELSE Last(n)
        IN Rule(<<segs[j + 1]>>,
                IF j + 1 < Len(segs) THEN <<StepName(name, j + 1)>> ELSE <<>>)]

(* The lookahead copies of an alternative of one segment. *)
Copies(rules, segment, others) ==
  LET same == \E o \in others : IsPrefix(segment.s, o.s)
      firsts == FirstOf(rules, Ref(segment.to))
      copies == [i \in DOMAIN firsts |-> [segment EXCEPT !.s = Append(@, firsts[i]), !.b = 1]]
  IN IF segment.to = NoRule \/ (segment.s # <<>> /\ ~same) THEN <<segment>>
     ELSE IF Nullable(rules, segment.to) THEN Append(copies, segment)
     ELSE copies

(* The alternatives, each its copies: a longer lookahead goes first, the     *)
(* empty alternative last.                                                   *)
ByLookahead(each) ==
  LET rank(copies) ==
        IF copies[1].s = <<>> THEN IF copies[1].to = NoRule THEN 4 ELSE 3
        ELSE IF Len(copies[1].s) > 1 THEN 1 ELSE 2
  IN FlattenSeq([i \in 1..4 |-> FlattenSeq(SelectSeq(each, LAMBDA c : rank(c) = i))])

AltName(name, i) == name \o <<"alt", i>>

AlternativesRules(name, rules, alts) ==
  LET segs == [i \in DOMAIN alts |-> Segments(alts[i])]
      simple == [i \in DOMAIN alts |->
                   Copies(rules, segs[i][1], {segs[j][1] : j \in DOMAIN alts \ {i}})]
      heads == {i \in DOMAIN alts : alts[i] # <<>>}
      look(i) == LET firsts == FirstOf(rules, alts[i][1])
                 IN [f \in DOMAIN firsts |-> Alt(<<firsts[f]>>, 1, AltName(name, i - 1), FALSE)]
      empty == IF heads = DOMAIN alts THEN <<>> ELSE <<Alt(<<>>, 0, NoRule, FALSE)>>
  IN IF Len(alts) = 1 THEN ChainRules(name, alts[1])
     ELSE IF \A i \in DOMAIN alts : Len(segs[i]) = 1
     THEN (name :> Rule(ByLookahead(simple), <<>>))
     ELSE FoldSet(LAMBDA i, more : more @@ ChainRules(AltName(name, i - 1), alts[i]),
                  name :> Rule(FlattenSeq([i \in DOMAIN alts |->
                                  IF i \in heads THEN look(i) ELSE <<>>]) \o empty, <<>>),
                  heads)

(* A repetition's loop: its guarded entry, the way on, and the way out. *)
LoopRules(name, rules, el) ==
  LET firsts == FirstOf(rules, el)
      iter == AltName(name, 0)
      on == IF el.k = "tok" THEN <<Alt(<<el.name>>, 0, name, TRUE)>>
            ELSE [f \in DOMAIN firsts |-> Alt(<<firsts[f]>>, 1, iter, TRUE)]
      end == Alt(<<>>, 0, NoRule, FALSE)
      loop == Rule(<<Alt(<<>>, 0, name, TRUE)>> \o on \o <<end>>, <<>>)
  IN (name :> loop) @@ IF el.k = "tok" THEN <<>>
                       ELSE iter :> Rule(<<Alt(<<>>, 0, el.name, FALSE)>>, <<name>>)

Gen(n, kind) == <<"_gen", n, kind>>

(* Nested options: each over a group of the item and the next option. *)
NestRules(n, depth, el, rules) ==
  FoldLeft(LAMBDA so, i :
             LET seq == IF i = 1 THEN <<el>> ELSE <<el, Ref(Gen(n + 2 * i - 3, "opt"))>>
                 group == Gen(n + 2 * i - 2, "group")
                 made == so @@ ChainRules(group, seq)
             IN made @@ AlternativesRules(Gen(n + 2 * i - 1, "opt"), made, <<<<Ref(group)>>, <<>>>>),
           rules, [i \in 1..depth |-> i])

(* A helper and the rules with it: n is the number of the next.              *)
Made(n, rules, name) == [st |-> [n |-> n, rules |-> rules], el |-> Ref(name)]

LowerAlternatives(n, kind, rules, alts) ==
  Made(n + 1, rules @@ AlternativesRules(Gen(n, kind), rules, alts), Gen(n, kind))
LowerGroup(in) == LowerAlternatives(in.st.n, "group", in.st.rules, in.alts)

Looped(n, rules, item) == rules @@ LoopRules(Gen(n, "star"), rules, item)
LowerChain(n, kind, next, rules, seq) ==
  Made(next, rules @@ ChainRules(Gen(n, kind), seq), Gen(n, kind))

(* Options, repetitions and groups of a lowered item. *)
LowerOver(el, n, rules, item) ==
  LET lead == [i \in 1..el.min |-> item]
      loop == Ref(Gen(n, "star"))
      depth == el.max - el.min
      nest == Ref(Gen(n + 2 * depth - 1, "opt"))
  IN CASE el.k = "opt" -> LowerAlternatives(n, "opt", rules, << <<item>>, <<>> >>)
       [] el.k = "star" -> Made(n + 1, Looped(n, rules, item), loop.name)
       [] el.k = "plus" -> LowerChain(n, "plus", n + 2, Looped(n, rules, item), <<item, loop>>)
       [] el.k = "rep" /\ el.max = NoBound ->
            LowerChain(n, "rep", n + 2, Looped(n, rules, item), Append(lead, loop))
       [] el.k = "rep" /\ el.max = el.min -> LowerChain(n, "rep", n + 1, rules, lead)
       [] OTHER -> LowerChain(n, "rep", n + 2 * depth, NestRules(n, depth, item, rules),
                              Append(lead, nest))
LowerCounted(el, in) == LowerOver(el, in.st.n, in.st.rules, in.el)

(* Elements in the order they are written, each helper after what is in it. *)
PutElement(so, one) == [st |-> one.st, seq |-> Append(so.seq, one.el)]
PutSeq(so, one) == [st |-> one.st, alts |-> Append(so.alts, one.seq)]

RECURSIVE Lower(_, _), LowerSeqs(_, _)
LowerSeq(seq, st) ==
  FoldLeft(LAMBDA so, el : PutElement(so, Lower(el, so.st)), [st |-> st, seq |-> <<>>], seq)
LowerSeqs(alts, st) ==
  FoldLeft(LAMBDA so, seq : PutSeq(so, LowerSeq(seq, so.st)), [st |-> st, alts |-> <<>>], alts)
Lower(el, st) ==
  CASE el.k \in {"tok", "ref"} -> [st |-> st, el |-> el]
    [] el.k = "group" -> LowerGroup(LowerSeqs(el.alts, st))
    [] OTHER -> LowerCounted(el, Lower(el.of, st))

(* Alternatives that all begin with one helper are left-factored: the helper *)
(* once, and a tail of the rule's own.  When each is a group, the tail ends  *)
(* the first group.                                                          *)
FactName == Top \o <<"fact", 1>>
Bare(alts) ==
  IF \A i \in DOMAIN alts : /\ Len(alts[i]) = 1 /\ alts[i][1].k = "group"
                            /\ Len(alts[i][1].alts) = 1
  THEN [i \in DOMAIN alts |-> alts[i][1].alts[1]]
  ELSE alts
Factors(alts) ==
  /\ Len(alts) > 1
  /\ \A i \in DOMAIN alts : alts[i] # <<>> /\ alts[i][1] = alts[1][1]
  /\ alts[1][1].k \notin {"tok", "ref"}

FactoredRules(el, tails, grouped) ==
  LET rules == tails.st.rules @@ AlternativesRules(FactName, tails.st.rules, tails.alts)
      seq == <<el, Ref(FactName)>>
      group == Gen(tails.st.n, "group")
  IN rules @@ IF grouped THEN ChainRules(group, seq) @@ ChainRules(Top, <<Ref(group)>>)
              ELSE ChainRules(Top, seq)
Factored(first, tails, grouped) == FactoredRules(first.el, LowerSeqs(tails, first.st), grouped)
Plain(in) == in.st.rules @@ AlternativesRules(Top, in.st.rules, in.alts)

Compile(alts) ==
  LET bare == Bare(alts)
      none == [n |-> 1, rules |-> <<>>]
  IN IF Factors(bare)
     THEN Factored(Lower(bare[1][1], none), [i \in DOMAIN bare |-> Tail(bare[i])], bare # alts)
     ELSE Plain(LowerSeqs(alts, none))

-----------------------------------------------------------------------------
(* The render.  The compiler's rules are read from their names.              *)

HelperKind(name) ==
  IF name[1] = "_gen" THEN IF Len(name) = 3 THEN name[3] ELSE "split"
  ELSE IF Contains(name, "fact") THEN "fact" ELSE ""

Consumed(alt) == SubSeq(alt.s, 1, Len(alt.s) - alt.b)
Taken(alt) ==
  [i \in DOMAIN Consumed(alt) |-> Tok(Consumed(alt)[i])]
    \o IF alt.to = NoRule THEN <<>> ELSE <<Ref(alt.to)>>

(* Slip, for the mutation runs: every alternate alike in what it consumes    *)
(* is one alternative.                                                       *)
NumberOfCopies_One(open, alt) == 1

(* How often an alternative stands among the alternates: its lookahead       *)
(* copies differ in what they look ahead at.                                 *)
NumberOfCopies(open, alt) ==
  LET group == SelectSeq(open, LAMBDA a : Taken(a) = Taken(alt))
  IN Max({Cardinality({j \in DOMAIN group : group[j] = group[i]}) : i \in DOMAIN group})

IsEmpty(seq) == seq = <<>>
IsSome(seq) == seq # <<>>

(* Slip: the alternatives stay in the order they were compiled to. *)
NumberOrder_Compiled(alts) == alts

(* Alternatives that push a helper, in the order of the helpers' numbers     *)
(* among their own places.                                                   *)
NumberOf(seq) ==
  IF Last(seq).k = "ref" /\ Last(seq).name[1] = "_gen" THEN Last(seq).name[2] ELSE NoBound
NumberOrder(alts) ==
  LET slots == {i \in DOMAIN alts : NumberOf(alts[i]) # NoBound}
      before(j, i) == \/ NumberOf(alts[j]) < NumberOf(alts[i])
                      \/ NumberOf(alts[j]) = NumberOf(alts[i]) /\ j < i
      rank(i) == Cardinality({j \in slots : before(j, i)})
      place(i) == Cardinality({j \in slots : j < i})
  IN [i \in DOMAIN alts |->
        IF i \in slots THEN alts[CHOOSE j \in slots : rank(j) = place(i)] ELSE alts[i]]

FirstOfEach(open) ==
  SelectSeq([i \in DOMAIN open |->
               [alt |-> open[i],
                first |-> \A j \in 1..(i - 1) : Taken(open[j]) # Taken(open[i])]],
            LAMBDA a : a.first)

SimpleAlts(open) ==
  LET each == FirstOfEach(open)
      times(alt) == [n \in 1..NumberOfCopies(open, alt) |-> Taken(alt)]
      alts == FlattenSeq([i \in DOMAIN each |-> times(each[i].alt)])
  IN SelectSeq(alts, IsEmpty) \o NumberOrder(SelectSeq(alts, IsSome))

RECURSIVE Chain(_, _)
Chain(rules, name) ==
  LET rule == rules[name]
  IN Taken(rule.open[1])
       \o IF rule.close = <<>> THEN <<>> ELSE Chain(rules, rule.close[1])

(* Slip: the alternatives are those there are rules of. *)
DispatchAlts_NoGap(rules, name) ==
  LET present == {i \in 0..Len(rules[name].open) : AltName(name, i) \in DOMAIN rules}
  IN [i \in 1..(Max(present) + 1) |-> IF (i - 1) \in present THEN Chain(rules, AltName(name, i - 1))
                                      ELSE Chain(rules, AltName(name, i))]

(* A dispatcher's alternatives: the empty one where a number is missing, or  *)
(* last.                                                                     *)
DispatchAlts(rules, name) ==
  LET present == {i \in 0..Len(rules[name].open) : AltName(name, i) \in DOMAIN rules}
      gap == present # 0..Max(present)
      empty == \E i \in DOMAIN rules[name].open : rules[name].open[i].to = NoRule
  IN [i \in 1..(Max(present) + 1) |->
        IF (i - 1) \in present THEN Chain(rules, AltName(name, i - 1)) ELSE <<>>]
     \o IF empty /\ ~gap THEN << <<>> >> ELSE <<>>

Dispatches(rules, name) ==
  \E i \in DOMAIN rules[name].open : IsPrefix(Append(name, "alt"), rules[name].open[i].to)

RawAlts(rules, name) ==
  IF Dispatches(rules, name) THEN DispatchAlts(rules, name)
  ELSE IF rules[name].close = <<>> THEN SimpleAlts(rules[name].open)
  ELSE <<Chain(rules, name)>>

(* The way on of a loop: a token it consumes, or the rule that its           *)
(* iteration pushes.                                                         *)
LoopItem(rules, name) ==
  LET on == SelectSeq(Tail(rules[name].open), LAMBDA a : a.self)[1]
  IN IF on.to = name THEN Tok(Consumed(on)[1]) ELSE Ref(rules[on.to].open[1].to)

(* Factored tails expanded back, the prefix before each. *)
RECURSIVE Expand(_, _)
Expand(rules, seq) ==
  IF IsEmpty(seq) \/ Last(seq).k = "tok" \/ HelperKind(Last(seq).name) # "fact" THEN <<seq>>
  ELSE LET tails == RawAlts(rules, Last(seq).name)
       IN FlattenSeq([i \in DOMAIN tails |-> Expand(rules, Front(seq) \o tails[i])])

(* A group that ends in its rule's own tail was as many groups. *)
SplitGroup(rules, name, seq) ==
  IF Len(seq) = 1 /\ seq[1].k = "ref" /\ HelperKind(seq[1].name) = "group"
  THEN LET inner == RawAlts(rules, seq[1].name)
           owned == /\ Len(inner) = 1 /\ IsSome(inner[1]) /\ Last(inner[1]).k = "ref"
                    /\ IsPrefix(Append(name, "fact"), Last(inner[1]).name)
           each == Expand(rules, inner[1])
       IN IF owned THEN [i \in DOMAIN each |-> <<[k |-> "grp", seq |-> each[i]]>>] ELSE <<seq>>
  ELSE <<seq>>

Alts(rules, name) ==
  LET raw == RawAlts(rules, name)
      expanded == FlattenSeq([i \in DOMAIN raw |-> Expand(rules, raw[i])])
  IN FlattenSeq([i \in DOMAIN expanded |-> SplitGroup(rules, name, expanded[i])])

(* Slip: the options are counted one by one. *)
Depth_EachNumber(rep, opt) == opt[2] - rep[2] + 1

(* From the repetition's number to the outermost option's there is a group   *)
(* and an option a level.                                                    *)
Depth(rep, opt) == Cardinality({i \in 0..(opt[2] - rep[2]) : i % 2 = 0})

(* What a repetition counts, with the item as the spec holds it. *)
RepParts(rules, name) ==
  LET seq == RawAlts(rules, name)[1]
      last == Last(seq)
      kind == IF last.k = "ref" THEN HelperKind(last.name) ELSE ""
      least == Len(seq) - 1
  IN CASE kind = "star" -> Rep(least, NoBound, LoopItem(rules, last.name))
       [] kind = "opt" -> Rep(least, least + Depth(name, last.name),
                              RawAlts(rules, Gen(name[2], "group"))[1][1])
       [] OTHER -> Rep(Len(seq), Len(seq), seq[1])

(* An element, or alternatives, as they are written. *)
RECURSIVE ReadElement(_, _)
ReadSeq(rules, seq) == [i \in DOMAIN seq |-> ReadElement(rules, seq[i])]
ReadAlts(rules, alts) == [i \in DOMAIN alts |-> ReadSeq(rules, alts[i])]
ReadElement(rules, el) ==
  CASE el.k = "grp" -> Group(<<ReadSeq(rules, el.seq)>>)
    [] el.k = "tok" -> el
    [] OTHER ->
         LET kind == HelperKind(el.name)
             alts == Alts(rules, el.name)
             parts == RepParts(rules, el.name)
         IN CASE kind = "star" -> Star(ReadElement(rules, LoopItem(rules, el.name)))
              [] kind = "plus" -> Plus(ReadElement(rules, alts[1][1]))
              [] kind = "opt" -> Opt(ReadElement(rules, SelectSeq(alts, IsSome)[1][1]))
              [] kind = "rep" -> [parts EXCEPT !.of = ReadElement(rules, @)]
              [] kind = "group" -> Group(ReadAlts(rules, alts))
              [] OTHER -> el

ReadBack(rules) == ReadAlts(rules, Alts(rules, Top))

-----------------------------------------------------------------------------
Init == written = << <<>> >> /\ spec = <<>> /\ read = <<>>

SumLen(alts) == Len(FlattenSeq(alts))
Write(el) ==
  /\ spec = <<>> /\ SumLen(written) < MaxElements
  /\ written' = Append(Front(written), Append(Last(written), el))
  /\ UNCHANGED <<spec, read>>

Slash ==
  /\ spec = <<>> /\ Len(written) < MaxAlternatives
  /\ written' = Append(written, <<>>)
  /\ UNCHANGED <<spec, read>>

(* A rule with one empty alternative at most, as a dispatcher has. *)
Compiled ==
  /\ spec = <<>>
  /\ \A i, j \in DOMAIN written : written[i] = <<>> /\ written[j] = <<>> => i = j
  /\ spec' = Compile(written)
  /\ UNCHANGED <<written, read>>

Render ==
  /\ spec # <<>> /\ read = <<>>
  /\ read' = ReadBack(spec)
  /\ UNCHANGED <<written, spec>>

Next == Slash \/ Compiled \/ Render \/ \E el \in Elements : Write(el)
Spec == Init /\ [][Next]_vars

-----------------------------------------------------------------------------
Alike(a, b) ==
  /\ DOMAIN a = DOMAIN b
  /\ \A n \in DOMAIN a :
       /\ a[n].close = b[n].close
       /\ Len(a[n].open) = Len(b[n].open)
       /\ \A alt \in ToSet(a[n].open) :
            Len(SelectSeq(a[n].open, LAMBDA o : o = alt)) = Len(SelectSeq(b[n].open, LAMBDA o : o = alt))

\* What is read back compiles to the spec it was read from, rule for rule,
\* with every helper's number, and every alternate of every rule as often:
\* no repetition count, nested option or factored tail is lost or merged,
\* and no helper-pushing alternative is put where the compiler would number
\* it otherwise ("the contract is the round trip: the text written here
\* compiles back to the spec it was written from", render.alc:33).  The
\* order of alternates that the compiler could not tell apart is not
\* claimed: the render's loss (translate.ts:56) gives it up.
RoundTrip == read # <<>> => Alike(Compile(read), spec)

\* Every alternative is read back as often as it was written, each as the
\* structure it was, and none but those (simple-alts, dispatch-alts, expand,
\* split-group).
AlternativesKept ==
  read # <<>> => /\ Len(read) = Len(written)
                 /\ \A i \in DOMAIN read :
                      Cardinality({j \in DOMAIN read : read[j] = read[i]})
                        = Cardinality({j \in DOMAIN written : written[j] = read[i]})
=============================================================================
